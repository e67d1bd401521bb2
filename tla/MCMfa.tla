------------------------------- MODULE MCMfa -------------------------------
(* Instances of Mfa for TLC.                                               *)
EXTENDS Mfa, TLC

Interchangeable ==
    Permutations(Secret) \cup Permutations(Mail) \cup Permutations(Recovery)
        \cup Permutations(Challenge) \cup Permutations(Request)

\* How many TOTP codes of a secret the user reads off.
OneCode == {1}
=============================================================================
