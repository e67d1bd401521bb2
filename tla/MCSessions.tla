----------------------------- MODULE MCSessions -----------------------------
(* Instances of Sessions for TLC.                                          *)
EXTENDS Sessions, TLC

\* Families, tokens, requests and passwords are interchangeable.
Interchangeable ==
    Permutations(Family) \cup Permutations(Token)
        \cup Permutations(Request) \cup Permutations(Password)
=============================================================================
