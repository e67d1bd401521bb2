----------------------------- MODULE MCAccounts -----------------------------
(* Keys, passwords and requests are interchangeable.                         *)
EXTENDS Accounts, TLC

MCSymmetry == Permutations(Keys) \cup Permutations(Passwords)
              \cup Permutations(Requests)
=============================================================================
