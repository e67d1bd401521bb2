------------------------ MODULE MCVerificationTokens ------------------------
(* Instances of VerificationTokens for TLC.                                *)
EXTENDS VerificationTokens, TLC

Interchangeable == Permutations(Request)
=============================================================================
