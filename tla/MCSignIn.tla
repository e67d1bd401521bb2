------------------------------- MODULE MCSignIn -------------------------------
(* Two identities of different providers; requests and passwords are         *)
(* interchangeable.                                                          *)
EXTENDS SignIn, TLC

MCProviderOf == [s \in Identity |-> s]

MCSymmetry == Permutations(Request) \cup Permutations(Password) \cup Permutations(Identity)
=============================================================================
