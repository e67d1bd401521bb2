------------------------------- MODULE MCOAuth -------------------------------
(* Two clients, the second registered for fewer scopes.                      *)
EXTENDS OAuth, TLC

CONSTANTS c1, c2, openid, email

MCClients == {c1, c2}
MCScopes == {openid, email}
MCClientScopes == (c1 :> {openid, email}) @@ (c2 :> {openid})

MCSymmetry == Permutations(Requests) \cup Permutations(Codes)
=============================================================================
