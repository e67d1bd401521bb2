---------------------------- MODULE TokenFamily ----------------------------
(***************************************************************************)
(* What refresh-token rotation promises, without requests, rows or locks:  *)
(* a family is opened once with one token; the token it holds may be       *)
(* exchanged for a fresh one or revoked; a token that was exchanged or     *)
(* revoked never comes back, and a family that lost its token without an   *)
(* exchange stays empty.                                                   *)
(***************************************************************************)
CONSTANTS Family, Token

VARIABLES
    current,  \* current[f]: the tokens of family f that can be exchanged
    spent,    \* the tokens exchanged or revoked
    born      \* the families that have been opened

familyVars == <<current, spent, born>>

Fresh(t) == t \notin spent /\ \A f \in Family : t \notin current[f]

FamilyInit ==
    /\ current = [f \in Family |-> {}]
    /\ spent = {}
    /\ born = {}

Open(f, t) ==
    /\ f \notin born
    /\ Fresh(t)
    /\ current' = [current EXCEPT ![f] = {t}]
    /\ born' = born \cup {f}
    /\ UNCHANGED spent

Exchange(f, old, new) ==
    /\ current[f] = {old}
    /\ Fresh(new)
    /\ current' = [current EXCEPT ![f] = {new}]
    /\ spent' = spent \cup {old}
    /\ UNCHANGED born

Revoke(S) ==
    /\ S \subseteq UNION {current[f] : f \in Family}
    /\ current' = [f \in Family |-> current[f] \ S]
    /\ spent' = spent \cup S
    /\ UNCHANGED born

FamilyNext ==
    \/ \E f \in Family, t \in Token : Open(f, t)
    \/ \E f \in Family, old, new \in Token : Exchange(f, old, new)
    \/ \E S \in SUBSET Token : Revoke(S)

FamilySpec == FamilyInit /\ [][FamilyNext]_familyVars
=============================================================================
