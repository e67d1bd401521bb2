-------------------------------- MODULE OneTime --------------------------------
(***************************************************************************)
(* What is promised of everything that may be used once: authorization     *)
(* codes, the links of verification and reset mails, the codes of the      *)
(* second factor and the challenge of a log-in.  A credential comes into   *)
(* being, is open for a while, and is closed by its use, its expiry or a   *)
(* newer one; closed it stays closed.  OAuth, VerificationTokens and Mfa   *)
(* implement this.                                                         *)
(***************************************************************************)
EXTENDS Naturals

CONSTANT Credential

VARIABLES
    state,  \* of each credential
    uses    \* how often each was accepted

Later == [fresh |-> {"fresh", "open", "closed"},
          open |-> {"open", "closed"},
          closed |-> {"closed"}]

Init ==
    /\ state \in [Credential -> {"fresh", "open"}]
    /\ uses = [c \in Credential |-> 0]

\* The credentials of S are created, expire, are replaced, or stay.
Pass(S) == \A c \in S : state'[c] \in Later[state[c]]

Use(c) ==
    /\ state[c] = "open"
    /\ state'[c] = "closed"
    /\ uses' = [uses EXCEPT ![c] = @ + 1]
    /\ Pass(Credential \ {c})

Next ==
    \/ UNCHANGED uses /\ Pass(Credential)
    \/ \E c \in Credential : Use(c)

Spec == Init /\ [][Next]_<<state, uses>>

-----------------------------------------------------------------------------
\* A credential is accepted once at most, and never again once it is closed.
UsedOnce == \A c \in Credential : uses[c] <= 1

ClosedUnused == \A c \in Credential : state[c] = "closed" => uses'[c] = uses[c]

ClosedStaysUnused == [][ClosedUnused]_<<state, uses>>
=============================================================================
