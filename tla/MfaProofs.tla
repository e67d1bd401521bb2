------------------------------ MODULE MfaProofs ------------------------------
(***************************************************************************)
(* Theorems about module Mfa, for any secrets, codes, challenges and limit *)
(* of attempts, whether or not the user repository returns mfaEnabled, and *)
(* for any finite number of requests in flight.                            *)
(*                                                                         *)
(* The inductive invariant says of a request, for each step it may be at,  *)
(* what its locals hold: one that is about to complete a set-up has shown  *)
(* a code of the secret it names, whatever became of that secret since.    *)
(* The attempts are counted from the moment a request passed the check.    *)
(*                                                                         *)
(* The last part is about module TotpReplay: a TOTP code is accepted once, *)
(* except at the very start of its life.                                   *)
(***************************************************************************)
EXTENDS Mfa, TotpReplay, FiniteSetTheorems, TLAPS

\* The steps of a request that presents a code, of one that works on a method
\* of the account, and of one that works on the challenge of a login.
CodeLabels == {"attempts", "findVerified", "evaluate"}
MethodLabels ==
    {"mailSetup", "replace", "replaceCommit", "proveSecret", "complete", "createChallenge"}
ChallengeLabels == {"reject", "killChallenge", "consume"}

\* A code of s was accepted.
Proven(s, h) == \E c \in {s} \X Window : h.uses[c] > 0

\* What a request at p holds in its locals x, given the history h.
Knows(x, p, h) ==
    /\ p \in MethodLabels => x.method \in Method
    /\ p \in CodeLabels => x.method \in Method \cup {"RECOVERY"}
    /\ p \in {"proveSecret", "complete"} => x.secret \in Secret
    /\ p = "complete" /\ x.method = "TOTP" => Proven(x.secret, h)
    /\ p = "evaluate" /\ x.method = "TOTP" => x.secret \in Secret
    /\ p = "consumeRecovery" => x.code \in Recovery
    /\ p \in CodeLabels \cup {"consumeRecovery", "count", "clear"} /\ x.op = "completeLogin" =>
          x.challenge \in Challenge
    /\ p \in ChallengeLabels => x.challenge \in Challenge

RequestsKnow == \A r \in Request : Knows(ctx[r], pc[r], history)

\* The code that is waited for was sent.
HistoryOK ==
    /\ history \in [sent: SUBSET Mail, uses: [Credentials -> Nat]]
    /\ mailed # None => mailed \in history.sent

\* The requests that passed the check of the attempts and are not counted yet.
GuessLabels == {"findVerified", "evaluate", "consumeRecovery", "count"}
Guessing == {r \in Request : pc[r] \in GuessLabels}

RoomLeft == attempts + Cardinality(Guessing) < MaxAttempts + Cardinality(Request)

IInv == TypeOK /\ HistoryOK /\ RequestsKnow /\ VerifiedSecretWasProven /\ RoomLeft
\* What is stored, apart from what the requests hold.
DataOK ==
    /\ account \in Method \cup {None}
    /\ secrets \in [Secret -> SecretRow]
    /\ recovery \in [Recovery -> {"fresh", "unused", "used", "gone"}]
    /\ challenges \in [Challenge -> ChallengeKey]
    /\ attempts \in Nat
    /\ mailed \in Mail \cup {None}
    /\ cooldown \in BOOLEAN
    /\ replayed \subseteq Totp
    /\ HistoryOK

ControlOK == pc \in [Request -> Labels] /\ ctx \in [Request -> Locals]

LEMMA Parts == TypeOK /\ HistoryOK <=> DataOK /\ ControlOK
BY DEF TypeOK, DataOK, ControlOK

\* The limit is a number above zero, and what is being guessed is a part of the
\* requests.
LEMMA Limits ==
    /\ MaxAttempts \in Nat /\ MaxAttempts > 0
    /\ Cardinality(Request) \in Nat
    /\ \A S \in SUBSET Request :
          /\ IsFiniteSet(S) /\ Cardinality(S) \in Nat
          /\ Cardinality(S) <= Cardinality(Request)
<1>1. MaxAttempts \in Nat /\ MaxAttempts > 0
  BY MfaAssumption
<1>2. IsFiniteSet(Request)
  BY MfaAssumption
<1>. QED
  BY <1>1, <1>2, FS_CardinalityType, FS_Subset

-----------------------------------------------------------------------------
\* The initial states: nothing is stored and nobody asks for anything.
LEMMA InitIInv == Init => IInv
<1>. SUFFICES ASSUME Init PROVE IInv
  OBVIOUS
<1>1. DataOK
  <2>1. [method |-> None, verified |-> FALSE, fresh |-> TRUE] \in SecretRow
    BY DEF SecretRow
  <2>2. [state |-> "unused", methods |-> {}, tries |-> 0] \in ChallengeKey
    BY DEF ChallengeKey
  <2>3. HistoryOK
    BY DEF Init, HistoryOK
  <2>. QED
    BY <2>1, <2>2, <2>3 DEF Init, DataOK
<1>2. ControlOK
  BY DEF Init, ControlOK, NoLocals, Locals, Labels
<1>3. RequestsKnow
  BY DEF Init, RequestsKnow, Knows, MethodLabels, CodeLabels, ChallengeLabels
<1>4. VerifiedSecretWasProven
  BY DEF Init, VerifiedSecretWasProven
<1>5. RoomLeft
  <2>1. Guessing = {}
    BY DEF Init, Guessing, GuessLabels
  <2>2. Cardinality(Guessing) = 0
    BY <2>1, FS_EmptySet
  <2>3. attempts = 0
    BY DEF Init
  <2>. QED
    BY <2>2, <2>3, Limits DEF RoomLeft
<1>. QED
  BY <1>1, <1>2, <1>3, <1>4, <1>5, Parts DEF IInv

-----------------------------------------------------------------------------
(* What is stored keeps its types.                                         *)

\* Deleting rows, and replacing a list of codes, whatever is replaced.
LEMMA DeletedType ==
    ASSUME DataOK, NEW S
    PROVE  Deleted(S) \in [Secret -> SecretRow]
BY DEF DataOK, Deleted, SecretRow

LEMMA NewListType ==
    ASSUME DataOK, NEW S, NEW L
    PROVE  NewList(S, L) \in [Recovery -> {"fresh", "unused", "used", "gone"}]
BY DEF DataOK, NewList

\* A code counted as accepted is one use more, of that code only.
LEMMA AcceptedOnce ==
    ASSUME DataOK, NEW c \in Credentials, Accepted(c)
    PROVE  /\ history'.sent = history.sent
           /\ history'.uses = [history.uses EXCEPT ![c] = @ + 1]
           /\ history'.uses \in [Credentials -> Nat]
           /\ history' \in [sent: SUBSET Mail, uses: [Credentials -> Nat]]
<1>1. history \in [sent: SUBSET Mail, uses: [Credentials -> Nat]]
  BY DEF DataOK, HistoryOK
<1>. HIDE DEF Credentials
<1>2. history' = [history EXCEPT !.uses = [history.uses EXCEPT ![c] = @ + 1]]
  BY DEF Accepted
<1>3. [history.uses EXCEPT ![c] = @ + 1] \in [Credentials -> Nat]
  BY <1>1
<1>. QED
  BY <1>1, <1>2, <1>3

LEMMA SentOne ==
    ASSUME DataOK, NEW m \in Mail, Sent(m)
    PROVE  /\ history'.sent = history.sent \cup {m}
           /\ history'.uses = history.uses
           /\ history' \in [sent: SUBSET Mail, uses: [Credentials -> Nat]]
BY DEF DataOK, HistoryOK, Sent

\* A right code is a code of the secret the request holds, not used before, or
\* the code that is waited for.
LEMMA RightIs ==
    ASSUME NEW x, NEW c, RightCode(x, c)
    PROVE  \/ /\ x.method = "TOTP" /\ x.method # "EMAIL" /\ c \notin replayed
              /\ c \in {x.secret} \X Window
              /\ x.secret \in Secret => c \in Totp
           \/ x.method = "EMAIL" /\ x.method # "TOTP" /\ c \in Mail /\ c = mailed
BY DEF RightCode, Totp

\* Spending it leaves keys of codes behind.
LEMMA SpentType ==
    ASSUME DataOK, NEW x, NEW c, x.method = "TOTP" => x.secret \in Secret,
           RightCode(x, c), SpendCode(x, c), Accepted(c)
    PROVE  /\ c \in Credentials
           /\ replayed' \subseteq Totp
           /\ mailed' \in Mail \cup {None}
           /\ HistoryOK'
<1>1. c \in Credentials
  BY RightIs DEF Credentials, Code
<1>2. history' \in [sent: SUBSET Mail, uses: [Credentials -> Nat]] /\ history'.sent = history.sent
  BY <1>1, AcceptedOnce
<1>3. replayed' \subseteq Totp /\ mailed' \in {mailed, None}
  BY RightIs DEF SpendCode, DataOK
<1>4. HistoryOK'
  BY <1>2, <1>3 DEF HistoryOK, DataOK
<1>. QED
  BY <1>1, <1>3, <1>4 DEF DataOK

\* Every step leaves what is stored typed, and a code that was accepted stays
\* accepted.
Grown == \A s \in Secret : Proven(s, history) => Proven(s, history')

LEMMA UnchangedGrows == ASSUME history' = history PROVE Grown
BY DEF Grown

LEMMA AcceptedGrows ==
    ASSUME DataOK, NEW c \in Credentials, Accepted(c)
    PROVE  Grown
<1>1. /\ history'.uses = [history.uses EXCEPT ![c] = @ + 1]
      /\ history.uses \in [Credentials -> Nat]
  BY AcceptedOnce DEF DataOK, HistoryOK
<1>2. \A d \in Credentials : history'.uses[d] >= history.uses[d]
  BY <1>1
<1>3. \A d \in Totp : d \in Credentials
  BY DEF Credentials, Code
<1>4. ASSUME NEW s \in Secret, NEW d \in {s} \X Window, history.uses[d] > 0
      PROVE  history'.uses[d] > 0
  <2>1. d \in Credentials
    BY <1>3 DEF Totp
  <2>. HIDE DEF Credentials
  <2>. QED
    BY <1>1, <1>2, <1>4, <2>1
<1>. QED
  BY <1>4 DEF Grown, Proven

\* The steps of set-up.
LEMMA SetupData ==
    ASSUME DataOK, ControlOK, RequestsKnow, NEW r \in Request,
           \/ SetupMail(r) \/ ReplaceCommit(r) \/ VerifyProveSecret(r) \/ CompleteSetup(r)
    PROVE  DataOK' /\ Grown
<1>. USE DEF DataOK
<1>1. CASE SetupMail(r)
  <2>1. PICK m \in FreshMail : mailed' = m /\ Sent(m)
    BY <1>1 DEF SetupMail
  <2>2. m \in Mail
    BY DEF FreshMail
  <2>3. /\ history'.sent = history.sent \cup {m}
        /\ history'.uses = history.uses
        /\ history' \in [sent: SUBSET Mail, uses: [Credentials -> Nat]]
    BY <2>1, <2>2, SentOne
  <2>4. HistoryOK' /\ Grown
    BY <2>1, <2>3 DEF HistoryOK, Grown, Proven
  <2>. QED
    BY <1>1, <2>1, <2>2, <2>4 DEF SetupMail, rows
<1>2. CASE ReplaceCommit(r)
  <2>0. /\ UNCHANGED <<account, recovery, redis, history>>
        /\ pc[r] = "replaceCommit"
    BY <1>2 DEF ReplaceCommit
  <2>1. ctx[r].method \in Method
    BY <2>0 DEF RequestsKnow, Knows, MethodLabels
  <2>2. secrets' \in [Secret -> SecretRow]
    <3>1. CASE UNCHANGED secrets
      BY <3>1
    <3>2. CASE ~UNCHANGED secrets
      <4>1. PICK s \in Secret :
                secrets' = [Deleted(ctx[r].seen) EXCEPT
                    ![s] = [method |-> ctx[r].method, verified |-> FALSE, fresh |-> FALSE]]
        BY <1>2, <3>2 DEF ReplaceCommit
      <4>2. [method |-> ctx[r].method, verified |-> FALSE, fresh |-> FALSE] \in SecretRow
        BY <2>1 DEF SecretRow
      <4>. QED
        BY <4>1, <4>2, DeletedType
    <3>. QED
      BY <3>1, <3>2
  <2>. QED
    BY <2>0, <2>2, UnchangedGrows DEF redis, HistoryOK
<1>3. CASE VerifyProveSecret(r)
  <2>0. pc[r] = "proveSecret" /\ UNCHANGED <<rows, challenges, attempts, cooldown>>
    BY <1>3 DEF VerifyProveSecret
  <2>1. CASE UNCHANGED <<replayed, mailed, history>>
    BY <2>0, <2>1, UnchangedGrows DEF rows, HistoryOK
  <2>2. CASE ~UNCHANGED <<replayed, mailed, history>>
    <3>1. PICK c : RightCode(ctx[r], c) /\ SpendCode(ctx[r], c) /\ Accepted(c)
      BY <1>3, <2>2 DEF VerifyProveSecret
    <3>2. ctx[r].secret \in Secret
      BY <2>0 DEF RequestsKnow, Knows
    <3>3. /\ c \in Credentials
          /\ replayed' \subseteq Totp
          /\ mailed' \in Mail \cup {None}
          /\ HistoryOK'
      BY <3>1, <3>2, SpentType
    <3>4. Grown
      BY <3>1, <3>3, AcceptedGrows
    <3>. QED
      BY <2>0, <3>3, <3>4 DEF rows
  <2>. QED
    BY <2>1, <2>2
<1>4. CASE CompleteSetup(r)
  <2>0. pc[r] = "complete" /\ UNCHANGED <<redis, history>>
    BY <1>4 DEF CompleteSetup
  <2>1. CASE UNCHANGED rows
    BY <2>0, <2>1, UnchangedGrows DEF rows, redis, HistoryOK
  <2>2. CASE ~UNCHANGED rows
    <3>1. ctx[r].method \in Method /\ ctx[r].secret \in Secret
      BY <2>0 DEF RequestsKnow, Knows, MethodLabels
    <3>2. /\ secrets' = [secrets EXCEPT ![ctx[r].secret].verified = TRUE]
          /\ account' = ctx[r].method
      BY <1>4, <2>2 DEF CompleteSetup
    <3>3. PICK L : recovery' = NewList(StoredCodes, L)
      BY <1>4, <2>2 DEF CompleteSetup
    <3>4. secrets' \in [Secret -> SecretRow]
      BY <3>1, <3>2 DEF SecretRow
    <3>. QED
      BY <2>0, <3>1, <3>2, <3>3, <3>4, NewListType, UnchangedGrows DEF redis, HistoryOK
  <2>. QED
    BY <2>1, <2>2
<1>. QED
  BY <1>1, <1>2, <1>3, <1>4

\* The steps of a login's challenge and of the code by e-mail, and expiry.
LEMMA ChallengeData ==
    ASSUME DataOK, ControlOK, RequestsKnow, NEW r \in Request,
           \/ CreateChallenge(r) \/ SendCooldown(r) \/ SendMail(r)
           \/ RejectCode(r) \/ KillChallenge(r) \/ ConsumeChallenge(r)
    PROVE  DataOK' /\ Grown
<1>. USE DEF DataOK
<1>1. CASE CreateChallenge(r)
  <2>0. /\ UNCHANGED <<rows, attempts, mailed, cooldown, replayed, history>>
        /\ pc[r] = "createChallenge"
    BY <1>1 DEF CreateChallenge
  <2>1. ctx[r].method \in Method
    BY <2>0 DEF RequestsKnow, Knows, MethodLabels
  <2>. DEFINE offered == {ctx[r].method, "EMAIL"} \cup
                  (IF \E x \in Recovery : recovery[x] = "unused" THEN {"RECOVERY"} ELSE {})
  <2>2. [state |-> "active", tries |-> 0, methods |-> offered] \in ChallengeKey
    BY <2>1 DEF ChallengeKey, Method
  <2>3. PICK c \in Challenge :
            challenges' = [challenges EXCEPT ![c] =
                [state |-> "active", tries |-> 0, methods |-> offered]]
    BY <1>1 DEF CreateChallenge
  <2>. HIDE DEF offered
  <2>4. challenges' \in [Challenge -> ChallengeKey]
    BY <2>2, <2>3
  <2>. QED
    BY <2>0, <2>4, UnchangedGrows DEF rows, HistoryOK
<1>2. CASE SendCooldown(r)
  BY <1>2, UnchangedGrows DEF SendCooldown, rows, HistoryOK
<1>3. CASE SendMail(r)
  <2>1. PICK m \in FreshMail : mailed' = m /\ Sent(m)
    BY <1>3 DEF SendMail
  <2>2. m \in Mail
    BY DEF FreshMail
  <2>3. /\ history'.sent = history.sent \cup {m}
        /\ history'.uses = history.uses
        /\ history' \in [sent: SUBSET Mail, uses: [Credentials -> Nat]]
    BY <2>1, <2>2, SentOne
  <2>4. HistoryOK' /\ Grown
    BY <2>1, <2>3 DEF HistoryOK, Grown, Proven
  <2>. QED
    BY <1>3, <2>1, <2>2, <2>4 DEF SendMail, rows
<1>4. CASE RejectCode(r)
  <2>0. /\ UNCHANGED <<rows, attempts, mailed, cooldown, replayed, history>>
        /\ pc[r] = "reject"
    BY <1>4 DEF RejectCode
  <2>1. PICK c \in Challenge : c = ctx[r].challenge
    BY <2>0 DEF RequestsKnow, Knows, ChallengeLabels
  <2>2. challenges' = [challenges EXCEPT ![c] =
            [challenges[c] EXCEPT !.tries =
                IF challenges[c].tries < MaxAttempts THEN challenges[c].tries + 1
                                                     ELSE challenges[c].tries]]
    BY <1>4, <2>1 DEF RejectCode
  <2>3. challenges[c] \in ChallengeKey
    OBVIOUS
  <2>4. [challenges[c] EXCEPT !.tries =
            IF challenges[c].tries < MaxAttempts THEN challenges[c].tries + 1
                                                 ELSE challenges[c].tries] \in ChallengeKey
    BY <2>3 DEF ChallengeKey
  <2>5. challenges' \in [Challenge -> ChallengeKey]
    BY <2>2, <2>4
  <2>. QED
    BY <2>0, <2>5, UnchangedGrows DEF rows, HistoryOK
<1>5. CASE KillChallenge(r)
  <2>0. /\ UNCHANGED <<rows, attempts, mailed, cooldown, replayed, history>>
        /\ pc[r] = "killChallenge"
    BY <1>5 DEF KillChallenge
  <2>1. PICK c \in Challenge : c = ctx[r].challenge
    BY <2>0 DEF RequestsKnow, Knows, ChallengeLabels
  <2>2. challenges' = [challenges EXCEPT ![c] =
            [challenges[c] EXCEPT !.state = "gone", !.tries = 0]]
    BY <1>5, <2>1 DEF KillChallenge
  <2>3. [challenges[c] EXCEPT !.state = "gone", !.tries = 0] \in ChallengeKey
    BY DEF ChallengeKey
  <2>4. challenges' \in [Challenge -> ChallengeKey]
    BY <2>2, <2>3
  <2>. QED
    BY <2>0, <2>4, UnchangedGrows DEF rows, HistoryOK
<1>6. CASE ConsumeChallenge(r)
  <2>0. /\ UNCHANGED <<rows, attempts, mailed, cooldown, replayed>>
        /\ pc[r] = "consume"
    BY <1>6 DEF ConsumeChallenge
  <2>1. PICK c \in Challenge : c = ctx[r].challenge
    BY <2>0 DEF RequestsKnow, Knows, ChallengeLabels
  <2>2. CASE UNCHANGED <<challenges, history>>
    BY <2>0, <2>2, UnchangedGrows DEF rows, HistoryOK
  <2>3. CASE ~UNCHANGED <<challenges, history>>
    <3>1. /\ challenges' = [challenges EXCEPT ![c] =
                [challenges[c] EXCEPT !.state = "gone", !.tries = 0]]
          /\ Accepted(c)
      BY <1>6, <2>1, <2>3 DEF ConsumeChallenge
    <3>2. [challenges[c] EXCEPT !.state = "gone", !.tries = 0] \in ChallengeKey
      BY DEF ChallengeKey
    <3>3. challenges' \in [Challenge -> ChallengeKey]
      BY <3>1, <3>2
    <3>4. c \in Credentials
      BY DEF Credentials
    <3>5. /\ history'.sent = history.sent
          /\ history' \in [sent: SUBSET Mail, uses: [Credentials -> Nat]]
          /\ Grown
      BY <3>1, <3>4, AcceptedOnce, AcceptedGrows
    <3>6. HistoryOK'
      BY <2>0, <3>5 DEF HistoryOK
    <3>. QED
      BY <2>0, <3>3, <3>5, <3>6 DEF rows
  <2>. QED
    BY <2>2, <2>3
<1>. QED
  BY <1>1, <1>2, <1>3, <1>4, <1>5, <1>6

\* The steps of a request that presents a code.
LEMMA CodeData ==
    ASSUME DataOK, ControlOK, RequestsKnow, NEW r \in Request,
           \/ Evaluate(r) \/ ConsumeRecovery(r) \/ CountAttempt(r) \/ ClearAttempts(r)
           \/ Disable(r) \/ ListCommit(r)
    PROVE  DataOK' /\ Grown
<1>. USE DEF DataOK
<1>1. CASE Evaluate(r)
  <2>0. /\ UNCHANGED <<rows, challenges, attempts, cooldown>>
        /\ pc[r] = "evaluate"
    BY <1>1 DEF Evaluate
  <2>1. CASE UNCHANGED <<replayed, mailed, history>>
    BY <2>0, <2>1, UnchangedGrows DEF rows, HistoryOK
  <2>2. CASE ~UNCHANGED <<replayed, mailed, history>>
    <3>1. PICK c : RightCode(ctx[r], c) /\ SpendCode(ctx[r], c) /\ Accepted(c)
      BY <1>1, <2>2 DEF Evaluate
    <3>2. ctx[r].method = "TOTP" => ctx[r].secret \in Secret
      BY <2>0 DEF RequestsKnow, Knows
    <3>3. /\ c \in Credentials
          /\ replayed' \subseteq Totp
          /\ mailed' \in Mail \cup {None}
          /\ HistoryOK'
      BY <3>1, <3>2, SpentType
    <3>4. Grown
      BY <3>1, <3>3, AcceptedGrows
    <3>. QED
      BY <2>0, <3>3, <3>4 DEF rows
  <2>. QED
    BY <2>1, <2>2
<1>2. CASE ConsumeRecovery(r)
  <2>0. /\ UNCHANGED <<account, secrets, redis>>
        /\ pc[r] = "consumeRecovery"
    BY <1>2 DEF ConsumeRecovery
  <2>1. PICK c \in Recovery : c = ctx[r].code
    BY <2>0 DEF RequestsKnow, Knows
  <2>2. CASE UNCHANGED <<recovery, history>>
    BY <2>0, <2>2, UnchangedGrows DEF redis, HistoryOK
  <2>3. CASE ~UNCHANGED <<recovery, history>>
    <3>1. recovery' = [recovery EXCEPT ![c] = "used"] /\ Accepted(c)
      BY <1>2, <2>1, <2>3 DEF ConsumeRecovery
    <3>2. recovery' \in [Recovery -> {"fresh", "unused", "used", "gone"}]
      BY <3>1
    <3>3. c \in Credentials
      BY DEF Credentials, Code
    <3>4. /\ history'.sent = history.sent
          /\ history' \in [sent: SUBSET Mail, uses: [Credentials -> Nat]]
          /\ Grown
      BY <3>1, <3>3, AcceptedOnce, AcceptedGrows
    <3>5. HistoryOK'
      BY <2>0, <3>4 DEF HistoryOK, redis
    <3>. QED
      BY <2>0, <3>2, <3>4, <3>5 DEF redis
  <2>. QED
    BY <2>2, <2>3
<1>3. CASE CountAttempt(r)
  BY <1>3, UnchangedGrows DEF CountAttempt, rows, HistoryOK
<1>4. CASE ClearAttempts(r)
  BY <1>4, UnchangedGrows DEF ClearAttempts, rows, HistoryOK
<1>5. CASE Disable(r)
  BY <1>5, DeletedType, NewListType, UnchangedGrows DEF Disable, redis, HistoryOK
<1>6. CASE ListCommit(r)
  <2>1. PICK L : recovery' = NewList(ctx[r].seen, L)
    BY <1>6 DEF ListCommit
  <2>. QED
    BY <1>6, <2>1, NewListType, UnchangedGrows DEF ListCommit, redis, HistoryOK
<1>. QED
  BY <1>1, <1>2, <1>3, <1>4, <1>5, <1>6

\* A key that expires.
LEMMA ExpiryData ==
    ASSUME DataOK, Expiry
    PROVE  DataOK' /\ Grown
<1>. USE DEF DataOK
<1>1. ASSUME NEW c \in Challenge, ChallengeExpires(c) PROVE DataOK' /\ Grown
  <2>1. challenges' = [challenges EXCEPT ![c] = [challenges[c] EXCEPT !.state = "gone"]]
    BY <1>1 DEF ChallengeExpires
  <2>2. [challenges[c] EXCEPT !.state = "gone"] \in ChallengeKey
    BY DEF ChallengeKey
  <2>3. challenges' \in [Challenge -> ChallengeKey]
    BY <2>1, <2>2
  <2>. QED
    BY <1>1, <2>3, UnchangedGrows DEF ChallengeExpires, rows, HistoryOK
<1>2. CASE AttemptsExpire
  BY <1>2, UnchangedGrows DEF AttemptsExpire, rows, HistoryOK
<1>3. CASE MailExpires
  BY <1>3, UnchangedGrows DEF MailExpires, rows, HistoryOK
<1>4. CASE CooldownExpires
  BY <1>4, UnchangedGrows DEF CooldownExpires, rows, HistoryOK
<1>. QED
  BY <1>1, <1>2, <1>3, <1>4 DEF Expiry

\* The steps that only move a request on.
Reads(r) ==
    \/ Arrival(r) \/ ReplaceSnapshot(r) \/ VerifyFindSecret(r) \/ CheckAttempts(r)
    \/ FindVerified(r) \/ MatchRecovery(r) \/ ListSnapshot(r) \/ Abort(r)

LEMMA ReadsChangeNothing == ASSUME NEW r, Reads(r) PROVE UNCHANGED <<rows, redis, history>>
BY DEF Reads, Arrival, Setup, VerifySetup, Login, SendCode, CompleteLogin, AccountAction,
       ReplaceSnapshot, VerifyFindSecret, CheckAttempts, FindVerified, MatchRecovery,
       ListSnapshot, Abort

LEMMA DataKeeps ==
    ASSUME DataOK, ControlOK, RequestsKnow, [Next]_vars
    PROVE  DataOK' /\ Grown
<1>1. CASE UNCHANGED <<rows, redis, history>>
  BY <1>1, UnchangedGrows DEF DataOK, rows, redis, HistoryOK
<1>2. ASSUME NEW r \in Request, Arrival(r) \/ Progress(r) \/ Abort(r)
      PROVE  DataOK' /\ Grown
  <2>1. CASE Reads(r)
    BY <1>1, <2>1, ReadsChangeNothing
  <2>2. CASE ~Reads(r)
    BY <1>2, <2>2, SetupData, ChallengeData, CodeData DEF Progress, Reads
  <2>. QED
    BY <2>1, <2>2
<1>3. CASE Expiry
  BY <1>3, ExpiryData
<1>. QED
  BY <1>1, <1>2, <1>3 DEF Next, vars

-----------------------------------------------------------------------------
(* What the requests hold.                                                 *)

\* Request r is at another step, with the locals that belong to it.
Moved(r) ==
    \E p \in Labels, x \in Locals :
        /\ Knows(x, p, history')
        /\ pc' = [pc EXCEPT ![r] = p]
        /\ ctx' = [ctx EXCEPT ![r] = x]

\* The others hold what they held: what was proven stays proven.
LEMMA OneMoves ==
    ASSUME ControlOK, RequestsKnow, Grown, NEW r \in Request, Moved(r)
    PROVE  ControlOK' /\ RequestsKnow'
<1>1. PICK p \in Labels, x \in Locals :
        /\ Knows(x, p, history')
        /\ pc' = [pc EXCEPT ![r] = p]
        /\ ctx' = [ctx EXCEPT ![r] = x]
  BY DEF Moved
<1>2. ControlOK'
  BY <1>1 DEF ControlOK
<1>3. ASSUME NEW q \in Request PROVE Knows(ctx'[q], pc'[q], history')
  <2>1. CASE q = r
    <3>1. ctx'[q] = x /\ pc'[q] = p
      BY <1>1, <2>1 DEF ControlOK
    <3>. QED
      BY <1>1, <3>1
  <2>2. CASE q # r
    <3>1. ctx'[q] = ctx[q] /\ pc'[q] = pc[q]
      BY <1>1, <2>2 DEF ControlOK
    <3>2. Knows(ctx[q], pc[q], history)
      BY DEF RequestsKnow
    <3>3. Knows(ctx[q], pc[q], history')
      BY <3>2 DEF Knows, Grown
    <3>. QED
      BY <3>1, <3>3
  <2>. QED
    BY <2>1, <2>2
<1>. QED
  BY <1>2, <1>3 DEF RequestsKnow

\* A request that ends holds nothing.
LEMMA Ends ==
    ASSUME NEW r, Finish(r)
    PROVE  Moved(r)
<1>1. NoLocals \in Locals /\ "idle" \in Labels
  BY DEF NoLocals, Locals, Labels
<1>2. Knows(NoLocals, "idle", history')
  BY DEF Knows, MethodLabels, CodeLabels, ChallengeLabels
<1>. QED
  BY <1>1, <1>2 DEF Moved, Finish, Goto

\* A request that goes on with what it holds.
LEMMA GoesOn ==
    ASSUME ControlOK, NEW r \in Request, NEW p \in Labels, Goto(r, p), UNCHANGED ctx,
           Knows(ctx[r], p, history')
    PROVE  Moved(r)
BY DEF Moved, Goto, ControlOK

\* A request whose code has been dealt with: it keeps the challenge of a login.
LEMMA Forgets ==
    ASSUME ControlOK, RequestsKnow, NEW r \in Request, NEW p \in {"clear", "count"},
           Goto(r, p), ForgetCode(r), pc[r] \in {"evaluate", "consumeRecovery"}
    PROVE  Moved(r)
<1>. DEFINE x == [NoLocals EXCEPT !.op = ctx[r].op, !.challenge = ctx[r].challenge]
<1>1. x \in Locals /\ x.op = ctx[r].op /\ x.challenge = ctx[r].challenge
  BY DEF ControlOK, Locals, NoLocals
<1>2. Knows(ctx[r], pc[r], history)
  BY DEF RequestsKnow
<1>3. ctx[r].op = "completeLogin" => ctx[r].challenge \in Challenge
  BY <1>2 DEF Knows, CodeLabels
<1>4. ctx' = [ctx EXCEPT ![r] = x] /\ pc' = [pc EXCEPT ![r] = p]
  BY DEF ForgetCode, Goto
<1>. HIDE DEF x
<1>5. Knows(x, p, history')
  BY <1>1, <1>3 DEF Knows, MethodLabels, CodeLabels, ChallengeLabels
<1>6. p \in Labels
  BY DEF Labels
<1>. QED
  BY <1>1, <1>4, <1>5, <1>6 DEF Moved

\* A request that arrives holds what its handler takes from the request and
\* the account.
LEMMA ArrivalMoves ==
    ASSUME DataOK, NEW r \in Request, Arrival(r)
    PROVE  Moved(r)
<1>. USE DEF Knows, MethodLabels, CodeLabels, ChallengeLabels
<1>0. ReadMethod \in Method \cup {None}
  BY DEF DataOK, ReadMethod
<1>1. CASE Setup(r)
  <2>1. PICK m \in Method :
            /\ ctx' = [ctx EXCEPT ![r] = [NoLocals EXCEPT !.op = "setup", !.method = m]]
            /\ Goto(r, IF m = "EMAIL" THEN "mailSetup" ELSE "replace")
    BY <1>1 DEF Setup
  <2>2. [NoLocals EXCEPT !.op = "setup", !.method = m] \in Locals
    BY DEF Locals, NoLocals, Operations
  <2>3. \A p \in {"mailSetup", "replace"} :
            /\ p \in Labels
            /\ Knows([NoLocals EXCEPT !.op = "setup", !.method = m], p, history')
    BY DEF NoLocals, Labels
  <2>. QED
    BY <2>1, <2>2, <2>3 DEF Moved, Goto
<1>2. CASE VerifySetup(r)
  <2>1. [NoLocals EXCEPT !.op = "verifySetup"] \in Locals /\ "findSecret" \in Labels
    BY DEF Locals, NoLocals, Operations, Labels
  <2>2. Knows([NoLocals EXCEPT !.op = "verifySetup"], "findSecret", history')
    OBVIOUS
  <2>. QED
    BY <1>2, <2>1, <2>2 DEF Moved, Goto, VerifySetup
<1>3. CASE Login(r)
  <2>1. PICK m \in Method : m = ReadMethod
    BY <1>0, <1>3 DEF Login
  <2>2. [NoLocals EXCEPT !.op = "login", !.method = m] \in Locals /\ "createChallenge" \in Labels
    BY DEF Locals, NoLocals, Operations, Labels
  <2>3. Knows([NoLocals EXCEPT !.op = "login", !.method = m], "createChallenge", history')
    BY DEF NoLocals
  <2>. QED
    BY <1>3, <2>1, <2>2, <2>3 DEF Moved, Goto, Login
<1>4. CASE SendCode(r)
  <2>1. [NoLocals EXCEPT !.op = "sendCode"] \in Locals /\ "cooldown" \in Labels
    BY DEF Locals, NoLocals, Operations, Labels
  <2>2. Knows([NoLocals EXCEPT !.op = "sendCode"], "cooldown", history')
    OBVIOUS
  <2>. QED
    BY <1>4, <2>1, <2>2 DEF Moved, Goto, SendCode
<1>5. CASE CompleteLogin(r)
  <2>0. PICK c \in Challenge : \E m \in challenges[c].methods :
            ctx' = [ctx EXCEPT ![r] =
                  [NoLocals EXCEPT !.op = "completeLogin", !.method = m, !.challenge = c]]
    BY <1>5 DEF CompleteLogin
  <2>1. PICK m \in challenges[c].methods :
            ctx' = [ctx EXCEPT ![r] =
                  [NoLocals EXCEPT !.op = "completeLogin", !.method = m, !.challenge = c]]
    BY <2>0
  <2>2. m \in Method \cup {"RECOVERY"}
    BY DEF DataOK, ChallengeKey
  <2>. DEFINE x == [NoLocals EXCEPT !.op = "completeLogin", !.method = m, !.challenge = c]
  <2>3. x \in Locals /\ "attempts" \in Labels
    BY <2>2 DEF Locals, NoLocals, Operations, Labels
  <2>4. Knows(x, "attempts", history')
    BY <2>2 DEF NoLocals
  <2>. QED
    BY <1>5, <2>1, <2>3, <2>4 DEF Moved, Goto, CompleteLogin
<1>6. CASE AccountAction(r)
  <2>1. PICK op \in {"disable", "regenerate"}, m \in {ReadMethod, "RECOVERY"} :
            /\ ctx' = [ctx EXCEPT ![r] = [NoLocals EXCEPT !.op = op, !.method = m]]
            /\ Goto(r, "attempts")
    BY <1>6 DEF AccountAction
  <2>2. m \in Method \cup {"RECOVERY"}
    BY <1>0, <1>6 DEF AccountAction
  <2>. DEFINE x == [NoLocals EXCEPT !.op = op, !.method = m]
  <2>3. x \in Locals /\ "attempts" \in Labels
    BY <2>2 DEF Locals, NoLocals, Operations, Labels
  <2>4. Knows(x, "attempts", history')
    BY <2>2 DEF NoLocals
  <2>. QED
    BY <2>1, <2>3, <2>4 DEF Moved, Goto
<1>. QED
  BY <1>1, <1>2, <1>3, <1>4, <1>5, <1>6 DEF Arrival

\* The steps of set-up, of a login's challenge and of the code by e-mail.
LEMMA SetupMoves ==
    ASSUME DataOK, ControlOK, RequestsKnow, Grown, NEW r \in Request,
           \/ SetupMail(r) \/ ReplaceSnapshot(r) \/ ReplaceCommit(r)
           \/ VerifyFindSecret(r) \/ VerifyProveSecret(r) \/ CompleteSetup(r)
           \/ CreateChallenge(r) \/ SendCooldown(r) \/ SendMail(r)
    PROVE  Moved(r)
<1>. USE DEF MethodLabels, CodeLabels, ChallengeLabels
<1>0. Knows(ctx[r], pc[r], history) /\ ctx[r] \in Locals
  BY DEF RequestsKnow, ControlOK
<1>1. CASE SetupMail(r)
  <2>1. Knows(ctx[r], "replace", history') /\ "replace" \in Labels
    BY <1>0, <1>1 DEF SetupMail, Knows, Labels
  <2>. QED
    BY <1>1, <2>1, GoesOn DEF SetupMail
<1>2. CASE ReplaceSnapshot(r)
  <2>1. ctx' = [ctx EXCEPT ![r] = [ctx[r] EXCEPT !.seen = Stored]]
    BY <1>2 DEF ReplaceSnapshot
  <2>2. [ctx[r] EXCEPT !.seen = Stored] \in Locals
    BY <1>0 DEF Locals, Stored
  <2>3. Knows([ctx[r] EXCEPT !.seen = Stored], "replaceCommit", history')
        /\ "replaceCommit" \in Labels
    BY <1>0, <1>2 DEF ReplaceSnapshot, Knows, Locals, Labels
  <2>. QED
    BY <1>2, <2>1, <2>2, <2>3 DEF ReplaceSnapshot, Goto, Moved
<1>3. CASE ReplaceCommit(r)
  BY <1>3, Ends DEF ReplaceCommit
<1>4. CASE VerifyFindSecret(r)
  <2>1. CASE Finish(r)
    BY <2>1, Ends
  <2>2. CASE ~Finish(r)
    <3>1. PICK s \in Stored : ctx' = [ctx EXCEPT ![r] =
                [ctx[r] EXCEPT !.secret = s, !.method = secrets[s].method]]
      BY <1>4, <2>2 DEF VerifyFindSecret
    <3>2. PICK m \in Method : m = secrets[s].method
      BY DEF Stored, DataOK, SecretRow
    <3>. DEFINE x == [ctx[r] EXCEPT !.secret = s, !.method = m]
    <3>3. s \in Secret
      BY DEF Stored
    <3>4. x \in Locals /\ x.secret = s /\ x.method = m
      BY <1>0, <3>3 DEF Locals
    <3>5. ctx' = [ctx EXCEPT ![r] = x] /\ Goto(r, "proveSecret")
      BY <1>4, <2>2, <3>1, <3>2 DEF VerifyFindSecret
    <3>. HIDE DEF x
    <3>6. Knows(x, "proveSecret", history') /\ "proveSecret" \in Labels
      BY <3>3, <3>4 DEF Knows, Labels
    <3>. QED
      BY <3>4, <3>5, <3>6 DEF Moved, Goto
  <2>. QED
    BY <2>1, <2>2
<1>5. CASE VerifyProveSecret(r)
  <2>1. CASE Finish(r)
    BY <2>1, Ends
  <2>2. CASE ~Finish(r)
    <3>1. PICK c \in Totp \cup Mail : RightCode(ctx[r], c) /\ Accepted(c)
      BY <1>5, <2>2 DEF VerifyProveSecret
    <3>2. Goto(r, "complete") /\ UNCHANGED ctx /\ pc[r] = "proveSecret"
      BY <1>5, <2>2 DEF VerifyProveSecret
    <3>3. ctx[r].method = "TOTP" => Proven(ctx[r].secret, history')
      <4>1. c \in Credentials
        BY DEF Credentials, Code
      <4>2. /\ history'.uses = [history.uses EXCEPT ![c] = @ + 1]
            /\ history.uses \in [Credentials -> Nat]
        BY <3>1, <4>1, AcceptedOnce DEF DataOK, HistoryOK
      <4>3. history'.uses[c] > 0
        <5>. HIDE DEF Credentials
        <5>. QED
          BY <4>1, <4>2
      <4>4. ctx[r].method = "TOTP" => c \in {ctx[r].secret} \X Window
        BY <3>1, RightIs
      <4>. QED
        BY <4>3, <4>4 DEF Proven
    <3>4. Knows(ctx[r], "complete", history') /\ "complete" \in Labels
      BY <1>0, <3>2, <3>3 DEF Knows, Labels
    <3>. QED
      BY <3>2, <3>4, GoesOn
  <2>. QED
    BY <2>1, <2>2
<1>6. CASE CompleteSetup(r)
  BY <1>6, Ends DEF CompleteSetup
<1>7. CASE CreateChallenge(r)
  BY <1>7, Ends DEF CreateChallenge
<1>8. CASE SendCooldown(r)
  <2>1. Knows(ctx[r], "mail", history') /\ "mail" \in Labels
    BY <1>0, <1>8 DEF SendCooldown, Knows, Labels
  <2>. QED
    BY <1>8, <2>1, Ends, GoesOn DEF SendCooldown
<1>9. CASE SendMail(r)
  BY <1>9, Ends DEF SendMail
<1>. QED
  BY <1>1, <1>2, <1>3, <1>4, <1>5, <1>6, <1>7, <1>8, <1>9

\* The steps of a request that presents a code.
LEMMA CodeMoves ==
    ASSUME DataOK, ControlOK, RequestsKnow, Grown, NEW r \in Request,
           \/ CheckAttempts(r) \/ FindVerified(r) \/ Evaluate(r) \/ MatchRecovery(r)
           \/ ConsumeRecovery(r) \/ CountAttempt(r) \/ RejectCode(r) \/ KillChallenge(r)
           \/ ClearAttempts(r) \/ ConsumeChallenge(r) \/ Disable(r)
           \/ ListSnapshot(r) \/ ListCommit(r)
    PROVE  Moved(r)
<1>. USE DEF MethodLabels, CodeLabels, ChallengeLabels
<1>0. Knows(ctx[r], pc[r], history) /\ ctx[r] \in Locals
  BY DEF RequestsKnow, ControlOK
<1>1. CASE CheckAttempts(r)
  <2>1. Knows(ctx[r], "findVerified", history') /\ "findVerified" \in Labels
    BY <1>0, <1>1 DEF CheckAttempts, Knows, Labels
  <2>. QED
    BY <1>1, <2>1, Ends, GoesOn DEF CheckAttempts
<1>2. CASE FindVerified(r)
  <2>1. CASE Finish(r)
    BY <2>1, Ends
  <2>2. CASE ~Finish(r)
    <3>1. PICK s \in Stored : ctx' = [ctx EXCEPT ![r] = [ctx[r] EXCEPT !.secret =
                IF ctx[r].method = "TOTP" THEN s ELSE None]]
      BY <1>2, <2>2 DEF FindVerified
    <3>2. s \in Secret
      BY DEF Stored
    <3>3. PICK t \in Secret \cup {None} : t = IF ctx[r].method = "TOTP" THEN s ELSE None
      BY <3>2
    <3>. DEFINE x == [ctx[r] EXCEPT !.secret = t]
    <3>4. /\ x \in Locals /\ x.secret = t /\ x.method = ctx[r].method
          /\ x.op = ctx[r].op /\ x.challenge = ctx[r].challenge
      BY <1>0 DEF Locals
    <3>5. ctx' = [ctx EXCEPT ![r] = x] /\ Goto(r, "evaluate") /\ pc[r] = "findVerified"
      BY <1>2, <2>2, <3>1, <3>3 DEF FindVerified
    <3>. HIDE DEF x
    <3>6. Knows(x, "evaluate", history') /\ "evaluate" \in Labels
      BY <1>0, <3>2, <3>3, <3>4, <3>5 DEF Knows, Labels
    <3>. QED
      BY <3>4, <3>5, <3>6 DEF Moved, Goto
  <2>. QED
    BY <2>1, <2>2
<1>3. CASE Evaluate(r)
  BY <1>3, Forgets DEF Evaluate
<1>4. CASE MatchRecovery(r)
  <2>1. CASE ForgetCode(r) /\ Goto(r, "count")
    BY <1>4, <2>1, Forgets DEF MatchRecovery
  <2>2. CASE ~(ForgetCode(r) /\ Goto(r, "count"))
    <3>1. PICK c \in Recovery : ctx' = [ctx EXCEPT ![r] = [ctx[r] EXCEPT !.code = c]]
      BY <1>4, <2>2 DEF MatchRecovery
    <3>. DEFINE x == [ctx[r] EXCEPT !.code = c]
    <3>2. Goto(r, "consumeRecovery") /\ pc[r] = "evaluate"
      BY <1>4, <2>2 DEF MatchRecovery
    <3>3. x \in Locals /\ x.code = c /\ x.op = ctx[r].op /\ x.challenge = ctx[r].challenge
      BY <1>0 DEF Locals, Code
    <3>4. ctx' = [ctx EXCEPT ![r] = x]
      BY <3>1
    <3>. HIDE DEF x
    <3>5. Knows(x, "consumeRecovery", history') /\ "consumeRecovery" \in Labels
      BY <1>0, <3>2, <3>3 DEF Knows, Labels
    <3>. QED
      BY <3>2, <3>3, <3>4, <3>5 DEF Moved, Goto
  <2>. QED
    BY <2>1, <2>2
<1>5. CASE ConsumeRecovery(r)
  BY <1>5, Forgets DEF ConsumeRecovery
<1>6. CASE CountAttempt(r)
  <2>1. CASE Finish(r)
    BY <2>1, Ends
  <2>2. CASE ~Finish(r)
    <3>1. Goto(r, "reject") /\ UNCHANGED ctx /\ ctx[r].op = "completeLogin" /\ pc[r] = "count"
      BY <1>6, <2>2 DEF CountAttempt
    <3>2. Knows(ctx[r], "reject", history') /\ "reject" \in Labels
      BY <1>0, <3>1 DEF Knows, Labels
    <3>. QED
      BY <3>1, <3>2, GoesOn
  <2>. QED
    BY <2>1, <2>2
<1>7. CASE RejectCode(r)
  <2>1. Knows(ctx[r], "killChallenge", history') /\ "killChallenge" \in Labels
    BY <1>0, <1>7 DEF RejectCode, Knows, Labels
  <2>2. Finish(r) \/ (Goto(r, "killChallenge") /\ UNCHANGED ctx)
    BY <1>7 DEF RejectCode
  <2>. QED
    BY <2>1, <2>2, Ends, GoesOn
<1>8. CASE KillChallenge(r)
  BY <1>8, Ends DEF KillChallenge
<1>9. CASE ClearAttempts(r)
  <2>1. PICK p \in {"consume", "disableTx", "listSnapshot"} :
            p = CASE ctx[r].op = "completeLogin" -> "consume"
                  [] ctx[r].op = "disable" -> "disableTx"
                  [] OTHER -> "listSnapshot"
    OBVIOUS
  <2>2. Goto(r, p) /\ UNCHANGED ctx /\ pc[r] = "clear"
    BY <1>9, <2>1 DEF ClearAttempts
  <2>3. p = "consume" => ctx[r].op = "completeLogin"
    BY <2>1
  <2>4. Knows(ctx[r], p, history') /\ p \in Labels
    BY <1>0, <2>2, <2>3 DEF Knows, Labels
  <2>. QED
    BY <2>2, <2>4, GoesOn
<1>10. CASE ConsumeChallenge(r)
  BY <1>10, Ends DEF ConsumeChallenge
<1>11. CASE Disable(r)
  BY <1>11, Ends DEF Disable
<1>12. CASE ListSnapshot(r)
  <2>1. ctx' = [ctx EXCEPT ![r] = [ctx[r] EXCEPT !.seen = StoredCodes]]
    BY <1>12 DEF ListSnapshot
  <2>2. [ctx[r] EXCEPT !.seen = StoredCodes] \in Locals
    BY <1>0 DEF Locals, StoredCodes
  <2>3. Knows([ctx[r] EXCEPT !.seen = StoredCodes], "listCommit", history')
        /\ "listCommit" \in Labels
    BY DEF Knows, Labels
  <2>. QED
    BY <1>12, <2>1, <2>2, <2>3 DEF ListSnapshot, Goto, Moved
<1>13. CASE ListCommit(r)
  BY <1>13, Ends DEF ListCommit
<1>. QED
  BY <1>1, <1>2, <1>3, <1>4, <1>5, <1>6, <1>7, <1>8, <1>9, <1>10, <1>11, <1>12, <1>13

LEMMA ControlKeeps ==
    ASSUME DataOK, ControlOK, RequestsKnow, [Next]_vars
    PROVE  ControlOK' /\ RequestsKnow'
<1>0. Grown
  BY DataKeeps
<1>1. CASE UNCHANGED <<pc, ctx>>
  BY <1>0, <1>1 DEF ControlOK, RequestsKnow, Knows, Grown
<1>2. ASSUME NEW r \in Request, Arrival(r) \/ Progress(r) \/ Abort(r)
      PROVE  ControlOK' /\ RequestsKnow'
  <2>1. CASE Arrival(r)
    BY <1>0, <2>1, ArrivalMoves, OneMoves
  <2>2. CASE Progress(r)
    BY <1>0, <2>2, SetupMoves, CodeMoves, OneMoves DEF Progress
  <2>3. CASE Abort(r)
    BY <1>0, <2>3, Ends, OneMoves DEF Abort
  <2>. QED
    BY <1>2, <2>1, <2>2, <2>3
<1>3. Expiry => UNCHANGED <<pc, ctx>>
  BY DEF Expiry, ChallengeExpires, AttemptsExpire, MailExpires, CooldownExpires
<1>. QED
  BY <1>1, <1>2, <1>3 DEF Next, vars

-----------------------------------------------------------------------------
(* A verified secret was proven.                                           *)

\* No secret becomes verified with a method it did not have, except the one of
\* which a code was accepted.
LEMMA ProvenStays ==
    ASSUME VerifiedSecretWasProven, Grown,
           \A s \in Secret :
              secrets'[s].verified /\ secrets'[s].method = "TOTP" =>
                 \/ secrets[s].verified /\ secrets[s].method = "TOTP"
                 \/ Proven(s, history)
    PROVE  VerifiedSecretWasProven'
BY DEF VerifiedSecretWasProven, Grown, Proven

LEMMA DeletedProven ==
    ASSUME DataOK, NEW S, NEW s \in Secret, Deleted(S)[s].verified
    PROVE  Deleted(S)[s] = secrets[s]
<1>1. s \notin S
  BY DEF Deleted, DataOK, SecretRow
<1>. QED
  BY <1>1 DEF Deleted

LEMMA ProvenKeeps ==
    ASSUME DataOK, ControlOK, RequestsKnow, VerifiedSecretWasProven, [Next]_vars
    PROVE  VerifiedSecretWasProven'
<1>0. Grown
  BY DataKeeps
<1>1. CASE UNCHANGED secrets
  BY <1>0, <1>1, ProvenStays
<1>2. ASSUME NEW r \in Request, ReplaceCommit(r) PROVE VerifiedSecretWasProven'
  <2>1. CASE ~UNCHANGED secrets
    <3>1. PICK s \in Secret :
              secrets' = [Deleted(ctx[r].seen) EXCEPT
                  ![s] = [method |-> ctx[r].method, verified |-> FALSE, fresh |-> FALSE]]
      BY <1>2, <2>1 DEF ReplaceCommit
    <3>2. Deleted(ctx[r].seen) \in [Secret -> SecretRow]
      BY DeletedType
    <3>3. ~secrets'[s].verified
      BY <3>1, <3>2
    <3>4. \A t \in Secret \ {s} : secrets'[t] = Deleted(ctx[r].seen)[t]
      BY <3>1, <3>2
    <3>5. \A t \in Secret : secrets'[t].verified => secrets'[t] = secrets[t]
      BY <3>3, <3>4, DeletedProven
    <3>. QED
      BY <1>0, <3>5, ProvenStays
  <2>. QED
    BY <1>1, <2>1
<1>3. ASSUME NEW r \in Request, CompleteSetup(r) PROVE VerifiedSecretWasProven'
  <2>1. CASE ~UNCHANGED secrets
    <3>1. PICK s \in Secret : s = ctx[r].secret
      BY <1>3 DEF CompleteSetup, RequestsKnow, Knows
    <3>2. /\ secrets[s].method = ctx[r].method
          /\ secrets' = [secrets EXCEPT ![s].verified = TRUE]
      BY <1>3, <2>1, <3>1 DEF CompleteSetup, rows
    <3>3. secrets[s].method = "TOTP" => Proven(s, history)
      BY <1>3, <3>1, <3>2 DEF CompleteSetup, RequestsKnow, Knows
    <3>4. secrets'[s].method = secrets[s].method /\ \A t \in Secret \ {s} : secrets'[t] = secrets[t]
      BY <3>2 DEF DataOK, SecretRow
    <3>. QED
      BY <1>0, <3>3, <3>4, ProvenStays
  <2>. QED
    BY <1>1, <2>1
<1>4. ASSUME NEW r \in Request, Disable(r) PROVE VerifiedSecretWasProven'
  <2>1. \A t \in Secret : secrets'[t].verified => secrets'[t] = secrets[t]
    BY <1>4, DeletedProven DEF Disable
  <2>. QED
    BY <1>0, <2>1, ProvenStays
<1>5. ASSUME NEW r \in Request, Arrival(r) \/ Progress(r) \/ Abort(r),
             ~ReplaceCommit(r), ~CompleteSetup(r), ~Disable(r)
      PROVE  UNCHANGED secrets
  <2>1. CASE Reads(r)
    BY <2>1, ReadsChangeNothing DEF rows
  <2>2. CASE ~Reads(r)
    BY <1>5, <2>2 DEF Reads, Progress, rows, SetupMail, VerifyProveSecret, CreateChallenge,
           SendCooldown, SendMail, Evaluate, ConsumeRecovery, CountAttempt, RejectCode,
           KillChallenge, ClearAttempts, ConsumeChallenge, ListCommit
  <2>. QED
    BY <2>1, <2>2
<1>6. Expiry => UNCHANGED secrets
  BY DEF Expiry, ChallengeExpires, AttemptsExpire, MailExpires, CooldownExpires, rows
<1>7. UNCHANGED vars => UNCHANGED secrets
  BY DEF vars, rows
<1>. QED
  BY <1>1, <1>2, <1>3, <1>4, <1>5, <1>6, <1>7 DEF Next

-----------------------------------------------------------------------------
(* The attempts.                                                           *)

\* Room is left where the counter does not grow and no guess is added, or where
\* it has just been found below the limit: the requests are not more than they
\* are.
LEMMA RoomStays ==
    ASSUME attempts \in Nat, attempts' \in Nat, RoomLeft,
           \/ attempts' < MaxAttempts
           \/ attempts' <= attempts /\ Guessing' \subseteq Guessing
    PROVE  RoomLeft'
<1>1. Guessing \in SUBSET Request /\ Guessing' \in SUBSET Request
  BY DEF Guessing
<1>2. /\ Cardinality(Guessing) \in Nat /\ Cardinality(Guessing') \in Nat
      /\ Cardinality(Guessing') <= Cardinality(Request)
      /\ IsFiniteSet(Guessing)
  BY <1>1, Limits
<1>3. CASE attempts' < MaxAttempts
  BY <1>2, <1>3, Limits DEF RoomLeft
<1>4. CASE attempts' <= attempts /\ Guessing' \subseteq Guessing
  <2>1. Cardinality(Guessing') <= Cardinality(Guessing)
    BY <1>2, <1>4, FS_Subset
  <2>. QED
    BY <1>2, <1>4, <2>1, Limits DEF RoomLeft
<1>. QED
  BY <1>3, <1>4

\* A wrong code is counted: one guess less, one attempt more.
LEMMA RoomCounted ==
    ASSUME ControlOK, attempts \in Nat, RoomLeft, NEW r \in Request, CountAttempt(r)
    PROVE  RoomLeft'
<1>1. /\ pc[r] = "count" /\ attempts' = attempts + 1
      /\ pc' = [pc EXCEPT ![r] = "reject"] \/ pc' = [pc EXCEPT ![r] = "idle"]
  BY DEF CountAttempt, Goto, Finish
<1>2. r \in Guessing /\ Guessing \in SUBSET Request
  BY <1>1 DEF Guessing, GuessLabels
<1>3. Guessing' = Guessing \ {r}
  BY <1>1 DEF Guessing, GuessLabels, ControlOK
<1>4. /\ Cardinality(Guessing) \in Nat
      /\ Cardinality(Guessing \ {r}) = Cardinality(Guessing) - 1
  BY <1>2, Limits, FS_RemoveElement
<1>. QED
  BY <1>1, <1>3, <1>4, Limits DEF RoomLeft

\* The steps that neither count nor clear leave the counter alone.
LEMMA AttemptsStay ==
    ASSUME NEW r, Arrival(r) \/ Progress(r) \/ Abort(r), ~CountAttempt(r), ~ClearAttempts(r)
    PROVE  UNCHANGED attempts
<1>1. CASE Reads(r)
  BY <1>1, ReadsChangeNothing DEF redis
<1>2. CASE ~Reads(r)
  BY <1>2 DEF Reads, Progress, redis, SetupMail, ReplaceCommit, VerifyProveSecret,
         CompleteSetup, CreateChallenge, SendCooldown, SendMail, Evaluate, ConsumeRecovery,
         RejectCode, KillChallenge, ConsumeChallenge, Disable, ListCommit
<1>. QED
  BY <1>1, <1>2

\* A request starts to guess only by the check of the attempts.
LEMMA GuessesStay ==
    ASSUME ControlOK, NEW r \in Request, Arrival(r) \/ Progress(r) \/ Abort(r), ~CheckAttempts(r)
    PROVE  Guessing' \subseteq Guessing
<1>1. ASSUME NEW p, pc' = [pc EXCEPT ![r] = p], p \notin GuessLabels \/ pc[r] \in GuessLabels
      PROVE  Guessing' \subseteq Guessing
  BY <1>1 DEF ControlOK, Guessing
<1>2. ASSUME Finish(r) PROVE Guessing' \subseteq Guessing
  BY <1>1, <1>2 DEF Finish, Goto, GuessLabels
<1>3. CASE Arrival(r)
  <2>1. PICK p \in {"mailSetup", "replace", "findSecret", "createChallenge", "cooldown", "attempts"} :
            pc' = [pc EXCEPT ![r] = p]
    BY <1>3 DEF Arrival, Setup, VerifySetup, Login, SendCode, CompleteLogin, AccountAction, Goto
  <2>. QED
    BY <1>1, <2>1 DEF GuessLabels
<1>4. CASE \/ SetupMail(r) \/ ReplaceSnapshot(r) \/ ReplaceCommit(r)
           \/ VerifyFindSecret(r) \/ VerifyProveSecret(r) \/ CompleteSetup(r)
           \/ CreateChallenge(r) \/ SendCooldown(r) \/ SendMail(r)
           \/ RejectCode(r) \/ KillChallenge(r) \/ ClearAttempts(r) \/ ConsumeChallenge(r)
           \/ Disable(r) \/ ListSnapshot(r) \/ ListCommit(r) \/ Abort(r)
  <2>1. CASE ~Finish(r)
    <3>1. PICK p \in {"replace", "replaceCommit", "proveSecret", "complete", "mail",
                      "killChallenge", "consume", "disableTx", "listSnapshot", "listCommit"} :
              pc' = [pc EXCEPT ![r] = p]
      BY <1>4, <2>1 DEF SetupMail, ReplaceSnapshot, ReplaceCommit, VerifyFindSecret,
             VerifyProveSecret, CompleteSetup, CreateChallenge, SendCooldown, SendMail,
             RejectCode, KillChallenge, ClearAttempts, ConsumeChallenge, Disable, ListSnapshot,
             ListCommit, Abort, Goto
    <3>. QED
      BY <1>1, <3>1 DEF GuessLabels
  <2>. QED
    BY <1>2, <2>1
<1>5. CASE FindVerified(r) \/ Evaluate(r) \/ MatchRecovery(r) \/ ConsumeRecovery(r) \/ CountAttempt(r)
  <2>1. pc[r] \in GuessLabels
    BY <1>5 DEF FindVerified, Evaluate, MatchRecovery, ConsumeRecovery, CountAttempt, GuessLabels
  <2>2. PICK p : pc' = [pc EXCEPT ![r] = p]
    BY <1>5 DEF FindVerified, Evaluate, MatchRecovery, ConsumeRecovery, CountAttempt, Goto, Finish
  <2>. QED
    BY <1>1, <2>1, <2>2
<1>. QED
  BY <1>3, <1>4, <1>5 DEF Progress

LEMMA RoomKeeps ==
    ASSUME DataOK, ControlOK, RequestsKnow, RoomLeft, [Next]_vars
    PROVE  RoomLeft'
<1>0. attempts \in Nat /\ attempts' \in Nat
  BY DataKeeps DEF DataOK
<1>1. ASSUME NEW r \in Request, Arrival(r) \/ Progress(r) \/ Abort(r) PROVE RoomLeft'
  <2>1. CASE CountAttempt(r)
    BY <1>0, <2>1, RoomCounted
  <2>2. CASE ClearAttempts(r)
    BY <1>0, <2>2, RoomStays, Limits DEF ClearAttempts
  <2>3. CASE CheckAttempts(r)
    <3>1. UNCHANGED attempts
      BY <2>3 DEF CheckAttempts, redis
    <3>2. CASE attempts < MaxAttempts
      BY <1>0, <3>1, <3>2, RoomStays
    <3>3. CASE ~(attempts < MaxAttempts)
      <4>1. Finish(r)
        BY <2>3, <3>3 DEF CheckAttempts
      <4>2. Guessing' \subseteq Guessing
        BY <4>1 DEF Finish, Goto, Guessing, GuessLabels, ControlOK
      <4>. QED
        BY <1>0, <3>1, <4>2, RoomStays
    <3>. QED
      BY <3>2, <3>3
  <2>4. CASE ~CountAttempt(r) /\ ~ClearAttempts(r) /\ ~CheckAttempts(r)
    BY <1>0, <1>1, <2>4, AttemptsStay, GuessesStay, RoomStays
  <2>. QED
    BY <2>1, <2>2, <2>3, <2>4
<1>2. CASE Expiry
  <2>1. UNCHANGED pc /\ (attempts' = attempts \/ attempts' = 0)
    BY <1>2 DEF Expiry, ChallengeExpires, AttemptsExpire, MailExpires, CooldownExpires
  <2>2. Guessing' = Guessing
    BY <2>1 DEF Guessing
  <2>. QED
    BY <1>0, <2>1, <2>2, RoomStays, Limits
<1>3. CASE UNCHANGED vars
  <2>1. UNCHANGED attempts /\ Guessing' = Guessing
    BY <1>3 DEF vars, redis, Guessing
  <2>. QED
    BY <1>0, <2>1, RoomStays
<1>. QED
  BY <1>1, <1>2, <1>3 DEF Next

-----------------------------------------------------------------------------
\* The inductive invariant is kept by every step.
LEMMA StepKeeps == IInv /\ [Next]_vars => IInv'
<1>. SUFFICES ASSUME IInv, [Next]_vars PROVE IInv'
  OBVIOUS
<1>1. DataOK /\ ControlOK /\ RequestsKnow /\ VerifiedSecretWasProven /\ RoomLeft
  BY Parts DEF IInv
<1>2. DataOK' /\ ControlOK' /\ RequestsKnow' /\ VerifiedSecretWasProven' /\ RoomLeft'
  BY <1>1, DataKeeps, ControlKeeps, ProvenKeeps, RoomKeeps
<1>3. TypeOK' /\ HistoryOK'
  BY <1>2 DEF TypeOK, DataOK, ControlOK
<1>. QED
  BY <1>2, <1>3 DEF IInv

\* The inductive invariant holds from the first state on.
THEOREM Invariant == Spec => []IInv
<1>. QED
  BY InitIInv, StepKeeps, PTL DEF Spec

\* Rows, keys and locals keep their types: a request never works on a method,
\* a secret, a code or a challenge it does not hold.
THEOREM TypeCorrect == Spec => []TypeOK
<1>1. IInv => TypeOK
  BY DEF IInv
<1>. QED
  BY <1>1, Invariant, PTL

\* The attempts of an account, those evaluated and about to be counted included,
\* overrun their limit by less than the number of requests in flight.
THEOREM GuessesLimited == Spec => []GuessesBounded
<1>1. IInv => GuessesBounded
  <2>. SUFFICES ASSUME IInv PROVE GuessesBounded
    OBVIOUS
  <2>. DEFINE counting == {r \in Request : pc[r] = "count"}
  <2>1. counting \subseteq Guessing /\ Guessing \in SUBSET Request
    BY DEF Guessing, GuessLabels
  <2>2. /\ Cardinality(counting) <= Cardinality(Guessing)
        /\ Cardinality(counting) \in Nat /\ Cardinality(Guessing) \in Nat
    BY <2>1, Limits, FS_Subset
  <2>3. attempts \in Nat /\ attempts + Cardinality(Guessing) < MaxAttempts + Cardinality(Request)
    BY DEF IInv, TypeOK, RoomLeft
  <2>. HIDE DEF counting
  <2>4. attempts + Cardinality(counting) < MaxAttempts + Cardinality(Request)
    BY <2>2, <2>3, Limits
  <2>. QED
    BY <2>4 DEF GuessesBounded, counting
<1>. QED
  BY <1>1, Invariant, PTL

\* No TOTP secret becomes verified without a code of that very secret, even if
\* other set-ups replace it, or complete, in between.
THEOREM SecretsProven == Spec => []VerifiedSecretWasProven
<1>1. IInv => VerifiedSecretWasProven
  BY DEF IInv
<1>. QED
  BY <1>1, Invariant, PTL

-----------------------------------------------------------------------------
(* Every code and every challenge is used as OneTime says.                 *)

\* The states of each kind of credential, before and after a step.
LEMMA TotpState ==
    ASSUME NEW c \in Totp
    PROVE  /\ CredentialState(c) = IF c \in replayed THEN "closed" ELSE "open"
           /\ CredentialState(c)' = IF c \in replayed' THEN "closed" ELSE "open"
<1>1. c \notin Mail /\ c \notin Recovery
  BY MfaAssumption DEF Totp
<1>. QED
  BY <1>1 DEF CredentialState

LEMMA MailState ==
    ASSUME NEW c \in Mail
    PROVE  /\ CredentialState(c) = IF c = mailed THEN "open"
                                   ELSE IF c \in history.sent THEN "closed" ELSE "fresh"
           /\ CredentialState(c)' = IF c = mailed' THEN "open"
                                    ELSE IF c \in history'.sent THEN "closed" ELSE "fresh"
<1>1. c \notin Totp /\ c \notin Recovery
  BY MfaAssumption DEF Totp
<1>. QED
  BY <1>1 DEF CredentialState

RecoveryPhase == [fresh |-> "fresh", unused |-> "open", used |-> "closed", gone |-> "closed"]

LEMMA RecoveryState ==
    ASSUME NEW c \in Recovery
    PROVE  /\ CredentialState(c) = RecoveryPhase[recovery[c]]
           /\ CredentialState(c)' = RecoveryPhase[recovery'[c]]
<1>1. c \notin Totp /\ c \notin Mail
  BY MfaAssumption DEF Totp
<1>. QED
  BY <1>1 DEF CredentialState, RecoveryPhase

ChallengePhase == [unused |-> "fresh", active |-> "open", gone |-> "closed"]

LEMMA ChallengeState ==
    ASSUME NEW c \in Challenge
    PROVE  /\ CredentialState(c) = ChallengePhase[challenges[c].state]
           /\ CredentialState(c)' = ChallengePhase[challenges'[c].state]
<1>1. c \notin Totp /\ c \notin Mail /\ c \notin Recovery
  BY MfaAssumption DEF Totp
<1>. QED
  BY <1>1 DEF CredentialState, ChallengePhase

\* What a step does to each kind.
TotpOnward == replayed \subseteq replayed'

MailOnward ==
    \/ mailed' \in {mailed, None} /\ history'.sent = history.sent
    \/ \E m \in FreshMail : mailed' = m /\ history'.sent = history.sent \cup {m}

RecoveryOnward ==
    \A c \in Recovery :
        /\ recovery[c] = "unused" => recovery'[c] # "fresh"
        /\ recovery[c] \in {"used", "gone"} => recovery'[c] \in {"used", "gone"}

ChallengesOnward ==
    \A c \in Challenge :
        \/ challenges'[c].state = challenges[c].state
        \/ challenges'[c].state = "active" /\ challenges[c].state = "unused"
        \/ challenges'[c].state = "gone"

LEMMA LaterIs ==
    /\ \A s \in {"fresh", "open", "closed"} : s \in Once!Later["fresh"] /\ s \in Once!Later[s]
    /\ "closed" \in Once!Later["open"]
BY DEF Once!Later

\* So no code and no challenge comes back: fresh, open and closed follow each
\* other.
LEMMA OnwardFollows ==
    ASSUME DataOK, DataOK', TotpOnward, MailOnward, RecoveryOnward, ChallengesOnward,
           NEW c \in Credentials
    PROVE  CredentialState(c)' \in Once!Later[CredentialState(c)]
<1>1. CASE c \in Totp
  BY <1>1, TotpState, LaterIs DEF TotpOnward
<1>2. CASE c \in Mail
  <2>1. mailed # None => mailed \in history.sent
    BY DEF DataOK, HistoryOK
  <2>2. c # None
    BY <1>2, MfaAssumption
  <2>3. CASE mailed' \in {mailed, None} /\ history'.sent = history.sent
    BY <1>2, <2>1, <2>2, <2>3, MailState, LaterIs
  <2>4. ASSUME NEW m \in FreshMail, mailed' = m, history'.sent = history.sent \cup {m}
        PROVE  CredentialState(c)' \in Once!Later[CredentialState(c)]
    <3>1. m \notin history.sent
      BY DEF FreshMail
    <3>2. c = mailed => c \in history.sent
      BY <2>1, <2>2
    <3>. QED
      BY <1>2, <2>4, <3>1, <3>2, MailState, LaterIs
  <2>. QED
    BY <2>3, <2>4 DEF MailOnward
<1>3. CASE c \in Recovery
  <2>1. /\ recovery[c] \in {"fresh", "unused", "used", "gone"}
        /\ recovery'[c] \in {"fresh", "unused", "used", "gone"}
    BY <1>3 DEF DataOK
  <2>2. /\ RecoveryPhase["fresh"] = "fresh" /\ RecoveryPhase["unused"] = "open"
        /\ RecoveryPhase["used"] = "closed" /\ RecoveryPhase["gone"] = "closed"
    BY DEF RecoveryPhase
  <2>3. /\ CredentialState(c) = RecoveryPhase[recovery[c]]
        /\ CredentialState(c)' = RecoveryPhase[recovery'[c]]
    BY <1>3, RecoveryState
  <2>4. /\ recovery[c] = "unused" => recovery'[c] # "fresh"
        /\ recovery[c] \in {"used", "gone"} => recovery'[c] \in {"used", "gone"}
    BY <1>3 DEF RecoveryOnward
  <2>. QED
    BY <2>1, <2>2, <2>3, <2>4, LaterIs
<1>4. CASE c \in Challenge
  <2>1. /\ challenges[c].state \in {"unused", "active", "gone"}
        /\ challenges'[c].state \in {"unused", "active", "gone"}
    BY <1>4 DEF DataOK, ChallengeKey
  <2>2. /\ ChallengePhase["unused"] = "fresh" /\ ChallengePhase["active"] = "open"
        /\ ChallengePhase["gone"] = "closed"
    BY DEF ChallengePhase
  <2>3. /\ CredentialState(c) = ChallengePhase[challenges[c].state]
        /\ CredentialState(c)' = ChallengePhase[challenges'[c].state]
    BY <1>4, ChallengeState
  <2>4. \/ challenges'[c].state = challenges[c].state
        \/ challenges'[c].state = "active" /\ challenges[c].state = "unused"
        \/ challenges'[c].state = "gone"
    BY <1>4 DEF ChallengesOnward
  <2>. QED
    BY <2>1, <2>2, <2>3, <2>4, LaterIs
<1>. QED
  BY <1>1, <1>2, <1>3, <1>4 DEF Credentials, Code

\* A step that changes no row and no key.
LEMMA NothingOnward ==
    ASSUME UNCHANGED <<rows, redis, history>>
    PROVE  TotpOnward /\ MailOnward /\ RecoveryOnward /\ ChallengesOnward
BY DEF rows, redis, TotpOnward, MailOnward, RecoveryOnward, ChallengesOnward

\* A list takes codes that were never given out.
LEMMA NewListOnward ==
    ASSUME NEW S, NEW L \in FreshLists, recovery' = NewList(S, L)
    PROVE  RecoveryOnward
<1>1. \A c \in L : c \in Recovery /\ recovery[c] = "fresh"
  BY DEF FreshLists
<1>. QED
  BY <1>1 DEF NewList, RecoveryOnward

LEMMA RecoveryGoesOn ==
    ASSUME ControlOK, RequestsKnow, DataOK, NEW r \in Request, Progress(r)
    PROVE  RecoveryOnward
<1>1. CASE UNCHANGED recovery
  BY <1>1 DEF RecoveryOnward
<1>2. CASE CompleteSetup(r) /\ ~UNCHANGED recovery
  <2>1. PICK L \in FreshLists : recovery' = NewList(StoredCodes, L)
    BY <1>2 DEF CompleteSetup, rows
  <2>. QED
    BY <2>1, NewListOnward
<1>3. CASE ConsumeRecovery(r) /\ ~UNCHANGED recovery
  <2>1. /\ recovery[ctx[r].code] = "unused"
        /\ recovery' = [recovery EXCEPT ![ctx[r].code] = "used"]
    BY <1>3 DEF ConsumeRecovery
  <2>. QED
    BY <2>1 DEF RecoveryOnward, DataOK
<1>4. CASE Disable(r)
  BY <1>4 DEF Disable, NewList, RecoveryOnward
<1>5. CASE ListCommit(r)
  <2>1. PICK L \in FreshLists : recovery' = NewList(ctx[r].seen, L)
    BY <1>5 DEF ListCommit
  <2>. QED
    BY <2>1, NewListOnward
<1>6. CASE ~CompleteSetup(r) /\ ~ConsumeRecovery(r) /\ ~Disable(r) /\ ~ListCommit(r)
  <2>1. CASE Reads(r)
    BY <1>1, <2>1, ReadsChangeNothing DEF rows
  <2>2. CASE ~Reads(r)
    BY <1>1, <1>6, <2>2 DEF Progress, Reads, rows, SetupMail, ReplaceCommit, VerifyProveSecret,
           CreateChallenge, SendCooldown, SendMail, Evaluate, CountAttempt, RejectCode,
           KillChallenge, ClearAttempts, ConsumeChallenge
  <2>. QED
    BY <2>1, <2>2
<1>. QED
  BY <1>1, <1>2, <1>3, <1>4, <1>5, <1>6

LEMMA ChallengesGoOn ==
    ASSUME ControlOK, RequestsKnow, DataOK, NEW r \in Request, Progress(r)
    PROVE  ChallengesOnward
<1>. USE DEF ChallengesOnward
<1>0. challenges \in [Challenge -> ChallengeKey]
  BY DEF DataOK
<1>1. CASE UNCHANGED challenges
  BY <1>1
<1>2. CASE CreateChallenge(r)
  <2>1. PICK c \in Challenge :
            /\ challenges[c].state = "unused"
            /\ \E k : k.state = "active" /\ challenges' = [challenges EXCEPT ![c] = k]
    BY <1>2 DEF CreateChallenge
  <2>. QED
    BY <1>0, <2>1
<1>3. CASE RejectCode(r)
  <2>1. PICK n : challenges' = [challenges EXCEPT ![ctx[r].challenge] =
                                    [challenges[ctx[r].challenge] EXCEPT !.tries = n]]
    BY <1>3 DEF RejectCode
  <2>. QED
    BY <1>0, <2>1 DEF ChallengeKey
<1>4. CASE KillChallenge(r) \/ (ConsumeChallenge(r) /\ ~UNCHANGED challenges)
  <2>1. challenges' = [challenges EXCEPT ![ctx[r].challenge] =
            [challenges[ctx[r].challenge] EXCEPT !.state = "gone", !.tries = 0]]
    BY <1>4 DEF KillChallenge, ConsumeChallenge
  <2>. QED
    BY <1>0, <2>1 DEF ChallengeKey
<1>5. CASE ~CreateChallenge(r) /\ ~RejectCode(r) /\ ~KillChallenge(r) /\ ~ConsumeChallenge(r)
  <2>1. CASE Reads(r)
    BY <1>1, <2>1, ReadsChangeNothing DEF redis
  <2>2. CASE ~Reads(r)
    BY <1>1, <1>5, <2>2 DEF Progress, Reads, redis, SetupMail, ReplaceCommit, VerifyProveSecret,
           CompleteSetup, SendCooldown, SendMail, Evaluate, ConsumeRecovery, CountAttempt,
           ClearAttempts, Disable, ListCommit
  <2>. QED
    BY <2>1, <2>2
<1>. QED
  BY <1>1, <1>2, <1>3, <1>4, <1>5

\* Accepting a code spends it.
LEMMA SpendingOnward ==
    ASSUME DataOK, NEW x, NEW c, x.method = "TOTP" => x.secret \in Secret,
           RightCode(x, c), SpendCode(x, c), Accepted(c)
    PROVE  /\ TotpOnward /\ MailOnward
           /\ c \in Credentials
           /\ CredentialState(c) = "open" /\ CredentialState(c)' = "closed"
<1>1. c \in Credentials /\ history'.sent = history.sent
  BY SpentType, AcceptedOnce
<1>2. TotpOnward /\ MailOnward
  BY <1>1 DEF SpendCode, TotpOnward, MailOnward
<1>3. CASE x.method = "TOTP" /\ c \in Totp /\ c \notin replayed
  <2>1. c \in replayed'
    BY <1>3 DEF SpendCode
  <2>. QED
    BY <1>1, <1>2, <1>3, <2>1, TotpState
<1>4. CASE x.method = "EMAIL" /\ c \in Mail /\ c = mailed
  <2>1. mailed' = None /\ c # None /\ c \in history'.sent
    BY <1>1, <1>4, MfaAssumption DEF SpendCode, DataOK, HistoryOK
  <2>. QED
    BY <1>1, <1>2, <1>4, <2>1, MailState
<1>. QED
  BY <1>3, <1>4, RightIs

\* The steps that may use a credential, and what they do to it: nothing, or a
\* use of one that was open.
Uses(c) ==
    /\ c \in Credentials
    /\ CredentialState(c) = "open" /\ CredentialState(c)' = "closed"
    /\ Accepted(c)

LEMMA CodeUses ==
    ASSUME DataOK, RequestsKnow, NEW r \in Request, VerifyProveSecret(r) \/ Evaluate(r)
    PROVE  /\ TotpOnward /\ MailOnward
           /\ UNCHANGED history \/ \E c : Uses(c)
<1>1. CASE UNCHANGED <<replayed, mailed, history>>
  BY <1>1 DEF TotpOnward, MailOnward
<1>2. CASE ~UNCHANGED <<replayed, mailed, history>>
  <2>1. PICK c : RightCode(ctx[r], c) /\ SpendCode(ctx[r], c) /\ Accepted(c)
    BY <1>2 DEF VerifyProveSecret, Evaluate
  <2>2. ctx[r].method = "TOTP" => ctx[r].secret \in Secret
    BY DEF RequestsKnow, Knows, VerifyProveSecret, Evaluate
  <2>3. TotpOnward /\ MailOnward /\ Uses(c)
    BY <2>1, <2>2, SpendingOnward DEF Uses
  <2>. QED
    BY <2>3
<1>. QED
  BY <1>1, <1>2

LEMMA RecoveryUses ==
    ASSUME DataOK, RequestsKnow, NEW r \in Request, ConsumeRecovery(r)
    PROVE  /\ TotpOnward /\ MailOnward
           /\ UNCHANGED history \/ \E c : Uses(c)
<1>1. PICK c \in Recovery : c = ctx[r].code
  BY DEF ConsumeRecovery, RequestsKnow, Knows
<1>2. CASE UNCHANGED history
  BY <1>2 DEF ConsumeRecovery, redis, TotpOnward, MailOnward
<1>3. CASE ~UNCHANGED history
  <2>1. /\ recovery[c] = "unused"
        /\ recovery' = [recovery EXCEPT ![c] = "used"]
        /\ Accepted(c)
        /\ UNCHANGED redis
    BY <1>1, <1>3 DEF ConsumeRecovery
  <2>2. recovery'[c] = "used"
    BY <2>1 DEF DataOK
  <2>3. CredentialState(c) = "open" /\ CredentialState(c)' = "closed"
    BY <2>1, <2>2, RecoveryState DEF RecoveryPhase
  <2>4. c \in Credentials
    BY DEF Credentials, Code
  <2>5. TotpOnward /\ MailOnward
    BY <2>1, <2>4, AcceptedOnce DEF redis, TotpOnward, MailOnward
  <2>6. Uses(c)
    BY <2>1, <2>3, <2>4 DEF Uses
  <2>. QED
    BY <2>5, <2>6
<1>. QED
  BY <1>2, <1>3

LEMMA ChallengeUses ==
    ASSUME DataOK, RequestsKnow, NEW r \in Request, ConsumeChallenge(r)
    PROVE  /\ TotpOnward /\ MailOnward
           /\ UNCHANGED history \/ \E c : Uses(c)
<1>1. PICK c \in Challenge : c = ctx[r].challenge
  BY DEF ConsumeChallenge, RequestsKnow, Knows, ChallengeLabels
<1>2. CASE UNCHANGED history
  BY <1>2 DEF ConsumeChallenge, TotpOnward, MailOnward
<1>3. CASE ~UNCHANGED history
  <2>1. /\ challenges[c].state = "active"
        /\ challenges' = [challenges EXCEPT ![c] =
                [challenges[c] EXCEPT !.state = "gone", !.tries = 0]]
        /\ Accepted(c)
        /\ UNCHANGED <<mailed, replayed>>
    BY <1>1, <1>3 DEF ConsumeChallenge
  <2>2. challenges'[c].state = "gone"
    BY <2>1 DEF DataOK, ChallengeKey
  <2>3. CredentialState(c) = "open" /\ CredentialState(c)' = "closed"
    BY <2>1, <2>2, ChallengeState DEF ChallengePhase
  <2>4. c \in Credentials
    BY DEF Credentials
  <2>5. TotpOnward /\ MailOnward
    BY <2>1, <2>4, AcceptedOnce DEF TotpOnward, MailOnward
  <2>6. Uses(c)
    BY <2>1, <2>3, <2>4 DEF Uses
  <2>. QED
    BY <2>5, <2>6
<1>. QED
  BY <1>2, <1>3

\* The other steps accept nothing.
LEMMA OtherUses ==
    ASSUME DataOK, NEW r \in Request, Progress(r),
           ~VerifyProveSecret(r), ~Evaluate(r), ~ConsumeRecovery(r), ~ConsumeChallenge(r)
    PROVE  TotpOnward /\ MailOnward /\ history'.uses = history.uses
<1>1. CASE UNCHANGED <<mailed, replayed, history>>
  BY <1>1 DEF TotpOnward, MailOnward
<1>2. CASE SetupMail(r) \/ SendMail(r)
  <2>1. PICK m \in FreshMail : mailed' = m /\ Sent(m)
    BY <1>2 DEF SetupMail, SendMail
  <2>2. history'.sent = history.sent \cup {m} /\ history'.uses = history.uses
    BY <2>1, SentOne DEF FreshMail
  <2>3. UNCHANGED replayed
    BY <1>2 DEF SetupMail, SendMail
  <2>. QED
    BY <2>1, <2>2, <2>3 DEF TotpOnward, MailOnward
<1>3. CASE Reads(r)
  BY <1>1, <1>3, ReadsChangeNothing DEF redis
<1>4. CASE ~SetupMail(r) /\ ~SendMail(r) /\ ~Reads(r)
  BY <1>1, <1>4 DEF Progress, Reads, redis, ReplaceCommit, CompleteSetup, CreateChallenge,
         SendCooldown, CountAttempt, RejectCode, KillChallenge, ClearAttempts, Disable, ListCommit
<1>. QED
  BY <1>2, <1>3, <1>4

LEMMA ExpiryOnward ==
    ASSUME DataOK, Expiry
    PROVE  /\ TotpOnward /\ MailOnward /\ RecoveryOnward /\ ChallengesOnward
           /\ UNCHANGED history
<1>. USE DEF TotpOnward, MailOnward, RecoveryOnward, ChallengesOnward
<1>1. ASSUME NEW c \in Challenge, ChallengeExpires(c)
      PROVE  /\ TotpOnward /\ MailOnward /\ RecoveryOnward /\ ChallengesOnward
             /\ UNCHANGED history
  <2>1. challenges' = [challenges EXCEPT ![c] = [challenges[c] EXCEPT !.state = "gone"]]
    BY <1>1 DEF ChallengeExpires
  <2>2. ChallengesOnward
    BY <2>1 DEF DataOK, ChallengeKey
  <2>. QED
    BY <1>1, <2>2 DEF ChallengeExpires, rows
<1>2. CASE AttemptsExpire
  BY <1>2 DEF AttemptsExpire, rows
<1>3. CASE MailExpires
  BY <1>3 DEF MailExpires, rows
<1>4. CASE CooldownExpires
  BY <1>4 DEF CooldownExpires, rows
<1>. QED
  BY <1>1, <1>2, <1>3, <1>4 DEF Expiry

\* A step is one of OneTime.
LEMMA StepMaps ==
    ASSUME IInv, [Next]_vars
    PROVE  Once!Next
<1>1. DataOK /\ ControlOK /\ RequestsKnow /\ DataOK'
  BY Parts, DataKeeps DEF IInv
<1>2. /\ TotpOnward /\ MailOnward /\ RecoveryOnward /\ ChallengesOnward
      /\ history'.uses = history.uses \/ \E c : Uses(c)
  <2>1. CASE UNCHANGED <<rows, redis, history>>
    BY <2>1, NothingOnward
  <2>2. ASSUME NEW r \in Request, Progress(r)
        PROVE  /\ TotpOnward /\ MailOnward /\ RecoveryOnward /\ ChallengesOnward
               /\ history'.uses = history.uses \/ \E c : Uses(c)
    <3>1. RecoveryOnward /\ ChallengesOnward
      BY <1>1, <2>2, RecoveryGoesOn, ChallengesGoOn
    <3>2. /\ TotpOnward /\ MailOnward
          /\ history'.uses = history.uses \/ \E c : Uses(c)
      BY <1>1, <2>2, CodeUses, RecoveryUses, ChallengeUses, OtherUses
    <3>. QED
      BY <3>1, <3>2
  <2>3. ASSUME NEW r \in Request, Arrival(r) \/ Abort(r) PROVE UNCHANGED <<rows, redis, history>>
    BY <2>3, ReadsChangeNothing DEF Reads
  <2>4. CASE Expiry
    BY <1>1, <2>4, ExpiryOnward
  <2>5. CASE UNCHANGED vars
    BY <2>1, <2>5 DEF vars
  <2>. QED
    BY <2>1, <2>2, <2>3, <2>4, <2>5 DEF Next
<1>3. \A c \in Credentials : CredentialState(c)' \in Once!Later[CredentialState(c)]
  BY <1>1, <1>2, OnwardFollows
<1>4. CASE history'.uses = history.uses
  BY <1>3, <1>4 DEF Once!Next, Once!Pass
<1>5. ASSUME NEW c, Uses(c) PROVE Once!Next
  <2>1. c \in Credentials /\ CredentialState(c) = "open" /\ CredentialState(c)' = "closed"
    BY <1>5 DEF Uses
  <2>2. history'.uses = [history.uses EXCEPT ![c] = @ + 1]
    BY <1>1, <1>5, AcceptedOnce DEF Uses
  <2>3. Once!Use(c)
    BY <1>3, <2>1, <2>2 DEF Once!Use, Once!Pass
  <2>. QED
    BY <2>1, <2>3 DEF Once!Next
<1>. QED
  BY <1>2, <1>4, <1>5

\* Every code and every challenge is accepted once, whatever it is presented
\* for and however many requests present it together.
THEOREM CodesOnce == Spec => ImplementsOneTime
<1>1. Init => Once!Init
  <2>. SUFFICES ASSUME Init PROVE Once!Init
    OBVIOUS
  <2>1. \A c \in Credentials : CredentialState(c) \in {"fresh", "open"}
    <3>1. ASSUME NEW c \in Totp PROVE CredentialState(c) \in {"fresh", "open"}
      BY TotpState DEF Init
    <3>2. ASSUME NEW c \in Mail PROVE CredentialState(c) \in {"fresh", "open"}
      BY MailState DEF Init
    <3>3. ASSUME NEW c \in Recovery PROVE CredentialState(c) \in {"fresh", "open"}
      BY RecoveryState DEF Init, RecoveryPhase
    <3>4. ASSUME NEW c \in Challenge PROVE CredentialState(c) \in {"fresh", "open"}
      BY ChallengeState DEF Init, ChallengePhase
    <3>. QED
      BY <3>1, <3>2, <3>3, <3>4 DEF Credentials, Code
  <2>2. history.uses = [c \in Credentials |-> 0]
    BY DEF Init
  <2>. QED
    BY <2>1, <2>2 DEF Once!Init
<1>2. IInv /\ [Next]_vars =>
        [Once!Next]_<<[c \in Credentials |-> CredentialState(c)], history.uses>>
  BY StepMaps
<1>. QED
  BY <1>1, <1>2, Invariant, PTL DEF Spec, ImplementsOneTime, Once!Spec

-----------------------------------------------------------------------------
(* The life of a TOTP code against the life of its replay key (TotpReplay).   *)

\* The life of a code is three periods.
LEMMA CodeLife ==
  ASSUME NEW k \in Counter
  PROVE  /\ Opens(k) \in Nat
         /\ Closes(k) = Opens(k) + 90
BY TotpAssumption DEF Opens, Closes, Drift, Period

LEMMA ReplayStartsRight == ReplayInit => ReplayInv
BY TotpAssumption DEF ReplayInit, ReplayInv, ReplayTypeOK, CodeAcceptedOnce, KeyCoversCode,
                      PendingIsRecent, Idle

\* The request that sets the key is the only one whose code was accepted.
LEMMA SetReplayKeyKeeps ==
  ASSUME ReplayInv, NEW r \in Slot, SetReplayKey(r)
  PROVE  ReplayInv'
<1> DEFINE k == pending[r].code
<1>1. /\ pending[r] # Idle /\ now' = now
      /\ pending' = [pending EXCEPT ![r] = Idle]
  BY DEF SetReplayKey
<1>2. /\ k \in Counter /\ pending[r].since \in Nat /\ now \in Nat
      /\ key \in [Counter -> Nat] /\ accepted \in [Counter -> Nat]
  BY <1>1 DEF ReplayInv, ReplayTypeOK
<1>3. /\ Opens(k) \in Nat /\ Closes(k) = Opens(k) + 90
      /\ Opens(k) <= pending[r].since /\ pending[r].since < Closes(k)
      /\ pending[r].since <= now /\ now <= pending[r].since + Latency
  BY <1>1, <1>2, CodeLife DEF ReplayInv, PendingIsRecent
<1>4. ReplayTtl \in Nat /\ Latency \in Nat /\ first \in [Counter -> Nat]
  BY TotpAssumption DEF ReplayInv, ReplayTypeOK
<1>5. CASE key[k] > now /\ UNCHANGED <<key, accepted, first>>
  BY <1>1, <1>2, <1>4, <1>5
     DEF ReplayInv, ReplayTypeOK, CodeAcceptedOnce, KeyCoversCode, PendingIsRecent
<1>6. CASE /\ key[k] <= now
           /\ key' = [key EXCEPT ![k] = now + ReplayTtl]
           /\ Accept(k)
  <2>1. /\ accepted' = [accepted EXCEPT ![k] = @ + 1]
        /\ first' = IF accepted[k] = 0 THEN [first EXCEPT ![k] = now] ELSE first
    BY <1>6 DEF Accept
  <2>2. accepted[k] > 0 => first[k] + ReplayTtl < Closes(k) + Latency
    <3> SUFFICES ASSUME accepted[k] > 0
                 PROVE  first[k] + ReplayTtl < Closes(k) + Latency
      OBVIOUS
    <3>1. key[k] >= first[k] + ReplayTtl
      BY <1>2 DEF ReplayInv, KeyCoversCode
    <3>2. key[k] <= now /\ key[k] \in Nat /\ first[k] \in Nat
      BY <1>2, <1>4, <1>6
    <3> HIDE DEF k
    <3> QED BY <1>2, <1>3, <1>4, <3>1, <3>2
  <2>3. ReplayTypeOK'
    BY <1>1, <1>2, <1>4, <1>6, <2>1 DEF ReplayInv, ReplayTypeOK
  <2>4. CodeAcceptedOnce'
    <3> SUFFICES ASSUME NEW j \in Counter,
                        first'[j] + ReplayTtl >= Closes(j) + Latency
                 PROVE  accepted'[j] <= 1
      BY DEF CodeAcceptedOnce, Closes
    <3>1. CASE j = k
      <4>1. accepted[k] \in Nat /\ first[k] \in Nat /\ accepted'[k] = accepted[k] + 1
        BY <1>2, <1>4, <2>1
      <4>2. accepted[k] = 0 \/ first' = first
        BY <2>1
      <4> HIDE DEF k
      <4> QED BY <1>2, <1>3, <1>4, <2>2, <3>1, <4>1, <4>2
    <3>2. CASE j # k
      BY <1>2, <1>4, <2>1, <3>2 DEF ReplayInv, CodeAcceptedOnce
    <3> QED BY <3>1, <3>2
  <2>5. KeyCoversCode'
    <3> SUFFICES ASSUME NEW j \in Counter, accepted'[j] > 0
                 PROVE  first'[j] >= Opens(j) /\ key'[j] >= first'[j] + ReplayTtl
      BY DEF KeyCoversCode, Opens
    <3>1. CASE j = k
      <4>1. key'[k] = now + ReplayTtl
        BY <1>2, <1>6
      <4>2. CASE accepted[k] = 0
        BY <1>2, <1>3, <1>4, <2>1, <3>1, <4>1, <4>2
      <4>3. CASE accepted[k] # 0
        <5>1. first' = first /\ accepted[k] > 0
          BY <1>2, <2>1, <4>3
        <5>2. first[k] >= Opens(k) /\ key[k] >= first[k] + ReplayTtl
          BY <1>2, <5>1 DEF ReplayInv, KeyCoversCode
        <5>3. key[k] \in Nat /\ first[k] \in Nat /\ key[k] <= now
          BY <1>2, <1>4, <1>6
        <5> HIDE DEF k
        <5> QED BY <1>2, <1>3, <1>4, <3>1, <4>1, <5>1, <5>2, <5>3
      <4> QED BY <4>2, <4>3
    <3>2. CASE j # k
      BY <1>2, <1>4, <1>6, <2>1, <3>2 DEF ReplayInv, KeyCoversCode
    <3> QED BY <3>1, <3>2
  <2>6. PendingIsRecent'
    BY <1>1 DEF ReplayInv, ReplayTypeOK, PendingIsRecent
  <2> QED BY <2>3, <2>4, <2>5, <2>6 DEF ReplayInv
<1> QED BY <1>5, <1>6 DEF SetReplayKey

LEMMA ReplayStepKeeps ==
  ASSUME ReplayInv, [ReplayNext]_replayVars
  PROVE  ReplayInv'
<1>1. CASE Tick
  <2>1. now \in Nat /\ now' = now + 1 /\ UNCHANGED <<key, pending, accepted, first>>
    BY <1>1 DEF Tick, ReplayInv, ReplayTypeOK
  <2>2. PendingIsRecent'
    <3> SUFFICES ASSUME NEW r \in Slot, pending[r] # Idle
                 PROVE  /\ Opens(pending[r].code) <= pending[r].since
                        /\ pending[r].since < Closes(pending[r].code)
                        /\ pending[r].since <= now + 1
                        /\ now + 1 <= pending[r].since + Latency
      BY <2>1 DEF PendingIsRecent
    <3>1. pending[r].since \in Nat /\ now < pending[r].since + Latency
      BY <1>1 DEF Tick, ReplayInv, ReplayTypeOK
    <3> QED BY <2>1, <3>1, TotpAssumption DEF ReplayInv, PendingIsRecent
  <2> QED
    BY <2>1, <2>2 DEF ReplayInv, ReplayTypeOK, CodeAcceptedOnce, KeyCoversCode
<1>2. ASSUME NEW r \in Slot, VerifyToken(r)
      PROVE  ReplayInv'
  <2>1. PICK k \in Counter :
          /\ Opens(k) <= now /\ now < Closes(k)
          /\ pending' = [pending EXCEPT ![r] = [code |-> k, since |-> now]]
    BY <1>2 DEF VerifyToken
  <2>2. now \in Nat /\ UNCHANGED <<now, key, accepted, first>>
    BY <1>2 DEF VerifyToken, ReplayInv, ReplayTypeOK
  <2>3. ReplayTypeOK'
    BY <2>1, <2>2 DEF ReplayInv, ReplayTypeOK
  <2>4. PendingIsRecent'
    BY <2>1, <2>2, TotpAssumption DEF ReplayInv, ReplayTypeOK, PendingIsRecent
  <2> QED
    BY <2>2, <2>3, <2>4 DEF ReplayInv, CodeAcceptedOnce, KeyCoversCode
<1>3. CASE UNCHANGED replayVars
  BY <1>3 DEF replayVars, ReplayInv, ReplayTypeOK, CodeAcceptedOnce, KeyCoversCode, PendingIsRecent
<1> QED BY <1>1, <1>2, <1>3, SetReplayKeyKeeps DEF ReplayNext

\* The inductive invariant holds, whatever the TTL and the latency.
LEMMA ReplayInvariant == ReplaySpec => []ReplayInv
<1>1. ReplayInv /\ [ReplayNext]_replayVars => ReplayInv'
  BY ReplayStepKeeps
<1> QED BY <1>1, ReplayStartsRight, PTL DEF ReplaySpec

\* A TOTP code is accepted once (setIfNotExists in validate-mfa-code and
\* verify-mfa-setup) unless it was first accepted within the latency of the
\* handler after it opened: for any TTL, any latency and any number of requests.
THEOREM TotpAcceptedOnce == ReplaySpec => []CodeAcceptedOnce
<1>1. ReplayInv => CodeAcceptedOnce
  BY DEF ReplayInv
<1> QED BY <1>1, ReplayInvariant, PTL

-----------------------------------------------------------------------------
(* What OneTime promises, carried to this module.                           *)

\* An open credential has not been used, and a used one is closed.
OpenUnused ==
    \A c \in Credentials :
        /\ CredentialState(c) \in {"fresh", "open", "closed"}
        /\ history.uses[c] \in {0, 1} /\ (history.uses[c] = 1 => CredentialState(c) = "closed")

\* A use is of a credential that was open, so unused, and closes it; whatever else the
\* step does to the others leaves the closed ones closed.
LEMMA OnceKeepsUnused ==
    ASSUME OpenUnused, Once!Next
    PROVE  /\ OpenUnused'
           /\ \A c \in Credentials : CredentialState(c) = "closed" => history'.uses[c] = history.uses[c]
<1>1. \A c \in Credentials : \A s \in Once!Later[CredentialState(c)] :
          s \in {"fresh", "open", "closed"} /\ (CredentialState(c) = "closed" => s = "closed")
  BY DEF OpenUnused, Once!Later
<1>2. CASE history'.uses = history.uses /\ Once!Pass(Credentials)
  <2>1. \A c \in Credentials : CredentialState(c)' \in Once!Later[CredentialState(c)]
    BY <1>2 DEF Once!Pass
  <2> QED
    BY <1>1, <1>2, <2>1 DEF OpenUnused
<1>3. ASSUME NEW d \in Credentials, Once!Use(d)
      PROVE  /\ OpenUnused'
             /\ \A c \in Credentials : CredentialState(c) = "closed" => history'.uses[c] = history.uses[c]
  <2>1. CredentialState(d) = "open" /\ CredentialState(d)' = "closed"
    BY <1>3 DEF Once!Use
  <2>2. history'.uses = [history.uses EXCEPT ![d] = 1]
    <3>1. history.uses[d] = 0
      BY <2>1 DEF OpenUnused
    <3>2. history'.uses = [history.uses EXCEPT ![d] = @ + 1]
      BY <1>3 DEF Once!Use
    <3> QED
      BY <3>1, <3>2
  <2>3. \A c \in Credentials \ {d} : CredentialState(c)' \in Once!Later[CredentialState(c)]
    BY <1>3 DEF Once!Use, Once!Pass
  <2>4. \A c \in Credentials \ {d} : history'.uses[c] = history.uses[c]
    BY <2>2
  <2>5. history'.uses[d] \in {0, 1}
    BY <2>2 DEF OpenUnused
  <2> QED
    BY <1>1, <2>1, <2>3, <2>4, <2>5 DEF OpenUnused
<1> QED
  BY <1>2, <1>3 DEF Once!Next

\* No code and no challenge is accepted twice, nor once it expired or was replaced
\* (of a TOTP code while its replay key lives, which TotpReplay takes apart).
THEOREM CodeUsedOnce == Spec => []Once!UsedOnce /\ Once!ClosedStaysUnused
<1>1. Once!Init => OpenUnused
  BY DEF Once!Init, OpenUnused
<1>2. OpenUnused /\ [Once!Next]_<<[c \in Credentials |-> CredentialState(c)], history.uses>> =>
        /\ OpenUnused'
        /\ [Once!ClosedUnused]_<<[c \in Credentials |-> CredentialState(c)], history.uses>>
  <2>1. CASE Once!Next
    BY <2>1, OnceKeepsUnused DEF Once!ClosedUnused
  <2>2. CASE UNCHANGED <<[c \in Credentials |-> CredentialState(c)], history.uses>>
    <3>1. \A c \in Credentials : CredentialState(c)' = CredentialState(c)
      BY <2>2
    <3> QED
      BY <2>2, <3>1 DEF OpenUnused
  <2> QED
    BY <2>1, <2>2
<1>3. OpenUnused => Once!UsedOnce
  BY DEF OpenUnused, Once!UsedOnce
<1> QED
  BY <1>1, <1>2, <1>3, CodesOnce, PTL DEF ImplementsOneTime, Once!Spec, Once!ClosedStaysUnused
=============================================================================
