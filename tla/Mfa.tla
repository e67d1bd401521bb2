--------------------------------- MODULE Mfa ---------------------------------
(***************************************************************************)
(* The second factor of one account: set-up, the challenge of a login, the *)
(* check of a code with its attempt limits, recovery codes and disabling   *)
(* (src/src/application/use-cases/mfa, services/mfa-challenge.service.ts,  *)
(* the Prisma MFA repository and the Redis keys).                          *)
(*                                                                         *)
(* Every row is selected by user id and every Redis key carries one (a     *)
(* challenge key carries the challenge of one login), so accounts do not   *)
(* interact and the module follows one.  A step is what a request does     *)
(* between two awaits.  completeSetup updates the row of mfa_secrets and   *)
(* then the user row, disableAndRevokeSessions the user row first: two     *)
(* that overlap take both rows one after the other, or deadlock and one is *)
(* rolled back (Abort), so each is one step here.  replacePendingSecret    *)
(* and replaceRecoveryCodes lock no row of the user: their DELETE sees the *)
(* rows of its start only, and each is two steps.                          *)
(*                                                                         *)
(* RepositoryMapsMfa: what is modelled of a login's challenge, of disable  *)
(* and of regenerate is reached only where the user repository hands over  *)
(* mfaEnabled and mfaMethod; its toDomain (prisma-user.repository 169-198) *)
(* does not.                                                               *)
(***************************************************************************)
EXTENDS Naturals, FiniteSets

CONSTANTS
    Secret,              \* ids of rows of mfa_secrets
    Mail,                \* codes sent by e-mail
    Recovery,            \* recovery codes
    RecoveryCount,       \* how many a list holds (10 in the code)
    Window,              \* the TOTP codes of a secret a user may read off
    Challenge,           \* login challenges
    MaxAttempts,         \* wrong codes allowed (5 in the code)
    Request,             \* slots for the requests in flight together
    Operation,           \* the operations that may arrive in this instance
    RepositoryMapsMfa,   \* does the user repository return mfaEnabled?
    None

Operations ==
    {"setup", "verifySetup", "login", "completeLogin", "sendCode",
     "disable", "regenerate", "expire", "abort"}

ASSUME MfaAssumption ==
    /\ Operation \subseteq Operations
    /\ RepositoryMapsMfa \in BOOLEAN
    /\ MaxAttempts \in Nat \ {0}
    /\ RecoveryCount \in Nat \ {0}
    /\ IsFiniteSet(Request)
    /\ None \notin Secret \cup Mail \cup Recovery \cup Challenge
    \* each kind of credential has its own keys or rows: none is taken for another
    /\ Mail \cap Recovery = {}
    /\ Challenge \cap (Mail \cup Recovery) = {}
    /\ (Secret \X Window) \cap (Mail \cup Recovery \cup Challenge) = {}

VARIABLES
    account,     \* mfaMethod of the user, None when mfaEnabled is false
    secrets,     \* the rows of mfa_secrets
    recovery,    \* the rows of mfa_recovery_codes
    challenges,  \* mfa_challenge:* and its attempts key, by login
    attempts,    \* mfa_verification_attempts:<user>, 0 when absent
    mailed,      \* mfa_email_code:<user>, None when absent
    cooldown,    \* is mfa_email_rate_limit:<user> there?
    replayed,    \* mfa_totp_replay:<user>:<code>, the keys there
    pc, ctx,     \* what each request awaits, and its local variables
    history      \* what happened, for the properties; no action reads it

redis == <<challenges, attempts, mailed, cooldown, replayed>>
rows == <<account, secrets, recovery>>
vars == <<rows, redis, pc, ctx, history>>

-----------------------------------------------------------------------------
(* Rows, keys and locals.                                                  *)

Method == {"TOTP", "EMAIL"}
Totp == Secret \X Window
Code == Totp \cup Mail \cup Recovery
Credentials == Code \cup Challenge

\* method is None for a row that was never inserted or was deleted.
SecretRow == [method: Method \cup {None}, verified: BOOLEAN, fresh: BOOLEAN]

ChallengeKey ==
    [state: {"unused", "active", "gone"},
     methods: SUBSET (Method \cup {"RECOVERY"}), tries: Nat]

Locals ==
    [op: Operations \cup {None}, method: Method \cup {"RECOVERY", None},
     code: Code \cup {None}, challenge: Challenge \cup {None},
     secret: Secret \cup {None}, seen: SUBSET (Secret \cup Recovery)]

NoLocals ==
    [op |-> None, method |-> None, code |-> None, challenge |-> None,
     secret |-> None, seen |-> {}]

Labels ==
    {"idle", "mailSetup", "replace", "replaceCommit", "findSecret", "proveSecret",
     "complete", "createChallenge", "attempts", "findVerified", "evaluate",
     "consumeRecovery", "count", "reject", "killChallenge", "clear", "consume",
     "disableTx", "listSnapshot", "listCommit", "cooldown", "mail"}

Stored == {s \in Secret : secrets[s].method # None}
StoredCodes == {c \in Recovery : recovery[c] \in {"unused", "used"}}

\* mfaEnabled and mfaMethod as the user repository hands them over: not at all
\* in the code, whose toDomain drops both columns (RepositoryMapsMfa = FALSE).
ReadMethod == IF RepositoryMapsMfa THEN account ELSE None

Goto(r, label) == pc' = [pc EXCEPT ![r] = label]

\* The handler returns or throws; its locals are gone.
Finish(r) ==
    /\ Goto(r, "idle")
    /\ ctx' = [ctx EXCEPT ![r] = NoLocals]

\* The code has been dealt with; what follows needs none of it.
ForgetCode(r) ==
    ctx' = [ctx EXCEPT ![r] = [NoLocals EXCEPT !.op = ctx[r].op, !.challenge = ctx[r].challenge]]

Deleted(S) ==
    [s \in Secret |-> IF s \in S THEN [secrets[s] EXCEPT !.method = None, !.verified = FALSE]
                                 ELSE secrets[s]]

\* A list replaces the codes of S: they are deleted, RecoveryCount new ones
\* are inserted.
NewList(S, L) ==
    [c \in Recovery |-> IF c \in L THEN "unused"
                        ELSE IF c \in S THEN "gone" ELSE recovery[c]]

FreshLists ==
    {L \in SUBSET {c \in Recovery : recovery[c] = "fresh"} :
        Cardinality(L) = RecoveryCount}

FreshMail == Mail \ history.sent

\* The bounds on rows, codes and challenges turn requests away at the door, not
\* half-way: what an operation may create has to be left when it arrives.
Supply(op) ==
    /\ op = "setup" => \E s \in Secret : secrets[s].fresh
    /\ op \in {"verifySetup", "regenerate"} => FreshLists # {}
    /\ op = "login" => \E c \in Challenge : challenges[c].state = "unused"
    /\ op = "sendCode" => FreshMail # {}

Arrives(r, op) == op \in Operation /\ pc[r] = "idle" /\ Supply(op)

Sent(m) == history' = [history EXCEPT !.sent = @ \cup {m}]

Init ==
    /\ account = None
    /\ secrets = [s \in Secret |-> [method |-> None, verified |-> FALSE, fresh |-> TRUE]]
    /\ recovery = [c \in Recovery |-> "fresh"]
    /\ challenges = [c \in Challenge |->
                        [state |-> "unused", methods |-> {}, tries |-> 0]]
    /\ attempts = 0
    /\ mailed = None
    /\ cooldown = FALSE
    /\ replayed = {}
    /\ pc = [r \in Request |-> "idle"]
    /\ ctx = [r \in Request |-> NoLocals]
    /\ history = [sent |-> {}, uses |-> [c \in Credentials |-> 0]]

-----------------------------------------------------------------------------
(* Set-up: setup-mfa and verify-mfa-setup.                                 *)

\* A request refused by its first read changes nothing and is not a step.
Setup(r) ==
    /\ Arrives(r, "setup")
    /\ ReadMethod = None
    /\ \E m \in Method :
        /\ m = "EMAIL" => FreshMail # {}
        /\ ctx' = [ctx EXCEPT ![r] = [NoLocals EXCEPT !.op = "setup", !.method = m]]
        /\ Goto(r, IF m = "EMAIL" THEN "mailSetup" ELSE "replace")
    /\ UNCHANGED <<rows, redis, history>>

\* The set-up by e-mail overwrites the code of whatever was asked before.
SetupMail(r) ==
    /\ pc[r] = "mailSetup"
    /\ \E m \in FreshMail : mailed' = m /\ Sent(m)
    /\ Goto(r, "replace")
    /\ UNCHANGED <<rows, challenges, attempts, cooldown, replayed, ctx>>

\* replacePendingSecret: DELETE chooses its rows, whether verified or not ...
ReplaceSnapshot(r) ==
    /\ pc[r] = "replace"
    /\ ctx' = [ctx EXCEPT ![r] = [@ EXCEPT !.seen = Stored]]
    /\ Goto(r, "replaceCommit")
    /\ UNCHANGED <<rows, redis, history>>

\* ... and the INSERT, which fails on (userId, method) if another set-up of
\* the method committed meanwhile.
ReplaceCommit(r) ==
    /\ pc[r] = "replaceCommit"
    /\ \/ /\ \E s \in Stored \ ctx[r].seen : secrets[s].method = ctx[r].method
          /\ UNCHANGED secrets
       \/ /\ \A s \in Stored \ ctx[r].seen : secrets[s].method # ctx[r].method
          /\ \E s \in Secret :
              /\ secrets[s].fresh
              /\ secrets' = [Deleted(ctx[r].seen) EXCEPT
                    ![s] = [method |-> ctx[r].method, verified |-> FALSE, fresh |-> FALSE]]
    /\ Finish(r)
    /\ UNCHANGED <<account, recovery, redis, history>>

VerifySetup(r) ==
    /\ Arrives(r, "verifySetup")
    /\ ReadMethod = None
    /\ ctx' = [ctx EXCEPT ![r] = [NoLocals EXCEPT !.op = "verifySetup"]]
    /\ Goto(r, "findSecret")
    /\ UNCHANGED <<rows, redis, history>>

\* findFirst: any row, if the account has two.
VerifyFindSecret(r) ==
    /\ pc[r] = "findSecret"
    /\ \/ /\ Stored = {}
          /\ Finish(r)
       \/ /\ \E s \in Stored :
              ctx' = [ctx EXCEPT ![r] =
                        [@ EXCEPT !.secret = s, !.method = secrets[s].method]]
          /\ Goto(r, "proveSecret")
    /\ UNCHANGED <<rows, redis, history>>

\* A code comes with the request, but nothing looks at it before it is
\* evaluated: it is chosen there.  Right is a TOTP code of the secret that was
\* not used before, or the code last mailed.
RightCode(x, c) ==
    \/ x.method = "TOTP" /\ c \in ({x.secret} \X Window) \ replayed
    \/ x.method = "EMAIL" /\ c \in Mail /\ c = mailed

\* setIfNotExists and consumeIfValueMatches are atomic: accepting a code
\* spends it in the same step.
SpendCode(x, c) ==
    /\ replayed' = IF x.method = "TOTP" THEN replayed \cup {c} ELSE replayed
    /\ mailed' = IF x.method = "EMAIL" THEN None ELSE mailed

\* c is accepted, or opens a session if it is a challenge.
Accepted(c) == history' = [history EXCEPT !.uses[c] = @ + 1]

VerifyProveSecret(r) ==
    /\ pc[r] = "proveSecret"
    /\ \E c \in Totp \cup Mail :
       \/ /\ RightCode(ctx[r], c)
          /\ SpendCode(ctx[r], c)
          /\ Accepted(c)
          /\ Goto(r, "complete")
          /\ UNCHANGED ctx
       \/ /\ ~RightCode(ctx[r], c)
          /\ Finish(r)
          /\ UNCHANGED <<replayed, mailed, history>>
    /\ UNCHANGED <<rows, challenges, attempts, cooldown>>

\* Mutant: the update names the user and the method, not the secret read.
CompleteSetupOfMethod(r) ==
    /\ pc[r] = "complete"
    /\ LET mine == {s \in Stored : ~secrets[s].verified /\ secrets[s].method = ctx[r].method}
       IN  IF mine # {} /\ account = None
           THEN /\ secrets' = [s \in Secret |->
                       IF s \in mine THEN [secrets[s] EXCEPT !.verified = TRUE] ELSE secrets[s]]
                /\ account' = ctx[r].method
                /\ \E L \in FreshLists : recovery' = NewList(StoredCodes, L)
           ELSE UNCHANGED rows
    /\ Finish(r)
    /\ UNCHANGED <<redis, history>>

\* completeSetup: both updates match or everything is rolled back.  (It also
\* revokes the sessions: module Sessions, enableMfa.)
CompleteSetup(r) ==
    /\ pc[r] = "complete"
    /\ LET s == ctx[r].secret
           fits == /\ secrets[s].method = ctx[r].method
                   /\ ~secrets[s].verified
                   /\ account = None
       IN  \/ /\ fits
              /\ secrets' = [secrets EXCEPT ![s].verified = TRUE]
              /\ account' = ctx[r].method
              /\ \E L \in FreshLists : recovery' = NewList(StoredCodes, L)
           \/ ~fits /\ UNCHANGED rows
    /\ Finish(r)
    /\ UNCHANGED <<redis, history>>

-----------------------------------------------------------------------------
(* The challenge of a login, and the code by e-mail.                       *)

\* Mutant: every login is challenged, with whatever method the account has.
LoginChallengesAll(r) ==
    /\ Arrives(r, "login")
    /\ ctx' = [ctx EXCEPT ![r] = [NoLocals EXCEPT !.op = "login", !.method = ReadMethod]]
    /\ Goto(r, "createChallenge")
    /\ UNCHANGED <<rows, redis, history>>

Login(r) ==
    /\ Arrives(r, "login")
    /\ ReadMethod # None
    /\ ctx' = [ctx EXCEPT ![r] = [NoLocals EXCEPT !.op = "login", !.method = ReadMethod]]
    /\ Goto(r, "createChallenge")
    /\ UNCHANGED <<rows, redis, history>>

\* countUnusedRecoveryCodes, then MfaChallengeService.create.
CreateChallenge(r) ==
    /\ pc[r] = "createChallenge"
    /\ \E c \in Challenge :
        /\ challenges[c].state = "unused"
        /\ challenges' = [challenges EXCEPT ![c] =
              [state |-> "active", tries |-> 0,
               methods |-> {ctx[r].method, "EMAIL"} \cup
                  (IF \E x \in Recovery : recovery[x] = "unused" THEN {"RECOVERY"} ELSE {})]]
    /\ Finish(r)
    /\ UNCHANGED <<rows, attempts, mailed, cooldown, replayed, history>>

\* With a challenge that offers EMAIL, or by the account itself if its method
\* is EMAIL.
SendCode(r) ==
    /\ Arrives(r, "sendCode")
    /\ \/ \E c \in Challenge :
            challenges[c].state = "active" /\ "EMAIL" \in challenges[c].methods
       \/ ReadMethod = "EMAIL"
    /\ ctx' = [ctx EXCEPT ![r] = [NoLocals EXCEPT !.op = "sendCode"]]
    /\ Goto(r, "cooldown")
    /\ UNCHANGED <<rows, redis, history>>

SendCooldown(r) ==
    /\ pc[r] = "cooldown"
    /\ \/ cooldown /\ Finish(r)
       \/ ~cooldown /\ Goto(r, "mail") /\ UNCHANGED ctx
    /\ cooldown' = TRUE
    /\ UNCHANGED <<rows, challenges, attempts, mailed, replayed, history>>

SendMail(r) ==
    /\ pc[r] = "mail"
    /\ \E m \in FreshMail : mailed' = m /\ Sent(m)
    /\ Finish(r)
    /\ UNCHANGED <<rows, challenges, attempts, cooldown, replayed>>

-----------------------------------------------------------------------------
(* A code is presented: complete-mfa-login, disable-mfa and regenerate.    *)

CodesOf(m) == CASE m = "TOTP" -> Totp [] m = "EMAIL" -> Mail [] OTHER -> Recovery

CompleteLogin(r) ==
    /\ Arrives(r, "completeLogin")
    /\ \E c \in Challenge :
        /\ challenges[c].state = "active"
        /\ \E m \in challenges[c].methods :
              ctx' = [ctx EXCEPT ![r] =
                        [NoLocals EXCEPT !.op = "completeLogin", !.method = m, !.challenge = c]]
    /\ Goto(r, "attempts")
    /\ UNCHANGED <<rows, redis, history>>

\* disable-mfa and regenerate-recovery-codes: the account's method or RECOVERY.
AccountAction(r) ==
    /\ ReadMethod # None
    /\ \E op \in {"disable", "regenerate"}, m \in {ReadMethod, "RECOVERY"} :
        /\ Arrives(r, op)
        /\ ctx' = [ctx EXCEPT ![r] = [NoLocals EXCEPT !.op = op, !.method = m]]
    /\ Goto(r, "attempts")
    /\ UNCHANGED <<rows, redis, history>>

\* Mutant: the attempts of the account are not looked at.
CheckNoAttempts(r) ==
    /\ pc[r] = "attempts"
    /\ Goto(r, "findVerified")
    /\ UNCHANGED <<rows, redis, ctx, history>>

CheckAttempts(r) ==
    /\ pc[r] = "attempts"
    /\ \/ attempts >= MaxAttempts /\ Finish(r)
       \/ attempts < MaxAttempts /\ Goto(r, "findVerified") /\ UNCHANGED ctx
    /\ UNCHANGED <<rows, redis, history>>

FindVerified(r) ==
    /\ pc[r] = "findVerified"
    /\ \/ /\ Stored = {} \/ \E s \in Stored : ~secrets[s].verified
          /\ Finish(r)
       \/ /\ \E s \in Stored :
              /\ secrets[s].verified
              /\ ctx' = [ctx EXCEPT ![r].secret = IF ctx[r].method = "TOTP" THEN s ELSE None]
          /\ Goto(r, "evaluate")
    /\ UNCHANGED <<rows, redis, history>>

\* Mutant: the TOTP code is checked, and remembered only when it fails.
EvaluateNoReplay(r) ==
    /\ pc[r] = "evaluate"
    /\ ctx[r].method # "RECOVERY"
    /\ ForgetCode(r)
    /\ \E c \in CodesOf(ctx[r].method) :
       \/ /\ RightCode(ctx[r], c)
          /\ mailed' = IF ctx[r].method = "EMAIL" THEN None ELSE mailed
          /\ Accepted(c)
          /\ Goto(r, "clear")
          /\ UNCHANGED replayed
       \/ /\ ~RightCode(ctx[r], c)
          /\ UNCHANGED history
          /\ Goto(r, "count")
          /\ UNCHANGED <<replayed, mailed>>
    /\ UNCHANGED <<rows, challenges, attempts, cooldown>>

Evaluate(r) ==
    /\ pc[r] = "evaluate"
    /\ ctx[r].method # "RECOVERY"
    /\ ForgetCode(r)
    /\ \E c \in CodesOf(ctx[r].method) :
       \/ /\ RightCode(ctx[r], c)
          /\ SpendCode(ctx[r], c)
          /\ Accepted(c)
          /\ Goto(r, "clear")
       \/ /\ ~RightCode(ctx[r], c)
          /\ UNCHANGED history
          /\ Goto(r, "count")
          /\ UNCHANGED <<replayed, mailed>>
    /\ UNCHANGED <<rows, challenges, attempts, cooldown>>

\* The codes are read and compared one by one; the match is used up later.
MatchRecovery(r) ==
    /\ pc[r] = "evaluate"
    /\ ctx[r].method = "RECOVERY"
    /\ \E c \in Recovery :
       \/ /\ recovery[c] = "unused"
          /\ Goto(r, "consumeRecovery")
          /\ ctx' = [ctx EXCEPT ![r] = [@ EXCEPT !.code = c]]
          /\ UNCHANGED history
       \/ /\ recovery[c] # "unused"
          /\ UNCHANGED history
          /\ ForgetCode(r)
          /\ Goto(r, "count")
    /\ UNCHANGED <<rows, redis>>

\* UPDATE ... WHERE id AND usedAt IS NULL.
ConsumeRecovery(r) ==
    /\ pc[r] = "consumeRecovery"
    /\ \/ /\ recovery[ctx[r].code] = "unused"
          /\ recovery' = [recovery EXCEPT ![ctx[r].code] = "used"]
          /\ Accepted(ctx[r].code)
          /\ Goto(r, "clear")
       \/ /\ recovery[ctx[r].code] # "unused"
          /\ UNCHANGED history
          /\ Goto(r, "count")
          /\ UNCHANGED recovery
    /\ ForgetCode(r)
    /\ UNCHANGED <<account, secrets, redis>>

\* A wrong code is counted; MfaAttemptsExceededError is not InvalidMfaCodeError,
\* so the challenge is not told of the one that reaches the limit.
CountAttempt(r) ==
    /\ pc[r] = "count"
    /\ attempts' = attempts + 1
    /\ IF attempts + 1 < MaxAttempts /\ ctx[r].op = "completeLogin"
       THEN Goto(r, "reject") /\ UNCHANGED ctx
       ELSE Finish(r)
    /\ UNCHANGED <<rows, challenges, mailed, cooldown, replayed, history>>

\* rejectInvalidCode: the attempts of the challenge ...  They are counted up to
\* MaxAttempts, a bound of the model: the code goes on counting, and any number
\* from there on has the same effect.
RejectCode(r) ==
    /\ pc[r] = "reject"
    /\ LET c == ctx[r].challenge
       IN  /\ challenges' = [challenges EXCEPT ![c].tries = IF @ < MaxAttempts THEN @ + 1 ELSE @]
           /\ \/ challenges[c].tries + 1 >= MaxAttempts /\ Goto(r, "killChallenge") /\ UNCHANGED ctx
              \/ challenges[c].tries + 1 < MaxAttempts /\ Finish(r)
    /\ UNCHANGED <<rows, attempts, mailed, cooldown, replayed, history>>

\* ... and, at the limit, the two deletes.
KillChallenge(r) ==
    /\ pc[r] = "killChallenge"
    /\ challenges' = [challenges EXCEPT ![ctx[r].challenge] =
                        [@ EXCEPT !.state = "gone", !.tries = 0]]
    /\ Finish(r)
    /\ UNCHANGED <<rows, attempts, mailed, cooldown, replayed, history>>

ClearAttempts(r) ==
    /\ pc[r] = "clear"
    /\ attempts' = 0
    /\ UNCHANGED history
    /\ Goto(r, CASE ctx[r].op = "completeLogin" -> "consume"
                 [] ctx[r].op = "disable" -> "disableTx"
                 [] OTHER -> "listSnapshot")
    /\ UNCHANGED <<rows, challenges, mailed, cooldown, replayed, ctx>>

\* consume: GETDEL, then the attempts of the challenge; a session is opened
\* (module Sessions, CompleteMfaLogin) only by the request that got it.
ConsumeChallenge(r) ==
    /\ pc[r] = "consume"
    /\ LET c == ctx[r].challenge
       IN  \/ /\ challenges[c].state = "active"
              /\ challenges' = [challenges EXCEPT ![c] =
                                  [@ EXCEPT !.state = "gone", !.tries = 0]]
              /\ Accepted(c)
           \/ /\ challenges[c].state # "active"
              /\ UNCHANGED <<challenges, history>>
    /\ Finish(r)
    /\ UNCHANGED <<rows, attempts, mailed, cooldown, replayed>>

\* disableAndRevokeSessions.  (Sessions are revoked: module Sessions.)
Disable(r) ==
    /\ pc[r] = "disableTx"
    /\ account' = None
    /\ secrets' = Deleted(Stored)
    /\ recovery' = NewList(StoredCodes, {})
    /\ Finish(r)
    /\ UNCHANGED <<redis, history>>

\* replaceRecoveryCodes: DELETE chooses its rows, then the INSERT.
ListSnapshot(r) ==
    /\ pc[r] = "listSnapshot"
    /\ ctx' = [ctx EXCEPT ![r] = [@ EXCEPT !.seen = StoredCodes]]
    /\ Goto(r, "listCommit")
    /\ UNCHANGED <<rows, redis, history>>

ListCommit(r) ==
    /\ pc[r] = "listCommit"
    /\ \E L \in FreshLists : recovery' = NewList(ctx[r].seen, L)
    /\ Finish(r)
    /\ UNCHANGED <<account, secrets, redis, history>>

-----------------------------------------------------------------------------
(* Expiry and failure.                                                     *)

ChallengeExpires(c) ==
    /\ challenges[c].state = "active"
    /\ challenges' = [challenges EXCEPT ![c] = [@ EXCEPT !.state = "gone"]]
    /\ UNCHANGED <<rows, attempts, mailed, cooldown, replayed, pc, ctx, history>>

\* The window of the attempts opened with its first wrong code.
AttemptsExpire ==
    /\ attempts > 0
    /\ attempts' = 0
    /\ UNCHANGED history
    /\ UNCHANGED <<rows, challenges, mailed, cooldown, replayed, pc, ctx>>

MailExpires ==
    /\ mailed # None
    /\ mailed' = None
    /\ UNCHANGED <<rows, challenges, attempts, cooldown, replayed, pc, ctx, history>>

CooldownExpires ==
    /\ cooldown
    /\ cooldown' = FALSE
    /\ UNCHANGED <<rows, challenges, attempts, mailed, replayed, pc, ctx, history>>

\* The process stops or a call fails; an open transaction is rolled back.
Abort(r) ==
    /\ "abort" \in Operation
    /\ pc[r] # "idle"
    /\ Finish(r)
    /\ UNCHANGED <<rows, redis, history>>

-----------------------------------------------------------------------------

Arrival(r) ==
    \/ Setup(r) \/ VerifySetup(r) \/ Login(r) \/ SendCode(r)
    \/ CompleteLogin(r) \/ AccountAction(r)

Progress(r) ==
    \/ SetupMail(r) \/ ReplaceSnapshot(r) \/ ReplaceCommit(r)
    \/ VerifyFindSecret(r) \/ VerifyProveSecret(r) \/ CompleteSetup(r)
    \/ CreateChallenge(r) \/ SendCooldown(r) \/ SendMail(r)
    \/ CheckAttempts(r) \/ FindVerified(r) \/ Evaluate(r) \/ MatchRecovery(r)
    \/ ConsumeRecovery(r) \/ CountAttempt(r) \/ RejectCode(r) \/ KillChallenge(r)
    \/ ClearAttempts(r) \/ ConsumeChallenge(r) \/ Disable(r)
    \/ ListSnapshot(r) \/ ListCommit(r)

Expiry ==
    /\ "expire" \in Operation
    /\ \/ \E c \in Challenge : ChallengeExpires(c)
       \/ AttemptsExpire \/ MailExpires \/ CooldownExpires

Next == (\E r \in Request : Arrival(r) \/ Progress(r) \/ Abort(r)) \/ Expiry

Spec == Init /\ [][Next]_vars

-----------------------------------------------------------------------------
(* Properties.                                                             *)

\* Types of the rows, the Redis keys and the locals.
TypeOK ==
    /\ account \in Method \cup {None}
    /\ secrets \in [Secret -> SecretRow]
    /\ recovery \in [Recovery -> {"fresh", "unused", "used", "gone"}]
    /\ challenges \in [Challenge -> ChallengeKey]
    /\ attempts \in Nat
    /\ mailed \in Mail \cup {None}
    /\ cooldown \in BOOLEAN
    /\ replayed \subseteq Totp
    /\ pc \in [Request -> Labels]
    /\ ctx \in [Request -> Locals]

\* Where a code or a challenge is in its life.
CredentialState(c) ==
    CASE c \in Totp -> IF c \in replayed THEN "closed" ELSE "open"
      [] c \in Mail -> IF c = mailed THEN "open" ELSE IF c \in history.sent THEN "closed" ELSE "fresh"
      [] c \in Recovery -> [fresh |-> "fresh", unused |-> "open", used |-> "closed",
                            gone |-> "closed"][recovery[c]]
      [] OTHER -> [unused |-> "fresh", active |-> "open", gone |-> "closed"][challenges[c].state]

Once == INSTANCE OneTime WITH
    Credential <- Credentials,
    state <- [c \in Credentials |-> CredentialState(c)],
    uses <- history.uses

\* A code is accepted once, whatever it is presented for and however many
\* requests present it together: a TOTP code by its replay key, a mailed code
\* by the compare-and-delete, a recovery code by its conditional update.  A
\* challenge opens one session, even if several requests present different
\* right codes for it at once.  One that is spent, replaced or gone is dead.
ImplementsOneTime == Once!Spec

\* The limit is checked before and counted after a code is evaluated: requests
\* in flight together can overrun it, by less than their number, as long as
\* none of them stops in between.
GuessesBounded ==
    attempts + Cardinality({r \in Request : pc[r] = "count"}) < MaxAttempts + Cardinality(Request)

\* A TOTP secret becomes verified only if a code of that very secret was
\* presented, although another set-up may replace it before completeSetup.
VerifiedSecretWasProven ==
    \A s \in Secret :
        secrets[s].verified /\ secrets[s].method = "TOTP"
            => \E c \in {s} \X Window : history.uses[c] > 0
=============================================================================
