------------------------- MODULE VerificationTokens -------------------------
(***************************************************************************)
(* The links an account is mailed to verify its address and to reset its   *)
(* password: the use cases register, send and resend verification e-mail,  *)
(* request-password-reset, verify-email and reset-password over the rows   *)
(* of verification_tokens.                                                 *)
(*                                                                         *)
(* Rows are selected by user id, so one account is followed.  A step is    *)
(* what a request does between two awaits, or a statement does between two *)
(* rows: DELETE and UPDATE choose their rows on the snapshot of their      *)
(* start, lock them one by one, wait for the holder of a locked row and    *)
(* look at it again when they get it.  Locks are kept until the commit;    *)
(* PostgreSQL breaks a cycle of waiting transactions by aborting one.      *)
(***************************************************************************)
EXTENDS Naturals, FiniteSets, FiniteSetsExt

CONSTANTS
    MaxToken,   \* how many tokens may be drawn
    Request,    \* slots for the requests in flight together
    Operation,  \* the operations that may arrive in this instance
    None

Operations ==
    {"register", "resend", "forgot", "verify", "reset", "expire", "abort"}

ASSUME VerificationAssumption ==
    /\ MaxToken \in Nat
    /\ Operation \subseteq Operations
    /\ None \notin Request /\ IsFiniteSet(Request)

\* A token is named by its place in the order of createdAt.
Token == 1..MaxToken
Type == {"EMAIL_VERIFICATION", "PASSWORD_RESET"}

VARIABLES
    account,   \* the users row, as far as it matters here
    tokens,    \* the rows of verification_tokens
    drawn,     \* how many tokens have been drawn
    settled,   \* the tokens 1..settled are older than the cooldown
    lock,      \* which request holds the lock of a token's row
    pc, ctx,   \* what each request awaits, and its local variables
    history    \* what happened, for the properties; no action reads it but mailed

rows == <<account, tokens, lock>>
clock == <<drawn, settled>>
vars == <<rows, clock, pc, ctx, history>>

-----------------------------------------------------------------------------

AccountRow == [exists: BOOLEAN, emailVerified: BOOLEAN]

TokenRow ==
    [type: Type \cup {None}, state: {"none", "unused", "used", "deleted"},
     expired: BOOLEAN]

Locals ==
    [op: Operations \cup {None}, type: Type \cup {None}, token: Token \cup {None},
     seen: SUBSET Token, known: SUBSET Token]

NoLocals ==
    [op |-> None, type |-> None, token |-> None, seen |-> {}, known |-> {}]

Labels ==
    {"idle", "latest", "delete", "deleting", "create", "mail",
     "consume", "claim", "siblings", "marking"}

Unused(type) ==
    {t \in Token : tokens[t].type = type /\ tokens[t].state = "unused"}

Stored(type) ==
    {t \in Token : tokens[t].type = type /\ tokens[t].state \in {"unused", "used"}}

\* The conditions of findByTokenHash and of the UPDATE that consumes.
Usable(t) == tokens[t].state = "unused" /\ ~tokens[t].expired

Held(r) == {t \in Token : lock[t] = r}

Marked(S, state) ==
    [t \in Token |-> IF t \in S THEN [tokens[t] EXCEPT !.state = state] ELSE tokens[t]]

Released(r) == [t \in Token |-> IF lock[t] = r THEN None ELSE lock[t]]

Goto(r, label) == pc' = [pc EXCEPT ![r] = label]

\* The handler returns or throws; its locals and locks are gone.
Finish(r) ==
    /\ Goto(r, "idle")
    /\ ctx' = [ctx EXCEPT ![r] = NoLocals]

Arrives(r, op) == op \in Operation /\ pc[r] = "idle"

\* The bound on tokens turns requests away at the door, not half-way.
Supply ==
    drawn + Cardinality({r \in Request : pc[r] \in {"latest", "delete", "deleting"}})
        < MaxToken

Init ==
    /\ account = [exists |-> FALSE, emailVerified |-> FALSE]
    /\ tokens = [t \in Token |-> [type |-> None, state |-> "none", expired |-> FALSE]]
    /\ drawn = 0
    /\ settled = 0
    /\ lock = [t \in Token |-> None]
    /\ pc = [r \in Request |-> "idle"]
    /\ ctx = [r \in Request |-> NoLocals]
    /\ history = [mailed |-> {}, accepted |-> [t \in Token |-> 0],
                  superseded |-> {}, lost |-> FALSE]

-----------------------------------------------------------------------------
(* A link is requested.                                                    *)

\* The account is created and its first link sent in the same request.
Register(r) ==
    /\ Arrives(r, "register") /\ Supply
    /\ ~account.exists
    /\ account' = [account EXCEPT !.exists = TRUE]
    /\ ctx' = [ctx EXCEPT ![r] =
                 [NoLocals EXCEPT !.op = "register", !.type = "EMAIL_VERIFICATION"]]
    /\ Goto(r, "delete")
    /\ UNCHANGED <<tokens, lock, clock, history>>

\* A request the first read turns away changes nothing and is not a step.
Resend(r) ==
    /\ Arrives(r, "resend") /\ Supply
    /\ account.exists /\ ~account.emailVerified
    /\ ctx' = [ctx EXCEPT ![r] =
                 [NoLocals EXCEPT !.op = "resend", !.type = "EMAIL_VERIFICATION"]]
    /\ Goto(r, "latest")
    /\ UNCHANGED <<rows, clock, history>>

\* findLatestByUserIdAndType looks at used rows too, not at deleted ones.
Recent(type) == Stored(type) # {} /\ Max(Stored(type)) > settled

ResendLatest(r) ==
    /\ pc[r] = "latest"
    /\ \/ Recent(ctx[r].type) /\ Finish(r)
       \/ ~Recent(ctx[r].type) /\ Goto(r, "delete") /\ UNCHANGED ctx
    /\ UNCHANGED <<rows, clock, history>>

\* (An account that is not active is turned away.)
Forgot(r) ==
    /\ Arrives(r, "forgot") /\ Supply
    /\ account.exists
    /\ ctx' = [ctx EXCEPT ![r] =
                 [NoLocals EXCEPT !.op = "forgot", !.type = "PASSWORD_RESET"]]
    /\ Goto(r, "delete")
    /\ UNCHANGED <<rows, clock, history>>

\* Mutant: the unused rows of both types are deleted.
DeleteSnapshotAllTypes(r) ==
    /\ pc[r] = "delete"
    /\ LET unused == UNION {Unused(type) : type \in Type}
       IN  ctx' = [ctx EXCEPT ![r] = [@ EXCEPT !.seen = unused, !.known = unused]]
    /\ Goto(r, "deleting")
    /\ UNCHANGED <<rows, clock, history>>

\* deleteByUserId chooses its rows ...
DeleteSnapshot(r) ==
    /\ pc[r] = "delete"
    /\ LET unused == Unused(ctx[r].type)
       IN  ctx' = [ctx EXCEPT ![r] = [@ EXCEPT !.seen = unused, !.known = unused]]
    /\ Goto(r, "deleting")
    /\ UNCHANGED <<rows, clock, history>>

\* ... and locks them, as the UPDATE of the siblings does: a row that is free,
\* if it is still unused, or gone past if it is not.
LockRow(r) ==
    /\ pc[r] \in {"deleting", "marking"}
    /\ \E t \in ctx[r].seen :
        /\ lock[t] = None
        /\ lock' = IF tokens[t].state = "unused" THEN [lock EXCEPT ![t] = r] ELSE lock
        /\ ctx' = [ctx EXCEPT ![r].seen = @ \ {t}]
    /\ UNCHANGED <<account, tokens, clock, pc, history>>

\* The statement is done; the new token is drawn, with its createdAt.
DeleteCommit(r) ==
    /\ pc[r] = "deleting"
    /\ ctx[r].seen = {}
    /\ tokens' = Marked(Held(r), "deleted")
    /\ lock' = Released(r)
    /\ drawn' = drawn + 1
    /\ ctx' = [ctx EXCEPT ![r] = [@ EXCEPT !.token = drawn + 1, !.known = {}]]
    /\ history' = [history EXCEPT !.superseded = @ \cup ctx[r].known]
    /\ Goto(r, "create")
    /\ UNCHANGED <<account, settled>>

Create(r) ==
    /\ pc[r] = "create"
    /\ tokens' = [tokens EXCEPT ![ctx[r].token] =
                    [type |-> ctx[r].type, state |-> "unused", expired |-> FALSE]]
    /\ Goto(r, "mail")
    /\ UNCHANGED <<account, lock, clock, ctx, history>>

Mail(r) ==
    /\ pc[r] = "mail"
    /\ history' = [history EXCEPT !.mailed = @ \cup {ctx[r].token}]
    /\ Finish(r)
    /\ UNCHANGED <<rows, clock>>

-----------------------------------------------------------------------------
(* A link is followed: verify-email and reset-password.                    *)

\* findByTokenHash, for a token of the endpoint's type.
Follow(r) ==
    /\ \E op \in {"verify", "reset"}, t \in history.mailed :
        /\ Arrives(r, op)
        /\ tokens[t].type = IF op = "verify" THEN "EMAIL_VERIFICATION" ELSE "PASSWORD_RESET"
        /\ Usable(t)
        /\ ctx' = [ctx EXCEPT ![r] =
                     [NoLocals EXCEPT !.op = op, !.type = tokens[t].type, !.token = t]]
    /\ Goto(r, "consume")
    /\ UNCHANGED <<rows, clock, history>>

\* The transaction's first UPDATE starts: it compares expiresAt with the time at
\* which the request built it, and waits for the row.
Consume(r) ==
    /\ pc[r] = "consume"
    /\ \/ Usable(ctx[r].token) /\ Goto(r, "claim") /\ UNCHANGED ctx
       \/ ~Usable(ctx[r].token) /\ Finish(r)
    /\ UNCHANGED <<rows, clock, history>>

\* Mutant: the UPDATE names the token only.
ClaimAny(r) ==
    /\ pc[r] = "claim"
    /\ lock[ctx[r].token] = None
    /\ lock' = [lock EXCEPT ![ctx[r].token] = r]
    /\ Goto(r, "siblings")
    /\ UNCHANGED <<account, tokens, ctx, clock, history>>

\* The row is free: the UPDATE matches it if it is still unused, even if it
\* expired during the wait.
Claim(r) ==
    /\ pc[r] = "claim"
    /\ lock[ctx[r].token] = None
    /\ \/ /\ tokens[ctx[r].token].state = "unused"
          /\ lock' = [lock EXCEPT ![ctx[r].token] = r]
          /\ Goto(r, "siblings")
          /\ UNCHANGED ctx
       \/ /\ tokens[ctx[r].token].state # "unused"
          /\ Finish(r)
          /\ UNCHANGED lock
    /\ UNCHANGED <<account, tokens, clock, history>>

\* The second one chooses the other unused tokens of the type.
SiblingSnapshot(r) ==
    /\ pc[r] = "siblings"
    /\ LET siblings == Unused(ctx[r].type) \ {ctx[r].token}
       IN  ctx' = [ctx EXCEPT ![r] = [@ EXCEPT !.seen = siblings, !.known = siblings]]
    /\ Goto(r, "marking")
    /\ UNCHANGED <<rows, clock, history>>

Accepted(r) ==
    history' = [history EXCEPT !.accepted[ctx[r].token] = @ + 1,
                               !.superseded = @ \cup ctx[r].known]

\* Mutant: only the token itself is marked as used.
CommitOwnToken(r) ==
    /\ pc[r] = "marking"
    /\ ctx[r].seen = {}
    /\ tokens' = Marked({ctx[r].token}, "used")
    /\ lock' = Released(r)
    /\ account' = [account EXCEPT !.emailVerified = @ \/ ctx[r].op = "verify"]
    /\ Accepted(r)
    /\ Finish(r)
    /\ UNCHANGED clock

\* The user row is updated (a reset revokes the sessions as well: module
\* Sessions) and everything commits.
Commit(r) ==
    /\ pc[r] = "marking"
    /\ ctx[r].seen = {}
    /\ tokens' = Marked(Held(r), "used")
    /\ lock' = Released(r)
    /\ account' = [account EXCEPT !.emailVerified = @ \/ ctx[r].op = "verify"]
    /\ Accepted(r)
    /\ Finish(r)
    /\ UNCHANGED clock

-----------------------------------------------------------------------------
(* Failures and time.                                                      *)

\* The row a request waits for, or may come to wait for.
Wants(r) ==
    CASE pc[r] = "claim" -> {ctx[r].token}
      [] pc[r] \in {"deleting", "marking"} -> ctx[r].seen
      [] OTHER -> {}

Deadlocked(S) ==
    \A r \in S : \E t \in Wants(r) : lock[t] \in S \ {r}

\* Mutant: cycles are left alone.
NoDeadlockAbort(r) == FALSE /\ UNCHANGED vars

\* The deadlock detector rolls one of a cycle's transactions back.
DeadlockAbort(r) ==
    /\ \E S \in SUBSET Request : r \in S /\ Deadlocked(S)
    /\ lock' = Released(r)
    /\ Finish(r)
    /\ UNCHANGED <<account, tokens, clock, history>>

\* Mutant: the consumption is not in the transaction of the change.
AbortKeepsToken(r) ==
    /\ "abort" \in Operation
    /\ pc[r] # "idle"
    /\ tokens' = IF pc[r] \in {"siblings", "marking"} THEN Marked({ctx[r].token}, "used") ELSE tokens
    /\ lock' = Released(r)
    /\ history' = [history EXCEPT !.lost = @ \/ pc[r] \in {"create", "mail"}]
    /\ Finish(r)
    /\ UNCHANGED <<account, clock>>

\* The process stops, or a call fails (the mail too): an open transaction is
\* rolled back, what was committed stays.
Abort(r) ==
    /\ "abort" \in Operation
    /\ pc[r] # "idle"
    /\ lock' = Released(r)
    /\ history' = [history EXCEPT !.lost = @ \/ pc[r] \in {"create", "mail"}]
    /\ Finish(r)
    /\ UNCHANGED <<account, tokens, clock>>

\* The cooldown of the oldest token that has one runs out.
CooldownPasses ==
    /\ settled < drawn
    /\ settled' = settled + 1
    /\ UNCHANGED <<rows, drawn, pc, ctx, history>>

\* Tokens of a type live equally long, and longer than the cooldown.
TokenExpires(t) ==
    /\ "expire" \in Operation
    /\ t <= settled
    /\ Usable(t)
    /\ \A s \in Unused(tokens[t].type) : s < t => tokens[s].expired
    /\ tokens' = [tokens EXCEPT ![t] = [@ EXCEPT !.expired = TRUE]]
    /\ UNCHANGED <<account, lock, clock, pc, ctx, history>>

-----------------------------------------------------------------------------

Arrival(r) == Register(r) \/ Resend(r) \/ Forgot(r) \/ Follow(r)

Progress(r) ==
    \/ ResendLatest(r) \/ DeleteSnapshot(r) \/ LockRow(r) \/ DeleteCommit(r)
    \/ Create(r) \/ Mail(r) \/ Consume(r) \/ Claim(r) \/ SiblingSnapshot(r)
    \/ Commit(r)

Next ==
    \/ \E r \in Request : Arrival(r) \/ Progress(r) \/ DeadlockAbort(r) \/ Abort(r)
    \/ \E t \in Token : TokenExpires(t)
    \/ CooldownPasses

Spec == Init /\ [][Next]_vars

\* A request that can go on does, PostgreSQL resolves deadlocks and queues the
\* waiters of a row.  Nothing forces a request to arrive, time to pass or a
\* process to stop.
FairSpec ==
    /\ Spec
    /\ \A r \in Request :
        /\ WF_vars(Progress(r) \/ DeadlockAbort(r))
        /\ SF_vars(LockRow(r) \/ Claim(r))

-----------------------------------------------------------------------------
(* Properties.                                                             *)

\* Types of the rows, the locals and the labels; a row is locked only while it
\* is unused, by a request inside a statement or a transaction.
TypeOK ==
    /\ account \in AccountRow
    /\ tokens \in [Token -> TokenRow]
    /\ drawn \in 0..MaxToken
    /\ settled \in 0..drawn
    /\ lock \in [Token -> Request \cup {None}]
    /\ pc \in [Request -> Labels]
    /\ ctx \in [Request -> Locals]
    /\ \A t \in Token, r \in Request :
        lock[t] = r => /\ tokens[t].state = "unused"
                       /\ pc[r] \in {"deleting", "siblings", "marking"}

\* A transaction that found its token alive ...
Accepting(r) == pc[r] \in {"claim", "siblings", "marking"}

\* ... goes on with it even if it expires meanwhile.
Open(t) ==
    /\ tokens[t].state = "unused"
    /\ ~tokens[t].expired \/ \E r \in Request : Accepting(r) /\ ctx[r].token = t

\* Where a link is in its life.
TokenState(t) ==
    IF tokens[t].state = "none" THEN "fresh" ELSE IF Open(t) THEN "open" ELSE "closed"

Once == INSTANCE OneTime WITH
    Credential <- Token, state <- [t \in Token |-> TokenState(t)], uses <- history.accepted

\* A link verifies the address or resets the password once, however many
\* requests follow it together, and one that has expired, was deleted or used
\* stays dead.
ImplementsOneTime == Once!Spec

\* Once a newer link has been asked for, or another link of the type used, the
\* links that were there are dead: none of them is accepted afterwards, even by
\* a request that had read its row before.
SupersededNeverAccepted ==
    [][\A t \in history.superseded : history'.accepted[t] = history.accepted[t]]_vars

\* A token is not used up for nothing: it, or another link of its type, had its
\* effect, whatever failed or was rolled back.
UsedMeansDone ==
    \A t \in Token :
        tokens[t].state = "used" =>
            \E s \in Token : tokens[s].type = tokens[t].type /\ history.accepted[s] > 0

\* When no request is in flight, an account that was mailed a link and used
\* none holds a mailed link that was neither used nor deleted, unless a request
\* failed after it had deleted the old ones: requests of the same type that
\* overlap, and those of the other type, do not take it away.
LinkSurvives ==
    (\A r \in Request : pc[r] = "idle") /\ ~history.lost =>
        \A type \in Type :
            LET mailed == {t \in history.mailed : tokens[t].type = type}
            IN  mailed # {} /\ (\A t \in mailed : history.accepted[t] = 0)
                    => mailed \cap Unused(type) # {}

\* Every request ends: waiting for rows is never circular for good.
RequestsFinish == \A r \in Request : pc[r] # "idle" ~> pc[r] = "idle"
=============================================================================
