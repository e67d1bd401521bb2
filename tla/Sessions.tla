------------------------------ MODULE Sessions ------------------------------
(***************************************************************************)
(* Sessions, refresh-token families and the requests that open, rotate,    *)
(* check and revoke them (src/src/application/use-cases/auth and .../user, *)
(* over the Prisma repositories).                                          *)
(*                                                                         *)
(* A request handler is an async function: it runs alone between two       *)
(* awaits, so every await is a step of its own and what it read earlier    *)
(* may be stale when it is used.  PostgreSQL runs the transactions at READ *)
(* COMMITTED: an UPDATE chooses its rows from the snapshot of its start,   *)
(* waits for rows another transaction has locked, and never sees a row     *)
(* inserted meanwhile.  A revoking statement is therefore two steps, the   *)
(* snapshot (which rows) and the application, and a rotation is two steps, *)
(* the conditional update (which locks the row) and the commit.            *)
(***************************************************************************)
EXTENDS Naturals, FiniteSets

CONSTANTS
    User, Password,      \* accounts and the passwords they may have
    Family, Token,       \* sessions (one per family) and refresh tokens
    Request,             \* slots for the requests in flight together
    Operation,           \* the operations that may arrive in this instance
    RepositoryMapsMfa,   \* does the user repository return mfaEnabled?
    None

Operations ==
    {"login", "social", "refresh", "validate", "logout", "revokeSession",
     "changePassword", "resetPassword", "deactivate", "enableMfa", "disableMfa",
     "expire", "abort"}

ASSUME SessionsAssumption ==
    /\ Operation \subseteq Operations
    /\ RepositoryMapsMfa \in BOOLEAN
    /\ None \notin User \cup Password \cup Family \cup Token
    /\ None \notin {"issued", "admitted", "refused", "reused", "ok"}

VARIABLES
    users,      \* the rows of table users, by account
    sessions,   \* the rows of table sessions, by family
    tokens,     \* the rows of table refresh_tokens
    blocklist,  \* access tokens (named by the refresh token issued with them)
    pc,         \* what each request awaits
    ctx         \* the local variables of each request

dbVars == <<users, sessions, tokens>>
vars == <<users, sessions, tokens, blocklist, pc, ctx>>

-----------------------------------------------------------------------------
(* Rows, locals, and what is read off them.                                *)

UserRow == [pwd: Password, legacy: BOOLEAN, active: BOOLEAN, mfa: BOOLEAN]

\* due and second record how the session was obtained: whether the account had
\* MFA on when the login read it, and whether a second factor was checked.  No
\* action reads them.
SessionRow ==
    [user: User \cup {None}, revoked: BOOLEAN, expired: BOOLEAN,
     due: BOOLEAN, second: BOOLEAN]

NoSession ==
    [user |-> None, revoked |-> FALSE, expired |-> FALSE,
     due |-> FALSE, second |-> FALSE]

\* late records that the session was already dead when the token was inserted.
\* No action reads it.
TokenRow ==
    [family: Family \cup {None}, state: {"unused", "live", "revoked"},
     expired: BOOLEAN, late: BOOLEAN]

Locals ==
    [op: Operations \cup {None}, user: User \cup {None},
     row: UserRow \cup {None}, family: Family \cup {None},
     token: Token \cup {None}, due: BOOLEAN, second: BOOLEAN,
     doomed: BOOLEAN, deadTokens: SUBSET Token, deadFamilies: SUBSET Family,
     out: {None, "issued", "admitted", "refused", "reused", "ok"}]

NoLocals ==
    [op |-> None, user |-> None, row |-> None, family |-> None,
     token |-> None, due |-> FALSE, second |-> FALSE, doomed |-> FALSE,
     deadTokens |-> {}, deadFamilies |-> {}, out |-> None]

Labels ==
    {"idle", "rehash", "checks", "challenged", "createSession", "createToken",
     "loadUser", "loadSession", "rotate", "commitRotation",
     "killFamily", "killFamilyApply", "reuseFamily", "reuseFamilyApply",
     "reuseSession", "validateUser", "validateSession",
     "revokeTx", "revokeTxCommit", "blocklist",
     "accountTx", "accountTxCommit", "done"}

SessionActive(f) ==
    /\ sessions[f].user # None
    /\ ~sessions[f].revoked
    /\ ~sessions[f].expired

Dead(f) == sessions[f].user # None /\ (sessions[f].revoked \/ sessions[f].expired)

\* The row inserted for a new token of family f.
NewToken(f) == [family |-> f, state |-> "live", expired |-> FALSE, late |-> Dead(f)]

LiveTokens(f) == {t \in Token : tokens[t].family = f /\ tokens[t].state = "live"}

Revoked(S) ==
    [t \in Token |-> IF t \in S /\ tokens[t].state = "live"
                     THEN [tokens[t] EXCEPT !.state = "revoked"]
                     ELSE tokens[t]]

SessionsRevoked(F) ==
    [f \in Family |-> IF f \in F THEN [sessions[f] EXCEPT !.revoked = TRUE]
                                 ELSE sessions[f]]

\* A rotation holds the row of the token it consumed until it commits, an
\* account transaction the row of its user.
TokenLocked(t) == \E q \in Request : pc[q] = "commitRotation" /\ ctx[q].token = t
UserLocked(u) == \E q \in Request : pc[q] = "accountTxCommit" /\ ctx[q].user = u

Goto(r, label) == pc' = [pc EXCEPT ![r] = label]

Answered(x, out) == [x EXCEPT !.out = out]

Finish(r, out) ==
    /\ Goto(r, "done")
    /\ ctx' = [ctx EXCEPT ![r] = Answered(@, out)]

\* What a handler knows of the refresh or access token it was given; doomed
\* records whether the session was dead by then, and no action reads it.
Known(op, t) ==
    LET f == tokens[t].family
    IN  [NoLocals EXCEPT !.op = op, !.token = t, !.family = f,
                         !.user = sessions[f].user,
                         !.doomed = sessions[f].revoked \/ sessions[f].expired]

Arrives(r, op) == op \in Operation /\ pc[r] = "idle"

Init ==
    /\ users \in [User -> {row \in UserRow : row.active}]
    /\ sessions = [f \in Family |-> NoSession]
    /\ tokens = [t \in Token |->
                    [family |-> None, state |-> "unused", expired |-> FALSE,
                     late |-> FALSE]]
    /\ blocklist = {}
    /\ pc = [r \in Request |-> "idle"]
    /\ ctx = [r \in Request |-> NoLocals]

-----------------------------------------------------------------------------
(* Login.                                                                  *)

\* The user row as the repository hands it over: toDomain leaves mfaEnabled
\* out unless RepositoryMapsMfa.
ReadRow(u) == [users[u] EXCEPT !.mfa = @ /\ RepositoryMapsMfa]

\* findByEmail, then the password is compared with the row just read.  (The
\* wrong password only feeds the attempt counters of the lockout, left out here.)
LoginRead(r) ==
    /\ Arrives(r, "login")
    /\ \E u \in User :
        /\ ctx' = [ctx EXCEPT ![r] =
                     [NoLocals EXCEPT !.op = "login", !.user = u,
                                      !.row = ReadRow(u), !.due = users[u].mfa]]
        /\ Goto(r, IF users[u].legacy THEN "rehash" ELSE "checks")
    /\ UNCHANGED <<dbVars, blocklist>>

\* needsRehash: after the new hash is computed the WHOLE row read above is
\* written back.  update() writes neither mfaEnabled nor mfaMethod.
LoginRehash(r) ==
    /\ pc[r] = "rehash"
    /\ ~UserLocked(ctx[r].user)
    /\ users' = [users EXCEPT ![ctx[r].user] =
                    [@ EXCEPT !.pwd = ctx[r].row.pwd, !.legacy = FALSE,
                              !.active = ctx[r].row.active]]
    /\ Goto(r, "checks")
    /\ UNCHANGED <<sessions, tokens, blocklist, ctx>>

\* findByProvider: no password, no rehash, the same checks.
SocialRead(r) ==
    /\ Arrives(r, "social")
    /\ \E u \in User :
        ctx' = [ctx EXCEPT ![r] =
                  [NoLocals EXCEPT !.op = "social", !.user = u,
                                   !.row = ReadRow(u), !.due = users[u].mfa]]
    /\ Goto(r, "checks")
    /\ UNCHANGED <<dbVars, blocklist>>

\* Mutant: a social login is not asked for the second factor.
LoginChecksTrustingProvider(r) ==
    /\ pc[r] = "checks"
    /\ \/ /\ ~ctx[r].row.active
          /\ Finish(r, "refused")
       \/ /\ ctx[r].row.active
          /\ Goto(r, IF ctx[r].row.mfa /\ ctx[r].op = "login" THEN "challenged"
                                                             ELSE "createSession")
          /\ UNCHANGED ctx
    /\ UNCHANGED <<dbVars, blocklist>>

\* isActive and mfaEnabled of the row as it was read.
LoginChecks(r) ==
    /\ pc[r] = "checks"
    /\ \/ /\ ~ctx[r].row.active
          /\ Finish(r, "refused")
       \/ /\ ctx[r].row.active
          /\ Goto(r, IF ctx[r].row.mfa THEN "challenged" ELSE "createSession")
          /\ UNCHANGED ctx
    /\ UNCHANGED <<dbVars, blocklist>>

\* CompleteMfaLogin: the code was valid and the challenge consumed (module
\* Mfa); the user is loaded again.
CompleteMfaLogin(r) ==
    /\ pc[r] = "challenged"
    /\ \/ /\ ~users[ctx[r].user].active
          /\ Finish(r, "refused")
       \/ /\ users[ctx[r].user].active
          /\ ctx' = [ctx EXCEPT ![r] = [@ EXCEPT !.second = TRUE]]
          /\ Goto(r, "createSession")
    /\ UNCHANGED <<dbVars, blocklist>>

\* The challenge expires unanswered.
ChallengeExpires(r) ==
    /\ pc[r] = "challenged"
    /\ Finish(r, "refused")
    /\ UNCHANGED <<dbVars, blocklist>>

CreateSession(r) ==
    /\ pc[r] = "createSession"
    /\ \E f \in Family :
        /\ sessions[f].user = None
        /\ sessions' = [sessions EXCEPT ![f] =
               [user |-> ctx[r].user, revoked |-> FALSE, expired |-> FALSE,
                due |-> ctx[r].due, second |-> ctx[r].second]]
        /\ ctx' = [ctx EXCEPT ![r] = [@ EXCEPT !.family = f]]
    /\ Goto(r, "createToken")
    /\ UNCHANGED <<users, tokens, blocklist>>

CreateToken(r) ==
    /\ pc[r] = "createToken"
    /\ \E t \in Token :
        /\ tokens[t].state = "unused"
        /\ tokens' = [tokens EXCEPT ![t] = NewToken(ctx[r].family)]
    /\ Finish(r, "issued")
    /\ UNCHANGED <<users, sessions, blocklist>>

-----------------------------------------------------------------------------
(* Refresh: rotation with reuse detection.                                 *)

\* findByToken; a revoked token means reuse, an expired one is refused.
RefreshFind(r) ==
    /\ Arrives(r, "refresh")
    /\ \E t \in Token :
        \/ /\ tokens[t].state = "revoked"
           /\ ctx' = [ctx EXCEPT ![r] = Known("refresh", t)]
           /\ Goto(r, "reuseFamily")
        \/ /\ tokens[t].state = "live"
           /\ tokens[t].expired
           /\ ctx' = [ctx EXCEPT ![r] = Answered(Known("refresh", t), "refused")]
           /\ Goto(r, "done")
        \/ /\ tokens[t].state = "live"
           /\ ~tokens[t].expired
           /\ ctx' = [ctx EXCEPT ![r] = Known("refresh", t)]
           /\ Goto(r, "loadUser")
    /\ UNCHANGED <<dbVars, blocklist>>

RefreshLoadUser(r) ==
    /\ pc[r] = "loadUser"
    /\ \/ /\ ~users[ctx[r].user].active
          /\ Finish(r, "refused")
       \/ /\ users[ctx[r].user].active
          /\ Goto(r, "loadSession")
          /\ UNCHANGED ctx
    /\ UNCHANGED <<dbVars, blocklist>>

\* Mutant: the session is loaded but its state is not looked at.
RefreshLoadAnySession(r) ==
    /\ pc[r] = "loadSession"
    /\ Goto(r, "rotate")
    /\ UNCHANGED <<dbVars, blocklist, ctx>>

\* findByFamily, then updateActivity, which changes nothing modelled here.
RefreshLoadSession(r) ==
    /\ pc[r] = "loadSession"
    /\ Goto(r, IF SessionActive(ctx[r].family) THEN "rotate" ELSE "killFamily")
    /\ UNCHANGED <<dbVars, blocklist, ctx>>

\* Mutant: the update names the token only, not revokedAt IS NULL.
RotateConsumeAny(r) ==
    /\ pc[r] = "rotate"
    /\ ~TokenLocked(ctx[r].token)
    /\ Goto(r, "commitRotation")
    /\ UNCHANGED <<dbVars, blocklist, ctx>>

\* Mutant: the token is read and checked, and written in a later statement.
RotateReadThenWrite(r) ==
    /\ pc[r] = "rotate"
    /\ LET t == tokens[ctx[r].token]
       IN  Goto(r, IF t.state = "live" /\ ~t.expired THEN "commitRotation"
                                                     ELSE "reuseFamily")
    /\ UNCHANGED <<dbVars, blocklist, ctx>>

\* rotate(), first statement: UPDATE ... WHERE id AND revokedAt IS NULL AND
\* not expired.  It waits for a rotation that holds the row; the one that finds
\* the token consumed goes on to the family-wide revocation.
RotateConsume(r) ==
    /\ pc[r] = "rotate"
    /\ ~TokenLocked(ctx[r].token)
    /\ LET t == tokens[ctx[r].token]
       IN  Goto(r, IF t.state = "live" /\ ~t.expired THEN "commitRotation"
                                                     ELSE "reuseFamily")
    /\ UNCHANGED <<dbVars, blocklist, ctx>>

\* rotate(), insert of the replacement and commit.
RotateCommit(r) ==
    /\ pc[r] = "commitRotation"
    /\ \E t \in Token :
        /\ tokens[t].state = "unused"
        /\ tokens' = [tokens EXCEPT
               ![ctx[r].token] = [@ EXCEPT !.state = "revoked"],
               ![t] = NewToken(ctx[r].family)]
    /\ Finish(r, "issued")
    /\ UNCHANGED <<users, sessions, blocklist>>

\* revokeAllByFamily: the statement's snapshot ...
RevokeFamilySnapshot(r) ==
    /\ pc[r] \in {"reuseFamily", "killFamily"}
    /\ ctx' = [ctx EXCEPT ![r] = [@ EXCEPT !.deadTokens = LiveTokens(ctx[r].family)]]
    /\ Goto(r, IF pc[r] = "reuseFamily" THEN "reuseFamilyApply" ELSE "killFamilyApply")
    /\ UNCHANGED <<dbVars, blocklist>>

\* Mutant: reuse revokes the tokens and leaves the session alone.
RevokeFamilyTokensOnly(r) ==
    /\ pc[r] \in {"reuseFamilyApply", "killFamilyApply"}
    /\ \A t \in ctx[r].deadTokens : ~TokenLocked(t)
    /\ tokens' = Revoked(ctx[r].deadTokens)
    /\ Finish(r, "reused")
    /\ UNCHANGED <<users, sessions, blocklist>>

\* ... and its application, to the rows that still match.
RevokeFamilyApply(r) ==
    /\ pc[r] \in {"reuseFamilyApply", "killFamilyApply"}
    /\ \A t \in ctx[r].deadTokens : ~TokenLocked(t)
    /\ tokens' = Revoked(ctx[r].deadTokens)
    /\ \/ /\ pc[r] = "reuseFamilyApply"
          /\ Goto(r, "reuseSession")
          /\ UNCHANGED ctx
       \/ /\ pc[r] = "killFamilyApply"
          /\ Finish(r, "refused")
    /\ UNCHANGED <<users, sessions, blocklist>>

\* sessionRepository.revokeByFamily, then RefreshTokenReusedError.
RevokeFamilySession(r) ==
    /\ pc[r] = "reuseSession"
    /\ sessions' = SessionsRevoked({ctx[r].family})
    /\ Finish(r, "reused")
    /\ UNCHANGED <<users, tokens, blocklist>>

-----------------------------------------------------------------------------
(* Validation of an access token (validate-token and the auth middleware). *)

\* The signature is verified, then the blocklist is looked up.
ValidateBlocklist(r) ==
    /\ Arrives(r, "validate")
    /\ \E t \in Token :
        /\ tokens[t].state # "unused"
        /\ \/ /\ t \in blocklist
              /\ ctx' = [ctx EXCEPT ![r] = Answered(Known("validate", t), "refused")]
              /\ Goto(r, "done")
           \/ /\ t \notin blocklist
              /\ ctx' = [ctx EXCEPT ![r] = Known("validate", t)]
              /\ Goto(r, "validateUser")
    /\ UNCHANGED <<dbVars, blocklist>>

ValidateUser(r) ==
    /\ pc[r] = "validateUser"
    /\ \/ /\ ~users[ctx[r].user].active
          /\ Finish(r, "refused")
       \/ /\ users[ctx[r].user].active
          /\ Goto(r, "validateSession")
          /\ UNCHANGED ctx
    /\ UNCHANGED <<dbVars, blocklist>>

\* Mutant: the session of an access token is not looked up.
ValidateAnySession(r) ==
    /\ pc[r] = "validateSession"
    /\ Finish(r, "admitted")
    /\ UNCHANGED <<dbVars, blocklist>>

ValidateSession(r) ==
    /\ pc[r] = "validateSession"
    /\ Finish(r, IF SessionActive(ctx[r].family) THEN "admitted" ELSE "refused")
    /\ UNCHANGED <<dbVars, blocklist>>

-----------------------------------------------------------------------------
(* Logout and revocation of one session (revokeSessionAndTokens).          *)

RevokeSessionStart(r) ==
    /\ \E op \in {"logout", "revokeSession"} :
        /\ Arrives(r, op)
        /\ \E t \in Token :
            /\ tokens[t].state # "unused"
            /\ ctx' = [ctx EXCEPT ![r] =
                         [NoLocals EXCEPT !.op = op, !.token = t,
                                          !.family = tokens[t].family]]
    /\ Goto(r, "revokeTx")
    /\ UNCHANGED <<dbVars, blocklist>>

RevokeSessionSnapshot(r) ==
    /\ pc[r] = "revokeTx"
    /\ ctx' = [ctx EXCEPT ![r] = [@ EXCEPT !.deadTokens = LiveTokens(ctx[r].family)]]
    /\ Goto(r, "revokeTxCommit")
    /\ UNCHANGED <<dbVars, blocklist>>

RevokeSessionCommit(r) ==
    /\ pc[r] = "revokeTxCommit"
    /\ \A t \in ctx[r].deadTokens : ~TokenLocked(t)
    /\ tokens' = Revoked(ctx[r].deadTokens)
    /\ sessions' = SessionsRevoked({ctx[r].family})
    /\ \/ /\ ctx[r].op = "logout"
          /\ Goto(r, "blocklist")
          /\ UNCHANGED ctx
       \/ /\ ctx[r].op = "revokeSession"
          /\ Finish(r, "ok")
    /\ UNCHANGED <<users, blocklist>>

LogoutBlocklist(r) ==
    /\ pc[r] = "blocklist"
    /\ blocklist' = blocklist \cup {ctx[r].token}
    /\ Finish(r, "ok")
    /\ UNCHANGED dbVars

-----------------------------------------------------------------------------
(* Account operations that revoke every session in one transaction.        *)

AccountOperation ==
    {"changePassword", "resetPassword", "deactivate", "enableMfa", "disableMfa"}

\* The user is loaded: changePassword verifies the current password on it, MFA
\* is set up only if it is off and disabled only if it is on.  (The codes that
\* verify the request are module Mfa's.)
AccountRead(r) ==
    /\ \E op \in AccountOperation, u \in User :
        /\ Arrives(r, op)
        /\ op = "enableMfa" => ~ReadRow(u).mfa
        /\ op = "disableMfa" => ReadRow(u).mfa
        /\ ctx' = [ctx EXCEPT ![r] = [NoLocals EXCEPT !.op = op, !.user = u,
                                                       !.row = ReadRow(u)]]
    /\ Goto(r, "accountTx")
    /\ UNCHANGED <<dbVars, blocklist>>

\* completeSetup updates the user WHERE mfaEnabled is false, or rolls back.
AlreadyEnabled(x) == x.op = "enableMfa" /\ users[x.user].mfa

\* The transaction updates the user row, which it holds until it commits, and
\* the two revoking statements choose their rows.
AccountSnapshot(r) ==
    /\ pc[r] = "accountTx"
    /\ ~UserLocked(ctx[r].user)
    /\ \/ /\ AlreadyEnabled(ctx[r])
          /\ Finish(r, "refused")
       \/ /\ ~AlreadyEnabled(ctx[r])
          /\ LET mine == {f \in Family : sessions[f].user = ctx[r].user}
             IN  ctx' = [ctx EXCEPT ![r] =
                           [@ EXCEPT !.deadFamilies = mine,
                                     !.deadTokens = UNION {LiveTokens(f) : f \in mine}]]
          /\ Goto(r, "accountTxCommit")
    /\ UNCHANGED <<dbVars, blocklist>>

\* The new user row.  A changed password differs from the one read.
AccountWrite(op, row, read) ==
    CASE op = "deactivate" -> {[row EXCEPT !.active = FALSE]}
      [] op = "enableMfa" -> {[row EXCEPT !.mfa = TRUE]}
      [] op = "disableMfa" -> {[row EXCEPT !.mfa = FALSE]}
      [] op = "resetPassword" ->
            {[row EXCEPT !.pwd = p, !.legacy = FALSE] : p \in Password}
      [] OTHER ->
            {[row EXCEPT !.pwd = p, !.legacy = FALSE] : p \in Password \ {read.pwd}}

AccountCommit(r) ==
    /\ pc[r] = "accountTxCommit"
    /\ \A t \in ctx[r].deadTokens : ~TokenLocked(t)
    /\ \E row \in AccountWrite(ctx[r].op, users[ctx[r].user], ctx[r].row) :
        users' = [users EXCEPT ![ctx[r].user] = row]
    /\ tokens' = Revoked(ctx[r].deadTokens)
    /\ sessions' = SessionsRevoked(ctx[r].deadFamilies)
    /\ Finish(r, "ok")
    /\ UNCHANGED blocklist

-----------------------------------------------------------------------------
(* Time, failures and the end of a request.                                *)

SessionExpires(f) ==
    /\ "expire" \in Operation
    /\ SessionActive(f)
    /\ sessions' = [sessions EXCEPT ![f] = [@ EXCEPT !.expired = TRUE]]
    /\ UNCHANGED <<users, tokens, blocklist, pc, ctx>>

\* A refresh token is issued with its session or later and lives as long, so it
\* does not expire before the session.
TokenExpires(t) ==
    /\ "expire" \in Operation
    /\ tokens[t].state = "live"
    /\ ~tokens[t].expired
    /\ ~TokenLocked(t)
    /\ sessions[tokens[t].family].expired
    /\ tokens' = [tokens EXCEPT ![t] = [@ EXCEPT !.expired = TRUE]]
    /\ UNCHANGED <<users, sessions, blocklist, pc, ctx>>

\* The process stops, or a call fails: the handler ends where it is and an open
\* transaction is rolled back.
Abort(r) ==
    /\ "abort" \in Operation
    /\ pc[r] \notin {"idle", "done"}
    /\ Goto(r, "idle")
    /\ ctx' = [ctx EXCEPT ![r] = NoLocals]
    /\ UNCHANGED <<dbVars, blocklist>>

\* An insert fails: the handler throws, a rotation is rolled back.
InsertFails(r) ==
    /\ pc[r] \in {"createSession", "createToken", "commitRotation"}
    /\ Finish(r, "refused")
    /\ UNCHANGED <<dbVars, blocklist>>

Respond(r) ==
    /\ pc[r] = "done"
    /\ Goto(r, "idle")
    /\ ctx' = [ctx EXCEPT ![r] = NoLocals]
    /\ UNCHANGED <<dbVars, blocklist>>

-----------------------------------------------------------------------------

Arrival(r) ==
    \/ LoginRead(r) \/ SocialRead(r) \/ RefreshFind(r)
    \/ ValidateBlocklist(r) \/ RevokeSessionStart(r) \/ AccountRead(r)

\* The steps a request takes on its own once it has arrived.
Progress(r) ==
    \/ LoginRehash(r) \/ LoginChecks(r) \/ CreateSession(r) \/ CreateToken(r)
    \/ RefreshLoadUser(r) \/ RefreshLoadSession(r) \/ RotateConsume(r)
    \/ RotateCommit(r) \/ RevokeFamilySnapshot(r) \/ RevokeFamilyApply(r)
    \/ RevokeFamilySession(r) \/ ValidateUser(r) \/ ValidateSession(r)
    \/ RevokeSessionSnapshot(r) \/ RevokeSessionCommit(r) \/ LogoutBlocklist(r)
    \/ AccountSnapshot(r) \/ AccountCommit(r) \/ InsertFails(r)
    \/ Respond(r)

Next ==
    \/ \E r \in Request :
        Arrival(r) \/ Progress(r) \/ CompleteMfaLogin(r) \/ ChallengeExpires(r) \/ Abort(r)
    \/ \E f \in Family : SessionExpires(f)
    \/ \E t \in Token : TokenExpires(t)

Spec == Init /\ [][Next]_vars

\* The steps that wait for a row lock.
LockStep(r) ==
    \/ LoginRehash(r) \/ RotateConsume(r) \/ RevokeFamilyApply(r)
    \/ RevokeSessionCommit(r) \/ AccountSnapshot(r) \/ AccountCommit(r)

\* Node runs every continuation that is ready and PostgreSQL and Redis answer,
\* so a request that can go on does; PostgreSQL queues the waiters of a row
\* lock, so one whose row keeps being released gets it.  Nothing forces a
\* request to arrive, a user to answer, time to pass or a process to stop.
FairSpec ==
    /\ Spec
    /\ \A r \in Request : WF_vars(Progress(r)) /\ SF_vars(LockStep(r))

-----------------------------------------------------------------------------
(* Properties.                                                             *)

\* Types of the rows, the locals and the labels.
TypeOK ==
    /\ users \in [User -> UserRow]
    /\ sessions \in [Family -> SessionRow]
    /\ tokens \in [Token -> TokenRow]
    /\ blocklist \subseteq Token
    /\ pc \in [Request -> Labels]
    /\ ctx \in [Request -> Locals]

\* However refreshes, revocations and failures interleave, a family never holds
\* two refresh tokens that can both be exchanged: rotation is a compare-and-set
\* on the old token and inserts exactly one successor.
SingleLiveToken ==
    \A s, t \in Token :
        /\ tokens[s].state = "live" /\ tokens[t].state = "live"
        /\ tokens[s].family = tokens[t].family
        => s = t

\* Rotation implements the token chain of TokenFamily: a family is opened once,
\* its token is exchanged at most once, and nothing spent comes back.
Chain == INSTANCE TokenFamily WITH
    current <- [f \in Family |-> LiveTokens(f)],
    spent <- {t \in Token : tokens[t].state = "revoked"},
    born <- {f \in Family : \E t \in Token : tokens[t].family = f}

ImplementsTokenFamily == Chain!FamilySpec

\* A refresh or an access token presented after its session was revoked or
\* expired is never honoured, whatever runs at the same time, even where a
\* revoking statement missed a token a concurrent rotation was inserting: the
\* session row is the last line of defence, read by both handlers.
RevokedSessionRefused ==
    \A r \in Request : ctx[r].doomed => ctx[r].out \notin {"issued", "admitted"}

\* A token may come into a family whose session is already dead: from a login
\* that had inserted the session, or from a rotation that had read it active
\* before it expired or before the second statement of a detected reuse.  It is
\* the last one: whatever else races, it buys no successor, and no other follows.
OneLateToken ==
    \A s, t \in Token :
        /\ tokens[s].late /\ tokens[t].late
        /\ tokens[s].family = tokens[t].family
        => s = t

\* No session is opened without the second factor by a login that read the
\* account after MFA had been turned on, by password or by social provider.
NoSessionBeforeSecondFactor ==
    \A f \in Family : sessions[f].user # None /\ sessions[f].due => sessions[f].second

\* A reuse that was detected ends the session, if the process keeps running:
\* the two revoking statements are not one transaction.
ReuseLeadsToRevocation ==
    \A r \in Request, f \in Family :
        pc[r] = "reuseFamily" /\ ctx[r].family = f ~> sessions[f].revoked

-----------------------------------------------------------------------------
(* The inductive invariant: what a request's label l says of its locals x  *)
(* and of the rows.                                                        *)

Opening == {"rehash", "checks", "challenged", "createSession"}
Accounting == {"accountTx", "accountTxCommit"}
Rotating == {"loadUser", "loadSession", "rotate", "commitRotation"}
Reusing == {"reuseFamily", "reuseFamilyApply", "reuseSession"}
WithFamily ==
    Rotating \cup Reusing \cup
    {"createToken", "killFamily", "killFamilyApply", "validateUser",
     "validateSession", "revokeTx", "revokeTxCommit"}
WithToken == Rotating \cup {"revokeTx", "revokeTxCommit", "blocklist"}

\* The locals a label needs are set.
LocalsSet(l, x) ==
    /\ l \in Opening \cup Accounting => x.user \in User /\ x.row \in UserRow
    /\ l \in WithFamily => x.family \in Family
    /\ l \in WithToken => x.token \in Token

\* A login about to insert the first token of its family finds none there.
OpeningFresh(l, x) ==
    l = "createToken" =>
        /\ sessions[x.family].user # None
        /\ \A t \in Token : tokens[t].family # x.family

\* The family of a refresh is that of its token and has a session; a rotation
\* about to commit holds a token that is still live.
RotationKnows(l, x) ==
    /\ l \in Rotating => tokens[x.token].family = x.family
    /\ l \in Rotating \cup Reusing => sessions[x.family].user # None
    /\ l = "commitRotation" => tokens[x.token].state = "live"

\* A doomed request stays on a dead session and off the steps that issue.
DoomedStaysOut(l, x) ==
    x.doomed =>
        /\ x.family \in Family
        /\ Dead(x.family)
        /\ l \notin Opening \cup {"createToken", "rotate", "commitRotation"}
        /\ x.out \notin {"issued", "admitted"}

RequestOK(l, x) ==
    /\ LocalsSet(l, x) /\ OpeningFresh(l, x) /\ RotationKnows(l, x)
    /\ DoomedStaysOut(l, x)

\* A token in use belongs to a family whose session row exists.
TokensHaveSession ==
    \A t \in Token :
        /\ tokens[t].state = "unused" <=> tokens[t].family = None
        /\ tokens[t].family # None => sessions[tokens[t].family].user # None

\* Two logins never open one family, two rotations never hold one token.
Apart(l, x, m, y) ==
    /\ l = "createToken" /\ m = "createToken" => x.family # y.family
    /\ l = "commitRotation" /\ m = "commitRotation" => x.token # y.token

RequestsApart ==
    \A q, r \in Request : q # r => Apart(pc[q], ctx[q], pc[r], ctx[r])

IndInv ==
    /\ TypeOK /\ TokensHaveSession /\ SingleLiveToken
    /\ \A r \in Request : RequestOK(pc[r], ctx[r])
    /\ RequestsApart

\* What keeps a late token the last: its family is dead and otherwise spent, and
\* a rotation that holds it or means to was given it after the session died.
LateInv ==
    /\ \A t \in Token : tokens[t].late =>
          /\ tokens[t].family \in Family
          /\ Dead(tokens[t].family)
          /\ \A s \in Token \ {t} :
                tokens[s].family = tokens[t].family =>
                    tokens[s].state = "revoked" /\ ~tokens[s].late
          /\ \A r \in Request :
                pc[r] \in Rotating /\ ctx[r].token = t => ctx[r].doomed
=============================================================================
