# Verification of the authentication API

TLA+ modules, TLC configurations and TLAPS proofs for the authentication API
in `src/`: a Fastify/TypeScript service over PostgreSQL (through Prisma) and
Redis that registers users, signs them in by password, social provider, second
factor and OAuth, keeps their sessions and refresh tokens, and manages
organizations, roles and webhooks.

Paths below are relative to the repository's `src/src/` unless they start with
`README`, `doc/` or `prisma/`.

## 1. The system

### 1.1 Components, their state and their operations

| component | state | operations | code |
|---|---|---|---|
| sessions and refresh tokens | `sessions`, `refresh_tokens`, the access-token blocklist in Redis | login, social login, refresh (rotation, reuse detection), validate, logout, revoke a session, revoke all | `application/use-cases/auth`, `.../session`, `prisma-session`, `prisma-refresh-token`, `prisma-account-security` repositories |
| second factor | `mfa_secrets`, `mfa_recovery_codes`, `users.mfaEnabled`; in Redis the login challenge, its attempts, the attempts of a user, the e-mailed code, the used TOTP counters | set up, verify setup, complete login, send code, regenerate recovery codes, disable | `application/use-cases/mfa`, `application/services/mfa-challenge.service.ts`, `prisma-mfa` repository |
| login lockout | two counters in Redis (account, network address) | check, increment, clear | `authenticate-user.use-case.ts` |
| verification tokens | `verification_tokens`, the resend cooldown in Redis | send, resend, verify e-mail, request reset, reset | `application/use-cases/auth`, `prisma-verification-token` |
| user records and avatars | `users`, the objects of the S3 bucket | register, update, change password, deactivate, upload and delete avatar | `application/use-cases/user`, `prisma-user`, `s3-storage.service.ts` |
| social accounts | `social_accounts` | link, unlink, sign in | `application/use-cases/social`, `authenticate-social.use-case.ts` |
| OAuth | `client_apps`, `authorization_codes`, `oauth_consents` | register client, authorize, consent, exchange code, userinfo | `application/use-cases/oauth`, `.../client-app` |
| organizations | `organizations`, `org_members`, `org_invitations` | create, invite, accept, change role, remove, update | `application/use-cases/organization` |
| custom roles | `custom_roles`, `role_permissions`, `user_roles` | create, update, delete, assign, revoke, resolve permissions | `application/use-cases/rbac` |
| webhooks | `webhooks`, `webhook_deliveries` | register, update, delete, dispatch, retry | `application/use-cases/webhook`, `infrastructure/webhook` |
| HTTP adapters | none of their own | routes, schemas, controllers, guards | `adapters/http` |
| tokens and ciphers | keys | sign and verify JWTs, hash, encrypt | `infrastructure/security` |
| composition and configuration | none | environment, container, server, login history, client apps' listings | `container.ts`, `app.ts`, `server.ts`, `infrastructure/config` |

### 1.2 How the parts interact

A request enters a route, passes the schema and the guards (the auth
middleware runs `ValidateTokenUseCase` and reads the user), and the controller
calls one use case. A use case is one async function over ports: repositories
(PostgreSQL), the cache (Redis), the mailer, S3, HTTP to webhook receivers.
There is no queue and no worker: everything happens inside a request, and the
webhook events a use case raises are not awaited by it. The components meet in
shared rows: `users` (login reads it, MFA, password change, deactivation and
profile updates write it), `sessions` and `refresh_tokens` (written by login,
refresh and by every operation that revokes), and in Redis keys (the e-mailed
MFA code is one key per user whatever it was sent for).

### 1.3 What is hard

* **Interleaving.** Node runs a handler alone between two awaits, and several
  processes may serve the same database, so every await is a point where any
  other request may run; what was read before it may be stale.
* **Isolation.** Prisma's interactive and batch transactions run at
  PostgreSQL's default READ COMMITTED: a statement works on the snapshot of its
  own start, waits for rows that are locked and re-checks its condition on the
  committed row (`UPDATE ... WHERE revokedAt IS NULL` is a compare-and-set), and
  never sees rows inserted meanwhile.
* **Partial failure.** Few use cases are one transaction; a process that stops,
  or a call that fails, leaves the writes made so far.
* **Expiry.** Sessions, tokens, codes, challenges, counters and cooldowns
  expire by the clock, between any two steps.

The hazards this makes real are listed, each at its line, in `PROJECT.json`.

## 2. The modules

| module | models | kind |
|---|---|---|
| `Sessions` | sessions, refresh tokens, the blocklist, and the account operations that revoke them | state machine |
| `TokenFamily` | what rotation promises: a chain of tokens per family | abstract specification |
| `OneTime` | what is promised of everything that may be used once; `OAuth`, `VerificationTokens` and `Mfa` implement it | abstract specification |
| `SessionsProofs` | theorems of `Sessions` | proofs |
| `Mfa` | the second factor of one account | state machine |
| `TotpReplay` | the life of a TOTP code against the life of its replay key, by the second | state machine |
| `MfaProofs` | theorems of `Mfa` and of `TotpReplay` | proofs |
| `VerificationTokens` | the links that verify an address and reset a password, with row locks | state machine |
| `VerificationTokensProofs` | theorems of `VerificationTokens` | proofs |
| `OAuth` | consent, authorization codes, tokens, UserInfo | state machine |
| `OAuthProofs` | theorems of `OAuth` | proofs |
| `Organizations` | members, roles and invitations of one organization | state machine |
| `CustomRoles` | custom roles, permissions and assignments, composed with `Organizations` | state machine |
| `CustomRolesProofs` | theorems of `Organizations` and of `CustomRoles` | proofs |
| `Webhooks` | endpoints, deliveries, the dispatcher and the retry workers | state machine |
| `WebhooksProofs` | theorems of `Webhooks` | proofs |
| `Accounts` | one account's row and its avatar objects | state machine |
| `AccountsProofs` | theorems of `Accounts` | proofs |
| `SignIn` | registration, password log-in with its lockout, sign-in with a provider, linking and unlinking, across accounts | state machine |
| `SignInProofs` | theorems of `SignIn` | proofs |
| `MC*` | symmetry sets and the constants a configuration cannot write | instances |

### 2.1 How state and actions correspond to the code

The same conventions hold in every module.

* A **request** is a process. Its label (`pc[r]`, or `request[r].phase`) names
  the await it has reached, its record (`ctx[r]`, `request[r]`) holds the local
  variables of the handler. An action is what the handler does from one await
  to the next: it reads or writes the database once and computes on what it read
  earlier, stale or not.
* A **row** is a record in a function over the identities rows may have; a
  value outside the records (`None`), or a state such as `unused`, is a row
  that has not been inserted. Identities, tokens, codes, hashes and keys are
  model values: what the program draws at random is a value never drawn before.
* A **compare-and-set** (`updateMany ... WHERE revokedAt IS NULL` and its like)
  tests and writes in one step. A statement that chooses several rows is two
  steps where another transaction can come between its snapshot and its writes.
  Row locks are modelled where requests wait for one another's rows:
  `TokenLocked` and `UserLocked` in `Sessions`, `lock` in `VerificationTokens`.
* **Time** is an action that marks a session, token, code, invitation or key as
  expired, whenever that can happen; only `TotpReplay` counts seconds.
* **Failure**: `Abort` and `Fail` end a request at any await. What was committed
  stays, an open transaction is rolled back.
* **History variables** (`history`, `intended`, `agreed`, `meant`, `posts` ...) record what
  happened for the properties. No action's guard reads them, but for
  `history.mailed`, which is what the user's mailbox holds, and for
  `history.sent` and `drawn`, which keep random values apart. `mixed` (of
  `Accounts`), `overtaken` (of `SignIn`) and `overlapped` say that two requests
  overlapped in a way the code has no defence against, `unheard` (of `Accounts`) and
  `unrecorded` that an answer was lost: the properties that name them claim nothing
  of such behaviours, and the windows themselves are listed in section 6.

**Sessions.** `users`, `sessions`, `tokens` are the tables, `blocklist` the keys
of Redis; an access token is named by the refresh token issued with it. A login
is `LoginRead`, `LoginRehash` (a legacy hash is replaced, and with it the whole
row), `LoginChecks`, then `CreateSession` and `CreateToken`, or `CompleteMfaLogin`
after a challenge. A refresh is `RefreshFind`, `RefreshLoadUser`,
`RefreshLoadSession`, `RotateConsume` (which locks the old token's row),
`RotateCommit`; a reuse goes on to `RevokeFamilySnapshot`, `RevokeFamilyApply`,
`RevokeFamilySession`. `Validate*` is the auth middleware, `RevokeSession*` with
`LogoutBlocklist` the logout, `Account*` the five transactions that write the
user row and revoke every session. The constant `RepositoryMapsMfa` says whether
the user repository returns `mfaEnabled`: `FALSE` is the code as it is, `TRUE`
what the entities, the use cases and the docs take for granted.

**TokenFamily** knows only the current tokens of a family, the tokens spent and
the families born. `Chain` in `Sessions` is the refinement mapping: the current
tokens are the live rows, the spent ones the revoked rows. A rotation that has
locked its row but not committed is a stutter, its commit an `Exchange`.

**OneTime** knows of a credential whether it is fresh, open or closed and how
often it was accepted. A credential may be closed at any time (expiry,
replacement, a mail that is overwritten), and a use closes it. The three
mappings are `CodeState` (`OAuth`: the row's `used` and `expired`), `TokenState`
(`VerificationTokens`: the row and its deletion) and `CredentialState` (`Mfa`: the
replay key of a TOTP code, the key of the mailed code, the row of a recovery code,
the key of a challenge). Many steps of the detailed modules are one step of it:
what a transaction does to several links at once is one `Next`.

**Mfa** follows one account: every row and key carries a user id, so accounts do
not interact. `Setup`, `VerifySetup`, `Login`, `SendCode`, `CompleteLogin` and
`AccountAction` (regenerate, disable) are where requests arrive. The last two go
through one shared evaluation of a code (`CheckAttempts`, `FindVerified`,
`Evaluate` or `MatchRecovery` and `ConsumeRecovery`, `CountAttempt` or
`ClearAttempts`), as the use cases share `ValidateMfaCodeUseCase`. Attempt counters, challenge, mailed code, cooldown and
replay keys are the Redis keys. `completeSetup` and `disableAndRevokeSessions`
are one step each, though they lock in opposite orders (`completeSetup` updates
`mfa_secrets`, then `users`; disabling updates `users`, then deletes the secret):
both write both rows, so they take effect one after the other or one of them is
aborted as the victim of a deadlock, which is a `Fail`. `RepositoryMapsMfa` is as
in `Sessions`: where it is `FALSE`, as in the code, a log-in creates no
challenge, and disabling and regenerating are refused as soon as they have read the
user (`ReadMethod`).

**TotpReplay** takes the two clocks out of `Mfa`: `VerifyToken` accepts a code
from one period before to one after its own, `SetReplayKey` follows up to
`Latency` seconds later.

**VerificationTokens** follows one account. Tokens are numbered in the order they
are drawn. `DeleteSnapshot`, `LockRow`, `DeleteCommit` are the statement that
deletes the unused links; `Consume`, `Claim`, `SiblingSnapshot`, `LockRow`, `Commit` the
transaction of a link that is followed: `Consume` starts the UPDATE, whose `new Date()`
was taken before, `Claim` is the row it gets, whose `used` is tested again and
whose expiry, compared with the same date, is not. `DeadlockAbort` is PostgreSQL's
deadlock detector.

**OAuth** has one account and constant clients. `Authorize`, `CheckConsent`,
`CreateCode`; `GrantConsent`, `ReadConsent`, `WriteConsent`; `Exchange`,
`FetchUser`, `ConsumeCode`, `IssueToken`; `UserInfo`. A request refused before it
has read anything that changes is one that never starts.

**Organizations** has one slug, so one organization, which several users may try
to create. Each use case is a first action (its membership check) and one action
per further query. The two statements of `acceptAndAddMember` are one
transaction and one step.

**CustomRoles** extends `Organizations`: a step of either module is a step of the
composition, and a slot of `Requests` is used by a member or by a global admin.
What couples them is that an assignment within the organization reads the
membership (`Assignable`) and that an organization must exist for a role to
belong to it. `UpdateCustomRole` and `RenameCustomRole` are one use case with and
without permissions in the request; both write the whole set back,
`DeletePermissions` and `WriteRole` being the two statements of the transaction,
the first of which deletes the rows it sees. A row another update has inserted
since is none of those, even one for a permission that had a row before (`Unseen`):
an insert of that permission then fails on the unique row. `RolesInit` lets a role be the seeded
system role. The run of the composition checks the organization's properties too.

**Webhooks** names a sender by the delivery it makes. `Sender` and `Worker` hold
the locals of `DispatchEventUseCase` and `RetryFailedDeliveriesUseCase`, the latter
once for each process that executes it; `Record` is `recordSuccess` / `recordFailure`
of the entity, applied to the row that was *read*, and `Written` writes it by id.
`due` is the set of rows with `nextRetry <= now` and `before` their order, by pairs;
a run reads those that fewer than `BatchSize` others precede.

**Accounts** has one account's row as `PrismaUserRepository.update` writes it,
every column at once, against the transactions that write one column, and the
calls to S3 around it. `Rehash` is the log-in's write.

**SignIn** knows an account by its address (unique, in lower case, never changed)
and a social account by its provider's id (unique with the provider). A log-in is
`Login` (the account's counter), `CheckNetwork`, `FindByEmail` with the comparison,
`Rehash`, and `CountAccount`, `CountNetwork` or `ClearAccount`, `ClearNetwork`,
`OpenSession`. A social sign-in finds the identity (`Social`), or the address
(`SocialFindByEmail`) which it links, or creates both in one insert. Rows carry what
the outcome depends on: the password, and whether the account is unverified,
active or inactive. `UpdateUser` and `WriteUser` stand for the three operations
that read a row and write it back whole though they are about neither column
(`update-user`, `upload-avatar`, `delete-avatar`); `WriteBack` is
`PrismaUserRepository.update`, which `Rehash` calls too. A request is `overtaken` when
the row or link it decided on has changed since, or, of one that unlinks, when
another request has taken a way in from the account.

## 3. The runs

Configurations are small on purpose: two requests in flight are what every
defect of an interleaving needs here, since a request meets another's write
between two of its own steps; the third identity (token, user, row) is there
where a defect needs a leftover.

| run | instance | distinct states | what it shows |
|---|---|---|---|
| `sessions_protocol` | 1 family, 3 tokens, 2 requests | 1.1 M | rotation is a compare-and-set whatever races it (`SingleLiveToken`), implements the chain (`ImplementsTokenFamily`), a token presented after its session died is refused (`RevokedSessionRefused`), a detected reuse ends its session if the process goes on (`ReuseLeadsToRevocation`). `IndInv` is the invariant of the proofs |
| `sessions_account` | 1 user, 2 passwords, 1 family, 2 tokens, 2 requests, MFA mapped | 3.6 M | the account operations, expiry and a process that stops anywhere: dead sessions are refused, at most one token enters a family after its session died (`OneLateToken`), and no login that read MFA on opens a session without the second factor |
| `sessions_mfa_adapter` | as above, MFA not mapped | violation | finding 1 |
| `mfa` | 2 secrets with a code each, 1 mailed code, 2 recovery codes in lists of 1, 1 challenge, 2 attempts, 2 requests, every operation, **MFA mapped** | 3.8 M | for a repository that maps `mfaEnabled` and `mfaMethod`, which `toDomain` does not (`prisma-user.repository.ts:169-198`, finding 1): with the code as it is, no challenge is created, and disabling and regenerating end at their first check, so most of this module is not reached. Given the mapping, codes and challenges are used as `OneTime` says, guesses stay under the limit plus the requests in flight, a TOTP secret is activated only by a code of its own, though another set-up replaces it in between |
| `totp_replay` | 2 overlapping periods, TTL 90 s, latency 2 s, 160 s | 6.4 M | a code is accepted once unless it was first used within `Latency` of the moment it opened |
| `verification_tokens` | 3 tokens of 2 types, 2 requests | 563 k | links are used as `OneTime` says, superseded links stay dead, a used link had its effect, a link survives requests that overlap, and every request ends |
| `oauth` | 2 clients (one registered for fewer scopes), 2 scopes, 2 codes, 2 requests | 4.5 M | codes are used as `OneTime` says, UserInfo discloses what was agreed for that client, answered grants are kept |
| `custom_roles` | 2 users, 3 organization roles, 1 invitation, 1 custom role, 2 permissions, 2 requests | 1.3 M | one owner, the founder; membership only through an open invitation; roles changed by the owner only; what is assigned exists, and in an organization to who has been a member; a role has the permissions last asked for |
| `webhooks` | 2 endpoints, 2 deliveries, 2 workers that take 1 row each, 3 posts, 1 interruption | 6.9 M | posts are bounded by attempts and outcomes are final where no two runs held the row; whatever runs overlap, stop or write back stale rows, no delivery is given up before `MaxRetries` posts (`GivenUpInFull`) |
| `accounts` | 3 avatar keys, 2 passwords, 2 requests | 4.2 M | without an overlap of whole-row writes every column keeps what was last meant, and the avatar exists at every failure point, except where an upload did not hear that its row was written |
| `accounts_deactivation_undone` | smaller | violation | finding 2 |
| `sign_in` | 2 addresses, a password for one of them, 2 passwords, 2 identities of different providers, 2 attempts, 2 requests | 1.1 M | guesses on an account and from a network stay under the limit plus the requests in flight; a session goes to the account the credential belongs to; the last way in to an account is taken by no request but one that was overtaken (`AuthMethodKept`) |

### 3.1 Bounds, and why they are enough

* *One family* in `Sessions`: rows are selected by family or by user, and
  families share nothing but the user row; three tokens are a login's, its
  successor and the successor a second rotation would insert.
* *MaxAttempts* is 2 where the code has 5, *RecoveryCount* 1 where it has 10,
  *MaxRetries* 3 where it has 5: each keeps a first that is not the last and a
  last; *MaxRetries* also one between, which an overlap needs to lose an attempt of
  a delivery that goes on. Nothing compares them with another constant. The
  counters are not capped, the guard that refuses an attempt bounds them, but for
  one: the tries of a challenge (`RejectCode`) stop at *MaxAttempts*, where the
  challenge is about to be deleted and a larger number decides nothing.
* *BatchSize* is 1 where the code has 100: two deliveries then suffice for a row
  that is due and not read.
* The organization's instance in `custom_roles` has one invitation and two users
  because its slots are shared with the admins. That is enough for an owner, a
  member and a removed member who comes back; the theorems of `Organizations` and
  `CustomRoles` cover every other size.
* *PasswordAddress* (`SignIn`): a password is registered and tried for one
  address, the other is reached by identities only; the two need not meet
  more often for an identity to be contested between them.
* *MaxToken* (`VerificationTokens`) bounds the tokens drawn; a request is turned
  away on arrival and never half-way, so the bound cuts no handler short.
* *MaxFailures* (`Webhooks`) bounds the interruptions of the workers; senders may be
  interrupted at will. Each leaves a delivery in a state that one is enough to reach.
* *MaxTime* (`TotpReplay`) is beyond the end of the second period and of the
  replay key's life for a use at its opening.
* Identities (families, tokens, codes, keys, invitation rows) are finite and
  never used twice. Where they run out a behaviour may stop, so deadlock is not
  checked there; `Sessions` and its requests can always go on, and it is.
* Symmetry is used only in runs without temporal properties of liveness.

### 3.2 Fairness

* `Sessions`: weak fairness of each request's own steps (Node runs every
  continuation that is ready, PostgreSQL and Redis answer) and strong fairness of
  the steps that wait for a row lock (PostgreSQL queues waiters, so a row that is
  released again and again is granted in the end). Nothing forces a request to
  arrive, a user to answer, time to pass or a process to stop.
* `VerificationTokens`: the same, where a step of a request may also be the abort
  by the deadlock detector.

The other runs check safety only. `Webhooks` has no fairness: the code builds
`RetryFailedDeliveriesUseCase` (`container.ts:233`) and calls it nowhere, so nothing
justifies that a run ever starts, and that a failed delivery is retried is not
claimed. The workers of the model are what would run it, the cron that
`doc/ENTERPRISE_FEATURES_PLAN.md:35` and `:427-428` and `doc/README_TODO.md:69` speak of:
what the run checks is that such runs, if there are any, do no harm.

## 4. Findings

1. **`toDomain` drops `mfaEnabled`** (`prisma-user.repository.ts:170`, run
   `sessions_mfa_adapter`). The entity defaults the field to `false`, so the
   login and the social login never challenge, and an account with MFA on gets
   its session after the password.
2. **A deactivation can be undone** (`prisma-user.repository.ts:95`, run
   `accounts_deactivation_undone`). `update` writes every column of a row read
   earlier, `status` included; a profile update, an avatar upload or removal, or
   the rehash at a login (`authenticate-user.use-case.ts:139`) that overlaps
   `DELETE /users/:id` writes `ACTIVE` back.

## 5. What is proved

`tlapm` proves the theorems for every value of the constants that satisfies the
modules' assumptions: any number of requests, families, tokens, codes, clients, users, roles,
permissions, invitations, deliveries, workers and avatars, any TTL, latency and limit. The
assumptions say only that `None` is none of the values it is mixed with, that constants are of
their types, that finitely many requests are in flight where guesses are counted (`Mfa`,
`SignIn`, `VerificationTokens`), that the kinds of credentials do not overlap (`Mfa`), and that
OWNER and ADMIN are two roles (`Organizations`); TLC evaluates them in every run.

| module | theorem | says |
|---|---|---|
| `SessionsProofs` | `Invariant`, `TypeCorrect` | `IndInv` and `TypeOK` hold of every state |
| | `OneLiveToken` | `[]SingleLiveToken` |
| | `DeadSessionsRefused` | `[]RevokedSessionRefused` |
| | `RotationRefinesChain` | `Spec => ImplementsTokenFamily` |
| | `LateTokenIsLast` | `[]OneLateToken` |
| | `SecondFactorNeverAsked` | where the repository drops `mfaEnabled`, as the code's does, no session ever has a second factor checked: finding 1 is of every instance |
| `MfaProofs` | `Invariant`, `TypeCorrect` | `IInv` and `TypeOK` |
| | `GuessesLimited` | `[]GuessesBounded` |
| | `SecretsProven` | `[]VerifiedSecretWasProven` |
| | `CodesOnce` | `Spec => ImplementsOneTime` |
| | `CodeUsedOnce` | `[]Once!UsedOnce` and `Once!ClosedStaysUnused`: no code or challenge is accepted twice, nor once it is closed (of TOTP codes while their replay key lives; the seconds are in `TotpReplay`) |
| | `TotpAcceptedOnce` (of `TotpReplay`) | `[]CodeAcceptedOnce` |
| `VerificationTokensProofs` | `Invariant`, `TypeCorrect` | `IInv` and `TypeOK` |
| | `NothingUsedInVain`, `LinkLeft` | `[]UsedMeansDone`, `[]LinkSurvives` |
| | `SupersededStaysDead` | `Spec => SupersededNeverAccepted` |
| | `LinksOnce` | `Spec => ImplementsOneTime` |
| | `LinkUsedOnce` | the same of links |
| `OAuthProofs` | `Invariant`, `TypeCorrect` | `IInv` and `TypeOK` |
| | `NothingUnagreed` | `[]DisclosedOnlyAgreed` |
| | `GrantsStay` | `[]GrantKept` |
| | `CodesOnce` | `Spec => ImplementsOneTime` |
| | `CodeUsedOnce` | the same: a code buys one token at most, none once expired |
| `CustomRolesProofs` | `Invariant`, `TypeCorrect` | `IndInv` and `TypeOK` of the organization |
| | `OneOwner` | `[]OwnerStays` |
| | `NoMemberUninvited` | `Spec => JoinsByInvitation` |
| | `OwnerChangesRoles` | `Spec => RoleChangedByOwner` |
| | `NoInvitationWasted` | `Spec => UsedInvitationJoins` |
| | `StillOrganization` | the composition implements `Organizations` (`RolesSpec => Spec`) |
| | `RolesInvariant`, `RolesTypeCorrect` | `[]RolesInv`, `[]RolesTypeOK` |
| | `NoIllegalAssignment`, `PermissionsAsAsked` | `[]AssignmentsLegal`, `[]PermissionsMeant` |
| | `OrganizationKept` | the organization's three properties, in the composition |
| `WebhooksProofs` | `Invariant`, `TypeCorrect` | `IInv` and `TypeOK` |
| | `PostsLimited` | `[]PostsBounded` |
| | `OutcomesFinal` | `Spec => OutcomeStands` |
| | `NoneGivenUpEarly` | `[]GivenUpInFull` |
| `AccountsProofs` | `Invariant`, `TypeCorrect` | `IInv` and `TypeOK` |
| | `AvatarIsThere` | `[]AvatarStored` |
| | `NoChangeLost` | `[]ChangesKept` |
| `SignInProofs` | `Invariant`, `TypeCorrect` | `IInv` and `TypeOK` |
| | `LockoutHolds` | `[]GuessesBounded` |
| | `SessionsMatch` | `[]SessionMatchesCredential` |
| | `WayInKept` | `Spec => AuthMethodKept` |

Each `Invariant` is the usual three facts (`Init` implies it, each action keeps
it, it implies what it is for), one lemma per action or group of actions; the
formula was checked with TLC before it was proved.

* **Sessions.** `SingleLiveToken` is not inductive: a rotation about to commit
  must know that the row it locked is still live (`RotationKnows`), a login about
  to insert the first token of its family that there is none (`OpeningFresh`), and
  no two requests may be about to commit on one token or open one family
  (`RequestsApart`: the row lock and the fresh identity). `RevokedSessionRefused`
  needs that a request whose session died before it arrived is off every label
  that issues (`DoomedStaysOut`), which rests on sessions never coming back to
  life. `OneLateToken` needs more than that a late token is alone: `LateInv` says that
  a request on its way to rotate one is doomed, whether it arrived after the session
  died or was just given the token, and that a family with a late token has no other
  that can still be exchanged. The proof goes by what every step keeps (`DeadKept`,
  `TokensKept`, `RequestsKept`), so that only the two actions that insert a token are
  looked at by themselves. The refinement is one lemma per action that touches a token row, each mapped to an
  `Open`, an `Exchange`, a `Revoke` or a stutter; it uses `SingleLiveToken`, since
  an exchange replaces *the* token of a family. `SecondFactorNeverAsked` is of the
  code as it is: the row that a login reads never has MFA on, so no request comes to be
  challenged and no session is opened from a challenge (`Unasked`).
* **Mfa.** `VerifiedSecretWasProven` is inductive once a request on its way to
  `completeSetup` carries the secret whose code it has seen (`Knows`), not the one
  stored now. `GuessesBounded` is not inductive: it counts the requests that have
  evaluated a code. `RoomLeft` counts them from the check on, since a request that
  passed the check found the counter below the limit, and the counter grows by one
  for each that leaves. For the refinement each kind of credential moves onward by
  itself (a replay key is never removed while its code is good, a mailed code goes by
  compare-and-delete, a recovery row by a conditional update, a challenge by its
  key), and no step uses two.
* **VerificationTokens.** `RequestOK` says what a request knows by the row locks it
  holds: a row it has chosen and not yet seen is locked by it or no longer unused,
  and a link it is consuming is locked by it from `Claim` until the commit. So no two requests
  commit one link (`LinksOnce`), and a superseded link, whose DELETE has committed,
  stays used or deleted (`SupersededStaysDead`).
* **TotpReplay.** `KeyCoversCode` relates the key's end to the first acceptance,
  `PendingIsRecent` a waiting request to the moment it checked the code. A second
  acceptance then happens after the key has expired, so later than the first plus
  the TTL, and before the code has closed plus the latency.
* **Organizations.** `Founded` (nothing exists before the creation) and `RequestOK`
  (a pending role change was asked for by the founder and is not aimed at the
  founder; an acceptance still holds what the invitation says) make `OwnerStays`
  inductive: the founder is the owner because no write aims at the founder, and
  no write aims at the founder because the read before it saw an owner there. The
  action properties follow from `StepWrites`, which says that only four actions
  write a membership.
* **CustomRoles.** `StillOrganization` projects every step of the composition to a
  step of `Organizations` or a stutter, so what is proved there carries over
  (`OrganizationKept`). `AssignmentsLegal` needs what an admin's request has read
  (`AdminOK`): a member it saw is in `belonged`, the history of memberships, which
  only grows, so an assignment written after the member has left is still one to
  somebody who has been a member. `PermissionsMeant` needs that an
  update no other overlapped replaces the set or carries what the role still has.
* **Webhooks.** A delivery has one owner: its sender until that is done
  (`SenderKnows`), then the workers that hold its row (`WorkerKnows`), of which there
  is one at most unless two runs overlapped (`HeldOnce`). `PostsBounded` alone is not
  inductive: the posts are at most the attempts of the stored row while nobody is
  posting, and at most those of the row in the worker's hands, or one more between
  its post and its write (`Counted`). `OutcomeStands` follows because an owner's row is
  PENDING or FAILED: a delivery that says SUCCESS or EXHAUSTED has no owner left to
  write it. `GivenUpInFull` is of all deliveries, so none of this helps: it needs
  that no row, in the table or in a worker's hands, counts more attempts than there
  were posts, one more being certain between a post and its record
  (`AttemptsWerePosts`).
* **Accounts.** As long as nobody has written over a newer row, every copy that will be
  written back *is* the row (`Knows`), which makes `ChangesKept` inductive. For
  `AvatarStored`, the object of an upload is nobody else's until the row refers to it
  (`FreshApart`), and what a request is about to remove the row does not refer to; an
  object whose row was written unheard is in `unheard` before it is removed.
* **SignIn.** The invariant says of each step what the request knows of the account it
  has looked up: unless it was overtaken, the row it decided on is the row that is
  stored, so the credential it checked is the account's. The guesses are counted from
  the check on, as in `Mfa`, for the account's counter and for the network's.
  For `AuthMethodKept`, a request about to unlink knows, unless it was overtaken,
  that the account keeps a way in that is not by the provider it takes away
  (`KeepsMethod`); a row that is written back takes a password only if it is not the
  row that is there (`WriteBackTakes`), and nothing else takes a way in.
* **OneTime.** Where a module implements it, what it promises follows there: an open
  credential has not been used and a used one is closed (`OpenUnused`), and no step of
  `OneTime` leads out of closed. So a second use finds its credential closed.
* **OAuth.** `RequestOK` says what each label knows: the scopes a request carries
  are within what the user agreed to and the client is registered for, the row it
  read is still the consent unless another grant overlapped, the code it holds is
  the client's own. `Chain` says that consent, code, token and claims each add
  nothing to the one before, which gives `DisclosedOnlyAgreed`; `OneGrant`, that
  only an overlapped client has two grants in flight, gives `GrantKept`. For the
  refinement every step creates, expires or takes one code or touches none
  (`CodeSteps`), and the abstract state of the other codes follows
  (`StatesFollow`).

Model-checked only: liveness (`ReuseLeadsToRevocation`, `RequestsFinish`), which is
beyond what the proof system decides, and `NoSessionBeforeSecondFactor`, which is
checked for a repository that maps `mfaEnabled` and refuted for the code's. Every other
safety invariant, action property and refinement that a passing run checks is a theorem.

## 6. Known windows

Behaviours of the code, at these lines, about which no run claims anything. The
models have them too, unless the entry says otherwise. Where a property would
fail on them, it names the condition (`overlapped`, `overtaken`, `mixed`,
`unrecorded`, `unheard`, `lost`) that leaves them out; a hazard of `PROJECT.json` that is
such a window names no property.

*Sessions and login*
* The family-wide revocation (`prisma-refresh-token.repository.ts:82`) does not
  see a replacement that a rotation of the family inserts meanwhile, though
  `README.md:479` says "TODOS os tokens da família são revogados". The token
  left over is of no use once its session is revoked (`RevokedSessionRefused`), and
  it is the last (`OneLateToken`).
* The two revocations of a detected reuse are two statements: a process that stops
  between them (`refresh-token.use-case.ts:56`) leaves the tokens revoked and the session
  active, so its access tokens are admitted until they expire or until another
  request presents a spent token.
* A login that has verified the old password opens its session after a change or
  reset of the password has revoked every session (`authenticate-user.use-case.ts:121`).
  So does, in `SignIn`, any login whose password is changed after it was verified.
* Guesses overrun the limit by the requests in flight: the counters are read
  before the password and written after it (`authenticate-user.use-case.ts`).
* An attempt that meets a locked account is not recorded in the log-in history;
  `doc/README_USER.md:19` says "todas as tentativas de login". The history is not
  modelled.
* The rehash of a legacy hash writes the whole row back (finding 2).

*Second factor*
* A set-up that read the account with MFA off deletes the secret another request
  has activated meanwhile (`prisma-mfa.repository.ts:69`; `README.md:278`): MFA is on
  and there is no secret.
* Overlapping regenerations leave two lists of recovery codes valid
  (`prisma-mfa.repository.ts:217`).
* The wrong code that reaches the account's limit raises before the challenge
  counts it, so the challenge survives its fifth wrong code
  (`complete-mfa-login.use-case.ts:76`; `README.md:276` says otherwise).
* The replay key lives 90 s, as long as a code is valid, which leaves nothing for
  the await between check and key (`validate-mfa-code.use-case.ts:63`).

*Verification tokens*
* Overlapping resends get past the cooldown: it is read off the latest row, which
  the other request's DELETE removes (`resend-verification-email.use-case.ts:47`;
  `doc/README_TODO.md:13`).

* The links of one type are deleted, created and mailed in three calls: a failure in
  between leaves the user with none that works (`send-verification-email.use-case.ts:30`).
* A link that expires while its UPDATE waits for the row is still accepted: the
  date was taken before (`prisma-account-security.repository.ts:14-25`).

*OAuth*
* Two grants at once lose the scopes of one or fail on the unique row
  (`grant-consent.use-case.ts:33`).
* A user deactivated after the exchange has read the row still gets a token.
* A process that stops after a code was consumed leaves the client without token
  and code.

*Organizations*
* An admin who is removed or demoted after the check still completes the request
  in flight; two admins may remove each other (`remove-member.use-case.ts:28`).
* A second pending invitation lets a removed member back in.
* Accepting as a member answers with the invitation's role although the role the
  member has stays (`prisma-org-invitation.repository.ts:75`).

*Custom roles*
* Removing a member leaves the custom roles assigned in the organization
  (`remove-member.use-case.ts`), and an assignment in flight may be written after
  the member has left: `AssignmentsLegal` speaks of who has been a member.
* Two updates of a role that overlap merge their permission sets, or one fails on the
  unique row, be it only one that the other has deleted and inserted anew, since the DELETE of the second does not see the rows of the first
  (`prisma-custom-role.repository.ts:72`).
* Two custom roles without an organization may get one name: they are checked
  before the insert, and NULLs are distinct in the unique index
  (`create-custom-role.use-case.ts:39`). Names are not modelled.

*Webhooks*
* Nothing runs the retry (`container.ts:233` builds it, section 3.2), so a FAILED row
  stays as it is; `doc/README_TODO.md:69` lists "Sistema de retry com status de entrega".
* Two workers that overlap read the same rows: attempts are lost, and a SUCCESS
  of one is overwritten by a failure of the other (`retry-failed-deliveries.use-case.ts:18`).
  `PostsBounded` and `OutcomeStands` exempt the rows of such runs (`overlapped`);
  `GivenUpInFull` does not.
* A process that stops between the insert and the update of a delivery leaves it
  PENDING, which no run looks for (`dispatch-event.use-case.ts:48-63`).
* A run reads 100 rows by `nextRetry`, and the rows of inactive endpoints stay due
  at the head, so a hundred of them starve the rest (`prisma-webhook.repository.ts:137`).
* A delivery deleted under a run ends the run.

*Accounts*
* A whole-row write restores an old password or un-verifies an address as well as
  undoing a deactivation (`update-user.use-case.ts:99`).
* An upload whose UPDATE is committed and whose answer is lost removes the object the
  row now refers to (`upload-avatar.use-case.ts:80-83`): the profile has a broken
  avatar. `AvatarStored` leaves the keys of such uploads out (`unheard`).

*Social accounts*
An account can lose its last way in, though `doc/README_USER.md:71` and
`doc/README_TODO.md:49` say that the last method is kept, in two ways, and by
`AuthMethodKept` in no other:
* Two unlinkings at once each see the other's provider and remove the last method
  (`unlink-social-account.use-case.ts:37-43`).
* A profile update or an avatar request reads an account that has no password; a reset
  gives it one; an unlinking sees the password and removes the last link; the stale
  row is written back with `passwordHash` null (`prisma-user.repository.ts:92`). The
  same write after the unlinking has looked, before it removes, does it too.

## 7. Limits

What the models abstract, beyond the identities and formats:

* `Sessions`: e-mail verification at login, the expiry of the access JWT itself,
  locations and activity times, and row locks on sessions are left out. The
  statements of an account transaction are applied together at its commit; the
  user row is held from its first statement on. A login tied to the password it
  verified would need a version of the user row, which the table does not have.
* `Mfa`: one account; codes are right or wrong, a TOTP code is one of those a user
  reads off one of two periods.
* `VerificationTokens`: one account; an inactive account is turned away and starts
  nothing; the password itself and the sessions a reset revokes are in `Sessions`.
* `OAuth`: PKCE, redirect URIs and client secrets are checks on constants. An ID
  token asked for with `openid` alone carries name and e-mail
  (`token-exchange.use-case.ts:130-139`) and is not held to `DisclosedOnlyAgreed`.
* `Organizations`: VIEWER has the rights of MEMBER, so the run has three roles.
* `CustomRoles`: names and descriptions are left out, and with them the check that
  a name is free; the permissions are a fixed set, as no operation deletes one.
* `Webhooks`: one sender per endpoint and event; the URL check is a post that
  fails; secrets are left out.
* `Accounts`: profile columns and the role are left out (only whole-row writes
  touch them), as is the middleware's check that the account is active. An error
  means that a statement was not carried out, but for the write of an upload, whose
  answer may be lost (elsewhere the request only ends, as it does after its last
  step). Registration and
  links between accounts are in `SignIn`.
* `SignIn`: one network address; the two counters, which the code reads and writes
  with concurrent calls, are taken one after the other; the log-in history, tokens and the second
  factor are left out (the latter two are in `Sessions` and `Mfa`). Of the row that is
  written back whole, only password and status are there; the other columns are in
  `Accounts`.

Not modelled: tokens and ciphers (pure calls, whose outcomes are the choices of
the models), HTTP adapters (each maps a request to one use case), composition and
configuration, mail, location and listings, client applications (one insert), the
log-in history (appended to, read by nothing that decides), and the edits of an
organization's name, description and logo.

## 8. Plan

Done, in this order, the most important first: `Sessions` with `TokenFamily` and
its proofs; `Mfa` and `TotpReplay` with proofs; `VerificationTokens`; `OAuth`;
`Organizations` with proofs; `Webhooks`; `Accounts`; `SignIn` (lockout, registration
and social identities); `CustomRoles` on top of `Organizations`, with proofs;
`OneTime` and its three implementations; overlapping workers and the limit of a
batch; the proofs of `OAuth`, `VerificationTokens`, `Mfa`, `SignIn`,
`Webhooks` and `Accounts`. The theorems of `TotpReplay` and `Organizations` live with
those of the module they belong to.

Next, in this order:

1. **Proofs.** What a reset or a change of the password ends, in
   `Sessions`, as an action property of its own. That `DeactivatedStays` holds where
   `update` writes the columns it was asked to change.
2. **Edits of organizations**: name, description, logo.
3. **The log-in history**, once something decides on it.

## 9. Running it

    tlc -config SessionsProtocol.cfg MCSessions.tla
    tlapm SessionsProofs.tla

`PROJECT.json` lists, for each run, its module and configuration, and for each
definition the lines it models.
