------------------------------- MODULE OAuth -------------------------------
(***************************************************************************)
(* The authorization server: consent, authorization codes, their exchange  *)
(* for tokens and the UserInfo endpoint.                                   *)
(*   src/src/application/use-cases/oauth/*.use-case.ts                     *)
(*   src/src/infrastructure/database/repositories/prisma-*consent*, -code  *)
(*                                                                         *)
(* One account and several registered clients.  A request is a process:    *)
(* every await on the database ends a step, what it has read stays in its  *)
(* record.  What an operation refuses before it has read anything that     *)
(* changes (state, PKCE challenge and verifier, redirect URI, client       *)
(* secret) is a request that never starts.                                 *)
(***************************************************************************)
EXTENDS FiniteSets, Naturals

CONSTANTS Clients,       \* registered client applications; no operation changes one
          Scopes,        \* the scopes clients may be registered for
          ClientScopes,  \* [Clients -> SUBSET Scopes]
          OpenId,        \* the scope UserInfo requires
          Codes,         \* digests of authorization codes
          Requests,      \* requests in flight
          None

CodeRow == [client : Clients, scopes : SUBSET Scopes, used : BOOLEAN, expired : BOOLEAN]

ASSUME ClientAssumption ==
    /\ ClientScopes \in [Clients -> SUBSET Scopes]
    /\ OpenId \in Scopes
    /\ None \notin Clients \cup Codes
    /\ \A S \in SUBSET Scopes : None # S
    /\ \A row \in CodeRow : None # row

VARIABLES
    active,       \* the account's status is ACTIVE
    consent,      \* [Clients -> None or the scopes of the consent row]
    codes,        \* [Codes -> None or an authorization code row]
    tokens,       \* the access tokens issued: who holds them and their scopes
    request,      \* [Requests -> a request's local variables]
    agreed,       \* history: what the user has agreed to, client by client
    acked,        \* history: the agreed scopes whose grant was answered
    overlapped,   \* history: clients for which two grants were in flight at once
    consumed,     \* history: how often a code was taken for a token
    disclosed     \* history: what UserInfo has told each client

vars == <<active, consent, codes, tokens, request, agreed, acked, overlapped, consumed, disclosed>>
history == <<agreed, acked, overlapped, consumed, disclosed>>

Phases == {"idle", "authorize.consent", "authorize.create",
           "grant.read", "grant.write",
           "exchange.user", "exchange.consume", "exchange.issue"}

Token == [client : Clients, scopes : SUBSET Scopes]

\* client: the client the request names; row: the consent row it has read.
Local == [phase : Phases, client : Clients \cup {None}, scopes : SUBSET Scopes,
          row : {None} \cup (SUBSET Scopes), code : Codes \cup {None}]

Idle == [phase |-> "idle", client |-> None, scopes |-> {}, row |-> None, code |-> None]

-----------------------------------------------------------------------------
Init ==
    /\ active = TRUE
    /\ consent = [c \in Clients |-> None]
    /\ codes = [k \in Codes |-> None]
    /\ tokens = {}
    /\ request = [r \in Requests |-> Idle]
    /\ agreed = [c \in Clients |-> {}]
    /\ acked = [c \in Clients |-> {}]
    /\ overlapped = {}
    /\ consumed = [k \in Codes |-> 0]
    /\ disclosed = [c \in Clients |-> {}]

RowScopes(row) == IF row = None THEN {} ELSE row

At(r, phase) == request[r].phase = phase

Goto(r, phase) == request' = [request EXCEPT ![r].phase = phase]

Finish(r) == request' = [request EXCEPT ![r] = Idle]

Granting(r, c) == request[r].phase \in {"grant.read", "grant.write"} /\ request[r].client = c

-----------------------------------------------------------------------------
(* GET /oauth/authorize: an active user's browser brings a client and the   *)
(* scopes it asks for, which the client must be registered for.             *)
Authorize(r, c, asked) ==
    /\ At(r, "idle")
    /\ active
    /\ asked \subseteq ClientScopes[c]
    /\ request' = [request EXCEPT ![r] =
           [Idle EXCEPT !.phase = "authorize.consent", !.client = c, !.scopes = asked]]
    /\ UNCHANGED <<active, consent, codes, tokens, history>>

HasScopes(row, asked) == row # None /\ asked \subseteq row

\* The consent is read; without one for every scope the user is asked instead.
CheckConsent(r) ==
    /\ At(r, "authorize.consent")
    /\ IF HasScopes(consent[request[r].client], request[r].scopes)
       THEN Goto(r, "authorize.create")
       ELSE Finish(r)
    /\ UNCHANGED <<active, consent, codes, tokens, history>>

CreateCode(r) ==
    /\ At(r, "authorize.create")
    /\ \E k \in Codes :
          /\ codes[k] = None
          /\ codes' = [codes EXCEPT ![k] = [client |-> request[r].client,
                                            scopes |-> request[r].scopes,
                                            used |-> FALSE, expired |-> FALSE]]
    /\ Finish(r)
    /\ UNCHANGED <<active, consent, tokens, history>>

\* Mutant: the scopes are not compared with the client's.
GrantUnregistered(r, c, given) ==
    /\ At(r, "idle")
    /\ active
    /\ request' = [request EXCEPT ![r] =
           [Idle EXCEPT !.phase = "grant.read", !.client = c, !.scopes = given]]
    /\ agreed' = [agreed EXCEPT ![c] = @ \cup given]
    /\ UNCHANGED <<active, consent, codes, tokens, acked, overlapped, consumed, disclosed>>

(* POST /oauth/consent: the user agrees to scopes.                          *)
GrantConsent(r, c, given) ==
    /\ At(r, "idle")
    /\ active
    /\ given \subseteq ClientScopes[c]
    /\ request' = [request EXCEPT ![r] =
           [Idle EXCEPT !.phase = "grant.read", !.client = c, !.scopes = given]]
    /\ agreed' = [agreed EXCEPT ![c] = @ \cup given]
    /\ overlapped' = IF \E q \in Requests : Granting(q, c)
                     THEN overlapped \cup {c} ELSE overlapped
    /\ UNCHANGED <<active, consent, codes, tokens, acked, consumed, disclosed>>

ReadConsent(r) ==
    /\ At(r, "grant.read")
    /\ request' = [request EXCEPT ![r].phase = "grant.write",
                                  ![r].row = consent[request[r].client]]
    /\ UNCHANGED <<active, consent, codes, tokens, history>>

\* Mutant: the scopes given replace those of the row.
ReplaceScopes(row, given) == given

UpdateScopes(row, given) == row \cup given

\* No row read: one is created, which fails where another request has created
\* it since (unique user and client).  A row read: it is written back with
\* the new scopes added to those that were read.
WriteConsent(r) ==
    /\ At(r, "grant.write")
    /\ LET c == request[r].client IN
       IF request[r].row = None /\ consent[c] # None
       THEN UNCHANGED <<consent, acked>>
       ELSE /\ consent' = [consent EXCEPT ![c] =
                              UpdateScopes(RowScopes(request[r].row), request[r].scopes)]
            /\ acked' = [acked EXCEPT ![c] = @ \cup request[r].scopes]
    /\ Finish(r)
    /\ UNCHANGED <<active, codes, tokens, agreed, overlapped, consumed, disclosed>>

\* Mutant: the code is not asked whose it is.
AnyClientsCode(row, c) == row # None /\ ~row.used /\ ~row.expired

(* POST /oauth/token: a client presents a code.  The row must be unused,    *)
(* not expired and the presenting client's own.                             *)
Exchangeable(row, c) == row # None /\ ~row.used /\ ~row.expired /\ row.client = c

Exchange(r, c, k) ==
    /\ At(r, "idle")
    /\ Exchangeable(codes[k], c)
    /\ request' = [request EXCEPT ![r] =
           [Idle EXCEPT !.phase = "exchange.user", !.client = c, !.code = k]]
    /\ UNCHANGED <<active, consent, codes, tokens, history>>

FetchUser(r) ==
    /\ At(r, "exchange.user")
    /\ IF active THEN Goto(r, "exchange.consume") ELSE Finish(r)
    /\ UNCHANGED <<active, consent, codes, tokens, history>>

\* Mutant: the update does not look at expiresAt again.
ConsumableLate(row) == ~row.used

Consumable(row) == ~row.used /\ ~row.expired

\* One UPDATE ... WHERE used_at IS NULL AND expires_at > now().
ConsumeCode(r) ==
    /\ At(r, "exchange.consume")
    /\ LET k == request[r].code IN
       IF Consumable(codes[k])
       THEN /\ codes' = [codes EXCEPT ![k].used = TRUE]
            /\ consumed' = [consumed EXCEPT ![k] = @ + 1]
            /\ Goto(r, "exchange.issue")
       ELSE UNCHANGED <<codes, consumed>> /\ Finish(r)
    /\ UNCHANGED <<active, consent, tokens, agreed, acked, overlapped, disclosed>>

\* The token carries the scopes of the code and goes to who presented it.
IssueToken(r) ==
    /\ At(r, "exchange.issue")
    /\ tokens' = tokens \cup {[client |-> request[r].client,
                                scopes |-> codes[request[r].code].scopes]}
    /\ Finish(r)
    /\ UNCHANGED <<active, consent, codes, history>>

(* GET /oauth/userinfo: the claims of the token's scopes, if openid is one. *)
UserInfo(t) ==
    /\ active
    /\ OpenId \in t.scopes
    /\ disclosed' = [disclosed EXCEPT ![t.client] = @ \cup t.scopes]
    /\ UNCHANGED <<active, consent, codes, tokens, request, agreed, acked, overlapped, consumed>>

-----------------------------------------------------------------------------
(* What happens around the requests.                                        *)

CodeExpires(k) ==
    /\ codes[k] # None
    /\ ~codes[k].expired
    /\ codes' = [codes EXCEPT ![k].expired = TRUE]
    /\ UNCHANGED <<active, consent, tokens, request, history>>

DeactivateUser ==
    /\ active
    /\ active' = FALSE
    /\ UNCHANGED <<consent, codes, tokens, request, history>>

\* A database error or a crash ends the request where it is.
Fail(r) ==
    /\ ~At(r, "idle")
    /\ Finish(r)
    /\ UNCHANGED <<active, consent, codes, tokens, history>>

Next ==
    \/ \E r \in Requests :
          \/ \E c \in Clients, s \in (SUBSET Scopes) \ {{}} : Authorize(r, c, s) \/ GrantConsent(r, c, s)
          \/ CheckConsent(r) \/ CreateCode(r)
          \/ ReadConsent(r) \/ WriteConsent(r)
          \/ \E c \in Clients, k \in Codes : Exchange(r, c, k)
          \/ FetchUser(r) \/ ConsumeCode(r) \/ IssueToken(r)
          \/ Fail(r)
    \/ \E t \in tokens : UserInfo(t)
    \/ \E k \in Codes : CodeExpires(k)
    \/ DeactivateUser

Spec == Init /\ [][Next]_vars

-----------------------------------------------------------------------------
\* Rows and requests are well formed, and no consent or code goes beyond what
\* its client is registered for (authorize 76-79, grant-consent 28-31).
TypeOK ==
    /\ active \in BOOLEAN
    /\ consent \in [Clients -> {None} \cup (SUBSET Scopes)]
    /\ codes \in [Codes -> {None} \cup CodeRow]
    /\ tokens \subseteq Token
    /\ request \in [Requests -> Local]
    /\ agreed \in [Clients -> SUBSET Scopes]
    /\ acked \in [Clients -> SUBSET Scopes]
    /\ overlapped \subseteq Clients
    /\ consumed \in [Codes -> Nat]
    /\ disclosed \in [Clients -> SUBSET Scopes]
    /\ \A c \in Clients : RowScopes(consent[c]) \subseteq ClientScopes[c]
    /\ \A k \in Codes : codes[k] # None => codes[k].scopes \subseteq ClientScopes[codes[k].client]

\* Where a code is in its life.
CodeState(k) ==
    IF codes[k] = None THEN "fresh"
    ELSE IF codes[k].used \/ codes[k].expired THEN "closed" ELSE "open"

Once == INSTANCE OneTime WITH
    Credential <- Codes, state <- [k \in Codes |-> CodeState(k)], uses <- consumed

\* A code is taken for a token once, however many exchanges have read it unused
\* before one of them consumes it, and not at all where it expires in between
\* (token-exchange 50-108, prisma-authorization-code 35-47).
ImplementsOneTime == Once!Spec

\* UserInfo tells a client only what the user has agreed to tell that client,
\* from consent through code and token to the claims (userinfo 24-44).  The ID
\* token is not held to it: with openid alone it carries the user's name and
\* e-mail (token-exchange 130-139).
DisclosedOnlyAgreed == \A c \in Clients : disclosed[c] \subseteq agreed[c]

\* A scope whose grant was answered stays granted, so that the user is not
\* asked for it again, unless two grants to the client were in flight at once:
\* grants add to the row, failures and refusals take nothing away
\* (grant-consent 33-47).
GrantKept == \A c \in Clients \ overlapped : acked[c] \subseteq RowScopes(consent[c])
=============================================================================
