----------------------------- MODULE OAuthProofs -----------------------------
(***************************************************************************)
(* What module OAuth promises, for any number of clients, scopes, codes    *)
(* and requests; and, in the last part, what OneTime promises of           *)
(* everything that implements it, authorization codes being one case.      *)
(***************************************************************************)
EXTENDS OAuth, TLAPS

\* Scopes a client may be told about: the user has agreed to them and the
\* client is registered for them.
Due(c) == agreed[c] \cap ClientScopes[c]

\* What the phase of a request says of its locals.
RequestOK(x) ==
    /\ x.phase # "idle" => x.client \in Clients
    /\ x.phase \in {"authorize.consent"} => x.scopes \subseteq ClientScopes[x.client]
    /\ x.phase \in {"authorize.create", "grant.read", "grant.write"} => x.scopes \subseteq Due(x.client)
    /\ x.phase = "grant.write" /\ x.client \notin overlapped => x.row = consent[x.client]
    /\ x.phase = "grant.write" => RowScopes(x.row) \subseteq Due(x.client)
    /\ x.phase \in {"exchange.user", "exchange.consume", "exchange.issue"} =>
          x.code \in Codes /\ codes[x.code] # None /\ codes[x.code].client = x.client

\* From the user's agreement through consent, code and token to the claims
\* nothing is added.
Chain ==
    /\ \A c \in Clients : RowScopes(consent[c]) \subseteq Due(c)
    /\ \A k \in Codes : codes[k] # None => codes[k].scopes \subseteq Due(codes[k].client)
    /\ \A t \in tokens : t.scopes \subseteq agreed[t.client]
    /\ DisclosedOnlyAgreed

\* Only an overlapped client has two grants in flight.
OneGrant ==
    \A c \in Clients \ overlapped, r, q \in Requests : Granting(r, c) /\ Granting(q, c) => r = q

IInv ==
    /\ TypeOK
    /\ \A r \in Requests : RequestOK(request[r])
    /\ Chain
    /\ OneGrant
    /\ GrantKept

-----------------------------------------------------------------------------
LEMMA InitIInv == Init => IInv
<1> SUFFICES ASSUME Init PROVE IInv
  OBVIOUS
<1>1. TypeOK
  BY ClientAssumption DEF Init, TypeOK, RowScopes, Idle, Local, Phases
<1>2. \A r \in Requests : RequestOK(request[r])
  BY DEF Init, Idle, RequestOK
<1>3. Chain
  BY DEF Init, Chain, RowScopes, DisclosedOnlyAgreed
<1>4. OneGrant
  BY DEF Init, OneGrant, Granting, Idle
<1>5. GrantKept
  BY DEF Init, GrantKept
<1> QED
  BY <1>1, <1>2, <1>3, <1>4, <1>5 DEF IInv

\* What a request holds stays true as long as agreements only grow, codes keep
\* their client, and a consent it is about to write back is not written.
LEMMA OthersKeep ==
    ASSUME IInv, NEW q \in Requests, request'[q] = request[q],
           \A c \in Clients : agreed[c] \subseteq agreed'[c],
           overlapped \subseteq overlapped',
           \A k \in Codes : codes[k] # None => codes'[k] # None /\ codes'[k].client = codes[k].client,
           \A c \in Clients \ overlapped' : Granting(q, c) => consent'[c] = consent[c]
    PROVE  RequestOK(request[q])'
<1> DEFINE x == request[q]
<1>1. RequestOK(x) /\ x' = x
  BY DEF IInv
<1>2. \A c \in Clients : Due(c) \subseteq Due(c)'
  BY DEF Due
<1>3. x.phase = "grant.write" => Granting(q, x.client)
  BY DEF Granting
<1> HIDE DEF x
<1>4. RequestOK(x)'
  BY <1>1, <1>2, <1>3 DEF RequestOK
<1> QED
  BY <1>4 DEF x

\* A request moves, to no grant it was not in, and the rows stay.
LEMMA RequestMoves ==
    ASSUME IInv, NEW r \in Requests, NEW x \in Local,
           active' \in BOOLEAN, UNCHANGED <<consent, codes, tokens, history>>,
           request' = [request EXCEPT ![r] = x], RequestOK(x),
           x.phase \in {"grant.read", "grant.write"} => Granting(r, x.client)
    PROVE  IInv'
<1> USE DEF IInv, history
<1>1. TypeOK'
  BY DEF TypeOK
<1>2. \A q \in Requests : request'[q] = IF q = r THEN x ELSE request[q]
  BY DEF TypeOK
<1>3. ASSUME NEW q \in Requests PROVE RequestOK(request[q])'
  <2>1. CASE q = r
    <3>1. request'[q] = x
      BY <1>2, <2>1
    <3> QED
      BY <3>1 DEF RequestOK, Due
  <2>2. CASE q # r
    BY <1>2, <2>2, OthersKeep
  <2> QED
    BY <2>1, <2>2
<1>4. Chain'
  BY DEF Chain, Due, DisclosedOnlyAgreed
<1>5. OneGrant'
  <2>1. \A q \in Requests, c \in Clients : Granting(q, c)' => Granting(q, c)
    BY <1>2 DEF Granting
  <2> QED
    BY <2>1 DEF OneGrant
<1>6. GrantKept'
  BY DEF GrantKept
<1> QED
  BY <1>1, <1>3, <1>4, <1>5, <1>6

\* Where no request moves, or one ends, nothing new is asked of the others.
LEMMA NoneGrantsAnew ==
    ASSUME IInv, overlapped \subseteq overlapped',
           \A q \in Requests : request'[q] \in {request[q], Idle}
    PROVE  OneGrant'
<1>1. \A q \in Requests, c \in Clients : Granting(q, c)' => Granting(q, c)
  BY DEF Granting, Idle
<1> QED
  BY <1>1 DEF IInv, OneGrant

LEMMA IdleOK == Idle \in Local /\ RequestOK(Idle) /\ Idle.phase = "idle"
BY DEF Idle, Local, Phases, RequestOK

-----------------------------------------------------------------------------
LEMMA AuthorizeKeeps ==
    ASSUME IInv, NEW r \in Requests, NEW c \in Clients, NEW asked \in SUBSET Scopes,
           Authorize(r, c, asked)
    PROVE  IInv'
<1> DEFINE x == [Idle EXCEPT !.phase = "authorize.consent", !.client = c, !.scopes = asked]
<1>1. x \in Local /\ RequestOK(x) /\ x.phase = "authorize.consent"
  BY DEF Authorize, Idle, Local, Phases, RequestOK
<1>2. /\ request' = [request EXCEPT ![r] = x]
      /\ active' \in BOOLEAN /\ UNCHANGED <<consent, codes, tokens, history>>
  BY DEF Authorize, IInv, TypeOK
<1> QED
  BY <1>1, <1>2, RequestMoves

LEMMA FinishKeeps ==
    ASSUME IInv, NEW r \in Requests, Finish(r), active' \in BOOLEAN,
           UNCHANGED <<consent, codes, tokens, history>>
    PROVE  IInv'
BY IdleOK, RequestMoves DEF Finish

\* A consent with every scope asked for makes them scopes that are agreed to.
LEMMA CheckKeeps ==
    ASSUME IInv, NEW r \in Requests, CheckConsent(r)
    PROVE  IInv'
<1> DEFINE c == request[r].client
           x == [request[r] EXCEPT !.phase = "authorize.create"]
<1>0. /\ request[r] \in Local /\ RequestOK(request[r]) /\ request[r].phase = "authorize.consent"
      /\ active' \in BOOLEAN /\ UNCHANGED <<consent, codes, tokens, history>>
  BY DEF CheckConsent, At, IInv, TypeOK
<1>1. CASE ~HasScopes(consent[c], request[r].scopes)
  BY <1>0, <1>1, FinishKeeps DEF CheckConsent
<1>2. CASE HasScopes(consent[c], request[r].scopes)
  <2>1. c \in Clients /\ request[r].scopes \subseteq ClientScopes[c]
    BY <1>0 DEF RequestOK
  <2>2. request[r].scopes \subseteq Due(c)
    BY <1>2, <2>1 DEF HasScopes, IInv, Chain, RowScopes
  <2>3. x \in Local /\ RequestOK(x) /\ x.phase = "authorize.create"
    BY <1>0, <2>1, <2>2 DEF Local, Phases, RequestOK
  <2>4. request' = [request EXCEPT ![r] = x]
    BY <1>2 DEF CheckConsent, Goto, IInv, TypeOK
  <2> QED
    BY <1>0, <2>3, <2>4, RequestMoves
<1> QED
  BY <1>1, <1>2

LEMMA ReadKeeps ==
    ASSUME IInv, NEW r \in Requests, ReadConsent(r)
    PROVE  IInv'
<1> DEFINE c == request[r].client
           x == [request[r] EXCEPT !.phase = "grant.write", !.row = consent[c]]
<1>1. /\ request[r] \in Local /\ RequestOK(request[r]) /\ request[r].phase = "grant.read"
      /\ active' \in BOOLEAN /\ UNCHANGED <<consent, codes, tokens, history>>
  BY DEF ReadConsent, At, IInv, TypeOK
<1>2. c \in Clients /\ consent[c] \in {None} \cup (SUBSET Scopes) /\ RowScopes(consent[c]) \subseteq Due(c)
  BY <1>1 DEF RequestOK, IInv, TypeOK, Chain
<1>3. x \in Local /\ RequestOK(x) /\ x.client = c
  BY <1>1, <1>2 DEF Local, Phases, RequestOK
<1>4. request' = [request EXCEPT ![r] = x] /\ Granting(r, c)
  BY <1>1 DEF ReadConsent, Granting, IInv, TypeOK
<1> QED
  BY <1>1, <1>3, <1>4, RequestMoves

LEMMA ExchangeKeeps ==
    ASSUME IInv, NEW r \in Requests, NEW c \in Clients, NEW k \in Codes, Exchange(r, c, k)
    PROVE  IInv'
<1> DEFINE x == [Idle EXCEPT !.phase = "exchange.user", !.client = c, !.code = k]
<1>1. x \in Local /\ RequestOK(x) /\ x.phase = "exchange.user"
  BY DEF Exchange, Exchangeable, Idle, Local, Phases, RequestOK
<1>2. /\ request' = [request EXCEPT ![r] = x]
      /\ active' \in BOOLEAN /\ UNCHANGED <<consent, codes, tokens, history>>
  BY DEF Exchange, IInv, TypeOK
<1> QED
  BY <1>1, <1>2, RequestMoves

LEMMA FetchKeeps ==
    ASSUME IInv, NEW r \in Requests, FetchUser(r)
    PROVE  IInv'
<1> DEFINE x == [request[r] EXCEPT !.phase = "exchange.consume"]
<1>1. /\ request[r] \in Local /\ RequestOK(request[r]) /\ request[r].phase = "exchange.user"
      /\ active' \in BOOLEAN /\ UNCHANGED <<consent, codes, tokens, history>>
  BY DEF FetchUser, At, IInv, TypeOK
<1>2. CASE Finish(r)
  BY <1>1, <1>2, FinishKeeps
<1>3. CASE Goto(r, "exchange.consume")
  <2>1. x \in Local /\ RequestOK(x) /\ x.phase = "exchange.consume"
    BY <1>1 DEF Local, Phases, RequestOK
  <2>2. request' = [request EXCEPT ![r] = x]
    BY <1>3 DEF Goto, IInv, TypeOK
  <2> QED
    BY <1>1, <2>1, <2>2, RequestMoves
<1> QED
  BY <1>2, <1>3 DEF FetchUser

\* A grant begins: the agreement grows by what is given, and a client another
\* grant is in flight to is overlapped from now on.
LEMMA GrantKeeps ==
    ASSUME IInv, NEW r \in Requests, NEW c \in Clients, NEW given \in SUBSET Scopes,
           GrantConsent(r, c, given)
    PROVE  IInv'
<1> DEFINE x == [Idle EXCEPT !.phase = "grant.read", !.client = c, !.scopes = given]
<1> USE DEF IInv
<1>1. /\ request[r].phase = "idle" /\ given \subseteq ClientScopes[c]
      /\ request' = [request EXCEPT ![r] = x]
      /\ agreed' = [agreed EXCEPT ![c] = @ \cup given]
      /\ overlapped' = IF \E q \in Requests : Granting(q, c) THEN overlapped \cup {c} ELSE overlapped
      /\ UNCHANGED <<active, consent, codes, tokens, acked, consumed, disclosed>>
  BY DEF GrantConsent, At
<1>2. x \in Local /\ x.phase = "grant.read" /\ x.client = c /\ x.scopes = given
  BY DEF Idle, Local, Phases
<1> HIDE DEF x
<1>3. TypeOK'
  BY <1>1, <1>2 DEF TypeOK
<1>4. \A q \in Requests : request'[q] = IF q = r THEN x ELSE request[q]
  BY <1>1 DEF TypeOK
<1>5. /\ \A d \in Clients : agreed[d] \subseteq agreed'[d] /\ Due(d) \subseteq Due(d)'
      /\ given \subseteq Due(c)'
  BY <1>1 DEF TypeOK, Due
<1>6. ASSUME NEW q \in Requests PROVE RequestOK(request[q])'
  <2>1. CASE q = r
    <3>1. request'[q] = x
      BY <1>4, <2>1
    <3> QED
      BY <1>2, <1>5, <3>1 DEF RequestOK
  <2>2. CASE q # r
    BY <1>1, <1>4, <1>5, <2>2, OthersKeep
  <2> QED
    BY <2>1, <2>2
<1>7. Chain'
  <2>1. \A k \in Codes : codes[k] # None => codes[k].client \in Clients
    BY DEF TypeOK, CodeRow
  <2>2. \A t \in tokens : t.client \in Clients
    BY DEF TypeOK, Token
  <2> QED
    BY <1>1, <1>5, <2>1, <2>2 DEF Chain, DisclosedOnlyAgreed
<1>8. OneGrant'
  <2> SUFFICES ASSUME NEW d \in Clients \ overlapped', NEW p \in Requests, NEW q \in Requests,
                      Granting(p, d)', Granting(q, d)'
               PROVE  p = q
    BY DEF OneGrant
  <2>1. CASE d = c
    <3>1. \A z \in Requests : ~Granting(z, c)
      BY <1>1, <2>1
    <3>2. \A z \in Requests \ {r} : ~Granting(z, c)'
      BY <1>4, <3>1 DEF Granting
    <3> QED
      BY <2>1, <3>2
  <2>2. CASE d # c
    <3>1. \A z \in Requests : Granting(z, d)' => Granting(z, d)
      BY <1>2, <1>4, <2>2 DEF Granting
    <3>2. d \in Clients \ overlapped
      BY <1>1
    <3> QED
      BY <3>1, <3>2 DEF OneGrant
  <2> QED
    BY <2>1, <2>2
<1>9. GrantKept'
  BY <1>1 DEF GrantKept
<1> QED
  BY <1>3, <1>6, <1>7, <1>8, <1>9

\* A grant is written: of a client that is not overlapped the row is the one
\* that was read, and no other request holds it.
LEMMA WriteKeeps ==
    ASSUME IInv, NEW r \in Requests, WriteConsent(r)
    PROVE  IInv'
<1> DEFINE c == request[r].client
           row == request[r].row
           given == request[r].scopes
           new == RowScopes(row) \cup given
<1> USE DEF IInv
<1>1. /\ request[r] \in Local /\ RequestOK(request[r]) /\ request[r].phase = "grant.write"
      /\ request' = [request EXCEPT ![r] = Idle]
      /\ UNCHANGED <<active, codes, tokens, agreed, overlapped, consumed, disclosed>>
  BY DEF WriteConsent, At, Finish, TypeOK
<1>2. c \in Clients /\ given \subseteq Due(c) /\ RowScopes(row) \subseteq Due(c) /\ given \subseteq Scopes
  BY <1>1 DEF RequestOK, Local
<1>3. CASE row = None /\ consent[c] # None
  <2>1. UNCHANGED <<consent, codes, tokens, history>>
    BY <1>1, <1>3 DEF WriteConsent, history
  <2> QED
    BY <1>1, <2>1, FinishKeeps DEF Finish, TypeOK
<1>4. CASE ~(row = None /\ consent[c] # None)
  <2>1. consent' = [consent EXCEPT ![c] = new] /\ acked' = [acked EXCEPT ![c] = @ \cup given]
    BY <1>4 DEF WriteConsent, UpdateScopes
  <2>2. /\ new \in SUBSET Scopes /\ new \subseteq Due(c)
        /\ RowScopes(new) = new /\ given \subseteq new /\ RowScopes(row) \subseteq new
    BY <1>1, <1>2, ClientAssumption DEF RowScopes, Due, Local, TypeOK
  <2>3. Granting(r, c)
    BY <1>1 DEF Granting
  <2>4. c \notin overlapped => row = consent[c]
    BY <1>1 DEF RequestOK
  <2> HIDE DEF c, row, given, new
  <2>5. /\ \A d \in Clients : consent'[d] = IF d = c THEN new ELSE consent[d]
        /\ \A d \in Clients : acked'[d] = IF d = c THEN acked[c] \cup given ELSE acked[d]
        /\ \A q \in Requests : request'[q] = IF q = r THEN Idle ELSE request[q]
    BY <1>1, <1>2, <2>1 DEF TypeOK
  <2>6. TypeOK'
    <3>1. /\ consent' \in [Clients -> {None} \cup (SUBSET Scopes)]
          /\ acked' \in [Clients -> SUBSET Scopes]
          /\ request' \in [Requests -> Local]
      BY <1>1, <1>2, <2>1, <2>2, IdleOK DEF TypeOK
    <3>2. \A d \in Clients : RowScopes(consent[d])' \subseteq ClientScopes[d]
      BY <2>2, <2>5 DEF TypeOK, RowScopes, Due
    <3> QED
      BY <1>1, <3>1, <3>2 DEF TypeOK
  <2>7. ASSUME NEW q \in Requests PROVE RequestOK(request[q])'
    <3>1. CASE q = r
      <4>1. request'[q] = Idle
        BY <2>5, <3>1
      <4> QED
        BY <4>1 DEF RequestOK, Idle
    <3>2. CASE q # r
      <4>1. \A d \in Clients \ overlapped : Granting(q, d) => d # c
        BY <2>3, <3>2 DEF OneGrant
      <4> QED
        BY <1>1, <2>5, <3>2, <4>1, OthersKeep
    <3> QED
      BY <3>1, <3>2
  <2>8. Chain'
    BY <1>1, <2>2, <2>5 DEF Chain, Due, RowScopes, DisclosedOnlyAgreed
  <2>9. OneGrant'
    BY <1>1, <2>5, NoneGrantsAnew
  <2>10. GrantKept'
    <3> SUFFICES ASSUME NEW d \in Clients \ overlapped
                 PROVE  acked'[d] \subseteq RowScopes(consent'[d])
      BY <1>1 DEF GrantKept, RowScopes
    <3>1. acked[d] \subseteq RowScopes(consent[d])
      BY DEF GrantKept
    <3> QED
      BY <2>2, <2>4, <2>5, <3>1
  <2> QED
    BY <2>6, <2>7, <2>8, <2>9, <2>10
<1> QED
  BY <1>3, <1>4

\* A step that writes codes only: a new one with scopes agreed to, or one that
\* keeps its client and scopes; a request may end or go on by it.
LEMMA CodesWritten ==
    ASSUME IInv, UNCHANGED <<active, consent, tokens, agreed, acked, overlapped, disclosed>>,
           codes' \in [Codes -> {None} \cup CodeRow], consumed' \in [Codes -> Nat],
           request' \in [Requests -> Local],
           \A k \in Codes : codes[k] # None => codes'[k] # None /\ codes'[k].client = codes[k].client,
           \A k \in Codes : codes'[k] # None => codes'[k].scopes \subseteq Due(codes'[k].client),
           NEW r \in Requests, ~(request'[r].phase \in {"grant.read", "grant.write"}),
           \A q \in Requests \ {r} : request'[q] = request[q],
           RequestOK(request[r])'
    PROVE  IInv'
<1> USE DEF IInv
<1>1. TypeOK'
  BY DEF TypeOK, Due
<1>2. ASSUME NEW q \in Requests PROVE RequestOK(request[q])'
  <2>1. CASE q # r
    BY <2>1, OthersKeep
  <2> QED
    BY <2>1
<1>3. Chain'
  BY DEF Chain, Due, DisclosedOnlyAgreed
<1>4. OneGrant'
  <2>1. \A q \in Requests, c \in Clients : Granting(q, c)' => Granting(q, c)
    BY DEF Granting
  <2> QED
    BY <2>1 DEF OneGrant
<1>5. GrantKept'
  BY DEF GrantKept
<1> QED
  BY <1>1, <1>2, <1>3, <1>4, <1>5

LEMMA CreateKeeps ==
    ASSUME IInv, NEW r \in Requests, CreateCode(r)
    PROVE  IInv'
<1> USE DEF IInv
<1>1. PICK k \in Codes :
          /\ codes[k] = None
          /\ codes' = [codes EXCEPT ![k] = [client |-> request[r].client,
                                            scopes |-> request[r].scopes,
                                            used |-> FALSE, expired |-> FALSE]]
  BY DEF CreateCode
<1>2. /\ request[r] \in Local /\ RequestOK(request[r]) /\ request[r].phase = "authorize.create"
      /\ request' = [request EXCEPT ![r] = Idle]
      /\ UNCHANGED <<active, consent, tokens, agreed, acked, overlapped, consumed, disclosed>>
  BY DEF CreateCode, At, Finish, history, TypeOK
<1> DEFINE row == [client |-> request[r].client, scopes |-> request[r].scopes,
                   used |-> FALSE, expired |-> FALSE]
<1>3. row \in CodeRow /\ row.scopes \subseteq Due(row.client)
  BY <1>2 DEF CodeRow, RequestOK, Local
<1>4. codes' = [codes EXCEPT ![k] = row]
  BY <1>1
<1> HIDE DEF row
<1>5. /\ codes' \in [Codes -> {None} \cup CodeRow]
      /\ \A j \in Codes : codes'[j] = IF j = k THEN row ELSE codes[j]
  BY <1>3, <1>4 DEF TypeOK
<1>6. /\ consumed' \in [Codes -> Nat] /\ request' \in [Requests -> Local]
      /\ request'[r] = Idle /\ \A q \in Requests \ {r} : request'[q] = request[q]
  BY <1>2, IdleOK DEF TypeOK
<1>7. RequestOK(request[r])' /\ ~(request'[r].phase \in {"grant.read", "grant.write"})
  BY <1>6 DEF RequestOK, Idle
<1>8. \A j \in Codes : codes'[j] # None => codes'[j].scopes \subseteq Due(codes'[j].client)
  BY <1>3, <1>5 DEF Chain
<1>9. \A j \in Codes : codes[j] # None => codes'[j] # None /\ codes'[j].client = codes[j].client
  BY <1>1, <1>5
<1> QED
  BY <1>2, <1>5, <1>6, <1>7, <1>8, <1>9, CodesWritten

\* What consuming or expiring does to a code.
LEMMA Marked ==
    ASSUME IInv, NEW k \in Codes, codes[k] # None, NEW row,
           row = [codes[k] EXCEPT !.used = TRUE] \/ row = [codes[k] EXCEPT !.expired = TRUE],
           codes' = [codes EXCEPT ![k] = row]
    PROVE  /\ codes' \in [Codes -> {None} \cup CodeRow]
           /\ \A j \in Codes : codes[j] # None =>
                 codes'[j] # None /\ codes'[j].client = codes[j].client /\ codes'[j].scopes = codes[j].scopes
           /\ \A j \in Codes : codes'[j] # None => codes'[j].scopes \subseteq Due(codes'[j].client)
<1>1. codes[k] \in CodeRow /\ codes \in [Codes -> {None} \cup CodeRow]
  BY DEF IInv, TypeOK
<1>2. row \in CodeRow /\ row.client = codes[k].client /\ row.scopes = codes[k].scopes
  BY <1>1 DEF CodeRow
<1>3. \A j \in Codes : codes'[j] = IF j = k THEN row ELSE codes[j]
  BY <1>1
<1>4. codes' \in [Codes -> {None} \cup CodeRow]
  BY <1>1, <1>2
<1>5. row # None
  BY <1>2, ClientAssumption
<1> QED
  BY <1>2, <1>3, <1>4, <1>5 DEF IInv, Chain

LEMMA ConsumeKeeps ==
    ASSUME IInv, NEW r \in Requests, ConsumeCode(r)
    PROVE  IInv'
<1> DEFINE k == request[r].code
<1> USE DEF IInv
<1>1. /\ request[r] \in Local /\ RequestOK(request[r]) /\ request[r].phase = "exchange.consume"
      /\ UNCHANGED <<active, consent, tokens, agreed, acked, overlapped, disclosed>>
  BY DEF ConsumeCode, At, TypeOK
<1>2. k \in Codes /\ codes[k] # None /\ codes[k].client = request[r].client /\ request[r].client \in Clients
  BY <1>1 DEF RequestOK
<1>3. CASE ~Consumable(codes[k])
  <2>1. UNCHANGED <<consent, codes, tokens, history>> /\ Finish(r)
    BY <1>1, <1>3 DEF ConsumeCode, history
  <2> QED
    BY <1>1, <2>1, FinishKeeps DEF TypeOK
<1>4. CASE Consumable(codes[k])
  <2> DEFINE row == [codes[k] EXCEPT !.used = TRUE]
             x == [request[r] EXCEPT !.phase = "exchange.issue"]
  <2>1. /\ codes' = [codes EXCEPT ![k] = row]
        /\ consumed' = [consumed EXCEPT ![k] = @ + 1]
        /\ request' = [request EXCEPT ![r] = x]
    BY <1>2, <1>4 DEF ConsumeCode, Goto, TypeOK
  <2>2. x \in Local /\ x.phase = "exchange.issue" /\ x.code = k /\ x.client = request[r].client
    BY <1>1 DEF Local, Phases
  <2>3. /\ codes' \in [Codes -> {None} \cup CodeRow]
        /\ \A j \in Codes : codes[j] # None =>
              codes'[j] # None /\ codes'[j].client = codes[j].client /\ codes'[j].scopes = codes[j].scopes
        /\ \A j \in Codes : codes'[j] # None => codes'[j].scopes \subseteq Due(codes'[j].client)
    BY <1>2, <2>1, Marked
  <2>4. consumed' \in [Codes -> Nat]
    BY <1>2, <2>1 DEF TypeOK
  <2> HIDE DEF x, k, row
  <2>5. /\ request' \in [Requests -> Local] /\ request'[r] = x
        /\ \A q \in Requests \ {r} : request'[q] = request[q]
    BY <2>1, <2>2 DEF TypeOK
  <2>6. RequestOK(request[r])'
    BY <1>1, <1>2, <2>2, <2>3, <2>5 DEF RequestOK
  <2> QED
    BY <1>1, <2>2, <2>3, <2>4, <2>5, <2>6, CodesWritten
<1> QED
  BY <1>3, <1>4

LEMMA ExpiryKeeps ==
    ASSUME IInv, NEW k \in Codes, CodeExpires(k)
    PROVE  IInv'
<1> DEFINE row == [codes[k] EXCEPT !.expired = TRUE]
<1> USE DEF IInv
<1>1. /\ codes[k] # None /\ codes' = [codes EXCEPT ![k] = row]
      /\ UNCHANGED <<active, consent, tokens, agreed, acked, overlapped, disclosed, consumed, request>>
  BY DEF CodeExpires, history, TypeOK
<1>2. /\ codes' \in [Codes -> {None} \cup CodeRow]
      /\ \A j \in Codes : codes[j] # None =>
            codes'[j] # None /\ codes'[j].client = codes[j].client /\ codes'[j].scopes = codes[j].scopes
      /\ \A j \in Codes : codes'[j] # None => codes'[j].scopes \subseteq Due(codes'[j].client)
  BY <1>1, Marked
<1>3. TypeOK'
  BY <1>1, <1>2 DEF TypeOK, Due
<1>4. \A q \in Requests : RequestOK(request[q])'
  BY <1>1, <1>2, OthersKeep
<1>5. Chain'
  BY <1>1, <1>2 DEF Chain, Due, DisclosedOnlyAgreed
<1>6. OneGrant' /\ GrantKept'
  BY <1>1 DEF OneGrant, Granting, GrantKept
<1> QED
  BY <1>3, <1>4, <1>5, <1>6

\* The token has the scopes of a code of the client's own.
LEMMA IssueKeeps ==
    ASSUME IInv, NEW r \in Requests, IssueToken(r)
    PROVE  IInv'
<1> DEFINE t == [client |-> request[r].client, scopes |-> codes[request[r].code].scopes]
<1> USE DEF IInv
<1>1. /\ RequestOK(request[r]) /\ request[r].phase = "exchange.issue"
      /\ tokens' = tokens \cup {t} /\ request' = [request EXCEPT ![r] = Idle]
      /\ UNCHANGED <<active, consent, codes, agreed, acked, overlapped, consumed, disclosed>>
  BY DEF IssueToken, At, Finish, history
<1>2. /\ request[r].code \in Codes /\ codes[request[r].code] \in CodeRow
      /\ codes[request[r].code].client = request[r].client /\ request[r].client \in Clients
  BY <1>1 DEF RequestOK, TypeOK
<1>3. t \in Token /\ t.scopes \subseteq agreed[t.client]
  BY <1>1, <1>2 DEF Token, CodeRow, Chain, Due, RequestOK
<1> HIDE DEF t
<1>4. TypeOK'
  BY <1>1, <1>3, IdleOK DEF TypeOK
<1>5. \A q \in Requests : request'[q] = IF q = r THEN Idle ELSE request[q]
  BY <1>1 DEF TypeOK
<1>6. ASSUME NEW q \in Requests PROVE RequestOK(request[q])'
  <2>1. CASE q = r
    BY <1>5, <2>1 DEF RequestOK, Idle
  <2>2. CASE q # r
    BY <1>1, <1>5, <2>2, OthersKeep
  <2> QED
    BY <2>1, <2>2
<1>7. Chain'
  BY <1>1, <1>3 DEF Chain, Due, DisclosedOnlyAgreed
<1>8. OneGrant' /\ GrantKept'
  BY <1>1, <1>5, NoneGrantsAnew DEF GrantKept
<1> QED
  BY <1>4, <1>6, <1>7, <1>8

LEMMA UserInfoKeeps ==
    ASSUME IInv, NEW t \in tokens, UserInfo(t)
    PROVE  IInv'
<1> USE DEF IInv
<1>1. /\ disclosed' = [disclosed EXCEPT ![t.client] = @ \cup t.scopes]
      /\ UNCHANGED <<active, consent, codes, tokens, request, agreed, acked, overlapped, consumed>>
  BY DEF UserInfo
<1>2. t \in Token /\ t.scopes \subseteq agreed[t.client]
  BY DEF TypeOK, Chain
<1>3. TypeOK'
  BY <1>1, <1>2 DEF TypeOK, Token
<1>4. \A q \in Requests : RequestOK(request[q])'
  BY <1>1, OthersKeep
<1>5. DisclosedOnlyAgreed'
  BY <1>1, <1>2 DEF DisclosedOnlyAgreed, Chain, Token, TypeOK
<1>6. Chain'
  BY <1>1, <1>5 DEF Chain, Due
<1>7. OneGrant' /\ GrantKept'
  BY <1>1 DEF OneGrant, Granting, GrantKept
<1> QED
  BY <1>3, <1>4, <1>6, <1>7

-----------------------------------------------------------------------------
\* The inductive invariant, one lemma per action.
THEOREM Invariant == Spec => []IInv
<1>1. IInv /\ [Next]_vars => IInv'
  <2> SUFFICES ASSUME IInv, [Next]_vars PROVE IInv'
    OBVIOUS
  <2>1. CASE UNCHANGED vars
    <3>1. UNCHANGED <<consent, codes, tokens, history>> /\ UNCHANGED <<active, request>>
      BY <2>1 DEF vars, history
    <3>2. \A q \in Requests : RequestOK(request[q])'
      BY <3>1, OthersKeep DEF history
    <3> QED
      BY <3>1, <3>2 DEF history, IInv, TypeOK, Chain, Due, DisclosedOnlyAgreed, OneGrant, Granting, GrantKept
  <2>2. ASSUME NEW r \in Requests, NEW c \in Clients, NEW s \in (SUBSET Scopes) \ {{}},
               Authorize(r, c, s) \/ GrantConsent(r, c, s)
        PROVE  IInv'
    BY <2>2, AuthorizeKeeps, GrantKeeps
  <2>3. ASSUME NEW r \in Requests, NEW c \in Clients, NEW k \in Codes, Exchange(r, c, k) PROVE IInv'
    BY <2>3, ExchangeKeeps
  <2>4. ASSUME NEW r \in Requests,
               \/ CheckConsent(r) \/ CreateCode(r) \/ ReadConsent(r) \/ WriteConsent(r)
               \/ FetchUser(r) \/ ConsumeCode(r) \/ IssueToken(r)
        PROVE  IInv'
    BY <2>4, CheckKeeps, CreateKeeps, ReadKeeps, WriteKeeps, FetchKeeps, ConsumeKeeps, IssueKeeps
  <2>5. ASSUME NEW r \in Requests, Fail(r) PROVE IInv'
    BY <2>5, FinishKeeps DEF Fail, IInv, TypeOK
  <2>6. CASE DeactivateUser
    <3>1. UNCHANGED <<consent, codes, tokens, history, request>> /\ active' \in BOOLEAN
      BY <2>6 DEF DeactivateUser
    <3>2. \A q \in Requests : RequestOK(request[q])'
      BY <3>1, OthersKeep DEF history
    <3> QED
      BY <3>1, <3>2 DEF history, IInv, TypeOK, Chain, Due, DisclosedOnlyAgreed, OneGrant, Granting, GrantKept
  <2> QED
    BY <2>1, <2>2, <2>3, <2>4, <2>5, <2>6, UserInfoKeeps, ExpiryKeeps DEF Next
<1> QED
  BY <1>1, InitIInv, PTL DEF Spec

\* Rows and requests keep their types, and no consent or code goes beyond what
\* its client is registered for.
THEOREM TypeCorrect == Spec => []TypeOK
<1>1. IInv => TypeOK
  BY DEF IInv
<1> QED
  BY <1>1, Invariant, PTL

\* UserInfo tells no client what the user has not agreed to tell it.
THEOREM NothingUnagreed == Spec => []DisclosedOnlyAgreed
<1>1. IInv => DisclosedOnlyAgreed
  BY DEF IInv, Chain
<1> QED
  BY <1>1, Invariant, PTL

\* A grant that was answered stays granted, but to clients with two in flight.
THEOREM GrantsStay == Spec => []GrantKept
<1>1. IInv => GrantKept
  BY DEF IInv
<1> QED
  BY <1>1, Invariant, PTL

-----------------------------------------------------------------------------
(* The refinement of OneTime.                                               *)

Open(row) == row \in CodeRow /\ ~row.used /\ ~row.expired

Created(k) == codes[k] = None /\ (\E row \in CodeRow : Open(row) /\ codes' = [codes EXCEPT ![k] = row])

Expired(k) == codes[k] # None /\ codes' = [codes EXCEPT ![k].expired = TRUE]

Taken(k) ==
    /\ codes[k] # None /\ Consumable(codes[k])
    /\ codes' = [codes EXCEPT ![k].used = TRUE]
    /\ consumed' = [consumed EXCEPT ![k] = @ + 1]

\* What can happen to the codes: one is created, expires or is taken.
LEMMA CodeSteps ==
    ASSUME IInv, [Next]_vars
    PROVE  \/ UNCHANGED <<codes, consumed>>
           \/ \E k \in Codes : (Created(k) \/ Expired(k)) /\ UNCHANGED consumed
           \/ \E k \in Codes : Taken(k)
<1> DEFINE Goal == \/ UNCHANGED <<codes, consumed>>
                   \/ \E k \in Codes : (Created(k) \/ Expired(k)) /\ UNCHANGED consumed
                   \/ \E k \in Codes : Taken(k)
<1>1. ASSUME NEW r \in Requests, CreateCode(r) PROVE Goal
  <2>1. PICK k \in Codes :
            /\ codes[k] = None
            /\ codes' = [codes EXCEPT ![k] = [client |-> request[r].client,
                                              scopes |-> request[r].scopes,
                                              used |-> FALSE, expired |-> FALSE]]
    BY <1>1 DEF CreateCode
  <2>2. request[r] \in Local /\ request[r].client \in Clients
    BY <1>1 DEF CreateCode, At, IInv, TypeOK, RequestOK
  <2>3. Open([client |-> request[r].client, scopes |-> request[r].scopes,
              used |-> FALSE, expired |-> FALSE])
    BY <2>2 DEF Open, CodeRow, Local
  <2>4. UNCHANGED consumed
    BY <1>1 DEF CreateCode, history
  <2> QED
    BY <2>1, <2>3, <2>4 DEF Created, Open
<1>2. ASSUME NEW r \in Requests, ConsumeCode(r) PROVE Goal
  <2>1. request[r].code \in Codes /\ codes[request[r].code] # None
    BY <1>2 DEF ConsumeCode, At, IInv, RequestOK
  <2> QED
    BY <1>2, <2>1 DEF ConsumeCode, Taken
<1>3. ASSUME NEW k \in Codes, CodeExpires(k) PROVE Goal
  BY <1>3 DEF CodeExpires, Expired, history
<1> HIDE DEF Goal
<1>4. CASE UNCHANGED <<codes, consumed>>
  BY <1>4 DEF Goal
<1>5. ASSUME ~UNCHANGED <<codes, consumed>> PROVE Goal
  <2>1. ASSUME NEW r \in Requests, NEW c \in Clients, NEW sc \in (SUBSET Scopes) \ {{}},
               Authorize(r, c, sc) \/ GrantConsent(r, c, sc)
        PROVE  Goal
    BY <1>5, <2>1 DEF Authorize, GrantConsent, history
  <2>2. ASSUME NEW r \in Requests,
               \/ CheckConsent(r) \/ ReadConsent(r) \/ WriteConsent(r)
               \/ FetchUser(r) \/ IssueToken(r) \/ Fail(r)
        PROVE  Goal
    BY <1>5, <2>2 DEF CheckConsent, ReadConsent, WriteConsent, FetchUser, IssueToken, Fail, history
  <2>3. ASSUME NEW r \in Requests, NEW c \in Clients, NEW k \in Codes, Exchange(r, c, k) PROVE Goal
    BY <1>5, <2>3 DEF Exchange, history
  <2>4. CASE (\E t \in tokens : UserInfo(t)) \/ DeactivateUser \/ UNCHANGED vars
    BY <1>5, <2>4 DEF UserInfo, DeactivateUser, vars, history
  <2> QED
    BY <1>1, <1>2, <1>3, <2>1, <2>2, <2>3, <2>4 DEF Next
<1> QED
  BY <1>4, <1>5 DEF Goal

\* A code that is created is open or fresh before, one that expires or is
\* taken is closed after; the others stay where they are.
LEMMA StatesFollow ==
    ASSUME IInv, NEW k \in Codes, Created(k) \/ Expired(k) \/ Taken(k)
    PROVE  /\ CodeState(k)' \in Once!Later[CodeState(k)]
           /\ \A j \in Codes \ {k} : CodeState(j)' \in Once!Later[CodeState(j)]
           /\ Taken(k) => CodeState(k) = "open" /\ CodeState(k)' = "closed"
<1> DEFINE S(j) == CodeState(j)
<1>1. codes \in [Codes -> {None} \cup CodeRow]
  BY DEF IInv, TypeOK
<1>2. /\ \A s \in {"fresh", "open", "closed"} : s \in Once!Later[s]
      /\ "open" \in Once!Later["fresh"] /\ "closed" \in Once!Later["open"]
  BY DEF Once!Later
<1>3. \A j \in Codes : CodeState(j) \in {"fresh", "open", "closed"}
  BY DEF CodeState
<1>4. \A j \in Codes \ {k} : codes'[j] = codes[j]
  BY <1>1 DEF Created, Expired, Taken
<1>5. \A j \in Codes \ {k} : CodeState(j)' = CodeState(j)
  BY <1>4 DEF CodeState
<1>6. CASE Created(k)
  <2>1. PICK row \in CodeRow : Open(row) /\ codes'[k] = row
    BY <1>1, <1>6 DEF Created
  <2>2. CodeState(k) = "fresh" /\ CodeState(k)' = "open" /\ ~Taken(k)
    BY <1>6, <2>1, ClientAssumption DEF CodeState, Created, Open, Taken
  <2> QED
    BY <1>2, <1>3, <1>5, <2>2
<1>7. CASE Expired(k) \/ Taken(k)
  <2>1. codes[k] \in CodeRow
    BY <1>1, <1>7 DEF Expired, Taken
  <2>2. codes'[k] \in CodeRow /\ (codes'[k].used \/ codes'[k].expired)
    <3>1. CASE codes'[k] = [codes[k] EXCEPT !.expired = TRUE]
      BY <2>1, <3>1 DEF CodeRow
    <3>2. CASE codes'[k] = [codes[k] EXCEPT !.used = TRUE]
      BY <2>1, <3>2 DEF CodeRow
    <3> QED
      BY <1>1, <1>7, <3>1, <3>2 DEF Expired, Taken
  <2>3. CodeState(k)' = "closed"
    BY <2>2, ClientAssumption DEF CodeState
  <2>4. CodeState(k) \in {"open", "closed"} /\ (Taken(k) => CodeState(k) = "open")
    BY <2>1, ClientAssumption DEF CodeState, Taken, Consumable
  <2> QED
    BY <1>2, <1>3, <1>5, <2>3, <2>4
<1> QED
  BY <1>6, <1>7

\* Authorization codes are used as OneTime says: the exchange implements it.
THEOREM CodesOnce == Spec => ImplementsOneTime
<1>1. Init => Once!Init
  <2> SUFFICES ASSUME Init PROVE Once!Init
    OBVIOUS
  <2>1. \A k \in Codes : CodeState(k) = "fresh"
    BY DEF Init, CodeState
  <2> QED
    BY <2>1 DEF Once!Init, Init
<1>2. IInv /\ [Next]_vars => [Once!Next]_<<[k \in Codes |-> CodeState(k)], consumed>>
  <2> SUFFICES ASSUME IInv, [Next]_vars
               PROVE  Once!Next \/ UNCHANGED <<[k \in Codes |-> CodeState(k)], consumed>>
    OBVIOUS
  <2>1. CASE UNCHANGED <<codes, consumed>>
    BY <2>1 DEF CodeState
  <2>2. ASSUME NEW k \in Codes, Created(k) \/ Expired(k), UNCHANGED consumed PROVE Once!Next
    <3>1. \A j \in Codes : CodeState(j)' \in Once!Later[CodeState(j)]
      BY <2>2, StatesFollow
    <3> QED
      BY <2>2, <3>1 DEF Once!Next, Once!Pass
  <2>3. ASSUME NEW k \in Codes, Taken(k) PROVE Once!Next
    <3>1. CodeState(k) = "open" /\ CodeState(k)' = "closed"
      BY <2>3, StatesFollow
    <3>2. \A j \in Codes \ {k} : CodeState(j)' \in Once!Later[CodeState(j)]
      BY <2>3, StatesFollow
    <3>3. Once!Use(k)
      BY <2>3, <3>1, <3>2 DEF Once!Use, Once!Pass, Taken
    <3> QED
      BY <3>3 DEF Once!Next
  <2> QED
    BY <2>1, <2>2, <2>3, CodeSteps
<1> QED
  BY <1>1, <1>2, Invariant, PTL DEF Spec, ImplementsOneTime, Once!Spec

-----------------------------------------------------------------------------
(* What OneTime promises, carried to this module.                           *)

\* An open code has not been used, and a used one is closed.
OpenUnused ==
    \A k \in Codes :
        /\ CodeState(k) \in {"fresh", "open", "closed"}
        /\ consumed[k] \in {0, 1} /\ (consumed[k] = 1 => CodeState(k) = "closed")

\* A use is of a code that was open, so unused, and closes it; whatever else the
\* step does to the others leaves the closed ones closed.
LEMMA OnceKeepsUnused ==
    ASSUME OpenUnused, Once!Next
    PROVE  /\ OpenUnused'
           /\ \A k \in Codes : CodeState(k) = "closed" => consumed'[k] = consumed[k]
<1>1. \A k \in Codes : \A s \in Once!Later[CodeState(k)] :
          s \in {"fresh", "open", "closed"} /\ (CodeState(k) = "closed" => s = "closed")
  BY DEF OpenUnused, Once!Later
<1>2. CASE consumed' = consumed /\ Once!Pass(Codes)
  <2>1. \A k \in Codes : CodeState(k)' \in Once!Later[CodeState(k)]
    BY <1>2 DEF Once!Pass
  <2> QED
    BY <1>1, <1>2, <2>1 DEF OpenUnused
<1>3. ASSUME NEW d \in Codes, Once!Use(d)
      PROVE  /\ OpenUnused'
             /\ \A k \in Codes : CodeState(k) = "closed" => consumed'[k] = consumed[k]
  <2>1. CodeState(d) = "open" /\ CodeState(d)' = "closed"
    BY <1>3 DEF Once!Use
  <2>2. consumed' = [consumed EXCEPT ![d] = 1]
    <3>1. consumed[d] = 0
      BY <2>1 DEF OpenUnused
    <3>2. consumed' = [consumed EXCEPT ![d] = @ + 1]
      BY <1>3 DEF Once!Use
    <3> QED
      BY <3>1, <3>2
  <2>3. \A k \in Codes \ {d} : CodeState(k)' \in Once!Later[CodeState(k)]
    BY <1>3 DEF Once!Use, Once!Pass
  <2>4. \A k \in Codes \ {d} : consumed'[k] = consumed[k]
    BY <2>2
  <2>5. consumed'[d] \in {0, 1}
    BY <2>2 DEF OpenUnused
  <2> QED
    BY <1>1, <2>1, <2>3, <2>4, <2>5 DEF OpenUnused
<1> QED
  BY <1>2, <1>3 DEF Once!Next

\* A code buys one token at most, and none once it has expired.
THEOREM CodeUsedOnce == Spec => []Once!UsedOnce /\ Once!ClosedStaysUnused
<1>1. Once!Init => OpenUnused
  BY DEF Once!Init, OpenUnused
<1>2. OpenUnused /\ [Once!Next]_<<[k \in Codes |-> CodeState(k)], consumed>> =>
        /\ OpenUnused'
        /\ [Once!ClosedUnused]_<<[k \in Codes |-> CodeState(k)], consumed>>
  <2>1. CASE Once!Next
    BY <2>1, OnceKeepsUnused DEF Once!ClosedUnused
  <2>2. CASE UNCHANGED <<[k \in Codes |-> CodeState(k)], consumed>>
    <3>1. \A k \in Codes : CodeState(k)' = CodeState(k)
      BY <2>2
    <3> QED
      BY <2>2, <3>1 DEF OpenUnused
  <2> QED
    BY <2>1, <2>2
<1>3. OpenUnused => Once!UsedOnce
  BY DEF OpenUnused, Once!UsedOnce
<1> QED
  BY <1>1, <1>2, <1>3, CodesOnce, PTL DEF ImplementsOneTime, Once!Spec, Once!ClosedStaysUnused
=============================================================================
