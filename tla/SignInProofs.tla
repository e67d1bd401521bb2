---------------------------- MODULE SignInProofs ----------------------------
(***************************************************************************)
(* Theorems about module SignIn, for any number of addresses, passwords,   *)
(* identities and providers, any limit of attempts and any finite number   *)
(* of requests in flight.                                                  *)
(*                                                                         *)
(* The inductive invariant says of a request, for each step it may be at,  *)
(* what it knows of the account it works for: a request that has decided   *)
(* on a row, and whose row has not changed since, still has its credential *)
(* in front of it.  For the counters it counts a guess from the moment it  *)
(* passed the check, not from the moment it is counted.                    *)
(***************************************************************************)
EXTENDS SignIn, FiniteSetTheorems, TLAPS

\* The steps of a log-in: it has a password and no identity.
LoginPhases ==
    {"register.create", "login.network", "login.find", "login.rehash", "count.account",
     "count.network", "clear.account", "clear.network"}

SocialPhases == {"social.email", "social.link", "social.create"}

IdentityPhases == SocialPhases \cup {"link.find", "link.add", "unlink"}

\* A row in hand, and a row looked at.
HoldPhases == {"login.rehash", "social.link", "update.write"}

MatchPhases == {"clear.account", "clear.network", "session"}

\* What entitles the request x to a session, of rows u and links l.
Entitled(x, u, l) ==
    /\ u[x.address].status # "inactive"
    /\ x.password # None => u[x.address].password = x.password
                            /\ u[x.address].status = "active"
    /\ x.identity # None => l[x.identity] = x.address

\* The account of x has a way in that is not by the provider x takes away.
KeepsMethod(x, u, l) ==
    \/ u[x.address].password # None
    \/ \E s \in Identity : l[s] = x.address /\ ProviderOf[s] # ProviderOf[x.identity]

\* What a request x knows, of rows u and links l.
Knows(x, u, l) ==
    /\ x.phase # "idle" => x.address # None
    /\ x.phase \in LoginPhases => x.password # None /\ x.identity = None
    /\ x.phase \in SocialPhases => x.password = None
    /\ x.phase \in IdentityPhases => x.identity # None
    /\ x.phase \in HoldPhases \cup MatchPhases \cup {"link.find", "link.add", "unlink"} =>
          u[x.address] # None
    /\ x.phase \in HoldPhases => x.user # None /\ (~x.overtaken => u[x.address] = x.user)
    /\ x.phase = "login.rehash" => x.user.password = x.password
    /\ x.phase \in MatchPhases /\ ~x.overtaken => Entitled(x, u, l)
    /\ x.phase = "unlink" /\ ~x.overtaken => KeepsMethod(x, u, l)

RequestsKnow == \A r \in Request : Knows(request[r], users, links)

GuessPhases == {"login.network", "login.find", "count.account"}
NetworkPhases == {"login.find", "count.account", "count.network"}

\* The guesses that have passed a check and are not counted yet.
Guessing(a) == {r \in Counting(GuessPhases) : request[r].address = a}
NetworkGuessing == Counting(NetworkPhases)

RoomLeft ==
    /\ \A a \in Address :
          attempts[a] + Cardinality(Guessing(a)) < MaxAttempts + Cardinality(Request)
    /\ network + Cardinality(NetworkGuessing) < MaxAttempts + Cardinality(Request)

IInv == TypeOK /\ RequestsKnow /\ RoomLeft

-----------------------------------------------------------------------------
\* The initial states: nothing is stored and nobody asks for anything.
LEMMA InitIInv == Init => IInv
<1>. SUFFICES ASSUME Init PROVE IInv
  OBVIOUS
<1>. USE SignInAssumption
<1>1. TypeOK
  <2>1. Idle \in Local
    BY DEF Idle, Local, Phases
  <2>. QED
    BY <2>1 DEF Init, TypeOK
<1>2. RequestsKnow
  BY DEF Init, RequestsKnow, Knows, Idle, LoginPhases, SocialPhases, IdentityPhases,
         HoldPhases, MatchPhases
<1>4. RoomLeft
  <2>1. NetworkGuessing = {} /\ \A a \in Address : Guessing(a) = {}
    BY DEF Init, Guessing, NetworkGuessing, Counting, GuessPhases, NetworkPhases, Idle
  <2>2. /\ Cardinality(NetworkGuessing) = 0 /\ \A a \in Address : Cardinality(Guessing(a)) = 0
        /\ Cardinality(Request) \in Nat
    BY <2>1, FS_EmptySet, FS_CardinalityType
  <2>. QED
    BY <2>2 DEF Init, RoomLeft
<1>. QED
  BY <1>1, <1>2, <1>4 DEF IInv

-----------------------------------------------------------------------------
(* The counters.                                                           *)

\* What is being guessed is a part of the requests.
LEMMA GuessingFinite ==
    /\ Cardinality(Request) \in Nat
    /\ \A S \in SUBSET Request :
          /\ IsFiniteSet(S) /\ Cardinality(S) \in Nat
          /\ Cardinality(S) <= Cardinality(Request)
BY SignInAssumption, FS_CardinalityType, FS_Subset

\* Room is left where no counter grows and no guess is added, or where the
\* counter has just been found below the limit: the requests are not more than
\* they are.
LEMMA RoomStays ==
    ASSUME TypeOK, TypeOK', RoomLeft,
           \A a \in Address : \/ attempts'[a] < MaxAttempts
                              \/ /\ attempts'[a] <= attempts[a]
                                 /\ Guessing(a)' \subseteq Guessing(a),
           \/ network' < MaxAttempts
           \/ network' <= network /\ NetworkGuessing' \subseteq NetworkGuessing
    PROVE  RoomLeft'
<1>1. /\ attempts \in [Address -> Nat] /\ attempts' \in [Address -> Nat]
      /\ network \in Nat /\ network' \in Nat /\ MaxAttempts \in Nat
  BY SignInAssumption DEF TypeOK
<1>2. /\ NetworkGuessing \in SUBSET Request /\ NetworkGuessing' \in SUBSET Request
      /\ \A a \in Address : Guessing(a) \in SUBSET Request /\ Guessing(a)' \in SUBSET Request
  BY DEF Guessing, NetworkGuessing, Counting
<1>3. ASSUME NEW S \in SUBSET Request, NEW T \in SUBSET S
      PROVE  Cardinality(T) <= Cardinality(S)
  BY GuessingFinite, FS_Subset
<1>4. ASSUME NEW a \in Address
      PROVE  attempts'[a] + Cardinality(Guessing(a)') < MaxAttempts + Cardinality(Request)
  <2>1. CASE attempts'[a] < MaxAttempts
    <3>1. Cardinality(Guessing(a)') <= Cardinality(Request) /\ Cardinality(Guessing(a)') \in Nat
      BY <1>2, GuessingFinite
    <3>. QED
      BY <1>1, <2>1, <3>1, GuessingFinite
  <2>2. CASE attempts'[a] <= attempts[a] /\ Guessing(a)' \subseteq Guessing(a)
    <3>1. Cardinality(Guessing(a)') <= Cardinality(Guessing(a))
      BY <1>2, <1>3, <2>2
    <3>2. Cardinality(Guessing(a)') \in Nat /\ Cardinality(Guessing(a)) \in Nat
      BY <1>2, GuessingFinite
    <3>3. attempts[a] + Cardinality(Guessing(a)) < MaxAttempts + Cardinality(Request)
      BY DEF RoomLeft
    <3>. QED
      BY <1>1, <2>2, <3>1, <3>2, <3>3, GuessingFinite
  <2>. QED
    BY <2>1, <2>2
<1>5. network' + Cardinality(NetworkGuessing') < MaxAttempts + Cardinality(Request)
  <2>1. CASE network' < MaxAttempts
    <3>1. /\ Cardinality(NetworkGuessing') <= Cardinality(Request)
          /\ Cardinality(NetworkGuessing') \in Nat
      BY <1>2, GuessingFinite
    <3>. QED
      BY <1>1, <2>1, <3>1, GuessingFinite
  <2>2. CASE network' <= network /\ NetworkGuessing' \subseteq NetworkGuessing
    <3>1. Cardinality(NetworkGuessing') <= Cardinality(NetworkGuessing)
      BY <1>2, <1>3, <2>2
    <3>2. Cardinality(NetworkGuessing') \in Nat /\ Cardinality(NetworkGuessing) \in Nat
      BY <1>2, GuessingFinite
    <3>3. network + Cardinality(NetworkGuessing) < MaxAttempts + Cardinality(Request)
      BY DEF RoomLeft
    <3>. QED
      BY <1>1, <2>2, <3>1, <3>2, <3>3, GuessingFinite
  <2>. QED
    BY <2>1, <2>2
<1>. QED
  BY <1>4, <1>5 DEF RoomLeft

\* A step of one request that leaves the counters alone: it goes on guessing, it
\* has just passed the check, or it guesses no more.
LEMMA RoomOfOne ==
    ASSUME TypeOK, TypeOK', RoomLeft, NEW r \in Request, UNCHANGED counters,
           \A q \in Request \ {r} : /\ request'[q].phase = request[q].phase
                                    /\ request'[q].address = request[q].address,
           request'[r].phase \in GuessPhases =>
              \/ request[r].phase \in GuessPhases /\ request'[r].address = request[r].address
              \/ attempts[request'[r].address] < MaxAttempts,
           request'[r].phase \in NetworkPhases =>
              request[r].phase \in NetworkPhases \/ network < MaxAttempts
    PROVE  RoomLeft'
<1>1. /\ attempts \in [Address -> Nat] /\ network \in Nat
      /\ attempts' = attempts /\ network' = network
  BY DEF TypeOK, counters
<1>2. ASSUME NEW a \in Address
      PROVE  \/ attempts'[a] < MaxAttempts
             \/ attempts'[a] <= attempts[a] /\ Guessing(a)' \subseteq Guessing(a)
  <2>1. CASE attempts[a] < MaxAttempts
    BY <1>1, <2>1
  <2>2. CASE ~(attempts[a] < MaxAttempts)
    <3>1. Guessing(a)' \subseteq Guessing(a)
      BY <2>2 DEF Guessing, Counting
    <3>. QED
      BY <1>1, <3>1
  <2>. QED
    BY <2>1, <2>2
<1>3. \/ network' < MaxAttempts
      \/ network' <= network /\ NetworkGuessing' \subseteq NetworkGuessing
  <2>1. CASE network < MaxAttempts
    BY <1>1, <2>1
  <2>2. CASE ~(network < MaxAttempts)
    <3>1. NetworkGuessing' \subseteq NetworkGuessing
      BY <2>2 DEF NetworkGuessing, Counting
    <3>. QED
      BY <1>1, <3>1
  <2>. QED
    BY <2>1, <2>2
<1>. QED
  BY <1>2, <1>3, RoomStays

\* A wrong password is counted for the account: one guess less, one attempt more.
LEMMA RoomCounted ==
    ASSUME TypeOK, TypeOK', RoomLeft, RequestsKnow, NEW r \in Request, CountAccount(r)
    PROVE  RoomLeft'
<1>0. PICK b \in Address : b = request[r].address
  BY DEF TypeOK, CountAccount, At, RequestsKnow, Knows, Local
<1>1. /\ attempts \in [Address -> Nat] /\ network \in Nat /\ network' = network
      /\ request \in [Request -> Local] /\ request[r].address = b
      /\ attempts' = [attempts EXCEPT ![b] = @ + 1]
      /\ request' = [request EXCEPT ![r].phase = "count.network"]
      /\ request[r].phase = "count.account"
  BY <1>0 DEF TypeOK, CountAccount, At, Goto
<1>2. /\ request'[r].phase = "count.network" /\ request'[r].address = b
      /\ \A q \in Request \ {r} : request'[q] = request[q]
  BY <1>1 DEF Local
<1>3. ASSUME NEW a \in Address \ {b}
      PROVE  attempts'[a] + Cardinality(Guessing(a)') < MaxAttempts + Cardinality(Request)
  <2>1. Guessing(a)' = Guessing(a)
    BY <1>1, <1>2 DEF Guessing, Counting
  <2>2. attempts'[a] = attempts[a]
    BY <1>1
  <2>. QED
    BY <2>1, <2>2 DEF RoomLeft
<1>4. attempts'[b] + Cardinality(Guessing(b)') < MaxAttempts + Cardinality(Request)
  <2>1. Guessing(b) \in SUBSET Request /\ r \in Guessing(b)
    BY <1>1 DEF Guessing, Counting, GuessPhases
  <2>2. Guessing(b)' = Guessing(b) \ {r}
    BY <1>1, <1>2 DEF Guessing, Counting, GuessPhases
  <2>3. Cardinality(Guessing(b) \ {r}) = Cardinality(Guessing(b)) - 1
    BY <2>1, GuessingFinite, FS_RemoveElement
  <2>4. attempts'[b] = attempts[b] + 1
    BY <1>1
  <2>5. attempts[b] + Cardinality(Guessing(b)) < MaxAttempts + Cardinality(Request)
    BY <1>1 DEF RoomLeft
  <2>6. Cardinality(Guessing(b)) \in Nat /\ Cardinality(Request) \in Nat /\ MaxAttempts \in Nat
        /\ attempts[b] \in Nat
    BY <1>1, <2>1, GuessingFinite, SignInAssumption
  <2>. QED
    BY <2>2, <2>3, <2>4, <2>5, <2>6
<1>5. network' + Cardinality(NetworkGuessing') < MaxAttempts + Cardinality(Request)
  <2>1. NetworkGuessing' = NetworkGuessing
    BY <1>1, <1>2 DEF NetworkGuessing, Counting, NetworkPhases
  <2>. QED
    BY <1>1, <2>1 DEF RoomLeft
<1>. QED
  BY <1>3, <1>4, <1>5 DEF RoomLeft

\* A wrong password is counted for the network.
LEMMA RoomCountedForNetwork ==
    ASSUME TypeOK, TypeOK', RoomLeft, NEW r \in Request, CountNetwork(r)
    PROVE  RoomLeft'
<1>1. /\ attempts \in [Address -> Nat] /\ network \in Nat /\ network' = network + 1
      /\ request \in [Request -> Local] /\ attempts' = attempts
      /\ request' = [request EXCEPT ![r] = Idle]
      /\ request[r].phase = "count.network"
  BY DEF TypeOK, CountNetwork, At, Finish
<1>2. request'[r].phase = "idle" /\ \A q \in Request \ {r} : request'[q] = request[q]
  BY <1>1 DEF Idle
<1>3. ASSUME NEW a \in Address
      PROVE  attempts'[a] + Cardinality(Guessing(a)') < MaxAttempts + Cardinality(Request)
  <2>1. Guessing(a)' = Guessing(a)
    BY <1>1, <1>2 DEF Guessing, Counting, GuessPhases
  <2>. QED
    BY <1>1, <2>1 DEF RoomLeft
<1>4. network' + Cardinality(NetworkGuessing') < MaxAttempts + Cardinality(Request)
  <2>1. NetworkGuessing \in SUBSET Request /\ r \in NetworkGuessing
    BY <1>1 DEF NetworkGuessing, Counting, NetworkPhases
  <2>2. NetworkGuessing' = NetworkGuessing \ {r}
    BY <1>1, <1>2 DEF NetworkGuessing, Counting, NetworkPhases
  <2>3. Cardinality(NetworkGuessing \ {r}) = Cardinality(NetworkGuessing) - 1
    BY <2>1, GuessingFinite, FS_RemoveElement
  <2>4. network + Cardinality(NetworkGuessing) < MaxAttempts + Cardinality(Request)
    BY DEF RoomLeft
  <2>5. Cardinality(NetworkGuessing) \in Nat /\ Cardinality(Request) \in Nat /\ MaxAttempts \in Nat
    BY <2>1, GuessingFinite, SignInAssumption
  <2>. QED
    BY <1>1, <2>2, <2>3, <2>4, <2>5
<1>. QED
  BY <1>3, <1>4 DEF RoomLeft
-----------------------------------------------------------------------------
(* The steps of one request that change no row and no link.                *)

\* A request that does nothing is one, and knows nothing.
LEMMA IdleKnows ==
    /\ Idle \in Local
    /\ \A u, l : Knows(Idle, u, l)
<1>1. Idle \in Local
  BY DEF Idle, Local, Phases
<1>2. \A u, l : Knows(Idle, u, l)
  BY DEF Idle, Knows, LoginPhases, SocialPhases, IdentityPhases, HoldPhases, MatchPhases
<1>. QED
  BY <1>1, <1>2

\* The rows are as they were, so the others know what they knew.
LEMMA OneMoves ==
    ASSUME TypeOK, RequestsKnow, NEW r \in Request, NEW x \in Local,
           Knows(x, users, links), request' = [request EXCEPT ![r] = x],
           UNCHANGED data,
           attempts' \in [Address -> Nat], network' \in Nat
    PROVE  TypeOK' /\ RequestsKnow'
<1>0. users' = users /\ links' = links
  BY DEF data
<1>1. TypeOK'
  BY <1>0 DEF TypeOK
<1>2. RequestsKnow'
  <2>1. ASSUME NEW q \in Request PROVE Knows(request'[q], users, links)
    <3>1. request'[q] = IF q = r THEN x ELSE request[q]
      BY DEF TypeOK
    <3>2. CASE q = r
      BY <3>1, <3>2
    <3>3. CASE q # r
      BY <3>1, <3>3 DEF RequestsKnow
    <3>. QED
      BY <3>2, <3>3
  <2>. QED
    BY <2>1, <1>0 DEF RequestsKnow
<1>. QED
  BY <1>1, <1>2

\* The same, where the counters are left alone too.
LEMMA OneMovesFreely ==
    ASSUME IInv, NEW r \in Request, NEW x \in Local,
           Knows(x, users, links), request' = [request EXCEPT ![r] = x],
           UNCHANGED <<data, counters>>,
           x.phase \in GuessPhases =>
              \/ request[r].phase \in GuessPhases /\ x.address = request[r].address
              \/ attempts[x.address] < MaxAttempts,
           x.phase \in NetworkPhases =>
              request[r].phase \in NetworkPhases \/ network < MaxAttempts
    PROVE  IInv'
<1>1. TypeOK' /\ RequestsKnow'
  <2>1. attempts' \in [Address -> Nat] /\ network' \in Nat
    BY DEF IInv, TypeOK, counters
  <2>. QED
    BY <2>1, OneMoves DEF IInv
<1>2. request'[r] = x /\ \A q \in Request \ {r} : request'[q] = request[q]
  BY DEF IInv, TypeOK
<1>3. RoomLeft'
  BY <1>1, <1>2, RoomOfOne DEF IInv
<1>. QED
  BY <1>1, <1>3 DEF IInv

\* A request that ends.
LEMMA OneEnds ==
    ASSUME IInv, NEW r \in Request, Finish(r), UNCHANGED <<data, counters>>
    PROVE  IInv'
<1>1. Idle.phase \notin GuessPhases /\ Idle.phase \notin NetworkPhases
  BY DEF Idle, GuessPhases, NetworkPhases
<1>2. request' = [request EXCEPT ![r] = Idle]
  BY DEF Finish
<1>3. Knows(Idle, users, links)
  BY IdleKnows
<1>. QED
  BY <1>1, <1>2, <1>3, IdleKnows, OneMovesFreely

\* A request that has just come: it has an address and, for a log-in, has found
\* the counter of the account below the limit.
LEMMA ArrivalKeeps ==
    ASSUME IInv, NEW r \in Request, Arrival(r)
    PROVE  IInv'
<1>. USE DEF LoginPhases, SocialPhases, IdentityPhases, HoldPhases, MatchPhases,
         GuessPhases, NetworkPhases
<1>0. /\ PasswordAddress \subseteq Address /\ None \notin Address /\ None \notin Password
      /\ None \notin Identity
  BY SignInAssumption
<1>1. ASSUME NEW a \in PasswordAddress, NEW p \in Password, Register(r, a, p)
      PROVE  IInv'
  <2>. DEFINE x == [Idle EXCEPT !.phase = "register.create", !.address = a, !.password = p]
  <2>1. x \in Local /\ x.phase = "register.create" /\ Knows(x, users, links)
    BY <1>0 DEF Local, Idle, Phases, Knows
  <2>2. request' = [request EXCEPT ![r] = x] /\ UNCHANGED <<data, counters>>
    BY <1>1 DEF Register, Begin
  <2>3. x.phase \notin GuessPhases /\ x.phase \notin NetworkPhases
    BY <2>1
  <2>. HIDE DEF x, GuessPhases, NetworkPhases
  <2>. QED
    BY <2>1, <2>2, <2>3, OneMovesFreely
<1>2. ASSUME NEW a \in PasswordAddress, NEW p \in Password, Login(r, a, p)
      PROVE  IInv'
  <2>. DEFINE x == [Idle EXCEPT !.phase = "login.network", !.address = a, !.password = p]
  <2>1. x \in Local /\ x.phase = "login.network" /\ x.address = a /\ Knows(x, users, links)
    BY <1>0 DEF Local, Idle, Phases, Knows
  <2>2. request' = [request EXCEPT ![r] = x] /\ UNCHANGED <<data, counters>>
    BY <1>2 DEF Login, Begin
  <2>3. attempts[x.address] < MaxAttempts /\ x.phase \notin NetworkPhases
    BY <1>2, <2>1 DEF Login
  <2>. HIDE DEF x, GuessPhases, NetworkPhases
  <2>. QED
    BY <2>1, <2>2, <2>3, OneMovesFreely
<1>3. ASSUME NEW a \in Address, NEW s \in Identity, Social(r, s, a)
      PROVE  IInv'
  <2>1. CASE links[s] = None
    <3>. DEFINE x == [Idle EXCEPT !.phase = "social.email", !.address = a, !.identity = s]
    <3>1. x \in Local /\ x.phase = "social.email" /\ Knows(x, users, links)
      BY <1>0 DEF Local, Idle, Phases, Knows
    <3>2. request' = [request EXCEPT ![r] = x] /\ UNCHANGED <<data, counters>>
      BY <1>3, <2>1 DEF Social, Begin
    <3>3. x.phase \notin GuessPhases /\ x.phase \notin NetworkPhases
      BY <3>1
    <3>. HIDE DEF x, GuessPhases, NetworkPhases
    <3>. QED
      BY <3>1, <3>2, <3>3, OneMovesFreely
  <2>2. CASE links[s] # None
    <3>1. PICK b \in Address : b = links[s] /\ users[b] # None
      BY <2>2 DEF IInv, TypeOK
    <3>. DEFINE x == [Idle EXCEPT !.phase = "session", !.address = b, !.identity = s]
    <3>2. users[b].status # "inactive"
      BY <1>3, <2>2, <3>1 DEF Social
    <3>3. x \in Local /\ x.phase = "session" /\ Knows(x, users, links)
      BY <1>0, <3>1, <3>2 DEF Local, Idle, Phases, Knows, Entitled
    <3>4. request' = [request EXCEPT ![r] = x] /\ UNCHANGED <<data, counters>>
      BY <1>3, <2>2, <3>1 DEF Social, Begin
    <3>5. x.phase \notin GuessPhases /\ x.phase \notin NetworkPhases
      BY <3>3
    <3>. HIDE DEF x, GuessPhases, NetworkPhases
    <3>. QED
      BY <3>3, <3>4, <3>5, OneMovesFreely
  <2>. QED
    BY <2>1, <2>2
<1>4. ASSUME NEW a \in Address, NEW s \in Identity, Link(r, a, s)
      PROVE  IInv'
  <2>. DEFINE x == [Idle EXCEPT !.phase = "link.find", !.address = a, !.identity = s]
  <2>1. x \in Local /\ x.phase = "link.find" /\ Knows(x, users, links)
    BY <1>0, <1>4 DEF Local, Idle, Phases, Knows, Link
  <2>2. request' = [request EXCEPT ![r] = x] /\ UNCHANGED <<data, counters>>
    BY <1>4 DEF Link, Begin
  <2>3. x.phase \notin GuessPhases /\ x.phase \notin NetworkPhases
    BY <2>1
  <2>. HIDE DEF x, GuessPhases, NetworkPhases
  <2>. QED
    BY <2>1, <2>2, <2>3, OneMovesFreely
<1>5. ASSUME NEW a \in Address, NEW s \in Identity, Unlink(r, a, s)
      PROVE  IInv'
  <2>. DEFINE x == [Idle EXCEPT !.phase = "unlink", !.address = a, !.identity = s]
  <2>1. users[a] # None
    BY <1>0, <1>5 DEF Unlink, IInv, TypeOK
  <2>2. users[a].password # None \/ \E t \in Identity : links[t] = a /\ ProviderOf[t] # ProviderOf[s]
    BY <1>5 DEF Unlink, HasOtherAuthMethod, Providers, LinksOf
  <2>3. x \in Local /\ x.phase = "unlink" /\ x.address = a /\ x.identity = s
    BY <1>0 DEF Local, Idle, Phases
  <2>4. Knows(x, users, links)
    BY <1>0, <2>1, <2>2, <2>3 DEF Knows, KeepsMethod
  <2>5. request' = [request EXCEPT ![r] = x] /\ UNCHANGED <<data, counters>>
    BY <1>5 DEF Unlink, Begin
  <2>6. x.phase \notin GuessPhases /\ x.phase \notin NetworkPhases
    BY <2>3
  <2>. HIDE DEF x, GuessPhases, NetworkPhases
  <2>. QED
    BY <2>3, <2>4, <2>5, <2>6, OneMovesFreely
<1>6. ASSUME NEW a \in Address, UpdateUser(r, a)
      PROVE  IInv'
  <2>. DEFINE x == [Idle EXCEPT !.phase = "update.write", !.address = a, !.user = users[a]]
  <2>1. users[a] \in Row /\ users[a] # None
    BY <1>6 DEF UpdateUser, IInv, TypeOK
  <2>2. x \in Local /\ x.phase = "update.write" /\ Knows(x, users, links)
    BY <1>0, <2>1 DEF Local, Idle, Phases, Knows
  <2>3. request' = [request EXCEPT ![r] = x] /\ UNCHANGED <<data, counters>>
    BY <1>6 DEF UpdateUser, Begin
  <2>4. x.phase \notin GuessPhases /\ x.phase \notin NetworkPhases
    BY <2>2
  <2>. HIDE DEF x, GuessPhases, NetworkPhases
  <2>. QED
    BY <2>2, <2>3, <2>4, OneMovesFreely
<1>. QED
  BY <1>1, <1>2, <1>3, <1>4, <1>5, <1>6 DEF Arrival

\* A request in its place: its locals have their type, and it knows what its
\* phase says.
LEMMA InPlace ==
    ASSUME IInv, NEW r \in Request
    PROVE  /\ request[r] \in Local /\ Knows(request[r], users, links)
           /\ request \in [Request -> Local]
           /\ ~At(r, "idle") => request[r].address \in Address
BY SignInAssumption DEF IInv, TypeOK, RequestsKnow, Knows, At, Local

\* The next phase, the rest of the locals as they are.
LEMMA GoesOn ==
    ASSUME IInv, NEW r \in Request, NEW ph \in Phases, Goto(r, ph)
    PROVE  \E x \in Local : /\ x = [request[r] EXCEPT !.phase = ph]
                            /\ request' = [request EXCEPT ![r] = x]
<1>1. request[r] \in Local /\ request \in [Request -> Local]
  BY InPlace
<1>2. [request[r] EXCEPT !.phase = ph] \in Local
  BY <1>1 DEF Local
<1>3. request' = [request EXCEPT ![r] = [request[r] EXCEPT !.phase = ph]]
  BY <1>1 DEF Goto
<1>. QED
  BY <1>2, <1>3

\* The network is found below its limit, or the log-in is refused.
LEMMA CheckNetworkKeeps ==
    ASSUME IInv, NEW r \in Request, CheckNetwork(r)
    PROVE  IInv'
<1>1. CASE network < MaxAttempts /\ Goto(r, "login.find")
  <2>1. PICK x \in Local : /\ x = [request[r] EXCEPT !.phase = "login.find"]
                           /\ request' = [request EXCEPT ![r] = x]
    BY <1>1, GoesOn DEF Phases
  <2>2. /\ request[r] \in Local /\ Knows(request[r], users, links)
        /\ request[r].phase = "login.network"
    BY InPlace DEF CheckNetwork, At
  <2>3. x.phase = "login.find" /\ x.address = request[r].address
    BY <2>1, <2>2 DEF Local
  <2>4. Knows(x, users, links)
    BY <2>1, <2>2 DEF Local, Knows, LoginPhases, SocialPhases, IdentityPhases, HoldPhases,
                      MatchPhases
  <2>5. request[r].phase \in GuessPhases /\ UNCHANGED <<data, counters>>
    BY <2>2 DEF GuessPhases, CheckNetwork
  <2>. QED
    BY <1>1, <2>1, <2>3, <2>4, <2>5, OneMovesFreely
<1>2. CASE Finish(r)
  BY <1>2, OneEnds DEF CheckNetwork
<1>. QED
  BY <1>1, <1>2 DEF CheckNetwork

\* The row is looked at: from here the request knows what entitles it.
LEMMA FindByEmailKeeps ==
    ASSUME IInv, NEW r \in Request, FindByEmail(r)
    PROVE  IInv'
<1>. USE DEF LoginPhases, SocialPhases, IdentityPhases, HoldPhases, MatchPhases
<1>0. /\ request[r] \in Local /\ Knows(request[r], users, links)
      /\ request[r].phase = "login.find" /\ request \in [Request -> Local]
      /\ UNCHANGED <<data, counters>> /\ None \notin Row
  BY InPlace, SignInAssumption DEF FindByEmail, At
<1>1. PICK b \in Address : b = request[r].address
  BY InPlace, <1>0 DEF At
<1>2. request[r].phase \in GuessPhases /\ request[r].phase \in NetworkPhases
  BY <1>0 DEF GuessPhases, NetworkPhases
<1>3. CASE Goto(r, "count.account")
  <2>1. PICK x \in Local : /\ x = [request[r] EXCEPT !.phase = "count.account"]
                           /\ request' = [request EXCEPT ![r] = x]
    BY <1>3, GoesOn DEF Phases
  <2>2. x.phase = "count.account" /\ x.address = request[r].address
    BY <1>0, <2>1 DEF Local
  <2>3. Knows(x, users, links)
    BY <1>0, <2>1 DEF Local, Knows
  <2>. QED
    BY <1>0, <1>2, <2>1, <2>2, <2>3, OneMovesFreely
<1>4. CASE ~Goto(r, "count.account")
  <2>1. PICK w \in Row : w = users[b] /\ w.password = request[r].password
    BY <1>0, <1>1, <1>4 DEF FindByEmail, IInv, TypeOK
  <2>2. CASE request' = [request EXCEPT ![r] = Welcomed(r, w)]
    <3>1. CASE w.status = "active"
      <4>1. PICK x : x = [request[r] EXCEPT !.phase = "clear.account", !.user = None]
        OBVIOUS
      <4>2. /\ x \in Local /\ x.phase = "clear.account" /\ x.address = b /\ x.identity = None
            /\ x.password = request[r].password
        BY <1>0, <1>1, <4>1 DEF Local, Phases, Knows
      <4>3. Knows(x, users, links)
        BY <1>0, <1>1, <2>1, <3>1, <4>1, <4>2, SignInAssumption DEF Knows, Entitled
      <4>4. request' = [request EXCEPT ![r] = x]
        BY <2>2, <3>1, <4>1 DEF Welcomed
      <4>5. x.phase \notin GuessPhases /\ x.phase \notin NetworkPhases
        BY <4>2 DEF GuessPhases, NetworkPhases
      <4>. QED
        BY <1>0, <4>2, <4>3, <4>4, <4>5, OneMovesFreely
    <3>2. CASE w.status # "active"
      BY <1>0, <2>2, <3>2, OneEnds DEF Welcomed, Finish
    <3>. QED
      BY <3>1, <3>2
  <2>3. CASE Keep(r, "login.rehash")
    <3>1. PICK x : x = [request[r] EXCEPT !.phase = "login.rehash", !.user = w]
      OBVIOUS
    <3>2. /\ x \in Local /\ x.phase = "login.rehash" /\ x.address = b /\ x.identity = None
          /\ x.password = request[r].password /\ x.user = w
      BY <1>0, <1>1, <3>1 DEF Local, Phases, Knows
    <3>3. Knows(x, users, links)
      BY <1>0, <1>1, <2>1, <3>2, SignInAssumption DEF Knows
    <3>4. request' = [request EXCEPT ![r] = x]
      BY <1>0, <1>1, <2>1, <2>3, <3>1 DEF Keep, Local
    <3>5. x.phase \notin GuessPhases /\ x.phase \notin NetworkPhases
      BY <3>2 DEF GuessPhases, NetworkPhases
    <3>. QED
      BY <1>0, <3>2, <3>3, <3>4, <3>5, OneMovesFreely
  <2>. QED
    BY <1>0, <1>1, <1>4, <2>1, <2>2, <2>3 DEF FindByEmail
<1>. QED
  BY <1>3, <1>4

\* The steps that count, clear and end, and those of the sign-in and the link
\* that only look something up.
LEMMA CountAccountKeeps ==
    ASSUME IInv, NEW r \in Request, CountAccount(r)
    PROVE  IInv'
<1>0. /\ request[r] \in Local /\ Knows(request[r], users, links)
      /\ request[r].phase = "count.account" /\ UNCHANGED <<data, network>>
  BY InPlace DEF CountAccount, At
<1>1. PICK x \in Local : /\ x = [request[r] EXCEPT !.phase = "count.network"]
                         /\ request' = [request EXCEPT ![r] = x]
  BY GoesOn DEF CountAccount, Phases
<1>2. Knows(x, users, links)
  BY <1>0, <1>1 DEF Local, Knows, LoginPhases, SocialPhases, IdentityPhases, HoldPhases,
                    MatchPhases
<1>3. attempts' \in [Address -> Nat] /\ network' \in Nat
  <2>1. PICK b \in Address : b = request[r].address
    BY <1>0, InPlace DEF At
  <2>2. attempts \in [Address -> Nat] /\ network \in Nat
    BY DEF IInv, TypeOK
  <2>3. attempts' = [attempts EXCEPT ![b] = attempts[b] + 1]
    BY <2>1 DEF CountAccount
  <2>. QED
    BY <1>0, <2>2, <2>3
<1>4. TypeOK' /\ RequestsKnow'
  BY <1>0, <1>1, <1>2, <1>3, OneMoves DEF IInv
<1>. QED
  BY <1>4, RoomCounted DEF IInv

LEMMA CountNetworkKeeps ==
    ASSUME IInv, NEW r \in Request, CountNetwork(r)
    PROVE  IInv'
<1>1. /\ request' = [request EXCEPT ![r] = Idle] /\ UNCHANGED data
      /\ attempts' \in [Address -> Nat] /\ network' \in Nat
  BY DEF CountNetwork, Finish, IInv, TypeOK
<1>2. Idle \in Local /\ Knows(Idle, users, links)
  BY IdleKnows
<1>3. TypeOK' /\ RequestsKnow'
  BY <1>1, <1>2, OneMoves DEF IInv
<1>. QED
  BY <1>3, RoomCountedForNetwork DEF IInv

LEMMA ClearAccountKeeps ==
    ASSUME IInv, NEW r \in Request, ClearAccount(r)
    PROVE  IInv'
<1>0. /\ request[r] \in Local /\ Knows(request[r], users, links)
      /\ request[r].phase = "clear.account" /\ UNCHANGED <<data, network>>
      /\ request \in [Request -> Local] /\ attempts \in [Address -> Nat] /\ network \in Nat
      /\ MaxAttempts \in Nat /\ MaxAttempts > 0
  BY InPlace, SignInAssumption DEF ClearAccount, At, IInv, TypeOK
<1>1. PICK x \in Local : /\ x = [request[r] EXCEPT !.phase = "clear.network"]
                         /\ request' = [request EXCEPT ![r] = x]
  BY GoesOn DEF ClearAccount, Phases
<1>2. Knows(x, users, links)
  BY <1>0, <1>1 DEF Local, Knows, LoginPhases, SocialPhases, IdentityPhases, HoldPhases,
                    MatchPhases, Entitled
<1>3. PICK b \in Address : attempts' = [attempts EXCEPT ![b] = 0]
  BY <1>0, InPlace DEF ClearAccount, At
<1>4. TypeOK' /\ RequestsKnow'
  BY <1>0, <1>1, <1>2, <1>3, OneMoves DEF IInv
<1>5. /\ request'[r].phase = "clear.network"
      /\ \A q \in Request \ {r} : request'[q] = request[q]
  BY <1>0, <1>1 DEF Local
<1>6. ASSUME NEW a \in Address
      PROVE  \/ attempts'[a] < MaxAttempts
             \/ attempts'[a] <= attempts[a] /\ Guessing(a)' \subseteq Guessing(a)
  <2>1. Guessing(a)' \subseteq Guessing(a)
    BY <1>5 DEF Guessing, Counting, GuessPhases
  <2>2. attempts'[a] = 0 \/ attempts'[a] = attempts[a]
    BY <1>0, <1>3
  <2>. QED
    BY <1>0, <2>1, <2>2
<1>7. network' <= network /\ NetworkGuessing' \subseteq NetworkGuessing
  <2>1. NetworkGuessing' \subseteq NetworkGuessing
    BY <1>5 DEF NetworkGuessing, Counting, NetworkPhases
  <2>. QED
    BY <1>0, <2>1
<1>8. RoomLeft'
  BY <1>4, <1>6, <1>7, RoomStays DEF IInv
<1>. QED
  BY <1>4, <1>8 DEF IInv

LEMMA ClearNetworkKeeps ==
    ASSUME IInv, NEW r \in Request, ClearNetwork(r)
    PROVE  IInv'
<1>0. /\ request[r] \in Local /\ Knows(request[r], users, links)
      /\ request[r].phase = "clear.network" /\ UNCHANGED <<data, attempts>>
      /\ request \in [Request -> Local] /\ attempts \in [Address -> Nat] /\ network' = 0
      /\ MaxAttempts \in Nat /\ MaxAttempts > 0
  BY InPlace, SignInAssumption DEF ClearNetwork, At, IInv, TypeOK
<1>1. PICK x \in Local : /\ x = [request[r] EXCEPT !.phase = "session"]
                         /\ request' = [request EXCEPT ![r] = x]
  BY GoesOn DEF ClearNetwork, Phases
<1>2. Knows(x, users, links)
  BY <1>0, <1>1 DEF Local, Knows, LoginPhases, SocialPhases, IdentityPhases, HoldPhases,
                    MatchPhases, Entitled
<1>4. TypeOK' /\ RequestsKnow'
  BY <1>0, <1>1, <1>2, OneMoves DEF IInv
<1>5. /\ request'[r].phase = "session"
      /\ \A q \in Request \ {r} : request'[q] = request[q]
  BY <1>0, <1>1 DEF Local
<1>6. ASSUME NEW a \in Address
      PROVE  attempts'[a] <= attempts[a] /\ Guessing(a)' \subseteq Guessing(a)
  <2>1. Guessing(a)' \subseteq Guessing(a)
    BY <1>5 DEF Guessing, Counting, GuessPhases
  <2>. QED
    BY <1>0, <2>1
<1>7. network' < MaxAttempts
  BY <1>0
<1>8. RoomLeft'
  BY <1>4, <1>6, <1>7, RoomStays DEF IInv
<1>. QED
  BY <1>4, <1>8 DEF IInv

\* The address is looked up: the sign-in will create an account or link the one
\* it has found.
LEMMA SocialFindByEmailKeeps ==
    ASSUME IInv, NEW r \in Request, SocialFindByEmail(r)
    PROVE  IInv'
<1>. USE DEF LoginPhases, SocialPhases, IdentityPhases, HoldPhases, MatchPhases
<1>0. /\ request[r] \in Local /\ Knows(request[r], users, links)
      /\ request[r].phase = "social.email" /\ request \in [Request -> Local]
      /\ UNCHANGED <<data, counters>> /\ users \in [Address -> Row \cup {None}]
  BY InPlace DEF SocialFindByEmail, At, IInv, TypeOK
<1>1. PICK b \in Address : b = request[r].address
  BY InPlace, <1>0 DEF At
<1>2. CASE users[b] = None
  <2>1. PICK x \in Local : /\ x = [request[r] EXCEPT !.phase = "social.create"]
                           /\ request' = [request EXCEPT ![r] = x]
    BY <1>1, <1>2, GoesOn DEF SocialFindByEmail, Phases
  <2>2. x.phase = "social.create"
    BY <1>0, <2>1 DEF Local
  <2>3. x.phase \notin GuessPhases /\ x.phase \notin NetworkPhases
    BY <2>2 DEF GuessPhases, NetworkPhases
  <2>4. Knows(x, users, links)
    BY <1>0, <2>1 DEF Local, Knows
  <2>. QED
    BY <1>0, <2>1, <2>3, <2>4, OneMovesFreely
<1>3. CASE users[b] # None
  <2>1. PICK x : x = [request[r] EXCEPT !.phase = "social.link", !.user = users[b]]
    OBVIOUS
  <2>2. /\ x \in Local /\ x.phase = "social.link" /\ x.address = b /\ x.user = users[b]
        /\ x.password = request[r].password /\ x.identity = request[r].identity
    BY <1>0, <1>1, <2>1 DEF Local, Phases
  <2>3. Knows(x, users, links)
    BY <1>0, <1>1, <1>3, <2>2, SignInAssumption DEF Knows
  <2>4. request' = [request EXCEPT ![r] = x]
    BY <1>0, <1>1, <1>3, <2>1 DEF SocialFindByEmail, Keep, Local
  <2>5. x.phase \notin GuessPhases /\ x.phase \notin NetworkPhases
    BY <2>2 DEF GuessPhases, NetworkPhases
  <2>. QED
    BY <1>0, <2>2, <2>4, <2>3, <2>5, OneMovesFreely
<1>. QED
  BY <1>2, <1>3

LEMMA LinkFindByProviderKeeps ==
    ASSUME IInv, NEW r \in Request, LinkFindByProvider(r)
    PROVE  IInv'
<1>0. /\ request[r] \in Local /\ Knows(request[r], users, links)
      /\ request[r].phase = "link.find" /\ UNCHANGED <<data, counters>>
  BY InPlace DEF LinkFindByProvider, At
<1>1. CASE Goto(r, "link.add")
  <2>1. PICK x \in Local : /\ x = [request[r] EXCEPT !.phase = "link.add"]
                           /\ request' = [request EXCEPT ![r] = x]
    BY <1>1, GoesOn DEF Phases
  <2>2. x.phase = "link.add"
    BY <1>0, <2>1 DEF Local
  <2>3. x.phase \notin GuessPhases /\ x.phase \notin NetworkPhases
    BY <2>2 DEF GuessPhases, NetworkPhases
  <2>4. Knows(x, users, links)
    BY <1>0, <2>1 DEF Local, Knows, LoginPhases, SocialPhases, IdentityPhases, HoldPhases,
                      MatchPhases
  <2>. QED
    BY <1>0, <2>1, <2>3, <2>4, OneMovesFreely
<1>2. CASE Finish(r)
  BY <1>0, <1>2, OneEnds
<1>. QED
  BY <1>1, <1>2 DEF LinkFindByProvider

-----------------------------------------------------------------------------
(* The steps that add an account or a link: what is there already stays.   *)

\* Who knew something of the rows and links that were there still knows it.
LEMMA GrowthKeepsKnowledge ==
    ASSUME NEW u, NEW l, NEW v, NEW k, NEW x \in Local, Knows(x, u, l),
           \A a \in Address : u[a] # None => v[a] = u[a],
           \A s \in Identity : l[s] # None => k[s] = l[s]
    PROVE  Knows(x, v, k)
<1>. USE DEF LoginPhases, SocialPhases, IdentityPhases, HoldPhases, MatchPhases
<1>. DEFINE a == x.address
<1>1. x.phase \in Phases /\ a \in Address \cup {None} /\ x.identity \in Identity \cup {None}
  BY DEF Local
<1>2. CASE x.phase \in HoldPhases \cup MatchPhases \cup {"link.find", "link.add", "unlink"}
  <2>1. u[a] # None /\ a \in Address /\ a # None
    BY <1>1, <1>2 DEF Knows
  <2>2. v[a] = u[a]
    BY <2>1
  <2>3. Entitled(x, u, l) => Entitled(x, v, k)
    BY <1>1, <2>1, <2>2 DEF Entitled
  <2>4. KeepsMethod(x, u, l) => KeepsMethod(x, v, k)
    BY <2>1, <2>2 DEF KeepsMethod
  <2>. QED
    BY <1>2, <2>1, <2>2, <2>3, <2>4 DEF Knows
<1>3. CASE x.phase \notin HoldPhases \cup MatchPhases \cup {"link.find", "link.add", "unlink"}
  BY <1>3 DEF Knows
<1>. QED
  BY <1>2, <1>3

\* One request adds an account or a link.
LEMMA OneAdds ==
    ASSUME IInv, NEW r \in Request, NEW x \in Local,
           users' \in [Address -> Row \cup {None}],
           links' \in [Identity -> Address \cup {None}],
           Knows(x, users', links'), request' = [request EXCEPT ![r] = x],
           UNCHANGED counters,
           x.phase \notin GuessPhases, x.phase \notin NetworkPhases,
           \A a \in Address : users[a] # None => users'[a] = users[a],
           \A s \in Identity : links[s] # None => links'[s] = links[s],
           \A s \in Identity : links'[s] # None => links'[s] = links[s] \/ users'[links'[s]] # None
    PROVE  IInv'
<1>0. /\ attempts' = attempts /\ network' = network
      /\ request \in [Request -> Local] /\ None \notin Address
  BY SignInAssumption DEF counters, IInv, TypeOK
<1>1. TypeOK'
  <2>1. ASSUME NEW s \in Identity, links'[s] # None PROVE users'[links'[s]] # None
    <3>1. PICK a \in Address : a = links'[s]
      BY <2>1
    <3>2. CASE a = links[s]
      <4>1. users[a] # None
        BY <1>0, <3>2 DEF IInv, TypeOK
      <4>. QED
        BY <3>1, <4>1
    <3>3. CASE a # links[s]
      BY <2>1, <3>1, <3>3
    <3>. QED
      BY <3>2, <3>3
  <2>. QED
    BY <1>0, <2>1 DEF IInv, TypeOK
<1>2. RequestsKnow'
  <2>1. ASSUME NEW q \in Request PROVE Knows(request'[q], users', links')
    <3>1. request'[q] = IF q = r THEN x ELSE request[q]
      BY <1>0
    <3>2. CASE q = r
      BY <3>1, <3>2
    <3>3. CASE q # r
      <4>1. request[q] \in Local /\ Knows(request[q], users, links)
        BY InPlace
      <4>2. Knows(request[q], users', links')
        BY <4>1, GrowthKeepsKnowledge
      <4>. QED
        BY <3>1, <3>3, <4>2
    <3>. QED
      BY <3>2, <3>3
  <2>. QED
    BY <2>1, <1>0 DEF RequestsKnow
<1>4. RoomLeft'
  <2>1. request'[r] = x /\ \A q \in Request \ {r} : request'[q] = request[q]
    BY <1>0
  <2>. QED
    BY <1>1, <2>1, RoomOfOne DEF IInv
<1>. QED
  BY <1>1, <1>2, <1>4 DEF IInv

LEMMA CreateUserKeeps ==
    ASSUME IInv, NEW r \in Request, CreateUser(r)
    PROVE  IInv'
<1>0. /\ request[r] \in Local /\ Knows(request[r], users, links)
      /\ request[r].phase = "register.create" /\ UNCHANGED <<links, counters>>
      /\ users \in [Address -> Row \cup {None}] /\ links \in [Identity -> Address \cup {None}]
      /\ None \notin Row
  BY InPlace, SignInAssumption DEF CreateUser, At, IInv, TypeOK
<1>1. PICK b \in Address : b = request[r].address
  BY InPlace, <1>0 DEF At
<1>2. PICK w \in Row : /\ w = [password |-> request[r].password, status |-> "unverified"]
                       /\ w.password # None
  <2>1. PICK p \in Password \cup {None} : p = request[r].password /\ p # None
    BY <1>0 DEF Local, Knows, LoginPhases
  <2>2. [password |-> p, status |-> "unverified"] \in Row
    BY DEF Row
  <2>. QED
    BY <2>1, <2>2
<1>3. users[b] = None /\ users' = [users EXCEPT ![b] = w]
  BY <1>1, <1>2 DEF CreateUser
<1>4. users' \in [Address -> Row \cup {None}] /\ links' \in [Identity -> Address \cup {None}]
  BY <1>0, <1>3
<1>5. \A a \in Address : users[a] # None => users'[a] = users[a]
  BY <1>0, <1>2, <1>3
<1>6. Idle.phase \notin GuessPhases /\ Idle.phase \notin NetworkPhases
  BY DEF Idle, GuessPhases, NetworkPhases
<1>7. request' = [request EXCEPT ![r] = Idle] /\ links' = links
  BY <1>0 DEF CreateUser, Finish
<1>8. Idle \in Local /\ Knows(Idle, users', links')
  BY IdleKnows
<1>. QED
  BY <1>0, <1>4, <1>5, <1>6, <1>7, <1>8, OneAdds

\* The link is there, the account has not changed since it was read.
LEMMA SocialAddAccountKeeps ==
    ASSUME IInv, NEW r \in Request, SocialAddAccount(r)
    PROVE  IInv'
<1>. USE DEF LoginPhases, SocialPhases, IdentityPhases, HoldPhases, MatchPhases
<1>0. /\ request[r] \in Local /\ Knows(request[r], users, links)
      /\ request[r].phase = "social.link" /\ UNCHANGED <<users, counters>>
      /\ users \in [Address -> Row \cup {None}] /\ links \in [Identity -> Address \cup {None}]
      /\ request \in [Request -> Local] /\ None \notin Address
  BY InPlace, SignInAssumption DEF SocialAddAccount, At, IInv, TypeOK
<1>1. PICK b \in Address : b = request[r].address /\ users[b] # None
  BY InPlace, <1>0 DEF At, Knows
<1>2. PICK i \in Identity : i = request[r].identity
  BY <1>0 DEF Knows, Local
<1>3. links[i] = None /\ links' = [links EXCEPT ![i] = b]
  BY <1>1, <1>2 DEF SocialAddAccount, AddLink
<1>4. /\ links' \in [Identity -> Address \cup {None}] /\ links'[i] = b
      /\ \A s \in Identity \ {i} : links'[s] = links[s]
  BY <1>0, <1>3
<1>5. /\ \A s \in Identity : links[s] # None => links'[s] = links[s]
      /\ \A s \in Identity : links'[s] # None => links'[s] = links[s] \/ users'[links'[s]] # None
      /\ users' \in [Address -> Row \cup {None}]
      /\ \A a \in Address : users'[a] = users[a]
  BY <1>0, <1>1, <1>3, <1>4
<1>6. CASE Finish(r)
  <2>1. Idle.phase \notin GuessPhases /\ Idle.phase \notin NetworkPhases
    BY DEF Idle, GuessPhases, NetworkPhases
  <2>2. request' = [request EXCEPT ![r] = Idle]
    BY <1>6 DEF Finish
  <2>3. Idle \in Local /\ Knows(Idle, users', links')
    BY IdleKnows
  <2>. QED
    BY <1>0, <1>4, <1>5, <2>1, <2>2, <2>3, OneAdds
<1>7. CASE /\ request[r].user.status # "inactive"
           /\ request' = [request EXCEPT ![r].phase = "session", ![r].user = None]
  <2>1. PICK x : x = [request[r] EXCEPT !.phase = "session", !.user = None]
    OBVIOUS
  <2>2. /\ x \in Local /\ x.phase = "session" /\ x.address = b /\ x.identity = i
        /\ x.password = None /\ x.overtaken = request[r].overtaken
    BY <1>0, <1>1, <1>2, <2>1 DEF Local, Phases, Knows
  <2>3. request' = [request EXCEPT ![r] = x]
    BY <1>0, <1>7, <2>1 DEF Local
  <2>4. ~x.overtaken => users[b].status # "inactive"
    BY <1>0, <1>1, <1>7, <2>2 DEF Knows
  <2>5. Knows(x, users', links')
    BY <1>0, <1>1, <1>2, <1>4, <2>2, <2>4 DEF Knows, Entitled
  <2>6. x.phase \notin GuessPhases /\ x.phase \notin NetworkPhases
    BY <2>2 DEF GuessPhases, NetworkPhases
  <2>. QED
    BY <1>0, <1>4, <1>5, <2>2, <2>3, <2>5, <2>6, OneAdds
<1>. QED
  BY <1>6, <1>7 DEF SocialAddAccount

\* The account comes with its link.
LEMMA SocialCreateKeeps ==
    ASSUME IInv, NEW r \in Request, SocialCreate(r)
    PROVE  IInv'
<1>. USE DEF LoginPhases, SocialPhases, IdentityPhases, HoldPhases, MatchPhases
<1>0. /\ request[r] \in Local /\ Knows(request[r], users, links)
      /\ request[r].phase = "social.create" /\ UNCHANGED counters
      /\ users \in [Address -> Row \cup {None}] /\ links \in [Identity -> Address \cup {None}]
      /\ request \in [Request -> Local] /\ None \notin Address /\ None \notin Row
  BY InPlace, SignInAssumption DEF SocialCreate, At, IInv, TypeOK
<1>1. PICK b \in Address : b = request[r].address
  BY InPlace, <1>0 DEF At
<1>2. PICK i \in Identity : i = request[r].identity
  BY <1>0 DEF Knows, Local
<1>3. links[i] = None /\ links' = [links EXCEPT ![i] = b]
  BY <1>1, <1>2 DEF SocialCreate, AddLink
<1>4. PICK w \in Row : w = [password |-> None, status |-> "active"]
  BY DEF Row
<1>5. users[b] = None /\ users' = [users EXCEPT ![b] = w]
  BY <1>1, <1>4 DEF SocialCreate
<1>6. /\ links' \in [Identity -> Address \cup {None}] /\ links'[i] = b
      /\ \A s \in Identity \ {i} : links'[s] = links[s]
      /\ users' \in [Address -> Row \cup {None}] /\ users'[b] = w /\ w # None
      /\ \A a \in Address \ {b} : users'[a] = users[a]
  BY <1>0, <1>3, <1>5
<1>7. /\ \A s \in Identity : links[s] # None => links'[s] = links[s]
      /\ \A s \in Identity : links'[s] # None => links'[s] = links[s] \/ users'[links'[s]] # None
      /\ \A a \in Address : users[a] # None => users'[a] = users[a]
  BY <1>0, <1>3, <1>5, <1>6
<1>8. PICK x \in Local : /\ x = [request[r] EXCEPT !.phase = "session"]
                         /\ request' = [request EXCEPT ![r] = x]
  BY GoesOn DEF SocialCreate, Phases
<1>9. /\ x.phase = "session" /\ x.address = b /\ x.identity = i /\ x.password = None
  BY <1>0, <1>1, <1>2, <1>8 DEF Local, Knows
<1>10. Knows(x, users', links')
  BY <1>0, <1>4, <1>6, <1>9 DEF Knows, Entitled
<1>11. x.phase \notin GuessPhases /\ x.phase \notin NetworkPhases
  BY <1>9 DEF GuessPhases, NetworkPhases
<1>. QED
  BY <1>0, <1>6, <1>7, <1>8, <1>10, <1>11, OneAdds

LEMMA LinkAddAccountKeeps ==
    ASSUME IInv, NEW r \in Request, LinkAddAccount(r)
    PROVE  IInv'
<1>0. /\ request[r] \in Local /\ Knows(request[r], users, links)
      /\ request[r].phase = "link.add" /\ UNCHANGED <<users, counters>>
      /\ users \in [Address -> Row \cup {None}] /\ links \in [Identity -> Address \cup {None}]
      /\ request \in [Request -> Local] /\ None \notin Address
  BY InPlace, SignInAssumption DEF LinkAddAccount, At, IInv, TypeOK
<1>1. PICK b \in Address : b = request[r].address /\ users[b] # None
  BY InPlace, <1>0 DEF At, Knows
<1>2. PICK i \in Identity : i = request[r].identity
  BY <1>0 DEF Knows, Local, IdentityPhases
<1>3. links[i] = None /\ links' = [links EXCEPT ![i] = b]
  BY <1>1, <1>2 DEF LinkAddAccount, AddLink
<1>4. /\ links' \in [Identity -> Address \cup {None}] /\ links'[i] = b
      /\ \A s \in Identity \ {i} : links'[s] = links[s]
  BY <1>0, <1>3
<1>5. /\ \A s \in Identity : links[s] # None => links'[s] = links[s]
      /\ \A s \in Identity : links'[s] # None => links'[s] = links[s] \/ users'[links'[s]] # None
      /\ users' \in [Address -> Row \cup {None}]
      /\ \A a \in Address : users'[a] = users[a]
  BY <1>0, <1>1, <1>3, <1>4
<1>6. Idle.phase \notin GuessPhases /\ Idle.phase \notin NetworkPhases
  BY DEF Idle, GuessPhases, NetworkPhases
<1>7. request' = [request EXCEPT ![r] = Idle]
  BY DEF LinkAddAccount, Finish
<1>8. Idle \in Local /\ Knows(Idle, users', links')
  BY IdleKnows
<1>. QED
  BY <1>0, <1>4, <1>5, <1>6, <1>7, <1>8, OneAdds

-----------------------------------------------------------------------------
(* The steps that change or remove what a request may have decided on.     *)

\* The history of Q is written down, and nothing else of any request.
LEMMA OvertakenOnly ==
    ASSUME IInv, NEW Q
    PROVE  /\ Overtaken(Q) \in [Request -> Local]
           /\ \A q \in Request :
                 /\ Overtaken(Q)[q].phase = request[q].phase
                 /\ Overtaken(Q)[q].address = request[q].address
                 /\ Overtaken(Q)[q].password = request[q].password
                 /\ Overtaken(Q)[q].identity = request[q].identity
                 /\ Overtaken(Q)[q].user = request[q].user
                 /\ request[q].overtaken => Overtaken(Q)[q].overtaken
                 /\ q \in Q => Overtaken(Q)[q].overtaken
<1>1. request \in [Request -> Local]
  BY DEF IInv, TypeOK
<1>2. ASSUME NEW q \in Request
      PROVE  /\ Overtaken(Q)[q] = [request[q] EXCEPT !.overtaken = request[q].overtaken \/ q \in Q]
             /\ (request[q].overtaken \/ q \in Q) \in BOOLEAN
  BY <1>2 DEF Overtaken
<1>3. ASSUME NEW x \in Local, NEW b \in BOOLEAN, NEW y, y = [x EXCEPT !.overtaken = b]
      PROVE  /\ y \in Local /\ y.phase = x.phase /\ y.address = x.address
             /\ y.password = x.password /\ y.identity = x.identity /\ y.user = x.user
             /\ y.overtaken = b
  BY <1>3 DEF Local
<1>4. ASSUME NEW q \in Request
      PROVE  /\ Overtaken(Q)[q] \in Local
             /\ Overtaken(Q)[q].phase = request[q].phase
             /\ Overtaken(Q)[q].address = request[q].address
             /\ Overtaken(Q)[q].password = request[q].password
             /\ Overtaken(Q)[q].identity = request[q].identity
             /\ Overtaken(Q)[q].user = request[q].user
             /\ Overtaken(Q)[q].overtaken = (request[q].overtaken \/ q \in Q)
  <2>1. PICK x \in Local : x = request[q]
    BY <1>1
  <2>2. PICK b \in BOOLEAN : b = (request[q].overtaken \/ q \in Q)
    BY <1>2
  <2>3. PICK y : y = Overtaken(Q)[q]
    OBVIOUS
  <2>4. y = [x EXCEPT !.overtaken = b]
    BY <1>2, <2>1, <2>2, <2>3
  <2>5. /\ y \in Local /\ y.phase = x.phase /\ y.address = x.address
        /\ y.password = x.password /\ y.identity = x.identity /\ y.user = x.user
        /\ y.overtaken = b
    BY <1>3, <2>4
  <2>. QED
    BY <2>1, <2>2, <2>3, <2>5
<1>. QED
  BY <1>4 DEF Overtaken

\* No request of Q decides differently for being overtaken: what x and y differ
\* in is the history, and y knows what x did where rows and links are the same.
LEMMA OvertakenKnows ==
    ASSUME NEW u, NEW l, NEW x \in Local, NEW y \in Local, Knows(x, u, l),
           y.phase = x.phase, y.address = x.address, y.password = x.password,
           y.identity = x.identity, y.user = x.user, x.overtaken => y.overtaken
    PROVE  Knows(y, u, l)
<1>1. Entitled(x, u, l) => Entitled(y, u, l)
  BY DEF Entitled
<1>2. KeepsMethod(x, u, l) => KeepsMethod(y, u, l)
  BY DEF KeepsMethod
<1>. QED
  BY <1>1, <1>2 DEF Knows

\* A row is written over: the requests that have decided on it are overtaken,
\* and where that takes the password those that remove a link are.
LEMMA RowChangedKnows ==
    ASSUME IInv, NEW a \in Address, NEW w \in Row, users[a] # None,
           NEW q \in Request, NEW y \in Local,
           y.phase = request[q].phase, y.address = request[q].address,
           y.password = request[q].password, y.identity = request[q].identity,
           y.user = request[q].user, request[q].overtaken => y.overtaken,
           q \in Deciders(a) => y.overtaken,
           users[a].password # None /\ w.password = None /\ q \in Unlinking(a) => y.overtaken
    PROVE  Knows(y, [users EXCEPT ![a] = w], links)
<1>. DEFINE v == [users EXCEPT ![a] = w]
<1>1. /\ request[q] \in Local /\ Knows(request[q], users, links)
      /\ users \in [Address -> Row \cup {None}] /\ None \notin Row
  BY InPlace, SignInAssumption DEF IInv, TypeOK
<1>2. Knows(y, users, links)
  BY <1>1, OvertakenKnows
<1>3. v[a] = w /\ w # None /\ \A b \in Address \ {a} : v[b] = users[b]
  BY <1>1
<1>4. y.address \in Address \cup {None} /\ y.phase \in Phases
  BY DEF Local
<1>. HIDE DEF v
<1>5. CASE y.address = a
  <2>1. y.phase \in HoldPhases \cup MatchPhases => y.overtaken
    BY <1>5 DEF Deciders, HoldPhases, MatchPhases
  <2>2. y.phase = "unlink" /\ ~y.overtaken => KeepsMethod(y, v, links)
    <3>1. SUFFICES ASSUME y.phase = "unlink", ~y.overtaken PROVE KeepsMethod(y, v, links)
      OBVIOUS
    <3>2. users[a].password # None => w.password # None
      BY <1>5, <3>1 DEF Unlinking, At
    <3>3. KeepsMethod(y, users, links)
      BY <1>2, <3>1 DEF Knows
    <3>. QED
      BY <1>3, <1>5, <3>2, <3>3 DEF KeepsMethod
  <2>3. Knows(y, v, links)
    BY <1>2, <1>3, <1>5, <2>1, <2>2 DEF Knows
  <2>. QED
    BY <2>3 DEF v
<1>6. CASE y.address # a
  <2>1. y.phase # "idle" => v[y.address] = users[y.address]
    BY <1>2, <1>3, <1>4, <1>6 DEF Knows
  <2>2. y.phase # "idle" /\ Entitled(y, users, links) => Entitled(y, v, links)
    BY <2>1 DEF Entitled
  <2>3. y.phase # "idle" /\ KeepsMethod(y, users, links) => KeepsMethod(y, v, links)
    BY <2>1 DEF KeepsMethod
  <2>4. Knows(y, v, links)
    BY <1>2, <2>1, <2>2, <2>3 DEF Knows, HoldPhases, MatchPhases
  <2>. QED
    BY <2>4 DEF v
<1>. QED
  BY <1>5, <1>6

\* The rows and the links when a row is written over.
LEMMA RowChangedTypes ==
    ASSUME IInv, NEW a \in Address, NEW w \in Row, users[a] # None,
           users' = [users EXCEPT ![a] = w], UNCHANGED <<links, counters>>,
           request' \in [Request -> Local]
    PROVE  TypeOK'
<1>0. /\ users \in [Address -> Row \cup {None}] /\ None \notin Row
      /\ links' = links /\ attempts' = attempts /\ network' = network
  BY SignInAssumption DEF IInv, TypeOK, counters
<1>1. /\ users'[a] = w /\ w # None /\ \A b \in Address \ {a} : users'[b] = users[b]
      /\ users' \in [Address -> Row \cup {None}]
  BY <1>0
<1>2. TypeOK'
  <2>1. ASSUME NEW s \in Identity, links[s] # None PROVE users'[links[s]] # None
    <3>1. PICK b \in Address : b = links[s] /\ users[b] # None
      BY <2>1 DEF IInv, TypeOK
    <3>. QED
      BY <1>1, <3>1
  <2>. QED
    BY <1>0, <1>1, <2>1 DEF IInv, TypeOK
<1>. QED
  BY <1>2

\* The password, the status: other use cases write the row over.
LEMMA ChangeRowKeeps ==
    ASSUME IInv, NEW a \in Address, NEW w \in Row, users[a] # None,
           users[a].password # None => w.password # None, ChangeRow(a, w)
    PROVE  IInv'
<1>0. /\ users' = [users EXCEPT ![a] = w] /\ request' = Overtaken(Deciders(a))
      /\ UNCHANGED <<links, counters>>
  BY DEF ChangeRow
<1>1. /\ request' \in [Request -> Local]
      /\ \A q \in Request :
            /\ request'[q].phase = request[q].phase
            /\ request'[q].address = request[q].address
            /\ request'[q].password = request[q].password
            /\ request'[q].identity = request[q].identity
            /\ request'[q].user = request[q].user
            /\ request[q].overtaken => request'[q].overtaken
            /\ q \in Deciders(a) => request'[q].overtaken
  BY <1>0, OvertakenOnly
<1>2. TypeOK'
  BY <1>0, <1>1, RowChangedTypes
<1>3. RequestsKnow'
  <2>1. ASSUME NEW q \in Request PROVE Knows(request'[q], users', links)
    <3>1. PICK y \in Local : y = request'[q]
      BY <1>1
    <3>. QED
      BY <1>0, <1>1, <3>1, RowChangedKnows
  <2>. QED
    BY <1>0, <2>1 DEF RequestsKnow
<1>4. RoomLeft'
  <2>1. attempts \in [Address -> Nat] /\ network \in Nat /\ attempts' = attempts /\ network' = network
    BY <1>0 DEF IInv, TypeOK, counters
  <2>2. /\ \A b \in Address : Guessing(b)' \subseteq Guessing(b)
        /\ NetworkGuessing' \subseteq NetworkGuessing
    BY <1>1 DEF Guessing, NetworkGuessing, Counting
  <2>3. network' <= network /\ \A b \in Address : attempts'[b] <= attempts[b]
    BY <2>1
  <2>. QED
    BY <1>2, <2>2, <2>3, RoomStays DEF IInv
<1>. QED
  BY <1>2, <1>3, <1>4 DEF IInv

\* What the other use cases do.  A password is replaced by another, never taken
\* away.
LEMMA ElsewhereKeeps ==
    ASSUME IInv, Elsewhere
    PROVE  IInv'
<1>0. /\ users \in [Address -> Row \cup {None}] /\ None \notin Row /\ None \notin Password
      /\ PasswordAddress \subseteq Address
  BY SignInAssumption DEF IInv, TypeOK
<1>1. ASSUME NEW a \in Address, users[a] # None, NEW st \in {"active", "inactive"},
             ChangeRow(a, [users[a] EXCEPT !.status = st])
      PROVE  IInv'
  <2>1. PICK w : w = [users[a] EXCEPT !.status = st]
    OBVIOUS
  <2>2. w \in Row /\ w.password = users[a].password
    BY <1>0, <1>1, <2>1 DEF Row
  <2>3. ChangeRow(a, w)
    BY <1>1, <2>1
  <2>. QED
    BY <1>1, <2>2, <2>3, ChangeRowKeeps
<1>2. ASSUME NEW a \in Address, VerifyEmail(a) PROVE IInv'
  BY <1>1, <1>2 DEF VerifyEmail
<1>3. ASSUME NEW a \in Address, DeactivateUser(a) PROVE IInv'
  BY <1>1, <1>3 DEF DeactivateUser
<1>4. ASSUME NEW a \in PasswordAddress, NEW p \in Password, SetPassword(a, p) PROVE IInv'
  <2>1. PICK w : w = [users[a] EXCEPT !.password = p]
    OBVIOUS
  <2>2. a \in Address /\ users[a] # None
    BY <1>0, <1>4 DEF SetPassword
  <2>3. w \in Row /\ w.password = p
    BY <1>0, <2>1, <2>2 DEF Row
  <2>4. ChangeRow(a, w) /\ p # None
    BY <1>0, <1>4, <2>1 DEF SetPassword
  <2>. QED
    BY <2>2, <2>3, <2>4, ChangeRowKeeps
<1>5. ASSUME UNCHANGED <<data, request>>,
             attempts' \in [Address -> Nat], network' \in Nat, network' <= network,
             \A a \in Address : attempts'[a] <= attempts[a]
      PROVE  IInv'
  <2>0. users' = users /\ links' = links /\ request' = request
    BY <1>5 DEF data
  <2>1. TypeOK'
    BY <1>5, <2>0 DEF IInv, TypeOK
  <2>2. RequestsKnow'
    BY <2>0 DEF IInv, RequestsKnow
  <2>3. NetworkGuessing' = NetworkGuessing /\ \A a \in Address : Guessing(a)' = Guessing(a)
    BY <2>0 DEF Guessing, NetworkGuessing, Counting
  <2>4. RoomLeft'
    BY <1>5, <2>1, <2>3, RoomStays DEF IInv
  <2>. QED
    BY <2>1, <2>2, <2>4 DEF IInv
<1>6. ASSUME NEW a \in Address, AttemptsExpire(a) PROVE IInv'
  <2>1. attempts \in [Address -> Nat] /\ network \in Nat /\ attempts' = [attempts EXCEPT ![a] = 0]
        /\ UNCHANGED <<data, network, request>>
    BY <1>6 DEF AttemptsExpire, IInv, TypeOK
  <2>2. /\ attempts' \in [Address -> Nat] /\ network' \in Nat /\ network' <= network
        /\ \A b \in Address : attempts'[b] <= attempts[b]
    BY <2>1
  <2>. QED
    BY <1>5, <2>1, <2>2
<1>7. ASSUME NetworkExpires PROVE IInv'
  <2>1. attempts \in [Address -> Nat] /\ network \in Nat /\ attempts' = attempts /\ network' = 0
        /\ UNCHANGED <<data, request>>
    BY <1>7 DEF NetworkExpires, IInv, TypeOK
  <2>2. /\ attempts' \in [Address -> Nat] /\ network' \in Nat /\ network' <= network
        /\ \A b \in Address : attempts'[b] <= attempts[b]
    BY <2>1
  <2>. QED
    BY <1>5, <2>1, <2>2
<1>. QED
  BY <1>2, <1>3, <1>4, <1>6, <1>7 DEF Elsewhere

\* The row goes back as it was read, and the request goes on with x: the others
\* that have decided on the row are overtaken if that undoes a change.
LEMMA WriteBackKeeps ==
    ASSUME IInv, NEW r \in Request, NEW b \in Address, b = request[r].address,
           NEW w \in Row, w = request[r].user, users[b] # None,
           NEW x \in Local, WriteBack(r, x), Knows(x, users', links),
           x.phase \notin GuessPhases, x.phase \notin NetworkPhases
    PROVE  IInv'
<1>0. /\ users' = [users EXCEPT ![b] = w] /\ UNCHANGED <<links, counters>>
      /\ request \in [Request -> Local]
  BY InPlace DEF WriteBack
<1>1. PICK Q : /\ request' = [Overtaken(Q) EXCEPT ![r] = x]
               /\ users' = users \/ Deciders(b) \subseteq Q
               /\ users[b].password # None /\ w.password = None => Unlinking(b) \subseteq Q
  BY DEF WriteBack
<1>2. /\ request' \in [Request -> Local] /\ request'[r] = x
      /\ \A q \in Request \ {r} :
            /\ request'[q].phase = request[q].phase
            /\ request'[q].address = request[q].address
            /\ request'[q].password = request[q].password
            /\ request'[q].identity = request[q].identity
            /\ request'[q].user = request[q].user
            /\ request[q].overtaken => request'[q].overtaken
            /\ q \in Q => request'[q].overtaken
  <2>1. PICK o : o = Overtaken(Q)
    OBVIOUS
  <2>2. o \in [Request -> Local]
    BY <2>1, OvertakenOnly
  <2>3. request' = [o EXCEPT ![r] = x]
    BY <1>1, <2>1
  <2>4. request' \in [Request -> Local] /\ request'[r] = x
        /\ \A q \in Request \ {r} : request'[q] = o[q]
    BY <2>2, <2>3
  <2>. QED
    BY <2>1, <2>4, OvertakenOnly
<1>3. TypeOK'
  BY <1>0, <1>2, RowChangedTypes
<1>4. RequestsKnow'
  <2>1. ASSUME NEW q \in Request \ {r} PROVE Knows(request'[q], users', links)
    <3>1. PICK y \in Local : y = request'[q]
      BY <1>2
    <3>2. CASE Deciders(b) \subseteq Q
      <4>1. /\ q \in Deciders(b) => y.overtaken
            /\ users[b].password # None /\ w.password = None /\ q \in Unlinking(b) => y.overtaken
        BY <1>1, <1>2, <3>1, <3>2
      <4>. QED
        BY <1>0, <1>2, <3>1, <4>1, RowChangedKnows
    <3>3. CASE users' = users
      <4>1. request[q] \in Local /\ Knows(request[q], users, links)
        BY InPlace
      <4>2. Knows(y, users, links)
        BY <1>2, <3>1, <4>1, OvertakenKnows
      <4>. QED
        BY <3>1, <3>3, <4>2
    <3>. QED
      BY <1>1, <3>2, <3>3
  <2>. QED
    BY <1>0, <1>2, <2>1 DEF RequestsKnow
<1>5. RoomLeft'
  BY <1>0, <1>2, <1>3, RoomOfOne DEF IInv
<1>. QED
  BY <1>3, <1>4, <1>5 DEF IInv

\* The password in its new hash: the row has it, as the one the request read.
LEMMA RehashKeeps ==
    ASSUME IInv, NEW r \in Request, Rehash(r)
    PROVE  IInv'
<1>. USE DEF LoginPhases, SocialPhases, IdentityPhases, HoldPhases, MatchPhases
<1>0. /\ request[r] \in Local /\ Knows(request[r], users, links)
      /\ request[r].phase = "login.rehash" /\ users \in [Address -> Row \cup {None}]
      /\ None \notin Row
  BY InPlace, SignInAssumption DEF Rehash, At, IInv, TypeOK
<1>1. PICK b \in Address : b = request[r].address
  BY InPlace, <1>0 DEF At
<1>2. PICK w \in Row : /\ w = request[r].user /\ w.password = request[r].password
                       /\ w.password # None /\ users[b] # None
  BY <1>0, <1>1 DEF Knows, Local
<1>3. PICK x : x = Welcomed(r, w) /\ WriteBack(r, x)
  BY <1>2 DEF Rehash
<1>4. users' = [users EXCEPT ![b] = w]
  BY <1>1, <1>2, <1>3 DEF WriteBack
<1>5. /\ x \in Local /\ Knows(x, users', links)
      /\ x.phase \notin GuessPhases /\ x.phase \notin NetworkPhases
  <2>1. CASE w.status = "active"
    <3>1. x = [request[r] EXCEPT !.phase = "clear.account", !.user = None]
      BY <1>3, <2>1 DEF Welcomed
    <3>2. /\ x \in Local /\ x.phase = "clear.account" /\ x.address = b /\ x.identity = None
          /\ x.password = w.password
      BY <1>0, <1>1, <1>2, <3>1 DEF Local, Phases, Knows
    <3>3. users'[b] = w
      BY <1>0, <1>4
    <3>4. Knows(x, users', links)
      BY <1>0, <1>1, <1>2, <2>1, <3>2, <3>3, SignInAssumption DEF Knows, Entitled
    <3>. QED
      BY <3>2, <3>4 DEF GuessPhases, NetworkPhases
  <2>2. CASE w.status # "active"
    <3>1. x = Idle
      BY <1>3, <2>2 DEF Welcomed
    <3>2. Idle.phase \notin GuessPhases /\ Idle.phase \notin NetworkPhases
      BY DEF Idle, GuessPhases, NetworkPhases
    <3>. QED
      BY <3>1, <3>2, IdleKnows
  <2>. QED
    BY <2>1, <2>2
<1>. QED
  BY <1>1, <1>2, <1>3, <1>5, WriteBackKeeps

\* The profile: the row as it was read, whatever it has been since.
LEMMA WriteUserKeeps ==
    ASSUME IInv, NEW r \in Request, WriteUser(r)
    PROVE  IInv'
<1>0. /\ request[r] \in Local /\ Knows(request[r], users, links)
      /\ request[r].phase = "update.write" /\ WriteBack(r, Idle)
  BY InPlace DEF WriteUser, At
<1>1. PICK b \in Address : b = request[r].address
  BY InPlace, <1>0 DEF At
<1>2. PICK w \in Row : w = request[r].user /\ users[b] # None
  BY <1>0, <1>1 DEF Knows, HoldPhases, Local
<1>3. Idle.phase \notin GuessPhases /\ Idle.phase \notin NetworkPhases
  BY DEF Idle, GuessPhases, NetworkPhases
<1>. QED
  BY <1>0, <1>1, <1>2, <1>3, IdleKnows, WriteBackKeeps

\* A provider's links go: the other requests that take one from the account are
\* overtaken by it, if there was one left to take.
LEMMA RemoveSocialAccountKeeps ==
    ASSUME IInv, NEW r \in Request, RemoveSocialAccount(r)
    PROVE  IInv'
<1>. USE DEF LoginPhases, SocialPhases, IdentityPhases, HoldPhases, MatchPhases
<1>0. /\ request[r] \in Local /\ Knows(request[r], users, links)
      /\ request[r].phase = "unlink" /\ request \in [Request -> Local]
      /\ UNCHANGED <<users, counters>> /\ users \in [Address -> Row \cup {None}]
      /\ links \in [Identity -> Address \cup {None}] /\ None \notin Address
  BY InPlace, SignInAssumption DEF RemoveSocialAccount, At, IInv, TypeOK
<1>1. PICK a \in Address : a = request[r].address
  BY InPlace, <1>0 DEF At
<1>2. PICK i \in Identity : i = request[r].identity
  BY <1>0 DEF Knows, Local
<1>3. PICK gone \in SUBSET Identity :
         /\ gone = {s \in LinksOf(a) : ProviderOf[s] = ProviderOf[i]}
         /\ links' = [s \in Identity |-> IF s \in gone THEN None ELSE links[s]]
         /\ request' = [Overtaken({q \in Deciders(a) : request[q].identity \in gone}
                                     \cup (IF gone = {} THEN {} ELSE Unlinking(a)))
                           EXCEPT ![r] = Idle]
  BY <1>1, <1>2 DEF RemoveSocialAccount, LinksOf
<1>5. /\ \A s \in gone : links'[s] = None /\ links[s] = a
      /\ \A s \in Identity \ gone : links'[s] = links[s]
      /\ links' \in [Identity -> Address \cup {None}]
      /\ \A s \in Identity : links[s] = a /\ ProviderOf[s] # ProviderOf[i] => links'[s] = a
  BY <1>0, <1>3 DEF LinksOf
<1>6. PICK Q : /\ {q \in Deciders(a) : request[q].identity \in gone} \subseteq Q
               /\ gone # {} => Unlinking(a) \subseteq Q
               /\ request' = [Overtaken(Q) EXCEPT ![r] = Idle]
  BY <1>3
<1>7. /\ request' \in [Request -> Local] /\ request'[r] = Idle
      /\ \A q \in Request \ {r} :
            /\ request'[q].phase = request[q].phase
            /\ request'[q].address = request[q].address
            /\ request'[q].password = request[q].password
            /\ request'[q].identity = request[q].identity
            /\ request'[q].user = request[q].user
            /\ request[q].overtaken => request'[q].overtaken
            /\ q \in Q => request'[q].overtaken
  <2>1. PICK o : o = Overtaken(Q)
    OBVIOUS
  <2>2. o \in [Request -> Local]
    BY <2>1, OvertakenOnly
  <2>3. request' = [o EXCEPT ![r] = Idle]
    BY <1>6, <2>1
  <2>4. request' \in [Request -> Local] /\ request'[r] = Idle
        /\ \A q \in Request \ {r} : request'[q] = o[q]
    BY <2>2, <2>3, IdleKnows
  <2>. QED
    BY <2>1, <2>4, OvertakenOnly
<1>8. TypeOK'
  <2>1. ASSUME NEW s \in Identity, links'[s] # None PROVE users[links'[s]] # None
    BY <1>5, <2>1 DEF IInv, TypeOK
  <2>. QED
    BY <1>0, <1>5, <1>7, <2>1 DEF IInv, TypeOK, counters
<1>10. RequestsKnow'
  <2>1. ASSUME NEW q \in Request \ {r} PROVE Knows(request'[q], users, links')
    <3>1. PICK y \in Local : y = request'[q]
      BY <1>7
    <3>2. request[q] \in Local /\ Knows(request[q], users, links)
      BY InPlace
    <3>3. Knows(y, users, links)
      BY <1>7, <3>1, <3>2, OvertakenKnows
    <3>4. y.phase \in MatchPhases /\ ~y.overtaken => Entitled(y, users, links')
      <4>1. SUFFICES ASSUME y.phase \in MatchPhases, ~y.overtaken
                     PROVE  Entitled(y, users, links')
        OBVIOUS
      <4>2. Entitled(y, users, links) /\ y.address # None /\ y.identity \in Identity \cup {None}
        BY <3>3, <4>1 DEF Knows, Local
      <4>3. y.identity # None => y.identity \notin gone
        <5>1. SUFFICES ASSUME y.identity # None, y.identity \in gone PROVE FALSE
          OBVIOUS
        <5>2. y.address = a
          BY <1>5, <4>2, <5>1 DEF Entitled
        <5>3. q \in Q
          BY <1>6, <1>7, <3>1, <4>1, <5>1, <5>2 DEF Deciders
        <5>. QED
          BY <1>7, <3>1, <4>1, <5>3
      <4>. QED
        BY <1>5, <4>2, <4>3 DEF Entitled
    <3>5. y.phase = "unlink" /\ ~y.overtaken => KeepsMethod(y, users, links')
      <4>1. SUFFICES ASSUME y.phase = "unlink", ~y.overtaken
                     PROVE  KeepsMethod(y, users, links')
        OBVIOUS
      <4>2. y.address # a \/ gone = {}
        BY <1>6, <1>7, <3>1, <4>1 DEF Unlinking, At
      <4>3. KeepsMethod(y, users, links)
        BY <3>3, <4>1 DEF Knows
      <4>. QED
        BY <1>5, <4>2, <4>3 DEF KeepsMethod
    <3>6. Knows(y, users, links')
      BY <3>3, <3>4, <3>5 DEF Knows
    <3>. QED
      BY <3>1, <3>6
  <2>2. Knows(request'[r], users, links')
    BY <1>7, IdleKnows
  <2>. QED
    BY <1>0, <2>1, <2>2 DEF RequestsKnow
<1>11. RoomLeft'
  <2>1. request'[r].phase \notin GuessPhases /\ request'[r].phase \notin NetworkPhases
    BY <1>7 DEF Idle, GuessPhases, NetworkPhases
  <2>. QED
    BY <1>0, <1>7, <1>8, <2>1, RoomOfOne DEF IInv
<1>. QED
  BY <1>8, <1>10, <1>11 DEF IInv

-----------------------------------------------------------------------------
\* The inductive invariant, by the lemmas above: one per action.
THEOREM Invariant == Spec => []IInv
<1>1. IInv /\ [Next]_vars => IInv'
  <2>. SUFFICES ASSUME IInv, [Next]_vars PROVE IInv'
    OBVIOUS
  <2>1. ASSUME NEW r \in Request, Arrival(r) PROVE IInv'
    BY <2>1, ArrivalKeeps
  <2>2. ASSUME NEW r \in Request, Step(r) PROVE IInv'
    <3>1. ASSUME CheckNetwork(r) \/ FindByEmail(r) \/ Rehash(r) PROVE IInv'
      BY <3>1, CheckNetworkKeeps, FindByEmailKeeps, RehashKeeps
    <3>2. ASSUME CountAccount(r) \/ CountNetwork(r) \/ ClearAccount(r) \/ ClearNetwork(r)
          PROVE  IInv'
      BY <3>2, CountAccountKeeps, CountNetworkKeeps, ClearAccountKeeps, ClearNetworkKeeps
    <3>3. ASSUME OpenSession(r) \/ Fail(r) PROVE IInv'
      BY <3>3, OneEnds DEF OpenSession, Fail
    <3>4. ASSUME CreateUser(r) \/ SocialAddAccount(r) \/ SocialCreate(r) \/ LinkAddAccount(r)
          PROVE  IInv'
      BY <3>4, CreateUserKeeps, SocialAddAccountKeeps, SocialCreateKeeps, LinkAddAccountKeeps
    <3>5. ASSUME SocialFindByEmail(r) \/ LinkFindByProvider(r) \/ RemoveSocialAccount(r)
                 \/ WriteUser(r)
          PROVE  IInv'
      BY <3>5, SocialFindByEmailKeeps, LinkFindByProviderKeeps, RemoveSocialAccountKeeps,
         WriteUserKeeps
    <3>. QED
      BY <2>2, <3>1, <3>2, <3>3, <3>4, <3>5 DEF Step
  <2>3. CASE Elsewhere
    BY <2>3, ElsewhereKeeps
  <2>4. CASE UNCHANGED vars
    <3>1. /\ users' = users /\ links' = links /\ attempts' = attempts /\ network' = network
          /\ request' = request
      BY <2>4 DEF vars, data, counters
    <3>2. TypeOK' /\ RequestsKnow'
      BY <3>1 DEF IInv, TypeOK, RequestsKnow, LinksOf
    <3>3. NetworkGuessing' = NetworkGuessing /\ \A a \in Address : Guessing(a)' = Guessing(a)
      BY <3>1 DEF Guessing, NetworkGuessing, Counting
    <3>4. RoomLeft'
      BY <3>1, <3>3 DEF IInv, RoomLeft
    <3>. QED
      BY <3>2, <3>4 DEF IInv
  <2>. QED
    BY <2>1, <2>2, <2>3, <2>4 DEF Next
<1>. QED
  BY <1>1, InitIInv, PTL DEF Spec

\* Rows, counters and requests keep their types, and a link leads to an account.
THEOREM TypeCorrect == Spec => []TypeOK
<1>1. IInv => TypeOK
  BY DEF IInv
<1>. QED
  BY <1>1, Invariant, PTL

\* Log-ins in flight together overrun the limit of wrong passwords, of an account
\* as of a network, by less than their number.
THEOREM LockoutHolds == Spec => []GuessesBounded
<1>1. IInv => GuessesBounded
  <2>. SUFFICES ASSUME IInv PROVE GuessesBounded
    OBVIOUS
  <2>0. attempts \in [Address -> Nat] /\ network \in Nat /\ MaxAttempts \in Nat
    BY SignInAssumption DEF IInv, TypeOK
  <2>1. ASSUME NEW S \in SUBSET Request, NEW T \in SUBSET S
        PROVE  /\ Cardinality(T) <= Cardinality(S)
               /\ Cardinality(S) \in Nat /\ Cardinality(T) \in Nat
    BY GuessingFinite, FS_Subset
  <2>2. ASSUME NEW a \in Address
        PROVE  attempts[a]
                 + Cardinality({r \in Counting({"count.account"}) : request[r].address = a})
                  < MaxAttempts + Cardinality(Request)
    <3>. DEFINE T == {r \in Counting({"count.account"}) : request[r].address = a}
    <3>1. Guessing(a) \in SUBSET Request /\ T \in SUBSET Guessing(a)
      BY DEF Guessing, Counting, GuessPhases
    <3>2. attempts[a] + Cardinality(Guessing(a)) < MaxAttempts + Cardinality(Request)
      BY DEF IInv, RoomLeft
    <3>3. /\ Cardinality(T) <= Cardinality(Guessing(a))
          /\ Cardinality(Guessing(a)) \in Nat /\ Cardinality(T) \in Nat
      BY <2>1, <3>1
    <3>. HIDE DEF T
    <3>4. attempts[a] + Cardinality(T) < MaxAttempts + Cardinality(Request)
      BY <2>0, <3>2, <3>3, GuessingFinite
    <3>. QED
      BY <3>4 DEF T
  <2>3. network + Cardinality(Counting({"count.account", "count.network"}))
          < MaxAttempts + Cardinality(Request)
    <3>. DEFINE T == Counting({"count.account", "count.network"})
    <3>1. NetworkGuessing \in SUBSET Request /\ T \in SUBSET NetworkGuessing
      BY DEF NetworkGuessing, Counting, NetworkPhases
    <3>2. network + Cardinality(NetworkGuessing) < MaxAttempts + Cardinality(Request)
      BY DEF IInv, RoomLeft
    <3>3. /\ Cardinality(T) <= Cardinality(NetworkGuessing)
          /\ Cardinality(NetworkGuessing) \in Nat /\ Cardinality(T) \in Nat
      BY <2>1, <3>1
    <3>. HIDE DEF T
    <3>4. network + Cardinality(T) < MaxAttempts + Cardinality(Request)
      BY <2>0, <3>2, <3>3, GuessingFinite
    <3>. QED
      BY <3>4 DEF T
  <2>. QED
    BY <2>2, <2>3 DEF GuessesBounded
<1>. QED
  BY <1>1, Invariant, PTL

\* A session is opened for the account whose password was given or whose link the
\* identity has, and which is active, unless that has changed since it was read.
THEOREM SessionsMatch == Spec => []SessionMatchesCredential
<1>1. IInv => SessionMatchesCredential
  BY InPlace DEF SessionMatchesCredential, IInv, RequestsKnow, Knows, Entitled, MatchPhases, At
<1>. QED
  BY <1>1, Invariant, PTL

-----------------------------------------------------------------------------
(* The last way in.                                                        *)

\* What takes the last way in from a: r, which somebody has overtaken.
Overtaker(r, a) ==
    /\ request[r].phase \in {"unlink", "update.write"}
    /\ request[r].address = a /\ request[r].overtaken
    /\ request'[r] = Idle

\* A row that is written back takes the password of a only if the request has
\* been overtaken: otherwise it is the row that is there.
LEMMA WriteBackTakes ==
    ASSUME IInv, NEW r \in Request, NEW a \in Address, Rehash(r) \/ WriteUser(r),
           HasMethod(a), ~HasMethod(a)'
    PROVE  Overtaker(r, a)
<1>0. /\ request[r] \in Local /\ Knows(request[r], users, links)
      /\ request[r].phase \in {"login.rehash", "update.write"}
      /\ users \in [Address -> Row \cup {None}] /\ None \notin Row
      /\ request \in [Request -> Local]
  BY InPlace, SignInAssumption DEF Rehash, WriteUser, At, IInv, TypeOK
<1>1. PICK b \in Address : b = request[r].address
  BY InPlace, <1>0 DEF At
<1>2. PICK w \in Row : w = request[r].user /\ users[b] # None
  BY <1>0, <1>1 DEF Knows, HoldPhases, Local
<1>3. users' = [users EXCEPT ![b] = w] /\ links' = links
  BY <1>1, <1>2 DEF Rehash, WriteUser, WriteBack
<1>4. a = b
  BY <1>0, <1>3 DEF HasMethod, LinksOf
<1>5. w.password = None /\ users' # users
  BY <1>0, <1>3, <1>4 DEF HasMethod, LinksOf
<1>6. request[r].phase = "update.write"
  BY <1>0, <1>2, <1>5 DEF Knows, LoginPhases
<1>7. request[r].overtaken
  BY <1>0, <1>1, <1>2, <1>3, <1>5 DEF Knows, HoldPhases
<1>8. request'[r] = Idle
  <2>1. WriteBack(r, Idle)
    BY <1>6 DEF Rehash, WriteUser, At
  <2>2. PICK Q : request' = [Overtaken(Q) EXCEPT ![r] = Idle]
    BY <2>1 DEF WriteBack
  <2>. QED
    BY <2>2 DEF Overtaken
<1>. QED
  BY <1>1, <1>4, <1>6, <1>7, <1>8 DEF Overtaker

\* An unlinking leaves the way in it has seen, unless it has been overtaken.
LEMMA UnlinkTakes ==
    ASSUME IInv, NEW r \in Request, NEW a \in Address, RemoveSocialAccount(r),
           HasMethod(a), ~HasMethod(a)'
    PROVE  Overtaker(r, a)
<1>0. /\ request[r] \in Local /\ Knows(request[r], users, links)
      /\ request[r].phase = "unlink" /\ users' = users
      /\ links \in [Identity -> Address \cup {None}] /\ None \notin Address
  BY InPlace, SignInAssumption DEF RemoveSocialAccount, At, IInv, TypeOK
<1>1. PICK b \in Address : b = request[r].address
  BY InPlace, <1>0 DEF At
<1>2. PICK gone \in SUBSET Identity :
         /\ gone = {s \in LinksOf(b) : ProviderOf[s] = ProviderOf[request[r].identity]}
         /\ links' = [s \in Identity |-> IF s \in gone THEN None ELSE links[s]]
  BY <1>1 DEF RemoveSocialAccount, LinksOf
<1>3. a = b
  BY <1>0, <1>2 DEF HasMethod, LinksOf
<1>4. ~KeepsMethod(request[r], users, links)
  BY <1>0, <1>1, <1>2, <1>3 DEF HasMethod, LinksOf, KeepsMethod
<1>5. request[r].overtaken
  BY <1>0, <1>4 DEF Knows
<1>6. request'[r] = Idle
  <2>1. PICK Q : request' = [Overtaken(Q) EXCEPT ![r] = Idle]
    BY DEF RemoveSocialAccount
  <2>. QED
    BY <2>1 DEF Overtaken
<1>. QED
  BY <1>0, <1>1, <1>3, <1>5, <1>6 DEF Overtaker

\* The other steps take no way in.
LEMMA OthersTakeNone ==
    ASSUME IInv, NEW a \in Address, HasMethod(a), Next,
           \A r \in Request : ~Rehash(r) /\ ~WriteUser(r) /\ ~RemoveSocialAccount(r)
    PROVE  HasMethod(a)'
<1>0. /\ users \in [Address -> Row \cup {None}] /\ links \in [Identity -> Address \cup {None}]
      /\ None \notin Address \cup Password \cup Row /\ PasswordAddress \subseteq Address
  BY SignInAssumption DEF IInv, TypeOK
<1>1. CASE UNCHANGED data
  BY <1>1 DEF data, HasMethod, LinksOf
<1>2. ASSUME NEW r \in Request, CreateUser(r) PROVE HasMethod(a)'
  <2>1. request[r] \in Local /\ Knows(request[r], users, links) /\ request[r].phase = "register.create"
    BY <1>2, InPlace DEF CreateUser, At
  <2>2. request[r].password # None /\ links' = links
    BY <1>2, <2>1 DEF Knows, LoginPhases, CreateUser
  <2>3. PICK b : /\ users' = [users EXCEPT ![b] = [password |-> request[r].password,
                                                   status |-> "unverified"]]
                 /\ users[b] = None
    BY <1>2 DEF CreateUser
  <2>. QED
    BY <1>0, <2>2, <2>3 DEF HasMethod, LinksOf
<1>3. ASSUME NEW r \in Request, SocialAddAccount(r) \/ LinkAddAccount(r) PROVE HasMethod(a)'
  <2>1. PICK i : links[i] = None /\ links' = [links EXCEPT ![i] = request[r].address] /\ users' = users
    BY <1>3 DEF SocialAddAccount, LinkAddAccount, AddLink
  <2>. QED
    BY <1>0, <2>1 DEF HasMethod, LinksOf
<1>4. ASSUME NEW r \in Request, SocialCreate(r) PROVE HasMethod(a)'
  <2>1. request[r] \in Local /\ Knows(request[r], users, links) /\ request[r].phase = "social.create"
    BY <1>4, InPlace DEF SocialCreate, At
  <2>2. PICK i \in Identity : i = request[r].identity
    BY <2>1 DEF Knows, Local, IdentityPhases, SocialPhases
  <2>3. PICK b : b = request[r].address
    OBVIOUS
  <2>4. /\ links[i] = None /\ links' = [links EXCEPT ![i] = b]
        /\ users[b] = None /\ users' = [users EXCEPT ![b] = [password |-> None, status |-> "active"]]
    BY <1>4, <2>2, <2>3 DEF SocialCreate, AddLink
  <2>5. CASE a = b
    BY <1>0, <2>2, <2>4, <2>5 DEF HasMethod, LinksOf
  <2>6. CASE a # b
    BY <1>0, <2>4, <2>6 DEF HasMethod, LinksOf
  <2>. QED
    BY <2>5, <2>6
<1>5. CASE Elsewhere
  <2>1. ASSUME NEW b \in Address, NEW row \in Row, ChangeRow(b, row), users[b] # None,
               users[b].password # None => row.password # None
        PROVE  HasMethod(a)'
    <3>1. users' = [users EXCEPT ![b] = row] /\ links' = links
      BY <2>1 DEF ChangeRow
    <3>. QED
      BY <1>0, <2>1, <3>1 DEF HasMethod, LinksOf
  <2>2. ASSUME NEW b \in Address, VerifyEmail(b) \/ DeactivateUser(b) PROVE HasMethod(a)'
    <3>1. PICK st \in {"active", "inactive"} : ChangeRow(b, [users[b] EXCEPT !.status = st]) /\ users[b] # None
      BY <2>2 DEF VerifyEmail, DeactivateUser
    <3>2. PICK row : row = [users[b] EXCEPT !.status = st]
      OBVIOUS
    <3>3. row \in Row /\ row.password = users[b].password
      BY <1>0, <3>1, <3>2 DEF Row
    <3>. QED
      BY <2>1, <3>1, <3>2, <3>3
  <2>3. ASSUME NEW b \in PasswordAddress, NEW p \in Password, SetPassword(b, p) PROVE HasMethod(a)'
    <3>1. b \in Address /\ users[b] # None /\ ChangeRow(b, [users[b] EXCEPT !.password = p])
      BY <1>0, <2>3 DEF SetPassword
    <3>2. PICK row : row = [users[b] EXCEPT !.password = p]
      OBVIOUS
    <3>3. row \in Row /\ row.password = p /\ p # None
      BY <1>0, <3>1, <3>2 DEF Row
    <3>. QED
      BY <2>1, <3>1, <3>2, <3>3
  <2>. QED
    BY <1>1, <1>5, <2>2, <2>3 DEF Elsewhere, AttemptsExpire, NetworkExpires, data
<1>6. ASSUME NEW r \in Request, Arrival(r) PROVE UNCHANGED data
  BY <1>6 DEF Arrival, Register, Login, Social, Link, Unlink, UpdateUser
<1>7. ASSUME NEW r \in Request, Step(r) PROVE HasMethod(a)'
  BY <1>1, <1>2, <1>3, <1>4, <1>7
     DEF Step, CheckNetwork, FindByEmail, CountAccount, CountNetwork, ClearAccount, ClearNetwork,
         OpenSession, SocialFindByEmail, LinkFindByProvider, Fail
<1>. QED
  BY <1>1, <1>5, <1>6, <1>7 DEF Next

\* The last way in to an account is taken only by an unlinking another request
\* took a way in from under, or by a whole-row write whose row has changed since
\* it was read: for any number of accounts, identities and requests.
THEOREM WayInKept == Spec => AuthMethodKept
<1>1. IInv /\ [Next]_vars =>
         [\A a \in Address : HasMethod(a) /\ ~HasMethod(a)' =>
            \E r \in Request :
              /\ request[r].phase \in {"unlink", "update.write"}
              /\ request[r].address = a /\ request[r].overtaken
              /\ request'[r] = Idle]_vars
  <2>. SUFFICES ASSUME IInv, Next, NEW a \in Address, HasMethod(a), ~HasMethod(a)'
                PROVE  \E r \in Request : Overtaker(r, a)
    BY DEF Overtaker
  <2>. QED
    BY WriteBackTakes, UnlinkTakes, OthersTakeNone
<1>. QED
  BY <1>1, Invariant, PTL DEF AuthMethodKept, Spec
=============================================================================
