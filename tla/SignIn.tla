-------------------------------- MODULE SignIn --------------------------------
(***************************************************************************)
(* Registration, the log-in with a password and its lockout, the sign-in   *)
(* with a social provider, and the social links of every account.          *)
(*   src/src/application/use-cases/user/register-user.use-case.ts          *)
(*   src/src/application/use-cases/auth/authenticate-user.use-case.ts      *)
(*   src/src/application/use-cases/auth/authenticate-social.use-case.ts    *)
(*   src/src/application/use-cases/social/*.use-case.ts                    *)
(*                                                                         *)
(* An address is written in lower case wherever it is stored or looked up, *)
(* it is unique and no use case changes it: an account is known here by    *)
(* its address.  A social identity is a (provider, account id) pair, whose *)
(* rows are unique too.  What follows the session (tokens, the challenge   *)
(* of the second factor) is in the modules Sessions and Mfa.               *)
(***************************************************************************)
EXTENDS FiniteSets, Naturals

CONSTANTS
    Address,
    PasswordAddress,  \* those a password is tried or set for in this instance
    Password,
    Identity,         \* social accounts
    ProviderOf,       \* [Identity -> the provider]
    MaxAttempts,      \* wrong passwords before a lockout (5 in the code)
    Request, None

Row == [password: Password \cup {None}, status: {"unverified", "active", "inactive"}]

ASSUME SignInAssumption ==
    /\ PasswordAddress \subseteq Address
    /\ MaxAttempts \in Nat \ {0}
    /\ IsFiniteSet(Request)
    /\ None \notin Address \cup Password \cup Identity \cup Row
    /\ DOMAIN ProviderOf = Identity

VARIABLES
    users,     \* [Address -> None or the account's row]
    links,     \* social_accounts: [Identity -> None or the account's address]
    attempts,  \* login_attempts:account:<address>, 0 when absent
    network,   \* login_attempts:network:<identifier> of the one all come from
    request    \* [Request -> a request's local variables]

data == <<users, links>>
counters == <<attempts, network>>
vars == <<data, counters, request>>

Phases ==
    {"idle", "register.create", "login.network", "login.find", "login.rehash",
     "count.account", "count.network", "clear.account", "clear.network", "session",
     "social.email", "social.link", "social.create", "link.find", "link.add", "unlink",
     "update.write"}

\* user: the row as it was read, while it is needed.  overtaken, a history: the
\* row or the link the request decided on has changed since, or, of one that
\* unlinks, another request has taken a way in from the account.
Local == [phase: Phases, address: Address \cup {None}, password: Password \cup {None},
          identity: Identity \cup {None}, user: Row \cup {None}, overtaken: BOOLEAN]

Idle == [phase |-> "idle", address |-> None, password |-> None, identity |-> None,
         user |-> None, overtaken |-> FALSE]

Init ==
    /\ users = [a \in Address |-> None]
    /\ links = [s \in Identity |-> None]
    /\ attempts = [a \in Address |-> 0]
    /\ network = 0
    /\ request = [r \in Request |-> Idle]

-----------------------------------------------------------------------------
At(r, phase) == request[r].phase = phase

Begin(r, local) == At(r, "idle") /\ request' = [request EXCEPT ![r] = local]

Goto(r, phase) == request' = [request EXCEPT ![r].phase = phase]

\* With the row as it is now in hand.
Keep(r, phase) ==
    request' = [request EXCEPT ![r].phase = phase, ![r].user = users[request[r].address]]

Finish(r) == request' = [request EXCEPT ![r] = Idle]

\* The requests that have decided on the row of a.
Deciders(a) ==
    {r \in Request : /\ request[r].address = a
                     /\ request[r].phase \in {"login.rehash", "clear.account", "clear.network",
                                              "social.link", "session", "update.write"}}

\* Those that have found a way in that a would keep.
Unlinking(a) == {r \in Request : At(r, "unlink") /\ request[r].address = a}

Overtaken(Q) ==
    [q \in Request |-> [request[q] EXCEPT !.overtaken = @ \/ q \in Q]]

LinksOf(a) == {s \in Identity : links[s] = a}

Providers(S) == {ProviderOf[s] : s \in S}

-----------------------------------------------------------------------------
(* POST /users: looked up, hashed, inserted; the unique address decides.   *)
Register(r, a, p) ==
    /\ users[a] = None
    /\ Begin(r, [Idle EXCEPT !.phase = "register.create", !.address = a, !.password = p])
    /\ UNCHANGED <<data, counters>>

CreateUser(r) ==
    /\ At(r, "register.create")
    /\ users[request[r].address] = None
    /\ users' = [users EXCEPT ![request[r].address] =
                    [password |-> request[r].password, status |-> "unverified"]]
    /\ Finish(r)
    /\ UNCHANGED <<links, counters>>

-----------------------------------------------------------------------------
(* POST /auth/login: two counters are read, then the row, with which the   *)
(* password is compared; each counter is counted or deleted by its own call.*)

\* Mutant: the counter of the account is not looked at.
LoginUnchecked(r, a, p) ==
    /\ Begin(r, [Idle EXCEPT !.phase = "login.network", !.address = a, !.password = p])
    /\ UNCHANGED <<data, counters>>

Login(r, a, p) ==
    /\ attempts[a] < MaxAttempts
    /\ Begin(r, [Idle EXCEPT !.phase = "login.network", !.address = a, !.password = p])
    /\ UNCHANGED <<data, counters>>

CheckNetwork(r) ==
    /\ At(r, "login.network")
    /\ \/ network < MaxAttempts /\ Goto(r, "login.find")
       \/ network >= MaxAttempts /\ Finish(r)
    /\ UNCHANGED <<data, counters>>

\* The right password of an account that is not active is neither counted nor
\* cleared.
Welcomed(r, row) ==
    IF row.status = "active"
    THEN [request[r] EXCEPT !.phase = "clear.account", !.user = None]
    ELSE Idle

\* An unknown address and a wrong password are counted alike.
FindByEmail(r) ==
    /\ At(r, "login.find")
    /\ LET row == users[request[r].address]
           right == row # None /\ row.password = request[r].password
       IN  \/ ~right /\ Goto(r, "count.account")
           \/ right /\ request' = [request EXCEPT ![r] = Welcomed(r, row)]
           \/ right /\ Keep(r, "login.rehash")
    /\ UNCHANGED <<data, counters>>

\* update() of the repository: the password and the status go back with the
\* rest of the row, as they were read.
WriteBack(r, local) ==
    /\ users' = [users EXCEPT ![request[r].address] = request[r].user]
    /\ LET a == request[r].address
           changed == IF users' = users THEN {} ELSE Deciders(a)
           robbed == IF request[r].user.password = None /\ users[a].password # None
                     THEN Unlinking(a) ELSE {}
       IN  request' = [Overtaken(changed \cup robbed) EXCEPT ![r] = local]
    /\ UNCHANGED <<links, counters>>

\* A hash of the old kind is replaced.
Rehash(r) ==
    /\ At(r, "login.rehash")
    /\ WriteBack(r, Welcomed(r, request[r].user))

\* recordFailedAttempt.
CountAccount(r) ==
    /\ At(r, "count.account")
    /\ attempts' = [attempts EXCEPT ![request[r].address] = @ + 1]
    /\ Goto(r, "count.network")
    /\ UNCHANGED <<data, network>>

CountNetwork(r) ==
    /\ At(r, "count.network")
    /\ network' = network + 1
    /\ Finish(r)
    /\ UNCHANGED <<data, attempts>>

ClearAccount(r) ==
    /\ At(r, "clear.account")
    /\ attempts' = [attempts EXCEPT ![request[r].address] = 0]
    /\ Goto(r, "clear.network")
    /\ UNCHANGED <<data, network>>

ClearNetwork(r) ==
    /\ At(r, "clear.network")
    /\ network' = 0
    /\ Goto(r, "session")
    /\ UNCHANGED <<data, attempts>>

\* The session, or the challenge of the second factor, is created.
OpenSession(r) ==
    /\ At(r, "session")
    /\ Finish(r)
    /\ UNCHANGED <<data, counters>>

-----------------------------------------------------------------------------
(* POST /auth/login/social, with an identity and the address the provider  *)
(* has for it: the identity, then the address is looked up; an account that*)
(* only the address finds is linked, for none one is created.              *)
Social(r, s, a) ==
    /\ IF links[s] = None
       THEN Begin(r, [Idle EXCEPT !.phase = "social.email", !.address = a, !.identity = s])
       ELSE /\ users[links[s]].status # "inactive"
            /\ Begin(r, [Idle EXCEPT !.phase = "session", !.address = links[s], !.identity = s])
    /\ UNCHANGED <<data, counters>>

SocialFindByEmail(r) ==
    /\ At(r, "social.email")
    /\ IF users[request[r].address] = None
       THEN Goto(r, "social.create")
       ELSE Keep(r, "social.link")
    /\ UNCHANGED <<data, counters>>

\* Mutant: a link that exists already is left alone and no error raised.
InsertOrIgnore(r) ==
    links' = [links EXCEPT ![request[r].identity] = IF @ = None THEN request[r].address ELSE @]

\* The insert fails where the identity is linked, to whichever account.
AddLink(r) ==
    /\ links[request[r].identity] = None
    /\ links' = [links EXCEPT ![request[r].identity] = request[r].address]

\* addSocialAccount; only then is the status looked at, as it was read.
SocialAddAccount(r) ==
    /\ At(r, "social.link")
    /\ AddLink(r)
    /\ IF request[r].user.status = "inactive"
       THEN Finish(r)
       ELSE request' = [request EXCEPT ![r].phase = "session", ![r].user = None]
    /\ UNCHANGED <<users, counters>>

\* Mutant: the link is inserted first, the account by a call of its own.
LinkThenCreate(r) ==
    /\ At(r, "social.create")
    /\ users[request[r].address] = None
    /\ AddLink(r)
    /\ Goto(r, "register.create")
    /\ UNCHANGED <<users, counters>>

\* One insert of the account and its link.
SocialCreate(r) ==
    /\ At(r, "social.create")
    /\ users[request[r].address] = None
    /\ AddLink(r)
    /\ users' = [users EXCEPT ![request[r].address] = [password |-> None, status |-> "active"]]
    /\ Goto(r, "session")
    /\ UNCHANGED counters

-----------------------------------------------------------------------------
(* POST and DELETE /users/me/social.                                       *)
Link(r, a, s) ==
    /\ users[a] # None
    /\ ProviderOf[s] \notin Providers(LinksOf(a))
    /\ Begin(r, [Idle EXCEPT !.phase = "link.find", !.address = a, !.identity = s])
    /\ UNCHANGED <<data, counters>>

LinkFindByProvider(r) ==
    /\ At(r, "link.find")
    /\ IF links[request[r].identity] \in {None, request[r].address}
       THEN Goto(r, "link.add")
       ELSE Finish(r)
    /\ UNCHANGED <<data, counters>>

LinkAddAccount(r) ==
    /\ At(r, "link.add")
    /\ AddLink(r)
    /\ Finish(r)
    /\ UNCHANGED <<users, counters>>

\* Mutant: the provider to be removed counts as a method that is left.
HasAnyMethod(a, v) == users[a].password # None \/ LinksOf(a) # {}

HasOtherAuthMethod(a, v) == users[a].password # None \/ Providers(LinksOf(a)) \ {v} # {}

Unlink(r, a, s) ==
    /\ links[s] = a
    /\ HasOtherAuthMethod(a, ProviderOf[s])
    /\ Begin(r, [Idle EXCEPT !.phase = "unlink", !.address = a, !.identity = s])
    /\ UNCHANGED <<data, counters>>

\* Every link of the account to the provider goes.
RemoveSocialAccount(r) ==
    /\ At(r, "unlink")
    /\ LET a == request[r].address
           gone == {s \in LinksOf(a) : ProviderOf[s] = ProviderOf[request[r].identity]}
           robbed == IF gone = {} THEN {} ELSE Unlinking(a)
       IN  /\ links' = [s \in Identity |-> IF s \in gone THEN None ELSE links[s]]
           /\ request' = [Overtaken({q \in Deciders(a) : request[q].identity \in gone} \cup robbed)
                              EXCEPT ![r] = Idle]
    /\ UNCHANGED <<users, counters>>

-----------------------------------------------------------------------------
(* PUT /users/:id and the avatar, none of which is about the password or   *)
(* the status: the row is read, and written back whole some calls later.   *)
UpdateUser(r, a) ==
    /\ users[a] # None
    /\ Begin(r, [Idle EXCEPT !.phase = "update.write", !.address = a, !.user = users[a]])
    /\ UNCHANGED <<data, counters>>

WriteUser(r) ==
    /\ At(r, "update.write")
    /\ WriteBack(r, Idle)

-----------------------------------------------------------------------------
(* What the other use cases do to an account, the expiry of the counters,  *)
(* and failure.                                                            *)
ChangeRow(a, row) ==
    /\ users' = [users EXCEPT ![a] = row]
    /\ request' = Overtaken(Deciders(a))
    /\ UNCHANGED <<links, counters>>

\* Changed, or reset by e-mail, which gives a password to who has none.
SetPassword(a, p) ==
    /\ users[a] # None
    /\ users[a].password # p
    /\ ChangeRow(a, [users[a] EXCEPT !.password = p])

VerifyEmail(a) ==
    /\ users[a] # None
    /\ users[a].status = "unverified"
    /\ ChangeRow(a, [users[a] EXCEPT !.status = "active"])

DeactivateUser(a) ==
    /\ users[a] # None
    /\ users[a].status # "inactive"
    /\ ChangeRow(a, [users[a] EXCEPT !.status = "inactive"])

AttemptsExpire(a) ==
    /\ attempts[a] > 0
    /\ attempts' = [attempts EXCEPT ![a] = 0]
    /\ UNCHANGED <<data, network, request>>

NetworkExpires ==
    /\ network > 0
    /\ network' = 0
    /\ UNCHANGED <<data, attempts, request>>

\* A unique index refuses the row, the database or Redis fails, or the process
\* stops.
Fail(r) ==
    /\ ~At(r, "idle")
    /\ Finish(r)
    /\ UNCHANGED <<data, counters>>

-----------------------------------------------------------------------------
Step(r) ==
    \/ CreateUser(r)
    \/ CheckNetwork(r) \/ FindByEmail(r) \/ Rehash(r)
    \/ CountAccount(r) \/ CountNetwork(r) \/ ClearAccount(r) \/ ClearNetwork(r)
    \/ OpenSession(r)
    \/ SocialFindByEmail(r) \/ SocialAddAccount(r) \/ SocialCreate(r)
    \/ LinkFindByProvider(r) \/ LinkAddAccount(r) \/ RemoveSocialAccount(r)
    \/ WriteUser(r)
    \/ Fail(r)

Arrival(r) ==
    \/ \E a \in PasswordAddress, p \in Password : Register(r, a, p) \/ Login(r, a, p)
    \/ \E a \in Address, s \in Identity : Social(r, s, a) \/ Link(r, a, s) \/ Unlink(r, a, s)
    \/ \E a \in Address : UpdateUser(r, a)

Elsewhere ==
    \/ \E a \in Address : VerifyEmail(a) \/ DeactivateUser(a) \/ AttemptsExpire(a)
    \/ \E a \in PasswordAddress, p \in Password : SetPassword(a, p)
    \/ NetworkExpires

Next == (\E r \in Request : Arrival(r) \/ Step(r)) \/ Elsewhere

Spec == Init /\ [][Next]_vars

-----------------------------------------------------------------------------
\* Rows, counters and requests are well formed, and a link leads to an account.
TypeOK ==
    /\ users \in [Address -> Row \cup {None}]
    /\ links \in [Identity -> Address \cup {None}]
    /\ \A s \in Identity : links[s] # None => users[links[s]] # None
    /\ attempts \in [Address -> Nat]
    /\ network \in Nat
    /\ request \in [Request -> Local]

Counting(phases) == {r \in Request : request[r].phase \in phases}

\* The counters are read before and counted after a password is compared, each
\* by a call of its own: requests in flight together overrun the limit, of an
\* account as of a network, by less than their number.
GuessesBounded ==
    /\ \A a \in Address :
          attempts[a] + Cardinality({r \in Counting({"count.account"}) : request[r].address = a})
             < MaxAttempts + Cardinality(Request)
    /\ network + Cardinality(Counting({"count.account", "count.network"}))
          < MaxAttempts + Cardinality(Request)

\* A session is opened for the account whose password was given, or whose link
\* the identity has, and which is active; where that has changed since it was
\* read, the request was overtaken (authenticate-user 121-223).
SessionMatchesCredential ==
    \A r \in Request : At(r, "session") /\ ~request[r].overtaken =>
        LET x == request[r]
        IN  /\ users[x.address].status # "inactive"
            /\ x.password # None => users[x.address].password = x.password
                                    /\ users[x.address].status = "active"
            /\ x.identity # None => links[x.identity] = x.address

HasMethod(a) == users[a] # None => users[a].password # None \/ LinksOf(a) # {}

\* The last way in to an account is taken by nothing but a request that has been
\* overtaken: an unlinking that another request took a way in from under, or a
\* whole-row write that puts back a row without the password set meanwhile
\* (user.entity 266-282, unlink-social-account 37-43, prisma-user 89-92).
AuthMethodKept ==
    [][\A a \in Address : HasMethod(a) /\ ~HasMethod(a)' =>
          \E r \in Request :
              /\ request[r].phase \in {"unlink", "update.write"}
              /\ request[r].address = a /\ request[r].overtaken
              /\ request'[r] = Idle]_vars
=============================================================================
