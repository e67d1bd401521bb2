--------------------------- MODULE SessionsProofs ---------------------------
(***************************************************************************)
(* Theorems of Sessions: type correctness and the safety properties of     *)
(* rotation and revocation, for any numbers of accounts, families, tokens  *)
(* and concurrent requests.  IndInv is inductive: every action             *)
(*   - keeps the rows well formed and never un-revokes one (RowsStep), and *)
(*   - leaves the acting request at a label its locals fit (RequestStep);  *)
(* the requests that did not act are unaffected by such row changes        *)
(* (OthersKept).                                                           *)
(***************************************************************************)
EXTENDS Sessions, TLAPS

Outs == {None, "issued", "admitted", "refused", "reused", "ok"}

\* What no step does to the rows: un-revoke or delete a session, move a token to
\* another family, consume the token a rotation of another request holds.  A
\* token comes into use only in the family of the request in R that inserts it.
RowsKept(R) ==
    /\ \A f \in Family : sessions[f].user # None =>
          /\ sessions'[f].user # None
          /\ sessions[f].revoked => sessions'[f].revoked
          /\ sessions[f].expired => sessions'[f].expired
    /\ \A t \in Token : tokens[t].family # None => tokens'[t].family = tokens[t].family
    /\ \A t \in Token : tokens[t].family = None /\ tokens'[t].family # None =>
          \E r \in R : /\ pc[r] \in {"createToken", "commitRotation"}
                       /\ tokens'[t].family = ctx[r].family
    /\ \A q \in Request \ R :
          pc[q] = "commitRotation" => tokens'[ctx[q].token].state = "live"

RowsType ==
    /\ users \in [User -> UserRow]
    /\ sessions \in [Family -> SessionRow]
    /\ tokens \in [Token -> TokenRow]
    /\ blocklist \subseteq Token

RowsStep(R) == RowsType' /\ TokensHaveSession' /\ SingleLiveToken' /\ RowsKept(R)

\* Request r goes to label l with locals x.
Moves(r, l, x) ==
    /\ pc' = [pc EXCEPT ![r] = l]
    /\ ctx' = [ctx EXCEPT ![r] = x]

RequestStep(r) ==
    \E l \in Labels, x \in Locals :
        /\ Moves(r, l, x)
        /\ RequestOK(l, x)'
        /\ \A q \in Request \ {r} : Apart(l, x, pc[q], ctx[q]) /\ Apart(pc[q], ctx[q], l, x)

-----------------------------------------------------------------------------
(* The records.                                                            *)

LEMMA LocalsFields ==
  ASSUME NEW x \in Locals
  PROVE  /\ \A out \in Outs : Answered(x, out) \in Locals
         /\ \A f \in Family : [x EXCEPT !.family = f] \in Locals
         /\ [x EXCEPT !.second = TRUE] \in Locals
         /\ \A S \in SUBSET Token : [x EXCEPT !.deadTokens = S] \in Locals
         /\ \A F \in SUBSET Family, S \in SUBSET Token :
              [x EXCEPT !.deadFamilies = F, !.deadTokens = S] \in Locals
  BY DEF Locals, Outs, Answered

LEMMA LocalsStart ==
  /\ NoLocals \in Locals
  /\ \A op \in Operations, u \in User, row \in UserRow, b \in BOOLEAN :
       [NoLocals EXCEPT !.op = op, !.user = u, !.row = row, !.due = b] \in Locals
  /\ \A op \in Operations, u \in User, row \in UserRow :
       [NoLocals EXCEPT !.op = op, !.user = u, !.row = row] \in Locals
  /\ \A op \in Operations, t \in Token, f \in Family :
       [NoLocals EXCEPT !.op = op, !.token = t, !.family = f] \in Locals
  /\ \A op \in Operations, t \in Token, f \in Family, u \in User \cup {None}, b \in BOOLEAN :
       [NoLocals EXCEPT !.op = op, !.token = t, !.family = f, !.user = u, !.doomed = b]
         \in Locals
  BY DEF Locals, NoLocals

LEMMA ReadRowType ==
  ASSUME users \in [User -> UserRow], NEW u \in User
  PROVE  ReadRow(u) \in UserRow
  BY SessionsAssumption DEF ReadRow, UserRow

LEMMA RevokedType ==
  ASSUME tokens \in [Token -> TokenRow], NEW S
  PROVE  /\ Revoked(S) \in [Token -> TokenRow]
         /\ \A t \in Token :
              /\ Revoked(S)[t].family = tokens[t].family
              /\ Revoked(S)[t].state =
                   IF t \in S /\ tokens[t].state = "live" THEN "revoked" ELSE tokens[t].state
  BY DEF Revoked, TokenRow

LEMMA NewTokenRow ==
  ASSUME sessions \in [Family -> SessionRow], NEW f \in Family
  PROVE  /\ NewToken(f) \in TokenRow
         /\ NewToken(f).family = f /\ NewToken(f).state = "live"
         /\ NewToken(f).late = Dead(f)
<1>1. Dead(f) \in BOOLEAN
  BY DEF Dead, SessionRow
<1>2. PICK late \in BOOLEAN : late = Dead(f)
  BY <1>1
<1>3. NewToken(f) = [family |-> f, state |-> "live", expired |-> FALSE, late |-> late]
  BY <1>2 DEF NewToken
<1> QED
  BY <1>2, <1>3 DEF TokenRow

LEMMA SessionsRevokedType ==
  ASSUME sessions \in [Family -> SessionRow], NEW F
  PROVE  /\ SessionsRevoked(F) \in [Family -> SessionRow]
         /\ \A f \in Family :
              /\ SessionsRevoked(F)[f].user = sessions[f].user
              /\ SessionsRevoked(F)[f].expired = sessions[f].expired
              /\ f \in F => SessionsRevoked(F)[f].revoked
              /\ sessions[f].revoked => SessionsRevoked(F)[f].revoked
  BY DEF SessionsRevoked, SessionRow

LEMMA RowFields ==
  ASSUME RowsType
  PROVE  /\ \A f \in Family : /\ sessions[f].user \in User \cup {None}
                              /\ sessions[f].revoked \in BOOLEAN
                              /\ sessions[f].expired \in BOOLEAN
         /\ \A t \in Token : /\ tokens[t].family \in Family \cup {None}
                             /\ tokens[t].state \in {"unused", "live", "revoked"}
         /\ \A u \in User : users[u].mfa \in BOOLEAN
  BY DEF RowsType, SessionRow, TokenRow, UserRow

LEMMA StateFacts ==
  ASSUME IndInv
  PROVE  /\ RowsType
         /\ users \in [User -> UserRow]
         /\ sessions \in [Family -> SessionRow]
         /\ tokens \in [Token -> TokenRow]
         /\ blocklist \subseteq Token
         /\ pc \in [Request -> Labels]
         /\ ctx \in [Request -> Locals]
         /\ TokensHaveSession /\ SingleLiveToken /\ RequestsApart
         /\ \A r \in Request : ctx[r] \in Locals /\ RequestOK(pc[r], ctx[r])
         /\ \A t \in Token : tokens[t].state # "unused" => tokens[t].family \in Family
<1>1. RowsType
  BY DEF IndInv, TypeOK, RowsType
<1>2. \A t \in Token : tokens[t].state # "unused" => tokens[t].family \in Family
  BY <1>1, RowFields DEF IndInv, TokensHaveSession
<1> QED
  BY <1>1, <1>2 DEF IndInv, TypeOK

-----------------------------------------------------------------------------
(* The requests that do not act, and the assembly.                         *)

\* The conditions on a request that did not act survive the step's row changes.
LEMMA OthersKept ==
  ASSUME IndInv, NEW R \in SUBSET Request, RowsKept(R), NEW q \in Request \ R,
         NEW l, NEW x, l = pc[q], x = ctx[q]
  PROVE  RequestOK(l, x)'
<1>1. LocalsSet(l, x) /\ OpeningFresh(l, x) /\ RotationKnows(l, x)
      /\ DoomedStaysOut(l, x)
  BY StateFacts DEF RequestOK
<1>2. LocalsSet(l, x)'
  BY <1>1 DEF LocalsSet, UserRow
<1>3. OpeningFresh(l, x)'
  <2> SUFFICES ASSUME l = "createToken"
               PROVE  /\ sessions'[x.family].user # None
                      /\ \A t \in Token : tokens'[t].family # x.family
    BY DEF OpeningFresh
  <2>1. x.family \in Family /\ sessions[x.family].user # None
        /\ \A t \in Token : tokens[t].family # x.family
    BY <1>1 DEF OpeningFresh, LocalsSet, WithFamily
  <2>2. \A r \in R : pc[r] = "createToken" => ctx[r].family # x.family
    BY StateFacts DEF RequestsApart, Apart
  <2>3. \A r \in R : pc[r] = "commitRotation" =>
          ctx[r].token \in Token /\ tokens[ctx[r].token].family = ctx[r].family
    BY StateFacts DEF RequestOK, RotationKnows, LocalsSet, WithToken, Rotating
  <2>4. None # x.family
    BY <2>1, SessionsAssumption
  <2> QED
    BY <2>1, <2>2, <2>3, <2>4 DEF RowsKept
<1>4. RotationKnows(l, x)'
  <2>1. l \in Rotating => x.token \in Token /\ x.family \in Family
    BY <1>1 DEF LocalsSet, WithToken, WithFamily
  <2>2. l \in Reusing => x.family \in Family
    BY <1>1 DEF LocalsSet, WithFamily
  <2>3. None \notin Family
    BY SessionsAssumption
  <2> QED
    BY <1>1, <2>1, <2>2, <2>3 DEF RotationKnows, RowsKept, Rotating
<1>5. DoomedStaysOut(l, x)'
  BY <1>1 DEF DoomedStaysOut, RowsKept, Dead
<1> QED
  BY <1>2, <1>3, <1>4, <1>5 DEF RequestOK

\* A step of request r that does both keeps the invariant.
LEMMA StepKeeps ==
  ASSUME IndInv, NEW r \in Request, RowsStep({r}), RequestStep(r)
  PROVE  IndInv'
<1>1. PICK l \in Labels, x \in Locals :
        /\ Moves(r, l, x)
        /\ RequestOK(l, x)'
        /\ \A q \in Request \ {r} : Apart(l, x, pc[q], ctx[q]) /\ Apart(pc[q], ctx[q], l, x)
  BY DEF RequestStep
<1>2. /\ pc' \in [Request -> Labels]
      /\ ctx' \in [Request -> Locals]
      /\ pc'[r] = l /\ ctx'[r] = x
      /\ \A q \in Request \ {r} : pc'[q] = pc[q] /\ ctx'[q] = ctx[q]
  BY <1>1, StateFacts DEF Moves
<1>3. TypeOK'
  BY <1>2 DEF TypeOK, RowsStep, RowsType
<1>4. \A q \in Request : RequestOK(pc[q], ctx[q])'
  <2>1. ASSUME NEW q \in Request \ {r}, NEW m, NEW y, m = pc[q], y = ctx[q]
        PROVE  RequestOK(m, y)'
    BY <2>1, OthersKept DEF RowsStep
  <2>2. ASSUME NEW q \in Request, NEW m, NEW y, m = pc'[q], y = ctx'[q]
        PROVE  RequestOK(m, y)'
    BY <1>1, <1>2, <2>1, <2>2
  <2> QED
    BY <2>2
<1>5. RequestsApart'
  BY <1>1, <1>2, StateFacts DEF RequestsApart
<1> QED
  BY <1>3, <1>4, <1>5 DEF IndInv, RowsStep

\* So does a step of the clock, which moves no request.
LEMMA ClockKeeps ==
  ASSUME IndInv, RowsStep({}), UNCHANGED <<pc, ctx>>
  PROVE  IndInv'
<1>1. TypeOK'
  BY StateFacts DEF TypeOK, RowsStep, RowsType
<1>2. ASSUME NEW q \in Request
      PROVE  RequestOK(pc[q], ctx[q])'
  <2>1. ASSUME NEW m, NEW y, m = pc[q], y = ctx[q]
        PROVE  RequestOK(m, y)'
    BY <2>1, OthersKept DEF RowsStep
  <2> QED
    BY <2>1
<1>3. RequestsApart'
  BY StateFacts DEF RequestsApart
<1> QED
  BY <1>1, <1>2, <1>3 DEF IndInv, RowsStep

-----------------------------------------------------------------------------
(* The rows.                                                               *)

LEMMA SameRows ==
  ASSUME IndInv, NEW r \in Request, UNCHANGED <<dbVars, blocklist>>
  PROVE  RowsStep({r}) /\ RowsKept({r})
<1>1. users' = users /\ sessions' = sessions /\ tokens' = tokens /\ blocklist' = blocklist
  BY DEF dbVars
<1>2. RowsType' /\ TokensHaveSession' /\ SingleLiveToken'
  BY <1>1, StateFacts DEF RowsType, TokensHaveSession, SingleLiveToken
<1>3. \A q \in Request : pc[q] = "commitRotation" => tokens[ctx[q].token].state = "live"
  BY StateFacts DEF RequestOK, RotationKnows
<1> QED
  BY <1>1, <1>2, <1>3 DEF RowsStep, RowsKept

\* The revoking statements, applied to tokens no rotation holds.
LEMMA RevokeRows ==
  ASSUME IndInv, NEW r \in Request, NEW S,
         tokens' = Revoked(S), \A t \in S : ~TokenLocked(t),
         users' \in [User -> UserRow], blocklist' \subseteq Token,
         \/ sessions' = sessions
         \/ \E F : sessions' = SessionsRevoked(F)
  PROVE  RowsStep({r}) /\ RowsKept({r})
<1>1. /\ sessions' \in [Family -> SessionRow]
      /\ \A f \in Family : /\ sessions'[f].user = sessions[f].user
                           /\ sessions'[f].expired = sessions[f].expired
                           /\ sessions[f].revoked => sessions'[f].revoked
  <2>1. CASE sessions' = sessions
    BY <2>1, StateFacts
  <2>2. CASE \E F : sessions' = SessionsRevoked(F)
    <3>1. PICK F : sessions' = SessionsRevoked(F)
      BY <2>2
    <3> QED
      BY <3>1, StateFacts, SessionsRevokedType
  <2> QED
    BY <2>1, <2>2
<1>2. /\ tokens' \in [Token -> TokenRow]
      /\ \A t \in Token :
            /\ tokens'[t].family = tokens[t].family
            /\ tokens'[t].state = IF t \in S /\ tokens[t].state = "live"
                                  THEN "revoked" ELSE tokens[t].state
  BY StateFacts, RevokedType
<1>3. RowsType'
  BY <1>1, <1>2 DEF RowsType
<1>4. TokensHaveSession'
  <2>1. \A t \in Token : tokens[t].family # None => tokens[t].family \in Family
    BY StateFacts, RowFields
  <2>2. TokensHaveSession
    BY StateFacts
  <2>3. \A t \in Token : tokens'[t].state = "unused" <=> tokens[t].state = "unused"
    BY <1>2
  <2> QED
    BY <1>1, <1>2, <2>1, <2>2, <2>3 DEF TokensHaveSession
<1>5. SingleLiveToken'
  BY <1>2, StateFacts DEF SingleLiveToken
<1>6. RowsKept({r})
  <2>1. \A q \in Request : pc[q] = "commitRotation" =>
          /\ tokens[ctx[q].token].state = "live"
          /\ ctx[q].token \in Token
          /\ ctx[q].token \notin S
    BY StateFacts DEF RequestOK, RotationKnows, LocalsSet, WithToken, Rotating, TokenLocked
  <2>2. \A q \in Request : pc[q] = "commitRotation" => tokens'[ctx[q].token].state = "live"
    BY <1>2, <2>1
  <2> QED
    BY <1>1, <1>2, <2>2 DEF RowsKept
<1> QED
  BY <1>3, <1>4, <1>5, <1>6 DEF RowsStep

-----------------------------------------------------------------------------
(* The acting request.                                                     *)

\* It goes on to a label that asks no more of its locals than this one.
LEMMA MoveStep ==
  ASSUME IndInv, NEW r \in Request, RowsKept({r}),
         NEW l \in Labels \ {"createToken", "commitRotation"}, NEW x \in Locals,
         Moves(r, l, x), LocalsSet(l, x),
         x.family = ctx[r].family, x.token = ctx[r].token,
         x.doomed = ctx[r].doomed, x.out = ctx[r].out,
         l \in Rotating => pc[r] \in Rotating,
         l \in Reusing => pc[r] \in Rotating \cup Reusing,
         l \in Opening => pc[r] \in Opening,
         l = "rotate" => ~ctx[r].doomed
  PROVE  RequestStep(r)
<1> DEFINE m == pc[r]  y == ctx[r]
<1>1. RequestOK(m, y)
  BY StateFacts
<1>2. OpeningFresh(l, x)'
  BY DEF OpeningFresh
<1>3. RotationKnows(l, x)'
  <2>1. m \in Rotating \cup Reusing => x.family \in Family /\ sessions[x.family].user # None
    BY <1>1 DEF RequestOK, LocalsSet, WithFamily, RotationKnows
  <2>2. m \in Rotating => x.token \in Token /\ tokens[x.token].family = x.family
    BY <1>1 DEF RequestOK, LocalsSet, WithToken, RotationKnows
  <2>3. None \notin Family
    BY SessionsAssumption
  <2> QED
    BY <2>1, <2>2, <2>3 DEF RotationKnows, RowsKept
<1>4. DoomedStaysOut(l, x)'
  <2>1. x.doomed => /\ x.family \in Family /\ Dead(x.family)
                    /\ m \notin Opening /\ x.out \notin {"issued", "admitted"}
    BY <1>1 DEF RequestOK, DoomedStaysOut
  <2>2. x.family \in Family /\ Dead(x.family) => Dead(x.family)'
    BY DEF Dead, RowsKept
  <2>3. x.doomed => l \notin Opening \cup {"createToken", "rotate", "commitRotation"}
    BY <2>1
  <2> QED
    BY <2>1, <2>2, <2>3 DEF DoomedStaysOut
<1>5. LocalsSet(l, x)'
  BY DEF LocalsSet, UserRow
<1> QED
  BY <1>2, <1>3, <1>4, <1>5 DEF RequestStep, RequestOK, Apart

\* It goes on without touching its locals.
LEMMA GotoStep ==
  ASSUME IndInv, NEW r \in Request, RowsKept({r}),
         NEW l \in Labels \ {"createToken", "commitRotation"},
         Goto(r, l), UNCHANGED ctx, LocalsSet(l, ctx[r]),
         l \in Rotating => pc[r] \in Rotating,
         l \in Reusing => pc[r] \in Rotating \cup Reusing,
         l \in Opening => pc[r] \in Opening,
         l = "rotate" => ~ctx[r].doomed
  PROVE  RequestStep(r)
<1>1. ctx[r] \in Locals /\ ctx' = [ctx EXCEPT ![r] = ctx[r]]
  BY StateFacts
<1>2. Moves(r, l, ctx[r])
  BY <1>1 DEF Moves, Goto
<1> QED
  BY <1>1, <1>2, MoveStep

\* It is answered.
LEMMA FinishStep ==
  ASSUME IndInv, NEW r \in Request, RowsKept({r}), NEW out \in Outs, Finish(r, out),
         out \in {"issued", "admitted"} => ~ctx[r].doomed
  PROVE  RequestStep(r)
<1>0. PICK m, y : m = pc[r] /\ y = ctx[r]
  OBVIOUS
<1> DEFINE x == Answered(y, out)
<1>1. y \in Locals /\ x \in Locals
  BY <1>0, StateFacts, LocalsFields
<1>2. x.family = y.family /\ x.doomed = y.doomed /\ x.out = out
  BY <1>1 DEF Locals, Answered
<1>3. Moves(r, "done", x)
  BY <1>0 DEF Finish, Goto, Moves
<1>4. LocalsSet("done", x)' /\ OpeningFresh("done", x)' /\ RotationKnows("done", x)'
  BY DEF LocalsSet, OpeningFresh, RotationKnows, Opening, Accounting, WithFamily, WithToken,
         Rotating, Reusing
<1>5. DoomedStaysOut("done", x)'
  <2>1. RequestOK(m, y)
    BY <1>0, StateFacts
  <2>2. y.doomed => y.family \in Family /\ Dead(y.family)
    BY <2>1 DEF RequestOK, DoomedStaysOut
  <2>3. y.family \in Family /\ Dead(y.family) => Dead(y.family)'
    BY DEF Dead, RowsKept
  <2> QED
    BY <1>0, <1>2, <2>2, <2>3 DEF DoomedStaysOut, Opening, Dead
<1>6. "done" \in Labels
  BY DEF Labels
<1> QED
  BY <1>1, <1>3, <1>4, <1>5, <1>6 DEF RequestStep, RequestOK, Apart

\* It arrives and has read some rows.
LEMMA StartStep ==
  ASSUME IndInv, NEW r \in Request, UNCHANGED <<dbVars, blocklist>>,
         NEW l \in Labels \ {"createToken", "commitRotation", "createSession", "rotate"},
         NEW x \in Locals, Moves(r, l, x),
         LocalsSet(l, x), RotationKnows(l, x), x.out \in {None, "refused"},
         x.doomed => x.family \in Family /\ Dead(x.family) /\ l \notin Opening
  PROVE  IndInv'
<1>1. UNCHANGED <<sessions, tokens>>
  BY DEF dbVars
<1>2. x.out \notin {"issued", "admitted"}
  BY SessionsAssumption
<1>3. LocalsSet(l, x)' /\ OpeningFresh(l, x)'
  BY DEF LocalsSet, OpeningFresh, UserRow
<1>4. RotationKnows(l, x)'
  BY <1>1 DEF RotationKnows
<1>5. DoomedStaysOut(l, x)'
  BY <1>1, <1>2 DEF DoomedStaysOut, Dead
<1>6. RequestStep(r)
  BY <1>3, <1>4, <1>5 DEF RequestStep, RequestOK, Apart
<1> QED
  BY <1>6, SameRows, StepKeeps

-----------------------------------------------------------------------------
(* The actions.                                                            *)

LEMMA LoginReadKeeps ==
  ASSUME IndInv, NEW r \in Request, LoginRead(r)
  PROVE  IndInv'
<1>1. PICK u \in User : LoginRead(r)!2!(u)
  BY DEF LoginRead
<1>2. PICK row \in UserRow, due \in BOOLEAN, l \in {"rehash", "checks"} :
        /\ row = ReadRow(u)
        /\ ctx' = [ctx EXCEPT ![r] = [NoLocals EXCEPT !.op = "login", !.user = u,
                                                      !.row = row, !.due = due]]
        /\ Goto(r, l)
  BY <1>1, StateFacts, RowFields, ReadRowType
<1> DEFINE x == [NoLocals EXCEPT !.op = "login", !.user = u, !.row = row, !.due = due]
<1>3. x \in Locals
  BY LocalsStart DEF Operations
<1>4. x.user = u /\ x.row = row /\ x.out = None /\ ~x.doomed
  BY DEF NoLocals
<1>5. l \in Labels /\ LocalsSet(l, x) /\ RotationKnows(l, x)
  BY <1>4 DEF Labels, LocalsSet, RotationKnows, WithFamily, WithToken, Rotating, Reusing
<1>6. UNCHANGED <<dbVars, blocklist>>
  BY DEF LoginRead
<1>7. Moves(r, l, x)
  BY <1>2 DEF Moves, Goto
<1> QED
  BY <1>3, <1>4, <1>5, <1>6, <1>7, StartStep

LEMMA SocialReadKeeps ==
  ASSUME IndInv, NEW r \in Request, SocialRead(r)
  PROVE  IndInv'
<1>1. PICK u \in User, row \in UserRow, due \in BOOLEAN :
        ctx' = [ctx EXCEPT ![r] = [NoLocals EXCEPT !.op = "social", !.user = u,
                                                   !.row = row, !.due = due]]
  BY StateFacts, RowFields, ReadRowType DEF SocialRead
<1> DEFINE x == [NoLocals EXCEPT !.op = "social", !.user = u, !.row = row, !.due = due]
<1>2. x \in Locals
  BY LocalsStart DEF Operations
<1>3. x.user = u /\ x.row = row /\ x.out = None /\ ~x.doomed
  BY DEF NoLocals
<1>4. LocalsSet("checks", x) /\ RotationKnows("checks", x)
  BY <1>3 DEF LocalsSet, RotationKnows, WithFamily, WithToken, Rotating, Reusing
<1>5. Moves(r, "checks", x) /\ UNCHANGED <<dbVars, blocklist>>
  BY <1>1 DEF SocialRead, Moves, Goto
<1> QED
  BY <1>2, <1>3, <1>4, <1>5, StartStep DEF Labels

LEMMA AccountReadKeeps ==
  ASSUME IndInv, NEW r \in Request, AccountRead(r)
  PROVE  IndInv'
<1>1. PICK op \in Operations, u \in User, row \in UserRow :
        ctx' = [ctx EXCEPT ![r] = [NoLocals EXCEPT !.op = op, !.user = u, !.row = row]]
  BY StateFacts, ReadRowType DEF AccountRead, AccountOperation, Operations
<1> DEFINE x == [NoLocals EXCEPT !.op = op, !.user = u, !.row = row]
<1>2. x \in Locals
  BY LocalsStart
<1>3. x.user = u /\ x.row = row /\ x.out = None /\ ~x.doomed
  BY DEF NoLocals
<1>4. LocalsSet("accountTx", x) /\ RotationKnows("accountTx", x)
  BY <1>3 DEF LocalsSet, RotationKnows, WithFamily, WithToken, Rotating, Reusing
<1>5. Moves(r, "accountTx", x) /\ UNCHANGED <<dbVars, blocklist>>
  BY <1>1 DEF AccountRead, Moves, Goto
<1> QED
  BY <1>2, <1>3, <1>4, <1>5, StartStep DEF Labels, Opening

LEMMA RevokeSessionStartKeeps ==
  ASSUME IndInv, NEW r \in Request, RevokeSessionStart(r)
  PROVE  IndInv'
<1>1. PICK op \in Operations, t \in Token, f \in Family :
        ctx' = [ctx EXCEPT ![r] = [NoLocals EXCEPT !.op = op, !.token = t, !.family = f]]
  BY StateFacts DEF RevokeSessionStart, Operations
<1> DEFINE x == [NoLocals EXCEPT !.op = op, !.token = t, !.family = f]
<1>2. x \in Locals
  BY LocalsStart
<1>3. x.token = t /\ x.family = f /\ x.out = None /\ ~x.doomed
  BY DEF NoLocals
<1>4. LocalsSet("revokeTx", x) /\ RotationKnows("revokeTx", x)
  BY <1>3 DEF LocalsSet, RotationKnows, Opening, Accounting, Rotating, Reusing
<1>5. Moves(r, "revokeTx", x) /\ UNCHANGED <<dbVars, blocklist>>
  BY <1>1 DEF RevokeSessionStart, Moves, Goto
<1> QED
  BY <1>2, <1>3, <1>4, <1>5, StartStep DEF Labels, Opening

\* What a refresh or a validation knows of its token.
LEMMA KnownToken ==
  ASSUME IndInv, NEW op \in Operations, NEW t \in Token, tokens[t].state # "unused",
         NEW y \in {Known(op, t), Answered(Known(op, t), "refused")},
         NEW l \in {"loadUser", "reuseFamily", "validateUser", "done"}
  PROVE  /\ y \in Locals /\ y.out \in {None, "refused"}
         /\ y.doomed => y.family \in Family /\ Dead(y.family)
         /\ l \in Labels /\ LocalsSet(l, y) /\ RotationKnows(l, y)
<1> DEFINE f == tokens[t].family
<1>1. f \in Family /\ sessions[f].user # None
  BY StateFacts, SessionsAssumption DEF TokensHaveSession
<1>2. PICK u \in User \cup {None}, b \in BOOLEAN :
        u = sessions[f].user /\ b = (sessions[f].revoked \/ sessions[f].expired)
  BY <1>1, StateFacts, RowFields
<1> DEFINE z == [NoLocals EXCEPT !.op = op, !.token = t, !.family = f, !.user = u, !.doomed = b]
<1>3. Known(op, t) = z
  BY <1>2 DEF Known
<1>4. z \in Locals
  BY <1>1, LocalsStart
<1>5. z.token = t /\ z.family = f /\ z.out = None /\ z.doomed = b
  BY DEF NoLocals
<1> HIDE DEF z
<1>6. Answered(z, "refused") \in Locals
  BY <1>4, LocalsFields DEF Outs
<1>7. LET a == Answered(z, "refused")
      IN  a.token = z.token /\ a.family = z.family /\ a.doomed = z.doomed /\ a.out = "refused"
  BY <1>4 DEF Locals, Answered
<1>8. y \in Locals /\ y.token = t /\ y.family = f /\ y.out \in {None, "refused"} /\ y.doomed = b
  BY <1>3, <1>4, <1>5, <1>6, <1>7
<1>9. l \in Labels /\ LocalsSet(l, y) /\ RotationKnows(l, y)
  BY <1>1, <1>8 DEF Labels, LocalsSet, RotationKnows, Opening, Accounting, WithToken,
                    WithFamily, Rotating, Reusing
<1>10. b => Dead(f)
  BY <1>1, <1>2 DEF Dead
<1> QED
  BY <1>1, <1>8, <1>9, <1>10

LEMMA RefreshFindKeeps ==
  ASSUME IndInv, NEW r \in Request, RefreshFind(r)
  PROVE  IndInv'
<1>1. PICK t \in Token : RefreshFind(r)!2!(t)
  BY DEF RefreshFind
<1>2. PICK l \in {"loadUser", "reuseFamily", "validateUser", "done"},
           y \in {Known("refresh", t), Answered(Known("refresh", t), "refused")} :
        Moves(r, l, y)
  BY <1>1 DEF Moves, Goto
<1>3. tokens[t].state # "unused" /\ "refresh" \in Operations
  BY <1>1 DEF Operations
<1>4. /\ y \in Locals /\ y.out \in {None, "refused"}
      /\ y.doomed => y.family \in Family /\ Dead(y.family)
      /\ l \in Labels /\ LocalsSet(l, y) /\ RotationKnows(l, y)
  BY <1>3, KnownToken
<1>5. UNCHANGED <<dbVars, blocklist>>
  BY DEF RefreshFind
<1> QED
  BY <1>2, <1>4, <1>5, StartStep DEF Opening

LEMMA ValidateBlocklistKeeps ==
  ASSUME IndInv, NEW r \in Request, ValidateBlocklist(r)
  PROVE  IndInv'
<1>1. PICK t \in Token : ValidateBlocklist(r)!2!(t)
  BY DEF ValidateBlocklist
<1>2. PICK l \in {"loadUser", "reuseFamily", "validateUser", "done"},
           y \in {Known("validate", t), Answered(Known("validate", t), "refused")} :
        Moves(r, l, y)
  BY <1>1 DEF Moves, Goto
<1>3. tokens[t].state # "unused" /\ "validate" \in Operations
  BY <1>1 DEF Operations
<1>4. /\ y \in Locals /\ y.out \in {None, "refused"}
      /\ y.doomed => y.family \in Family /\ Dead(y.family)
      /\ l \in Labels /\ LocalsSet(l, y) /\ RotationKnows(l, y)
  BY <1>3, KnownToken
<1>5. UNCHANGED <<dbVars, blocklist>>
  BY DEF ValidateBlocklist
<1> QED
  BY <1>2, <1>4, <1>5, StartStep DEF Opening

LEMMA LoginChecksKeeps ==
  ASSUME IndInv, NEW r \in Request, LoginChecks(r)
  PROVE  IndInv'
<1>1. RowsStep({r}) /\ RowsKept({r})
  BY SameRows DEF LoginChecks
<1>2. RequestOK(pc[r], ctx[r])
  BY StateFacts
<1>3. CASE Finish(r, "refused")
  BY <1>1, <1>3, FinishStep, StepKeeps DEF Outs
<1>4. ASSUME NEW l \in {"challenged", "createSession"}, Goto(r, l), UNCHANGED ctx
      PROVE  IndInv'
  <2>1. l \in Labels \ {"createToken", "commitRotation"} /\ LocalsSet(l, ctx[r])
    BY <1>2 DEF LoginChecks, RequestOK, Labels, LocalsSet, Opening, Accounting,
         WithFamily, WithToken, Rotating, Reusing
  <2> QED
    BY <1>1, <1>4, <2>1, GotoStep, StepKeeps DEF LoginChecks, Opening, Rotating, Reusing
<1> QED
  BY <1>3, <1>4 DEF LoginChecks

LEMMA RefreshLoadUserKeeps ==
  ASSUME IndInv, NEW r \in Request, RefreshLoadUser(r)
  PROVE  IndInv'
<1>1. RowsStep({r}) /\ RowsKept({r})
  BY SameRows DEF RefreshLoadUser
<1>2. RequestOK(pc[r], ctx[r])
  BY StateFacts
<1>3. CASE Finish(r, "refused")
  BY <1>1, <1>3, FinishStep, StepKeeps DEF Outs
<1>4. ASSUME NEW l \in {"loadSession"}, Goto(r, l), UNCHANGED ctx
      PROVE  IndInv'
  <2>1. l \in Labels \ {"createToken", "commitRotation"} /\ LocalsSet(l, ctx[r])
    BY <1>2 DEF RefreshLoadUser, RequestOK, Labels, LocalsSet, Opening, Accounting,
         WithFamily, WithToken, Rotating, Reusing
  <2> QED
    BY <1>1, <1>4, <2>1, GotoStep, StepKeeps DEF RefreshLoadUser, Opening, Rotating, Reusing
<1> QED
  BY <1>3, <1>4 DEF RefreshLoadUser

LEMMA ValidateUserKeeps ==
  ASSUME IndInv, NEW r \in Request, ValidateUser(r)
  PROVE  IndInv'
<1>1. RowsStep({r}) /\ RowsKept({r})
  BY SameRows DEF ValidateUser
<1>2. RequestOK(pc[r], ctx[r])
  BY StateFacts
<1>3. CASE Finish(r, "refused")
  BY <1>1, <1>3, FinishStep, StepKeeps DEF Outs
<1>4. ASSUME NEW l \in {"validateSession"}, Goto(r, l), UNCHANGED ctx
      PROVE  IndInv'
  <2>1. l \in Labels \ {"createToken", "commitRotation"} /\ LocalsSet(l, ctx[r])
    BY <1>2 DEF ValidateUser, RequestOK, Labels, LocalsSet, Opening, Accounting,
         WithFamily, WithToken, Rotating, Reusing
  <2> QED
    BY <1>1, <1>4, <2>1, GotoStep, StepKeeps DEF ValidateUser, Opening, Rotating, Reusing
<1> QED
  BY <1>3, <1>4 DEF ValidateUser

\* A doomed refresh finds its session dead here and never reaches the rotation.
LEMMA RefreshLoadSessionKeeps ==
  ASSUME IndInv, NEW r \in Request, RefreshLoadSession(r)
  PROVE  IndInv'
<1>1. RowsStep({r}) /\ RowsKept({r})
  BY SameRows DEF RefreshLoadSession
<1>2. RequestOK(pc[r], ctx[r])
  BY StateFacts
<1>3. ctx[r].doomed => ~SessionActive(ctx[r].family)
  BY <1>2 DEF RequestOK, DoomedStaysOut, Dead, SessionActive
<1>4. PICK l \in {"rotate", "killFamily"} :
        /\ Goto(r, l) /\ UNCHANGED ctx
        /\ l = "rotate" => ~ctx[r].doomed
  BY <1>3 DEF RefreshLoadSession
<1>5. l \in Labels \ {"createToken", "commitRotation"} /\ LocalsSet(l, ctx[r])
  BY <1>2 DEF RefreshLoadSession, RequestOK, Labels, LocalsSet, Opening, Accounting,
         WithFamily, WithToken, Rotating, Reusing
<1> QED
  BY <1>1, <1>4, <1>5, GotoStep, StepKeeps DEF RefreshLoadSession, Opening, Rotating, Reusing

\* Nor is a doomed validation admitted.
LEMMA ValidateSessionKeeps ==
  ASSUME IndInv, NEW r \in Request, ValidateSession(r)
  PROVE  IndInv'
<1>1. RowsStep({r}) /\ RowsKept({r})
  BY SameRows DEF ValidateSession
<1>2. RequestOK(pc[r], ctx[r])
  BY StateFacts
<1>3. ctx[r].doomed => ~SessionActive(ctx[r].family)
  BY <1>2 DEF RequestOK, DoomedStaysOut, Dead, SessionActive
<1>4. PICK out \in {"admitted", "refused"} :
        Finish(r, out) /\ (out = "admitted" => ~ctx[r].doomed)
  BY <1>3 DEF ValidateSession
<1> QED
  BY <1>1, <1>4, FinishStep, StepKeeps DEF Outs

LEMMA ChallengeExpiresKeeps ==
  ASSUME IndInv, NEW r \in Request, ChallengeExpires(r)
  PROVE  IndInv'
<1>1. RowsStep({r}) /\ RowsKept({r}) /\ Finish(r, "refused")
  BY SameRows DEF ChallengeExpires
<1> QED
  BY <1>1, FinishStep, StepKeeps DEF Outs

LEMMA InsertFailsKeeps ==
  ASSUME IndInv, NEW r \in Request, InsertFails(r)
  PROVE  IndInv'
<1>1. RowsStep({r}) /\ RowsKept({r}) /\ Finish(r, "refused")
  BY SameRows DEF InsertFails
<1> QED
  BY <1>1, FinishStep, StepKeeps DEF Outs

LEMMA LogoutBlocklistKeeps ==
  ASSUME IndInv, NEW r \in Request, LogoutBlocklist(r)
  PROVE  IndInv'
<1>1. /\ users' = users /\ sessions' = sessions /\ tokens' = tokens
      /\ ctx[r].token \in Token
  BY StateFacts DEF LogoutBlocklist, dbVars, RequestOK, LocalsSet, WithToken
<1>2. tokens' = Revoked({})
  BY <1>1, StateFacts DEF Revoked
<1>3. blocklist' \subseteq Token
  BY <1>1, StateFacts DEF LogoutBlocklist
<1>4. RowsStep({r}) /\ RowsKept({r})
  BY <1>1, <1>2, <1>3, StateFacts, RevokeRows
<1> QED
  BY <1>4, FinishStep, StepKeeps DEF LogoutBlocklist, Outs

LEMMA LoginRehashKeeps ==
  ASSUME IndInv, NEW r \in Request, LoginRehash(r)
  PROVE  IndInv'
<1>1. RequestOK("rehash", ctx[r])
  BY StateFacts DEF LoginRehash
<1>2. ctx[r].user \in User /\ ctx[r].row \in UserRow
  BY <1>1 DEF RequestOK, LocalsSet, Opening
<1>3. users' \in [User -> UserRow]
  BY <1>2, StateFacts DEF LoginRehash, UserRow
<1>4. tokens' = Revoked({}) /\ sessions' = sessions /\ blocklist' \subseteq Token
  BY StateFacts DEF LoginRehash, Revoked
<1>5. RowsStep({r}) /\ RowsKept({r})
  BY <1>3, <1>4, RevokeRows
<1>6. "checks" \in Labels /\ LocalsSet("checks", ctx[r])
  BY <1>2 DEF Labels, LocalsSet, Opening, Accounting, WithFamily, WithToken, Rotating, Reusing
<1> QED
  BY <1>5, <1>6, GotoStep, StepKeeps DEF LoginRehash, Opening, Rotating, Reusing

LEMMA AbortKeeps ==
  ASSUME IndInv, NEW r \in Request, Abort(r)
  PROVE  IndInv'
<1>1. UNCHANGED <<dbVars, blocklist>> /\ Moves(r, "idle", NoLocals)
  BY DEF Abort, Goto, Moves
<1>2. NoLocals \in Locals /\ NoLocals.out = None /\ ~NoLocals.doomed
  BY LocalsStart DEF NoLocals
<1>3. "idle" \in Labels /\ LocalsSet("idle", NoLocals) /\ RotationKnows("idle", NoLocals)
  BY DEF Labels, LocalsSet, Opening, Accounting, WithFamily, WithToken,
         Rotating, Reusing, RotationKnows
<1> QED
  BY <1>1, <1>2, <1>3, StartStep

LEMMA RespondKeeps ==
  ASSUME IndInv, NEW r \in Request, Respond(r)
  PROVE  IndInv'
<1>1. UNCHANGED <<dbVars, blocklist>> /\ Moves(r, "idle", NoLocals)
  BY DEF Respond, Goto, Moves
<1>2. NoLocals \in Locals /\ NoLocals.out = None /\ ~NoLocals.doomed
  BY LocalsStart DEF NoLocals
<1>3. "idle" \in Labels /\ LocalsSet("idle", NoLocals) /\ RotationKnows("idle", NoLocals)
  BY DEF Labels, LocalsSet, Opening, Accounting, WithFamily, WithToken,
         Rotating, Reusing, RotationKnows
<1> QED
  BY <1>1, <1>2, <1>3, StartStep

LEMMA CompleteMfaLoginKeeps ==
  ASSUME IndInv, NEW r \in Request, CompleteMfaLogin(r)
  PROVE  IndInv'
<1>1. RowsStep({r}) /\ RowsKept({r})
  BY SameRows DEF CompleteMfaLogin
<1>2. RequestOK(pc[r], ctx[r])
  BY StateFacts
<1>3. CASE Finish(r, "refused")
  BY <1>1, <1>3, FinishStep, StepKeeps DEF Outs
<1>4. CASE /\ ctx' = [ctx EXCEPT ![r] = [@ EXCEPT !.second = TRUE]]
           /\ Goto(r, "createSession")
  <2> DEFINE x == [ctx[r] EXCEPT !.second = TRUE]
  <2>1. x \in Locals
    BY StateFacts, LocalsFields
  <2>2. /\ x.user = ctx[r].user /\ x.row = ctx[r].row /\ x.family = ctx[r].family
        /\ x.token = ctx[r].token /\ x.doomed = ctx[r].doomed /\ x.out = ctx[r].out
    BY StateFacts DEF Locals
  <2>3. "createSession" \in Labels /\ LocalsSet("createSession", x)
    BY <1>2, <2>2 DEF CompleteMfaLogin, RequestOK, Labels, LocalsSet, Opening, Accounting,
         WithFamily, WithToken, Rotating, Reusing
  <2>4. Moves(r, "createSession", x)
    BY <1>4 DEF Moves, Goto
  <2> HIDE DEF x
  <2> QED
    BY <1>1, <2>1, <2>2, <2>3, <2>4, MoveStep, StepKeeps
      DEF CompleteMfaLogin, Opening, Rotating, Reusing
<1> QED
  BY <1>3, <1>4 DEF CompleteMfaLogin

LEMMA RevokeFamilySnapshotKeeps ==
  ASSUME IndInv, NEW r \in Request, RevokeFamilySnapshot(r)
  PROVE  IndInv'
<1>1. RowsStep({r}) /\ RowsKept({r})
  BY SameRows DEF RevokeFamilySnapshot
<1>2. RequestOK(pc[r], ctx[r])
  BY StateFacts
<1> DEFINE x == [ctx[r] EXCEPT !.deadTokens = LiveTokens(ctx[r].family)]
<1>3. PICK l \in {"reuseFamilyApply", "killFamilyApply"} :
        /\ Moves(r, l, x)
        /\ l = "reuseFamilyApply" => pc[r] = "reuseFamily"
  BY DEF RevokeFamilySnapshot, Goto, Moves
<1>4. x \in Locals
  BY StateFacts, LocalsFields DEF LiveTokens
<1>5. /\ x.family = ctx[r].family /\ x.token = ctx[r].token
      /\ x.doomed = ctx[r].doomed /\ x.out = ctx[r].out
  BY StateFacts DEF Locals
<1> HIDE DEF x
<1>6. l \in Labels \ {"createToken", "commitRotation"} /\ LocalsSet(l, x)
  BY <1>2, <1>5 DEF RevokeFamilySnapshot, RequestOK, Labels, LocalsSet, Opening, Accounting,
         WithFamily, WithToken, Rotating, Reusing
<1> QED
  BY <1>1, <1>3, <1>4, <1>5, <1>6, MoveStep, StepKeeps DEF Opening, Rotating, Reusing

LEMMA RevokeSessionSnapshotKeeps ==
  ASSUME IndInv, NEW r \in Request, RevokeSessionSnapshot(r)
  PROVE  IndInv'
<1>1. RowsStep({r}) /\ RowsKept({r})
  BY SameRows DEF RevokeSessionSnapshot
<1>2. RequestOK(pc[r], ctx[r])
  BY StateFacts
<1> DEFINE x == [ctx[r] EXCEPT !.deadTokens = LiveTokens(ctx[r].family)]
<1>3. Moves(r, "revokeTxCommit", x)
  BY DEF RevokeSessionSnapshot, Goto, Moves
<1>4. x \in Locals
  BY StateFacts, LocalsFields DEF LiveTokens
<1>5. /\ x.family = ctx[r].family /\ x.token = ctx[r].token
      /\ x.doomed = ctx[r].doomed /\ x.out = ctx[r].out
  BY StateFacts DEF Locals
<1> HIDE DEF x
<1>6. "revokeTxCommit" \in Labels /\ LocalsSet("revokeTxCommit", x)
  BY <1>2, <1>5 DEF RevokeSessionSnapshot, RequestOK, Labels, LocalsSet, Opening, Accounting,
         WithFamily, WithToken, Rotating, Reusing
<1> QED
  BY <1>1, <1>3, <1>4, <1>5, <1>6, MoveStep, StepKeeps DEF Opening, Rotating, Reusing

LEMMA AccountSnapshotKeeps ==
  ASSUME IndInv, NEW r \in Request, AccountSnapshot(r)
  PROVE  IndInv'
<1>1. RowsStep({r}) /\ RowsKept({r})
  BY SameRows DEF AccountSnapshot
<1>2. RequestOK(pc[r], ctx[r])
  BY StateFacts
<1>3. CASE Finish(r, "refused")
  BY <1>1, <1>3, FinishStep, StepKeeps DEF Outs
<1>4. CASE ~Finish(r, "refused")
  <2> DEFINE F == {f \in Family : sessions[f].user = ctx[r].user}
             S == UNION {LiveTokens(f) : f \in F}
             x == [ctx[r] EXCEPT !.deadFamilies = F, !.deadTokens = S]
  <2>1. Moves(r, "accountTxCommit", x)
    BY <1>4 DEF AccountSnapshot, Goto, Moves
  <2>2. F \in SUBSET Family /\ S \in SUBSET Token
    BY DEF LiveTokens
  <2> HIDE DEF F, S
  <2>3. x \in Locals
    BY <2>2, StateFacts, LocalsFields
  <2>4. /\ x.family = ctx[r].family /\ x.token = ctx[r].token /\ x.user = ctx[r].user
        /\ x.row = ctx[r].row /\ x.doomed = ctx[r].doomed /\ x.out = ctx[r].out
    BY StateFacts DEF Locals
  <2> HIDE DEF x
  <2>5. "accountTxCommit" \in Labels /\ LocalsSet("accountTxCommit", x)
    BY <1>2, <2>4 DEF AccountSnapshot, RequestOK, Labels, LocalsSet, Opening, Accounting,
                      WithFamily, WithToken, Rotating, Reusing
  <2> QED
    BY <1>1, <2>1, <2>3, <2>4, <2>5, MoveStep, StepKeeps DEF Opening, Rotating, Reusing
<1> QED
  BY <1>3, <1>4

LEMMA RevokeFamilyApplyKeeps ==
  ASSUME IndInv, NEW r \in Request, RevokeFamilyApply(r)
  PROVE  IndInv'
<1>1. RowsStep({r}) /\ RowsKept({r})
  BY StateFacts, RevokeRows DEF RevokeFamilyApply
<1>2. RequestOK(pc[r], ctx[r])
  BY StateFacts
<1>3. CASE Finish(r, "refused")
  BY <1>1, <1>3, FinishStep, StepKeeps DEF Outs
<1>4. CASE pc[r] = "reuseFamilyApply" /\ Goto(r, "reuseSession") /\ UNCHANGED ctx
  <2>1. "reuseSession" \in Labels \ {"createToken", "commitRotation"}
        /\ LocalsSet("reuseSession", ctx[r])
    BY <1>2, <1>4 DEF RequestOK, Labels, LocalsSet, Opening, Accounting, WithFamily, WithToken,
         Rotating, Reusing
  <2> QED
    BY <1>1, <1>4, <2>1, GotoStep, StepKeeps DEF Opening, Rotating, Reusing
<1> QED
  BY <1>3, <1>4 DEF RevokeFamilyApply

LEMMA RevokeFamilySessionKeeps ==
  ASSUME IndInv, NEW r \in Request, RevokeFamilySession(r)
  PROVE  IndInv'
<1>1. tokens' = Revoked({})
  BY StateFacts DEF RevokeFamilySession, Revoked
<1>2. RowsStep({r}) /\ RowsKept({r})
  BY <1>1, StateFacts, RevokeRows DEF RevokeFamilySession
<1> QED
  BY <1>2, FinishStep, StepKeeps DEF RevokeFamilySession, Outs

LEMMA RevokeSessionCommitKeeps ==
  ASSUME IndInv, NEW r \in Request, RevokeSessionCommit(r)
  PROVE  IndInv'
<1>1. RowsStep({r}) /\ RowsKept({r})
  BY StateFacts, RevokeRows DEF RevokeSessionCommit
<1>2. CASE Finish(r, "ok")
  BY <1>1, <1>2, FinishStep, StepKeeps DEF Outs
<1>3. CASE Goto(r, "blocklist") /\ UNCHANGED ctx
  <2>1. RequestOK(pc[r], ctx[r])
    BY StateFacts
  <2>2. "blocklist" \in Labels /\ LocalsSet("blocklist", ctx[r])
    BY <2>1 DEF RevokeSessionCommit, RequestOK, Labels, LocalsSet, Opening, Accounting,
         WithFamily, WithToken, Rotating, Reusing
  <2> QED
    BY <1>1, <1>3, <2>2, GotoStep, StepKeeps DEF Opening, Rotating, Reusing
<1> QED
  BY <1>2, <1>3 DEF RevokeSessionCommit

LEMMA AccountCommitKeeps ==
  ASSUME IndInv, NEW r \in Request, AccountCommit(r)
  PROVE  IndInv'
<1>1. RequestOK("accountTxCommit", ctx[r])
  BY StateFacts DEF AccountCommit
<1>2. ctx[r].user \in User
  BY <1>1 DEF RequestOK, LocalsSet, Accounting
<1>3. AccountWrite(ctx[r].op, users[ctx[r].user], ctx[r].row) \subseteq UserRow
  <2>1. ASSUME NEW op, NEW row \in UserRow, NEW read
        PROVE  AccountWrite(op, row, read) \subseteq UserRow
    BY DEF AccountWrite, UserRow
  <2> QED
    BY <1>2, <2>1, StateFacts
<1>4. users' \in [User -> UserRow]
  BY <1>2, <1>3, StateFacts DEF AccountCommit
<1>5. RowsStep({r}) /\ RowsKept({r})
  BY <1>4, StateFacts, RevokeRows DEF AccountCommit
<1> QED
  BY <1>5, FinishStep, StepKeeps DEF AccountCommit, Outs

\* The conditional update: the rotation that consumes the token found it live and
\* held by no other.
LEMMA RotateConsumeKeeps ==
  ASSUME IndInv, NEW r \in Request, RotateConsume(r)
  PROVE  IndInv'
<1>1. RowsStep({r}) /\ RowsKept({r}) /\ UNCHANGED <<sessions, tokens>>
  BY SameRows DEF RotateConsume, dbVars
<1>2. PICK x \in Locals : x = ctx[r]
  BY StateFacts
<1>3. RequestOK("rotate", x)
  BY <1>2, StateFacts DEF RotateConsume
<1>4. CASE Goto(r, "reuseFamily")
  <2>1. "reuseFamily" \in Labels /\ LocalsSet("reuseFamily", x)
    BY <1>3 DEF RequestOK, Labels, LocalsSet, Opening, Accounting, WithFamily, WithToken,
                Rotating, Reusing
  <2> QED
    BY <1>1, <1>2, <1>4, <2>1, GotoStep, StepKeeps DEF RotateConsume, Opening, Rotating, Reusing
<1>5. CASE Goto(r, "commitRotation") /\ tokens[x.token].state = "live"
  <2>1. /\ LocalsSet("commitRotation", x)
        /\ RotationKnows("commitRotation", x)
        /\ ~x.doomed
    BY <1>3, <1>5 DEF RequestOK, LocalsSet, RotationKnows, DoomedStaysOut, Opening, Accounting, WithFamily, WithToken, Rotating, Reusing
  <2>2. LocalsSet("commitRotation", x)' /\ OpeningFresh("commitRotation", x)'
        /\ DoomedStaysOut("commitRotation", x)'
    BY <2>1 DEF LocalsSet, OpeningFresh, DoomedStaysOut, UserRow
  <2>3. RotationKnows("commitRotation", x)'
    BY <1>1, <2>1 DEF RotationKnows
  <2>4. \A q \in Request \ {r} : pc[q] = "commitRotation" => ctx[q].token # x.token
    BY <1>2 DEF RotateConsume, TokenLocked
  <2>5. Moves(r, "commitRotation", x) /\ "commitRotation" \in Labels
    BY <1>2, <1>5, StateFacts DEF RotateConsume, Moves, Goto, Labels
  <2>6. RequestStep(r)
    BY <2>2, <2>3, <2>4, <2>5 DEF RequestStep, RequestOK, Apart
  <2> QED
    BY <1>1, <2>6, StepKeeps
<1> QED
  BY <1>2, <1>4, <1>5 DEF RotateConsume

\* A new session starts a family no token and no other login is in.
LEMMA CreateSessionKeeps ==
  ASSUME IndInv, NEW r \in Request, CreateSession(r)
  PROVE  IndInv'
<1>1. PICK f \in Family : CreateSession(r)!2!(f)
  BY DEF CreateSession
<1>2. RequestOK("createSession", ctx[r]) /\ ctx[r] \in Locals
  BY StateFacts DEF CreateSession
<1>3. /\ ctx[r].user \in User /\ ctx[r].row \in UserRow
      /\ ~ctx[r].doomed
      /\ ctx[r].due \in BOOLEAN /\ ctx[r].second \in BOOLEAN
  BY <1>2 DEF RequestOK, LocalsSet, DoomedStaysOut, Opening, Locals
<1>4. ctx[r].user # None
  BY <1>3, SessionsAssumption
<1>5. /\ tokens' = tokens /\ users' = users /\ blocklist' = blocklist
      /\ \A g \in Family \ {f} : sessions'[g] = sessions[g]
      /\ sessions'[f].user # None
      /\ sessions' \in [Family -> SessionRow]
  BY <1>1, <1>3, <1>4, StateFacts DEF CreateSession, SessionRow, UserRow
<1>6. \A t \in Token : tokens[t].family # f
  BY <1>1, StateFacts, SessionsAssumption DEF TokensHaveSession
<1>7. RowsType' /\ SingleLiveToken'
  BY <1>5, StateFacts DEF RowsType, SingleLiveToken
<1>8. TokensHaveSession'
  <2>1. TokensHaveSession /\ \A t \in Token : tokens[t].family # None => tokens[t].family \in Family
    BY StateFacts, RowFields
  <2> QED
    BY <1>5, <1>6, <2>1 DEF TokensHaveSession
<1>9. RowsKept({r})
  <2>1. \A q \in Request : pc[q] = "commitRotation" => tokens[ctx[q].token].state = "live"
    BY StateFacts DEF RequestOK, RotationKnows
  <2> QED
    BY <1>1, <1>5, <2>1 DEF RowsKept
<1>10. PICK x \in Locals : x = [ctx[r] EXCEPT !.family = f]
  BY <1>2, LocalsFields
<1>11. x.family = f /\ ~x.doomed
  BY <1>2, <1>3, <1>10 DEF Locals
<1>12. Moves(r, "createToken", x) /\ "createToken" \in Labels
  BY <1>1, <1>10 DEF CreateSession, Moves, Goto, Labels
<1>13. LocalsSet("createToken", x)' /\ RotationKnows("createToken", x)'
  BY <1>11 DEF LocalsSet, RotationKnows, Opening, Accounting, WithToken, Rotating, Reusing
<1>14. OpeningFresh("createToken", x)' /\ DoomedStaysOut("createToken", x)'
  BY <1>5, <1>6, <1>11 DEF OpeningFresh, DoomedStaysOut
<1>15. ASSUME NEW q \in Request, pc[q] = "createToken"
       PROVE  ctx[q].family # f
  <2>1. RequestOK("createToken", ctx[q])
    BY <1>15, StateFacts
  <2> QED
    BY <1>1, <2>1 DEF RequestOK, OpeningFresh
<1>16. RequestStep(r)
  BY <1>11, <1>12, <1>13, <1>14, <1>15 DEF RequestStep, RequestOK, Apart
<1> QED
  BY <1>7, <1>8, <1>9, <1>16, StepKeeps DEF RowsStep

\* The first token of the family, which had none.
LEMMA CreateTokenKeeps ==
  ASSUME IndInv, NEW r \in Request, CreateToken(r)
  PROVE  IndInv'
<1>1. PICK t \in Token, f \in {ctx[r].family} :
        /\ tokens[t].state = "unused" /\ f = ctx[r].family
        /\ tokens' = [tokens EXCEPT ![t] = NewToken(f)]
  BY DEF CreateToken
<1>2. RequestOK("createToken", ctx[r])
  BY StateFacts DEF CreateToken
<1>3. /\ f \in Family /\ sessions[f].user # None
      /\ \A s \in Token : tokens[s].family # f
      /\ ~ctx[r].doomed
  BY <1>1, <1>2 DEF RequestOK, LocalsSet, OpeningFresh, DoomedStaysOut, WithFamily
<1>4. /\ tokens' \in [Token -> TokenRow]
      /\ tokens'[t].family = f /\ tokens'[t].state = "live"
      /\ \A s \in Token \ {t} : tokens'[s] = tokens[s]
  BY <1>1, <1>3, StateFacts, NewTokenRow DEF TokenRow
<1>5. UNCHANGED <<users, sessions, blocklist>> /\ Finish(r, "issued")
  BY DEF CreateToken
<1>6. RowsType'
  BY <1>4, <1>5, StateFacts DEF RowsType
<1>7. TokensHaveSession'
  BY <1>3, <1>4, <1>5, StateFacts, SessionsAssumption DEF TokensHaveSession
<1>8. SingleLiveToken'
  BY <1>3, <1>4, StateFacts DEF SingleLiveToken
<1>9. RowsKept({r})
  <2>1. tokens[t].family = None
    BY <1>1, StateFacts DEF TokensHaveSession
  <2>2. \A q \in Request : pc[q] = "commitRotation" =>
          ctx[q].token \in Token /\ tokens[ctx[q].token].state = "live"
    BY StateFacts DEF RequestOK, RotationKnows, LocalsSet, WithToken, Rotating
  <2>3. \A q \in Request : pc[q] = "commitRotation" => tokens'[ctx[q].token].state = "live"
    BY <1>1, <1>4, <2>2
  <2>4. \A s \in Token : tokens[s].family # None => tokens'[s].family = tokens[s].family
    BY <1>4, <2>1
  <2>5. \A s \in Token : tokens[s].family = None /\ tokens'[s].family # None =>
          pc[r] = "createToken" /\ tokens'[s].family = ctx[r].family
    BY <1>1, <1>4 DEF CreateToken
  <2> QED
    BY <1>5, <2>3, <2>4, <2>5 DEF RowsKept
<1> QED
  BY <1>3, <1>5, <1>6, <1>7, <1>8, <1>9, FinishStep, StepKeeps DEF RowsStep, Outs

\* The replacement takes the place of the token it consumed.
LEMMA RotateCommitKeeps ==
  ASSUME IndInv, NEW r \in Request, RotateCommit(r)
  PROVE  IndInv'
<1>0. PICK old, f : f = ctx[r].family /\ old = ctx[r].token
  OBVIOUS
<1>1. PICK t \in Token :
        /\ tokens[t].state = "unused" /\ f = ctx[r].family /\ old = ctx[r].token
        /\ tokens' = [tokens EXCEPT
              ![old] = [@ EXCEPT !.state = "revoked"],
              ![t] = NewToken(f)]
  <2>1. PICK t \in Token : RotateCommit(r)!2!(t)
    BY DEF RotateCommit
  <2> QED
    BY <1>0, <2>1, Zenon
<1>2. RequestOK("commitRotation", ctx[r])
  BY StateFacts DEF RotateCommit
<1>3. /\ f \in Family /\ sessions[f].user # None
      /\ old \in Token /\ tokens[old].family = f /\ tokens[old].state = "live"
      /\ ~ctx[r].doomed
  BY <1>1, <1>2 DEF RequestOK, LocalsSet, RotationKnows, DoomedStaysOut, WithFamily, WithToken,
                    Rotating
<1>4. /\ tokens' \in [Token -> TokenRow]
      /\ tokens'[t].family = f /\ tokens'[t].state = "live"
      /\ tokens'[old].family = f /\ tokens'[old].state = "revoked"
      /\ \A s \in Token \ {t, old} : tokens'[s] = tokens[s]
  BY <1>1, <1>3, StateFacts, NewTokenRow DEF TokenRow
<1>5. UNCHANGED <<users, sessions, blocklist>> /\ Finish(r, "issued")
  BY DEF RotateCommit
<1>6. RowsType'
  BY <1>4, <1>5, StateFacts DEF RowsType
<1>7. TokensHaveSession'
  BY <1>3, <1>4, <1>5, StateFacts, SessionsAssumption DEF TokensHaveSession
<1>8. SingleLiveToken'
  <2>1. \A s \in Token : tokens[s].state = "live" /\ tokens[s].family = f => s = old
    BY <1>3, StateFacts DEF SingleLiveToken
  <2> QED
    BY <1>4, <2>1, StateFacts DEF SingleLiveToken
<1>9. RowsKept({r})
  <2>1. tokens[t].family = None
    BY <1>1, StateFacts DEF TokensHaveSession
  <2>2. \A q \in Request \ {r} : pc[q] = "commitRotation" =>
          /\ ctx[q].token \in Token /\ tokens[ctx[q].token].state = "live"
          /\ ctx[q].token # old
    BY <1>1, StateFacts DEF RotateCommit, RequestOK, RotationKnows, LocalsSet, WithToken,
                            Rotating, RequestsApart, Apart
  <2>3. \A q \in Request \ {r} :
          pc[q] = "commitRotation" => tokens'[ctx[q].token].state = "live"
    BY <1>1, <1>4, <2>2
  <2>4. \A s \in Token : tokens[s].family # None => tokens'[s].family = tokens[s].family
    BY <1>3, <1>4, <2>1
  <2>5. \A s \in Token : tokens[s].family = None /\ tokens'[s].family # None =>
          pc[r] = "commitRotation" /\ tokens'[s].family = ctx[r].family
    BY <1>1, <1>3, <1>4 DEF RotateCommit
  <2> QED
    BY <1>5, <2>3, <2>4, <2>5 DEF RowsKept
<1> QED
  BY <1>3, <1>5, <1>6, <1>7, <1>8, <1>9, FinishStep, StepKeeps DEF RowsStep, Outs

LEMMA SessionExpiresKeeps ==
  ASSUME IndInv, NEW f \in Family, SessionExpires(f)
  PROVE  IndInv'
<1>1. /\ tokens' = tokens /\ users' = users /\ blocklist' = blocklist
      /\ UNCHANGED <<pc, ctx>>
      /\ sessions' \in [Family -> SessionRow]
      /\ \A g \in Family : /\ sessions'[g].user = sessions[g].user
                           /\ sessions'[g].revoked = sessions[g].revoked
                           /\ sessions[g].expired => sessions'[g].expired
  BY StateFacts DEF SessionExpires, SessionRow
<1>2. RowsType' /\ SingleLiveToken'
  BY <1>1, StateFacts DEF RowsType, SingleLiveToken
<1>3. TokensHaveSession'
  <2>1. TokensHaveSession /\ \A t \in Token : tokens[t].family # None => tokens[t].family \in Family
    BY StateFacts, RowFields
  <2> QED
    BY <1>1, <2>1 DEF TokensHaveSession
<1>4. RowsKept({})
  <2>1. \A q \in Request : pc[q] = "commitRotation" => tokens[ctx[q].token].state = "live"
    BY StateFacts DEF RequestOK, RotationKnows
  <2> QED
    BY <1>1, <2>1 DEF RowsKept
<1> QED
  BY <1>1, <1>2, <1>3, <1>4, ClockKeeps DEF RowsStep

LEMMA TokenExpiresKeeps ==
  ASSUME IndInv, NEW t \in Token, TokenExpires(t)
  PROVE  IndInv'
<1>1. /\ sessions' = sessions /\ users' = users /\ blocklist' = blocklist
      /\ UNCHANGED <<pc, ctx>>
      /\ tokens' \in [Token -> TokenRow]
      /\ \A s \in Token : tokens'[s].family = tokens[s].family
                          /\ tokens'[s].state = tokens[s].state
  BY StateFacts DEF TokenExpires, TokenRow
<1>2. RowsType' /\ SingleLiveToken' /\ TokensHaveSession'
  BY <1>1, StateFacts DEF RowsType, SingleLiveToken, TokensHaveSession
<1>3. RowsKept({})
  <2>1. \A q \in Request : pc[q] = "commitRotation" =>
          ctx[q].token \in Token /\ tokens[ctx[q].token].state = "live"
    BY StateFacts DEF RequestOK, RotationKnows, LocalsSet, WithToken, Rotating
  <2> QED
    BY <1>1, <2>1 DEF RowsKept
<1> QED
  BY <1>1, <1>2, <1>3, ClockKeeps DEF RowsStep

-----------------------------------------------------------------------------
(* The theorems.                                                           *)

LEMMA InitIndInv ==
  ASSUME Init
  PROVE  IndInv
<1>1. TypeOK
  <2>1. sessions \in [Family -> SessionRow]
    BY DEF Init, NoSession, SessionRow
  <2>2. tokens \in [Token -> TokenRow]
    BY DEF Init, TokenRow
  <2>3. pc \in [Request -> Labels] /\ ctx \in [Request -> Locals]
    BY LocalsStart DEF Init, Labels
  <2> QED
    BY <2>1, <2>2, <2>3 DEF Init, TypeOK
<1>2. TokensHaveSession /\ SingleLiveToken
  BY DEF Init, TokensHaveSession, SingleLiveToken
<1>3. \A r \in Request : RequestOK(pc[r], ctx[r])
  BY SessionsAssumption DEF Init, NoLocals, RequestOK, LocalsSet, OpeningFresh, RotationKnows,
     DoomedStaysOut, Opening, Accounting, WithFamily, WithToken, Rotating, Reusing
<1>4. RequestsApart
  BY DEF Init, RequestsApart, Apart
<1> QED
  BY <1>1, <1>2, <1>3, <1>4 DEF IndInv

LEMMA NextKeeps ==
  ASSUME IndInv, [Next]_vars
  PROVE  IndInv'
<1>1. CASE UNCHANGED vars
  <2>1. RowsType' /\ TokensHaveSession' /\ SingleLiveToken' /\ UNCHANGED <<pc, ctx>>
    BY <1>1, StateFacts DEF vars, RowsType, TokensHaveSession, SingleLiveToken
  <2>2. RowsKept({})
    BY <1>1, StateFacts DEF vars, RowsKept, RequestOK, RotationKnows
  <2> QED
    BY <2>1, <2>2, ClockKeeps DEF RowsStep
<1>2. ASSUME NEW r \in Request, Arrival(r)
      PROVE  IndInv'
  BY <1>2, LoginReadKeeps, SocialReadKeeps, RefreshFindKeeps, ValidateBlocklistKeeps,
     RevokeSessionStartKeeps, AccountReadKeeps DEF Arrival
<1>3. ASSUME NEW r \in Request, Progress(r)
      PROVE  IndInv'
  BY <1>3, LoginRehashKeeps, LoginChecksKeeps, CreateSessionKeeps, CreateTokenKeeps,
     RefreshLoadUserKeeps, RefreshLoadSessionKeeps, RotateConsumeKeeps, RotateCommitKeeps,
     RevokeFamilySnapshotKeeps, RevokeFamilyApplyKeeps, RevokeFamilySessionKeeps,
     ValidateUserKeeps, ValidateSessionKeeps, RevokeSessionSnapshotKeeps,
     RevokeSessionCommitKeeps, LogoutBlocklistKeeps, AccountSnapshotKeeps,
     AccountCommitKeeps, InsertFailsKeeps, RespondKeeps DEF Progress
<1>4. ASSUME NEW r \in Request, CompleteMfaLogin(r) \/ ChallengeExpires(r) \/ Abort(r)
      PROVE  IndInv'
  BY <1>4, CompleteMfaLoginKeeps, ChallengeExpiresKeeps, AbortKeeps
<1>5. ASSUME NEW f \in Family, SessionExpires(f)
      PROVE  IndInv'
  BY <1>5, SessionExpiresKeeps
<1>6. ASSUME NEW t \in Token, TokenExpires(t)
      PROVE  IndInv'
  BY <1>6, TokenExpiresKeeps
<1> QED
  BY <1>1, <1>2, <1>3, <1>4, <1>5, <1>6 DEF Next

\* The inductive invariant holds in every reachable state.
THEOREM Invariant == Spec => []IndInv
<1>1. Init => IndInv
  BY InitIndInv
<1>2. IndInv /\ [Next]_vars => IndInv'
  BY NextKeeps
<1> QED
  BY <1>1, <1>2, PTL DEF Spec

\* Rows, locals and labels keep their types.
THEOREM TypeCorrect == Spec => []TypeOK
<1>1. IndInv => TypeOK
  BY DEF IndInv
<1> QED
  BY <1>1, Invariant, PTL

\* However many refreshes race on a family, at most one of its refresh tokens can
\* be exchanged.
THEOREM OneLiveToken == Spec => []SingleLiveToken
<1>1. IndInv => SingleLiveToken
  BY DEF IndInv
<1> QED
  BY <1>1, Invariant, PTL

\* No refresh or access token is honoured once its session was revoked or expired
\* when it was presented.
THEOREM DeadSessionsRefused == Spec => []RevokedSessionRefused
<1>1. IndInv => RevokedSessionRefused
  BY DEF IndInv, RequestOK, DoomedStaysOut, RevokedSessionRefused
<1> QED
  BY <1>1, Invariant, PTL

-----------------------------------------------------------------------------
(* Rotation refines the token chain of TokenFamily.                        *)

\* A step that leaves every token in its family and state is a stutter.
LEMMA ChainStutters ==
  ASSUME \A t \in Token : tokens'[t].family = tokens[t].family
                          /\ tokens'[t].state = tokens[t].state
  PROVE  UNCHANGED Chain!familyVars
<1>1. \A f \in Family : LiveTokens(f)' = LiveTokens(f)
  BY DEF LiveTokens
<1> QED
  BY <1>1 DEF Chain!familyVars

\* Revoking rows is the abstract Revoke.
LEMMA ChainRevokes ==
  ASSUME IndInv, NEW S, tokens' = Revoked(S)
  PROVE  Chain!FamilyNext
<1>0. PICK D \in SUBSET Token : D = {t \in Token : t \in S /\ tokens[t].state = "live"}
  OBVIOUS
<1>1. \A t \in Token :
        /\ tokens'[t].family = tokens[t].family
        /\ tokens'[t].state = IF t \in D THEN "revoked" ELSE tokens[t].state
  BY <1>0, StateFacts, RevokedType
<1>2. D \subseteq UNION {LiveTokens(f) : f \in Family}
  BY <1>0, StateFacts DEF LiveTokens
<1>3. \A f \in Family : LiveTokens(f)' = LiveTokens(f) \ D
  BY <1>1 DEF LiveTokens
<1>4. {t \in Token : tokens'[t].state = "revoked"}
        = {t \in Token : tokens[t].state = "revoked"} \cup D
  BY <1>1
<1>5. {f \in Family : \E t \in Token : tokens'[t].family = f}
        = {f \in Family : \E t \in Token : tokens[t].family = f}
  BY <1>1
<1>6. Chain!Revoke(D)
  BY <1>2, <1>3, <1>4, <1>5 DEF Chain!Revoke
<1> QED
  BY <1>6 DEF Chain!FamilyNext

\* An unused token is fresh.
LEMMA ChainFresh ==
  ASSUME NEW t \in Token, tokens[t].state = "unused"
  PROVE  Chain!Fresh(t)
  BY DEF Chain!Fresh, LiveTokens

\* The first token of a session opens its family.
LEMMA ChainOpens ==
  ASSUME IndInv, NEW r \in Request, CreateToken(r)
  PROVE  Chain!FamilyNext
<1>1. PICK t \in Token, f \in {ctx[r].family} :
        /\ tokens[t].state = "unused" /\ f = ctx[r].family
        /\ tokens' = [tokens EXCEPT ![t] = NewToken(f)]
  BY DEF CreateToken
<1>2. RequestOK("createToken", ctx[r])
  BY StateFacts DEF CreateToken
<1>3. f \in Family /\ \A s \in Token : tokens[s].family # f
  BY <1>1, <1>2 DEF RequestOK, LocalsSet, OpeningFresh, WithFamily
<1>4. /\ tokens'[t].family = f /\ tokens'[t].state = "live"
      /\ \A s \in Token \ {t} : tokens'[s] = tokens[s]
  BY <1>1, <1>3, StateFacts, NewTokenRow
<1>5. tokens[t].family \notin Family
  BY <1>1, StateFacts, SessionsAssumption DEF TokensHaveSession
<1>6. LiveTokens(f)' = {t} /\ \A g \in Family \ {f} : LiveTokens(g)' = LiveTokens(g)
  BY <1>1, <1>3, <1>4 DEF LiveTokens
<1>7. {s \in Token : tokens'[s].state = "revoked"} = {s \in Token : tokens[s].state = "revoked"}
  BY <1>1, <1>4
<1>8. {g \in Family : \E s \in Token : tokens'[s].family = g}
        = {g \in Family : \E s \in Token : tokens[s].family = g} \cup {f}
  BY <1>3, <1>4, <1>5
<1>9. f \notin {g \in Family : \E s \in Token : tokens[s].family = g}
  BY <1>3
<1>10. [g \in Family |-> LiveTokens(g)'] = [[g \in Family |-> LiveTokens(g)] EXCEPT ![f] = {t}]
  BY <1>3, <1>6
<1>11. Chain!Fresh(t)
  BY <1>1, ChainFresh
<1>12. Chain!Open(f, t)
  BY <1>7, <1>8, <1>9, <1>10, <1>11 DEF Chain!Open
<1> QED
  BY <1>3, <1>12 DEF Chain!FamilyNext

\* A rotation exchanges the only token of its family.
LEMMA ChainExchanges ==
  ASSUME IndInv, NEW r \in Request, RotateCommit(r)
  PROVE  Chain!FamilyNext
<1>0. PICK old, f : f = ctx[r].family /\ old = ctx[r].token
  OBVIOUS
<1>1. PICK t \in Token :
        /\ tokens[t].state = "unused"
        /\ tokens' = [tokens EXCEPT
              ![old] = [@ EXCEPT !.state = "revoked"],
              ![t] = NewToken(f)]
  <2>1. PICK t \in Token : RotateCommit(r)!2!(t)
    BY DEF RotateCommit
  <2> QED
    BY <1>0, <2>1, Zenon
<1>2. RequestOK("commitRotation", ctx[r])
  BY StateFacts DEF RotateCommit
<1>3. /\ f \in Family
      /\ old \in Token /\ tokens[old].family = f /\ tokens[old].state = "live"
  BY <1>0, <1>2 DEF RequestOK, LocalsSet, RotationKnows, WithFamily, WithToken, Rotating
<1>4. /\ tokens'[t].family = f /\ tokens'[t].state = "live"
      /\ tokens'[old].family = f /\ tokens'[old].state = "revoked"
      /\ \A s \in Token \ {t, old} : tokens'[s] = tokens[s]
  BY <1>1, <1>3, StateFacts, NewTokenRow DEF TokenRow
<1>5. tokens[t].family \notin Family
  BY <1>1, StateFacts, SessionsAssumption DEF TokensHaveSession
<1>6. LiveTokens(f) = {old}
  BY <1>3, StateFacts DEF SingleLiveToken, LiveTokens
<1>7. LiveTokens(f)' = {t} /\ \A g \in Family \ {f} : LiveTokens(g)' = LiveTokens(g)
  <2>1. \A s \in Token : tokens[s].state = "live" /\ tokens[s].family = f => s = old
    BY <1>6 DEF LiveTokens
  <2> QED
    BY <1>1, <1>3, <1>4, <2>1 DEF LiveTokens
<1>8. {s \in Token : tokens'[s].state = "revoked"}
        = {s \in Token : tokens[s].state = "revoked"} \cup {old}
  BY <1>1, <1>3, <1>4
<1>9. {g \in Family : \E s \in Token : tokens'[s].family = g}
        = {g \in Family : \E s \in Token : tokens[s].family = g}
  BY <1>3, <1>4, <1>5
<1>10. [g \in Family |-> LiveTokens(g)'] = [[g \in Family |-> LiveTokens(g)] EXCEPT ![f] = {t}]
  BY <1>3, <1>7
<1>11. Chain!Fresh(t)
  BY <1>1, ChainFresh
<1>12. [g \in Family |-> LiveTokens(g)][f] = {old}
  BY <1>3, <1>6
<1>13. Chain!Exchange(f, old, t)
  BY <1>8, <1>9, <1>10, <1>11, <1>12 DEF Chain!Exchange
<1> QED
  BY <1>3, <1>13 DEF Chain!FamilyNext

\* What a step does to the tokens.
LEMMA TokenSteps ==
  ASSUME IndInv, [Next]_vars
  PROVE  \/ tokens' = tokens
         \/ \E S : tokens' = Revoked(S)
         \/ \E t \in Token : TokenExpires(t)
         \/ \E r \in Request : CreateToken(r) \/ RotateCommit(r)
<1>1. CASE UNCHANGED vars
  BY <1>1 DEF vars
<1>2. ASSUME NEW r \in Request, Arrival(r)
      PROVE  tokens' = tokens
  BY <1>2 DEF Arrival, LoginRead, SocialRead, RefreshFind, ValidateBlocklist,
     RevokeSessionStart, AccountRead, dbVars
<1>3. ASSUME NEW r \in Request, CompleteMfaLogin(r) \/ ChallengeExpires(r) \/ Abort(r)
      PROVE  tokens' = tokens
  BY <1>3 DEF CompleteMfaLogin, ChallengeExpires, Abort, dbVars
<1>4. ASSUME NEW r \in Request, Progress(r)
      PROVE  \/ tokens' = tokens
             \/ \E S : tokens' = Revoked(S)
             \/ CreateToken(r) \/ RotateCommit(r)
  BY <1>4 DEF Progress, LoginRehash, LoginChecks, CreateSession, RefreshLoadUser,
     RefreshLoadSession, RotateConsume, RevokeFamilySnapshot, RevokeFamilyApply,
     RevokeFamilySession, ValidateUser, ValidateSession, RevokeSessionSnapshot,
     RevokeSessionCommit, LogoutBlocklist, AccountSnapshot, AccountCommit, InsertFails,
     Respond, dbVars
<1>5. ASSUME NEW f \in Family, SessionExpires(f)
      PROVE  tokens' = tokens
  BY <1>5 DEF SessionExpires
<1> QED
  BY <1>1, <1>2, <1>3, <1>4, <1>5 DEF Next

LEMMA ChainStep ==
  ASSUME IndInv, [Next]_vars
  PROVE  [Chain!FamilyNext]_(Chain!familyVars)
<1>1. CASE tokens' = tokens
  BY <1>1, ChainStutters
<1>2. ASSUME NEW S, tokens' = Revoked(S)
      PROVE  Chain!FamilyNext
  BY <1>2, ChainRevokes
<1>3. ASSUME NEW t \in Token, TokenExpires(t)
      PROVE  UNCHANGED Chain!familyVars
  <2>1. \A s \in Token : tokens'[s].family = tokens[s].family /\ tokens'[s].state = tokens[s].state
    BY <1>3, StateFacts DEF TokenExpires, TokenRow
  <2> QED
    BY <2>1, ChainStutters
<1> QED
  BY <1>1, <1>2, <1>3, TokenSteps, ChainOpens, ChainExchanges

LEMMA ChainInit ==
  ASSUME Init
  PROVE  Chain!FamilyInit
<1>1. None \notin Family
  BY SessionsAssumption
<1>2. \A f \in Family : LiveTokens(f) = {}
  BY DEF Init, LiveTokens
<1>3. {t \in Token : tokens[t].state = "revoked"} = {}
      /\ {f \in Family : \E t \in Token : tokens[t].family = f} = {}
  BY <1>1 DEF Init
<1> QED
  BY <1>2, <1>3 DEF Chain!FamilyInit

\* Refresh-token rotation, with its races, crashes and revocations, implements
\* the token chain: a token is exchanged at most once and never comes back.
THEOREM RotationRefinesChain == Spec => ImplementsTokenFamily
<1>1. Init => Chain!FamilyInit
  BY ChainInit
<1>2. IndInv /\ [Next]_vars => [Chain!FamilyNext]_(Chain!familyVars)
  BY ChainStep
<1> QED
  BY <1>1, <1>2, Invariant, PTL DEF Spec, ImplementsTokenFamily, Chain!FamilySpec

-----------------------------------------------------------------------------
(* The token a revocation missed.                                          *)

\* A dead session is not brought back.
DeadKept == \A f \in Family : Dead(f) => Dead(f)'

\* No token changes family or comes back from being revoked.
TokensKept ==
    \A t \in Token :
        /\ tokens'[t].family = tokens[t].family
        /\ tokens'[t].late = tokens[t].late
        /\ tokens[t].state = "revoked" => tokens'[t].state = "revoked"

\* A request that is rotating was, with the same token, or was just given one and
\* knows whether its session is dead.
RequestsKept ==
    \A r \in Request : pc'[r] \in Rotating =>
        \/ /\ pc[r] \in Rotating
           /\ ctx'[r].token = ctx[r].token /\ ctx'[r].doomed = ctx[r].doomed
        \/ \A t \in Token : ctx'[r].token = t /\ tokens[t].late => ctx'[r].doomed

LEMMA DeadStays ==
  ASSUME IndInv, [Next]_vars
  PROVE  DeadKept
<1>0. sessions \in [Family -> SessionRow]
  BY StateFacts
<1>1. CASE sessions' = sessions
  BY <1>1 DEF DeadKept, Dead
<1>2. CASE \E F : sessions' = SessionsRevoked(F)
  <2>1. PICK F : sessions' = SessionsRevoked(F)
    BY <1>2
  <2> QED
    BY <1>0, <2>1, SessionsRevokedType DEF DeadKept, Dead
<1>3. ASSUME NEW f \in Family, SessionExpires(f) PROVE DeadKept
  BY <1>0, <1>3 DEF DeadKept, Dead, SessionExpires, SessionActive, SessionRow
<1>4. ASSUME NEW r \in Request, CreateSession(r) PROVE DeadKept
  BY <1>0, <1>4 DEF CreateSession, DeadKept, Dead
<1>5. ASSUME NEW r \in Request, Arrival(r) PROVE sessions' = sessions
  BY <1>5 DEF Arrival, LoginRead, SocialRead, RefreshFind, ValidateBlocklist,
     RevokeSessionStart, AccountRead, dbVars
<1>6. ASSUME NEW r \in Request, CompleteMfaLogin(r) \/ ChallengeExpires(r) \/ Abort(r)
      PROVE  sessions' = sessions
  BY <1>6 DEF CompleteMfaLogin, ChallengeExpires, Abort, dbVars
<1>7. ASSUME NEW r \in Request, Progress(r)
      PROVE  \/ sessions' = sessions
             \/ \E F : sessions' = SessionsRevoked(F)
             \/ CreateSession(r)
  BY <1>7 DEF Progress, LoginRehash, LoginChecks, CreateToken, RefreshLoadUser,
     RefreshLoadSession, RotateConsume, RotateCommit, RevokeFamilySnapshot, RevokeFamilyApply,
     RevokeFamilySession, ValidateUser, ValidateSession, RevokeSessionSnapshot,
     RevokeSessionCommit, LogoutBlocklist, AccountSnapshot, AccountCommit, InsertFails,
     Respond, dbVars
<1>8. ASSUME NEW t \in Token, TokenExpires(t) PROVE sessions' = sessions
  BY <1>8 DEF TokenExpires
<1>9. CASE UNCHANGED vars
  BY <1>1, <1>9 DEF vars
<1> QED
  BY <1>1, <1>2, <1>3, <1>4, <1>5, <1>6, <1>7, <1>8, <1>9 DEF Next

\* A token that is inserted is in nobody's hands yet.
LEMMA UnusedUnheld ==
  ASSUME IndInv, NEW t \in Token, tokens[t].state = "unused",
         NEW q \in Request, pc[q] \in Rotating
  PROVE  ctx[q].token # t
<1>1. tokens[t].family = None /\ None \notin Family
  BY StateFacts, SessionsAssumption DEF TokensHaveSession
<1>2. PICK m, y : m = pc[q] /\ y = ctx[q] /\ RequestOK(m, y)
  BY StateFacts
<1>3. y.family \in Family /\ tokens[y.token].family = y.family
  BY <1>2 DEF RequestOK, LocalsSet, RotationKnows, WithFamily
<1> QED
  BY <1>1, <1>2, <1>3

\* Steps that insert no token.
LEMMA LateKept ==
  ASSUME IndInv, LateInv, DeadKept, TokensKept, RequestsKept
  PROVE  LateInv'
<1> SUFFICES ASSUME NEW t \in Token, tokens'[t].late
             PROVE  /\ tokens'[t].family \in Family
                    /\ Dead(tokens[t].family)'
                    /\ \A s \in Token \ {t} : tokens'[s].family = tokens'[t].family =>
                          tokens'[s].state = "revoked" /\ ~tokens'[s].late
                    /\ \A r \in Request :
                          pc'[r] \in Rotating /\ ctx'[r].token = t => ctx'[r].doomed
  BY DEF LateInv
<1>1. tokens[t].late /\ tokens'[t].family = tokens[t].family
  BY DEF TokensKept
<1>2. tokens[t].family \in Family /\ Dead(tokens[t].family)
  BY <1>1 DEF LateInv
<1>3. Dead(tokens[t].family)'
  <2>1. PICK f \in Family : f = tokens[t].family
    BY <1>2
  <2>2. Dead(f)'
    BY <1>2, <2>1 DEF DeadKept
  <2> QED
    BY <1>1, <2>1, <2>2 DEF Dead
<1>4. ASSUME NEW s \in Token \ {t}, tokens'[s].family = tokens'[t].family
      PROVE  tokens'[s].state = "revoked" /\ ~tokens'[s].late
  <2>1. tokens[s].state = "revoked" /\ ~tokens[s].late
    BY <1>1, <1>4 DEF LateInv, TokensKept
  <2> QED
    BY <2>1 DEF TokensKept
<1>5. ASSUME NEW r \in Request, pc'[r] \in Rotating, ctx'[r].token = t
      PROVE  ctx'[r].doomed
  <2>1. CASE /\ pc[r] \in Rotating
             /\ ctx'[r].token = ctx[r].token /\ ctx'[r].doomed = ctx[r].doomed
    BY <1>1, <1>5, <2>1 DEF LateInv
  <2>2. CASE \A s \in Token : ctx'[r].token = s /\ tokens[s].late => ctx'[r].doomed
    BY <1>1, <1>5, <2>2
  <2> QED
    BY <1>5, <2>1, <2>2 DEF RequestsKept
<1> QED
  BY <1>1, <1>2, <1>3, <1>4, <1>5

\* A step inserts token t into family f, which is otherwise spent and had no late
\* token.
Inserts(t, f) ==
    /\ tokens[t].state = "unused" /\ tokens'[t] = NewToken(f)
    /\ \A s \in Token : tokens[s].family = f => ~tokens[s].late
    /\ \A s \in Token : s # t =>
          /\ tokens'[s].family = tokens[s].family
          /\ tokens'[s].late = tokens[s].late
          /\ tokens[s].state = "revoked" => tokens'[s].state = "revoked"
          /\ tokens[s].family = f => tokens'[s].state = "revoked"

LEMMA LateInserted ==
  ASSUME IndInv, LateInv, NEW r \in Request, NEW t \in Token, NEW f \in Family,
         Inserts(t, f), UNCHANGED sessions,
         Goto(r, "done"), \A q \in Request \ {r} : ctx'[q] = ctx[q]
  PROVE  LateInv'
<1>0. /\ tokens[t].state = "unused" /\ tokens'[t] = NewToken(f)
      /\ \A s \in Token : tokens[s].family = f => ~tokens[s].late
      /\ \A s \in Token : s # t =>
            /\ tokens'[s].family = tokens[s].family
            /\ tokens'[s].late = tokens[s].late
            /\ tokens[s].state = "revoked" => tokens'[s].state = "revoked"
            /\ tokens[s].family = f => tokens'[s].state = "revoked"
  BY DEF Inserts
<1>1. tokens'[t].family = f /\ tokens'[t].late = Dead(f)
  BY <1>0, StateFacts, NewTokenRow
<1>2. \A q \in Request : pc'[q] \in Rotating =>
         /\ pc[q] \in Rotating /\ ctx'[q].token # t
         /\ ctx'[q].token = ctx[q].token /\ ctx'[q].doomed = ctx[q].doomed
  <2>1. pc'[r] = "done" /\ \A q \in Request \ {r} : pc'[q] = pc[q]
    BY StateFacts DEF Goto
  <2>2. "done" \notin Rotating
    BY DEF Rotating
  <2> QED
    BY <1>0, <2>1, <2>2, UnusedUnheld
<1> SUFFICES ASSUME NEW u \in Token, tokens'[u].late
             PROVE  /\ tokens'[u].family \in Family
                    /\ Dead(tokens[u].family)'
                    /\ \A s \in Token \ {u} : tokens'[s].family = tokens'[u].family =>
                          tokens'[s].state = "revoked" /\ ~tokens'[s].late
                    /\ \A q \in Request :
                          pc'[q] \in Rotating /\ ctx'[q].token = u => ctx'[q].doomed
  BY DEF LateInv
<1>3. CASE u = t
  <2>1. Dead(f)'
    BY <1>1, <1>3 DEF Dead
  <2> QED
    BY <1>0, <1>1, <1>2, <1>3, <2>1 DEF Dead
<1>4. CASE u # t
  <2>1. tokens[u].late /\ tokens'[u].family = tokens[u].family /\ tokens[u].family # f
    BY <1>0, <1>4
  <2>2. tokens[u].family \in Family /\ Dead(tokens[u].family)
    BY <2>1 DEF LateInv
  <2>3. Dead(tokens[u].family)'
    BY <2>1, <2>2 DEF Dead
  <2>4. ASSUME NEW s \in Token \ {u}, tokens'[s].family = tokens'[u].family
        PROVE  tokens'[s].state = "revoked" /\ ~tokens'[s].late
    <3>1. s # t /\ tokens[s].family = tokens[u].family
      BY <1>0, <1>1, <2>1, <2>4
    <3>2. tokens[s].state = "revoked" /\ ~tokens[s].late
      BY <2>1, <3>1 DEF LateInv
    <3> QED
      BY <1>0, <3>1, <3>2
  <2>5. \A q \in Request : pc'[q] \in Rotating /\ ctx'[q].token = u => ctx'[q].doomed
    BY <1>2, <2>1 DEF LateInv
  <2> QED
    BY <2>1, <2>2, <2>3, <2>4, <2>5
<1> QED
  BY <1>3, <1>4

\* The first token of a family has no other beside it.
LEMMA CreateTokenLate ==
  ASSUME IndInv, LateInv, NEW r \in Request, CreateToken(r)
  PROVE  LateInv'
<1>1. PICK t \in Token, f \in {ctx[r].family} :
        /\ tokens[t].state = "unused" /\ f = ctx[r].family
        /\ tokens' = [tokens EXCEPT ![t] = NewToken(f)]
  BY DEF CreateToken
<1>2. RequestOK("createToken", ctx[r])
  BY StateFacts DEF CreateToken
<1>3. f \in Family /\ \A s \in Token : tokens[s].family # f
  BY <1>1, <1>2 DEF RequestOK, LocalsSet, OpeningFresh, WithFamily
<1>4. tokens'[t] = NewToken(f) /\ \A s \in Token \ {t} : tokens'[s] = tokens[s]
  BY <1>1, StateFacts
<1>5. UNCHANGED sessions /\ Goto(r, "done") /\ \A q \in Request \ {r} : ctx'[q] = ctx[q]
  BY StateFacts DEF CreateToken, Finish
<1>6. Inserts(t, f)
  BY <1>1, <1>3, <1>4 DEF Inserts
<1> QED
  BY <1>3, <1>5, <1>6, LateInserted

\* A rotation that commits was not doomed, so the token it held was not late, and
\* as that one was live no other of the family was late either.
LEMMA RotateCommitLate ==
  ASSUME IndInv, LateInv, NEW r \in Request, RotateCommit(r)
  PROVE  LateInv'
<1>0. PICK old, f : f = ctx[r].family /\ old = ctx[r].token
  OBVIOUS
<1>1. PICK t \in Token :
        /\ tokens[t].state = "unused"
        /\ tokens' = [tokens EXCEPT
              ![old] = [@ EXCEPT !.state = "revoked"],
              ![t] = NewToken(f)]
  <2>1. PICK t \in Token : RotateCommit(r)!2!(t)
    BY DEF RotateCommit
  <2> QED
    BY <1>0, <2>1, Zenon
<1>2. RequestOK("commitRotation", ctx[r]) /\ pc[r] \in Rotating
  BY StateFacts DEF RotateCommit, Rotating
<1>3. /\ f \in Family
      /\ old \in Token /\ tokens[old].family = f /\ tokens[old].state = "live"
      /\ ~ctx[r].doomed
  BY <1>0, <1>2 DEF RequestOK, LocalsSet, RotationKnows, DoomedStaysOut, WithFamily, WithToken,
                    Rotating
<1>4. /\ tokens'[t] = NewToken(f)
      /\ tokens'[old] = [tokens[old] EXCEPT !.state = "revoked"]
      /\ \A s \in Token \ {t, old} : tokens'[s] = tokens[s]
  BY <1>1, <1>3, StateFacts
<1>5. ~tokens[old].late
  BY <1>0, <1>2, <1>3 DEF LateInv
<1>6. \A s \in Token : tokens[s].family = f => ~tokens[s].late
  BY <1>3, <1>5 DEF LateInv
<1>7. /\ tokens'[old].family = f /\ tokens'[old].state = "revoked"
      /\ tokens'[old].late = tokens[old].late
  BY <1>3, <1>4, StateFacts DEF TokenRow
<1>8. \A s \in Token \ {t, old} : tokens[s].family = f => tokens[s].state = "revoked"
  <2>1. \A s \in Token : tokens[s].family = f => tokens[s].state \in {"live", "revoked"}
    BY <1>3, StateFacts, RowFields, SessionsAssumption DEF TokensHaveSession
  <2> QED
    BY <1>3, <2>1, StateFacts DEF SingleLiveToken
<1>9. UNCHANGED sessions /\ Goto(r, "done") /\ \A q \in Request \ {r} : ctx'[q] = ctx[q]
  BY StateFacts DEF RotateCommit, Finish
<1>10. ASSUME NEW s \in Token, s # t
       PROVE  /\ tokens'[s].family = tokens[s].family
              /\ tokens'[s].late = tokens[s].late
              /\ tokens[s].state = "revoked" => tokens'[s].state = "revoked"
              /\ tokens[s].family = f => tokens'[s].state = "revoked"
  <2>1. CASE s = old
    BY <1>3, <1>7, <2>1
  <2>2. CASE s # old
    <3>1. tokens'[s] = tokens[s] /\ (tokens[s].family = f => tokens[s].state = "revoked")
      BY <1>4, <1>8, <1>10, <2>2
    <3> QED
      BY <3>1
  <2> QED
    BY <2>1, <2>2
<1>11. tokens[t].state = "unused" /\ tokens'[t] = NewToken(f)
  BY <1>1, <1>4
<1>12. Inserts(t, f)
  BY <1>6, <1>10, <1>11, Zenon DEF Inserts
<1> QED
  BY <1>3, <1>9, <1>12, LateInserted

\* What the requests do apart from inserting tokens.
LEMMA LateRequests ==
  ASSUME IndInv, LateInv, [Next]_vars
  PROVE  RequestsKept
<1> DEFINE Leaves(r) ==
      /\ \E l : l \notin Rotating /\ pc' = [pc EXCEPT ![r] = l]
      /\ \E x : ctx' = [ctx EXCEPT ![r] = x]
<1>0. ASSUME NEW r \in Request, Leaves(r) PROVE RequestsKept
  <2>1. PICK l, x : l \notin Rotating /\ pc' = [pc EXCEPT ![r] = l] /\ ctx' = [ctx EXCEPT ![r] = x]
    BY <1>0
  <2>2. pc'[r] = l /\ \A q \in Request \ {r} : pc'[q] = pc[q] /\ ctx'[q] = ctx[q]
    BY <2>1, StateFacts
  <2> QED
    BY <2>1, <2>2 DEF RequestsKept
<1>1. CASE UNCHANGED <<pc, ctx>>
  BY <1>1 DEF RequestsKept
<1>2. ASSUME NEW r \in Request, RefreshFind(r) PROVE RequestsKept
  <2>0. PICK t \in Token : RefreshFind(r)!2!(t)
    BY <1>2 DEF RefreshFind
  <2>1. PICK y \in {Known("refresh", t), Answered(Known("refresh", t), "refused")} :
          ctx' = [ctx EXCEPT ![r] = y]
    BY <2>0
  <2>2. ctx'[r] = y /\ \A q \in Request \ {r} : pc'[q] = pc[q] /\ ctx'[q] = ctx[q]
    BY <1>2, <2>1, StateFacts DEF RefreshFind, Goto
  <2>3. y.token = t /\ (Dead(tokens[t].family) => y.doomed)
    BY DEF Known, NoLocals, Answered, Dead
  <2>4. \A s \in Token : ctx'[r].token = s /\ tokens[s].late => ctx'[r].doomed
    BY <2>2, <2>3 DEF LateInv
  <2> QED
    BY <2>2, <2>4 DEF RequestsKept
<1>3. ASSUME NEW r \in Request, Arrival(r) PROVE RequestsKept
  <2>1. ASSUME LoginRead(r) \/ SocialRead(r) PROVE Leaves(r)
    BY <2>1 DEF LoginRead, SocialRead, Goto, Rotating
  <2>2. ASSUME ValidateBlocklist(r) \/ RevokeSessionStart(r) \/ AccountRead(r) PROVE Leaves(r)
    BY <2>2 DEF ValidateBlocklist, RevokeSessionStart, AccountRead, Goto, Rotating
  <2> QED
    BY <1>0, <1>2, <1>3, <2>1, <2>2 DEF Arrival
<1>4. ASSUME NEW r \in Request, Progress(r) PROVE RequestsKept
  <2>0. ctx = [ctx EXCEPT ![r] = ctx[r]]
    BY StateFacts
  <2>1. ASSUME LoginRehash(r) \/ LoginChecks(r) \/ CreateSession(r) \/ CreateToken(r)
               \/ RotateCommit(r)
        PROVE  Leaves(r)
    BY <2>0, <2>1 DEF LoginRehash, LoginChecks, CreateSession, CreateToken, RotateCommit,
                      Goto, Finish, Rotating
  <2>2. ASSUME RevokeFamilySnapshot(r) \/ RevokeFamilyApply(r) \/ RevokeFamilySession(r)
               \/ RevokeSessionSnapshot(r) \/ RevokeSessionCommit(r)
        PROVE  Leaves(r)
    BY <2>0, <2>2 DEF RevokeFamilySnapshot, RevokeFamilyApply, RevokeFamilySession,
                      RevokeSessionSnapshot, RevokeSessionCommit, Goto, Finish, Rotating
  <2>3. ASSUME ValidateUser(r) \/ ValidateSession(r) \/ InsertFails(r) \/ Respond(r)
               \/ LogoutBlocklist(r)
        PROVE  Leaves(r)
    BY <2>0, <2>3 DEF ValidateUser, ValidateSession, InsertFails, Respond, LogoutBlocklist,
                      Goto, Finish, Rotating
  <2>4. ASSUME AccountSnapshot(r) \/ AccountCommit(r) PROVE Leaves(r)
    BY <2>0, <2>4 DEF AccountSnapshot, AccountCommit, Goto, Finish, Rotating
  <2>5. ASSUME RefreshLoadUser(r) \/ RefreshLoadSession(r) \/ RotateConsume(r)
        PROVE  RequestsKept
    <3>1. pc[r] \in Rotating
      BY <2>5 DEF RefreshLoadUser, RefreshLoadSession, RotateConsume, Rotating
    <3>2. CASE Finish(r, "refused")
      BY <1>0, <3>2 DEF Finish, Goto, Rotating
    <3>3. CASE UNCHANGED ctx
      <4>1. \A q \in Request \ {r} : pc'[q] = pc[q]
        BY <2>5, StateFacts DEF RefreshLoadUser, RefreshLoadSession, RotateConsume, Goto, Finish
      <4> QED
        BY <3>1, <3>3, <4>1 DEF RequestsKept
    <3> QED
      BY <2>5, <3>2, <3>3 DEF RefreshLoadUser, RefreshLoadSession, RotateConsume
  <2> QED
    BY <1>0, <1>4, <2>1, <2>2, <2>3, <2>4, <2>5 DEF Progress
<1>5. ASSUME NEW r \in Request, CompleteMfaLogin(r) \/ ChallengeExpires(r) \/ Abort(r)
      PROVE  RequestsKept
  <2>1. Leaves(r)
    BY <1>5 DEF CompleteMfaLogin, ChallengeExpires, Abort, Goto, Finish, Rotating
  <2> QED
    BY <1>0, <2>1
<1> QED
  BY <1>1, <1>3, <1>4, <1>5 DEF Next, vars, SessionExpires, TokenExpires

LEMMA LateNext ==
  ASSUME IndInv, LateInv, [Next]_vars
  PROVE  LateInv'
<1>1. CASE TokensKept
  BY <1>1, DeadStays, LateRequests, LateKept
<1>2. ASSUME tokens' = tokens PROVE TokensKept
  BY <1>2 DEF TokensKept
<1>3. ASSUME NEW S, tokens' = Revoked(S) PROVE TokensKept
  BY <1>3, StateFacts DEF TokensKept, Revoked, TokenRow
<1>4. ASSUME NEW t \in Token, TokenExpires(t) PROVE TokensKept
  BY <1>4, StateFacts DEF TokenExpires, TokensKept, TokenRow
<1> QED
  BY <1>1, <1>2, <1>3, <1>4, TokenSteps, CreateTokenLate, RotateCommitLate

\* However revocations, rotations and logins race, at most one token ever enters a
\* family after its session died.
THEOREM LateTokenIsLast == Spec => []OneLateToken
<1>1. Init => LateInv
  BY DEF Init, LateInv
<1>2. IndInv /\ LateInv /\ [Next]_vars => LateInv'
  BY LateNext
<1>3. LateInv => OneLateToken
  BY DEF LateInv, OneLateToken
<1> QED
  BY <1>1, <1>2, <1>3, Invariant, PTL DEF Spec

-----------------------------------------------------------------------------
(* The second factor, with the repository as it is.                        *)

\* No login in flight was told that its account has MFA on, so none was asked.
Unasked ==
    /\ \A f \in Family : ~sessions[f].second
    /\ \A r \in Request :
          /\ pc[r] \in {"rehash", "checks"} => ~ctx[r].row.mfa
          /\ pc[r] # "challenged"
          /\ ~ctx[r].second

\* Only the end of a challenge checks a second factor.
UnaskedRequest(l, x) == /\ l \in {"rehash", "checks"} => ~x.row.mfa
                        /\ l # "challenged"
                        /\ ~x.second

\* Request r goes to l, the others stay, and no session gains a second factor.
LEMMA UnaskedStep ==
  ASSUME IndInv, Unasked, NEW r \in Request, NEW l, NEW x, Moves(r, l, x),
         UnaskedRequest(l, x), \A f \in Family : ~sessions'[f].second
  PROVE  Unasked'
<1>1. /\ pc'[r] = l /\ ctx'[r] = x
      /\ \A q \in Request \ {r} : pc'[q] = pc[q] /\ ctx'[q] = ctx[q]
  BY StateFacts DEF Moves
<1> QED
  BY <1>1 DEF Unasked, UnaskedRequest

\* The row a login reads never says that MFA is on.
LEMMA UnaskedRead ==
  ASSUME IndInv, Unasked, ~RepositoryMapsMfa, NEW r \in Request,
         LoginRead(r) \/ SocialRead(r)
  PROVE  Unasked'
<1>1. PICK u \in User, op \in Operations, l \in {"rehash", "checks"} :
        /\ ctx' = [ctx EXCEPT ![r] = [NoLocals EXCEPT !.op = op, !.user = u,
                                         !.row = ReadRow(u), !.due = users[u].mfa]]
        /\ pc' = [pc EXCEPT ![r] = l]
  <2>1. CASE LoginRead(r)
    BY <2>1 DEF LoginRead, Goto, Operations
  <2>2. CASE SocialRead(r)
    BY <2>2 DEF SocialRead, Goto, Operations
  <2> QED
    BY <2>1, <2>2
<1>2. ~ReadRow(u).mfa
  <2>1. PICK row \in UserRow : row = users[u]
    BY StateFacts
  <2>2. ReadRow(u) = [row EXCEPT !.mfa = FALSE]
    BY <2>1 DEF ReadRow
  <2> QED
    BY <2>1, <2>2 DEF UserRow
<1>3. PICK row, due : row = ReadRow(u) /\ due = users[u].mfa
  OBVIOUS
<1>4. PICK x : x = [NoLocals EXCEPT !.op = op, !.user = u, !.row = row, !.due = due]
  OBVIOUS
<1>5. UnaskedRequest(l, x) /\ Moves(r, l, x)
  BY <1>1, <1>2, <1>3, <1>4 DEF UnaskedRequest, NoLocals, Moves
<1>6. \A f \in Family : ~sessions'[f].second
  BY DEF Unasked, LoginRead, SocialRead, dbVars
<1> QED
  BY <1>5, <1>6, UnaskedStep

LEMMA UnaskedNext ==
  ASSUME IndInv, Unasked, ~RepositoryMapsMfa, [Next]_vars
  PROVE  Unasked'
<1> DEFINE Quiet(r) ==
      /\ \E l : l \notin {"rehash", "checks", "challenged"} /\ pc' = [pc EXCEPT ![r] = l]
      /\ \E x : ctx' = [ctx EXCEPT ![r] = x] /\ ~x.second
      /\ \/ sessions' = sessions
         \/ \E F : sessions' = SessionsRevoked(F)
<1>0. ASSUME NEW r \in Request, Quiet(r) PROVE Unasked'
  <2>1. PICK l, x : /\ l \notin {"rehash", "checks", "challenged"} /\ ~x.second
                    /\ Moves(r, l, x)
    BY <1>0 DEF Moves
  <2>2. \A f \in Family : ~sessions'[f].second
    BY <1>0, StateFacts DEF Unasked, SessionsRevoked, SessionRow
  <2> QED
    BY <2>1, <2>2, UnaskedStep DEF UnaskedRequest
<1>1. CASE UNCHANGED vars
  BY <1>1 DEF vars, Unasked
<1>2. \A r \in Request : ctx[r] \in Locals /\ ~ctx[r].second /\ ~NoLocals.second
                          /\ ctx = [ctx EXCEPT ![r] = ctx[r]]
  BY StateFacts DEF Unasked, NoLocals
<1>3. \A x \in Locals : ~x.second =>
        \A out, S, F, f : /\ ~Answered(x, out).second
                          /\ ~[x EXCEPT !.deadTokens = S].second
                          /\ ~[x EXCEPT !.deadFamilies = F, !.deadTokens = S].second
                          /\ ~[x EXCEPT !.family = f].second
  BY DEF Locals, Answered
<1>4. \A op, t, u, f, row :
        /\ ~Known(op, t).second /\ ~Answered(Known(op, t), "refused").second
        /\ ~[NoLocals EXCEPT !.op = op, !.token = t, !.family = f].second
        /\ ~[NoLocals EXCEPT !.op = op, !.user = u, !.row = row].second
  BY DEF Known, Answered, NoLocals
<1>5. ASSUME NEW r \in Request, Arrival(r) PROVE Unasked'
  <2>1. ASSUME RefreshFind(r) PROVE Quiet(r)
    BY <1>4, <2>1 DEF RefreshFind, Goto, dbVars
  <2>2. ASSUME ValidateBlocklist(r) PROVE Quiet(r)
    BY <1>4, <2>2 DEF ValidateBlocklist, Goto, dbVars
  <2>3. ASSUME RevokeSessionStart(r) PROVE Quiet(r)
    <3>1. PICK op, t, f : ctx' = [ctx EXCEPT ![r] =
                            [NoLocals EXCEPT !.op = op, !.token = t, !.family = f]]
      BY <2>3 DEF RevokeSessionStart
    <3>2. PICK x : x = [NoLocals EXCEPT !.op = op, !.token = t, !.family = f] /\ ~x.second
      BY <1>4
    <3> QED
      BY <2>3, <3>1, <3>2 DEF RevokeSessionStart, Goto, dbVars
  <2>4. ASSUME AccountRead(r) PROVE Quiet(r)
    <3>1. PICK op, u, row : ctx' = [ctx EXCEPT ![r] =
                              [NoLocals EXCEPT !.op = op, !.user = u, !.row = row]]
      BY <2>4 DEF AccountRead
    <3>2. PICK x : x = [NoLocals EXCEPT !.op = op, !.user = u, !.row = row] /\ ~x.second
      BY <1>4
    <3> QED
      BY <2>4, <3>1, <3>2 DEF AccountRead, Goto, dbVars
  <2> QED
    BY <1>0, <1>5, <2>1, <2>2, <2>3, <2>4, UnaskedRead DEF Arrival
<1>6. ASSUME NEW r \in Request, Progress(r) PROVE Unasked'
  <2>1. ASSUME CreateToken(r) \/ RefreshLoadUser(r) \/ RefreshLoadSession(r)
               \/ RotateConsume(r) \/ RotateCommit(r)
        PROVE  Quiet(r)
    BY <1>2, <1>3, <2>1 DEF CreateToken, RefreshLoadUser, RefreshLoadSession, RotateConsume,
                      RotateCommit, Goto, Finish, dbVars
  <2>2. ASSUME RevokeFamilyApply(r) \/ RevokeFamilySession(r) PROVE Quiet(r)
    BY <1>2, <1>3, <2>2 DEF RevokeFamilyApply, RevokeFamilySession, Goto, Finish, dbVars
  <2>3. ASSUME ValidateUser(r) \/ ValidateSession(r) \/ InsertFails(r) \/ Respond(r)
               \/ LogoutBlocklist(r)
        PROVE  Quiet(r)
    BY <1>2, <1>3, <2>3 DEF ValidateUser, ValidateSession, InsertFails, Respond,
                      LogoutBlocklist, Goto, Finish, dbVars
  <2>4. ASSUME RevokeFamilySnapshot(r) \/ RevokeSessionSnapshot(r) PROVE Quiet(r)
    <3>1. PICK x : x = [ctx[r] EXCEPT !.deadTokens = LiveTokens(ctx[r].family)] /\ ~x.second
      BY <1>2, <1>3
    <3> QED
      BY <2>4, <3>1 DEF RevokeFamilySnapshot, RevokeSessionSnapshot, Goto, dbVars
  <2>5. ASSUME RevokeSessionCommit(r) \/ AccountCommit(r) PROVE Quiet(r)
    BY <1>2, <1>3, <2>5 DEF RevokeSessionCommit, AccountCommit, Goto, Finish, dbVars
  <2>9. ASSUME AccountSnapshot(r) PROVE Quiet(r)
    <3>1. CASE Finish(r, "refused")
      BY <1>2, <1>3, <2>9, <3>1 DEF AccountSnapshot, Goto, Finish, dbVars
    <3>2. CASE ~Finish(r, "refused")
      <4>1. PICK F, S : ctx' = [ctx EXCEPT ![r] = [@ EXCEPT !.deadFamilies = F, !.deadTokens = S]]
        BY <2>9, <3>2 DEF AccountSnapshot
      <4>2. PICK x : x = [ctx[r] EXCEPT !.deadFamilies = F, !.deadTokens = S] /\ ~x.second
        BY <1>2, <1>3
      <4> QED
        BY <2>9, <3>2, <4>1, <4>2 DEF AccountSnapshot, Goto, dbVars
    <3> QED
      BY <3>1, <3>2
  <2>6. ASSUME LoginRehash(r) PROVE Unasked'
    <3>1. Moves(r, "checks", ctx[r]) /\ sessions' = sessions
      BY <1>2, <2>6 DEF LoginRehash, Moves, Goto
    <3>2. UnaskedRequest("checks", ctx[r])
      BY <1>2, <2>6 DEF LoginRehash, Unasked, UnaskedRequest
    <3> QED
      BY <3>1, <3>2, UnaskedStep DEF Unasked
  <2>7. ASSUME LoginChecks(r) PROVE Quiet(r)
    <3>1. ~ctx[r].row.mfa
      BY <2>7 DEF LoginChecks, Unasked
    <3> QED
      BY <1>2, <1>3, <2>7, <3>1 DEF LoginChecks, Goto, Finish, dbVars
  <2>8. ASSUME CreateSession(r) PROVE Unasked'
    <3>1. PICK f \in Family : CreateSession(r)!2!(f)
      BY <2>8 DEF CreateSession
    <3>2. \A g \in Family : ~sessions'[g].second
      BY <1>2, <3>1, StateFacts DEF Unasked
    <3>3. PICK x : x = [ctx[r] EXCEPT !.family = f]
      OBVIOUS
    <3>4. Moves(r, "createToken", x) /\ UnaskedRequest("createToken", x)
      BY <1>2, <1>3, <2>8, <3>1, <3>3 DEF CreateSession, Moves, Goto, UnaskedRequest
    <3> QED
      BY <3>2, <3>4, UnaskedStep
  <2> QED
    BY <1>0, <1>6, <2>1, <2>2, <2>3, <2>4, <2>5, <2>6, <2>7, <2>8, <2>9 DEF Progress
<1>7. ASSUME NEW r \in Request, CompleteMfaLogin(r) PROVE FALSE
  BY <1>7 DEF CompleteMfaLogin, Unasked
<1>8. ASSUME NEW r \in Request, ChallengeExpires(r) \/ Abort(r) PROVE Unasked'
  <2>1. ASSUME ChallengeExpires(r) PROVE FALSE
    BY <2>1 DEF ChallengeExpires, Unasked
  <2>2. ASSUME Abort(r) PROVE Quiet(r)
    BY <1>2, <2>2 DEF Abort, Goto, dbVars
  <2> QED
    BY <1>0, <1>8, <2>1, <2>2
<1>9. ASSUME NEW f \in Family, SessionExpires(f) PROVE Unasked'
  BY <1>9, StateFacts DEF SessionExpires, Unasked, SessionRow
<1>10. ASSUME NEW t \in Token, TokenExpires(t) PROVE Unasked'
  BY <1>10 DEF TokenExpires, Unasked
<1> QED
  BY <1>1, <1>5, <1>6, <1>7, <1>8, <1>9, <1>10 DEF Next

\* With a repository that drops mfaEnabled, as the code's toDomain does, no login
\* is ever asked for the second factor: no session has one checked.
THEOREM SecondFactorNeverAsked ==
  ~RepositoryMapsMfa => (Spec => [](\A f \in Family : ~sessions[f].second))
<1> SUFFICES ASSUME ~RepositoryMapsMfa
             PROVE  Spec => [](\A f \in Family : ~sessions[f].second)
  OBVIOUS
<1>1. Init => Unasked
  BY DEF Init, Unasked, NoSession, NoLocals
<1>2. IndInv /\ Unasked /\ [Next]_vars => Unasked'
  BY UnaskedNext
<1>3. Unasked => \A f \in Family : ~sessions[f].second
  BY DEF Unasked
<1> QED
  BY <1>1, <1>2, <1>3, Invariant, PTL DEF Spec
=============================================================================
