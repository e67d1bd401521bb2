----------------------- MODULE VerificationTokensProofs -----------------------
(***************************************************************************)
(* What module VerificationTokens promises, for any number of requests in  *)
(* flight and of tokens drawn.                                             *)
(***************************************************************************)
EXTENDS VerificationTokens, FiniteSetTheorems, TLAPS

History ==
    [mailed: SUBSET Token, accepted: [Token -> {0, 1}],
     superseded: SUBSET Token, lost: BOOLEAN]

Drawing == {r \in Request : pc[r] \in {"latest", "delete", "deleting"}}

\* What the label l of request r says of its locals x, of the rows it has
\* chosen and of those it has locked.
RequestOK(r, l, x) ==
    /\ l \in {"latest", "delete", "deleting", "create"} => x.type \in Type
    /\ l = "create" => x.token \in 1..drawn /\ tokens[x.token].state = "none"
    /\ l = "mail" => x.token \in Token /\ tokens[x.token].state # "none"
    /\ l \in {"consume", "claim", "siblings", "marking"} =>
          x.token \in history.mailed /\ tokens[x.token].type = x.type
    /\ l \in {"siblings", "marking"} => lock[x.token] = r
    /\ l \in {"deleting", "marking"} =>
          /\ x.seen \subseteq x.known
          /\ \A t \in x.known : tokens[t].state # "none" /\ tokens[t].type = x.type
          /\ \A t \in x.known \ x.seen : lock[t] = r \/ tokens[t].state # "unused"
    /\ l = "marking" => x.token \notin x.known
    /\ \A t \in Token : lock[t] = r => tokens[t].type = x.type

\* No two requests insert one token.
CreateApart ==
    \A q, r \in Request :
        pc[q] = "create" /\ pc[r] = "create" /\ q # r => ctx[q].token # ctx[r].token

\* Tokens exist from their creation on, and are mailed and accepted after it.
RowsOK ==
    /\ \A t \in Token : tokens[t].state # "none" => t \in 1..drawn /\ tokens[t].type \in Type
    /\ \A t \in history.mailed : tokens[t].state # "none"
    /\ \A t \in Token : history.accepted[t] = 1 => tokens[t].state = "used" /\ t \in history.mailed

SupersededDead == \A t \in history.superseded : tokens[t].state \notin {"none", "unused"}

\* The link of a type that has been created and not accepted is still there, or
\* about to be inserted; where it is not mailed yet, it is about to be.
Surviving(type) ==
    \/ \E t \in Unused(type) :
          t \in history.mailed \/ \E r \in Request : pc[r] = "mail" /\ ctx[r].token = t
    \/ \E r \in Request : pc[r] = "create" /\ ctx[r].type = type

Created(type) == {t \in Token : tokens[t].state # "none" /\ tokens[t].type = type}

TypeSurvives ==
    \A type \in Type :
        /\ ~history.lost /\ Created(type) # {}
        /\ \A t \in Created(type) : history.accepted[t] = 0
        => Surviving(type)

IInv ==
    /\ TypeOK /\ history \in History
    /\ drawn + Cardinality(Drawing) <= MaxToken
    /\ \A r \in Request : RequestOK(r, pc[r], ctx[r])
    /\ CreateApart /\ RowsOK /\ SupersededDead /\ UsedMeansDone /\ TypeSurvives

-----------------------------------------------------------------------------
\* Rows once created keep their type, and none becomes unused again.
Onward ==
    \A t \in Token : tokens[t].state # "none" =>
        /\ tokens'[t].type = tokens[t].type
        /\ tokens'[t].state # "none"
        /\ tokens[t].state # "unused" => tokens'[t].state # "unused"

LEMMA InitIInv == Init => IInv
<1> SUFFICES ASSUME Init PROVE IInv
  OBVIOUS
<1>1. TypeOK
  BY VerificationAssumption DEF Init, TypeOK, AccountRow, TokenRow, Labels, Locals, NoLocals
<1>2. history \in History
  BY DEF Init, History
<1>3. drawn + Cardinality(Drawing) <= MaxToken
  <2>1. Drawing = {}
    BY DEF Init, Drawing
  <2> QED
    BY <2>1, FS_EmptySet, VerificationAssumption DEF Init
<1>4. \A r \in Request : RequestOK(r, pc[r], ctx[r])
  BY VerificationAssumption DEF Init, RequestOK
<1>5. CreateApart /\ RowsOK /\ SupersededDead /\ UsedMeansDone /\ TypeSurvives
  BY DEF Init, CreateApart, RowsOK, SupersededDead, UsedMeansDone, TypeSurvives, Created
<1> QED
  BY <1>1, <1>2, <1>3, <1>4, <1>5 DEF IInv

\* A request that does not move keeps what it knows while rows go onward and
\* its own locks and its own token stay.
LEMMA OthersKeep ==
    ASSUME IInv, NEW q \in Request, UNCHANGED <<pc[q], ctx[q]>>, Onward,
           drawn' \in Nat, drawn <= drawn', history.mailed \subseteq history'.mailed,
           \A t \in Token : lock'[t] = q <=> lock[t] = q,
           pc[q] = "create" => tokens'[ctx[q].token] = tokens[ctx[q].token]
    PROVE  RequestOK(q, pc[q], ctx[q])'
<1> DEFINE l == pc[q]
           x == ctx[q]
<1>1. /\ RequestOK(q, l, x) /\ l' = l /\ x' = x /\ x \in Locals
      /\ drawn \in Nat /\ 1..drawn \subseteq Token /\ history.mailed \subseteq Token
  BY VerificationAssumption DEF IInv, TypeOK, History, Token
<1>2. \A t \in history.mailed : tokens[t].state # "none"
  BY DEF IInv, RowsOK
<1>3. \A t \in Token : lock[t] = q => tokens[t].state # "none"
  BY DEF IInv, TypeOK
<1>4. l = "create" => tokens'[x.token] = tokens[x.token]
  OBVIOUS
<1>5. x.known \subseteq Token
  BY <1>1 DEF Locals
<1> HIDE DEF l, x
<1>6. RequestOK(q, l, x)'
  BY <1>1, <1>2, <1>3, <1>4, <1>5 DEF RequestOK, Onward
<1> QED
  BY <1>6 DEF l, x

\* The requests that are about to draw a token stay within the supply.
LEMMA SupplyKept ==
    ASSUME IInv, NEW r \in Request, NEW l, pc' = [pc EXCEPT ![r] = l], UNCHANGED drawn,
           l \in {"latest", "delete", "deleting"} => r \in Drawing \/ Supply
    PROVE  drawn' + Cardinality(Drawing') <= MaxToken
<1>1. /\ IsFiniteSet(Drawing) /\ Cardinality(Drawing) \in Nat
      /\ drawn \in Nat /\ MaxToken \in Nat /\ drawn + Cardinality(Drawing) <= MaxToken
  BY VerificationAssumption, FS_Subset, FS_CardinalityType DEF Drawing, IInv, TypeOK
<1>2. \A q \in Request : pc'[q] = IF q = r THEN l ELSE pc[q]
  BY DEF IInv, TypeOK
<1>3. CASE l \in {"latest", "delete", "deleting"}
  <2>1. Drawing' = Drawing \cup {r}
    BY <1>2, <1>3 DEF Drawing
  <2>2. Cardinality(Drawing') = IF r \in Drawing THEN Cardinality(Drawing) ELSE Cardinality(Drawing) + 1
    BY <1>1, <2>1, FS_AddElement
  <2>3. CASE r \in Drawing
    BY <1>1, <2>2, <2>3
  <2>4. CASE Supply
    BY <1>1, <2>2, <2>4 DEF Supply, Drawing
  <2> QED
    BY <1>3, <2>3, <2>4
<1>4. CASE l \notin {"latest", "delete", "deleting"}
  <2>1. Drawing' = Drawing \ {r}
    BY <1>2, <1>4 DEF Drawing
  <2>2. Cardinality(Drawing') = IF r \in Drawing THEN Cardinality(Drawing) - 1 ELSE Cardinality(Drawing)
    BY <1>1, <2>1, FS_RemoveElement
  <2> QED
    BY <1>1, <2>2
<1> QED
  BY <1>3, <1>4

\* A request moves between labels, locks rows or releases its own, and no row
\* changes.  From the labels after the DELETE it may only fail.
LEMMA Moves ==
    ASSUME IInv, NEW r \in Request, NEW l \in Labels \ {"create", "mail"}, NEW x \in Locals,
           pc' = [pc EXCEPT ![r] = l], ctx' = [ctx EXCEPT ![r] = x],
           account' \in AccountRow, UNCHANGED <<tokens, clock>>,
           history' \in History, history'.mailed = history.mailed,
           history'.accepted = history.accepted, history'.superseded = history.superseded,
           history.lost \/ pc[r] \in {"create", "mail"} => history'.lost,
           l \in {"latest", "delete", "deleting"} => r \in Drawing \/ Supply,
           lock' \in [Token -> Request \cup {None}],
           \A t \in Token, q \in Request \ {r} : lock'[t] = q <=> lock[t] = q,
           \A t \in Token : lock'[t] = r =>
               tokens[t].state = "unused" /\ l \in {"deleting", "siblings", "marking"},
           RequestOK(r, l, x)'
    PROVE  IInv'
<1> USE DEF IInv
<1>1. /\ \A q \in Request : pc'[q] = IF q = r THEN l ELSE pc[q]
      /\ \A q \in Request : ctx'[q] = IF q = r THEN x ELSE ctx[q]
  BY DEF TypeOK
<1>2. TypeOK'
  BY <1>1 DEF TypeOK, clock
<1>3. drawn' + Cardinality(Drawing') <= MaxToken
  BY SupplyKept DEF clock
<1>4. ASSUME NEW q \in Request PROVE RequestOK(q, pc[q], ctx[q])'
  <2>1. CASE q = r
    BY <1>1, <2>1
  <2>2. CASE q # r
    BY <1>1, <2>2, OthersKeep DEF Onward, clock, TypeOK
  <2> QED
    BY <2>1, <2>2
<1>5. CreateApart'
  BY <1>1 DEF CreateApart
<1>6. RowsOK' /\ SupersededDead' /\ UsedMeansDone'
  BY DEF RowsOK, SupersededDead, UsedMeansDone, clock
<1>7. TypeSurvives'
  <2> SUFFICES ASSUME NEW type \in Type, ~history'.lost, Created(type)' # {},
                      \A t \in Created(type)' : history'.accepted[t] = 0
               PROVE  Surviving(type)'
    BY DEF TypeSurvives
  <2>1. Created(type)' = Created(type) /\ ~history.lost /\ pc[r] \notin {"create", "mail"}
    BY DEF Created, History
  <2>2. Surviving(type)
    BY <2>1 DEF TypeSurvives
  <2> QED
    BY <1>1, <2>1, <2>2 DEF Surviving, Unused
<1> QED
  BY <1>2, <1>3, <1>4, <1>5, <1>6, <1>7

\* A request that ends without an effect gives its locks back.
LEMMA FinishKeeps ==
    ASSUME IInv, NEW r \in Request, Finish(r), lock' = Released(r),
           UNCHANGED <<account, tokens, clock>>,
           history' = [history EXCEPT !.lost = history'.lost], history'.lost \in BOOLEAN,
           history.lost \/ pc[r] \in {"create", "mail"} => history'.lost
    PROVE  IInv'
<1>1. NoLocals \in Locals /\ "idle" \in Labels \ {"create", "mail"}
  BY DEF NoLocals, Locals, Labels
<1>2. /\ account' \in AccountRow /\ history' \in History
      /\ history'.mailed = history.mailed /\ history'.accepted = history.accepted
      /\ history'.superseded = history.superseded
  BY DEF IInv, TypeOK, History
<1>3. /\ \A t \in Token : lock'[t] # r
      /\ \A t \in Token, q \in Request \ {r} : lock'[t] = q <=> lock[t] = q
      /\ lock' \in [Token -> Request \cup {None}]
  BY VerificationAssumption DEF Released, IInv, TypeOK
<1>4. RequestOK(r, "idle", NoLocals)'
  BY <1>3 DEF RequestOK
<1>5. pc' = [pc EXCEPT ![r] = "idle"] /\ ctx' = [ctx EXCEPT ![r] = NoLocals]
  BY DEF Finish, Goto
<1> QED
  BY <1>1, <1>2, <1>3, <1>4, <1>5, Moves

\* Outside its statements and transactions a request holds no row.
LEMMA HoldsNone ==
    ASSUME IInv, NEW r \in Request, pc[r] \notin {"deleting", "siblings", "marking"}
    PROVE  (\A t \in Token : lock[t] # r) /\ lock = Released(r)
BY DEF IInv, TypeOK, Released

\* A request for a link arrives.
LEMMA AskKeeps ==
    ASSUME IInv, NEW r \in Request, Register(r) \/ Resend(r) \/ Forgot(r)
    PROVE  IInv'
<1>1. /\ pc[r] = "idle" /\ Supply /\ account' \in AccountRow
      /\ UNCHANGED <<tokens, lock, clock, history>>
  BY DEF Register, Resend, Forgot, Arrives, rows, IInv, TypeOK, AccountRow
<1>2. PICK l \in {"latest", "delete"}, x \in Locals :
          /\ pc' = [pc EXCEPT ![r] = l]
          /\ ctx' = [ctx EXCEPT ![r] = x]
          /\ x.type \in Type
  <2>1. \A op \in {"register", "resend", "forgot"}, type \in Type :
            LET x == [NoLocals EXCEPT !.op = op, !.type = type]
            IN  x \in Locals /\ x.type \in Type
    BY DEF NoLocals, Locals, Operations
  <2> QED
    BY <2>1 DEF Register, Resend, Forgot, Goto, Type
<1>3. l \in Labels \ {"create", "mail"}
  BY DEF Labels
<1>4. RequestOK(r, l, x)'
  BY <1>1, <1>2, HoldsNone DEF RequestOK
<1>5. /\ lock' \in [Token -> Request \cup {None}] /\ history' \in History
      /\ \A t \in Token : lock'[t] # r
  BY <1>1, HoldsNone DEF IInv, TypeOK
<1> QED
  BY <1>1, <1>2, <1>3, <1>4, <1>5, Moves

\* The cooldown of the latest row is looked at.
LEMMA LatestKeeps ==
    ASSUME IInv, NEW r \in Request, ResendLatest(r)
    PROVE  IInv'
<1>1. /\ pc[r] = "latest" /\ UNCHANGED <<account, tokens, lock, clock, history>>
      /\ lock = Released(r) /\ history \in History /\ \A t \in Token : lock[t] # r
  BY HoldsNone DEF ResendLatest, rows, IInv
<1>2. CASE Finish(r)
  BY <1>1, <1>2, FinishKeeps DEF History
<1>3. CASE Goto(r, "delete") /\ UNCHANGED ctx
  <2>1. PICK x \in Locals : x = ctx[r]
    BY DEF IInv, TypeOK
  <2>2. /\ ctx' = [ctx EXCEPT ![r] = x] /\ r \in Drawing
        /\ pc' = [pc EXCEPT ![r] = "delete"] /\ "delete" \in Labels \ {"create", "mail"}
    BY <1>1, <1>3, <2>1 DEF IInv, TypeOK, Drawing, Goto, Labels
  <2>3. RequestOK(r, "delete", x)'
    BY <1>1, <2>1 DEF RequestOK, IInv
  <2>4. account' \in AccountRow /\ lock' \in [Token -> Request \cup {None}]
    BY <1>1 DEF IInv, TypeOK
  <2> QED
    BY <1>1, <2>2, <2>3, <2>4, Moves
<1> QED
  BY <1>2, <1>3 DEF ResendLatest

\* A statement chooses its rows: none of them is locked or passed yet.
LEMMA SnapshotKeeps ==
    ASSUME IInv, NEW r \in Request, DeleteSnapshot(r) \/ SiblingSnapshot(r)
    PROVE  IInv'
<1>1. ctx[r] \in Locals /\ RequestOK(r, pc[r], ctx[r])
  BY DEF IInv, TypeOK
<1>2. /\ UNCHANGED <<account, tokens, lock, clock, history>>
      /\ \/ pc[r] = "delete" /\ Goto(r, "deleting")
         \/ pc[r] = "siblings" /\ Goto(r, "marking")
  BY DEF DeleteSnapshot, SiblingSnapshot, rows
<1>3. PICK S \in SUBSET Token :
          /\ ctx' = [ctx EXCEPT ![r] = [@ EXCEPT !.seen = S, !.known = S]]
          /\ \A t \in S : tokens[t].state # "none" /\ tokens[t].type = ctx[r].type
          /\ pc[r] = "siblings" => ctx[r].token \notin S
  <2>1. \A t \in Unused(ctx[r].type) : 
            t \in Token /\ tokens[t].state # "none" /\ tokens[t].type = ctx[r].type
    BY DEF Unused
  <2>2. CASE DeleteSnapshot(r)
    BY <2>1, <2>2 DEF DeleteSnapshot
  <2>3. CASE SiblingSnapshot(r)
    <3> DEFINE S == Unused(ctx[r].type) \ {ctx[r].token}
    <3>1. ctx' = [ctx EXCEPT ![r] = [@ EXCEPT !.seen = S, !.known = S]]
      BY <2>3 DEF SiblingSnapshot
    <3>2. /\ S \in SUBSET Token /\ ctx[r].token \notin S
          /\ \A t \in S : tokens[t].state # "none" /\ tokens[t].type = ctx[r].type
      BY <2>1
    <3> HIDE DEF S
    <3> QED
      BY <3>1, <3>2
  <2> QED
    BY <2>2, <2>3
<1>4. PICK l \in {"deleting", "marking"} :
          /\ Goto(r, l)
          /\ l = "deleting" => pc[r] = "delete"
          /\ l = "marking" => pc[r] = "siblings"
  BY <1>2
<1>5. PICK x \in Locals :
          /\ ctx' = [ctx EXCEPT ![r] = x]
          /\ x.seen = S /\ x.known = S /\ x.type = ctx[r].type /\ x.token = ctx[r].token
  <2> DEFINE x == [ctx[r] EXCEPT !.seen = S, !.known = S]
  <2>1. x \in Locals /\ x.seen = S /\ x.known = S /\ x.type = ctx[r].type /\ x.token = ctx[r].token
    BY <1>1 DEF Locals
  <2> QED
    BY <1>3, <2>1
<1>6. RequestOK(r, l, x)'
  BY <1>1, <1>2, <1>3, <1>4, <1>5 DEF RequestOK
<1>7. /\ account' \in AccountRow /\ lock' \in [Token -> Request \cup {None}] /\ history' \in History
      /\ \A t \in Token : lock'[t] = r => tokens[t].state = "unused"
      /\ l = "deleting" => r \in Drawing
      /\ l \in Labels \ {"create", "mail"} /\ pc[r] \notin {"create", "mail"}
  BY <1>2, <1>4 DEF IInv, TypeOK, Drawing, Labels
<1>8. /\ pc' = [pc EXCEPT ![r] = l]
      /\ \A t \in Token : lock'[t] = r =>
             tokens[t].state = "unused" /\ l \in {"deleting", "siblings", "marking"}
      /\ l \in {"latest", "delete", "deleting"} => r \in Drawing \/ Supply
  BY <1>4, <1>7 DEF Goto
<1> QED
  BY <1>2, <1>5, <1>6, <1>7, <1>8, Moves

\* A row is locked if it is still unused, and passed otherwise.
LEMMA LockKeeps ==
    ASSUME IInv, NEW r \in Request, LockRow(r)
    PROVE  IInv'
<1>1. PICK t \in ctx[r].seen :
          /\ lock[t] = None
          /\ lock' = IF tokens[t].state = "unused" THEN [lock EXCEPT ![t] = r] ELSE lock
          /\ ctx' = [ctx EXCEPT ![r].seen = @ \ {t}]
  BY DEF LockRow
<1>2. /\ pc[r] \in {"deleting", "marking"} /\ UNCHANGED <<account, tokens, clock, pc, history>>
      /\ ctx[r] \in Locals /\ RequestOK(r, pc[r], ctx[r])
  BY DEF LockRow, IInv, TypeOK
<1>3. t \in Token /\ t \in ctx[r].known
  BY <1>1, <1>2 DEF RequestOK, Locals
<1>4. PICK l : l = pc[r]
  OBVIOUS
<1>5. PICK x \in Locals :
          /\ ctx' = [ctx EXCEPT ![r] = x]
          /\ x.seen = ctx[r].seen \ {t} /\ x.known = ctx[r].known
          /\ x.type = ctx[r].type /\ x.token = ctx[r].token
  <2> DEFINE x == [ctx[r] EXCEPT !.seen = ctx[r].seen \ {t}]
  <2>1. /\ x \in Locals /\ x.seen = ctx[r].seen \ {t} /\ x.known = ctx[r].known
        /\ x.type = ctx[r].type /\ x.token = ctx[r].token
    BY <1>2 DEF Locals
  <2>2. ctx' = [ctx EXCEPT ![r] = x]
    BY <1>1
  <2> HIDE DEF x
  <2> QED
    BY <2>1, <2>2
<1>6. /\ lock' \in [Token -> Request \cup {None}]
      /\ \A s \in Token : lock'[s] = IF s = t /\ tokens[t].state = "unused" THEN r ELSE lock[s]
  BY <1>1, <1>3 DEF IInv, TypeOK
<1>7. RequestOK(r, l, x)'
  <2>1. \A s \in Token : lock[s] = r => lock'[s] = r
    BY <1>1, <1>6, VerificationAssumption
  <2>2. history.mailed \subseteq Token /\ x.known \subseteq Token
    BY <1>5 DEF IInv, History, Locals
  <2>3. lock'[t] = r \/ tokens[t].state # "unused"
    BY <1>3, <1>6
  <2>4. \A s \in Token : lock'[s] = r => lock[s] = r \/ s = t
    BY <1>6
  <2> QED
    BY <1>2, <1>3, <1>4, <1>5, <2>1, <2>2, <2>3, <2>4 DEF RequestOK, clock
<1>8. /\ account' \in AccountRow /\ history' \in History
      /\ \A s \in Token, q \in Request \ {r} : lock'[s] = q <=> lock[s] = q
      /\ \A s \in Token : lock'[s] = r =>
             tokens[s].state = "unused" /\ l \in {"deleting", "siblings", "marking"}
      /\ l \in {"latest", "delete", "deleting"} => r \in Drawing \/ Supply
      /\ l \in Labels \ {"create", "mail"} /\ pc[r] \notin {"create", "mail"}
      /\ pc' = [pc EXCEPT ![r] = l]
  BY <1>1, <1>2, <1>4, <1>6, VerificationAssumption DEF IInv, TypeOK, Drawing, Labels
<1> QED
  BY <1>2, <1>5, <1>6, <1>7, <1>8, Moves

\* A link is followed: it was mailed, and is of the endpoint's type.
LEMMA FollowKeeps ==
    ASSUME IInv, NEW r \in Request, Follow(r)
    PROVE  IInv'
<1>1. PICK op \in {"verify", "reset"}, t \in history.mailed :
          ctx' = [ctx EXCEPT ![r] =
                    [NoLocals EXCEPT !.op = op, !.type = tokens[t].type, !.token = t]]
  BY DEF Follow
<1>2. /\ pc[r] = "idle" /\ pc' = [pc EXCEPT ![r] = "consume"]
      /\ UNCHANGED <<account, tokens, lock, clock, history>>
  BY DEF Follow, Arrives, Goto, rows
<1>3. /\ t \in Token /\ tokens[t].type \in Type
  BY DEF IInv, RowsOK, History
<1>4. PICK x \in Locals : ctx' = [ctx EXCEPT ![r] = x] /\ x.token = t /\ x.type = tokens[t].type
  <2> DEFINE x == [NoLocals EXCEPT !.op = op, !.type = tokens[t].type, !.token = t]
  <2>1. x \in Locals /\ x.token = t /\ x.type = tokens[t].type
    BY <1>3 DEF NoLocals, Locals, Operations
  <2> QED
    BY <1>1, <2>1
<1>5. \A s \in Token : lock'[s] # r
  BY <1>2, HoldsNone
<1>6. RequestOK(r, "consume", x)'
  BY <1>2, <1>4, <1>5 DEF RequestOK
<1>7. /\ account' \in AccountRow /\ lock' \in [Token -> Request \cup {None}] /\ history' \in History
      /\ "consume" \in Labels \ {"create", "mail"}
  BY <1>2 DEF IInv, TypeOK, Labels
<1> QED
  BY <1>2, <1>4, <1>5, <1>6, <1>7, Moves

\* The UPDATE of a token that is alive goes on to its row, of another ends.
LEMMA ConsumeKeeps ==
    ASSUME IInv, NEW r \in Request, Consume(r)
    PROVE  IInv'
<1>1. /\ pc[r] = "consume" /\ UNCHANGED <<account, tokens, lock, clock, history>>
      /\ ctx[r] \in Locals /\ RequestOK(r, "consume", ctx[r]) /\ history \in History
      /\ lock = Released(r) /\ \A t \in Token : lock[t] # r
  BY HoldsNone DEF Consume, rows, IInv, TypeOK
<1>2. CASE Finish(r)
  BY <1>1, <1>2, FinishKeeps DEF History
<1>3. CASE Goto(r, "claim") /\ UNCHANGED ctx
  <2>1. PICK x \in Locals : x = ctx[r]
    BY <1>1
  <2>2. /\ ctx' = [ctx EXCEPT ![r] = x] /\ pc' = [pc EXCEPT ![r] = "claim"]
        /\ "claim" \in Labels \ {"create", "mail"}
    BY <1>3, <2>1 DEF IInv, TypeOK, Goto, Labels
  <2>3. RequestOK(r, "claim", x)'
    BY <1>1, <2>1 DEF RequestOK
  <2>4. account' \in AccountRow /\ lock' \in [Token -> Request \cup {None}]
    BY <1>1 DEF IInv, TypeOK
  <2> QED
    BY <1>1, <2>2, <2>3, <2>4, Moves
<1> QED
  BY <1>2, <1>3 DEF Consume

\* The row of the token is locked if it is still unused.
LEMMA ClaimKeeps ==
    ASSUME IInv, NEW r \in Request, Claim(r)
    PROVE  IInv'
<1> DEFINE t == ctx[r].token
<1>1. /\ pc[r] = "claim" /\ lock[t] = None /\ UNCHANGED <<account, tokens, clock, history>>
      /\ ctx[r] \in Locals /\ RequestOK(r, pc[r], ctx[r]) /\ history \in History
  BY DEF Claim, IInv, TypeOK
<1>2. CASE tokens[t].state # "unused"
  <2>1. Finish(r) /\ lock' = Released(r)
    BY <1>1, <1>2, HoldsNone DEF Claim
  <2> QED
    BY <1>1, <2>1, FinishKeeps DEF History
<1>3. CASE tokens[t].state = "unused"
  <2>1. t \in Token /\ t \in history.mailed /\ tokens[t].type = ctx[r].type /\ tokens[t].state = "unused"
    BY <1>1, <1>3 DEF RequestOK, History
  <2>2. PICK x \in Locals : x = ctx[r]
    BY <1>1
  <2>3. lock' = [lock EXCEPT ![t] = r] /\ pc' = [pc EXCEPT ![r] = "siblings"] /\ UNCHANGED ctx
    BY <1>3 DEF Claim, Goto
  <2>4. ctx' = [ctx EXCEPT ![r] = x] /\ "siblings" \in Labels \ {"create", "mail"}
    BY <2>2, <2>3 DEF IInv, TypeOK, Labels
  <2>5. \A s \in Token : lock[s] # r
    BY <1>1, HoldsNone
  <2>6. /\ lock' \in [Token -> Request \cup {None}] /\ account' \in AccountRow
        /\ \A s \in Token : lock'[s] = IF s = t THEN r ELSE lock[s]
    BY <1>1, <2>1, <2>3 DEF IInv, TypeOK
  <2> HIDE DEF t
  <2>7. x.token = t
    BY <2>2 DEF t
  <2>8. RequestOK(r, "siblings", x)'
    BY <1>1, <2>1, <2>2, <2>5, <2>6, <2>7 DEF RequestOK
  <2>9. \A s \in Token, q \in Request \ {r} : lock'[s] = q <=> lock[s] = q
    BY <1>1, <2>6, VerificationAssumption
  <2>10. \A s \in Token : lock'[s] = r => tokens[s].state = "unused"
    BY <2>1, <2>5, <2>6
  <2> QED
    BY <1>1, <2>3, <2>4, <2>6, <2>8, <2>9, <2>10, Moves
<1> QED
  BY <1>2, <1>3

\* Only a request that waits for a row is in a cycle.
LEMMA AbortKeeps ==
    ASSUME IInv, NEW r \in Request, DeadlockAbort(r) \/ Abort(r)
    PROVE  IInv'
<1>1. history \in History
  BY DEF IInv
<1>2. CASE DeadlockAbort(r)
  <2>1. PICK S \in SUBSET Request : r \in S /\ Deadlocked(S)
    BY <1>2 DEF DeadlockAbort
  <2>2. Wants(r) # {}
    BY <2>1 DEF Deadlocked
  <2>3. pc[r] \notin {"create", "mail"}
    BY <2>2 DEF Wants
  <2>4. history' = [history EXCEPT !.lost = history'.lost]
    BY <1>1, <1>2 DEF DeadlockAbort, History
  <2> QED
    BY <1>1, <1>2, <2>3, <2>4, FinishKeeps DEF DeadlockAbort, History
<1>3. CASE Abort(r)
  <2>1. history'.lost = (history.lost \/ pc[r] \in {"create", "mail"})
    BY <1>1, <1>3 DEF Abort, History
  <2>2. history' = [history EXCEPT !.lost = history'.lost]
    BY <1>3, <2>1 DEF Abort
  <2>3. history'.lost \in BOOLEAN
    BY <1>1, <2>1 DEF History
  <2> QED
    BY <1>3, <2>1, <2>2, <2>3, FinishKeeps DEF Abort
<1> QED
  BY <1>2, <1>3

-----------------------------------------------------------------------------
(* The steps that write rows.                                               *)

\* A statement marks the rows its request has locked.
LEMMA MarkedRows ==
    ASSUME IInv, NEW r \in Request, NEW s \in {"used", "deleted"},
           tokens' = Marked(Held(r), s), lock' = Released(r)
    PROVE  /\ tokens' \in [Token -> TokenRow] /\ lock' \in [Token -> Request \cup {None}]
           /\ \A t \in Token :
                /\ tokens'[t].type = tokens[t].type
                /\ tokens'[t].state = IF lock[t] = r THEN s ELSE tokens[t].state
                /\ lock[t] # r => tokens'[t] = tokens[t]
                /\ lock'[t] = IF lock[t] = r THEN None ELSE lock[t]
                /\ lock[t] = r => tokens[t].state = "unused"
           /\ Onward
<1>1. tokens \in [Token -> TokenRow] /\ lock \in [Token -> Request \cup {None}]
  BY DEF IInv, TypeOK
<1>2. \A t \in Token : lock[t] = r => tokens[t].state = "unused"
  BY DEF IInv, TypeOK
<1>3. \A t \in Token : tokens'[t] = IF lock[t] = r THEN [tokens[t] EXCEPT !.state = s] ELSE tokens[t]
  BY DEF Marked, Held
<1>4. \A t \in Token :
          /\ tokens'[t] \in TokenRow /\ tokens'[t].type = tokens[t].type
          /\ tokens'[t].state = IF lock[t] = r THEN s ELSE tokens[t].state
  BY <1>1, <1>3 DEF TokenRow
<1>5. tokens' \in [Token -> TokenRow]
  BY <1>4 DEF Marked
<1>6. /\ lock' \in [Token -> Request \cup {None}]
      /\ \A t \in Token : lock'[t] = IF lock[t] = r THEN None ELSE lock[t]
  BY <1>1 DEF Released
<1>7. Onward
  BY <1>2, <1>3, <1>4 DEF Onward
<1> QED
  BY <1>2, <1>3, <1>4, <1>5, <1>6, <1>7

\* The old links are deleted and the new token drawn: the rows that were seen
\* are deleted or were dead, and a new row is about to be inserted.
LEMMA DeleteKeeps ==
    ASSUME IInv, NEW r \in Request, DeleteCommit(r)
    PROVE  IInv'
<1> USE DEF IInv
<1>1. /\ pc[r] = "deleting" /\ ctx[r].seen = {} /\ ctx[r] \in Locals
      /\ RequestOK(r, "deleting", ctx[r])
      /\ tokens' = Marked(Held(r), "deleted") /\ lock' = Released(r) /\ drawn' = drawn + 1
      /\ pc' = [pc EXCEPT ![r] = "create"] /\ UNCHANGED <<account, settled>>
  BY DEF DeleteCommit, Goto, TypeOK
<1>2. /\ drawn \in Nat /\ drawn < MaxToken /\ MaxToken \in Nat
      /\ drawn' + Cardinality(Drawing') <= MaxToken
  <2>1. IsFiniteSet(Drawing) /\ r \in Drawing
    BY <1>1, VerificationAssumption, FS_Subset DEF Drawing
  <2>2. Drawing' = Drawing \ {r}
    BY <1>1 DEF Drawing, TypeOK
  <2>3. IsFiniteSet(Drawing') /\ Cardinality(Drawing') = Cardinality(Drawing) - 1
    BY <2>1, <2>2, FS_RemoveElement
  <2>4. Cardinality(Drawing) \in Nat /\ Cardinality(Drawing') \in Nat
    BY <2>1, <2>3, FS_CardinalityType
  <2> QED
    BY <1>1, <2>3, <2>4, VerificationAssumption DEF TypeOK
<1>3. PICK x \in Locals :
          /\ ctx' = [ctx EXCEPT ![r] = x]
          /\ x.type = ctx[r].type /\ x.token = drawn + 1
  <2> DEFINE x == [ctx[r] EXCEPT !.token = drawn + 1, !.known = {}]
  <2>1. drawn + 1 \in Token
    BY <1>2 DEF Token
  <2>2. ctx[r] \in Locals
    BY <1>1
  <2>3. x \in Locals /\ x.type = ctx[r].type /\ x.token = drawn + 1
    BY <2>1, <2>2 DEF Locals
  <2>4. ctx' = [ctx EXCEPT ![r] = x]
    BY DEF DeleteCommit
  <2> HIDE DEF x
  <2> QED
    BY <2>3, <2>4
<1>4. /\ tokens' \in [Token -> TokenRow] /\ lock' \in [Token -> Request \cup {None}] /\ Onward
      /\ \A t \in Token :
            /\ tokens'[t].type = tokens[t].type
            /\ tokens'[t].state = IF lock[t] = r THEN "deleted" ELSE tokens[t].state
            /\ lock[t] # r => tokens'[t] = tokens[t]
            /\ lock'[t] = IF lock[t] = r THEN None ELSE lock[t]
            /\ lock[t] = r => tokens[t].state = "unused"
  BY <1>1, MarkedRows
<1>5. /\ history' \in History /\ history'.mailed = history.mailed
      /\ history'.accepted = history.accepted /\ history'.lost = history.lost
      /\ history'.superseded = history.superseded \cup ctx[r].known
  BY <1>1 DEF DeleteCommit, History, Locals
<1>6. /\ \A q \in Request : pc'[q] = IF q = r THEN "create" ELSE pc[q]
      /\ \A q \in Request : ctx'[q] = IF q = r THEN x ELSE ctx[q]
  BY <1>1, <1>3 DEF TypeOK
<1>7. TypeOK'
  <2>1. /\ account' \in AccountRow /\ drawn' \in 0..MaxToken /\ settled' \in 0..drawn'
        /\ pc' \in [Request -> Labels] /\ ctx' \in [Request -> Locals]
    BY <1>1, <1>2, <1>3 DEF TypeOK, Labels
  <2>2. ASSUME NEW t \in Token, NEW q \in Request, lock'[t] = q
        PROVE  tokens'[t].state = "unused" /\ pc'[q] \in {"deleting", "siblings", "marking"}
    <3>1. lock[t] = q /\ q # r
      BY <1>4, <2>2, VerificationAssumption
    <3> QED
      BY <1>4, <1>6, <3>1 DEF TypeOK
  <2> QED
    BY <1>4, <2>1, <2>2 DEF TypeOK
<1>8. tokens[drawn + 1].state = "none" /\ drawn + 1 \in Token
  BY <1>2 DEF RowsOK, Token
<1>9. ASSUME NEW q \in Request PROVE RequestOK(q, pc[q], ctx[q])'
  <2>1. CASE q = r
    <3>1. tokens'[x.token].state = "none" /\ x.token \in 1..drawn'
      BY <1>1, <1>2, <1>3, <1>4, <1>8
    <3>2. \A t \in Token : lock'[t] # r
      BY <1>4, VerificationAssumption
    <3>3. RequestOK(r, "create", x)'
      BY <1>1, <1>3, <3>1, <3>2 DEF RequestOK
    <3> QED
      BY <1>6, <2>1, <3>3
  <2>2. CASE q # r
    <3>1. \A t \in Token : lock'[t] = q <=> lock[t] = q
      BY <1>4, <2>2, VerificationAssumption
    <3>2. pc[q] = "create" => tokens'[ctx[q].token] = tokens[ctx[q].token]
      BY <1>2, <1>4 DEF RequestOK, Token
    <3> QED
      BY <1>1, <1>2, <1>4, <1>5, <1>6, <2>2, <3>1, <3>2, OthersKeep
  <2> QED
    BY <2>1, <2>2
<1>10. CreateApart'
  <2>1. \A q \in Request \ {r} : pc'[q] = "create" => ctx'[q].token # drawn + 1
    BY <1>2, <1>6 DEF RequestOK
  <2> QED
    BY <1>3, <1>6, <2>1 DEF CreateApart
<1>11. RowsOK'
  <2>1. \A t \in Token : tokens'[t].state # "none" => tokens[t].state # "none"
    BY <1>4
  <2>2. \A t \in Token : history.accepted[t] = 1 => lock[t] # r
    BY <1>4 DEF RowsOK
  <2>3. 1..drawn \subseteq 1..drawn'
    BY <1>1, <1>2
  <2> QED
    BY <1>4, <1>5, <2>1, <2>2, <2>3 DEF RowsOK, Onward, History
<1>12. SupersededDead'
  <2>1. ctx[r].known \subseteq Token /\ history.superseded \subseteq Token
    BY <1>1 DEF Locals, History
  <2>2. \A t \in ctx[r].known : tokens[t].state # "none" /\ (lock[t] = r \/ tokens[t].state # "unused")
    BY <1>1 DEF RequestOK
  <2> QED
    BY <1>4, <1>5, <2>1, <2>2 DEF SupersededDead
<1>13. UsedMeansDone'
  BY <1>4, <1>5 DEF UsedMeansDone
<1>14. TypeSurvives'
  <2> SUFFICES ASSUME NEW type \in Type, ~history'.lost, Created(type)' # {},
                      \A t \in Created(type)' : history'.accepted[t] = 0
               PROVE  Surviving(type)'
    BY DEF TypeSurvives
  <2>1. CASE type = x.type
    BY <1>6, <2>1 DEF Surviving
  <2>2. CASE type # x.type
    <3>1. Created(type)' = Created(type)
      BY <1>4 DEF Created
    <3>2. Surviving(type)
      BY <1>5, <3>1 DEF TypeSurvives
    <3>3. \A t \in Token : lock[t] = r => tokens[t].type # type
      BY <1>1, <1>3, <2>2 DEF RequestOK
    <3>4. Unused(type)' = Unused(type)
      BY <1>4, <3>3 DEF Unused
    <3> QED
      BY <1>1, <1>5, <1>6, <3>2, <3>4 DEF Surviving
  <2> QED
    BY <2>1, <2>2
<1> QED
  BY <1>2, <1>5, <1>7, <1>9, <1>10, <1>11, <1>12, <1>13, <1>14

\* The new row is inserted.
LEMMA CreateKeeps ==
    ASSUME IInv, NEW r \in Request, Create(r)
    PROVE  IInv'
<1> DEFINE k == ctx[r].token
           type0 == ctx[r].type
<1> USE DEF IInv
<1>1. /\ pc[r] = "create" /\ type0 \in Type /\ k \in 1..drawn /\ tokens[k].state = "none"
      /\ RequestOK(r, "create", ctx[r])
      /\ tokens' = [tokens EXCEPT ![k] = [type |-> type0, state |-> "unused", expired |-> FALSE]]
      /\ pc' = [pc EXCEPT ![r] = "mail"] /\ UNCHANGED <<account, lock, drawn, settled, ctx, history>>
  BY DEF Create, Goto, RequestOK, clock
<1>2. k \in Token /\ \A q \in Request : lock[k] # q
  BY <1>1, VerificationAssumption DEF TypeOK, Token
<1> HIDE DEF k, type0
<1>3. /\ \A q \in Request : pc'[q] = IF q = r THEN "mail" ELSE pc[q]
      /\ tokens' \in [Token -> TokenRow]
      /\ \A t \in Token \ {k} : tokens'[t] = tokens[t]
      /\ tokens'[k] = [type |-> type0, state |-> "unused", expired |-> FALSE]
  BY <1>1, <1>2 DEF TypeOK, TokenRow
<1>4. Onward
  BY <1>1, <1>3 DEF Onward
<1>5. TypeOK'
  BY <1>1, <1>2, <1>3 DEF TypeOK, Labels
<1>6. drawn' + Cardinality(Drawing') <= MaxToken
  BY <1>1, SupplyKept
<1>7. ASSUME NEW q \in Request PROVE RequestOK(q, pc[q], ctx[q])'
  <2>1. CASE q = r
    <3>1. RequestOK(r, "mail", ctx[r])'
      BY <1>1, <1>2, <1>3 DEF RequestOK, k, TypeOK
    <3> QED
      BY <1>3, <2>1, <3>1
  <2>2. CASE q # r
    <3>1. pc[q] = "create" => ctx[q].token \in Token /\ ctx[q].token # k
      BY <1>1, <2>2, VerificationAssumption DEF RequestOK, CreateApart, TypeOK, Token, k
    <3>2. drawn' \in Nat /\ drawn <= drawn'
      BY <1>1 DEF TypeOK
    <3> QED
      BY <1>1, <1>3, <1>4, <2>2, <3>1, <3>2, OthersKeep
  <2> QED
    BY <2>1, <2>2
<1>8. CreateApart'
  BY <1>1, <1>3 DEF CreateApart
<1>9. RowsOK' /\ SupersededDead' /\ UsedMeansDone'
  <2>1. RowsOK'
    BY <1>1, <1>2, <1>3, <1>4 DEF RowsOK, Onward, History
  <2>2. k \notin history.superseded
    BY <1>1 DEF SupersededDead
  <2>3. SupersededDead'
    BY <1>1, <1>3, <2>2 DEF SupersededDead, History
  <2>4. \A t \in Token : tokens'[t].state = "used" => tokens[t].state = "used" /\ t # k
    BY <1>3
  <2>5. \A t \in Token : history.accepted[t] > 0 => t # k
    BY <1>1 DEF RowsOK, History
  <2>6. UsedMeansDone'
    BY <1>1, <1>3, <2>4, <2>5 DEF UsedMeansDone
  <2> QED
    BY <2>1, <2>3, <2>6
<1>10. TypeSurvives'
  <2> SUFFICES ASSUME NEW type \in Type, ~history'.lost, Created(type)' # {},
                      \A t \in Created(type)' : history'.accepted[t] = 0
               PROVE  Surviving(type)'
    BY DEF TypeSurvives
  <2>1. CASE type = type0
    <3>1. k \in Unused(type)' /\ pc'[r] = "mail" /\ ctx'[r].token = k
      BY <1>1, <1>2, <1>3, <2>1 DEF Unused, k
    <3> QED
      BY <3>1 DEF Surviving
  <2>2. CASE type # type0
    <3>1. Created(type)' = Created(type)
      BY <1>1, <1>3, <2>2 DEF Created
    <3>2. Surviving(type)
      BY <1>1, <3>1 DEF TypeSurvives
    <3>3. Unused(type)' = Unused(type)
      BY <1>1, <1>3, <2>2 DEF Unused
    <3> QED
      BY <1>1, <1>3, <2>2, <3>2, <3>3 DEF Surviving, type0
  <2> QED
    BY <2>1, <2>2
<1> QED
  BY <1>1, <1>5, <1>6, <1>7, <1>8, <1>9, <1>10

\* The mail is sent: a link that was about to be mailed now is.
LEMMA MailKeeps ==
    ASSUME IInv, NEW r \in Request, Mail(r)
    PROVE  IInv'
<1> DEFINE k == ctx[r].token
<1> USE DEF IInv
<1>1. /\ pc[r] = "mail" /\ k \in Token /\ tokens[k].state # "none"
      /\ pc' = [pc EXCEPT ![r] = "idle"] /\ ctx' = [ctx EXCEPT ![r] = NoLocals]
      /\ UNCHANGED <<account, tokens, lock, drawn, settled>>
  BY DEF Mail, Finish, Goto, RequestOK, rows, clock
<1>2. /\ history' \in History /\ history'.mailed = history.mailed \cup {k}
      /\ history'.accepted = history.accepted /\ history'.lost = history.lost
      /\ history'.superseded = history.superseded
  BY <1>1 DEF Mail, History
<1> HIDE DEF k
<1>3. /\ \A q \in Request : pc'[q] = IF q = r THEN "idle" ELSE pc[q]
      /\ \A q \in Request : ctx'[q] = IF q = r THEN NoLocals ELSE ctx[q]
      /\ \A t \in Token : lock[t] # r
  BY <1>1, HoldsNone DEF TypeOK
<1>4. TypeOK'
  <2>1. NoLocals \in Locals /\ "idle" \in Labels
    BY DEF NoLocals, Locals, Labels
  <2> QED
    BY <1>1, <1>3, <2>1 DEF TypeOK
<1>5. drawn' + Cardinality(Drawing') <= MaxToken
  BY <1>1, SupplyKept
<1>6. ASSUME NEW q \in Request PROVE RequestOK(q, pc[q], ctx[q])'
  <2>1. CASE q = r
    <3>1. RequestOK(r, "idle", NoLocals)'
      BY <1>1, <1>3 DEF RequestOK
    <3> QED
      BY <1>3, <2>1, <3>1
  <2>2. CASE q # r
    BY <1>1, <1>2, <1>3, <2>2, OthersKeep DEF Onward, TypeOK
  <2> QED
    BY <2>1, <2>2
<1>7. CreateApart' /\ UsedMeansDone' /\ SupersededDead'
  BY <1>1, <1>2, <1>3 DEF CreateApart, UsedMeansDone, SupersededDead
<1>8. RowsOK'
  BY <1>1, <1>2 DEF RowsOK
<1>9. TypeSurvives'
  <2> SUFFICES ASSUME NEW type \in Type, ~history'.lost, Created(type)' # {},
                      \A t \in Created(type)' : history'.accepted[t] = 0
               PROVE  Surviving(type)'
    BY DEF TypeSurvives
  <2>1. Created(type)' = Created(type) /\ Unused(type)' = Unused(type)
    BY <1>1 DEF Created, Unused
  <2>2. Surviving(type)
    BY <1>2, <2>1 DEF TypeSurvives
  <2> QED
    BY <1>1, <1>2, <1>3, <2>1, <2>2 DEF Surviving, k
<1> QED
  BY <1>1, <1>2, <1>4, <1>5, <1>6, <1>7, <1>8, <1>9

\* What a commit does: the token, which its request holds and which was not
\* accepted before, is accepted, and all rows the request holds become used.
LEMMA CommitEffect ==
    ASSUME IInv, NEW r \in Request, Commit(r)
    PROVE  LET k == ctx[r].token
           IN  /\ pc[r] = "marking" /\ RequestOK(r, "marking", ctx[r])
               /\ k \in history.mailed /\ k \in Token /\ ctx[r].known \subseteq Token
               /\ lock[k] = r /\ tokens[k].state = "unused" /\ history.accepted[k] = 0
               /\ history' \in History /\ history'.mailed = history.mailed
               /\ history'.lost = history.lost
               /\ history'.accepted = [history.accepted EXCEPT ![k] = 1]
               /\ history'.superseded = history.superseded \cup ctx[r].known
<1> DEFINE k == ctx[r].token
<1>1. pc[r] = "marking" /\ RequestOK(r, "marking", ctx[r]) /\ ctx[r] \in Locals /\ history \in History
  BY DEF Commit, IInv, TypeOK
<1>2. k \in history.mailed /\ k \in Token /\ lock[k] = r /\ ctx[r].known \subseteq Token
  BY <1>1 DEF RequestOK, Locals, History
<1>3. tokens[k].state = "unused"
  BY <1>2 DEF IInv, TypeOK
<1>4. history.accepted[k] = 0
  BY <1>1, <1>2, <1>3 DEF IInv, RowsOK, History
<1> DEFINE accepted1 == [history.accepted EXCEPT ![k] = 1]
           superseded1 == history.superseded \cup ctx[r].known
<1>5. history' = [history EXCEPT !.accepted = accepted1, !.superseded = superseded1]
  BY <1>4 DEF Commit, Accepted
<1>6. accepted1 \in [Token -> {0, 1}] /\ superseded1 \in SUBSET Token
  BY <1>1, <1>2 DEF History
<1> HIDE DEF accepted1, superseded1
<1>7. /\ history' \in History
      /\ history'.accepted = accepted1 /\ history'.superseded = superseded1
      /\ history'.mailed = history.mailed /\ history'.lost = history.lost
  BY <1>1, <1>5, <1>6 DEF History
<1> QED
  BY <1>1, <1>2, <1>3, <1>4, <1>7 DEF accepted1, superseded1

\* The link has its effect.
LEMMA CommitKeeps ==
    ASSUME IInv, NEW r \in Request, Commit(r)
    PROVE  IInv'
<1> DEFINE k == ctx[r].token
<1> USE DEF IInv
<1>1. /\ tokens' = Marked(Held(r), "used") /\ lock' = Released(r) /\ ctx[r].seen = {}
      /\ pc' = [pc EXCEPT ![r] = "idle"] /\ ctx' = [ctx EXCEPT ![r] = NoLocals]
      /\ account' \in AccountRow /\ UNCHANGED <<drawn, settled>>
  BY DEF Commit, Finish, Goto, clock, TypeOK, AccountRow
<1>2. /\ pc[r] = "marking" /\ RequestOK(r, "marking", ctx[r])
      /\ k \in history.mailed /\ k \in Token /\ ctx[r].known \subseteq Token
      /\ lock[k] = r /\ tokens[k].state = "unused" /\ history.accepted[k] = 0
      /\ history' \in History /\ history'.mailed = history.mailed
      /\ history'.lost = history.lost
      /\ history'.accepted = [history.accepted EXCEPT ![k] = 1]
      /\ history'.superseded = history.superseded \cup ctx[r].known
  BY CommitEffect
<1>3. /\ tokens' \in [Token -> TokenRow] /\ lock' \in [Token -> Request \cup {None}] /\ Onward
      /\ \A t \in Token :
            /\ tokens'[t].type = tokens[t].type
            /\ tokens'[t].state = IF lock[t] = r THEN "used" ELSE tokens[t].state
            /\ lock[t] # r => tokens'[t] = tokens[t]
            /\ lock'[t] = IF lock[t] = r THEN None ELSE lock[t]
            /\ lock[t] = r => tokens[t].state = "unused"
  BY <1>1, MarkedRows
<1>4. \A t \in Token : history'.accepted[t] = IF t = k THEN 1 ELSE history.accepted[t]
  BY <1>2 DEF History
<1> HIDE DEF k
<1>5. /\ \A q \in Request : pc'[q] = IF q = r THEN "idle" ELSE pc[q]
      /\ \A q \in Request : ctx'[q] = IF q = r THEN NoLocals ELSE ctx[q]
  BY <1>1 DEF TypeOK
<1>6. TypeOK'
  <2>1. NoLocals \in Locals /\ "idle" \in Labels
    BY DEF NoLocals, Locals, Labels
  <2>2. ASSUME NEW t \in Token, NEW q \in Request, lock'[t] = q
        PROVE  tokens'[t].state = "unused" /\ pc'[q] \in {"deleting", "siblings", "marking"}
    <3>1. lock[t] = q /\ q # r
      BY <1>3, <2>2, VerificationAssumption
    <3> QED
      BY <1>3, <1>5, <3>1 DEF TypeOK
  <2> QED
    BY <1>1, <1>3, <2>1, <2>2 DEF TypeOK
<1>7. drawn' + Cardinality(Drawing') <= MaxToken
  BY <1>1, SupplyKept
<1>8. ASSUME NEW q \in Request PROVE RequestOK(q, pc[q], ctx[q])'
  <2>1. CASE q = r
    <3>1. \A t \in Token : lock'[t] # r
      BY <1>3, VerificationAssumption
    <3>2. RequestOK(r, "idle", NoLocals)'
      BY <3>1 DEF RequestOK
    <3> QED
      BY <1>5, <2>1, <3>2
  <2>2. CASE q # r
    <3>1. \A t \in Token : lock'[t] = q <=> lock[t] = q
      BY <1>3, <2>2, VerificationAssumption
    <3>2. pc[q] = "create" => tokens'[ctx[q].token] = tokens[ctx[q].token]
      BY <1>3, VerificationAssumption DEF RequestOK, Token, TypeOK
    <3>3. drawn' \in Nat /\ drawn <= drawn'
      BY <1>1 DEF TypeOK
    <3> QED
      BY <1>2, <1>3, <1>5, <2>2, <3>1, <3>2, <3>3, OthersKeep
  <2> QED
    BY <2>1, <2>2
<1>9. CreateApart'
  BY <1>5 DEF CreateApart
<1>10. RowsOK'
  <2>1. \A t \in Token : tokens'[t].state # "none" <=> tokens[t].state # "none"
    BY <1>3
  <2>2. \A t \in Token : history'.accepted[t] = 1 => tokens'[t].state = "used" /\ t \in history.mailed
    BY <1>2, <1>3, <1>4 DEF RowsOK
  <2>3. history.mailed \subseteq Token
    BY DEF History
  <2> QED
    BY <1>1, <1>2, <1>3, <2>1, <2>2, <2>3 DEF RowsOK
<1>11. SupersededDead'
  <2>1. \A t \in ctx[r].known : tokens[t].state # "none" /\ (lock[t] = r \/ tokens[t].state # "unused")
    BY <1>1, <1>2 DEF RequestOK
  <2>2. \A t \in history'.superseded : t \in Token
    BY <1>2 DEF History
  <2> QED
    BY <1>2, <1>3, <2>1, <2>2 DEF SupersededDead
<1>12. UsedMeansDone'
  <2> SUFFICES ASSUME NEW t \in Token, tokens'[t].state = "used"
               PROVE  \E s \in Token : tokens'[s].type = tokens'[t].type /\ history'.accepted[s] > 0
    BY DEF UsedMeansDone
  <2>1. CASE lock[t] = r
    <3>1. tokens[t].type = tokens[k].type
      BY <1>2, <2>1 DEF RequestOK
    <3> QED
      BY <1>2, <1>3, <1>4, <3>1
  <2>2. CASE lock[t] # r
    <3>1. PICK s \in Token : tokens[s].type = tokens[t].type /\ history.accepted[s] > 0
      BY <1>3, <2>2 DEF UsedMeansDone
    <3> QED
      BY <1>3, <1>4, <3>1
  <2> QED
    BY <2>1, <2>2
<1>13. TypeSurvives'
  <2> SUFFICES ASSUME NEW type \in Type, ~history'.lost, Created(type)' # {},
                      \A t \in Created(type)' : history'.accepted[t] = 0
               PROVE  Surviving(type)'
    BY DEF TypeSurvives
  <2>1. tokens[k].type # type
    BY <1>2, <1>3, <1>4 DEF Created
  <2>2. \A t \in Token : lock[t] = r => tokens[t].type # type
    BY <1>2, <2>1 DEF RequestOK
  <2>3. Created(type)' = Created(type) /\ Unused(type)' = Unused(type)
    BY <1>3, <2>2 DEF Created, Unused
  <2>4. k \notin Created(type)
    BY <2>1 DEF Created
  <2>5. \A t \in Created(type) : history.accepted[t] = 0
    BY <1>4, <2>3, <2>4 DEF Created
  <2>6. Surviving(type)
    BY <1>2, <2>3, <2>5 DEF TypeSurvives
  <2> QED
    BY <1>2, <1>5, <2>3, <2>6 DEF Surviving
<1> QED
  BY <1>2, <1>6, <1>7, <1>8, <1>9, <1>10, <1>11, <1>12, <1>13

\* Time passes: a cooldown or a token's life ends.
LEMMA TimeKeeps ==
    ASSUME IInv, CooldownPasses \/ (\E t \in Token : TokenExpires(t))
    PROVE  IInv'
<1> USE DEF IInv
<1>1. /\ UNCHANGED <<account, drawn, lock, pc, ctx, history>>
      /\ settled' \in 0..drawn
      /\ tokens' \in [Token -> TokenRow]
      /\ \A t \in Token : tokens'[t].type = tokens[t].type /\ tokens'[t].state = tokens[t].state
      /\ \A t \in Token : tokens[t].state # "unused" => tokens'[t] = tokens[t]
  <2>1. CASE CooldownPasses
    BY <2>1 DEF CooldownPasses, rows, TypeOK
  <2>2. ASSUME NEW t \in Token, TokenExpires(t) PROVE <1>1!:
    <3>1. [tokens[t] EXCEPT !.expired = TRUE] \in TokenRow
      BY DEF TypeOK, TokenRow
    <3> QED
      BY <2>2, <3>1 DEF TokenExpires, Usable, clock, TypeOK, TokenRow
  <2> QED
    BY <2>1, <2>2
<1>2. TypeOK'
  BY <1>1 DEF TypeOK
<1>3. ASSUME NEW q \in Request PROVE RequestOK(q, pc[q], ctx[q])'
  <2>1. pc[q] = "create" => tokens'[ctx[q].token] = tokens[ctx[q].token]
    BY <1>1, VerificationAssumption DEF RequestOK, Token, TypeOK
  <2> QED
    BY <1>1, <2>1, OthersKeep DEF Onward, TypeOK
<1>4. CreateApart' /\ RowsOK' /\ SupersededDead' /\ UsedMeansDone'
  BY <1>1 DEF CreateApart, RowsOK, SupersededDead, UsedMeansDone, History
<1>5. TypeSurvives'
  <2>1. \A type \in Type : Created(type)' = Created(type) /\ Unused(type)' = Unused(type)
    BY <1>1 DEF Created, Unused
  <2> QED
    BY <1>1, <2>1 DEF TypeSurvives, Surviving
<1>6. drawn' + Cardinality(Drawing') <= MaxToken
  BY <1>1 DEF Drawing
<1> QED
  BY <1>1, <1>2, <1>3, <1>4, <1>5, <1>6

-----------------------------------------------------------------------------
\* The inductive invariant, by the lemmas above.
THEOREM Invariant == Spec => []IInv
<1>1. IInv /\ [Next]_vars => IInv'
  <2> SUFFICES ASSUME IInv, [Next]_vars PROVE IInv'
    OBVIOUS
  <2>1. CASE UNCHANGED vars
    <3>1. UNCHANGED <<account, tokens, lock, drawn, settled, pc, ctx, history>>
      BY <2>1 DEF vars, rows, clock
    <3>2. \A r \in Request : RequestOK(r, pc[r], ctx[r])'
      BY <3>1 DEF IInv, RequestOK
    <3>3. drawn' + Cardinality(Drawing') <= MaxToken
      BY <3>1 DEF IInv, Drawing
    <3>4. TypeOK' /\ CreateApart' /\ RowsOK' /\ SupersededDead' /\ UsedMeansDone'
      BY <3>1 DEF IInv, TypeOK, CreateApart, RowsOK, SupersededDead, UsedMeansDone
    <3>5. TypeSurvives'
      BY <3>1 DEF IInv, TypeSurvives, Created, Surviving, Unused
    <3> QED
      BY <3>1, <3>2, <3>3, <3>4, <3>5 DEF IInv
  <2>2. ASSUME NEW r \in Request, Arrival(r) PROVE IInv'
    BY <2>2, AskKeeps, FollowKeeps DEF Arrival
  <2>3. ASSUME NEW r \in Request, Progress(r) PROVE IInv'
    BY <2>3, LatestKeeps, SnapshotKeeps, LockKeeps, DeleteKeeps, CreateKeeps, MailKeeps,
       ConsumeKeeps, ClaimKeeps, CommitKeeps DEF Progress
  <2>4. ASSUME NEW r \in Request, DeadlockAbort(r) \/ Abort(r) PROVE IInv'
    BY <2>4, AbortKeeps
  <2>5. CASE CooldownPasses \/ \E t \in Token : TokenExpires(t)
    BY <2>5, TimeKeeps
  <2> QED
    BY <2>1, <2>2, <2>3, <2>4, <2>5 DEF Next
<1> QED
  BY <1>1, InitIInv, PTL DEF Spec

\* Rows, locals and labels keep their types, and a row is locked only while it
\* is unused and inside a statement or transaction.
THEOREM TypeCorrect == Spec => []TypeOK
<1>1. IInv => TypeOK
  BY DEF IInv
<1> QED
  BY <1>1, Invariant, PTL

\* No link is used up without an effect.
THEOREM NothingUsedInVain == Spec => []UsedMeansDone
<1>1. IInv => UsedMeansDone
  BY DEF IInv
<1> QED
  BY <1>1, Invariant, PTL

\* Who was mailed a link and used none still holds one that works, unless a
\* request failed between the deletion and the mail.
THEOREM LinkLeft == Spec => []LinkSurvives
<1>1. IInv => LinkSurvives
  <2> SUFFICES ASSUME IInv, \A r \in Request : pc[r] = "idle", ~history.lost, NEW type \in Type,
                      {t \in history.mailed : tokens[t].type = type} # {},
                      \A t \in history.mailed : tokens[t].type = type => history.accepted[t] = 0
               PROVE  {t \in history.mailed : tokens[t].type = type} \cap Unused(type) # {}
    BY DEF LinkSurvives
  <2>1. Created(type) # {}
    BY DEF IInv, RowsOK, Created, History
  <2>2. \A t \in Created(type) : history.accepted[t] = 0
    BY DEF IInv, RowsOK, Created, History
  <2>3. Surviving(type)
    BY <2>1, <2>2 DEF IInv, TypeSurvives
  <2>4. PICK t \in Unused(type) : t \in history.mailed
    BY <2>3 DEF Surviving
  <2> QED
    BY <2>4 DEF Unused
<1> QED
  BY <1>1, Invariant, PTL

-----------------------------------------------------------------------------
(* The acceptances, and the refinement of OneTime.                          *)

\* Only a commit accepts.
LEMMA OthersAcceptNothing ==
    ASSUME IInv, [Next]_vars, \A r \in Request : ~Commit(r)
    PROVE  UNCHANGED history.accepted
<1>1. history \in History
  BY DEF IInv
<1>2. ASSUME NEW r \in Request, Arrival(r) PROVE UNCHANGED history
  BY <1>2 DEF Arrival, Register, Resend, Forgot, Follow
<1>3. ASSUME NEW r \in Request, Progress(r) PROVE UNCHANGED history.accepted
  BY <1>1, <1>3 DEF Progress, ResendLatest, DeleteSnapshot, LockRow, DeleteCommit, Create, Mail,
     Consume, Claim, SiblingSnapshot, History
<1>4. ASSUME NEW r \in Request, DeadlockAbort(r) \/ Abort(r) PROVE UNCHANGED history.accepted
  BY <1>1, <1>4 DEF DeadlockAbort, Abort, History
<1>5. CASE CooldownPasses \/ (\E t \in Token : TokenExpires(t)) \/ UNCHANGED vars
  BY <1>5 DEF CooldownPasses, TokenExpires, vars
<1> QED
  BY <1>2, <1>3, <1>4, <1>5 DEF Next

\* A superseded link is dead, and what is accepted is alive until then.
THEOREM SupersededStaysDead == Spec => SupersededNeverAccepted
<1>1. IInv /\ [Next]_vars =>
          (\A t \in history.superseded : history'.accepted[t] = history.accepted[t])
  <2> SUFFICES ASSUME IInv, [Next]_vars, NEW t \in history.superseded
               PROVE  history'.accepted[t] = history.accepted[t]
    OBVIOUS
  <2>1. CASE \A r \in Request : ~Commit(r)
    BY <2>1, OthersAcceptNothing
  <2>2. ASSUME NEW r \in Request, Commit(r) PROVE history'.accepted[t] = history.accepted[t]
    <3>1. t # ctx[r].token
      <4>1. tokens[ctx[r].token].state = "unused"
        BY <2>2, CommitEffect
      <4>2. tokens[t].state # "unused"
        BY DEF IInv, SupersededDead
      <4> QED
        BY <4>1, <4>2
    <3>2. history'.accepted = [history.accepted EXCEPT ![ctx[r].token] = 1]
      BY <2>2, CommitEffect
    <3>3. history.accepted \in [Token -> {0, 1}] /\ t \in Token
      BY DEF IInv, History
    <3> QED
      BY <3>1, <3>2, <3>3
  <2> QED
    BY <2>1, <2>2
<1> QED
  BY <1>1, Invariant, PTL DEF Spec, SupersededNeverAccepted

\* Rows go onward, an expired one stays expired, and who begins to accept has
\* found its token usable.
LEMMA StepOnward ==
    ASSUME IInv, [Next]_vars
    PROVE  /\ Onward
           /\ \A t \in Token : tokens[t].state # "none" /\ tokens[t].expired => tokens'[t].expired
           /\ \A r \in Request : Accepting(r)' =>
                 \/ Accepting(r) /\ ctx'[r].token = ctx[r].token
                 \/ Usable(ctx'[r].token)
<1> DEFINE Rows == /\ Onward
                   /\ \A t \in Token : tokens[t].state # "none" /\ tokens[t].expired => tokens'[t].expired
           Starts == \A r \in Request : Accepting(r)' =>
                         \/ Accepting(r) /\ ctx'[r].token = ctx[r].token
                         \/ Usable(ctx'[r].token)
<1>1. Rows
  <2>1. CASE UNCHANGED tokens
    BY <2>1 DEF Onward
  <2>2. ASSUME NEW r \in Request, DeleteCommit(r) \/ Commit(r) PROVE Rows
    <3>1. PICK s \in {"used", "deleted"} : tokens' = Marked(Held(r), s) /\ lock' = Released(r)
      BY <2>2 DEF DeleteCommit, Commit
    <3>2. Onward
      BY <3>1, MarkedRows
    <3>3. \A t \in Token : tokens'[t].expired = tokens[t].expired
      BY <3>1 DEF Marked, IInv, TypeOK, TokenRow
    <3> QED
      BY <3>2, <3>3
  <2>3. ASSUME NEW r \in Request, Create(r) PROVE Rows
    <3>1. tokens[ctx[r].token].state = "none"
      BY <2>3 DEF Create, IInv, RequestOK
    <3>2. \A t \in Token : t # ctx[r].token => tokens'[t] = tokens[t]
      BY <2>3 DEF Create, IInv, TypeOK
    <3> QED
      BY <3>1, <3>2 DEF Onward
  <2>4. ASSUME NEW t \in Token, TokenExpires(t) PROVE Rows
    <3>1. \A s \in Token : s # t => tokens'[s] = tokens[s]
      BY <2>4 DEF TokenExpires, IInv, TypeOK
    <3>2. tokens'[t] = [tokens[t] EXCEPT !.expired = TRUE]
      BY <2>4 DEF TokenExpires, IInv, TypeOK
    <3>3. tokens'[t].type = tokens[t].type /\ tokens'[t].state = tokens[t].state /\ tokens'[t].expired
      BY <3>2 DEF IInv, TypeOK, TokenRow
    <3> QED
      BY <3>1, <3>3 DEF Onward
  <2>5. \/ UNCHANGED tokens
        \/ \E r \in Request : DeleteCommit(r) \/ Commit(r) \/ Create(r)
        \/ \E t \in Token : TokenExpires(t)
    BY DEF Next, Arrival, Progress, Register, Resend, Forgot, Follow, ResendLatest,
           DeleteSnapshot, LockRow, Mail, Consume, Claim, SiblingSnapshot, DeadlockAbort, Abort,
           CooldownPasses, vars, rows
  <2> QED
    BY <2>1, <2>2, <2>3, <2>4, <2>5
<1>2. Starts
  <2>1. ASSUME NEW q \in Request, UNCHANGED <<pc[q], ctx[q]>> PROVE
            Accepting(q)' => Accepting(q) /\ ctx'[q].token = ctx[q].token
    BY <2>1 DEF Accepting
  <2>2. ASSUME NEW r \in Request, NEW l, NEW x, pc' = [pc EXCEPT ![r] = l], ctx' = [ctx EXCEPT ![r] = x],
               l \in {"claim", "siblings", "marking"} =>
                   (Accepting(r) /\ x.token = ctx[r].token) \/ Usable(x.token)
        PROVE  Starts
    <3>1. \A q \in Request \ {r} : UNCHANGED <<pc[q], ctx[q]>>
      BY <2>2 DEF IInv, TypeOK
    <3>2. pc'[r] = l /\ ctx'[r] = x
      BY <2>2 DEF IInv, TypeOK
    <3> QED
      BY <2>1, <2>2, <3>1, <3>2 DEF Accepting
  <2> HIDE DEF Starts
  <2>3. ASSUME NEW r \in Request, Arrival(r) \/ DeadlockAbort(r) \/ Abort(r) PROVE Starts
    <3>1. PICK l \in {"delete", "latest", "consume", "idle"} : pc' = [pc EXCEPT ![r] = l]
      BY <2>3 DEF Arrival, Register, Resend, Forgot, Follow, DeadlockAbort, Abort, Finish, Goto
    <3>2. PICK x : ctx' = [ctx EXCEPT ![r] = x]
      BY <2>3 DEF Arrival, Register, Resend, Forgot, Follow, DeadlockAbort, Abort, Finish
    <3> QED
      BY <2>2, <3>1, <3>2
  <2>4. ASSUME NEW r \in Request, Progress(r) PROVE Starts
    <3>0. ctx \in [Request -> Locals] /\ pc \in [Request -> Labels]
      BY DEF IInv, TypeOK
    <3>1. CASE Consume(r) \/ Claim(r)
      <4>1. PICK x : x = ctx[r]
        OBVIOUS
      <4>2. CASE Goto(r, "claim") /\ UNCHANGED ctx /\ Usable(ctx[r].token)
        <5>1. ctx' = [ctx EXCEPT ![r] = x] /\ pc' = [pc EXCEPT ![r] = "claim"]
          BY <3>0, <4>1, <4>2 DEF Goto
        <5> QED
          BY <2>2, <4>1, <4>2, <5>1
      <4>3. CASE Goto(r, "siblings") /\ UNCHANGED ctx /\ pc[r] = "claim"
        <5>1. ctx' = [ctx EXCEPT ![r] = x] /\ pc' = [pc EXCEPT ![r] = "siblings"] /\ Accepting(r)
          BY <3>0, <4>1, <4>3 DEF Goto, Accepting
        <5> QED
          BY <2>2, <4>1, <5>1
      <4>4. CASE Finish(r)
        <5>1. ctx' = [ctx EXCEPT ![r] = NoLocals] /\ pc' = [pc EXCEPT ![r] = "idle"]
          BY <4>4 DEF Finish, Goto
        <5>2. PICK y : y = NoLocals
          OBVIOUS
        <5> QED
          BY <2>2, <5>1, <5>2
      <4> QED
        BY <3>1, <4>2, <4>3, <4>4 DEF Consume, Claim
    <3>2. CASE SiblingSnapshot(r)
      <4>1. PICK x : /\ ctx' = [ctx EXCEPT ![r] = x]
                     /\ x.token = ctx[r].token
        <5> DEFINE siblings == Unused(ctx[r].type) \ {ctx[r].token}
                   y == [ctx[r] EXCEPT !.seen = siblings, !.known = siblings]
        <5>1. ctx' = [ctx EXCEPT ![r] = y]
          BY <3>2 DEF SiblingSnapshot
        <5>2. y.token = ctx[r].token
          BY <3>0 DEF Locals
        <5> HIDE DEF y
        <5> QED
          BY <5>1, <5>2
      <4>2. pc' = [pc EXCEPT ![r] = "marking"] /\ Accepting(r)
        BY <3>2 DEF SiblingSnapshot, Goto, Accepting
      <4> QED
        BY <2>2, <4>1, <4>2
    <3>3. CASE LockRow(r)
      <4>1. PICK t : ctx' = [ctx EXCEPT ![r].seen = @ \ {t}]
        BY <3>3 DEF LockRow
      <4>2. \A q \in Request : pc'[q] = pc[q] /\ ctx'[q].token = ctx[q].token
        BY <3>0, <3>3, <4>1 DEF LockRow, Locals
      <4> QED
        BY <4>2 DEF Starts, Accepting
    <3>4. CASE \/ ResendLatest(r) \/ DeleteSnapshot(r) \/ DeleteCommit(r) \/ Create(r) \/ Mail(r)
               \/ Commit(r)
      <4>1. PICK l \in {"delete", "deleting", "create", "mail", "idle"} : pc' = [pc EXCEPT ![r] = l]
        BY <3>4 DEF ResendLatest, DeleteSnapshot, DeleteCommit, Create, Mail, Commit, Finish, Goto
      <4>2. \A q \in Request \ {r} : ctx'[q] = ctx[q]
        BY <3>0, <3>4 DEF ResendLatest, DeleteSnapshot, DeleteCommit, Create, Mail, Commit, Finish
      <4>3. \A q \in Request : pc'[q] = IF q = r THEN l ELSE pc[q]
        BY <3>0, <4>1
      <4> QED
        BY <4>2, <4>3 DEF Starts, Accepting
    <3> QED
      BY <2>4, <3>1, <3>2, <3>3, <3>4 DEF Progress
  <2>5. CASE CooldownPasses \/ (\E t \in Token : TokenExpires(t)) \/ UNCHANGED vars
    BY <2>5 DEF CooldownPasses, TokenExpires, vars, Starts, Accepting
  <2> QED
    BY <2>3, <2>4, <2>5 DEF Next
<1> QED
  BY <1>1, <1>2

\* So no link comes back: fresh, open and closed follow each other.
LEMMA StatesFollow ==
    ASSUME IInv, [Next]_vars, NEW t \in Token
    PROVE  TokenState(t)' \in Once!Later[TokenState(t)]
<1>1. /\ \A s \in {"fresh", "open", "closed"} : s \in Once!Later["fresh"]
      /\ "open" \in Once!Later["open"] /\ "closed" \in Once!Later["open"]
      /\ "closed" \in Once!Later["closed"]
  BY DEF Once!Later
<1>2. CASE tokens[t].state = "none"
  BY <1>1, <1>2 DEF TokenState
<1>3. CASE tokens[t].state # "none" /\ Open(t)
  <2>1. TokenState(t) = "open" /\ TokenState(t)' \in {"open", "closed"}
    BY <1>3, StepOnward DEF Onward, TokenState
  <2> QED
    BY <1>1, <2>1
<1>4. CASE tokens[t].state # "none" /\ ~Open(t)
  <2>1. ASSUME tokens[t].state # "unused" PROVE TokenState(t)' = "closed"
    <3>1. tokens'[t].state \notin {"none", "unused"}
      BY <1>4, <2>1, StepOnward DEF Onward
    <3> QED
      BY <3>1 DEF TokenState, Open
  <2>2. ASSUME tokens[t].state = "unused" PROVE TokenState(t)' = "closed"
    <3>1. tokens[t].expired /\ \A r \in Request : ~(Accepting(r) /\ ctx[r].token = t)
      BY <1>4, <2>2 DEF Open, IInv, TypeOK, TokenRow
    <3>2. tokens'[t].state # "none" /\ tokens'[t].expired
      BY <1>4, <3>1, StepOnward DEF Onward
    <3>3. \A r \in Request : Accepting(r)' => ctx'[r].token # t
      BY <3>1, StepOnward DEF Usable
    <3> QED
      BY <3>2, <3>3 DEF TokenState, Open
  <2>3. TokenState(t) = "closed" /\ TokenState(t)' = "closed"
    BY <1>4, <2>1, <2>2 DEF TokenState
  <2> QED
    BY <1>1, <2>3
<1> QED
  BY <1>2, <1>3, <1>4

\* A commit uses its token: it was open, and is closed.
LEMMA CommitUses ==
    ASSUME IInv, NEW r \in Request, Commit(r)
    PROVE  \E k \in Token :
               /\ k = ctx[r].token
               /\ TokenState(k) = "open" /\ TokenState(k)' = "closed"
<1>1. PICK k \in Token : k = ctx[r].token /\ lock[k] = r /\ tokens[k].state = "unused" /\ pc[r] = "marking"
  BY CommitEffect
<1>2. TokenState(k) = "open"
  BY <1>1 DEF TokenState, Open, Accepting
<1>3. tokens'[k].state = "used"
  BY <1>1, MarkedRows DEF Commit
<1>4. TokenState(k)' = "closed"
  BY <1>3 DEF TokenState, Open
<1> QED
  BY <1>1, <1>2, <1>4

\* Links are used as OneTime says, however many requests follow them.
THEOREM LinksOnce == Spec => ImplementsOneTime
<1>1. Init => Once!Init
  <2> SUFFICES ASSUME Init PROVE Once!Init
    OBVIOUS
  <2>1. \A t \in Token : TokenState(t) = "fresh"
    BY DEF Init, TokenState
  <2>2. history.accepted = [t \in Token |-> 0]
    BY DEF Init
  <2> QED
    BY <2>1, <2>2 DEF Once!Init
<1>2. IInv /\ [Next]_vars => [Once!Next]_<<[t \in Token |-> TokenState(t)], history.accepted>>
  <2> SUFFICES ASSUME IInv, [Next]_vars PROVE Once!Next
    OBVIOUS
  <2>1. \A t \in Token : TokenState(t)' \in Once!Later[TokenState(t)]
    BY StatesFollow
  <2>2. CASE \A r \in Request : ~Commit(r)
    BY <2>1, <2>2, OthersAcceptNothing DEF Once!Next, Once!Pass
  <2>3. ASSUME NEW r \in Request, Commit(r) PROVE Once!Next
    <3>1. PICK k \in Token : k = ctx[r].token /\ TokenState(k) = "open" /\ TokenState(k)' = "closed"
      BY <2>3, CommitUses
    <3>2. /\ history'.accepted = [history.accepted EXCEPT ![k] = 1]
          /\ history.accepted[k] = 0
      BY <2>3, <3>1, CommitEffect
    <3>3. history'.accepted = [history.accepted EXCEPT ![k] = @ + 1]
      BY <3>2
    <3>4. Once!Use(k)
      BY <2>1, <3>1, <3>3 DEF Once!Use, Once!Pass
    <3> QED
      BY <3>4 DEF Once!Next
  <2> QED
    BY <2>2, <2>3
<1> QED
  BY <1>1, <1>2, Invariant, PTL DEF Spec, ImplementsOneTime, Once!Spec

-----------------------------------------------------------------------------
(* What OneTime promises, carried to this module.                           *)

\* An open link has not been used, and a used one is closed.
OpenUnused ==
    \A t \in Token :
        /\ TokenState(t) \in {"fresh", "open", "closed"}
        /\ history.accepted[t] \in {0, 1} /\ (history.accepted[t] = 1 => TokenState(t) = "closed")

\* A use is of a link that was open, so unused, and closes it; whatever else the
\* step does to the others leaves the closed ones closed.
LEMMA OnceKeepsUnused ==
    ASSUME OpenUnused, Once!Next
    PROVE  /\ OpenUnused'
           /\ \A t \in Token : TokenState(t) = "closed" => history'.accepted[t] = history.accepted[t]
<1>1. \A t \in Token : \A s \in Once!Later[TokenState(t)] :
          s \in {"fresh", "open", "closed"} /\ (TokenState(t) = "closed" => s = "closed")
  BY DEF OpenUnused, Once!Later
<1>2. CASE history'.accepted = history.accepted /\ Once!Pass(Token)
  <2>1. \A t \in Token : TokenState(t)' \in Once!Later[TokenState(t)]
    BY <1>2 DEF Once!Pass
  <2> QED
    BY <1>1, <1>2, <2>1 DEF OpenUnused
<1>3. ASSUME NEW d \in Token, Once!Use(d)
      PROVE  /\ OpenUnused'
             /\ \A t \in Token : TokenState(t) = "closed" => history'.accepted[t] = history.accepted[t]
  <2>1. TokenState(d) = "open" /\ TokenState(d)' = "closed"
    BY <1>3 DEF Once!Use
  <2>2. history'.accepted = [history.accepted EXCEPT ![d] = 1]
    <3>1. history.accepted[d] = 0
      BY <2>1 DEF OpenUnused
    <3>2. history'.accepted = [history.accepted EXCEPT ![d] = @ + 1]
      BY <1>3 DEF Once!Use
    <3> QED
      BY <3>1, <3>2
  <2>3. \A t \in Token \ {d} : TokenState(t)' \in Once!Later[TokenState(t)]
    BY <1>3 DEF Once!Use, Once!Pass
  <2>4. \A t \in Token \ {d} : history'.accepted[t] = history.accepted[t]
    BY <2>2
  <2>5. history'.accepted[d] \in {0, 1}
    BY <2>2 DEF OpenUnused
  <2> QED
    BY <1>1, <2>1, <2>3, <2>4, <2>5 DEF OpenUnused
<1> QED
  BY <1>2, <1>3 DEF Once!Next

\* A link verifies the address or resets the password once at most, and never after
\* it has expired, was deleted or replaced.
THEOREM LinkUsedOnce == Spec => []Once!UsedOnce /\ Once!ClosedStaysUnused
<1>1. Once!Init => OpenUnused
  BY DEF Once!Init, OpenUnused
<1>2. OpenUnused /\ [Once!Next]_<<[t \in Token |-> TokenState(t)], history.accepted>> =>
        /\ OpenUnused'
        /\ [Once!ClosedUnused]_<<[t \in Token |-> TokenState(t)], history.accepted>>
  <2>1. CASE Once!Next
    BY <2>1, OnceKeepsUnused DEF Once!ClosedUnused
  <2>2. CASE UNCHANGED <<[t \in Token |-> TokenState(t)], history.accepted>>
    <3>1. \A t \in Token : TokenState(t)' = TokenState(t)
      BY <2>2
    <3> QED
      BY <2>2, <3>1 DEF OpenUnused
  <2> QED
    BY <2>1, <2>2
<1>3. OpenUnused => Once!UsedOnce
  BY DEF OpenUnused, Once!UsedOnce
<1> QED
  BY <1>1, <1>2, <1>3, LinksOnce, PTL DEF ImplementsOneTime, Once!Spec, Once!ClosedStaysUnused
=============================================================================
