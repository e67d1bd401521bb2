--------------------------- MODULE AccountsProofs ---------------------------
(***************************************************************************)
(* Theorems about module Accounts, for any number of avatars, passwords    *)
(* and requests in flight.                                                 *)
(*                                                                         *)
(* What a request holds to write back is the row, as long as nobody wrote  *)
(* the row over it.  The object an upload has put is nobody else's until   *)
(* the row refers to it, and one that is about to be removed is not the    *)
(* row's any more.  An upload that did not hear of its row being written   *)
(* has no object of its own.                                               *)
(***************************************************************************)
EXTENDS Accounts, TLAPS

\* An upload whose object no row refers to yet, and a request that removes the
\* object the row referred to before.
FreshPhases == {"upload.put", "upload.sign", "upload.write", "upload.undo"}
Cleaning == {"upload.clean", "remove.clean"}

\* x has an object of its own: none of those in lost, which the row was made to
\* refer to unheard.
Fresh(x, lost) == x.phase \in FreshPhases /\ x.key \notin lost

\* The avatars a request x has from rows.
Refers(x) == {x.old} \cup (IF x.phase \in Holding THEN {x.user.avatar} ELSE {})

\* What a request x knows of the row u, the stored objects and the keys given
\* out; mix: whether some row was written from an outdated copy.
Knows(x, u, stored, given, mix, lost) ==
    /\ Refers(x) \subseteq given \cup {None}
    /\ x.phase \in FreshPhases => x.key \in given
    /\ x.phase \in {"upload.put", "upload.sign", "upload.write"} => x.key \notin lost
    /\ x.phase \in {"upload.sign", "upload.write"} => x.key \in stored
    /\ x.phase \in Holding => x.user \in Row /\ (~mix => x.user = u)
    /\ x.phase \in Cleaning \cup {"remove.write"} => x.old # None
    /\ x.phase \in Cleaning /\ ~mix => u.avatar # x.old

RequestsKnow == \A r \in Requests : Knows(request[r], row, objects, drawn, mixed, unheard)

\* The object x uploads is not the avatar a, nor one the request y knows of; and
\* y does not upload the same.
Apart(x, a, lost) == Fresh(x, lost) => x.key # a
Strange(x, y, lost) ==
    Fresh(x, lost) =>
        x.key \notin Refers(y) /\ (y.phase \in FreshPhases => x.key # y.key)

FreshApart ==
    \A r \in Requests :
        /\ Apart(request[r], row.avatar, unheard)
        /\ Fresh(request[r], unheard) => request[r].key \notin Refers(request[r])
        /\ \A q \in Requests \ {r} : Strange(request[r], request[q], unheard)

IInv == TypeOK /\ RequestsKnow /\ FreshApart /\ AvatarStored /\ ChangesKept

-----------------------------------------------------------------------------
LEMMA InitIInv == Init => IInv
<1>. SUFFICES ASSUME Init PROVE IInv
  OBVIOUS
<1>1. /\ row \in Row /\ row.avatar = None /\ intended = row
      /\ objects = {} /\ drawn = {} /\ mixed = FALSE /\ unheard = {}
      /\ request = [r \in Requests |-> Idle]
  BY DEF Init, Row
<1>2. /\ Idle \in Local /\ Idle.phase = "idle" /\ Idle.old = None
  BY DEF Idle, Local, Phases
<1>3. Refers(Idle) = {None}
  BY <1>2 DEF Refers, Holding
<1>. QED
  BY <1>1, <1>2, <1>3 DEF IInv, TypeOK, RequestsKnow, Knows, FreshApart, Apart, Strange, Fresh, FreshPhases,
     Cleaning, Holding, AvatarStored, ChangesKept

\* A step of one request r, which goes on as x.  The others still know what they
\* knew: the row is their copy, or the step is a mixing one; no object but those r
\* knows of goes; r draws and names no key that is another's.
LEMMA OneRequest ==
    ASSUME IInv, NEW r \in Requests, NEW x \in Local, request' = [request EXCEPT ![r] = x],
           row' \in Row, intended' \in Row, mixed' \in BOOLEAN,
           drawn \subseteq drawn', drawn' \subseteq Keys, objects' \subseteq drawn',
           unheard \subseteq unheard', unheard' \subseteq drawn',
           unheard' \subseteq unheard \cup (IF Fresh(request[r], unheard) THEN {request[r].key} ELSE {}),
           objects \subseteq objects' \cup Refers(request[r]) \cup
               (IF request[r].phase \in FreshPhases THEN {request[r].key} ELSE {}),
           ~mixed' => ~mixed,
           ~mixed' /\ row' # row => \A q \in Requests \ {r} : request[q].phase \notin Holding,
           row'.avatar \in Refers(request[r]) \cup {row.avatar, None} \cup
               (IF request[r].phase \in FreshPhases THEN {request[r].key} ELSE {}),
           ~mixed' => row'.avatar \in {row.avatar, None} \cup
               (IF Fresh(request[r], unheard) THEN {request[r].key} ELSE {}),
           ~mixed' => row'.avatar \in objects' \cup unheard' \cup {None} /\ row' = intended',
           Knows(x, row', objects', drawn', mixed', unheard'),
           Apart(x, row'.avatar, unheard'),
           Fresh(x, unheard') => x.key \notin Refers(x),
           Refers(x) \subseteq Refers(request[r]) \cup {row.avatar, None},
           x.phase \in FreshPhases =>
              \/ x.key \notin drawn
              \/ request[r].phase \in FreshPhases /\ x.key = request[r].key
    PROVE  IInv'
<1>. DEFINE y == request[r]
<1>0. /\ None \notin Keys /\ row \in Row /\ request \in [Requests -> Local]
      /\ objects \subseteq drawn /\ drawn \subseteq Keys /\ row.avatar \in drawn \cup {None}
      /\ unheard \subseteq drawn
  BY NoneAssumption DEF IInv, TypeOK
<1>1. \A q \in Requests : request'[q] = IF q = r THEN x ELSE request[q]
  BY <1>0
<1>2. \A q \in Requests :
          /\ Knows(request[q], row, objects, drawn, mixed, unheard)
          /\ Apart(request[q], row.avatar, unheard)
          /\ Fresh(request[q], unheard) => request[q].key \notin Refers(request[q])
          /\ \A p \in Requests \ {q} : Strange(request[q], request[p], unheard)
  BY DEF IInv, RequestsKnow, FreshApart
<1>3. /\ row'.avatar \in drawn' \cup {None}
      /\ Refers(y) \subseteq drawn \cup {None}
  BY <1>0, <1>2 DEF Knows
<1>4. ASSUME NEW q \in Requests \ {r}
      PROVE  /\ Knows(request[q], row', objects', drawn', mixed', unheard')
             /\ Apart(request[q], row'.avatar, unheard')
             /\ Strange(request[q], x, unheard') /\ Strange(x, request[q], unheard')
             /\ Fresh(request[q], unheard') => request[q].key \notin Refers(request[q])
             /\ \A p \in Requests \ {q, r} : Strange(request[q], request[p], unheard')
  <2>1. /\ Knows(request[q], row, objects, drawn, mixed, unheard)
        /\ Apart(request[q], row.avatar, unheard)
        /\ Strange(request[q], y, unheard) /\ Strange(y, request[q], unheard)
    BY <1>2
  <2>2. request[q].phase \in FreshPhases => request[q].key \in drawn /\ request[q].key # None
    BY <1>0, <2>1 DEF Knows
  <2>3. Apart(request[q], row'.avatar, unheard')
    BY <2>1, <2>2 DEF Apart, Strange, Fresh
  <2>4. Strange(request[q], x, unheard')
    BY <2>1, <2>2 DEF Strange, Apart, Fresh
  <2>5. Strange(x, request[q], unheard')
    BY <1>0, <2>1, <2>2 DEF Strange, Knows, Fresh
  <2>0. request[q].phase \in {"upload.put", "upload.sign", "upload.write"} =>
            request[q].key \notin unheard'
    BY <2>1 DEF Knows, Strange, Fresh, FreshPhases
  <2>6. request[q].phase \in {"upload.sign", "upload.write"} => request[q].key \in objects'
    BY <2>1 DEF Knows, Strange, Fresh, FreshPhases
  <2>7. request[q].phase \in Holding =>
            request[q].user \in Row /\ (~mixed' => request[q].user = row')
    BY <2>1 DEF Knows
  <2>8. request[q].phase \in Cleaning /\ ~mixed' => row'.avatar # request[q].old
    BY <2>1 DEF Knows, Strange, Refers, Fresh
  <2>9. Knows(request[q], row', objects', drawn', mixed', unheard')
    BY <2>0, <2>1, <2>2, <2>6, <2>7, <2>8 DEF Knows
  <2>10. /\ Fresh(request[q], unheard') => request[q].key \notin Refers(request[q])
         /\ \A p \in Requests \ {q, r} : Strange(request[q], request[p], unheard')
    BY <1>2 DEF Fresh, Strange
  <2>. QED
    BY <2>3, <2>4, <2>5, <2>9, <2>10
<1>5. TypeOK'
  BY <1>0, <1>3 DEF TypeOK
<1>6. RequestsKnow'
  BY <1>1, <1>4 DEF RequestsKnow
<1>7. FreshApart'
  BY <1>1, <1>4 DEF FreshApart
<1>. QED
  BY <1>5, <1>6, <1>7 DEF IInv, AvatarStored, ChangesKept

\* A step that writes a column other than the avatar of the row as it is.
LEMMA ColumnKeeps ==
    ASSUME IInv, UNCHANGED <<objects, drawn, request, unheard>>, MixedByAny,
           row' \in Row, intended' \in Row, row'.avatar = row.avatar,
           row = intended => row' = intended'
    PROVE  IInv'
<1>1. /\ mixed' \in BOOLEAN /\ (~mixed' => ~mixed)
      /\ ~mixed' => \A q \in Requests : request[q].phase \notin Holding
  BY DEF MixedByAny, Mixes, IInv, TypeOK
<1>2. TypeOK'
  BY <1>1 DEF IInv, TypeOK
<1>3. RequestsKnow'
  <2>1. ASSUME NEW q \in Requests PROVE Knows(request[q], row', objects, drawn, mixed', unheard)
    <3>1. Knows(request[q], row, objects, drawn, mixed, unheard)
      BY DEF IInv, RequestsKnow
    <3>. QED
      BY <1>1, <3>1 DEF Knows
  <2>. QED
    BY <2>1 DEF RequestsKnow
<1>4. FreshApart'
  BY DEF IInv, FreshApart
<1>5. AvatarStored' /\ ChangesKept'
  BY <1>1 DEF IInv, AvatarStored, ChangesKept
<1>. QED
  BY <1>2, <1>3, <1>4, <1>5 DEF IInv

\* What the step of a request r may take for granted.
LEMMA Known ==
    ASSUME IInv, NEW r \in Requests
    PROVE  /\ request[r] \in Local /\ request \in [Requests -> Local]
           /\ row \in Row /\ intended \in Row /\ mixed \in BOOLEAN
           /\ row.avatar \in drawn \cup {None} /\ objects \subseteq drawn /\ drawn \subseteq Keys
           /\ unheard \subseteq drawn /\ None \notin Keys
           /\ Knows(request[r], row, objects, drawn, mixed, unheard)
           /\ Apart(request[r], row.avatar, unheard)
           /\ Fresh(request[r], unheard) => request[r].key \notin Refers(request[r])
           /\ ~mixed => row.avatar \in objects \cup unheard \cup {None} /\ row = intended
BY NoneAssumption DEF IInv, TypeOK, RequestsKnow, FreshApart, AvatarStored, ChangesKept

\* A write by r: mixing, or all copies are of the row that is written over.
LEMMA WriteMixes ==
    ASSUME IInv, NEW r \in Requests, MixedBy(r)
    PROVE  /\ mixed' \in BOOLEAN /\ (~mixed' => ~mixed)
           /\ ~mixed' => \A q \in Requests \ {r} : request[q].phase \notin Holding
BY DEF MixedBy, Mixes, IInv, TypeOK

\* A request that is finished.
LEMMA IdleKnows ==
    /\ Idle \in Local /\ Idle.phase = "idle" /\ Idle.phase \notin Holding
    /\ Idle.phase \notin FreshPhases /\ Refers(Idle) = {None}
    /\ \A u, stored, given, mix, lost : Knows(Idle, u, stored, given, mix, lost)
<1>1. Idle \in Local /\ Idle.phase = "idle" /\ Idle.old = None
  BY DEF Idle, Local, Phases
<1>2. Idle.phase \notin Holding \cup FreshPhases \cup Cleaning \cup {"remove.write"}
  BY <1>1 DEF Holding, FreshPhases, Cleaning
<1>3. Refers(Idle) = {None}
  BY <1>1, <1>2 DEF Refers
<1>. QED
  BY <1>1, <1>2, <1>3 DEF Knows, FreshPhases

\* The requests that begin with a copy of the row.
LEMMA ReadKeeps ==
    ASSUME IInv, NEW r \in Requests,
           \/ UpdateUser(r) \/ Rehash(r) \/ DeleteAvatar(r)
           \/ \E p \in Passwords : ChangePassword(r, p)
    PROVE  IInv'
<1>0. UNCHANGED <<row, objects, drawn, intended, mixed, unheard>>
  BY DEF UpdateUser, Rehash, DeleteAvatar, ChangePassword
<1>1. PICK x \in Local :
          /\ request' = [request EXCEPT ![r] = x]
          /\ x.user = row
          /\ \/ x.phase \in {"update.write", "password.write"} /\ x.old = None
             \/ x.phase = "remove.write" /\ x.old = row.avatar /\ row.avatar # None
  <2>1. CASE UpdateUser(r) \/ Rehash(r)
    <3>1. PICK x : x = [Idle EXCEPT !.phase = "update.write", !.user = row]
      OBVIOUS
    <3>2. x \in Local /\ x.phase = "update.write" /\ x.user = row /\ x.old = None
      BY <3>1, Known DEF Idle, Local, Phases
    <3>. QED
      BY <2>1, <3>1, <3>2 DEF UpdateUser, Rehash, Begin
  <2>2. CASE DeleteAvatar(r)
    <3>1. PICK x : x = [Idle EXCEPT !.phase = "remove.write", !.user = row, !.old = row.avatar]
      OBVIOUS
    <3>2. x \in Local /\ x.phase = "remove.write" /\ x.user = row /\ x.old = row.avatar
      BY <3>1, Known DEF Idle, Local, Phases, Row
    <3>. QED
      BY <2>2, <3>1, <3>2 DEF DeleteAvatar, Begin
  <2>3. ASSUME NEW p \in Passwords, ChangePassword(r, p)
        PROVE  \E x \in Local :
                  /\ request' = [request EXCEPT ![r] = x]
                  /\ x.user = row /\ x.phase = "password.write" /\ x.old = None
    <3>1. PICK x : x = [Idle EXCEPT !.phase = "password.write", !.user = row, !.password = p]
      OBVIOUS
    <3>2. x \in Local /\ x.phase = "password.write" /\ x.user = row /\ x.old = None
      BY <3>1, Known DEF Idle, Local, Phases
    <3>. QED
      BY <2>3, <3>1, <3>2 DEF ChangePassword, Begin
  <2>. QED
    BY <2>1, <2>2, <2>3
<1>2. x.phase \notin FreshPhases \cup Cleaning /\ Refers(x) \subseteq {row.avatar, None}
  BY <1>1 DEF FreshPhases, Cleaning, Refers
<1>3. Knows(x, row, objects, drawn, mixed, unheard) /\ Apart(x, row.avatar, unheard)
  BY <1>1, <1>2, Known DEF Knows, Apart, Fresh, FreshPhases
<1>4. /\ row \in Row /\ intended \in Row /\ mixed \in BOOLEAN /\ drawn \subseteq Keys
      /\ unheard \subseteq drawn /\ objects \subseteq drawn
      /\ ~mixed => row.avatar \in objects \cup unheard \cup {None} /\ row = intended
  BY Known
<1>. QED
  BY <1>0, <1>1, <1>2, <1>3, <1>4, OneRequest DEF Fresh

\* A crash ends a request, and nothing was written.
LEMMA FailKeeps ==
    ASSUME IInv, NEW r \in Requests, Fail(r)
    PROVE  IInv'
<1>1. request' = [request EXCEPT ![r] = Idle] /\ UNCHANGED <<row, objects, drawn, intended, mixed, unheard>>
  BY DEF Fail, Finish
<1>. QED
  BY <1>1, Known, IdleKnows, OneRequest DEF Apart, Fresh

\* The copy of the row is written back.
LEMMA WriteUserKeeps ==
    ASSUME IInv, NEW r \in Requests, WriteUser(r)
    PROVE  IInv'
<1>1. /\ request[r].phase = "update.write" /\ row' = request[r].user /\ MixedBy(r)
      /\ request' = [request EXCEPT ![r] = Idle]
      /\ UNCHANGED <<objects, drawn, intended, unheard>>
  BY DEF WriteUser, At, Finish
<1>2. /\ request[r].phase \in Holding /\ request[r].user \in Row
      /\ ~mixed => request[r].user = row
      /\ request[r].user.avatar \in Refers(request[r])
  BY <1>1, Known DEF Knows, Refers, Holding
<1>3. /\ row \in Row /\ intended \in Row /\ drawn \subseteq Keys /\ objects \subseteq drawn /\ unheard \subseteq drawn
      /\ ~mixed => row.avatar \in objects \cup unheard \cup {None} /\ row = intended
  BY Known
<1>. QED
  BY <1>1, <1>2, <1>3, WriteMixes, IdleKnows, OneRequest DEF Apart, Fresh

-----------------------------------------------------------------------------
(* The avatar.                                                             *)
LEMMA UploadKeeps ==
    ASSUME IInv, NEW r \in Requests, UploadAvatar(r)
    PROVE  IInv'
<1>1. PICK k \in Keys \ drawn :
          /\ Begin(r, [Idle EXCEPT !.phase = "upload.put", !.user = row,
                                   !.key = k, !.old = row.avatar])
          /\ drawn' = drawn \cup {k}
  BY DEF UploadAvatar
<1>2. PICK x : x = [Idle EXCEPT !.phase = "upload.put", !.user = row, !.key = k, !.old = row.avatar]
  OBVIOUS
<1>3. /\ x \in Local /\ x.phase = "upload.put" /\ x.user = row /\ x.key = k
      /\ x.old = row.avatar
  BY <1>2, Known DEF Idle, Local, Phases, Row
<1>4. request' = [request EXCEPT ![r] = x] /\ UNCHANGED <<row, objects, intended, mixed, unheard>>
  BY <1>1, <1>2 DEF Begin, UploadAvatar
<1>5. /\ row \in Row /\ intended \in Row /\ mixed \in BOOLEAN /\ drawn \subseteq Keys
      /\ unheard \subseteq drawn /\ objects \subseteq drawn /\ row.avatar \in drawn \cup {None} /\ None \notin Keys
      /\ ~mixed => row.avatar \in objects \cup unheard \cup {None} /\ row = intended
  BY Known
<1>6. Refers(x) = {row.avatar}
  BY <1>3 DEF Refers, Holding
<1>7. Knows(x, row, objects, drawn', mixed, unheard)
  BY <1>1, <1>3, <1>5, <1>6 DEF Knows, Cleaning
<1>8. Apart(x, row.avatar, unheard) /\ x.key \notin Refers(x)
  BY <1>1, <1>3, <1>5, <1>6 DEF Apart, Fresh
<1>. QED
  BY <1>1, <1>3, <1>4, <1>5, <1>6, <1>7, <1>8, OneRequest

\* A request that goes on within an upload, having put its object.
LEMMA PutKeeps ==
    ASSUME IInv, NEW r \in Requests, PutObject(r)
    PROVE  IInv'
<1>1. /\ request[r].phase = "upload.put" /\ objects' = objects \cup {request[r].key}
      /\ UNCHANGED <<row, drawn, intended, mixed, unheard>>
  BY DEF PutObject, At
<1>2. PICK x : x = [request[r] EXCEPT !.phase = "upload.sign"]
  OBVIOUS
<1>3. /\ x \in Local /\ x.phase = "upload.sign" /\ x.user = request[r].user
      /\ x.key = request[r].key /\ x.old = request[r].old
  BY <1>2, Known DEF Local, Phases
<1>4. request' = [request EXCEPT ![r] = x]
  BY <1>2, Known DEF PutObject, Goto
<1>5. Refers(x) = Refers(request[r])
  BY <1>1, <1>3 DEF Refers, Holding
<1>6. request[r].phase \in FreshPhases /\ request[r].phase \in Holding /\ request[r].key \in drawn
  BY <1>1, Known DEF FreshPhases, Holding, Knows
<1>7. Knows(x, row, objects', drawn, mixed, unheard)
  BY <1>1, <1>3, <1>5, <1>6, Known DEF Knows, Cleaning
<1>8. Apart(x, row.avatar, unheard) /\ (Fresh(x, unheard) => x.key \notin Refers(x))
  BY <1>3, <1>5, <1>6, Known DEF Apart, Fresh
<1>9. /\ row \in Row /\ intended \in Row /\ mixed \in BOOLEAN /\ drawn \subseteq Keys
      /\ unheard \subseteq drawn /\ objects \subseteq drawn
      /\ ~mixed => row.avatar \in objects \cup unheard \cup {None} /\ row = intended
  BY Known
<1>. QED
  BY <1>1, <1>3, <1>4, <1>5, <1>6, <1>7, <1>8, <1>9, OneRequest

\* Whether the URL or the row fails, the request goes on to its next phase.
LEMMA GoOnKeeps ==
    ASSUME IInv, NEW r \in Requests, NEW phase,
           \/ request[r].phase = "upload.sign" /\ phase \in {"upload.write", "upload.undo"}
           \/ request[r].phase = "upload.write" /\ phase = "upload.undo",
           Goto(r, phase), UNCHANGED <<row, objects, drawn, intended, mixed, unheard>>
    PROVE  IInv'
<1>2. PICK x : x = [request[r] EXCEPT !.phase = phase]
  OBVIOUS
<1>3. /\ x \in Local /\ x.phase = phase /\ x.user = request[r].user
      /\ x.key = request[r].key /\ x.old = request[r].old
  BY <1>2, Known DEF Local, Phases
<1>4. request' = [request EXCEPT ![r] = x]
  BY <1>2, Known DEF Goto
<1>5. Refers(x) \subseteq Refers(request[r])
  BY <1>3 DEF Refers, Holding
<1>6. request[r].phase \in FreshPhases /\ request[r].phase \in Holding /\ x.phase \in FreshPhases
  BY <1>3 DEF FreshPhases, Holding
<1>7. Knows(x, row, objects, drawn, mixed, unheard)
  BY <1>3, <1>5, <1>6, Known DEF Knows, Cleaning, Holding
<1>8. Apart(x, row.avatar, unheard) /\ (Fresh(x, unheard) => x.key \notin Refers(x))
  BY <1>3, <1>5, <1>6, Known DEF Apart, Fresh
<1>9. /\ row \in Row /\ intended \in Row /\ mixed \in BOOLEAN /\ drawn \subseteq Keys
      /\ unheard \subseteq drawn /\ objects \subseteq drawn
      /\ ~mixed => row.avatar \in objects \cup unheard \cup {None} /\ row = intended
  BY Known
<1>. QED
  BY <1>3, <1>4, <1>5, <1>6, <1>7, <1>8, <1>9, OneRequest

\* The reference to the new object is written, and the old one is to go.
LEMMA WriteAvatarKeeps ==
    ASSUME IInv, NEW r \in Requests, WriteAvatar(r)
    PROVE  IInv'
<1>1. CASE Goto(r, "upload.undo") /\ UNCHANGED <<row, intended, mixed, unheard>>
  BY <1>1, GoOnKeeps DEF WriteAvatar, At
<1>2. CASE /\ row' = [request[r].user EXCEPT !.avatar = request[r].key]
           /\ intended' = [intended EXCEPT !.avatar = request[r].key]
           /\ MixedBy(r)
           /\ \/ /\ IF request[r].old = None THEN Finish(r) ELSE Goto(r, "upload.clean")
                 /\ UNCHANGED unheard
              \/ /\ Goto(r, "upload.undo")
                 /\ unheard' = unheard \cup {request[r].key}
  <2>1. request[r].phase = "upload.write" /\ UNCHANGED <<objects, drawn>>
    BY DEF WriteAvatar, At
  <2>2. /\ request[r].phase \in FreshPhases /\ Fresh(request[r], unheard)
        /\ request[r].user \in Row /\ (~mixed => request[r].user = row)
        /\ request[r].key \in objects /\ request[r].key \in drawn
        /\ request[r].key # request[r].old
        /\ request[r].old \in Refers(request[r]) /\ request[r].old \in drawn \cup {None}
    BY <2>1, Known DEF FreshPhases, Holding, Knows, Refers, Fresh
  <2>3. /\ row' \in Row /\ row'.avatar = request[r].key
        /\ intended' \in Row
        /\ ~mixed /\ row = intended => row' = intended'
    BY <1>2, <2>2, Known DEF Row
  <2>4. PICK x \in Local :
            /\ request' = [request EXCEPT ![r] = x]
            /\ \/ x = Idle /\ UNCHANGED unheard
               \/ /\ x.phase = "upload.clean" /\ x.old = request[r].old /\ x.old # None
                  /\ UNCHANGED unheard
               \/ /\ x.phase = "upload.undo" /\ x.old = request[r].old /\ x.key = request[r].key
                  /\ unheard' = unheard \cup {request[r].key}
    <3>1. CASE request[r].old = None /\ Finish(r) /\ UNCHANGED unheard
      BY <3>1, IdleKnows DEF Finish
    <3>2. CASE request[r].old # None /\ Goto(r, "upload.clean") /\ UNCHANGED unheard
      <4>1. PICK x : x = [request[r] EXCEPT !.phase = "upload.clean"]
        OBVIOUS
      <4>2. x \in Local /\ x.phase = "upload.clean" /\ x.old = request[r].old
        BY <4>1, Known DEF Local, Phases
      <4>. QED
        BY <3>2, <4>1, <4>2, Known DEF Goto
    <3>3. CASE Goto(r, "upload.undo") /\ unheard' = unheard \cup {request[r].key}
      <4>1. PICK x : x = [request[r] EXCEPT !.phase = "upload.undo"]
        OBVIOUS
      <4>2. /\ x \in Local /\ x.phase = "upload.undo" /\ x.old = request[r].old
            /\ x.key = request[r].key
        BY <4>1, Known DEF Local, Phases
      <4>. QED
        BY <3>3, <4>1, <4>2, Known DEF Goto
    <3>. QED
      BY <1>2, <3>1, <3>2, <3>3
  <2>5. /\ Knows(x, row', objects, drawn, mixed', unheard')
        /\ Refers(x) \subseteq Refers(request[r]) \cup {None}
        /\ x.phase \in FreshPhases =>
              x.key = request[r].key /\ unheard' = unheard \cup {request[r].key}
    <3>1. CASE x = Idle
      BY <3>1, IdleKnows
    <3>2. CASE x.phase = "upload.clean" /\ x.old = request[r].old /\ x.old # None
      <4>1. /\ x.phase \notin FreshPhases /\ x.phase \notin Holding /\ x.phase \in Cleaning
            /\ Refers(x) = {request[r].old}
        BY <3>2 DEF FreshPhases, Holding, Cleaning, Refers
      <4>. QED
        BY <2>2, <2>3, <3>2, <4>1 DEF Knows, FreshPhases
    <3>3. CASE /\ x.phase = "upload.undo" /\ x.old = request[r].old /\ x.key = request[r].key
               /\ unheard' = unheard \cup {request[r].key}
      <4>1. x.phase \notin Holding /\ x.phase \notin Cleaning /\ Refers(x) = {request[r].old}
        BY <3>3 DEF Holding, Cleaning, Refers
      <4>. QED
        BY <2>2, <3>3, <4>1 DEF Knows
    <3>. QED
      BY <2>4, <3>1, <3>2, <3>3
  <2>6. /\ drawn \subseteq Keys /\ objects \subseteq drawn /\ unheard \subseteq drawn
        /\ ~mixed => row = intended
    BY Known
  <2>7. ~Fresh(x, unheard')
    BY <2>5 DEF Fresh
  <2>8. /\ mixed' \in BOOLEAN /\ (~mixed' => ~mixed)
        /\ ~mixed' => \A q \in Requests \ {r} : request[q].phase \notin Holding
    BY <1>2, WriteMixes
  <2>9. /\ row'.avatar \in IF request[r].phase \in FreshPhases THEN {request[r].key} ELSE {}
        /\ row'.avatar \in IF Fresh(request[r], unheard) THEN {request[r].key} ELSE {}
        /\ ~mixed' => row'.avatar \in objects /\ row' = intended'
    BY <2>2, <2>3, <2>6, <2>8
  <2>10. /\ unheard \subseteq unheard' /\ unheard' \subseteq drawn
         /\ unheard' \subseteq unheard \cup
                (IF Fresh(request[r], unheard) THEN {request[r].key} ELSE {})
    BY <2>2, <2>4, <2>6
  <2>. QED
    BY <2>1, <2>2, <2>3, <2>4, <2>5, <2>6, <2>7, <2>8, <2>9, <2>10, OneRequest DEF Apart
<1>. QED
  BY <1>1, <1>2 DEF WriteAvatar

\* The reference goes, and the object is to go.
LEMMA ClearKeeps ==
    ASSUME IInv, NEW r \in Requests, ClearAvatar(r)
    PROVE  IInv'
<1>1. /\ request[r].phase = "remove.write" /\ MixedBy(r)
      /\ row' = [request[r].user EXCEPT !.avatar = None]
      /\ intended' = [intended EXCEPT !.avatar = None]
      /\ UNCHANGED <<objects, drawn, unheard>>
  BY DEF ClearAvatar, At
<1>2. /\ request[r].user \in Row /\ (~mixed => request[r].user = row)
      /\ request[r].old # None /\ request[r].old \in Refers(request[r])
      /\ request[r].old \in drawn \cup {None}
  BY <1>1, Known DEF Holding, Knows, Refers
<1>3. /\ row' \in Row /\ row'.avatar = None
      /\ intended' \in Row
      /\ ~mixed /\ row = intended => row' = intended'
  BY <1>1, <1>2, Known DEF Row
<1>4. PICK x : x = [request[r] EXCEPT !.phase = "remove.clean"]
  OBVIOUS
<1>5. x \in Local /\ x.phase = "remove.clean" /\ x.old = request[r].old
  BY <1>4, Known DEF Local, Phases
<1>6. request' = [request EXCEPT ![r] = x]
  BY <1>4, Known DEF ClearAvatar, Goto
<1>7. /\ x.phase \notin FreshPhases /\ x.phase \notin Holding /\ x.phase \in Cleaning
      /\ Refers(x) = {request[r].old}
  BY <1>5 DEF FreshPhases, Holding, Cleaning, Refers
<1>8. Knows(x, row', objects, drawn, mixed', unheard') /\ Apart(x, row'.avatar, unheard')
  BY <1>2, <1>3, <1>5, <1>7 DEF Knows, FreshPhases, Apart, Fresh
<1>9. /\ drawn \subseteq Keys /\ objects \subseteq drawn /\ unheard \subseteq drawn
      /\ ~mixed => row = intended
  BY Known
<1>. QED
  BY <1>1, <1>2, <1>3, <1>5, <1>6, <1>7, <1>8, <1>9, WriteMixes, OneRequest DEF Fresh

\* An object goes that the row does not refer to: it never did, or does no more.
LEMMA ObjectGoes ==
    ASSUME IInv, NEW r \in Requests, UndoUpload(r) \/ RemoveOld(r)
    PROVE  IInv'
<1>1. request' = [request EXCEPT ![r] = Idle] /\ UNCHANGED <<row, drawn, intended, mixed, unheard>>
  BY DEF UndoUpload, RemoveOld, Finish
<1>2. PICK k :
          /\ objects' \in {objects, objects \ {k}}
          /\ \/ request[r].phase \in FreshPhases /\ k = request[r].key
             \/ k \in Refers(request[r])
          /\ ~mixed => row.avatar # k \/ k \in unheard
  <2>1. CASE UndoUpload(r)
    <3>1. request[r].phase \in FreshPhases
      BY <2>1 DEF UndoUpload, At, FreshPhases
    <3>. QED
      BY <2>1, <3>1, Known DEF UndoUpload, Apart, Fresh
  <2>2. CASE RemoveOld(r)
    <3>1. request[r].phase \in Cleaning /\ request[r].old \in Refers(request[r])
      BY <2>2 DEF RemoveOld, Cleaning, Refers
    <3>. QED
      BY <2>2, <3>1, Known DEF RemoveOld, Knows
  <2>. QED
    BY <2>1, <2>2
<1>3. /\ row \in Row /\ intended \in Row /\ mixed \in BOOLEAN /\ drawn \subseteq Keys
      /\ unheard \subseteq drawn /\ objects' \subseteq drawn
      /\ ~mixed => row.avatar \in objects' \cup unheard \cup {None} /\ row = intended
  BY <1>2, Known
<1>. QED
  BY <1>1, <1>2, <1>3, IdleKnows, OneRequest DEF Apart, Fresh

-----------------------------------------------------------------------------
(* The account-security transactions.                                      *)
LEMMA WritePasswordKeeps ==
    ASSUME IInv, NEW r \in Requests, WritePassword(r)
    PROVE  IInv'
<1>1. /\ row' = [row EXCEPT !.password = request[r].password]
      /\ intended' = [intended EXCEPT !.password = request[r].password]
      /\ MixedBy(r) /\ request' = [request EXCEPT ![r] = Idle]
      /\ UNCHANGED <<objects, drawn, unheard>>
  BY DEF WritePassword, Finish
<1>2. /\ row' \in Row /\ intended' \in Row /\ row'.avatar = row.avatar
      /\ row = intended => row' = intended'
  BY <1>1, Known DEF Row, Local
<1>3. /\ drawn \subseteq Keys /\ objects \subseteq drawn /\ unheard \subseteq drawn
      /\ ~mixed => row.avatar \in objects \cup unheard \cup {None} /\ row = intended
  BY Known
<1>. QED
  BY <1>1, <1>2, <1>3, WriteMixes, IdleKnows, OneRequest DEF Apart, Fresh

LEMMA TransactionKeeps ==
    ASSUME IInv, (\E p \in Passwords : ResetPassword(p)) \/ VerifyEmail \/ DeactivateUser
    PROVE  IInv'
<1>0. row \in Row /\ intended \in Row
  BY DEF IInv, TypeOK
<1>1. /\ UNCHANGED <<objects, drawn, request, unheard>> /\ MixedByAny
      /\ row' \in Row /\ intended' \in Row /\ row'.avatar = row.avatar
      /\ row = intended => row' = intended'
  <2>1. ASSUME NEW p \in Passwords, ResetPassword(p)
        PROVE  /\ UNCHANGED <<objects, drawn, request, unheard>> /\ MixedByAny
               /\ row' \in Row /\ intended' \in Row /\ row'.avatar = row.avatar
               /\ row = intended => row' = intended'
    BY <1>0, <2>1 DEF ResetPassword, Row
  <2>2. CASE VerifyEmail
    BY <1>0, <2>2 DEF VerifyEmail, Row
  <2>3. CASE DeactivateUser
    BY <1>0, <2>3 DEF DeactivateUser, Row
  <2>. QED
    BY <2>1, <2>2, <2>3
<1>. QED
  BY <1>1, ColumnKeeps

-----------------------------------------------------------------------------
LEMMA StepKeeps == IInv /\ [Next]_vars => IInv'
<1>. SUFFICES ASSUME IInv, [Next]_vars PROVE IInv'
  OBVIOUS
<1>1. CASE UNCHANGED vars
  BY <1>1 DEF vars, IInv, TypeOK, RequestsKnow, FreshApart, AvatarStored, ChangesKept
<1>2. ASSUME NEW r \in Requests,
             \/ UpdateUser(r) \/ WriteUser(r)
             \/ UploadAvatar(r) \/ PutObject(r) \/ SignUrl(r) \/ WriteAvatar(r)
             \/ UndoUpload(r) \/ RemoveOld(r)
             \/ DeleteAvatar(r) \/ ClearAvatar(r)
             \/ WritePassword(r) \/ Rehash(r)
             \/ \E p \in Passwords : ChangePassword(r, p)
             \/ Fail(r)
      PROVE  IInv'
  <2>1. CASE SignUrl(r)
    BY <2>1, GoOnKeeps DEF SignUrl, At
  <2>. QED
    BY <1>2, <2>1, ReadKeeps, WriteUserKeeps, UploadKeeps, PutKeeps, WriteAvatarKeeps, ObjectGoes,
       ClearKeeps, WritePasswordKeeps, FailKeeps
<1>. QED
  BY <1>1, <1>2, TransactionKeeps DEF Next

\* In every state IInv says of each request what it knows of the row and the
\* storage.
THEOREM Invariant == Spec => []IInv
BY InitIInv, StepKeeps, PTL DEF Spec

\* Rows and requests are well formed; only keys that were drawn are stored or
\* referred to.
THEOREM TypeCorrect == Spec => []TypeOK
<1>1. IInv => TypeOK
  BY DEF IInv
<1>. QED
  BY <1>1, Invariant, PTL

\* The avatar of the profile is in the storage, wherever an upload or a removal
\* fails or stops, unless a copy was written over a newer row or the upload did
\* not hear that its row was written.
THEOREM AvatarIsThere == Spec => []AvatarStored
<1>1. IInv => AvatarStored
  BY DEF IInv
<1>. QED
  BY <1>1, Invariant, PTL

\* Every column holds what the last operation meant for it left there, unless a
\* copy was written over a newer row.
THEOREM NoChangeLost == Spec => []ChangesKept
<1>1. IInv => ChangesKept
  BY DEF IInv
<1>. QED
  BY <1>1, Invariant, PTL
=============================================================================
