--------------------------- MODULE WebhooksProofs ---------------------------
(***************************************************************************)
(* Theorems about module Webhooks, for any endpoints, deliveries, workers, *)
(* limit of retries, size of a batch and number of interruptions.          *)
(*                                                                         *)
(* A delivery belongs to its sender until that is done, and then to the    *)
(* workers that hold its row.  The inductive invariant says what each of   *)
(* them knows of it, and counts the posts against the attempts: of the     *)
(* stored row while nobody posts, of the row in the worker's hands while   *)
(* one holds it, where one more post may have been made than is written.   *)
(***************************************************************************)
EXTENDS Webhooks, FiniteSetTheorems, TLAPS

\* A row that is to be posted again.
FailedRow == {row \in Row : row.status = "FAILED" /\ row.attempts \in 1 .. MaxRetries - 1}

\* y is a worker: it holds the row of d; it has posted d and not recorded it.
Held(y, d) == y.rows[d] # None
Posted(y, d) == y.phase = "record" /\ y.current = d

\* What the sender x of a delivery knows: its row in the table, how often it was
\* posted, and whether the endpoint answered 2xx.
SenderKnows(x, row, n, answered) ==
    /\ x.phase \in {"none", "create"} => row = None /\ n = 0
    /\ x.phase \in {"create", "post", "record"} => x.endpoint \in Endpoints
    /\ x.phase = "post" => row \in {None, NewRow(x.endpoint)} /\ n = 0
    /\ x.phase = "record" => row \in {None, NewRow(x.endpoint)} /\ n <= 1 /\ (x.ok => answered)

\* What a worker y knows: it holds FAILED rows whose senders x are done, and posts
\* one of them.
WorkerKnows(y, x, answered) ==
    /\ \A d \in Deliveries : Held(y, d) => y.rows[d] \in FailedRow /\ x[d].phase = "done"
    /\ y.phase \in {"post", "record"} => y.current \in Deliveries /\ Held(y, y.current)
    /\ y.phase = "record" /\ y.ok => y.current \in answered

\* Of the workers ys one at most holds d, and its row is the one in the table.
HeldOnce(d, ys, row) ==
    /\ \A w, v \in Workers : Held(ys[w], d) /\ Held(ys[v], d) => w = v
    /\ \A w \in Workers : Held(ys[w], d) /\ row # None => row = ys[w].rows[d]

\* The n posts of d are counted by whoever has it.
Counted(d, ys, x, row, n) ==
    /\ n <= MaxRetries
    /\ row # None /\ x.phase = "done" /\ (\A w \in Workers : ~Posted(ys[w], d)) => n <= row.attempts
    /\ \A w \in Workers :
          Held(ys[w], d) => n <= ys[w].rows[d].attempts + (IF Posted(ys[w], d) THEN 1 ELSE 0)

SendersKnow ==
    \A d \in Deliveries : SenderKnows(sender[d], delivery[d], posts[d], d \in received)

WorkersKnow == \A w \in Workers : WorkerKnows(worker[w], sender, received)

SuccessAnswered == \A d \in Deliveries : Has(d, {"SUCCESS"}) => d \in received

RowsHeldOnce == \A d \in Deliveries \ overlapped : HeldOnce(d, worker, delivery[d])

PostsCounted ==
    \A d \in Deliveries \ (unrecorded \cup overlapped) :
        Counted(d, worker, sender[d], delivery[d], posts[d])

IInv ==
    /\ TypeOK /\ SendersKnow /\ WorkersKnow /\ SuccessAnswered
    /\ RowsHeldOnce /\ PostsCounted
-----------------------------------------------------------------------------
(* The parts of TypeOK, and what they need.                                *)
Types ==
    /\ endpoint \in [Endpoints -> Endpoint]
    /\ delivery \in [Deliveries -> {None} \cup Row]
    /\ sender \in [Deliveries -> Sender]
    /\ worker \in [Workers -> Worker]
    /\ failures \in 0 .. MaxFailures
    /\ posts \in [Deliveries -> 0 .. MaxRetries + 1]
    /\ received \subseteq Deliveries
    /\ unrecorded \subseteq Deliveries
    /\ overlapped \subseteq Deliveries

QueueOK ==
    /\ due \subseteq {d \in Deliveries : Failed(d)}
    /\ before \subseteq due \X due
    /\ \A d, e \in due : d # e => (<<d, e>> \in before <=> <<e, d>> \notin before)

\* The status of a row says what its attempts say.
RowFits(row) ==
    row # None => /\ row.status = "FAILED" => row.attempts \in 1 .. MaxRetries - 1
                  /\ row.status = "EXHAUSTED" => row.attempts = MaxRetries

RowsFit == \A d \in Deliveries : RowFits(delivery[d])

\* What the processes know, apart from types.
Knowledge ==
    SendersKnow /\ WorkersKnow /\ SuccessAnswered /\ RowsHeldOnce /\ PostsCounted

LEMMA Parts ==
    /\ IInv => Types /\ QueueOK /\ RowsFit /\ Knowledge
    /\ Types /\ QueueOK /\ RowsFit /\ Knowledge => IInv
    /\ Types' /\ QueueOK' /\ RowsFit' /\ Knowledge' => IInv'
BY DEF TypeOK, Types, QueueOK, RowsFit, RowFits, Has, IInv, Knowledge

\* Rows that leave the queue take their pairs with them.
LEMMA QueueShrinks ==
    ASSUME QueueOK, NEW S, NotDue(S), \A d \in due \ S : Failed(d)'
    PROVE  QueueOK'
BY DEF QueueOK, NotDue

LEMMA QueueStays ==
    ASSUME QueueOK, UNCHANGED queue, \A d \in due : Failed(d)'
    PROVE  QueueOK'
BY DEF QueueOK, queue

\* A row that comes due is the last.
LEMMA QueueGrows ==
    ASSUME QueueOK, NEW d \in Deliveries, Failed(d), d \notin due, ComesDue(d),
           UNCHANGED delivery
    PROVE  QueueOK'
<1>1. due' = due \cup {d} /\ before' = before \cup (due \X {d})
  BY DEF ComesDue
<1>2. due' \subseteq {e \in Deliveries : Failed(e)'}
  BY <1>1 DEF QueueOK, Failed
<1>3. before' \subseteq due' \X due'
  BY <1>1 DEF QueueOK
<1>4. ASSUME NEW a \in due', NEW b \in due', a # b
      PROVE  <<a, b>> \in before' <=> <<b, a>> \notin before'
  <2>1. CASE a \in due /\ b \in due
    <3>1. /\ <<a, b>> \in before' <=> <<a, b>> \in before
          /\ <<b, a>> \in before' <=> <<b, a>> \in before
      BY <1>1, <2>1
    <3>. QED
      BY <2>1, <3>1, <1>4 DEF QueueOK
  <2>2. CASE a = d \/ b = d
    BY <1>1, <1>4, <2>2 DEF QueueOK
  <2>. QED
    BY <1>1, <2>1, <2>2
<1>. QED
  BY <1>2, <1>3, <1>4 DEF QueueOK

\* The rows a run reads are FAILED rows.
LEMMA PendingAreFailed ==
    ASSUME Types, QueueOK, RowsFit, NEW d \in PendingRetries
    PROVE  d \in Deliveries /\ delivery[d] \in FailedRow /\ delivery[d] # None
BY DEF PendingRetries, QueueOK, Failed, Types, RowsFit, RowFits, FailedRow

\* A new row, and a row that a post was recorded in.
LEMMA NewRowIs ==
    ASSUME NEW e \in Endpoints
    PROVE  /\ NewRow(e) \in Row /\ NewRow(e) # None
           /\ NewRow(e).attempts = 0 /\ NewRow(e).status = "PENDING"
BY RetryAssumption DEF NewRow, Row

LEMMA RecordedRow ==
    ASSUME NEW row \in Row, row.attempts < MaxRetries, NEW ok \in BOOLEAN
    PROVE  /\ Record(row, ok) \in Row /\ Record(row, ok) # None
           /\ Record(row, ok).attempts = row.attempts + 1
           /\ RowFits(Record(row, ok))
           /\ Record(row, ok).status = "SUCCESS" => ok
<1>0. /\ MaxRetries \in Nat /\ row.attempts \in Nat /\ row.endpoint \in Endpoints
      /\ None \notin Row
  BY RetryAssumption DEF Row
<1>1. row.attempts + 1 \in 0 .. MaxRetries
  BY <1>0
<1>2. CASE ok
  <2>1. Record(row, ok) = [row EXCEPT !.status = "SUCCESS", !.attempts = row.attempts + 1]
    BY <1>2 DEF Record, RecordSuccess
  <2>2. [row EXCEPT !.status = "SUCCESS", !.attempts = row.attempts + 1] \in Row
    BY <1>1 DEF Row
  <2>3. /\ Record(row, ok).status = "SUCCESS"
        /\ Record(row, ok).attempts = row.attempts + 1
    BY <2>1 DEF Row
  <2>. QED
    BY <1>0, <1>2, <2>1, <2>2, <2>3 DEF RowFits
<1>3. CASE ~ok /\ row.attempts + 1 >= MaxRetries
  <2>1. Record(row, ok) = [row EXCEPT !.status = "EXHAUSTED", !.attempts = row.attempts + 1]
    BY <1>3 DEF Record, RecordFailure
  <2>2. [row EXCEPT !.status = "EXHAUSTED", !.attempts = row.attempts + 1] \in Row
    BY <1>1 DEF Row
  <2>3. /\ Record(row, ok).status = "EXHAUSTED"
        /\ Record(row, ok).attempts = row.attempts + 1
    BY <2>1 DEF Row
  <2>. QED
    BY <1>0, <1>3, <2>1, <2>2, <2>3 DEF RowFits
<1>4. CASE ~ok /\ ~(row.attempts + 1 >= MaxRetries)
  <2>1. Record(row, ok) = [row EXCEPT !.status = "FAILED", !.attempts = row.attempts + 1]
    BY <1>4 DEF Record, RecordFailure
  <2>2. [row EXCEPT !.status = "FAILED", !.attempts = row.attempts + 1] \in Row
    BY <1>1 DEF Row
  <2>3. /\ Record(row, ok).status = "FAILED"
        /\ Record(row, ok).attempts = row.attempts + 1
    BY <2>1 DEF Row
  <2>. QED
    BY <1>0, <1>4, <2>1, <2>2, <2>3 DEF RowFits
<1>. QED
  BY <1>2, <1>3, <1>4

\* One more post, of a delivery that had n.
LEMMA PostCounts ==
    ASSUME Types, NEW d \in Deliveries, NEW ok \in BOOLEAN, Post(d, ok)
    PROVE  /\ posts' \in [Deliveries -> 0 .. MaxRetries + 1]
           /\ posts[d] <= MaxRetries => posts'[d] = posts[d] + 1
           /\ \A e \in Deliveries \ {d} : posts'[e] = posts[e]
           /\ received \subseteq received' /\ received' \subseteq received \cup {d}
           /\ ok => d \in received'
<1>1. /\ posts' = [posts EXCEPT ![d] = IF posts[d] > MaxRetries THEN posts[d] ELSE posts[d] + 1]
      /\ posts \in [Deliveries -> 0 .. MaxRetries + 1] /\ MaxRetries \in Nat
  BY RetryAssumption DEF Post, Types
<1>2. \E answered \in {TRUE, ok} : received' = IF answered THEN received \cup {d} ELSE received
  BY DEF Post
<1>3. \/ received' = received \cup {d}
      \/ received' = received /\ ~ok
  BY <1>2
<1>4. posts[d] \in 0 .. MaxRetries + 1
  BY <1>1
<1>5. (IF posts[d] > MaxRetries THEN posts[d] ELSE posts[d] + 1) \in 0 .. MaxRetries + 1
  BY <1>1, <1>4
<1>6. posts' \in [Deliveries -> 0 .. MaxRetries + 1]
  BY <1>1, <1>5
<1>7. /\ posts[d] <= MaxRetries => posts'[d] = posts[d] + 1
      /\ \A e \in Deliveries \ {d} : posts'[e] = posts[e]
  BY <1>1, <1>4
<1>. QED
  BY <1>3, <1>6, <1>7

-----------------------------------------------------------------------------
\* The initial states: nothing is registered and nothing sent.
LEMMA InitIInv == Init => IInv
<1>. SUFFICES ASSUME Init PROVE IInv
  OBVIOUS
<1>1. Types
  <2>1. IdleWorker \in Worker
    BY DEF IdleWorker, Worker, Nothing
  <2>2. [phase |-> "none", endpoint |-> None, ok |-> FALSE] \in Sender
    BY DEF Sender
  <2>3. 0 \in 0 .. MaxRetries + 1 /\ 0 \in 0 .. MaxFailures
    BY RetryAssumption
  <2>. QED
    BY <2>1, <2>2, <2>3 DEF Init, Types, Nothing, Endpoint
<1>2. QueueOK /\ RowsFit
  BY DEF Init, QueueOK, RowsFit, RowFits, Nothing
<1>3. \A d \in Deliveries :
          /\ delivery[d] = None /\ posts[d] = 0
          /\ sender[d] = [phase |-> "none", endpoint |-> None, ok |-> FALSE]
  BY DEF Init, Nothing
<1>4. \A w \in Workers : worker[w].phase = "idle" /\ \A d \in Deliveries : ~Held(worker[w], d)
  BY DEF Init, IdleWorker, Nothing, Held
<1>5. SendersKnow /\ SuccessAnswered
  BY <1>3 DEF SendersKnow, SenderKnows, SuccessAnswered, Has
<1>6. WorkersKnow
  BY <1>4 DEF WorkersKnow, WorkerKnows
<1>7. RowsHeldOnce
  BY <1>4 DEF RowsHeldOnce, HeldOnce
<1>8. PostsCounted
  <2>1. 0 <= MaxRetries
    BY RetryAssumption
  <2>. QED
    BY <1>3, <1>4, <2>1 DEF PostsCounted, Counted
<1>. QED
  BY <1>1, <1>2, <1>5, <1>6, <1>7, <1>8, Parts DEF Knowledge

-----------------------------------------------------------------------------
(* Endpoints and the clock.                                                *)

\* Rows that are deleted leave what everybody knows true.
LEMMA RowsGo ==
    ASSUME Knowledge, UNCHANGED <<sender, worker, history>>,
           \A d \in Deliveries : delivery'[d] \in {None, delivery[d]}
    PROVE  Knowledge'
<1>1. SendersKnow'
  BY DEF Knowledge, SendersKnow, SenderKnows, history, NewRow
<1>2. WorkersKnow'
  BY DEF Knowledge, WorkersKnow, history
<1>3. SuccessAnswered'
  BY DEF Knowledge, SuccessAnswered, Has, history
<1>4. RowsHeldOnce'
  BY DEF Knowledge, RowsHeldOnce, HeldOnce, history
<1>5. PostsCounted'
  BY DEF Knowledge, PostsCounted, Counted, history
<1>. QED
  BY <1>1, <1>2, <1>3, <1>4, <1>5 DEF Knowledge

LEMMA EndpointKeeps ==
    ASSUME IInv, NEW e \in Endpoints, RegisterWebhook(e) \/ UpdateWebhook(e) \/ DeleteWebhook(e)
    PROVE  IInv'
<1>0. Types /\ QueueOK /\ RowsFit /\ Knowledge
  BY Parts
<1>1. UNCHANGED <<sender, worker, failures, history>>
  BY DEF RegisterWebhook, UpdateWebhook, DeleteWebhook
<1>2. endpoint' \in [Endpoints -> Endpoint]
  BY <1>0 DEF Types, Endpoint, RegisterWebhook, UpdateWebhook, DeleteWebhook
<1>3. CASE UNCHANGED <<delivery, queue>>
  <2>1. Knowledge'
    BY <1>0, <1>1, <1>3, RowsGo
  <2>2. Types' /\ RowsFit'
    BY <1>0, <1>1, <1>2, <1>3 DEF Types, RowsFit, history
  <2>3. QueueOK'
    BY <1>0, <1>3, QueueStays DEF QueueOK, Failed
  <2>. QED
    BY <2>1, <2>2, <2>3, Parts
<1>4. CASE DeleteWebhook(e)
  <2>1. /\ delivery' = [d \in Deliveries |->
                IF delivery[d] # None /\ delivery[d].endpoint = e THEN None ELSE delivery[d]]
        /\ NotDue({d \in due : delivery[d].endpoint = e})
    BY <1>4 DEF DeleteWebhook
  <2>2. \A d \in Deliveries : delivery'[d] \in {None, delivery[d]}
    BY <2>1
  <2>3. Knowledge'
    BY <1>0, <1>1, <2>2, RowsGo
  <2>4. Types' /\ RowsFit'
    BY <1>0, <1>1, <1>2, <2>1 DEF Types, RowsFit, RowFits, history
  <2>5. QueueOK'
    BY <1>0, <2>1, QueueShrinks DEF QueueOK, Failed
  <2>. QED
    BY <2>3, <2>4, <2>5, Parts
<1>. QED
  BY <1>3, <1>4 DEF RegisterWebhook, UpdateWebhook

LEMMA BackoffKeeps ==
    ASSUME IInv, NEW d \in Deliveries, BackoffPasses(d)
    PROVE  IInv'
<1>1. /\ UNCHANGED <<endpoint, delivery, sender, worker, failures, history>>
      /\ Failed(d) /\ d \notin due /\ ComesDue(d)
  BY DEF BackoffPasses
<1>2. Types /\ QueueOK /\ RowsFit /\ Knowledge
  BY Parts
<1>3. Knowledge'
  BY <1>1, <1>2, RowsGo
<1>4. Types' /\ RowsFit'
  BY <1>1, <1>2 DEF Types, RowsFit, history
<1>5. QueueOK'
  BY <1>1, <1>2, QueueGrows
<1>. QED
  BY <1>3, <1>4, <1>5, Parts

-----------------------------------------------------------------------------
(* The steps of a sender.                                                  *)

\* A sender that is not done has the delivery to itself: its step is seen in
\* its own row only.
LEMMA SenderAlone ==
    ASSUME Knowledge, Types, NEW d \in Deliveries, NEW x \in Sender, sender[d].phase # "done",
           sender' = [sender EXCEPT ![d] = x], UNCHANGED <<worker, overlapped>>,
           unrecorded \subseteq unrecorded', received \subseteq received',
           \A e \in Deliveries \ {d} : delivery'[e] = delivery[e] /\ posts'[e] = posts[e],
           SenderKnows(x, delivery'[d], posts'[d], d \in received'),
           Has(d, {"SUCCESS"})' => d \in received',
           d \notin unrecorded' =>
              /\ posts'[d] <= MaxRetries
              /\ delivery'[d] # None /\ x.phase = "done" => posts'[d] <= delivery'[d].attempts
    PROVE  Knowledge'
<1>. USE DEF Knowledge
<1>0. sender \in [Deliveries -> Sender]
  BY DEF Types
<1>1. sender'[d] = x /\ \A e \in Deliveries \ {d} : sender'[e] = sender[e]
  BY <1>0
<1>2. \A w \in Workers : ~Held(worker[w], d)
  BY DEF WorkersKnow, WorkerKnows
<1>3. SendersKnow'
  <2>1. ASSUME NEW e \in Deliveries \ {d}
        PROVE  SenderKnows(sender'[e], delivery'[e], posts'[e], e \in received')
    <3>1. SenderKnows(sender[e], delivery[e], posts[e], e \in received)
      BY DEF SendersKnow
    <3>. QED
      BY <1>1, <3>1 DEF SenderKnows
  <2>. QED
    BY <1>1, <2>1 DEF SendersKnow
<1>4. WorkersKnow'
  <2>1. ASSUME NEW w \in Workers PROVE WorkerKnows(worker[w], sender', received')
    <3>1. WorkerKnows(worker[w], sender, received)
      BY DEF WorkersKnow
    <3>. QED
      BY <1>1, <1>2, <3>1 DEF WorkerKnows
  <2>. QED
    BY <2>1 DEF WorkersKnow
<1>5. SuccessAnswered'
  BY DEF SuccessAnswered, Has
<1>6. RowsHeldOnce'
  <2>1. ASSUME NEW e \in Deliveries \ overlapped PROVE HeldOnce(e, worker, delivery'[e])
    <3>1. CASE e = d
      BY <1>2, <3>1 DEF HeldOnce
    <3>2. CASE e # d
      BY <3>2 DEF RowsHeldOnce
    <3>. QED
      BY <3>1, <3>2
  <2>. QED
    BY <2>1 DEF RowsHeldOnce
<1>7. PostsCounted'
  <2>1. ASSUME NEW e \in Deliveries \ (unrecorded' \cup overlapped)
        PROVE  Counted(e, worker, sender'[e], delivery'[e], posts'[e])
    <3>1. CASE e = d
      BY <1>1, <1>2, <2>1, <3>1 DEF Counted
    <3>2. CASE e # d
      BY <1>1, <2>1, <3>2 DEF PostsCounted
    <3>. QED
      BY <3>1, <3>2
  <2>. QED
    BY <2>1 DEF PostsCounted
<1>. QED
  BY <1>3, <1>4, <1>5, <1>6, <1>7

\* No row is due whose sender is not done.
LEMMA UndoneNotDue ==
    ASSUME Knowledge, QueueOK, NEW d \in due
    PROVE  sender[d].phase \notin {"none", "create", "post", "record"}
<1>1. d \in Deliveries /\ delivery[d] # None /\ delivery[d].status = "FAILED"
  BY DEF QueueOK, Failed
<1>2. SenderKnows(sender[d], delivery[d], posts[d], d \in received)
  BY <1>1 DEF Knowledge, SendersKnow
<1>. QED
  BY <1>1, <1>2 DEF SenderKnows, NewRow

LEMMA DispatchKeeps ==
    ASSUME IInv, NEW d \in Deliveries, NEW e \in Endpoints, DispatchEvent(d, e)
    PROVE  IInv'
<1>0. Types /\ QueueOK /\ RowsFit /\ Knowledge
  BY Parts
<1>1. /\ sender[d].phase = "none"
      /\ UNCHANGED <<endpoint, delivery, queue, worker, failures, history>>
  BY DEF DispatchEvent
<1>2. sender \in [Deliveries -> Sender]
  BY <1>0 DEF Types
<1>3. PICK x : x = [sender[d] EXCEPT !.phase = "create", !.endpoint = e]
  OBVIOUS
<1>4. x \in Sender /\ x.phase = "create" /\ x.endpoint = e
  BY <1>2, <1>3 DEF Sender
<1>5. sender' = [sender EXCEPT ![d] = x]
  BY <1>2, <1>3 DEF DispatchEvent, Sender
<1>6. SenderKnows(sender[d], delivery[d], posts[d], d \in received)
  BY <1>0 DEF Knowledge, SendersKnow
<1>7. delivery[d] = None /\ posts[d] = 0
  BY <1>1, <1>6 DEF SenderKnows
<1>8. SenderKnows(x, delivery'[d], posts'[d], d \in received')
  BY <1>1, <1>4, <1>7 DEF SenderKnows, history
<1>9. Knowledge'
  <2>1. 0 <= MaxRetries
    BY RetryAssumption
  <2>. QED
    BY <1>0, <1>1, <1>4, <1>5, <1>7, <1>8, <2>1, SenderAlone DEF history, Has
<1>10. Types' /\ RowsFit' /\ QueueOK'
  BY <1>0, <1>1, <1>4, <1>5, QueueStays DEF Types, RowsFit, history, QueueOK, Failed
<1>. QED
  BY <1>9, <1>10, Parts

LEMMA CreateKeeps ==
    ASSUME IInv, NEW d \in Deliveries, CreateDelivery(d)
    PROVE  IInv'
<1>0. Types /\ QueueOK /\ RowsFit /\ Knowledge
  BY Parts
<1>1. /\ sender[d].phase = "create"
      /\ UNCHANGED <<endpoint, queue, worker, failures, history>>
  BY DEF CreateDelivery
<1>2. sender \in [Deliveries -> Sender] /\ delivery \in [Deliveries -> {None} \cup Row]
  BY <1>0 DEF Types
<1>3. SenderKnows(sender[d], delivery[d], posts[d], d \in received)
  BY <1>0 DEF Knowledge, SendersKnow
<1>4. delivery[d] = None /\ posts[d] = 0 /\ sender[d].endpoint \in Endpoints
  BY <1>1, <1>3 DEF SenderKnows
<1>5. 0 <= MaxRetries /\ d \notin due
  BY <1>0, <1>1, RetryAssumption, UndoneNotDue
<1>6. CASE UNCHANGED delivery /\ sender' = [sender EXCEPT ![d].phase = "done"]
  <2>1. PICK x : x = [sender[d] EXCEPT !.phase = "done"]
    OBVIOUS
  <2>2. x \in Sender /\ x.phase = "done"
    BY <1>2, <2>1 DEF Sender
  <2>3. sender' = [sender EXCEPT ![d] = x]
    BY <1>2, <1>6, <2>1 DEF Sender
  <2>4. Knowledge'
    BY <1>0, <1>1, <1>4, <1>5, <1>6, <2>2, <2>3, SenderAlone DEF history, Has, SenderKnows
  <2>5. Types' /\ RowsFit' /\ QueueOK'
    BY <1>0, <1>1, <1>6, <2>2, <2>3, QueueStays DEF Types, RowsFit, history, QueueOK, Failed
  <2>. QED
    BY <2>4, <2>5, Parts
<1>7. CASE /\ delivery' = [delivery EXCEPT ![d] = NewRow(sender[d].endpoint)]
           /\ sender' = [sender EXCEPT ![d].phase = "post"]
  <2>1. PICK x : x = [sender[d] EXCEPT !.phase = "post"]
    OBVIOUS
  <2>2. x \in Sender /\ x.phase = "post" /\ x.endpoint = sender[d].endpoint
    BY <1>2, <2>1 DEF Sender
  <2>3. sender' = [sender EXCEPT ![d] = x]
    BY <1>2, <1>7, <2>1 DEF Sender
  <2>4. /\ delivery'[d] = NewRow(x.endpoint)
        /\ \A e \in Deliveries \ {d} : delivery'[e] = delivery[e]
    BY <1>2, <1>7, <2>2
  <2>5. /\ NewRow(x.endpoint) \in Row /\ NewRow(x.endpoint).status = "PENDING"
    BY <1>4, <2>2, NewRowIs
  <2>6. SenderKnows(x, delivery'[d], posts'[d], d \in received')
    BY <1>1, <1>4, <2>2, <2>4 DEF SenderKnows, history
  <2>7. Knowledge'
    BY <1>0, <1>1, <1>4, <1>5, <2>2, <2>3, <2>4, <2>5, <2>6, SenderAlone DEF history, Has
  <2>8. Types' /\ RowsFit'
    BY <1>0, <1>1, <1>2, <1>7, <2>2, <2>3, <2>4, <2>5 DEF Types, RowsFit, RowFits, history
  <2>9. QueueOK'
    BY <1>0, <1>1, <1>5, <2>4, QueueStays DEF QueueOK, Failed
  <2>. QED
    BY <2>7, <2>8, <2>9, Parts
<1>. QED
  BY <1>6, <1>7 DEF CreateDelivery

LEMMA PostKeeps ==
    ASSUME IInv, NEW d \in Deliveries, PostDelivery(d)
    PROVE  IInv'
<1>0. Types /\ QueueOK /\ RowsFit /\ Knowledge
  BY Parts
<1>1. /\ sender[d].phase = "post"
      /\ UNCHANGED <<endpoint, delivery, queue, worker, failures, unrecorded, overlapped>>
  BY DEF PostDelivery
<1>2. PICK ok \in BOOLEAN :
          /\ Post(d, ok)
          /\ sender' = [sender EXCEPT ![d].phase = "record", ![d].ok = ok]
  BY DEF PostDelivery
<1>3. sender \in [Deliveries -> Sender] /\ posts \in [Deliveries -> 0 .. MaxRetries + 1]
  BY <1>0 DEF Types
<1>4. SenderKnows(sender[d], delivery[d], posts[d], d \in received)
  BY <1>0 DEF Knowledge, SendersKnow
<1>5. /\ delivery[d] \in {None, NewRow(sender[d].endpoint)} /\ posts[d] = 0
      /\ sender[d].endpoint \in Endpoints
  BY <1>1, <1>4 DEF SenderKnows
<1>6. 0 <= MaxRetries /\ 1 <= MaxRetries /\ MaxRetries \in Nat
  BY RetryAssumption
<1>7. /\ posts' \in [Deliveries -> 0 .. MaxRetries + 1]
      /\ posts'[d] = 1
      /\ \A e \in Deliveries \ {d} : posts'[e] = posts[e]
      /\ received \subseteq received' /\ received' \subseteq received \cup {d}
      /\ ok => d \in received'
  BY <1>0, <1>2, <1>5, <1>6, PostCounts
<1>8. PICK x : x = [sender[d] EXCEPT !.phase = "record", !.ok = ok]
  OBVIOUS
<1>9. x \in Sender /\ x.phase = "record" /\ x.ok = ok /\ x.endpoint = sender[d].endpoint
  BY <1>3, <1>8 DEF Sender
<1>10. sender' = [sender EXCEPT ![d] = x]
  BY <1>2, <1>3, <1>8 DEF Sender
<1>11. SenderKnows(x, delivery'[d], posts'[d], d \in received')
  BY <1>1, <1>5, <1>7, <1>9 DEF SenderKnows
<1>12. ~Has(d, {"SUCCESS"})'
  BY <1>1, <1>5, NewRowIs DEF Has
<1>13. Knowledge'
  BY <1>0, <1>1, <1>6, <1>7, <1>9, <1>10, <1>11, <1>12, SenderAlone
<1>14. Types' /\ RowsFit' /\ QueueOK'
  BY <1>0, <1>1, <1>7, <1>9, <1>10, QueueStays DEF Types, RowsFit, QueueOK, Failed
<1>. QED
  BY <1>13, <1>14, Parts

\* The row is written by its id; what is not due is not due for that.
LEMMA WrittenIs ==
    ASSUME Types, QueueOK, NEW d \in Deliveries, NEW row \in Row, Written(d, row)
    PROVE  /\ delivery' \in [Deliveries -> {None} \cup Row]
           /\ delivery'[d] = IF delivery[d] = None THEN None ELSE row
           /\ \A e \in Deliveries \ {d} : delivery'[e] = delivery[e]
           /\ QueueOK'
<1>1. /\ delivery' = [delivery EXCEPT ![d] = IF delivery[d] = None THEN None ELSE row]
      /\ delivery \in [Deliveries -> {None} \cup Row]
      /\ NotDue({d})
  BY DEF Written, Types
<1>2. /\ delivery' \in [Deliveries -> {None} \cup Row]
      /\ delivery'[d] = IF delivery[d] = None THEN None ELSE row
      /\ \A e \in Deliveries \ {d} : delivery'[e] = delivery[e]
  BY <1>1
<1>3. \A e \in due \ {d} : Failed(e)'
  BY <1>2 DEF QueueOK, Failed
<1>. QED
  BY <1>1, <1>2, <1>3, QueueShrinks

LEMMA RecordKeeps ==
    ASSUME IInv, NEW d \in Deliveries, RecordDelivery(d)
    PROVE  IInv'
<1>0. Types /\ QueueOK /\ RowsFit /\ Knowledge
  BY Parts
<1>1. /\ sender[d].phase = "record"
      /\ Written(d, Record(NewRow(sender[d].endpoint), sender[d].ok))
      /\ sender' = [sender EXCEPT ![d].phase = "done"]
      /\ UNCHANGED <<endpoint, worker, failures, history>>
  BY DEF RecordDelivery
<1>2. sender \in [Deliveries -> Sender] /\ posts \in [Deliveries -> 0 .. MaxRetries + 1]
  BY <1>0 DEF Types
<1>3. SenderKnows(sender[d], delivery[d], posts[d], d \in received)
  BY <1>0 DEF Knowledge, SendersKnow
<1>4. /\ posts[d] <= 1 /\ sender[d].endpoint \in Endpoints /\ sender[d].ok \in BOOLEAN
      /\ sender[d].ok => d \in received
  BY <1>1, <1>2, <1>3 DEF SenderKnows, Sender
<1>5. MaxRetries \in Nat /\ 0 < MaxRetries
  BY RetryAssumption
<1>6. PICK row : row = Record(NewRow(sender[d].endpoint), sender[d].ok)
  OBVIOUS
<1>7. /\ row \in Row /\ row # None /\ RowFits(row)
      /\ row.attempts = 1
      /\ row.status = "SUCCESS" => sender[d].ok
  BY <1>4, <1>5, <1>6, NewRowIs, RecordedRow
<1>8. /\ delivery' \in [Deliveries -> {None} \cup Row]
      /\ delivery'[d] = IF delivery[d] = None THEN None ELSE row
      /\ \A e \in Deliveries \ {d} : delivery'[e] = delivery[e]
      /\ QueueOK'
  BY <1>0, <1>1, <1>6, <1>7, WrittenIs
<1>9. PICK x : x = [sender[d] EXCEPT !.phase = "done"]
  OBVIOUS
<1>10. x \in Sender /\ x.phase = "done"
  BY <1>2, <1>9 DEF Sender
<1>11. sender' = [sender EXCEPT ![d] = x]
  BY <1>1, <1>2, <1>9 DEF Sender
<1>12. SenderKnows(x, delivery'[d], posts'[d], d \in received')
  BY <1>10 DEF SenderKnows
<1>13. Has(d, {"SUCCESS"})' => d \in received'
  BY <1>1, <1>4, <1>7, <1>8 DEF Has, history
<1>14. posts'[d] <= MaxRetries /\ (delivery'[d] # None => posts'[d] <= delivery'[d].attempts)
  <2>1. posts'[d] = posts[d] /\ posts[d] \in Nat
    BY <1>1, <1>2 DEF history
  <2>. QED
    BY <1>4, <1>5, <1>7, <1>8, <2>1
<1>15. Knowledge'
  BY <1>0, <1>1, <1>8, <1>10, <1>11, <1>12, <1>13, <1>14, SenderAlone DEF history
<1>16. Types' /\ RowsFit'
  BY <1>0, <1>1, <1>7, <1>8, <1>10, <1>11 DEF Types, RowsFit, RowFits, history
<1>. QED
  BY <1>8, <1>15, <1>16, Parts

LEMMA FailSenderKeeps ==
    ASSUME IInv, NEW d \in Deliveries, FailSender(d)
    PROVE  IInv'
<1>0. Types /\ QueueOK /\ RowsFit /\ Knowledge
  BY Parts
<1>1. /\ sender[d].phase \in {"create", "post", "record"}
      /\ sender' = [sender EXCEPT ![d].phase = "done"]
      /\ unrecorded' = IF sender[d].phase = "record" THEN unrecorded \cup {d} ELSE unrecorded
      /\ UNCHANGED <<endpoint, delivery, queue, worker, failures, posts, received, overlapped>>
  BY DEF FailSender
<1>2. sender \in [Deliveries -> Sender] /\ posts \in [Deliveries -> 0 .. MaxRetries + 1]
  BY <1>0 DEF Types
<1>3. SenderKnows(sender[d], delivery[d], posts[d], d \in received)
  BY <1>0 DEF Knowledge, SendersKnow
<1>4. PICK x : x = [sender[d] EXCEPT !.phase = "done"]
  OBVIOUS
<1>5. x \in Sender /\ x.phase = "done"
  BY <1>2, <1>4 DEF Sender
<1>6. sender' = [sender EXCEPT ![d] = x]
  BY <1>1, <1>2, <1>4 DEF Sender
<1>7. SenderKnows(x, delivery'[d], posts'[d], d \in received')
  BY <1>5 DEF SenderKnows
<1>8. ~Has(d, {"SUCCESS"})'
  BY <1>1, <1>3, NewRowIs DEF SenderKnows, Has
<1>9. unrecorded \subseteq unrecorded' /\ unrecorded' \subseteq Deliveries
  BY <1>0, <1>1 DEF Types
<1>10. d \notin unrecorded' =>
          /\ posts'[d] <= MaxRetries
          /\ delivery'[d] # None => posts'[d] <= delivery'[d].attempts
  <2>1. MaxRetries \in Nat
    BY RetryAssumption
  <2>2. d \notin unrecorded' => sender[d].phase \in {"create", "post"}
    BY <1>1
  <2>3. sender[d].phase \in {"create", "post"} =>
          posts[d] = 0 /\ (delivery[d] # None => delivery[d].attempts = 0)
    BY <1>3, NewRowIs DEF SenderKnows
  <2>. QED
    BY <1>1, <2>1, <2>2, <2>3
<1>11. Knowledge'
  BY <1>0, <1>1, <1>5, <1>6, <1>7, <1>8, <1>9, <1>10, SenderAlone
<1>12. Types' /\ RowsFit' /\ QueueOK'
  BY <1>0, <1>1, <1>5, <1>6, <1>9, QueueStays DEF Types, RowsFit, QueueOK, Failed
<1>. QED
  BY <1>11, <1>12, Parts

-----------------------------------------------------------------------------
(* The steps of a worker.                                                  *)

\* A worker leaves the deliveries of senders that are not done alone.
LEMMA WorkerMoves ==
    ASSUME Knowledge, Types, NEW w \in Workers, NEW y \in Worker,
           worker' = [worker EXCEPT ![w] = y], UNCHANGED sender, received \subseteq received',
           \A e \in Deliveries : sender[e].phase # "done" =>
              delivery'[e] = delivery[e] /\ posts'[e] = posts[e],
           WorkerKnows(y, sender, received'),
           SuccessAnswered', RowsHeldOnce', PostsCounted'
    PROVE  Knowledge'
<1>. USE DEF Knowledge
<1>1. SendersKnow'
  <2>1. ASSUME NEW e \in Deliveries
        PROVE  SenderKnows(sender[e], delivery'[e], posts'[e], e \in received')
    <3>1. SenderKnows(sender[e], delivery[e], posts[e], e \in received)
      BY DEF SendersKnow
    <3>2. CASE sender[e].phase = "done"
      BY <3>2 DEF SenderKnows
    <3>3. CASE sender[e].phase # "done"
      BY <3>1, <3>3 DEF SenderKnows
    <3>. QED
      BY <3>2, <3>3
  <2>. QED
    BY <2>1 DEF SendersKnow
<1>2. WorkersKnow'
  <2>1. ASSUME NEW v \in Workers PROVE WorkerKnows(worker'[v], sender, received')
    <3>1. worker'[v] = IF v = w THEN y ELSE worker[v]
      BY DEF Types
    <3>2. WorkerKnows(worker[v], sender, received')
      BY DEF WorkersKnow, WorkerKnows
    <3>. QED
      BY <3>1, <3>2
  <2>. QED
    BY <2>1 DEF WorkersKnow
<1>. QED
  BY <1>1, <1>2

\* A worker that posts nothing: it keeps some of its rows and lets go of others.
\* What it has posted and not recorded stays unrecorded.
LEMMA WorkerRests ==
    ASSUME Knowledge, Types, NEW w \in Workers, NEW y \in Worker,
           worker' = [worker EXCEPT ![w] = y],
           UNCHANGED <<delivery, sender, posts, received, overlapped>>,
           \A e \in Deliveries : y.rows[e] \in {None, worker[w].rows[e]},
           y.phase # "record",
           y.phase = "post" => y.current \in Deliveries /\ Held(y, y.current),
           unrecorded \subseteq unrecorded',
           \A e \in Deliveries : Posted(worker[w], e) => e \in unrecorded'
    PROVE  Knowledge'
<1>. USE DEF Knowledge
<1>0. \A v \in Workers : worker'[v] = IF v = w THEN y ELSE worker[v]
  BY DEF Types
<1>1. WorkerKnows(y, sender, received')
  <2>1. WorkerKnows(worker[w], sender, received)
    BY DEF WorkersKnow
  <2>. QED
    BY <2>1 DEF WorkerKnows, Held
<1>2. \A e \in Deliveries : ~Posted(y, e)
  BY DEF Posted
<1>3. \A e \in Deliveries, v \in Workers :
          Held(worker'[v], e) => Held(worker[v], e) /\ worker'[v].rows[e] = worker[v].rows[e]
  BY <1>0 DEF Held
<1>4. \A e \in Deliveries \ unrecorded', v \in Workers :
          Posted(worker'[v], e) <=> Posted(worker[v], e)
  BY <1>0, <1>2
<1>5. RowsHeldOnce'
  <2>1. ASSUME NEW e \in Deliveries \ overlapped PROVE HeldOnce(e, worker', delivery[e])
    <3>1. HeldOnce(e, worker, delivery[e])
      BY DEF RowsHeldOnce
    <3>. QED
      BY <1>3, <3>1 DEF HeldOnce
  <2>. QED
    BY <2>1 DEF RowsHeldOnce
<1>6. PostsCounted'
  <2>1. ASSUME NEW e \in Deliveries \ (unrecorded' \cup overlapped)
        PROVE  Counted(e, worker', sender[e], delivery[e], posts[e])
    <3>1. Counted(e, worker, sender[e], delivery[e], posts[e])
      BY DEF PostsCounted
    <3>. QED
      BY <1>3, <1>4, <3>1 DEF Counted
  <2>. QED
    BY <2>1 DEF PostsCounted
<1>7. SuccessAnswered'
  BY DEF SuccessAnswered, Has
<1>. QED
  BY <1>1, <1>5, <1>6, <1>7, WorkerMoves

\* The locals of a worker that has come to the end of its rows, or of one row.
LEMMA WorkerLocals ==
    ASSUME Types, NEW w \in Workers, NEW d \in Deliveries
    PROVE  /\ IdleWorker \in Worker /\ IdleWorker.phase = "idle"
           /\ \A e \in Deliveries : IdleWorker.rows[e] = None
           /\ Dropped(w, d) \in Worker /\ Dropped(w, d).phase = "next"
           /\ Dropped(w, d).rows[d] = None
           /\ \A e \in Deliveries \ {d} : Dropped(w, d).rows[e] = worker[w].rows[e]
<1>1. /\ IdleWorker \in Worker /\ IdleWorker.phase = "idle"
      /\ \A e \in Deliveries : IdleWorker.rows[e] = None
  BY DEF IdleWorker, Worker, Nothing
<1>2. worker[w] \in Worker /\ worker[w].rows \in [Deliveries -> {None} \cup Row]
  BY DEF Types, Worker
<1>3. PICK rest \in [Deliveries -> {None} \cup Row] : rest = [worker[w].rows EXCEPT ![d] = None]
  BY <1>2
<1>4. rest[d] = None /\ \A e \in Deliveries \ {d} : rest[e] = worker[w].rows[e]
  BY <1>2, <1>3
<1>5. Dropped(w, d) = [worker[w] EXCEPT !.phase = "next", !.rows = rest, !.current = None, !.ok = FALSE]
  BY <1>3 DEF Dropped
<1>6. /\ Dropped(w, d) \in Worker /\ Dropped(w, d).phase = "next"
      /\ Dropped(w, d).rows = rest
  BY <1>2, <1>5 DEF Worker
<1>. QED
  BY <1>1, <1>4, <1>6

LEMMA EndRunKeeps ==
    ASSUME IInv, NEW w \in Workers, EndRun(w) \/ FailWorker(w)
    PROVE  IInv'
<1>0. Types /\ QueueOK /\ RowsFit /\ Knowledge
  BY Parts
<1>1. /\ worker' = [worker EXCEPT ![w] = IdleWorker]
      /\ UNCHANGED <<endpoint, delivery, queue, sender, posts, received, overlapped>>
  BY DEF EndRun, FailWorker, history
<1>2. WorkerKnows(worker[w], sender, received)
  BY <1>0 DEF Knowledge, WorkersKnow
<1>3. /\ unrecorded \subseteq unrecorded' /\ unrecorded' \subseteq Deliveries
      /\ \A e \in Deliveries : Posted(worker[w], e) => e \in unrecorded'
      /\ failures' \in 0 .. MaxFailures
  <2>1. CASE EndRun(w)
    BY <1>0, <2>1 DEF EndRun, history, Types, Posted
  <2>2. CASE FailWorker(w)
    <3>1. /\ failures < MaxFailures /\ failures' = failures + 1
          /\ failures \in 0 .. MaxFailures /\ MaxFailures \in Nat
      BY <1>0, <2>2, RetryAssumption DEF FailWorker, Types
    <3>2. /\ unrecorded \subseteq unrecorded' /\ unrecorded' \subseteq Deliveries
          /\ \A e \in Deliveries : Posted(worker[w], e) => e \in unrecorded'
      BY <1>0, <1>2, <2>2 DEF FailWorker, Types, Posted, WorkerKnows
    <3>. QED
      BY <3>1, <3>2
  <2>. QED
    BY <2>1, <2>2
<1>4. /\ IdleWorker \in Worker /\ IdleWorker.phase = "idle"
      /\ \A e \in Deliveries : IdleWorker.rows[e] = None
  BY DEF IdleWorker, Worker, Nothing
<1>5. Knowledge'
  BY <1>0, <1>1, <1>3, <1>4, WorkerRests
<1>6. Types' /\ RowsFit' /\ QueueOK'
  BY <1>0, <1>1, <1>3, <1>4, QueueStays DEF Types, RowsFit, QueueOK, Failed
<1>. QED
  BY <1>5, <1>6, Parts

LEMMA NextDeliveryKeeps ==
    ASSUME IInv, NEW w \in Workers, NextDelivery(w)
    PROVE  IInv'
<1>0. Types /\ QueueOK /\ RowsFit /\ Knowledge
  BY Parts
<1>1. /\ worker[w].phase = "next"
      /\ UNCHANGED <<endpoint, delivery, queue, sender, failures, history>>
  BY DEF NextDelivery
<1>2. PICK d \in Batch(w) :
          worker' = [worker EXCEPT ![w] =
              IF endpoint[worker[w].rows[d].endpoint] = "active"
              THEN [worker[w] EXCEPT !.phase = "post", !.current = d]
              ELSE Dropped(w, d)]
  BY DEF NextDelivery
<1>3. d \in Deliveries /\ worker[w].rows[d] # None /\ worker[w] \in Worker
  BY <1>0 DEF Batch, Types
<1>4. \A e \in Deliveries : ~Posted(worker[w], e)
  BY <1>1 DEF Posted
<1>5. PICK y \in Worker :
          /\ worker' = [worker EXCEPT ![w] = y]
          /\ \A e \in Deliveries : y.rows[e] \in {None, worker[w].rows[e]}
          /\ y.phase # "record"
          /\ y.phase = "post" => y.current \in Deliveries /\ Held(y, y.current)
  <2>1. CASE endpoint[worker[w].rows[d].endpoint] = "active"
    <3>1. PICK y : y = [worker[w] EXCEPT !.phase = "post", !.current = d]
      OBVIOUS
    <3>2. y \in Worker /\ y.phase = "post" /\ y.current = d /\ y.rows = worker[w].rows
      BY <1>3, <3>1 DEF Worker
    <3>. QED
      BY <1>2, <1>3, <2>1, <3>1, <3>2 DEF Held
  <2>2. CASE endpoint[worker[w].rows[d].endpoint] # "active"
    <3>1. PICK y : y = Dropped(w, d)
      OBVIOUS
    <3>2. /\ y \in Worker /\ y.phase = "next"
          /\ y.rows[d] = None /\ \A e \in Deliveries \ {d} : y.rows[e] = worker[w].rows[e]
      BY <1>0, <1>3, <3>1, WorkerLocals
    <3>. QED
      BY <1>2, <2>2, <3>1, <3>2
  <2>. QED
    BY <2>1, <2>2
<1>6. Knowledge'
  BY <1>0, <1>1, <1>4, <1>5, WorkerRests DEF history
<1>7. Types' /\ RowsFit' /\ QueueOK'
  BY <1>0, <1>1, <1>5, QueueStays DEF Types, RowsFit, QueueOK, Failed, history
<1>. QED
  BY <1>6, <1>7, Parts

\* A run that begins: it is posting nothing, and of the rows it reads those that
\* another worker holds are overlapped from now on.
LEMMA StartRunKeeps ==
    ASSUME IInv, NEW w \in Workers, StartRun(w)
    PROVE  IInv'
<1>0. Types /\ QueueOK /\ RowsFit /\ Knowledge
  BY Parts
<1>1. /\ worker[w].phase = "idle"
      /\ overlapped' = overlapped \cup
             (PendingRetries \cap UNION {Batch(v) : v \in Workers \ {w}})
      /\ UNCHANGED <<endpoint, delivery, queue, sender, failures, posts, received, unrecorded>>
  BY DEF StartRun
<1>2. PICK read : read = [d \in Deliveries |-> IF d \in PendingRetries THEN delivery[d] ELSE None]
  OBVIOUS
<1>3. PICK y : y = [IdleWorker EXCEPT !.phase = "next", !.rows = read]
  OBVIOUS
<1>4. worker' = [worker EXCEPT ![w] = y]
  BY <1>2, <1>3 DEF StartRun
<1>5. \A d \in PendingRetries :
          /\ d \in Deliveries /\ delivery[d] \in FailedRow /\ delivery[d] # None
          /\ sender[d].phase = "done"
  <2>1. ASSUME NEW d \in PendingRetries PROVE sender[d].phase = "done"
    <3>1. d \in due /\ d \in Deliveries
      BY <1>0, PendingAreFailed DEF PendingRetries
    <3>2. sender[d].phase \notin {"none", "create", "post", "record"}
      BY <1>0, <3>1, UndoneNotDue
    <3>. QED
      BY <1>0, <3>1, <3>2 DEF Types, Sender
  <2>. QED
    BY <1>0, <2>1, PendingAreFailed
<1>6. /\ y \in Worker /\ y.phase = "next" /\ y.rows = read
      /\ \A d \in Deliveries : Held(y, d) <=> d \in PendingRetries
      /\ \A d \in PendingRetries : y.rows[d] = delivery[d]
  <2>1. read \in [Deliveries -> {None} \cup Row]
    BY <1>0, <1>2 DEF Types
  <2>2. y \in Worker /\ y.phase = "next" /\ y.rows = read
    BY <1>3, <2>1 DEF IdleWorker, Worker
  <2>. QED
    BY <1>2, <1>5, <2>2 DEF Held
<1>7. \A v \in Workers : worker'[v] = IF v = w THEN y ELSE worker[v]
  BY <1>0, <1>4 DEF Types
<1>8. \A v \in Workers, d \in Deliveries : Posted(worker'[v], d) <=> Posted(worker[v], d)
  BY <1>1, <1>6, <1>7 DEF Posted
<1>9. ASSUME NEW d \in PendingRetries, d \notin overlapped', NEW v \in Workers, v # w
      PROVE  ~Held(worker[v], d)
  <2>1. d \notin Batch(v)
    BY <1>1, <1>9
  <2>. QED
    BY <1>5, <2>1 DEF Batch, Held
<1>10. WorkerKnows(y, sender, received')
  BY <1>5, <1>6 DEF WorkerKnows
<1>11. RowsHeldOnce'
  <2>1. ASSUME NEW d \in Deliveries \ overlapped' PROVE HeldOnce(d, worker', delivery[d])
    <3>1. HeldOnce(d, worker, delivery[d])
      BY <1>0, <1>1 DEF Knowledge, RowsHeldOnce
    <3>2. CASE d \in PendingRetries
      BY <1>6, <1>7, <1>9, <3>2 DEF HeldOnce
    <3>3. CASE d \notin PendingRetries
      BY <1>6, <1>7, <3>1, <3>3 DEF HeldOnce
    <3>. QED
      BY <3>2, <3>3
  <2>. QED
    BY <1>1, <2>1 DEF RowsHeldOnce
<1>12. PostsCounted'
  <2>1. ASSUME NEW d \in Deliveries \ (unrecorded \cup overlapped')
        PROVE  Counted(d, worker', sender[d], delivery[d], posts[d])
    <3>1. Counted(d, worker, sender[d], delivery[d], posts[d])
      BY <1>0, <1>1 DEF Knowledge, PostsCounted
    <3>2. CASE d \in PendingRetries
      <4>1. \A v \in Workers : ~Posted(worker[v], d)
        <5>1. ASSUME NEW v \in Workers, v # w PROVE ~Posted(worker[v], d)
          <6>1. WorkerKnows(worker[v], sender, received)
            BY <1>0 DEF Knowledge, WorkersKnow
          <6>2. ~Held(worker[v], d)
            BY <1>9, <2>1, <3>2, <5>1
          <6>. QED
            BY <6>1, <6>2 DEF WorkerKnows, Posted
        <5>. QED
          BY <1>1, <5>1 DEF Posted
      <4>2. posts[d] <= delivery[d].attempts
        BY <1>5, <3>1, <3>2, <4>1 DEF Counted
      <4>3. \A v \in Workers : Held(worker'[v], d) => v = w /\ worker'[v].rows[d] = delivery[d]
        BY <1>6, <1>7, <1>9, <2>1, <3>2
      <4>4. \A v \in Workers : ~Posted(worker'[v], d)
        BY <1>8, <4>1
      <4>5. delivery[d].attempts + 0 = delivery[d].attempts
        BY <1>5, <3>2, RetryAssumption DEF FailedRow, Row
      <4>. QED
        BY <3>1, <4>2, <4>3, <4>4, <4>5 DEF Counted
    <3>3. CASE d \notin PendingRetries
      <4>1. \A v \in Workers :
                Held(worker'[v], d) => Held(worker[v], d) /\ worker'[v].rows[d] = worker[v].rows[d]
        BY <1>6, <1>7, <3>3
      <4>. QED
        BY <1>8, <3>1, <4>1 DEF Counted
    <3>. QED
      BY <3>2, <3>3
  <2>. QED
    BY <1>1, <2>1 DEF PostsCounted
<1>13. SuccessAnswered'
  BY <1>0, <1>1 DEF Knowledge, SuccessAnswered, Has
<1>14. Knowledge'
  BY <1>0, <1>1, <1>4, <1>6, <1>10, <1>11, <1>12, <1>13, WorkerMoves
<1>15. overlapped' \subseteq Deliveries
  BY <1>0, <1>1, <1>5 DEF Types
<1>16. Types' /\ RowsFit' /\ QueueOK'
  BY <1>0, <1>1, <1>4, <1>6, <1>15, QueueStays DEF Types, RowsFit, QueueOK, Failed
<1>. QED
  BY <1>14, <1>16, Parts

LEMMA PostRetryKeeps ==
    ASSUME IInv, NEW w \in Workers, PostRetry(w)
    PROVE  IInv'
<1>0. Types /\ QueueOK /\ RowsFit /\ Knowledge
  BY Parts
<1>1. /\ worker[w].phase = "post"
      /\ UNCHANGED <<endpoint, delivery, queue, sender, failures, unrecorded, overlapped>>
  BY DEF PostRetry
<1>2. PICK d : d = worker[w].current
  OBVIOUS
<1>3. PICK ok \in BOOLEAN :
          /\ Post(d, ok)
          /\ worker' = [worker EXCEPT ![w].phase = "record", ![w].ok = ok]
  BY <1>2 DEF PostRetry
<1>4. worker[w] \in Worker /\ WorkerKnows(worker[w], sender, received)
  BY <1>0 DEF Types, Knowledge, WorkersKnow
<1>5. /\ d \in Deliveries /\ Held(worker[w], d)
      /\ worker[w].rows[d] \in FailedRow /\ sender[d].phase = "done"
  BY <1>1, <1>2, <1>4 DEF WorkerKnows
<1>6. /\ posts' \in [Deliveries -> 0 .. MaxRetries + 1]
      /\ posts[d] <= MaxRetries => posts'[d] = posts[d] + 1
      /\ \A e \in Deliveries \ {d} : posts'[e] = posts[e]
      /\ received \subseteq received' /\ received' \subseteq received \cup {d}
      /\ ok => d \in received'
  BY <1>0, <1>3, <1>5, PostCounts
<1>7. PICK y : y = [worker[w] EXCEPT !.phase = "record", !.ok = ok]
  OBVIOUS
<1>8. /\ y \in Worker /\ y.phase = "record" /\ y.ok = ok
      /\ y.current = d /\ y.rows = worker[w].rows
  BY <1>2, <1>4, <1>7 DEF Worker
<1>9. worker' = [worker EXCEPT ![w] = y]
  BY <1>0, <1>3, <1>7 DEF Types
<1>10. \A v \in Workers : worker'[v] = IF v = w THEN y ELSE worker[v]
  BY <1>0, <1>9 DEF Types
<1>11. \A v \in Workers, e \in Deliveries :
          Held(worker'[v], e) <=> Held(worker[v], e)
  BY <1>8, <1>10 DEF Held
<1>12. \A v \in Workers : worker'[v].rows = worker[v].rows
  BY <1>8, <1>10
<1>13. WorkerKnows(y, sender, received')
  BY <1>4, <1>5, <1>6, <1>8 DEF WorkerKnows, Held
<1>14. RowsHeldOnce'
  <2>1. ASSUME NEW e \in Deliveries \ overlapped PROVE HeldOnce(e, worker', delivery[e])
    <3>1. HeldOnce(e, worker, delivery[e])
      BY <1>0 DEF Knowledge, RowsHeldOnce
    <3>. QED
      BY <1>11, <1>12, <3>1 DEF HeldOnce
  <2>. QED
    BY <1>1, <2>1 DEF RowsHeldOnce
<1>15. PostsCounted'
  <2>1. ASSUME NEW e \in Deliveries \ (unrecorded \cup overlapped)
        PROVE  Counted(e, worker', sender[e], delivery[e], posts'[e])
    <3>1. Counted(e, worker, sender[e], delivery[e], posts[e])
      BY <1>0 DEF Knowledge, PostsCounted
    <3>2. CASE e = d
      <4>1. \A v \in Workers : Held(worker'[v], d) => v = w
        BY <1>0, <1>5, <1>11, <2>1, <3>2 DEF Knowledge, RowsHeldOnce, HeldOnce
      <4>2. Posted(worker'[w], d) /\ ~Posted(worker[w], d)
        BY <1>1, <1>8, <1>10 DEF Posted
      <4>3. /\ posts[d] <= worker[w].rows[d].attempts + 0
            /\ worker[w].rows[d].attempts \in 1 .. MaxRetries - 1
            /\ posts[d] \in Nat /\ MaxRetries \in Nat
        BY <1>0, <1>5, <3>1, <3>2, <4>2, RetryAssumption DEF Counted, FailedRow, Types
      <4>4. posts'[d] <= worker[w].rows[d].attempts + 1 /\ posts'[d] <= MaxRetries
        BY <1>6, <4>3
      <4>. QED
        BY <1>12, <3>2, <4>1, <4>2, <4>4 DEF Counted
    <3>3. CASE e # d
      <4>1. \A v \in Workers : Posted(worker'[v], e) <=> Posted(worker[v], e)
        BY <1>1, <1>8, <1>10, <3>3 DEF Posted
      <4>2. posts'[e] = posts[e]
        BY <1>6, <3>3
      <4>. QED
        BY <1>11, <1>12, <3>1, <4>1, <4>2 DEF Counted
    <3>. QED
      BY <3>2, <3>3
  <2>. QED
    BY <1>1, <2>1 DEF PostsCounted
<1>16. SuccessAnswered'
  BY <1>0, <1>1, <1>6 DEF Knowledge, SuccessAnswered, Has
<1>17. \A e \in Deliveries :
          sender[e].phase # "done" => delivery'[e] = delivery[e] /\ posts'[e] = posts[e]
  BY <1>1, <1>5, <1>6
<1>18. Knowledge'
  BY <1>0, <1>1, <1>6, <1>8, <1>9, <1>13, <1>14, <1>15, <1>16, <1>17, WorkerMoves
<1>19. received' \subseteq Deliveries
  BY <1>0, <1>5, <1>6 DEF Types
<1>20. Types' /\ RowsFit' /\ QueueOK'
  BY <1>0, <1>1, <1>6, <1>8, <1>9, <1>19, QueueStays DEF Types, RowsFit, QueueOK, Failed
<1>. QED
  BY <1>18, <1>20, Parts

\* What a worker read is still the row in the table, or the row has gone: it
\* writes what follows from its own post, and lets go of the row.
LEMMA RecordRetryKeeps ==
    ASSUME IInv, NEW w \in Workers, RecordRetry(w)
    PROVE  IInv'
<1>0. Types /\ QueueOK /\ RowsFit /\ Knowledge
  BY Parts
<1>1. /\ worker[w].phase = "record"
      /\ UNCHANGED <<endpoint, sender, failures, history>>
  BY DEF RecordRetry
<1>2. PICK d : d = worker[w].current
  OBVIOUS
<1>3. PICK row : row = Record(worker[w].rows[d], worker[w].ok)
  OBVIOUS
<1>4. /\ Written(d, row)
      /\ worker' = [worker EXCEPT ![w] = IF delivery[d] = None THEN IdleWorker ELSE Dropped(w, d)]
  BY <1>2, <1>3 DEF RecordRetry
<1>5. worker[w] \in Worker /\ WorkerKnows(worker[w], sender, received)
  BY <1>0 DEF Types, Knowledge, WorkersKnow
<1>6. /\ d \in Deliveries /\ Held(worker[w], d)
      /\ worker[w].rows[d] \in FailedRow /\ sender[d].phase = "done"
      /\ worker[w].ok \in BOOLEAN /\ (worker[w].ok => d \in received)
      /\ Posted(worker[w], d)
  BY <1>1, <1>2, <1>5 DEF WorkerKnows, Worker, Posted
<1>7. worker[w].rows[d] \in Row /\ worker[w].rows[d].attempts < MaxRetries
  BY <1>6, RetryAssumption DEF FailedRow
<1>8. /\ row \in Row /\ row # None /\ RowFits(row)
      /\ row.attempts = worker[w].rows[d].attempts + 1
      /\ row.status = "SUCCESS" => worker[w].ok
  BY <1>3, <1>6, <1>7, RecordedRow
<1>9. /\ delivery' \in [Deliveries -> {None} \cup Row]
      /\ delivery'[d] = IF delivery[d] = None THEN None ELSE row
      /\ \A e \in Deliveries \ {d} : delivery'[e] = delivery[e]
      /\ QueueOK'
  BY <1>0, <1>4, <1>6, <1>8, WrittenIs
<1>10. PICK y \in Worker :
          /\ worker' = [worker EXCEPT ![w] = y]
          /\ y.phase \in {"idle", "next"} /\ y.rows[d] = None
          /\ \A e \in Deliveries \ {d} : y.rows[e] \in {None, worker[w].rows[e]}
  <2>1. PICK y : y = IF delivery[d] = None THEN IdleWorker ELSE Dropped(w, d)
    OBVIOUS
  <2>2. /\ y \in Worker /\ y.phase \in {"idle", "next"} /\ y.rows[d] = None
        /\ \A e \in Deliveries \ {d} : y.rows[e] \in {None, worker[w].rows[e]}
    BY <1>0, <1>6, <2>1, WorkerLocals
  <2>. QED
    BY <1>4, <2>1, <2>2
<1>11. \A v \in Workers : worker'[v] = IF v = w THEN y ELSE worker[v]
  BY <1>0, <1>10 DEF Types
<1>12. \A e \in Deliveries, v \in Workers :
          Held(worker'[v], e) => /\ Held(worker[v], e) /\ worker'[v].rows[e] = worker[v].rows[e]
                                 /\ v = w => e # d
  BY <1>10, <1>11 DEF Held
<1>13. \A e \in Deliveries \ {d}, v \in Workers : Posted(worker'[v], e) <=> Posted(worker[v], e)
  BY <1>2, <1>10, <1>11 DEF Posted
<1>14. ASSUME d \notin overlapped, NEW v \in Workers PROVE ~Held(worker'[v], d)
  <2>1. HeldOnce(d, worker, delivery[d])
    BY <1>0, <1>6, <1>14 DEF Knowledge, RowsHeldOnce
  <2>. QED
    BY <1>6, <1>12, <2>1 DEF HeldOnce
<1>15. WorkerKnows(y, sender, received')
  BY <1>1, <1>5, <1>6, <1>10 DEF WorkerKnows, Held, history
<1>16. RowsHeldOnce'
  <2>1. ASSUME NEW e \in Deliveries \ overlapped PROVE HeldOnce(e, worker', delivery'[e])
    <3>1. HeldOnce(e, worker, delivery[e])
      BY <1>0 DEF Knowledge, RowsHeldOnce
    <3>2. CASE e = d
      BY <1>14, <2>1, <3>2 DEF HeldOnce
    <3>3. CASE e # d
      BY <1>9, <1>12, <3>1, <3>3 DEF HeldOnce
    <3>. QED
      BY <3>2, <3>3
  <2>. QED
    BY <1>1, <2>1 DEF RowsHeldOnce, history
<1>17. PostsCounted'
  <2>1. ASSUME NEW e \in Deliveries \ (unrecorded \cup overlapped)
        PROVE  Counted(e, worker', sender[e], delivery'[e], posts[e])
    <3>1. Counted(e, worker, sender[e], delivery[e], posts[e])
      BY <1>0 DEF Knowledge, PostsCounted
    <3>2. CASE e = d
      <4>1. posts[d] <= worker[w].rows[d].attempts + 1
        BY <1>6, <3>1, <3>2 DEF Counted
      <4>2. delivery'[d] # None => posts[d] <= delivery'[d].attempts
        BY <1>8, <1>9, <4>1
      <4>. QED
        BY <1>14, <2>1, <3>1, <3>2, <4>2 DEF Counted
    <3>3. CASE e # d
      <4>1. delivery'[e] = delivery[e]
        BY <1>9, <3>3
      <4>. QED
        BY <1>12, <1>13, <3>1, <3>3, <4>1 DEF Counted
    <3>. QED
      BY <3>2, <3>3
  <2>. QED
    BY <1>1, <2>1 DEF PostsCounted, history
<1>18. SuccessAnswered'
  <2>1. ASSUME NEW e \in Deliveries, Has(e, {"SUCCESS"})' PROVE e \in received
    <3>1. CASE e = d
      BY <1>6, <1>8, <1>9, <2>1, <3>1 DEF Has
    <3>2. CASE e # d
      BY <1>0, <1>9, <2>1, <3>2 DEF Knowledge, SuccessAnswered, Has
    <3>. QED
      BY <3>1, <3>2
  <2>. QED
    BY <1>1, <2>1 DEF SuccessAnswered, history
<1>19. \A e \in Deliveries :
          sender[e].phase # "done" => delivery'[e] = delivery[e] /\ posts'[e] = posts[e]
  BY <1>1, <1>6, <1>9 DEF history
<1>20. Knowledge'
  <2>1. UNCHANGED <<sender, received>>
    BY <1>1 DEF history
  <2>. QED
    BY <1>0, <1>10, <1>15, <1>16, <1>17, <1>18, <1>19, <2>1, WorkerMoves
<1>21. Types' /\ RowsFit'
  <2>1. Types'
    BY <1>0, <1>1, <1>9, <1>10 DEF Types, history
  <2>2. RowsFit'
    BY <1>0, <1>8, <1>9 DEF RowsFit, RowFits
  <2>. QED
    BY <2>1, <2>2
<1>. QED
  BY <1>9, <1>20, <1>21, Parts

-----------------------------------------------------------------------------
LEMMA StepKeeps == IInv /\ [Next]_vars => IInv'
<1>. SUFFICES ASSUME IInv, [Next]_vars PROVE IInv'
  OBVIOUS
<1>1. CASE UNCHANGED vars
  BY <1>1 DEF IInv, TypeOK, Failed, Has, SendersKnow, WorkersKnow, SuccessAnswered,
              RowsHeldOnce, PostsCounted, vars, queue
<1>2. CASE Next
  <2>1. ASSUME NEW e \in Endpoints, RegisterWebhook(e) \/ UpdateWebhook(e) \/ DeleteWebhook(e)
        PROVE  IInv'
    BY <2>1, EndpointKeeps
  <2>2. ASSUME NEW d \in Deliveries,
               \/ \E e \in Endpoints : DispatchEvent(d, e)
               \/ CreateDelivery(d) \/ PostDelivery(d) \/ RecordDelivery(d) \/ FailSender(d)
               \/ BackoffPasses(d)
        PROVE  IInv'
    BY <2>2, DispatchKeeps, CreateKeeps, PostKeeps, RecordKeeps, FailSenderKeeps, BackoffKeeps
  <2>3. ASSUME NEW w \in Workers, WorkerStep(w) \/ FailWorker(w)
        PROVE  IInv'
    BY <2>3, StartRunKeeps, NextDeliveryKeeps, PostRetryKeeps, RecordRetryKeeps, EndRunKeeps
       DEF WorkerStep
  <2>. QED
    BY <1>2, <2>1, <2>2, <2>3 DEF Next
<1>. QED
  BY <1>1, <1>2

\* In every state each sender and each worker knows what IInv says of it.
THEOREM Invariant == Spec => []IInv
BY InitIInv, StepKeeps, PTL DEF Spec

\* Rows are well formed: one that is to be repeated has attempts left, an
\* exhausted one has none, and what is due is FAILED and stands in order.
THEOREM TypeCorrect == Spec => []TypeOK
<1>1. IInv => TypeOK
  BY DEF IInv
<1>. QED
  BY <1>1, Invariant, PTL

\* An event is posted to its endpoint MaxRetries times at most, first post and
\* retries counted together, as long as every post was recorded and no two runs
\* held the row together.
THEOREM PostsLimited == Spec => []PostsBounded
<1>1. IInv => PostsBounded
  BY DEF IInv, PostsCounted, Counted, PostsBounded
<1>. QED
  BY <1>1, Invariant, PTL

\* What a step writes over a row that says SUCCESS or EXHAUSTED: nothing, unless
\* two workers held it.
LEMMA StepLeavesOutcome ==
    ASSUME IInv, Next, NEW d \in Deliveries \ overlapped, Has(d, {"SUCCESS", "EXHAUSTED"})
    PROVE  delivery'[d] \in {None, delivery[d]}
<1>0. Types /\ QueueOK /\ Knowledge
  BY Parts
<1>1. /\ delivery[d] # None /\ delivery[d].status \notin {"PENDING", "FAILED"}
      /\ delivery \in [Deliveries -> {None} \cup Row]
  BY <1>0 DEF Has, Types
<1>2. SenderKnows(sender[d], delivery[d], posts[d], d \in received)
  BY <1>0 DEF Knowledge, SendersKnow
<1>3. sender[d].phase \notin {"none", "create", "post", "record"}
  BY <1>1, <1>2, NewRowIs DEF SenderKnows
<1>4. ASSUME NEW w \in Workers PROVE ~Held(worker[w], d)
  <2>1. WorkerKnows(worker[w], sender, received) /\ HeldOnce(d, worker, delivery[d])
    BY <1>0 DEF Knowledge, WorkersKnow, RowsHeldOnce
  <2>. QED
    BY <1>1, <2>1 DEF WorkerKnows, HeldOnce, FailedRow
<1>5. ASSUME NEW e \in Deliveries \ {d}, NEW row, Written(e, row) PROVE delivery'[d] = delivery[d]
  BY <1>1, <1>5 DEF Written
<1>6. CASE UNCHANGED delivery
  BY <1>6
<1>7. ASSUME NEW e \in Endpoints, DeleteWebhook(e) PROVE delivery'[d] \in {None, delivery[d]}
  BY <1>7 DEF DeleteWebhook
<1>8. ASSUME NEW e \in Deliveries, CreateDelivery(e) \/ RecordDelivery(e)
      PROVE  delivery'[d] = delivery[d]
  <2>1. e # d
    BY <1>3, <1>8 DEF CreateDelivery, RecordDelivery
  <2>2. CASE CreateDelivery(e)
    BY <1>1, <2>1, <2>2 DEF CreateDelivery
  <2>3. CASE RecordDelivery(e)
    BY <1>5, <2>1, <2>3 DEF RecordDelivery
  <2>. QED
    BY <1>8, <2>2, <2>3
<1>9. ASSUME NEW w \in Workers, RecordRetry(w) PROVE delivery'[d] = delivery[d]
  <2>1. WorkerKnows(worker[w], sender, received) /\ worker[w].phase = "record"
    BY <1>0, <1>9 DEF Knowledge, WorkersKnow, RecordRetry
  <2>2. worker[w].current \in Deliveries \ {d}
    BY <1>4, <2>1 DEF WorkerKnows
  <2>. QED
    BY <1>5, <1>9, <2>2 DEF RecordRetry
<1>10. \/ UNCHANGED delivery
       \/ \E e \in Endpoints : DeleteWebhook(e)
       \/ \E e \in Deliveries : CreateDelivery(e) \/ RecordDelivery(e)
       \/ \E w \in Workers : RecordRetry(w)
  BY DEF Next, WorkerStep, RegisterWebhook, UpdateWebhook, DispatchEvent, PostDelivery, FailSender,
         BackoffPasses, StartRun, NextDelivery, PostRetry, EndRun, FailWorker
<1>. QED
  BY <1>6, <1>7, <1>8, <1>9, <1>10

\* SUCCESS is only written of what the endpoint has answered with 2xx, and what
\* was delivered or given up stays so unless two runs overlapped.
THEOREM OutcomesFinal == Spec => OutcomeStands
<1>1. IInv /\ IInv' /\ [Next]_vars =>
        [\A d \in Deliveries :
            /\ Has(d, {"SUCCESS"})' => d \in received'
            /\ d \notin overlapped /\ Has(d, {"SUCCESS", "EXHAUSTED"})
                  => delivery'[d] \in {None, delivery[d]}]_vars
  <2>1. ASSUME IInv', NEW d \in Deliveries, Has(d, {"SUCCESS"})' PROVE d \in received'
    BY <2>1 DEF IInv, SuccessAnswered
  <2>. QED
    BY <2>1, StepLeavesOutcome
<1>2. Spec => [][Next]_vars
  BY DEF Spec
<1>. QED
  BY <1>1, <1>2, Invariant, PTL DEF OutcomeStands

-----------------------------------------------------------------------------
(* No run counts a post that was not made: of every delivery, overlapped and *)
(* unrecorded ones included, the posts are at least as many as the attempts*)
(* in the table, and in the rows that workers hold, stale or not.          *)

\* A worker y that holds d has counted no more than the n posts of it.
NoneInvented(y, d, n) ==
    Held(y, d) => y.rows[d].attempts + (IF Posted(y, d) THEN 1 ELSE 0) <= n

AttemptsWerePosts ==
    \A d \in Deliveries :
        /\ delivery[d] # None => delivery[d].attempts <= posts[d]
        /\ sender[d].phase = "record" => posts[d] >= 1
        /\ \A w \in Workers : NoneInvented(worker[w], d, posts[d])

LEMMA InitAttempts == Init => AttemptsWerePosts
BY DEF Init, AttemptsWerePosts, NoneInvented, Held, IdleWorker, Nothing

\* A post adds to the posts, and there is always room for one the row lacks.
LEMMA PostAdds ==
    ASSUME Types, NEW d \in Deliveries, NEW ok \in BOOLEAN, Post(d, ok)
    PROVE  /\ \A e \in Deliveries : posts'[e] >= posts[e]
           /\ \A n \in 0 .. MaxRetries : n <= posts[d] => n + 1 <= posts'[d]
<1>1. /\ posts' = [posts EXCEPT ![d] = IF posts[d] > MaxRetries THEN posts[d] ELSE posts[d] + 1]
      /\ posts \in [Deliveries -> 0 .. MaxRetries + 1] /\ MaxRetries \in Nat
  BY RetryAssumption DEF Post, Types
<1>2. posts'[d] = (IF posts[d] > MaxRetries THEN posts[d] ELSE posts[d] + 1) /\ posts[d] \in Nat
  BY <1>1
<1>3. \A e \in Deliveries \ {d} : posts'[e] = posts[e] /\ posts[e] \in Nat
  BY <1>1
<1>. QED
  BY <1>1, <1>2, <1>3

\* A sender's step, which no worker takes part in.
LEMMA SenderInventsNone ==
    ASSUME IInv, AttemptsWerePosts, NEW d \in Deliveries,
           CreateDelivery(d) \/ PostDelivery(d) \/ RecordDelivery(d)
    PROVE  AttemptsWerePosts'
<1>0. Types /\ QueueOK /\ RowsFit /\ Knowledge
  BY Parts
<1>1. /\ posts \in [Deliveries -> 0 .. MaxRetries + 1] /\ sender \in [Deliveries -> Sender]
      /\ delivery \in [Deliveries -> {None} \cup Row] /\ MaxRetries \in Nat \ {0}
      /\ SenderKnows(sender[d], delivery[d], posts[d], d \in received)
  BY <1>0, RetryAssumption DEF Types, Knowledge, SendersKnow
<1>2. CASE CreateDelivery(d)
  <2>1. UNCHANGED <<worker, posts>> /\ sender[d].phase = "create"
    BY <1>2 DEF CreateDelivery, history
  <2>2. /\ \A e \in Deliveries : delivery'[e] # None => delivery'[e].attempts <= posts[e]
        /\ \A e \in Deliveries : sender'[e].phase = "record" => posts[e] >= 1
    <3>1. CASE endpoint[sender[d].endpoint] = "deleted"
      BY <1>1, <1>2, <3>1 DEF CreateDelivery, AttemptsWerePosts, Sender
    <3>2. CASE endpoint[sender[d].endpoint] # "deleted"
      <4>1. /\ delivery' = [delivery EXCEPT ![d] = NewRow(sender[d].endpoint)]
            /\ sender' = [sender EXCEPT ![d].phase = "post"]
        BY <1>2, <3>2 DEF CreateDelivery
      <4>2. NewRow(sender[d].endpoint).attempts = 0
        BY DEF NewRow
      <4>. QED
        BY <1>1, <4>1, <4>2 DEF AttemptsWerePosts, Sender
    <3>. QED
      BY <3>1, <3>2
  <2>. QED
    BY <2>1, <2>2 DEF AttemptsWerePosts
<1>3. CASE PostDelivery(d)
  <2>1. PICK ok \in BOOLEAN :
            Post(d, ok) /\ sender' = [sender EXCEPT ![d].phase = "record", ![d].ok = ok]
    BY <1>3 DEF PostDelivery
  <2>2. UNCHANGED <<delivery, worker>>
    BY <1>3 DEF PostDelivery
  <2>3. /\ \A e \in Deliveries : posts'[e] >= posts[e] /\ posts[e] \in Nat /\ posts'[e] \in Nat
        /\ posts'[d] >= 1
    BY <1>0, <1>1, <2>1, PostAdds, PostCounts
  <2>4. \A e \in Deliveries : sender'[e].phase = "record" => e = d \/ sender[e].phase = "record"
    BY <1>1, <2>1 DEF Sender
  <2>5. ASSUME NEW e \in Deliveries, NEW w \in Workers PROVE NoneInvented(worker[w], e, posts'[e])
    <3>1. Held(worker[w], e) => worker[w].rows[e].attempts \in Nat
      BY <1>0 DEF Types, Worker, Held, Row
    <3>. QED
      BY <2>3, <3>1 DEF AttemptsWerePosts, NoneInvented
  <2>6. ASSUME NEW e \in Deliveries, delivery[e] # None PROVE delivery[e].attempts <= posts'[e]
    <3>1. delivery[e].attempts \in Nat /\ delivery[e].attempts <= posts[e]
      BY <1>1, <2>6 DEF AttemptsWerePosts, Row
    <3>. QED
      BY <2>3, <3>1
  <2>. QED
    BY <2>2, <2>3, <2>4, <2>5, <2>6 DEF AttemptsWerePosts
<1>4. CASE RecordDelivery(d)
  <2>1. /\ sender[d].phase = "record" /\ UNCHANGED <<worker, posts>>
        /\ Written(d, Record(NewRow(sender[d].endpoint), sender[d].ok))
        /\ sender' = [sender EXCEPT ![d].phase = "done"]
    BY <1>4 DEF RecordDelivery, history
  <2>2. sender[d].endpoint \in Endpoints /\ sender[d].ok \in BOOLEAN /\ posts[d] >= 1
    BY <1>1, <2>1 DEF SenderKnows, Sender, AttemptsWerePosts
  <2>3. PICK row : row = Record(NewRow(sender[d].endpoint), sender[d].ok)
    OBVIOUS
  <2>4. row \in Row /\ row.attempts = 1
    BY <1>1, <2>2, <2>3, NewRowIs, RecordedRow
  <2>5. /\ delivery'[d] = IF delivery[d] = None THEN None ELSE row
        /\ \A e \in Deliveries \ {d} : delivery'[e] = delivery[e]
    BY <1>0, <2>1, <2>3, <2>4, WrittenIs
  <2>6. \A e \in Deliveries : sender'[e].phase = "record" => sender[e].phase = "record"
    BY <1>1, <2>1 DEF Sender
  <2>. QED
    BY <2>1, <2>2, <2>4, <2>5, <2>6 DEF AttemptsWerePosts
<1>. QED
  BY <1>2, <1>3, <1>4

\* A worker reads what the table says, counts its own post only, and lets go of
\* a row it passes over.
LEMMA WorkerInventsNone ==
    ASSUME IInv, AttemptsWerePosts, NEW w \in Workers, WorkerStep(w) \/ FailWorker(w)
    PROVE  AttemptsWerePosts'
<1>0. Types /\ QueueOK /\ RowsFit /\ Knowledge
  BY Parts
<1>1. /\ posts \in [Deliveries -> 0 .. MaxRetries + 1] /\ worker \in [Workers -> Worker]
      /\ delivery \in [Deliveries -> {None} \cup Row] /\ MaxRetries \in Nat \ {0}
      /\ WorkerKnows(worker[w], sender, received)
  BY <1>0, RetryAssumption DEF Types, Knowledge, WorkersKnow
<1>2. \* A step that posts and writes nothing, and leaves the worker with y.
  ASSUME UNCHANGED <<delivery, sender, posts>>, NEW y, worker' = [worker EXCEPT ![w] = y],
         \A e \in Deliveries : NoneInvented(y, e, posts[e])
  PROVE  AttemptsWerePosts'
  <2>1. \A v \in Workers : worker'[v] = IF v = w THEN y ELSE worker[v]
    BY <1>1, <1>2
  <2>. QED
    BY <1>2, <2>1 DEF AttemptsWerePosts
<1>3. \A e \in Deliveries : NoneInvented(IdleWorker, e, posts[e])
  BY DEF NoneInvented, Held, IdleWorker, Nothing
<1>4. CASE EndRun(w) \/ FailWorker(w)
  <2>1. UNCHANGED <<delivery, sender, posts>> /\ worker' = [worker EXCEPT ![w] = IdleWorker]
    BY <1>4 DEF EndRun, FailWorker, history
  <2>. QED
    BY <1>2, <1>3, <2>1
<1>5. CASE StartRun(w)
  <2>1. PICK read : read = [d \in Deliveries |-> IF d \in PendingRetries THEN delivery[d] ELSE None]
    OBVIOUS
  <2>2. PICK y : y = [IdleWorker EXCEPT !.phase = "next", !.rows = read]
    OBVIOUS
  <2>3. UNCHANGED <<delivery, sender, posts>> /\ worker' = [worker EXCEPT ![w] = y]
    BY <1>5, <2>1, <2>2 DEF StartRun
  <2>4. y.phase = "next" /\ y.rows = read
    BY <2>2 DEF IdleWorker
  <2>5. ASSUME NEW e \in Deliveries, Held(y, e)
        PROVE  y.rows[e].attempts + 0 <= posts[e] /\ ~Posted(y, e)
    <3>1. y.rows[e] = delivery[e] /\ delivery[e] # None
      BY <2>1, <2>4, <2>5 DEF Held
    <3>2. delivery[e].attempts \in Nat /\ delivery[e].attempts <= posts[e]
      BY <1>1, <3>1 DEF AttemptsWerePosts, Row
    <3>. QED
      BY <2>4, <3>1, <3>2 DEF Posted
  <2>6. \A e \in Deliveries : NoneInvented(y, e, posts[e])
    BY <2>5 DEF NoneInvented
  <2>. QED
    BY <1>2, <2>3, <2>6
<1>6. CASE NextDelivery(w)
  <2>1. worker[w].phase = "next" /\ UNCHANGED <<delivery, sender, posts>>
    BY <1>6 DEF NextDelivery, history
  <2>2. PICK d \in Batch(w) :
            worker' = [worker EXCEPT ![w] =
                IF endpoint[worker[w].rows[d].endpoint] = "active"
                THEN [worker[w] EXCEPT !.phase = "post", !.current = d]
                ELSE Dropped(w, d)]
    BY <1>6 DEF NextDelivery
  <2>3. d \in Deliveries /\ worker[w] \in Worker
    BY <1>1, <2>2 DEF Batch
  <2>4. PICK y :
            /\ worker' = [worker EXCEPT ![w] = y]
            /\ y.phase # "record"
            /\ \A e \in Deliveries : y.rows[e] \in {None, worker[w].rows[e]}
    <3>1. CASE endpoint[worker[w].rows[d].endpoint] = "active"
      <4>1. PICK y : y = [worker[w] EXCEPT !.phase = "post", !.current = d]
        OBVIOUS
      <4>2. y.phase = "post" /\ y.rows = worker[w].rows
        BY <2>3, <4>1 DEF Worker
      <4>. QED
        BY <2>2, <3>1, <4>1, <4>2
    <3>2. CASE endpoint[worker[w].rows[d].endpoint] # "active"
      <4>1. PICK y : y = Dropped(w, d)
        OBVIOUS
      <4>2. /\ y.phase = "next" /\ y.rows[d] = None
            /\ \A e \in Deliveries \ {d} : y.rows[e] = worker[w].rows[e]
        BY <1>0, <2>3, <4>1, WorkerLocals
      <4>. QED
        BY <2>2, <3>2, <4>1, <4>2
    <3>. QED
      BY <3>1, <3>2
  <2>5. \A e \in Deliveries : NoneInvented(y, e, posts[e])
    BY <2>1, <2>4 DEF AttemptsWerePosts, NoneInvented, Held, Posted
  <2>. QED
    BY <1>2, <2>1, <2>4, <2>5
<1>7. CASE PostRetry(w)
  <2>1. PICK d : d = worker[w].current
    OBVIOUS
  <2>2. PICK ok \in BOOLEAN :
            Post(d, ok) /\ worker' = [worker EXCEPT ![w].phase = "record", ![w].ok = ok]
    BY <1>7, <2>1 DEF PostRetry
  <2>3. worker[w].phase = "post" /\ UNCHANGED <<delivery, sender>>
    BY <1>7 DEF PostRetry
  <2>4. d \in Deliveries
    BY <1>1, <2>1, <2>3 DEF WorkerKnows
  <2>5. /\ \A e \in Deliveries : posts'[e] >= posts[e] /\ posts[e] \in Nat /\ posts'[e] \in Nat
        /\ \A n \in 0 .. MaxRetries : n <= posts[d] => n + 1 <= posts'[d]
    BY <1>0, <1>1, <2>2, <2>4, PostAdds, PostCounts
  <2>6. PICK y : y = [worker[w] EXCEPT !.phase = "record", !.ok = ok]
    OBVIOUS
  <2>7. y.phase = "record" /\ y.current = d /\ y.rows = worker[w].rows
    BY <1>1, <2>1, <2>6 DEF Worker
  <2>8. \A v \in Workers : worker'[v] = IF v = w THEN y ELSE worker[v]
    BY <1>1, <2>2, <2>6
  <2>9. \A e \in Deliveries, v \in Workers : Held(worker[v], e) => worker[v].rows[e].attempts \in 0 .. MaxRetries
    BY <1>1 DEF Held, Worker, Row
  <2>10. ASSUME NEW e \in Deliveries, NEW v \in Workers PROVE NoneInvented(worker'[v], e, posts'[e])
    <3>1. CASE v # w
      BY <1>1, <2>5, <2>8, <2>9, <3>1 DEF AttemptsWerePosts, NoneInvented
    <3>2. CASE v = w
      <4>1. NoneInvented(worker[w], e, posts[e]) /\ ~Posted(worker[w], e)
        BY <2>3 DEF AttemptsWerePosts, Posted
      <4>2. Held(y, e) => worker[w].rows[e].attempts <= posts[e] /\ worker[w].rows[e].attempts \in 0 .. MaxRetries
        BY <2>7, <2>9, <4>1 DEF NoneInvented, Held
      <4>3. CASE e = d
        <5>1. Held(y, d) => y.rows[d].attempts + 1 <= posts'[d]
          BY <2>5, <2>7, <4>2, <4>3
        <5>. QED
          BY <2>7, <2>8, <3>2, <4>3, <5>1 DEF NoneInvented, Posted
      <4>4. CASE e # d
        <5>1. ~Posted(y, e)
          BY <2>7, <4>4 DEF Posted
        <5>2. Held(y, e) => y.rows[e].attempts + 0 <= posts'[e]
          BY <2>5, <2>7, <4>2
        <5>. QED
          BY <2>8, <3>2, <5>1, <5>2 DEF NoneInvented
      <4>. QED
        BY <4>3, <4>4
    <3>. QED
      BY <3>1, <3>2
  <2>11. ASSUME NEW e \in Deliveries
         PROVE  /\ delivery[e] # None => delivery[e].attempts <= posts'[e]
                /\ sender[e].phase = "record" => posts'[e] >= 1
    <3>1. delivery[e] # None => delivery[e].attempts \in Nat /\ delivery[e].attempts <= posts[e]
      BY <1>1 DEF AttemptsWerePosts, Row
    <3>2. sender[e].phase = "record" => posts[e] >= 1
      BY DEF AttemptsWerePosts
    <3>. QED
      BY <2>5, <3>1, <3>2
  <2>. QED
    BY <2>3, <2>10, <2>11 DEF AttemptsWerePosts
<1>8. CASE RecordRetry(w)
  <2>1. PICK d : d = worker[w].current
    OBVIOUS
  <2>2. PICK row : row = Record(worker[w].rows[d], worker[w].ok)
    OBVIOUS
  <2>3. /\ worker[w].phase = "record" /\ UNCHANGED <<sender, posts>> /\ Written(d, row)
        /\ worker' = [worker EXCEPT ![w] = IF delivery[d] = None THEN IdleWorker ELSE Dropped(w, d)]
    BY <1>8, <2>1, <2>2 DEF RecordRetry, history
  <2>4. /\ d \in Deliveries /\ Held(worker[w], d) /\ Posted(worker[w], d)
        /\ worker[w].rows[d] \in FailedRow /\ worker[w].ok \in BOOLEAN
    BY <1>1, <2>1, <2>3 DEF WorkerKnows, Worker, Posted
  <2>5. worker[w].rows[d] \in Row /\ worker[w].rows[d].attempts < MaxRetries
    BY <2>4, RetryAssumption DEF FailedRow
  <2>6. row \in Row /\ row.attempts = worker[w].rows[d].attempts + 1
    BY <2>2, <2>4, <2>5, RecordedRow
  <2>7. row.attempts <= posts[d]
    BY <2>4, <2>6 DEF AttemptsWerePosts, NoneInvented
  <2>8. /\ delivery'[d] = IF delivery[d] = None THEN None ELSE row
        /\ \A e \in Deliveries \ {d} : delivery'[e] = delivery[e]
    BY <1>0, <2>3, <2>4, <2>6, WrittenIs
  <2>9. PICK y : y = IF delivery[d] = None THEN IdleWorker ELSE Dropped(w, d)
    OBVIOUS
  <2>10. /\ y.phase \in {"idle", "next"} /\ y.rows[d] = None
         /\ \A e \in Deliveries \ {d} : y.rows[e] \in {None, worker[w].rows[e]}
    BY <1>0, <2>4, <2>9, WorkerLocals
  <2>11. \A v \in Workers : worker'[v] = IF v = w THEN y ELSE worker[v]
    BY <1>1, <2>3, <2>9
  <2>12. \A e \in Deliveries : NoneInvented(y, e, posts[e])
    <3>1. ASSUME NEW e \in Deliveries, Held(y, e) PROVE y.rows[e].attempts + 0 <= posts[e] /\ ~Posted(y, e)
      <4>1. e # d /\ Held(worker[w], e) /\ y.rows[e] = worker[w].rows[e]
        BY <2>10, <3>1 DEF Held
      <4>2. ~Posted(worker[w], e) /\ NoneInvented(worker[w], e, posts[e])
        BY <2>1, <4>1 DEF AttemptsWerePosts, Posted
      <4>. QED
        BY <2>10, <4>1, <4>2 DEF NoneInvented, Posted
    <3>. QED
      BY <3>1 DEF NoneInvented
  <2>. QED
    BY <2>3, <2>7, <2>8, <2>11, <2>12 DEF AttemptsWerePosts
<1>. QED
  BY <1>4, <1>5, <1>6, <1>7, <1>8 DEF WorkerStep

LEMMA StepAttempts == IInv /\ AttemptsWerePosts /\ [Next]_vars => AttemptsWerePosts'
<1>. SUFFICES ASSUME IInv, AttemptsWerePosts, [Next]_vars PROVE AttemptsWerePosts'
  OBVIOUS
<1>1. CASE UNCHANGED vars
  BY <1>1 DEF AttemptsWerePosts, vars
<1>2. ASSUME UNCHANGED <<worker, posts>>,
             \A e \in Deliveries : delivery'[e] \in {None, delivery[e]},
             \A e \in Deliveries : sender'[e].phase = "record" => sender[e].phase = "record"
      PROVE  AttemptsWerePosts'
  BY <1>2 DEF AttemptsWerePosts
<1>3. ASSUME NEW e \in Endpoints, RegisterWebhook(e) \/ UpdateWebhook(e) \/ DeleteWebhook(e)
      PROVE  AttemptsWerePosts'
  <2>1. /\ UNCHANGED <<worker, posts, sender>>
        /\ \A d \in Deliveries : delivery'[d] \in {None, delivery[d]}
    BY <1>3 DEF RegisterWebhook, UpdateWebhook, DeleteWebhook, history
  <2>. QED
    BY <1>2, <2>1
<1>4. ASSUME NEW d \in Deliveries,
             (\E e \in Endpoints : DispatchEvent(d, e)) \/ FailSender(d) \/ BackoffPasses(d)
      PROVE  AttemptsWerePosts'
  <2>1. sender \in [Deliveries -> Sender]
    BY Parts DEF Types
  <2>2. UNCHANGED <<worker, posts, delivery>>
    BY <1>4 DEF DispatchEvent, FailSender, BackoffPasses, history
  <2>3. \A e \in Deliveries : sender'[e].phase = "record" => sender[e].phase = "record"
    BY <1>4, <2>1 DEF DispatchEvent, FailSender, BackoffPasses, Sender
  <2>. QED
    BY <1>2, <2>2, <2>3
<1>5. CASE Next
  BY <1>3, <1>4, <1>5, SenderInventsNone, WorkerInventsNone DEF Next
<1>. QED
  BY <1>1, <1>5

\* A delivery is given up only after MaxRetries posts: for any number of workers
\* whose runs overlap, stop, or write back rows that are stale (recordFailure in
\* webhook.entity, retry-failed-deliveries).
THEOREM NoneGivenUpEarly == Spec => []GivenUpInFull
<1>1. IInv /\ AttemptsWerePosts => GivenUpInFull
  BY Parts DEF Types, RowsFit, RowFits, AttemptsWerePosts, GivenUpInFull, Has
<1>2. Spec => []AttemptsWerePosts
  BY InitAttempts, StepAttempts, Invariant, PTL DEF Spec
<1>. QED
  BY <1>1, <1>2, Invariant, PTL
=============================================================================
