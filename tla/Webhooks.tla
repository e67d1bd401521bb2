------------------------------ MODULE Webhooks ------------------------------
(***************************************************************************)
(* Webhook endpoints and the delivery of events to them.                   *)
(*   src/src/application/use-cases/webhook/*.use-case.ts                   *)
(*   src/src/domain/entities/webhook.entity.ts                             *)
(*   src/src/infrastructure/webhook/webhook-dispatcher.ts                  *)
(*   src/src/infrastructure/database/repositories/prisma-webhook*          *)
(*                                                                         *)
(* An event starts one sender for each subscribed endpoint; senders do not *)
(* wait for one another, so each is a process, named by the delivery it    *)
(* makes.  A worker is a process that executes RetryFailedDeliveries, any  *)
(* number of times or never: the container builds that use case            *)
(* (container.ts:233) and nothing in the repository calls it, so the       *)
(* worker's steps say what it does for whoever may come to execute it, and *)
(* nothing here says that a failed delivery is ever posted again.          *)
(***************************************************************************)
EXTENDS FiniteSets, Naturals

CONSTANTS Endpoints, Deliveries,
          Workers,      \* processes that may execute RetryFailedDeliveries
          MaxRetries,   \* posts after which a delivery is given up; 5 in the code
          BatchSize,    \* rows a run reads; 100 in the code
          MaxFailures,  \* bound: how often a worker is interrupted
          None

Row == [endpoint : Endpoints, attempts : 0 .. MaxRetries,
        status : {"PENDING", "SUCCESS", "FAILED", "EXHAUSTED"}]

ASSUME RetryAssumption ==
    /\ MaxRetries \in Nat \ {0}
    /\ BatchSize \in Nat \ {0}
    /\ MaxFailures \in Nat
    /\ None \notin Endpoints \cup Deliveries \cup Row

VARIABLES
    endpoint,    \* [Endpoints -> Endpoint]
    delivery,    \* [Deliveries -> None or a delivery row]
    due,         \* the FAILED rows whose nextRetry has come
    before,      \* and their order: pairs, the one with the earlier nextRetry first
    sender,      \* [Deliveries -> the local variables of DispatchEvent]
    worker,      \* [Workers -> the local variables of RetryFailedDeliveries]
    failures,    \* how often a worker was interrupted
    posts,       \* history: how often a delivery was posted, up to MaxRetries + 1
    received,    \* history: the deliveries an endpoint has answered with 2xx
    unrecorded,  \* history: the deliveries with a post that no row records
    overlapped   \* history: those two runs had read at the same time

queue == <<due, before>>
vars == <<endpoint, delivery, queue, sender, worker, failures,
          posts, received, unrecorded, overlapped>>
history == <<posts, received, unrecorded, overlapped>>

\* new: not registered yet.
Endpoint == {"new", "active", "inactive", "deleted"}

Sender == [phase : {"none", "create", "post", "record", "done"},
           endpoint : Endpoints \cup {None}, ok : BOOLEAN]

\* rows: the rows read, as far as they are not dealt with; current: the
\* delivery being posted.
Worker == [phase : {"idle", "next", "post", "record"},
           rows : [Deliveries -> {None} \cup Row],
           current : Deliveries \cup {None}, ok : BOOLEAN]

Nothing == [d \in Deliveries |-> None]

IdleWorker == [phase |-> "idle", rows |-> Nothing, current |-> None, ok |-> FALSE]

\* The rows of S have no nextRetry that has come, whatever they had.
NotDue(S) ==
    /\ due' = due \ S
    /\ before' = {p \in before : p[1] \notin S /\ p[2] \notin S}

-----------------------------------------------------------------------------
Init ==
    /\ endpoint = [e \in Endpoints |-> "new"]
    /\ delivery = Nothing
    /\ due = {}
    /\ before = {}
    /\ sender = [d \in Deliveries |-> [phase |-> "none", endpoint |-> None, ok |-> FALSE]]
    /\ worker = [w \in Workers |-> IdleWorker]
    /\ failures = 0
    /\ posts = [d \in Deliveries |-> 0]
    /\ received = {}
    /\ unrecorded = {}
    /\ overlapped = {}

-----------------------------------------------------------------------------
(* Administration of endpoints.                                            *)
RegisterWebhook(e) ==
    /\ endpoint[e] = "new"
    /\ endpoint' = [endpoint EXCEPT ![e] = "active"]
    /\ UNCHANGED <<delivery, queue, sender, worker, failures, history>>

UpdateWebhook(e) ==
    /\ endpoint[e] \in {"active", "inactive"}
    /\ endpoint' = [endpoint EXCEPT ![e] = IF @ = "active" THEN "inactive" ELSE "active"]
    /\ UNCHANGED <<delivery, queue, sender, worker, failures, history>>

\* Its deliveries are deleted with it (ON DELETE CASCADE).
DeleteWebhook(e) ==
    /\ endpoint[e] \in {"active", "inactive"}
    /\ endpoint' = [endpoint EXCEPT ![e] = "deleted"]
    /\ delivery' = [d \in Deliveries |->
           IF delivery[d] # None /\ delivery[d].endpoint = e THEN None ELSE delivery[d]]
    /\ NotDue({d \in due : delivery[d].endpoint = e})
    /\ UNCHANGED <<sender, worker, failures, history>>

-----------------------------------------------------------------------------
(* What a post changes in the row that was read.                           *)
RecordSuccess(row) == [row EXCEPT !.status = "SUCCESS", !.attempts = @ + 1]

\* Mutant: one attempt too many.
RecordFailureLate(row) ==
    IF row.attempts >= MaxRetries
    THEN [row EXCEPT !.status = "EXHAUSTED", !.attempts = @ + 1]
    ELSE [row EXCEPT !.status = "FAILED", !.attempts = @ + 1]

\* Mutant: the attempt is not counted.
RecordFailureUncounted(row) == [row EXCEPT !.status = "FAILED"]

\* The last attempt exhausts the delivery, any other is to be repeated once
\* nextRetry has come.
RecordFailure(row) ==
    IF row.attempts + 1 >= MaxRetries
    THEN [row EXCEPT !.status = "EXHAUSTED", !.attempts = @ + 1]
    ELSE [row EXCEPT !.status = "FAILED", !.attempts = @ + 1]

Record(row, ok) == IF ok THEN RecordSuccess(row) ELSE RecordFailure(row)

\* The endpoint is posted to.  It may have answered 2xx though the sender
\* timed out before the answer.
Post(d, ok) ==
    /\ posts' = [posts EXCEPT ![d] = IF @ > MaxRetries THEN @ ELSE @ + 1]
    /\ \E answered \in {TRUE, ok} :
          received' = IF answered THEN received \cup {d} ELSE received

\* UPDATE of the row by its id, which throws where the row has gone.  Its
\* nextRetry is empty or yet to come.
Written(d, row) ==
    /\ delivery' = [delivery EXCEPT ![d] = IF @ = None THEN None ELSE row]
    /\ NotDue({d})

-----------------------------------------------------------------------------
(* DispatchEvent.                                                          *)
DispatchEvent(d, e) ==
    /\ sender[d].phase = "none"
    /\ endpoint[e] = "active"
    /\ sender' = [sender EXCEPT ![d].phase = "create", ![d].endpoint = e]
    /\ UNCHANGED <<endpoint, delivery, queue, worker, failures, history>>

NewRow(e) == [endpoint |-> e, attempts |-> 0, status |-> "PENDING"]

CreateDelivery(d) ==
    /\ sender[d].phase = "create"
    /\ IF endpoint[sender[d].endpoint] = "deleted"
       THEN UNCHANGED delivery /\ sender' = [sender EXCEPT ![d].phase = "done"]
       ELSE /\ delivery' = [delivery EXCEPT ![d] = NewRow(sender[d].endpoint)]
            /\ sender' = [sender EXCEPT ![d].phase = "post"]
    /\ UNCHANGED <<endpoint, queue, worker, failures, history>>

PostDelivery(d) ==
    /\ sender[d].phase = "post"
    /\ \E ok \in BOOLEAN :
          /\ Post(d, ok)
          /\ sender' = [sender EXCEPT ![d].phase = "record", ![d].ok = ok]
    /\ UNCHANGED <<endpoint, delivery, queue, worker, failures, unrecorded, overlapped>>

RecordDelivery(d) ==
    /\ sender[d].phase = "record"
    /\ Written(d, Record(NewRow(sender[d].endpoint), sender[d].ok))
    /\ sender' = [sender EXCEPT ![d].phase = "done"]
    /\ UNCHANGED <<endpoint, worker, failures, history>>

\* A database error or a crash ends the sender where it is.
FailSender(d) ==
    /\ sender[d].phase \in {"create", "post", "record"}
    /\ sender' = [sender EXCEPT ![d].phase = "done"]
    /\ unrecorded' = IF sender[d].phase = "record" THEN unrecorded \cup {d} ELSE unrecorded
    /\ UNCHANGED <<endpoint, delivery, queue, worker, failures, posts, received, overlapped>>

-----------------------------------------------------------------------------
(* RetryFailedDeliveries.                                                  *)

\* Mutant: the status is not looked at.
AnyDelivery == {d \in Deliveries : delivery[d] # None /\ delivery[d].status # "PENDING"}

\* The rows a run reads: FAILED, with nextRetry in the past, the earliest
\* BatchSize of them.
PendingRetries ==
    {d \in due : Cardinality({earlier \in due : <<earlier, d>> \in before}) < BatchSize}

Batch(w) == {d \in Deliveries : worker[w].rows[d] # None}

\* Nothing keeps a run from reading what another is about to post.
StartRun(w) ==
    /\ worker[w].phase = "idle"
    /\ PendingRetries # {}
    /\ worker' = [worker EXCEPT ![w] =
           [IdleWorker EXCEPT !.phase = "next",
               !.rows = [d \in Deliveries |-> IF d \in PendingRetries THEN delivery[d] ELSE None]]]
    /\ overlapped' = overlapped \cup
           (PendingRetries \cap UNION {Batch(v) : v \in Workers \ {w}})
    /\ UNCHANGED <<endpoint, delivery, queue, sender, failures, posts, received, unrecorded>>

Dropped(w, d) == [worker[w] EXCEPT !.phase = "next", !.rows = [@ EXCEPT ![d] = None],
                                   !.current = None, !.ok = FALSE]

\* Mutant: an endpoint that is switched off costs an attempt.
NextDeliveryCharged(w) ==
    /\ worker[w].phase = "next"
    /\ \E d \in Batch(w) :
          worker' = [worker EXCEPT ![w] =
              IF endpoint[worker[w].rows[d].endpoint] = "active"
              THEN [@ EXCEPT !.phase = "post", !.current = d]
              ELSE [@ EXCEPT !.phase = "record", !.current = d]]
    /\ UNCHANGED <<endpoint, delivery, queue, sender, failures, history>>

\* The next delivery of the run; one whose endpoint is inactive or gone is
\* passed over and stays as it is.
NextDelivery(w) ==
    /\ worker[w].phase = "next"
    /\ \E d \in Batch(w) :
          worker' = [worker EXCEPT ![w] =
              IF endpoint[worker[w].rows[d].endpoint] = "active"
              THEN [@ EXCEPT !.phase = "post", !.current = d]
              ELSE Dropped(w, d)]
    /\ UNCHANGED <<endpoint, delivery, queue, sender, failures, history>>

PostRetry(w) ==
    /\ worker[w].phase = "post"
    /\ \E ok \in BOOLEAN :
          /\ Post(worker[w].current, ok)
          /\ worker' = [worker EXCEPT ![w].phase = "record", ![w].ok = ok]
    /\ UNCHANGED <<endpoint, delivery, queue, sender, failures, unrecorded, overlapped>>

\* Where the row has gone, the error ends the whole run.
RecordRetry(w) ==
    /\ worker[w].phase = "record"
    /\ LET d == worker[w].current IN
          /\ Written(d, Record(worker[w].rows[d], worker[w].ok))
          /\ worker' = [worker EXCEPT ![w] =
                 IF delivery[d] = None THEN IdleWorker ELSE Dropped(w, d)]
    /\ UNCHANGED <<endpoint, sender, failures, history>>

EndRun(w) ==
    /\ worker[w].phase = "next"
    /\ Batch(w) = {}
    /\ worker' = [worker EXCEPT ![w] = IdleWorker]
    /\ UNCHANGED <<endpoint, delivery, queue, sender, failures, history>>

FailWorker(w) ==
    /\ worker[w].phase # "idle"
    /\ failures < MaxFailures
    /\ failures' = failures + 1
    /\ worker' = [worker EXCEPT ![w] = IdleWorker]
    /\ unrecorded' = IF worker[w].phase = "record"
                     THEN unrecorded \cup {worker[w].current} ELSE unrecorded
    /\ UNCHANGED <<endpoint, delivery, queue, sender, posts, received, overlapped>>

Failed(d) == delivery[d] # None /\ delivery[d].status = "FAILED"

ComesDue(d) ==
    /\ due' = due \cup {d}
    /\ before' = before \cup (due \X {d})

\* nextRetry comes: the last entry of the schedule serves every attempt from
\* there on.
BackoffPasses(d) ==
    /\ Failed(d)
    /\ d \notin due
    /\ ComesDue(d)
    /\ UNCHANGED <<endpoint, delivery, sender, worker, failures, history>>

\* A run of RetryFailedDeliveries.
WorkerStep(w) ==
    StartRun(w) \/ NextDelivery(w) \/ PostRetry(w) \/ RecordRetry(w) \/ EndRun(w)

Next ==
    \/ \E e \in Endpoints : RegisterWebhook(e) \/ UpdateWebhook(e) \/ DeleteWebhook(e)
    \/ \E d \in Deliveries :
          \/ \E e \in Endpoints : DispatchEvent(d, e)
          \/ CreateDelivery(d) \/ PostDelivery(d) \/ RecordDelivery(d) \/ FailSender(d)
          \/ BackoffPasses(d)
    \/ \E w \in Workers : WorkerStep(w) \/ FailWorker(w)

Spec == Init /\ [][Next]_vars

-----------------------------------------------------------------------------
Has(d, statuses) == delivery[d] # None /\ delivery[d].status \in statuses

\* Rows are well formed, and a row's status says what its attempts say: one
\* that is to be repeated has attempts left, an exhausted one has none.
TypeOK ==
    /\ endpoint \in [Endpoints -> Endpoint]
    /\ delivery \in [Deliveries -> {None} \cup Row]
    /\ sender \in [Deliveries -> Sender]
    /\ worker \in [Workers -> Worker]
    /\ failures \in 0 .. MaxFailures
    /\ posts \in [Deliveries -> 0 .. MaxRetries + 1]
    /\ received \subseteq Deliveries
    /\ unrecorded \subseteq Deliveries
    /\ overlapped \subseteq Deliveries
    /\ due \subseteq {d \in Deliveries : Failed(d)}
    /\ before \subseteq due \X due
    /\ \A d, e \in due : d # e => (<<d, e>> \in before <=> <<e, d>> \notin before)
    /\ \A d \in Deliveries :
          /\ Has(d, {"FAILED"}) => delivery[d].attempts \in 1 .. MaxRetries - 1
          /\ Has(d, {"EXHAUSTED"}) => delivery[d].attempts = MaxRetries

\* An endpoint gets an event at most MaxRetries times, first post and retries
\* by whichever process counted together, as long as every post was recorded
\* and no two runs held the row together (webhook.entity 158-172).
PostsBounded ==
    \A d \in Deliveries \ (unrecorded \cup overlapped) : posts[d] <= MaxRetries

\* A delivery is given up only after its endpoint was posted to MaxRetries times,
\* whichever runs overlapped, stopped or wrote back rows that were stale: two
\* runs may lose an attempt between them, and none counts what was not posted.
\* (webhook.entity 158-172, retry-failed-deliveries 20-39)
GivenUpInFull ==
    \A d \in Deliveries : Has(d, {"EXHAUSTED"}) => posts[d] >= MaxRetries

\* SUCCESS is only ever written of what the endpoint has answered with 2xx, and
\* what was delivered or given up stays so: a run that read the row before the
\* last post takes nothing back, unless it overlapped another run.
\* (webhook-dispatcher 38-49, retry-failed-deliveries 14-39)
OutcomeStands ==
    [][\A d \in Deliveries :
          /\ Has(d, {"SUCCESS"})' => d \in received'
          /\ d \notin overlapped /\ Has(d, {"SUCCESS", "EXHAUSTED"})
                => delivery'[d] \in {None, delivery[d]}]_vars
=============================================================================
