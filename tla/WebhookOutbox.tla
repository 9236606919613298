--------------------------- MODULE WebhookOutbox ---------------------------
(***************************************************************************)
(* The webhook outbox of services/webhook_service.py: deliveries queued in *)
(* the transaction of the audit event they report, and the threads that    *)
(* send them (the polling worker and the /process route in batches, the    *)
(* /send route one at a time).                                             *)
(*                                                                         *)
(* A batch keeps the rows it selected in its session (copy); deliver tests *)
(* that copy and then claims with an UPDATE that tests the row.  The final *)
(* write of an attempt, and a cancellation, go by id without a test.       *)
(***************************************************************************)
EXTENDS Naturals, FiniteSets

CONSTANTS
  Deliveries,   \* ids of the rows that can be inserted (bounds the inserts)
  Endpoints,
  Switchable,   \* the endpoints an administrator may disable and enable
  Pollers,      \* threads that run process_pending
  Senders,      \* request threads that post /send
  Mortal,       \* threads that may die, or see an error deliver does not catch
  Slow,         \* threads whose request may outlast the stale limit
  Corrupt,      \* rows whose stored payload no longer matches its hash
  MaxAttempts,  \* max_attempts of every row
  AttemptCap,   \* attempt_count is not counted any further than this
  NoDelivery, NoEndpoint

Threads == Pollers \cup Senders

ASSUME OutboxAssumption ==
  /\ MaxAttempts \in Nat \ {0}
  /\ AttemptCap \in Nat /\ AttemptCap >= MaxAttempts
  /\ Switchable \subseteq Endpoints
  /\ Mortal \subseteq Threads /\ Slow \subseteq Threads
  /\ Corrupt \subseteq Deliveries
  /\ NoDelivery \notin Deliveries
  /\ NoEndpoint \notin Endpoints

VARIABLES
  live,       \* webhook_endpoints.status = "active"
  status,     \* webhook_deliveries.status; "absent" before the insert
  dest,       \* endpoint_id
  attempts,   \* attempt_count
  due,        \* next_attempt_at has passed
  recent,     \* last_attempt_at is not older than the stale limit
  delivered,  \* delivered_at is set
  got,        \* the receiver has accepted the payload
  phase,      \* where each thread is in process_pending or deliver
  on,         \* the delivery it has claimed
  tried,      \* attempt_count as refreshed after its claim
  copy        \* its session's copy of each row of its batch

rows == <<status, dest, attempts, due, recent, delivered>>
threads == <<phase, on, tried, copy>>
vars == <<live, rows, got, threads>>

-----------------------------------------------------------------------------
Statuses == {"absent", "queued", "delivering", "succeeded", "failed", "dead_letter", "cancelled"}
Waiting == {"queued", "failed"}
Open == {"queued", "failed", "delivering"}
Phases == {"idle", "selecting", "batch", "sending", "acked", "nacked"}
Copies == Statuses \cup {"out", "expired"}  \* "out": not in the batch

\* Between the claim of a delivery and the write of its outcome.
Sending(w, d) == on[w] = d /\ phase[w] \in {"sending", "acked", "nacked"}

Absent == {d \in Deliveries : status[d] = "absent"}

\* Mutant of Pending: failed deliveries are not selected again.
PendingWhenQueued(d) == status[d] = "queued" /\ due[d]

Pending(d) == status[d] \in Waiting /\ due[d]

\* Mutant of Stale: it does not look at last_attempt_at.
StaleWhenDelivering(d) == status[d] = "delivering"

Stale(d) == status[d] = "delivering" /\ ~recent[d]

\* The status deliver sees: the session's copy, or the row if that expired.
Believed(w, d) == IF copy[w][d] = "expired" THEN status[d] ELSE copy[w][d]

Counted(n) == IF n < AttemptCap THEN n + 1 ELSE n

EmptyBatch == [d \in Deliveries |-> "out"]

Init ==
  /\ live = [n \in Endpoints |-> TRUE]
  /\ status = [d \in Deliveries |-> "absent"]
  /\ dest = [d \in Deliveries |-> NoEndpoint]
  /\ attempts = [d \in Deliveries |-> 0]
  /\ due = [d \in Deliveries |-> FALSE]
  /\ recent = [d \in Deliveries |-> FALSE]
  /\ delivered = [d \in Deliveries |-> FALSE]
  /\ got = [d \in Deliveries |-> FALSE]
  /\ phase = [w \in Threads |-> "idle"]
  /\ on = [w \in Threads |-> NoDelivery]
  /\ tried = [w \in Threads |-> 0]
  /\ copy = [w \in Threads |-> EmptyBatch]

-----------------------------------------------------------------------------
(* Inserts.                                                                *)

\* One new row for each endpoint of T, in the caller's transaction.
Queue(T) ==
  \E R \in SUBSET Absent : \E to \in [R -> T] :
    /\ Cardinality(R) = Cardinality(T)
    /\ \A n \in T : \E d \in R : to[d] = n
    /\ status' = [d \in Deliveries |-> IF d \in R THEN "queued" ELSE status[d]]
    /\ dest' = [d \in Deliveries |-> IF d \in R THEN to[d] ELSE dest[d]]
    /\ due' = [d \in Deliveries |-> due[d] \/ d \in R]
    /\ UNCHANGED <<attempts, recent, delivered, got, threads>>

\* queue_for_audit_event: the active endpoints that match the event's type.
Publish(matching) ==
  /\ UNCHANGED live
  /\ Queue({n \in matching : live[n]})

\* update_endpoint: the change is itself an audited event.
Switch(n, matching) ==
  /\ n \in Switchable
  /\ live' = [live EXCEPT ![n] = ~@]
  /\ Queue({m \in matching : live'[m]})

\* queue_test_delivery
QueueTest(n) ==
  /\ live[n]
  /\ UNCHANGED live
  /\ Queue({n})

\* replay_dead_letter: a new row; the original is left as it is.
Replay(d) ==
  /\ status[d] = "dead_letter" /\ live[dest[d]] /\ d \notin Corrupt
  /\ UNCHANGED live
  /\ Queue({dest[d]})

-----------------------------------------------------------------------------
(* process_pending: recover, select, then deliver row by row.  The limit   *)
(* of a batch is above the number of rows here.                            *)

RecoverStale(w) ==
  /\ w \in Pollers /\ phase[w] = "idle"
  /\ status' = [d \in Deliveries |-> IF Stale(d) THEN "failed" ELSE status[d]]
  /\ due' = [d \in Deliveries |-> due[d] \/ Stale(d)]
  /\ phase' = [phase EXCEPT ![w] = "selecting"]
  /\ UNCHANGED <<live, dest, attempts, recent, delivered, got, on, tried, copy>>

SelectPending(w) ==
  /\ phase[w] = "selecting"
  /\ copy' = [copy EXCEPT ![w] = [d \in Deliveries |-> IF Pending(d) THEN status[d] ELSE "out"]]
  /\ phase' = [phase EXCEPT ![w] = "batch"]
  /\ UNCHANGED <<live, rows, got, on, tried>>

\* The /send route: deliver(force=True) on one row, due or not.
Send(w, d) ==
  /\ w \in Senders /\ phase[w] = "idle" /\ status[d] # "absent"
  /\ copy' = [copy EXCEPT ![w][d] = status[d]]
  /\ phase' = [phase EXCEPT ![w] = "batch"]
  /\ UNCHANGED <<live, rows, got, on, tried>>

EndBatch(w) ==
  /\ phase[w] = "batch" /\ copy[w] = EmptyBatch
  /\ phase' = [phase EXCEPT ![w] = "idle"]
  /\ UNCHANGED <<live, rows, got, on, tried, copy>>

-----------------------------------------------------------------------------
(* deliver                                                                 *)

InBatch(w, d) == phase[w] = "batch" /\ copy[w][d] # "out"

\* WebhookConflict: settled, or somebody else's.
Skip(w, d) ==
  /\ InBatch(w, d) /\ Believed(w, d) \notin Waiting
  /\ copy' = [copy EXCEPT ![w][d] = "out"]
  /\ UNCHANGED <<live, rows, got, phase, on, tried>>

\* The endpoint is disabled: written without looking at the row again.
Cancel(w, d) ==
  /\ InBatch(w, d) /\ Believed(w, d) \in Waiting /\ ~live[dest[d]]
  /\ status' = [status EXCEPT ![d] = "cancelled"]
  /\ due' = [due EXCEPT ![d] = FALSE]
  /\ copy' = [copy EXCEPT ![w][d] = "out"]
  /\ UNCHANGED <<live, dest, attempts, recent, delivered, got, phase, on, tried>>

\* Mutant of Claim: the row is not tested, only the copy.
ClaimBelieving(w, d) ==
  /\ InBatch(w, d) /\ Believed(w, d) \in Waiting /\ live[dest[d]]
  /\ status' = [status EXCEPT ![d] = "delivering"]
  /\ attempts' = [attempts EXCEPT ![d] = Counted(@)]
  /\ recent' = [recent EXCEPT ![d] = TRUE]
  /\ phase' = [phase EXCEPT ![w] = "sending"]
  /\ on' = [on EXCEPT ![w] = d]
  /\ tried' = [tried EXCEPT ![w] = attempts'[d]]
  /\ copy' = [copy EXCEPT ![w][d] = "out"]
  /\ UNCHANGED <<live, dest, due, delivered, got>>

Claim(w, d) ==
  /\ InBatch(w, d) /\ Believed(w, d) \in Waiting /\ live[dest[d]]
  /\ status[d] \in Waiting
  /\ status' = [status EXCEPT ![d] = "delivering"]
  /\ attempts' = [attempts EXCEPT ![d] = Counted(@)]
  /\ recent' = [recent EXCEPT ![d] = TRUE]
  /\ phase' = [phase EXCEPT ![w] = "sending"]
  /\ on' = [on EXCEPT ![w] = d]
  /\ tried' = [tried EXCEPT ![w] = attempts'[d]]
  /\ copy' = [copy EXCEPT ![w][d] = "out"]
  /\ UNCHANGED <<live, dest, due, delivered, got>>

\* The claim matched no row: the rollback expires the rest of the batch.
LoseClaim(w, d) ==
  /\ InBatch(w, d) /\ Believed(w, d) \in Waiting /\ live[dest[d]]
  /\ status[d] \notin Waiting
  /\ copy' = [copy EXCEPT ![w] =
                [e \in Deliveries |-> IF e = d \/ @[e] = "out" THEN "out" ELSE "expired"]]
  /\ UNCHANGED <<live, rows, got, phase, on, tried>>

\* A 2xx answer.
Accept(w) ==
  /\ phase[w] = "sending" /\ on[w] \notin Corrupt
  /\ got' = [got EXCEPT ![on[w]] = TRUE]
  /\ phase' = [phase EXCEPT ![w] = "acked"]
  /\ UNCHANGED <<live, rows, on, tried, copy>>

\* Another answer, no answer, or no request at all: the receiver may have it.
Reject(w) ==
  /\ phase[w] = "sending" /\ on[w] \notin Corrupt
  /\ \/ got' = [got EXCEPT ![on[w]] = TRUE]
     \/ UNCHANGED got
  /\ phase' = [phase EXCEPT ![w] = "nacked"]
  /\ UNCHANGED <<live, rows, on, tried, copy>>

\* The thread goes on with its batch.
Proceed(w) ==
  /\ phase' = [phase EXCEPT ![w] = "batch"]
  /\ on' = [on EXCEPT ![w] = NoDelivery]
  /\ tried' = [tried EXCEPT ![w] = 0]
  /\ UNCHANGED <<live, dest, attempts, recent, got, copy>>

RecordSuccess(w) ==
  /\ phase[w] = "acked"
  /\ status' = [status EXCEPT ![on[w]] = "succeeded"]
  /\ delivered' = [delivered EXCEPT ![on[w]] = TRUE]
  /\ due' = [due EXCEPT ![on[w]] = FALSE]
  /\ Proceed(w)

\* Mutant of Exhausted: the last attempt is given away.
ExhaustedEarly(w) == on[w] \in Corrupt \/ tried[w] >= MaxAttempts - 1

\* _mark_failed, permanent for a corrupt payload, which is never sent.
Exhausted(w) == on[w] \in Corrupt \/ tried[w] >= MaxAttempts

RecordFailure(w) ==
  /\ phase[w] = "nacked" \/ (phase[w] = "sending" /\ on[w] \in Corrupt)
  /\ status' = [status EXCEPT ![on[w]] = IF Exhausted(w) THEN "dead_letter" ELSE "failed"]
  /\ due' = [due EXCEPT ![on[w]] = FALSE]
  /\ UNCHANGED delivered
  /\ Proceed(w)

-----------------------------------------------------------------------------
(* The process and the clock.                                              *)

Crash(w) ==
  /\ w \in Mortal /\ phase[w] # "idle"
  /\ phase' = [phase EXCEPT ![w] = "idle"]
  /\ on' = [on EXCEPT ![w] = NoDelivery]
  /\ tried' = [tried EXCEPT ![w] = 0]
  /\ copy' = [copy EXCEPT ![w] = EmptyBatch]
  /\ UNCHANGED <<live, rows, got>>

\* The attempt grows older than the stale limit; only a Slow thread is
\* still at it by then.
GrowStale(d) ==
  /\ status[d] = "delivering" /\ recent[d]
  /\ \A w \in Threads : Sending(w, d) => w \in Slow
  /\ recent' = [recent EXCEPT ![d] = FALSE]
  /\ UNCHANGED <<live, status, dest, attempts, due, delivered, got, threads>>

BecomeDue(d) ==
  /\ status[d] = "failed" /\ ~due[d]
  /\ due' = [due EXCEPT ![d] = TRUE]
  /\ UNCHANGED <<live, status, dest, attempts, recent, delivered, got, threads>>

-----------------------------------------------------------------------------
Deliver(w, d) == Skip(w, d) \/ Cancel(w, d) \/ Claim(w, d) \/ LoseClaim(w, d)
Finish(w) == RecordSuccess(w) \/ RecordFailure(w)

Next ==
  \/ \E E \in SUBSET Endpoints : Publish(E) \/ \E n \in Endpoints : Switch(n, E)
  \/ \E n \in Endpoints : QueueTest(n)
  \/ \E d \in Deliveries : Replay(d) \/ GrowStale(d) \/ BecomeDue(d)
  \/ \E w \in Threads :
       \/ RecoverStale(w) \/ SelectPending(w) \/ EndBatch(w)
       \/ \E d \in Deliveries : Send(w, d) \/ Deliver(w, d)
       \/ Accept(w) \/ Reject(w) \/ Finish(w) \/ Crash(w)

Spec == Init /\ [][Next]_vars

\* The worker loops for ever, every request ends (httpx has timeouts), time
\* passes.  Nothing is assumed of administrators, of the receiver's answers or
\* of crashes.  A poller finds a given row to claim only now and then: strong
\* fairness for its claims.
Fairness ==
  /\ \A w \in Threads :
       /\ WF_vars(SelectPending(w)) /\ WF_vars(EndBatch(w))
       /\ WF_vars(Accept(w) \/ Reject(w)) /\ WF_vars(Finish(w))
  /\ \A w \in Threads, d \in Deliveries : WF_vars(Skip(w, d) \/ Cancel(w, d) \/ LoseClaim(w, d))
  /\ \A w \in Pollers : WF_vars(RecoverStale(w))
  /\ \A w \in Pollers, d \in Deliveries : SF_vars(Claim(w, d))
  /\ \A d \in Deliveries : WF_vars(GrowStale(d)) /\ WF_vars(BecomeDue(d))

FairSpec == Spec /\ Fairness

-----------------------------------------------------------------------------
(* Properties.                                                             *)

\* Every variable keeps its type.
OutboxTypeOK ==
  /\ live \in [Endpoints -> BOOLEAN]
  /\ status \in [Deliveries -> Statuses]
  /\ dest \in [Deliveries -> Endpoints \cup {NoEndpoint}]
  /\ attempts \in [Deliveries -> 0..AttemptCap]
  /\ due \in [Deliveries -> BOOLEAN]
  /\ recent \in [Deliveries -> BOOLEAN]
  /\ delivered \in [Deliveries -> BOOLEAN]
  /\ got \in [Deliveries -> BOOLEAN]
  /\ phase \in [Threads -> Phases]
  /\ on \in [Threads -> Deliveries \cup {NoDelivery}]
  /\ tried \in [Threads -> 0..AttemptCap]
  /\ copy \in [Threads -> [Deliveries -> Copies]]

\* While requests end before the stale limit, no two threads send the same
\* delivery at the same time, whatever their sessions still believe.
ExclusiveSend ==
  \A d \in Deliveries : \A w1, w2 \in Threads :
    Sending(w1, d) /\ Sending(w2, d) => w1 = w2

\* "A successful webhook delivery cannot be sent again": one that has its
\* delivered_at is never claimed again.
NotSentAgain ==
  [][\A d \in Deliveries :
       (delivered[d] /\ status'[d] = "delivering") => status[d] = "delivering"]_vars

\* A dead letter used all its attempts, or its payload was found corrupt, even
\* when the attempts of several superseded threads are mixed up.
DeadLetterEarned ==
  \A d \in Deliveries :
    status[d] = "dead_letter" => attempts[d] >= MaxAttempts \/ d \in Corrupt

\* Every delivery ends: succeeded, dead-lettered or cancelled.
DeliverySettles == \A d \in Deliveries : status[d] \in Open ~> status[d] \notin Open

\* For endpoints that stay active the outbox implements ReliableOutbox.
FateOf(s) ==
  IF s = "absent" THEN "none"
  ELSE IF s \in Open THEN "pending"
  ELSE IF s = "succeeded" THEN "delivered" ELSE "dead"

Promise == INSTANCE ReliableOutbox WITH
  fate <- [d \in Deliveries |-> FateOf(status[d])],
  spent <- attempts

ImplementsReliableOutbox == Promise!Spec
=============================================================================
