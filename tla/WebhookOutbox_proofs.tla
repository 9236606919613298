------------------------ MODULE WebhookOutbox_proofs ------------------------
(***************************************************************************)
(* Proofs about WebhookOutbox, for any set of rows, endpoints and threads  *)
(* and any max_attempts.  Part 1 makes no assumption on time; part 2       *)
(* assumes that requests end before the stale limit (Slow = {}); part 3,   *)
(* also that endpoints stay active and payloads stay intact.               *)
(***************************************************************************)
EXTENDS WebhookOutbox, TLAPS

Busy(w) == phase[w] \in {"sending", "acked", "nacked"}

-----------------------------------------------------------------------------
(* Part 1: types, and the attempts behind every dead letter.               *)

\* A busy thread has a delivery, and read its attempt_count from the row.
TriedBound == \A w \in Threads : Busy(w) =>
  /\ on[w] \in Deliveries
  /\ tried[w] <= attempts[on[w]]

\* A batch holds rows that exist, and existing rows have an endpoint.
BatchExists == \A w \in Threads, d \in Deliveries :
  copy[w][d] # "out" => status[d] # "absent"
RowsHaveEndpoint == \A d \in Deliveries : status[d] # "absent" => dest[d] \in Endpoints
BusyExists == \A w \in Threads : Busy(w) => status[on[w]] # "absent"

EarnedInv == /\ OutboxTypeOK /\ TriedBound /\ DeadLetterEarned
             /\ BatchExists /\ RowsHaveEndpoint /\ BusyExists

LEMMA InitEarned == Init => EarnedInv
BY OutboxAssumption
   DEF Init, EarnedInv, OutboxTypeOK, TriedBound, DeadLetterEarned, Busy, BatchExists,
       RowsHaveEndpoint, BusyExists, Statuses, Phases, Copies, EmptyBatch

LEMMA QueueEarned ==
  ASSUME EarnedInv, NEW T \in SUBSET Endpoints, Queue(T), live' \in [Endpoints -> BOOLEAN]
  PROVE  EarnedInv'
<1> USE DEF EarnedInv
<1>1. PICK R \in SUBSET Absent : \E to \in [R -> T] :
        /\ status' = [d \in Deliveries |-> IF d \in R THEN "queued" ELSE status[d]]
        /\ dest' = [d \in Deliveries |-> IF d \in R THEN to[d] ELSE dest[d]]
        /\ due' = [d \in Deliveries |-> due[d] \/ d \in R]
        /\ UNCHANGED <<attempts, recent, delivered, got, threads>>
  BY Zenon DEF Queue
<1>2. PICK to \in [R -> T] :
        /\ status' = [d \in Deliveries |-> IF d \in R THEN "queued" ELSE status[d]]
        /\ dest' = [d \in Deliveries |-> IF d \in R THEN to[d] ELSE dest[d]]
        /\ due' = [d \in Deliveries |-> due[d] \/ d \in R]
        /\ UNCHANGED <<attempts, recent, delivered, got, threads>>
  BY <1>1
<1>3. \A d \in R : d \in Deliveries /\ to[d] \in Endpoints
  BY <1>2 DEF Absent
<1>4. OutboxTypeOK'
  BY <1>2, <1>3 DEF OutboxTypeOK, Statuses, threads
<1>5. TriedBound' /\ DeadLetterEarned'
  BY <1>2, <1>3 DEF TriedBound, DeadLetterEarned, Busy, OutboxTypeOK, threads
<1>6. BatchExists' /\ RowsHaveEndpoint' /\ BusyExists'
  BY <1>2, <1>3 DEF BatchExists, RowsHaveEndpoint, BusyExists, Busy, TriedBound, OutboxTypeOK, threads
<1>7. QED BY <1>4, <1>5, <1>6

LEMMA InsertEarned ==
  ASSUME EarnedInv,
         \/ \E E \in SUBSET Endpoints : Publish(E) \/ \E n \in Endpoints : Switch(n, E)
         \/ \E n \in Endpoints : QueueTest(n)
         \/ \E d \in Deliveries : Replay(d)
  PROVE  EarnedInv'
<1>1. live \in [Endpoints -> BOOLEAN]
  BY DEF EarnedInv, OutboxTypeOK
<1>2. ASSUME NEW E \in SUBSET Endpoints, Publish(E) PROVE EarnedInv'
  BY <1>1, <1>2, QueueEarned DEF Publish
<1>3. ASSUME NEW E \in SUBSET Endpoints, NEW n \in Endpoints, Switch(n, E) PROVE EarnedInv'
  <2>1. live' \in [Endpoints -> BOOLEAN]
    BY <1>1, <1>3 DEF Switch
  <2>2. QED BY <1>3, <2>1, QueueEarned DEF Switch
<1>4. ASSUME NEW n \in Endpoints, QueueTest(n) PROVE EarnedInv'
  BY <1>1, <1>4, QueueEarned DEF QueueTest
<1>5. ASSUME NEW d \in Deliveries, Replay(d) PROVE EarnedInv'
  <2>1. dest[d] \in Endpoints
    BY <1>5 DEF Replay, EarnedInv, RowsHaveEndpoint
  <2>2. QED BY <1>1, <1>5, <2>1, QueueEarned DEF Replay
<1>6. QED BY <1>2, <1>3, <1>4, <1>5

\* Steps of a batch that send nothing.
LEMMA BatchEarned ==
  ASSUME EarnedInv, NEW w \in Threads,
         \/ RecoverStale(w) \/ SelectPending(w) \/ EndBatch(w) \/ Crash(w)
         \/ \E d \in Deliveries : Send(w, d) \/ Skip(w, d) \/ Cancel(w, d) \/ LoseClaim(w, d)
  PROVE  EarnedInv'
<1> USE DEF EarnedInv, OutboxTypeOK, TriedBound, DeadLetterEarned, Busy, BatchExists,
            RowsHaveEndpoint, BusyExists, Statuses, Phases, Copies, rows, threads
<1>1. CASE RecoverStale(w) BY <1>1 DEF RecoverStale, Stale
<1>2. CASE SelectPending(w) BY <1>2 DEF SelectPending, Pending, Waiting
<1>3. CASE EndBatch(w) BY <1>3 DEF EndBatch
<1>4. CASE Crash(w) BY <1>4, OutboxAssumption DEF Crash, EmptyBatch
<1>5. ASSUME NEW d \in Deliveries, Send(w, d) PROVE EarnedInv' BY <1>5 DEF Send
<1>6. ASSUME NEW d \in Deliveries, Skip(w, d) PROVE EarnedInv' BY <1>6 DEF Skip, InBatch
<1>7. ASSUME NEW d \in Deliveries, Cancel(w, d) PROVE EarnedInv' BY <1>7 DEF Cancel, InBatch
<1>8. ASSUME NEW d \in Deliveries, LoseClaim(w, d) PROVE EarnedInv' BY <1>8 DEF LoseClaim, InBatch
<1>9. QED BY <1>1, <1>2, <1>3, <1>4, <1>5, <1>6, <1>7, <1>8

LEMMA ClaimEarned ==
  ASSUME EarnedInv, NEW w \in Threads, NEW d \in Deliveries, Claim(w, d)
  PROVE  EarnedInv'
<1> USE DEF EarnedInv
<1>1. /\ attempts[d] \in 0..AttemptCap /\ Counted(attempts[d]) \in 0..AttemptCap
      /\ Counted(attempts[d]) >= attempts[d]
  BY OutboxAssumption DEF OutboxTypeOK, Counted
<1>2. OutboxTypeOK'
  BY <1>1 DEF OutboxTypeOK, Claim, Statuses, Phases, Copies
<1>3. TriedBound'
  <2> SUFFICES ASSUME NEW v \in Threads, Busy(v)'
               PROVE on'[v] \in Deliveries /\ tried'[v] <= attempts'[on'[v]]
    BY DEF TriedBound
  <2>1. CASE v = w
    <3>1. on'[v] = d /\ tried'[v] = Counted(attempts[d]) /\ attempts'[d] = Counted(attempts[d])
      BY <2>1 DEF Claim, OutboxTypeOK
    <3>2. QED BY <1>1, <3>1
  <2>2. CASE v # w
    <3>1. Busy(v) /\ on'[v] = on[v] /\ tried'[v] = tried[v]
      BY <2>2 DEF Claim, OutboxTypeOK, Busy
    <3>2. on[v] \in Deliveries /\ tried[v] <= attempts[on[v]]
      BY <3>1 DEF TriedBound
    <3>3. tried[v] \in Nat /\ attempts[on[v]] \in Nat
      BY <3>2 DEF OutboxTypeOK
    <3>4. attempts'[on[v]] = IF on[v] = d THEN Counted(attempts[d]) ELSE attempts[on[v]]
      BY <3>2 DEF Claim, OutboxTypeOK
    <3>5. QED BY <1>1, <3>1, <3>2, <3>3, <3>4
  <2>3. QED BY <2>1, <2>2
<1>4. DeadLetterEarned'
  BY DEF DeadLetterEarned, Claim, OutboxTypeOK, Waiting
<1>5. BatchExists' /\ RowsHaveEndpoint' /\ BusyExists'
  BY DEF BatchExists, RowsHaveEndpoint, BusyExists, TriedBound, Busy, Claim, InBatch, OutboxTypeOK
<1>6. QED BY <1>2, <1>3, <1>4, <1>5

LEMMA AnswerEarned ==
  ASSUME EarnedInv, NEW w \in Threads, Accept(w) \/ Reject(w) \/ RecordSuccess(w)
  PROVE  EarnedInv'
<1> USE DEF EarnedInv, OutboxTypeOK, TriedBound, DeadLetterEarned, Busy, BatchExists,
            RowsHaveEndpoint, BusyExists, Statuses, Phases, rows
<1>1. CASE Accept(w) BY <1>1 DEF Accept
<1>2. CASE Reject(w) BY <1>2 DEF Reject
<1>3. CASE RecordSuccess(w) BY <1>3, OutboxAssumption DEF RecordSuccess, Proceed
<1>4. QED BY <1>1, <1>2, <1>3

LEMMA FailureEarned ==
  ASSUME EarnedInv, NEW w \in Threads, RecordFailure(w)
  PROVE  EarnedInv'
<1> USE DEF EarnedInv
<1>1. on[w] \in Deliveries /\ tried[w] <= attempts[on[w]] /\ status[on[w]] # "absent"
  BY DEF TriedBound, BusyExists, Busy, RecordFailure
<1>2. tried[w] \in Nat /\ attempts[on[w]] \in Nat /\ MaxAttempts \in Nat
  BY <1>1, OutboxAssumption DEF OutboxTypeOK
<1>3. Exhausted(w) => attempts[on[w]] >= MaxAttempts \/ on[w] \in Corrupt
  BY <1>1, <1>2 DEF Exhausted
<1>4. OutboxTypeOK'
  BY <1>1, OutboxAssumption DEF OutboxTypeOK, RecordFailure, Proceed, Statuses, Phases
<1>5. DeadLetterEarned'
  BY <1>1, <1>3 DEF DeadLetterEarned, RecordFailure, Proceed, OutboxTypeOK
<1>6. TriedBound' /\ BatchExists' /\ RowsHaveEndpoint' /\ BusyExists'
  BY <1>1 DEF TriedBound, BatchExists, RowsHaveEndpoint, BusyExists, Busy, RecordFailure, Proceed, OutboxTypeOK
<1>7. QED BY <1>4, <1>5, <1>6

LEMMA TimeEarned ==
  ASSUME EarnedInv, NEW d \in Deliveries, GrowStale(d) \/ BecomeDue(d)
  PROVE  EarnedInv'
BY DEF EarnedInv, OutboxTypeOK, TriedBound, DeadLetterEarned, Busy, BatchExists,
       RowsHaveEndpoint, BusyExists, threads, GrowStale, BecomeDue

LEMMA StepEarned == EarnedInv /\ [Next]_vars => EarnedInv'
<1> SUFFICES ASSUME EarnedInv, [Next]_vars PROVE EarnedInv'
  OBVIOUS
<1>1. CASE UNCHANGED vars
  BY <1>1 DEF vars, rows, threads, EarnedInv, OutboxTypeOK, TriedBound, DeadLetterEarned,
              Busy, BatchExists, RowsHaveEndpoint, BusyExists
<1>2. CASE \/ \E E \in SUBSET Endpoints : Publish(E) \/ \E n \in Endpoints : Switch(n, E)
           \/ \E n \in Endpoints : QueueTest(n)
           \/ \E d \in Deliveries : Replay(d)
  BY <1>2, InsertEarned
<1>3. ASSUME NEW d \in Deliveries, GrowStale(d) \/ BecomeDue(d) PROVE EarnedInv'
  BY <1>3, TimeEarned
<1>4. ASSUME NEW w \in Threads,
         \/ RecoverStale(w) \/ SelectPending(w) \/ EndBatch(w) \/ Crash(w)
         \/ \E d \in Deliveries : Send(w, d) \/ Skip(w, d) \/ Cancel(w, d) \/ LoseClaim(w, d)
      PROVE EarnedInv'
  BY <1>4, BatchEarned
<1>5. ASSUME NEW w \in Threads, NEW d \in Deliveries, Claim(w, d) PROVE EarnedInv'
  BY <1>5, ClaimEarned
<1>6. ASSUME NEW w \in Threads, Accept(w) \/ Reject(w) \/ RecordSuccess(w) PROVE EarnedInv'
  BY <1>6, AnswerEarned
<1>7. ASSUME NEW w \in Threads, RecordFailure(w) PROVE EarnedInv'
  BY <1>7, FailureEarned
<1>8. QED BY <1>1, <1>2, <1>3, <1>4, <1>5, <1>6, <1>7 DEF Next, Deliver, Finish

\* Types hold in every reachable state of the outbox, superseded senders included.
THEOREM OutboxTypeCorrect == Spec => []OutboxTypeOK
BY InitEarned, StepEarned, PTL DEF Spec, EarnedInv

\* _mark_failed dead-letters only what used its attempts, or is corrupt.
THEOREM DeadLettersAreEarned == Spec => []DeadLetterEarned
BY InitEarned, StepEarned, PTL DEF Spec, EarnedInv

-----------------------------------------------------------------------------
(* Part 2: requests end before the stale limit.                            *)

\* What a busy thread has is still its own, unless it was cancelled under it.
BusyHolds == \A w \in Threads : Busy(w) =>
  /\ status[on[w]] = "cancelled" \/ (status[on[w]] = "delivering" /\ recent[on[w]])
  /\ ~delivered[on[w]]

\* delivered_at belongs to settled rows.
DeliveredSettled == \A d \in Deliveries : delivered[d] => status[d] \in {"succeeded", "cancelled"}

OneBusy == \A v, w \in Threads : Busy(v) /\ Busy(w) /\ on[v] = on[w] => v = w

SendInv == EarnedInv /\ BusyHolds /\ DeliveredSettled /\ OneBusy

LEMMA InitSend == Init => SendInv
BY InitEarned DEF Init, SendInv, BusyHolds, DeliveredSettled, OneBusy, Busy

LEMMA QueueSend ==
  ASSUME SendInv, NEW T \in SUBSET Endpoints, Queue(T)
  PROVE  BusyHolds' /\ DeliveredSettled' /\ OneBusy'
<1>1. PICK R \in SUBSET Absent :
        /\ status' = [d \in Deliveries |-> IF d \in R THEN "queued" ELSE status[d]]
        /\ UNCHANGED <<attempts, recent, delivered, got, threads>>
  BY DEF Queue
<1>2. \A w \in Threads : Busy(w)' <=> Busy(w)
  BY <1>1 DEF Busy, threads
<1>3. \A w \in Threads : Busy(w) => on[w] \in Deliveries /\ on[w] \notin R
  BY DEF SendInv, EarnedInv, BusyExists, TriedBound, Absent
<1>4. \A d \in R : ~delivered[d]
  BY DEF SendInv, DeliveredSettled, Absent
<1>5. QED
  BY <1>1, <1>2, <1>3, <1>4
     DEF SendInv, EarnedInv, OutboxTypeOK, BusyHolds, DeliveredSettled, OneBusy, threads

LEMMA BatchSend ==
  ASSUME SendInv, NEW w \in Threads,
         \/ RecoverStale(w) \/ SelectPending(w) \/ EndBatch(w) \/ Crash(w)
         \/ \E d \in Deliveries : Send(w, d) \/ Skip(w, d) \/ Cancel(w, d) \/ LoseClaim(w, d)
  PROVE  BusyHolds' /\ DeliveredSettled' /\ OneBusy'
<1> USE DEF SendInv, EarnedInv, OutboxTypeOK, TriedBound, Busy, BusyHolds, DeliveredSettled,
            OneBusy, rows, threads
<1>1. CASE RecoverStale(w) BY <1>1 DEF RecoverStale, Stale
<1>2. CASE SelectPending(w) BY <1>2 DEF SelectPending
<1>3. CASE EndBatch(w) BY <1>3 DEF EndBatch
<1>4. CASE Crash(w) BY <1>4 DEF Crash
<1>5. ASSUME NEW d \in Deliveries, Send(w, d) PROVE BusyHolds' /\ DeliveredSettled' /\ OneBusy'
  BY <1>5 DEF Send
<1>6. ASSUME NEW d \in Deliveries, Skip(w, d) PROVE BusyHolds' /\ DeliveredSettled' /\ OneBusy'
  BY <1>6 DEF Skip, InBatch
<1>7. ASSUME NEW d \in Deliveries, Cancel(w, d) PROVE BusyHolds' /\ DeliveredSettled' /\ OneBusy'
  BY <1>7 DEF Cancel, InBatch
<1>8. ASSUME NEW d \in Deliveries, LoseClaim(w, d)
      PROVE BusyHolds' /\ DeliveredSettled' /\ OneBusy'
  BY <1>8 DEF LoseClaim, InBatch
<1>9. QED BY <1>1, <1>2, <1>3, <1>4, <1>5, <1>6, <1>7, <1>8

LEMMA ClaimSend ==
  ASSUME SendInv, NEW w \in Threads, NEW d \in Deliveries, Claim(w, d)
  PROVE  BusyHolds' /\ DeliveredSettled' /\ OneBusy'
<1> USE DEF SendInv, EarnedInv, OutboxTypeOK, TriedBound
<1>1. \A v \in Threads : Busy(v) => on[v] # d
  BY DEF BusyHolds, Claim, Waiting
<1>2. ~delivered[d]
  BY DEF DeliveredSettled, Claim, Waiting
<1>3. ~Busy(w) /\ on'[w] = d
  BY DEF Busy, Claim, InBatch
<1>4. \A v \in Threads : v # w => (Busy(v)' <=> Busy(v)) /\ on'[v] = on[v]
  BY DEF Busy, Claim
<1>5. BusyHolds'
  BY <1>1, <1>2, <1>3, <1>4 DEF BusyHolds, Claim, Busy
<1>6. DeliveredSettled'
  BY <1>2 DEF DeliveredSettled, Claim
<1>7. OneBusy'
  BY <1>1, <1>3, <1>4 DEF OneBusy
<1>8. QED BY <1>5, <1>6, <1>7

LEMMA AnswerSend ==
  ASSUME SendInv, NEW w \in Threads, Accept(w) \/ Reject(w) \/ Finish(w)
  PROVE  BusyHolds' /\ DeliveredSettled' /\ OneBusy'
<1> USE DEF SendInv, EarnedInv, OutboxTypeOK, TriedBound, Busy, BusyHolds, DeliveredSettled,
            OneBusy, rows
<1>1. CASE Accept(w) BY <1>1 DEF Accept
<1>2. CASE Reject(w) BY <1>2 DEF Reject
<1>3. CASE RecordSuccess(w) BY <1>3 DEF RecordSuccess, Proceed
<1>4. CASE RecordFailure(w) BY <1>4 DEF RecordFailure, Proceed
<1>5. QED BY <1>1, <1>2, <1>3, <1>4 DEF Finish

LEMMA TimeSend ==
  ASSUME Slow = {}, SendInv, NEW d \in Deliveries, GrowStale(d) \/ BecomeDue(d)
  PROVE  BusyHolds' /\ DeliveredSettled' /\ OneBusy'
<1> USE DEF SendInv, EarnedInv, OutboxTypeOK, TriedBound, Busy, BusyHolds, DeliveredSettled,
            OneBusy, threads
<1>1. CASE GrowStale(d)
  <2>1. \A w \in Threads : Busy(w) => on[w] # d
    BY <1>1 DEF GrowStale, Sending
  <2>2. QED BY <1>1, <2>1 DEF GrowStale
<1>2. CASE BecomeDue(d) BY <1>2 DEF BecomeDue
<1>3. QED BY <1>1, <1>2

LEMMA StepSend == ASSUME Slow = {} PROVE SendInv /\ [Next]_vars => SendInv'
<1> SUFFICES ASSUME SendInv, [Next]_vars PROVE BusyHolds' /\ DeliveredSettled' /\ OneBusy'
  BY StepEarned DEF SendInv
<1>1. CASE UNCHANGED vars
  BY <1>1 DEF vars, rows, threads, SendInv, BusyHolds, DeliveredSettled, OneBusy, Busy
<1>2. ASSUME NEW E \in SUBSET Endpoints, Publish(E)
      PROVE BusyHolds' /\ DeliveredSettled' /\ OneBusy'
  BY <1>2, QueueSend DEF Publish
<1>3. ASSUME NEW E \in SUBSET Endpoints, NEW n \in Endpoints, Switch(n, E)
      PROVE BusyHolds' /\ DeliveredSettled' /\ OneBusy'
  BY <1>3, QueueSend DEF Switch
<1>4. ASSUME NEW n \in Endpoints, QueueTest(n) PROVE BusyHolds' /\ DeliveredSettled' /\ OneBusy'
  BY <1>4, QueueSend DEF QueueTest
<1>5. ASSUME NEW d \in Deliveries, Replay(d) PROVE BusyHolds' /\ DeliveredSettled' /\ OneBusy'
  <2>1. dest[d] \in Endpoints
    BY <1>5 DEF Replay, SendInv, EarnedInv, RowsHaveEndpoint
  <2>2. QED BY <1>5, <2>1, QueueSend DEF Replay
<1>6. ASSUME NEW d \in Deliveries, GrowStale(d) \/ BecomeDue(d)
      PROVE BusyHolds' /\ DeliveredSettled' /\ OneBusy'
  BY <1>6, TimeSend
<1>7. ASSUME NEW w \in Threads,
         \/ RecoverStale(w) \/ SelectPending(w) \/ EndBatch(w) \/ Crash(w)
         \/ \E d \in Deliveries : Send(w, d) \/ Skip(w, d) \/ Cancel(w, d) \/ LoseClaim(w, d)
      PROVE BusyHolds' /\ DeliveredSettled' /\ OneBusy'
  BY <1>7, BatchSend
<1>8. ASSUME NEW w \in Threads, NEW d \in Deliveries, Claim(w, d)
      PROVE BusyHolds' /\ DeliveredSettled' /\ OneBusy'
  BY <1>8, ClaimSend
<1>9. ASSUME NEW w \in Threads, Accept(w) \/ Reject(w) \/ Finish(w)
      PROVE BusyHolds' /\ DeliveredSettled' /\ OneBusy'
  BY <1>9, AnswerSend
<1>10. QED BY <1>1, <1>2, <1>3, <1>4, <1>5, <1>6, <1>7, <1>8, <1>9 DEF Next, Deliver

LEMMA SendInvExclusive == SendInv => ExclusiveSend
BY DEF SendInv, OneBusy, ExclusiveSend, Sending, Busy

\* deliver's claim lets one thread at a time send a delivery, through crashes,
\* stale recovery, stale batches and disabled endpoints.
THEOREM OneSender == ASSUME Slow = {} PROVE Spec => []ExclusiveSend
BY InitSend, StepSend, SendInvExclusive, PTL DEF Spec

LEMMA SendInvClaims ==
  ASSUME SendInv, [Next]_vars, NEW d \in Deliveries, delivered[d], status'[d] = "delivering"
  PROVE  status[d] = "delivering"
<1> SUFFICES ASSUME status[d] # "delivering" PROVE FALSE
  OBVIOUS
<1>1. status[d] \in {"succeeded", "cancelled"}
  BY DEF SendInv, DeliveredSettled
<1> USE DEF SendInv, EarnedInv, OutboxTypeOK
<1>2. ASSUME NEW T \in SUBSET Endpoints, Queue(T) PROVE FALSE
  BY <1>2 DEF Queue
<1>3. ASSUME NEW w \in Threads PROVE ~(RecoverStale(w) \/ Finish(w))
  BY <1>1 DEF RecoverStale, Finish, RecordSuccess, RecordFailure
<1>4. ASSUME NEW w \in Threads, NEW e \in Deliveries PROVE ~(Cancel(w, e) \/ Claim(w, e))
  BY <1>1 DEF Cancel, Claim, Waiting
<1>5. ASSUME NEW e \in Deliveries, Replay(e) PROVE FALSE
  <2>1. dest[e] \in Endpoints
    BY <1>5 DEF Replay, RowsHaveEndpoint
  <2>2. QED BY <1>2, <1>5, <2>1 DEF Replay
<1>6. ASSUME NEW E \in SUBSET Endpoints PROVE ~(Publish(E) \/ \E n \in Endpoints : Switch(n, E))
  BY <1>2 DEF Publish, Switch
<1>7. ASSUME NEW n \in Endpoints PROVE ~QueueTest(n)
  BY <1>2 DEF QueueTest
<1>8. status'[d] # status[d]
  OBVIOUS
<1>9. QED
  BY <1>3, <1>4, <1>5, <1>6, <1>7, <1>8
     DEF Next, Deliver, vars, rows, SelectPending, EndBatch, Send, Skip, LoseClaim, Accept, Reject,
         Crash, GrowStale, BecomeDue

\* A delivery that succeeded is never claimed, hence never sent, again.
THEOREM NeverSentAgain == ASSUME Slow = {} PROVE Spec => NotSentAgain
<1>1. SendInv /\ [Next]_vars =>
        [\A d \in Deliveries :
           (delivered[d] /\ status'[d] = "delivering") => status[d] = "delivering"]_vars
  BY SendInvClaims
<1>2. QED BY <1>1, InitSend, StepSend, PTL DEF Spec, NotSentAgain

-----------------------------------------------------------------------------
(* Part 3: the refinement, for endpoints that stay active and payloads     *)
(* that stay intact.                                                       *)

Steady == Slow = {} /\ Switchable = {} /\ Corrupt = {}

\* Nothing is cancelled; what a busy thread has was attempted, and what it
\* saw acknowledged has arrived.
PromiseInv ==
  /\ SendInv
  /\ \A n \in Endpoints : live[n]
  /\ \A d \in Deliveries : status[d] # "cancelled"
  /\ \A w \in Threads : Busy(w) => attempts[on[w]] > 0
  /\ \A w \in Threads : phase[w] = "acked" => got[on[w]]

LEMMA InitPromise == Init => PromiseInv
BY InitSend DEF Init, PromiseInv, Busy

LEMMA StepPromise == ASSUME Steady PROVE PromiseInv /\ [Next]_vars => PromiseInv'
<1> SUFFICES ASSUME PromiseInv, [Next]_vars PROVE PromiseInv'
  OBVIOUS
<1>1. SendInv'
  BY StepSend DEF PromiseInv, Steady
<1> DEFINE Rest == /\ \A n \in Endpoints : live[n]
                   /\ \A d \in Deliveries : status[d] # "cancelled"
                   /\ \A w \in Threads : Busy(w) => attempts[on[w]] > 0
                   /\ \A w \in Threads : phase[w] = "acked" => got[on[w]]
<1> SUFFICES Rest'
  BY <1>1 DEF PromiseInv
<1> USE DEF PromiseInv, SendInv, EarnedInv, OutboxTypeOK, TriedBound, Busy, rows, threads, Steady
<1>2. CASE UNCHANGED vars BY <1>2 DEF vars
<1>3. ASSUME NEW T \in SUBSET Endpoints, Queue(T), UNCHANGED live PROVE Rest'
  BY <1>3 DEF Queue
<1>4. ASSUME NEW E \in SUBSET Endpoints, Publish(E) PROVE Rest'
  BY <1>3, <1>4 DEF Publish
<1>5. ASSUME NEW n \in Endpoints, QueueTest(n) PROVE Rest'
  BY <1>3, <1>5 DEF QueueTest
<1>6. ASSUME NEW d \in Deliveries, Replay(d) PROVE Rest'
  <2>1. dest[d] \in Endpoints
    BY <1>6 DEF Replay, RowsHaveEndpoint
  <2>2. QED BY <1>3, <1>6, <2>1 DEF Replay
<1>7. ASSUME NEW d \in Deliveries, GrowStale(d) \/ BecomeDue(d) PROVE Rest'
  BY <1>7 DEF GrowStale, BecomeDue
<1>8. ASSUME NEW w \in Threads,
         RecoverStale(w) \/ SelectPending(w) \/ EndBatch(w) \/ Crash(w) PROVE Rest'
  BY <1>8 DEF RecoverStale, SelectPending, EndBatch, Crash
<1>9. ASSUME NEW w \in Threads, NEW d \in Deliveries,
         Send(w, d) \/ Skip(w, d) \/ LoseClaim(w, d) PROVE Rest'
  BY <1>9 DEF Send, Skip, LoseClaim, InBatch
<1>10. ASSUME NEW w \in Threads, NEW d \in Deliveries, Cancel(w, d) PROVE Rest'
  <2>1. dest[d] \in Endpoints
    BY <1>10 DEF Cancel, InBatch, BatchExists, RowsHaveEndpoint
  <2>2. QED BY <1>10, <2>1 DEF Cancel
<1>11. ASSUME NEW w \in Threads, NEW d \in Deliveries, Claim(w, d) PROVE Rest'
  <2>1. \A n \in Nat : Counted(n) > 0 \/ n > 0
    BY OutboxAssumption DEF Counted
  <2>2. attempts[d] \in Nat /\ Counted(attempts[d]) >= attempts[d] /\ Counted(attempts[d]) > 0
    BY <2>1, OutboxAssumption DEF Counted
  <2>3. QED BY <1>11, <2>2 DEF Claim, InBatch
<1>12. ASSUME NEW w \in Threads, Accept(w) \/ Reject(w) PROVE Rest'
  BY <1>12 DEF Accept, Reject
<1>13. ASSUME NEW w \in Threads, Finish(w) PROVE Rest'
  <2>1. CASE RecordSuccess(w)
    BY <2>1 DEF RecordSuccess, Proceed
  <2>2. CASE RecordFailure(w)
    <3>1. UNCHANGED <<live, attempts, got>> /\ \A d \in Deliveries : status'[d] # "cancelled"
      BY <2>2 DEF RecordFailure, Proceed
    <3>2. \A v \in Threads : (Busy(v)' \/ phase'[v] = "acked") =>
            /\ v # w /\ on'[v] = on[v] /\ phase'[v] = phase[v]
      BY <2>2 DEF RecordFailure, Proceed
    <3>3. QED BY <3>1, <3>2
  <2>3. QED BY <1>13, <2>1, <2>2 DEF Finish
<1>14. ASSUME NEW n \in Endpoints, NEW E \in SUBSET Endpoints, Switch(n, E) PROVE Rest'
  BY <1>14 DEF Switch
<1>15. QED
  BY <1>2, <1>4, <1>5, <1>6, <1>7, <1>8, <1>9, <1>10, <1>11, <1>12, <1>13, <1>14
     DEF Next, Deliver

Fates == [d \in Deliveries |-> FateOf(status[d])]

LEMMA InitImplementsPromise == Init => Promise!Init
BY DEF Init, Promise!Init, FateOf

LEMMA QueueImplements ==
  ASSUME PromiseInv, NEW T \in SUBSET Endpoints, Queue(T)
  PROVE  Promise!Next
<1>1. PICK R \in SUBSET Absent :
        /\ status' = [d \in Deliveries |-> IF d \in R THEN "queued" ELSE status[d]]
        /\ UNCHANGED <<attempts, recent, delivered, got, threads>>
  BY DEF Queue
<1>2. R \in SUBSET Deliveries /\ \A d \in R : status[d] = "absent"
  BY DEF Absent
<1>3. Promise!Publish(R)
  BY <1>1, <1>2 DEF Promise!Publish, FateOf, Open
<1>4. QED BY <1>2, <1>3 DEF Promise!Next

\* Steps that settle nothing and send nothing.
LEMMA QuietImplementsPromise ==
  ASSUME PromiseInv, NEW w \in Threads,
         \/ RecoverStale(w) \/ SelectPending(w) \/ EndBatch(w) \/ Crash(w)
         \/ \E d \in Deliveries : Send(w, d) \/ Skip(w, d) \/ LoseClaim(w, d)
  PROVE  UNCHANGED Promise!vars
<1>1. CASE RecoverStale(w)
  <2>1. \A d \in Deliveries : FateOf(status'[d]) = FateOf(status[d])
    BY <1>1 DEF RecoverStale, Stale, FateOf, Open
  <2>2. QED BY <1>1, <2>1 DEF RecoverStale, Promise!vars
<1>2. CASE \/ SelectPending(w) \/ EndBatch(w) \/ Crash(w)
           \/ \E d \in Deliveries : Send(w, d) \/ Skip(w, d) \/ LoseClaim(w, d)
  BY <1>2 DEF SelectPending, EndBatch, Crash, Send, Skip, LoseClaim, rows, Promise!vars
<1>3. QED BY <1>1, <1>2

LEMMA ClaimImplements ==
  ASSUME PromiseInv, NEW w \in Threads, NEW d \in Deliveries, Claim(w, d)
  PROVE  Promise!Next \/ UNCHANGED Promise!vars
<1> USE DEF PromiseInv, SendInv, EarnedInv, OutboxTypeOK
<1>1. FateOf(status[d]) = "pending" /\ Fates' = Fates
  BY DEF Claim, Fates, FateOf, Waiting, Open
<1>2. CASE attempts[d] < AttemptCap
  <2>1. Promise!Attempt(d)
    BY <1>1, <1>2 DEF Promise!Attempt, Claim, Counted, Fates
  <2>2. QED BY <2>1 DEF Promise!Next
<1>3. CASE ~(attempts[d] < AttemptCap)
  <2>1. attempts' = attempts
    BY <1>3 DEF Claim, Counted
  <2>2. QED BY <1>1, <2>1 DEF Claim, Fates, Promise!vars
<1>4. QED BY <1>2, <1>3

LEMMA AnswerImplements ==
  ASSUME Steady, PromiseInv, NEW w \in Threads, Accept(w) \/ Reject(w) \/ Finish(w)
  PROVE  Promise!Next \/ UNCHANGED Promise!vars
<1> USE DEF PromiseInv, SendInv, EarnedInv, OutboxTypeOK
<1>1. /\ on[w] \in Deliveries /\ status[on[w]] = "delivering" /\ attempts[on[w]] > 0
      /\ tried[w] <= attempts[on[w]]
  BY DEF BusyHolds, TriedBound, Busy, Accept, Reject, Finish, RecordSuccess, RecordFailure
<1>2. FateOf(status[on[w]]) = "pending"
  BY <1>1 DEF FateOf, Open
<1>3. CASE Accept(w) \/ Reject(w)
  <2>1. Promise!Arrive(on[w]) \/ UNCHANGED Promise!vars
    BY <1>1, <1>2, <1>3 DEF Accept, Reject, rows, Promise!Arrive, Promise!vars
  <2>2. QED BY <1>1, <2>1 DEF Promise!Next
<1>4. CASE RecordSuccess(w)
  <2>1. Fates' = [Fates EXCEPT ![on[w]] = "delivered"]
    BY <1>1, <1>4 DEF RecordSuccess, Fates, FateOf, Open
  <2>2. Promise!Acknowledge(on[w])
    BY <1>1, <1>2, <1>4, <2>1 DEF RecordSuccess, Proceed, Promise!Acknowledge, Fates
  <2>3. QED BY <1>1, <2>2 DEF Promise!Next
<1>5. CASE RecordFailure(w)
  <2>1. attempts' = attempts /\ got' = got
    BY <1>5 DEF RecordFailure, Proceed
  <2>2. CASE Exhausted(w)
    <3>1. attempts[on[w]] >= MaxAttempts
      BY <1>1, <2>2, OutboxAssumption DEF Exhausted, Steady
    <3>2. Fates' = [Fates EXCEPT ![on[w]] = "dead"]
      BY <1>1, <1>5, <2>2 DEF RecordFailure, Fates, FateOf, Open
    <3>3. Promise!GiveUp(on[w])
      BY <1>1, <1>2, <2>1, <3>1, <3>2 DEF Promise!GiveUp, Fates
    <3>4. QED BY <1>1, <3>3 DEF Promise!Next
  <2>3. CASE ~Exhausted(w)
    <3>1. Fates' = Fates
      BY <1>1, <1>5, <2>3 DEF RecordFailure, Fates, FateOf, Open
    <3>2. QED BY <2>1, <3>1 DEF Fates, Promise!vars
  <2>4. QED BY <2>2, <2>3
<1>6. QED BY <1>3, <1>4, <1>5 DEF Finish

LEMMA StepImplementsPromise ==
  ASSUME Steady PROVE PromiseInv /\ [Next]_vars => [Promise!Next]_(Promise!vars)
<1> SUFFICES ASSUME PromiseInv, [Next]_vars PROVE Promise!Next \/ UNCHANGED Promise!vars
  OBVIOUS
<1>1. CASE UNCHANGED vars
  BY <1>1 DEF vars, rows, Promise!vars
<1>2. ASSUME NEW E \in SUBSET Endpoints, Publish(E) PROVE Promise!Next
  BY <1>2, QueueImplements DEF Publish
<1>3. ASSUME NEW n \in Endpoints, NEW E \in SUBSET Endpoints, Switch(n, E) PROVE FALSE
  BY <1>3 DEF Switch, Steady
<1>4. ASSUME NEW n \in Endpoints, QueueTest(n) PROVE Promise!Next
  BY <1>4, QueueImplements DEF QueueTest
<1>5. ASSUME NEW d \in Deliveries, Replay(d) PROVE Promise!Next
  <2>1. dest[d] \in Endpoints
    BY <1>5 DEF Replay, PromiseInv, SendInv, EarnedInv, RowsHaveEndpoint
  <2>2. QED BY <1>5, <2>1, QueueImplements DEF Replay
<1>6. ASSUME NEW d \in Deliveries, GrowStale(d) \/ BecomeDue(d) PROVE UNCHANGED Promise!vars
  BY <1>6 DEF GrowStale, BecomeDue, Promise!vars
<1>7. ASSUME NEW w \in Threads,
         \/ RecoverStale(w) \/ SelectPending(w) \/ EndBatch(w) \/ Crash(w)
         \/ \E d \in Deliveries : Send(w, d) \/ Skip(w, d) \/ LoseClaim(w, d)
      PROVE UNCHANGED Promise!vars
  BY <1>7, QuietImplementsPromise
<1>8. ASSUME NEW w \in Threads, NEW d \in Deliveries, Cancel(w, d) PROVE FALSE
  <2>1. dest[d] \in Endpoints
    BY <1>8 DEF Cancel, InBatch, PromiseInv, SendInv, EarnedInv, BatchExists, RowsHaveEndpoint
  <2>2. QED BY <1>8, <2>1 DEF Cancel, PromiseInv
<1>9. ASSUME NEW w \in Threads, NEW d \in Deliveries, Claim(w, d)
      PROVE Promise!Next \/ UNCHANGED Promise!vars
  BY <1>9, ClaimImplements
<1>10. ASSUME NEW w \in Threads, Accept(w) \/ Reject(w) \/ Finish(w)
       PROVE Promise!Next \/ UNCHANGED Promise!vars
  BY <1>10, AnswerImplements
<1>11. QED
  BY <1>1, <1>2, <1>3, <1>4, <1>5, <1>6, <1>7, <1>8, <1>9, <1>10 DEF Next, Deliver

\* With requests that end in time, endpoints that stay active and payloads
\* that stay intact, the rows and the threads behave as ReliableOutbox: pending
\* until acknowledged or out of attempts, and never sent after that.
THEOREM OutboxImplementsPromise == ASSUME Steady PROVE Spec => ImplementsReliableOutbox
<1>1. QED
  BY InitPromise, StepPromise, InitImplementsPromise, StepImplementsPromise, PTL
     DEF Spec, ImplementsReliableOutbox, Promise!Spec
=============================================================================
