------------------------ MODULE BuildPipeline_proofs ------------------------
(***************************************************************************)
(* Proofs about JobQueue, and about BuildPipeline, which extends it, for   *)
(* any sets of jobs, workspaces and threads and any max_attempts.  First   *)
(* the queue with any handler: what holds however late heartbeats are, and *)
(* what holds while they arrive in time (Slow = {}).  Then the pipeline:   *)
(* first without any assumption on heartbeats, crashes, retries or         *)
(* overlapping requests, then while heartbeats arrive in time.             *)
(***************************************************************************)
EXTENDS BuildPipeline, FiniteSetTheorems, TLAPS

-----------------------------------------------------------------------------
(* The queue: types, and the attempts behind every burial.                 *)

\* Threads that act on a job have one.
HasJob == \A w \in Workers :
  phase[w] \in {"draining", "handling", "returned", "raised"} => on[w] \in Jobs

\* Only a thread that executes a job holds a copy of its row, and the copy is
\* never ahead of the row.
CopyNotAhead == \A w \in Workers : seen[w] # Expired =>
  /\ phase[w] \in {"handling", "returned", "raised"}
  /\ on[w] \in Jobs
  /\ seen[w].attempts <= attempts[on[w]]

BurialInv == TypeOK /\ HasJob /\ CopyNotAhead /\ BurialEarned

LEMMA InitBurialInv == Init => BurialInv
BY QueueAssumption
   DEF Init, BurialInv, TypeOK, HasJob, CopyNotAhead, BurialEarned, Statuses, Phases

LEMMA AskBurialInv ==
  ASSUME BurialInv, NEW w \in Workers, NEW t \in Targets, Ask(w, t)
  PROVE  BurialInv'
BY DEF Ask, BurialInv, TypeOK, HasJob, CopyNotAhead, BurialEarned, Phases, rows

LEMMA EnqueueBurialInv ==
  ASSUME BurialInv, NEW w \in Workers, NEW j \in Jobs,
         Dedupe(w, j) \/ FindNone(w) \/ Insert(w, j)
  PROVE  BurialInv'
<1> USE DEF BurialInv, TypeOK, HasJob, CopyNotAhead, BurialEarned, Statuses, Phases, rows
<1>1. CASE Dedupe(w, j) BY <1>1 DEF Dedupe
<1>2. CASE FindNone(w) BY <1>2 DEF FindNone
<1>3. CASE Insert(w, j) BY <1>3 DEF Insert
<1>4. QED BY <1>1, <1>2, <1>3

LEMMA TakeBurialInv ==
  ASSUME BurialInv, NEW w \in Workers, NEW j \in Jobs, Take(w, j)
  PROVE  BurialInv'
<1> USE DEF BurialInv
<1>1. attempts[j] \in 0..MaxAttempts /\ attempts[j] + 1 \in 0..MaxAttempts
  BY QueueAssumption DEF TypeOK, Take, Claimable
<1>2. Row(j)' = [status |-> "running", owner |-> w, attempts |-> attempts[j] + 1]
  BY DEF Row, Take, TypeOK
<1>3. Row(j)' \in RowCopy
  BY <1>1, <1>2 DEF RowCopy, Statuses
<1>4. TypeOK'
  BY <1>1, <1>3 DEF TypeOK, Take, Statuses, Phases
<1>5. HasJob'
  BY DEF HasJob, Take, TypeOK
<1>6. CopyNotAhead'
  <2> SUFFICES ASSUME NEW v \in Workers, seen'[v] # Expired
               PROVE  /\ phase'[v] \in {"handling", "returned", "raised"}
                      /\ on'[v] \in Jobs
                      /\ seen'[v].attempts <= attempts'[on'[v]]
    BY DEF CopyNotAhead
  <2>1. CASE v = w
    BY <2>1, <1>1, <1>2 DEF Take, TypeOK
  <2>2. CASE v # w
    <3>1. seen'[v] = seen[v] /\ on'[v] = on[v] /\ phase'[v] = phase[v]
      BY <2>2 DEF Take, TypeOK
    <3>2. /\ phase[v] \in {"handling", "returned", "raised"}
          /\ on[v] \in Jobs /\ seen[v].attempts <= attempts[on[v]]
      BY <3>1 DEF CopyNotAhead
    <3>3. seen[v].attempts \in Nat
      BY <3>1 DEF TypeOK, RowCopy
    <3>4. attempts'[on[v]] >= attempts[on[v]] /\ attempts'[on[v]] \in Nat /\ attempts[on[v]] \in Nat
      BY <3>2, <1>1 DEF Take, TypeOK
    <3>5. QED BY <3>1, <3>2, <3>3, <3>4
  <2>3. QED BY <2>1, <2>2
<1>7. BurialEarned'
  BY DEF BurialEarned, Take, TypeOK, Claimable
<1>8. QED BY <1>4, <1>5, <1>6, <1>7

\* Steps that only move the thread, its copy, a heartbeat or a due date.
LEMMA QuietBurialInv ==
  ASSUME BurialInv, NEW w \in Workers,
         \/ DrainMiss(w) \/ Heartbeat(w) \/ Expire(w) \/ Return(w) \/ Raise(w)
         \/ Disown(w) \/ StartRecovery(w) \/ Crash(w)
  PROVE  BurialInv'
<1> USE DEF BurialInv, TypeOK, HasJob, CopyNotAhead, BurialEarned, Phases, rows, threads, Leave
<1>1. CASE DrainMiss(w) BY <1>1 DEF DrainMiss
<1>2. CASE Heartbeat(w) BY <1>2 DEF Heartbeat
<1>3. CASE Expire(w) BY <1>3 DEF Expire
<1>4. CASE Return(w) BY <1>4 DEF Return
<1>5. CASE Raise(w) BY <1>5 DEF Raise
<1>6. CASE Disown(w) BY <1>6 DEF Disown
<1>7. CASE StartRecovery(w) BY <1>7 DEF StartRecovery
<1>8. CASE Crash(w) BY <1>8 DEF Crash
<1>9. QED BY <1>1, <1>2, <1>3, <1>4, <1>5, <1>6, <1>7, <1>8

LEMMA TimeBurialInv ==
  ASSUME BurialInv, NEW j \in Jobs, Age(j) \/ BecomeDue(j)
  PROVE  BurialInv'
BY DEF BurialInv, TypeOK, HasJob, CopyNotAhead, BurialEarned, threads, Age, BecomeDue

LEMMA ReloadBurialInv ==
  ASSUME BurialInv, NEW w \in Workers, Reload(w)
  PROVE  BurialInv'
<1> USE DEF BurialInv
<1>1. on[w] \in Jobs
  BY DEF Reload, HasJob
<1>2. Row(on[w]) \in RowCopy /\ Row(on[w]).attempts = attempts[on[w]]
  BY <1>1 DEF Row, RowCopy, TypeOK
<1>3. TypeOK'
  BY <1>2 DEF Reload, TypeOK, rows
<1>4. HasJob' /\ BurialEarned'
  BY DEF Reload, HasJob, BurialEarned, rows
<1>5. CopyNotAhead'
  BY <1>1, <1>2 DEF CopyNotAhead, Reload, TypeOK, rows
<1>6. QED BY <1>3, <1>4, <1>5

LEMMA FinishBurialInv ==
  ASSUME BurialInv, NEW w \in Workers, Complete(w) \/ Bury(w) \/ BackOff(w)
  PROVE  BurialInv'
<1> USE DEF BurialInv
<1>1. on[w] \in Jobs
  BY DEF HasJob, Complete, Bury, BackOff
<1>2. HasJob' /\ CopyNotAhead'
  BY DEF HasJob, CopyNotAhead, Complete, Bury, BackOff, Leave, TypeOK
<1>3. TypeOK'
  BY DEF TypeOK, Statuses, Phases, Complete, Bury, BackOff, Leave
<1>4. BurialEarned'
  <2>1. CASE Complete(w) BY <2>1 DEF BurialEarned, Complete, TypeOK
  <2>2. CASE BackOff(w) BY <2>2 DEF BurialEarned, BackOff, TypeOK
  <2>3. CASE Bury(w)
    <3>1. seen[w].attempts \in Nat /\ seen[w].attempts <= attempts[on[w]]
      BY <2>3 DEF Bury, CopyNotAhead, TypeOK, RowCopy
    <3>2. attempts[on[w]] = MaxAttempts
      BY <2>3, <3>1, <1>1, QueueAssumption DEF Bury, OutOfAttempts, TypeOK
    <3>3. QED BY <2>3, <3>2 DEF BurialEarned, Bury, TypeOK
  <2>4. QED BY <2>1, <2>2, <2>3
<1>5. QED BY <1>2, <1>3, <1>4

LEMMA RecoveryBurialInv ==
  ASSUME BurialInv, NEW w \in Workers, ApplyRecovery(w)
  PROVE  BurialInv'
<1> USE DEF BurialInv
<1>1. \A j \in Jobs : status'[j] = IF j \in Buried THEN "dead"
                                   ELSE IF j \in Requeued THEN "queued" ELSE status[j]
  BY DEF ApplyRecovery
<1>2. status' \in [Jobs -> Statuses]
  <2>1. \A j \in Jobs : status'[j] \in Statuses
    BY <1>1 DEF TypeOK, Statuses
  <2>2. QED BY <2>1 DEF ApplyRecovery
<1>3. TypeOK'
  BY <1>2 DEF ApplyRecovery, Leave, TypeOK, Phases
<1>4. HasJob' /\ CopyNotAhead'
  BY DEF HasJob, CopyNotAhead, ApplyRecovery, Leave, TypeOK
<1>5. BurialEarned'
  BY <1>1, QueueAssumption DEF BurialEarned, ApplyRecovery, Buried, TypeOK
<1>6. QED BY <1>3, <1>4, <1>5

LEMMA StepBurialInv == BurialInv /\ [Next]_vars => BurialInv'
<1> SUFFICES ASSUME BurialInv, [Next]_vars PROVE BurialInv'
  OBVIOUS
<1>1. CASE UNCHANGED vars
  BY <1>1 DEF vars, rows, threads, BurialInv, TypeOK, HasJob, CopyNotAhead, BurialEarned
<1>2. ASSUME NEW w \in Workers, NEW t \in Targets, Ask(w, t) PROVE BurialInv'
  BY <1>2, AskBurialInv
<1>3. ASSUME NEW w \in Workers, NEW j \in Jobs,
             Dedupe(w, j) \/ Insert(w, j) \/ Claim(w, j) \/ Drain(w, j)
      PROVE  BurialInv'
  BY <1>3, EnqueueBurialInv, TakeBurialInv DEF Claim, Drain
<1>4. ASSUME NEW w \in Workers, FindNone(w) PROVE BurialInv'
  BY <1>4 DEF FindNone, BurialInv, TypeOK, HasJob, CopyNotAhead, BurialEarned, Phases, rows
<1>5. ASSUME NEW w \in Workers,
             \/ DrainMiss(w) \/ Heartbeat(w) \/ Expire(w) \/ Return(w) \/ Raise(w)
             \/ Disown(w) \/ StartRecovery(w) \/ Crash(w)
      PROVE  BurialInv'
  BY <1>5, QuietBurialInv
<1>6. ASSUME NEW w \in Workers,
             Reload(w) \/ Complete(w) \/ Bury(w) \/ BackOff(w) \/ ApplyRecovery(w)
      PROVE  BurialInv'
  BY <1>6, ReloadBurialInv, FinishBurialInv, RecoveryBurialInv
<1>7. ASSUME NEW j \in Jobs, Age(j) \/ BecomeDue(j) PROVE BurialInv'
  BY <1>7, TimeBurialInv
<1>8. QED BY <1>1, <1>2, <1>3, <1>4, <1>5, <1>6, <1>7 DEF Next, Finish

\* Every reachable state of the queue is well typed; in particular attempts
\* stays within max_attempts, even when superseded threads write to the row.
THEOREM TypeCorrect == Spec => []TypeOK
<1>1. BurialInv => TypeOK
  BY DEF BurialInv
<1>2. QED BY InitBurialInv, StepBurialInv, <1>1, PTL DEF Spec

\* No job is declared dead before all its attempts were made, whether fail or
\* recover_stale buries it and however late the threads are.
THEOREM BurialIsEarned == Spec => []BurialEarned
<1>1. BurialInv => BurialEarned
  BY DEF BurialInv
<1>2. QED BY InitBurialInv, StepBurialInv, <1>1, PTL DEF Spec

-----------------------------------------------------------------------------
(* The queue while heartbeats arrive in time.                              *)

\* The thread that executes a job is the one the row names, and it beats.
RunnerHolds == \A w \in Workers, j \in Jobs :
  Executing(w, j) => status[j] = "running" /\ owner[j] = w /\ beating[j]

\* A copy in memory is the row.
CopyTrue == \A w \in Workers : seen[w] # Expired => seen[w] = Row(on[w])

FreshRows == \A j \in Jobs : status[j] = "absent" => attempts[j] = 0

HeldInv == BurialInv /\ RunnerHolds /\ CopyTrue /\ FreshRows /\ WaitingIsClaimable

LEMMA InitHeldInv == Init => HeldInv
BY InitBurialInv, QueueAssumption
   DEF HeldInv, Init, RunnerHolds, Executing, CopyTrue, FreshRows, WaitingIsClaimable

LEMMA HeldSole == HeldInv => SoleExecutor
BY DEF HeldInv, RunnerHolds, SoleExecutor

LEMMA EnqueueHeldInv ==
  ASSUME HeldInv, NEW w \in Workers, NEW j \in Jobs, BurialInv',
         Dedupe(w, j) \/ FindNone(w) \/ Insert(w, j)
  PROVE  HeldInv'
<1> USE DEF HeldInv, BurialInv, TypeOK, RunnerHolds, Executing, CopyTrue, CopyNotAhead, Row,
            FreshRows, WaitingIsClaimable, rows
<1>1. CASE Dedupe(w, j) BY <1>1 DEF Dedupe
<1>2. CASE FindNone(w) BY <1>2 DEF FindNone
<1>3. CASE Insert(w, j) BY <1>3, QueueAssumption DEF Insert
<1>4. QED BY <1>1, <1>2, <1>3

LEMMA TakeHeldInv ==
  ASSUME HeldInv, NEW w \in Workers, NEW j \in Jobs, BurialInv', Take(w, j)
  PROVE  HeldInv'
<1> USE DEF HeldInv, BurialInv, TypeOK
<1>1. \A v \in Workers : ~Executing(v, j)
  BY DEF RunnerHolds, Take, Claimable
<1>2. RunnerHolds'
  BY <1>1 DEF RunnerHolds, Executing, Take
<1>3. CopyTrue'
  BY <1>1 DEF CopyTrue, CopyNotAhead, Executing, Row, Take
<1>4. FreshRows' /\ WaitingIsClaimable'
  BY DEF FreshRows, WaitingIsClaimable, Take, Claimable
<1>5. QED BY <1>2, <1>3, <1>4

LEMMA QuietHeldInv ==
  ASSUME HeldInv, NEW w \in Workers, BurialInv',
         \/ DrainMiss(w) \/ Heartbeat(w) \/ Expire(w) \/ Reload(w) \/ Return(w)
         \/ Raise(w) \/ Disown(w) \/ StartRecovery(w) \/ Crash(w)
  PROVE  HeldInv'
<1> USE DEF HeldInv, BurialInv, TypeOK, RunnerHolds, Executing, CopyTrue, CopyNotAhead, Row,
            FreshRows, WaitingIsClaimable, rows, threads, Leave
<1>1. CASE DrainMiss(w) BY <1>1 DEF DrainMiss
<1>2. CASE Heartbeat(w) BY <1>2 DEF Heartbeat
<1>3. CASE Expire(w) BY <1>3 DEF Expire
<1>4. CASE Reload(w) BY <1>4 DEF Reload
<1>5. CASE Return(w) BY <1>5 DEF Return
<1>6. CASE Raise(w) BY <1>6 DEF Raise
<1>7. CASE Disown(w) BY <1>7 DEF Disown
<1>8. CASE StartRecovery(w) BY <1>8 DEF StartRecovery
<1>9. CASE Crash(w) BY <1>9 DEF Crash
<1>10. QED BY <1>1, <1>2, <1>3, <1>4, <1>5, <1>6, <1>7, <1>8, <1>9

\* The thread that records an outcome is the only one on its job.
LEMMA FinishHeldInv ==
  ASSUME HeldInv, NEW w \in Workers, BurialInv', Complete(w) \/ Bury(w) \/ BackOff(w)
  PROVE  HeldInv'
<1> USE DEF HeldInv, BurialInv, TypeOK
<1>1. on[w] \in Jobs /\ Executing(w, on[w])
  BY DEF HasJob, Executing, Complete, Bury, BackOff
<1>2. \A v \in Workers : Executing(v, on[w]) => v = w
  BY <1>1, HeldSole DEF SoleExecutor
<1>3. RunnerHolds'
  BY <1>2 DEF RunnerHolds, Executing, Complete, Bury, BackOff, Leave
<1>4. CopyTrue'
  <2>1. \A v \in Workers \ {w} : seen[v] # Expired => on[v] \in Jobs /\ on[v] # on[w]
    BY <1>2 DEF CopyNotAhead, Executing
  <2>2. QED
    BY <2>1 DEF CopyTrue, Row, Complete, Bury, BackOff, Leave
<1>5. FreshRows' /\ WaitingIsClaimable'
  <2>1. seen[w].attempts = attempts[on[w]]
    BY <1>1 DEF CopyTrue, Row, Complete, Bury, BackOff
  <2>2. CASE Complete(w) \/ Bury(w)
    BY <2>2 DEF FreshRows, WaitingIsClaimable, Complete, Bury
  <2>3. CASE BackOff(w)
    <3>1. attempts[on[w]] \in 0..MaxAttempts
      BY <1>1
    <3>2. attempts[on[w]] < MaxAttempts
      BY <2>1, <2>3, <3>1, QueueAssumption DEF BackOff, OutOfAttempts
    <3>3. QED BY <2>3, <3>2 DEF FreshRows, WaitingIsClaimable, BackOff
  <2>4. QED BY <2>2, <2>3
<1>6. QED BY <1>3, <1>4, <1>5

LEMMA RecoveryHeldInv ==
  ASSUME HeldInv, NEW w \in Workers, BurialInv', ApplyRecovery(w)
  PROVE  HeldInv'
<1> USE DEF HeldInv, BurialInv, TypeOK
<1>1. \A v \in Workers, j \in Jobs : Executing(v, j) => j \notin Buried /\ j \notin Requeued
  BY DEF RunnerHolds, Buried, Requeued, Stale
<1>2. \A j \in Jobs : j \notin Buried /\ j \notin Requeued => Row(j)' = Row(j)
  BY DEF ApplyRecovery, Row
<1>3. RunnerHolds'
  BY <1>1 DEF RunnerHolds, Executing, ApplyRecovery, Leave
<1>4. CopyTrue'
  <2>1. ASSUME NEW v \in Workers, seen'[v] # Expired
        PROVE  seen'[v] = Row(on[v])'
    <3>1. seen'[v] = seen[v] /\ on'[v] = on[v] /\ seen[v] # Expired
      BY <2>1 DEF ApplyRecovery, Leave
    <3>2. Executing(v, on[v]) /\ on[v] \in Jobs
      BY <3>1 DEF CopyNotAhead, Executing
    <3>3. status'[on[v]] = status[on[v]] /\ owner'[on[v]] = owner[on[v]]
      BY <1>1, <3>2 DEF ApplyRecovery
    <3>4. QED BY <3>1, <3>2, <3>3 DEF CopyTrue, Row, ApplyRecovery
  <2>2. QED BY <2>1 DEF CopyTrue
<1>5. FreshRows' /\ WaitingIsClaimable'
  BY DEF FreshRows, WaitingIsClaimable, ApplyRecovery, Buried, Requeued, Stale
<1>6. QED BY <1>3, <1>4, <1>5

LEMMA TimeHeldInv ==
  ASSUME Slow = {}, HeldInv, NEW j \in Jobs, BurialInv', Age(j) \/ BecomeDue(j)
  PROVE  HeldInv'
<1> USE DEF HeldInv, BurialInv, TypeOK, RunnerHolds, Executing, CopyTrue, CopyNotAhead, Row,
            FreshRows, WaitingIsClaimable, threads
<1>1. CASE Age(j) BY <1>1 DEF Age
<1>2. CASE BecomeDue(j) BY <1>2 DEF BecomeDue
<1>3. QED BY <1>1, <1>2

LEMMA StepHeldInv == ASSUME Slow = {} PROVE HeldInv /\ [Next]_vars => HeldInv'
<1> SUFFICES ASSUME HeldInv, [Next]_vars PROVE HeldInv'
  OBVIOUS
<1>0. BurialInv'
  BY StepBurialInv DEF HeldInv
<1>1. CASE UNCHANGED vars
  BY <1>0, <1>1 DEF vars, rows, threads, HeldInv, RunnerHolds, Executing, CopyTrue, Row,
                    FreshRows, WaitingIsClaimable
<1>2. ASSUME NEW w \in Workers, NEW t \in Targets, Ask(w, t) PROVE HeldInv'
  BY <1>0, <1>2 DEF Ask, rows, HeldInv, BurialInv, TypeOK, RunnerHolds, Executing, CopyTrue,
                    CopyNotAhead, Row, FreshRows, WaitingIsClaimable
<1>3. ASSUME NEW w \in Workers, NEW j \in Jobs,
             Dedupe(w, j) \/ Insert(w, j) \/ Claim(w, j) \/ Drain(w, j)
      PROVE  HeldInv'
  BY <1>0, <1>3, EnqueueHeldInv, TakeHeldInv DEF Claim, Drain
<1>4. ASSUME NEW w \in Workers, FindNone(w) PROVE HeldInv'
  BY <1>0, <1>4 DEF FindNone, rows, HeldInv, BurialInv, TypeOK, RunnerHolds, Executing, CopyTrue,
                    CopyNotAhead, Row, FreshRows, WaitingIsClaimable
<1>5. ASSUME NEW w \in Workers,
             \/ DrainMiss(w) \/ Heartbeat(w) \/ Expire(w) \/ Reload(w) \/ Return(w)
             \/ Raise(w) \/ Disown(w) \/ StartRecovery(w) \/ Crash(w)
      PROVE  HeldInv'
  BY <1>0, <1>5, QuietHeldInv
<1>6. ASSUME NEW w \in Workers,
             Complete(w) \/ Bury(w) \/ BackOff(w) \/ ApplyRecovery(w)
      PROVE  HeldInv'
  BY <1>0, <1>6, FinishHeldInv, RecoveryHeldInv
<1>7. ASSUME NEW j \in Jobs, Age(j) \/ BecomeDue(j) PROVE HeldInv'
  BY <1>0, <1>7, TimeHeldInv
<1>8. QED BY <1>1, <1>2, <1>3, <1>4, <1>5, <1>6, <1>7 DEF Next, Finish

\* The queue's central promise: while heartbeats arrive in time, a job is
\* never worked on by two threads at once.
THEOREM OneExecutor == ASSUME Slow = {} PROVE Spec => []SoleExecutor
<1>1. QED BY InitHeldInv, StepHeldInv, HeldSole, PTL DEF Spec

\* While heartbeats arrive in time, a queued or failed job never runs out of
\* attempts before it is declared dead, so it never blocks its workspace.
THEOREM WaitingStaysClaimable == ASSUME Slow = {} PROVE Spec => []WaitingIsClaimable
<1>1. HeldInv => WaitingIsClaimable
  BY DEF HeldInv
<1>2. QED BY InitHeldInv, StepHeldInv, <1>1, PTL DEF Spec

LEMMA StepTerminal ==
  HeldInv /\ [Next]_vars
    => [\A j \in Jobs : status[j] \in Terminal => status'[j] = status[j]]_vars
<1> SUFFICES ASSUME HeldInv, Next, NEW j \in Jobs, status[j] \in Terminal
             PROVE  status'[j] = status[j]
  BY DEF vars
<1> USE DEF HeldInv, BurialInv, TypeOK, Terminal, rows
<1>1. ASSUME NEW w \in Workers, NEW i \in Jobs,
             Dedupe(w, i) \/ Insert(w, i) \/ Claim(w, i) \/ Drain(w, i)
      PROVE  status'[j] = status[j]
  BY <1>1 DEF Dedupe, Insert, Claim, Drain, Take, Claimable
<1>2. ASSUME NEW w \in Workers, Complete(w) \/ Bury(w) \/ BackOff(w)
      PROVE  status'[j] = status[j]
  <2>1. on[w] \in Jobs /\ status[on[w]] = "running"
    BY <1>2 DEF HasJob, RunnerHolds, Executing, Complete, Bury, BackOff
  <2>2. QED BY <1>2, <2>1 DEF Complete, Bury, BackOff
<1>3. ASSUME NEW w \in Workers, ApplyRecovery(w) PROVE status'[j] = status[j]
  BY <1>3 DEF ApplyRecovery, Buried, Requeued, Stale
<1>4. QED
  BY <1>1, <1>2, <1>3
     DEF Next, Finish, Ask, FindNone, DrainMiss, Heartbeat, Expire, Reload, Return, Raise,
         Disown, StartRecovery, Crash, Age, BecomeDue

\* While heartbeats arrive in time, succeeded and dead are final: no late
\* complete, fail or recovery rewrites a settled row.
THEOREM SettledStaysSettled == ASSUME Slow = {} PROVE Spec => TerminalIsFinal
<1>1. QED BY InitHeldInv, StepHeldInv, StepTerminal, PTL DEF Spec, TerminalIsFinal

-----------------------------------------------------------------------------
(* The queue implements ExclusiveWork: each step is a step of the abstract *)
(* specification on the mapped state, or leaves that state alone.          *)

Stages == [j \in Jobs |-> StageOf(status[j])]
Holders == [j \in Jobs |-> {w \in Workers : Executing(w, j)}]

LEMMA InitImplements == Init => Work!Init
BY QueueAssumption DEF Init, Work!Init, StageOf, Executing

\* Steps that leave every status, count and holder as they are.
LEMMA StutterImplements ==
  ASSUME status' = status, attempts' = attempts,
         \A w \in Workers, j \in Jobs : Executing(w, j)' <=> Executing(w, j)
  PROVE  UNCHANGED Work!vars
BY DEF Work!vars, StageOf

LEMMA QuietImplements ==
  ASSUME HeldInv, NEW w \in Workers,
         \/ \E t \in Targets : Ask(w, t)
         \/ \E j \in Jobs : Dedupe(w, j)
         \/ FindNone(w) \/ DrainMiss(w) \/ Heartbeat(w) \/ Expire(w) \/ Reload(w)
         \/ Return(w) \/ Raise(w) \/ Disown(w) \/ StartRecovery(w)
  PROVE  UNCHANGED Work!vars
<1> USE DEF HeldInv, BurialInv, TypeOK, Executing, rows, threads, Leave
<1>1. CASE \E t \in Targets : Ask(w, t) BY <1>1, StutterImplements DEF Ask
<1>2. CASE \E j \in Jobs : Dedupe(w, j) BY <1>2, StutterImplements DEF Dedupe
<1>3. CASE FindNone(w) BY <1>3, StutterImplements DEF FindNone
<1>4. CASE DrainMiss(w) BY <1>4, StutterImplements DEF DrainMiss
<1>5. CASE Heartbeat(w) BY <1>5, StutterImplements DEF Heartbeat
<1>6. CASE Expire(w) BY <1>6, StutterImplements DEF Expire
<1>7. CASE Reload(w) BY <1>7, StutterImplements DEF Reload
<1>8. CASE Return(w) BY <1>8, StutterImplements DEF Return
<1>9. CASE Raise(w) BY <1>9, StutterImplements DEF Raise
<1>10. CASE Disown(w)
  <2>1. Executing(w, on[w]) /\ on[w] \in Jobs
    BY <1>10 DEF Disown, HasJob
  <2>2. Owns(w)
    BY <1>10, <2>1 DEF Disown, CopyTrue, RunnerHolds, Owns, Row
  <2>3. QED BY <1>10, <2>2 DEF Disown
<1>11. CASE StartRecovery(w) BY <1>11, StutterImplements DEF StartRecovery
<1>12. QED
  BY <1>1, <1>2, <1>3, <1>4, <1>5, <1>6, <1>7, <1>8, <1>9, <1>10, <1>11

LEMMA InsertImplements ==
  ASSUME HeldInv, NEW w \in Workers, NEW j \in Jobs, Insert(w, j)
  PROVE  Work!Submit(j)
<1> USE DEF HeldInv, BurialInv, TypeOK, Insert
<1>1. \A v \in Workers, i \in Jobs : Executing(v, i)' <=> Executing(v, i)
  BY DEF Executing
<1>2. Stages' = [Stages EXCEPT ![j] = "waiting"] /\ Stages[j] = "none"
  BY DEF Stages, StageOf
<1>3. Holders' = Holders
  BY <1>1 DEF Holders
<1>4. QED BY <1>2, <1>3 DEF Work!Submit, Stages, Holders

LEMMA TakeImplements ==
  ASSUME HeldInv, NEW w \in Workers, NEW j \in Jobs, phase[w] \in {"idle", "draining"}, Take(w, j)
  PROVE  Work!Take(w, j)
<1> USE DEF HeldInv, BurialInv, TypeOK
<1>1. \A v \in Workers : ~Executing(v, j)
  BY DEF RunnerHolds, Take, Claimable
<1>2. \A v \in Workers, i \in Jobs :
        Executing(v, i)' <=> (IF i = j THEN v = w ELSE Executing(v, i))
  BY <1>1 DEF Executing, Take
<1>3. Stages' = [Stages EXCEPT ![j] = "held"] /\ Stages[j] = "waiting"
  BY DEF Stages, StageOf, Take, Claimable
<1>4. Holders' = [Holders EXCEPT ![j] = {w}] /\ Holders[j] = {}
  BY <1>1, <1>2 DEF Holders
<1>5. attempts' = [attempts EXCEPT ![j] = @ + 1] /\ attempts[j] < MaxAttempts
  BY DEF Take, Claimable
<1>6. QED BY <1>3, <1>4, <1>5 DEF Work!Take, Stages, Holders

\* A thread that leaves its job was the only one on it.
LEMMA LeavingHolder ==
  ASSUME HeldInv, NEW w \in Workers, NEW j \in Jobs, Executing(w, j), Leave(w)
  PROVE  Holders[j] = {w} /\ Holders' = [Holders EXCEPT ![j] = {}]
<1> USE DEF HeldInv, BurialInv, TypeOK
<1>1. \A v \in Workers : Executing(v, j) => v = w
  BY HeldSole DEF SoleExecutor
<1>2. \A v \in Workers, i \in Jobs :
        Executing(v, i)' <=> (IF i = j THEN FALSE ELSE Executing(v, i))
  BY <1>1 DEF Executing, Leave
<1>3. QED BY <1>1, <1>2 DEF Holders

LEMMA FinishImplements ==
  ASSUME HeldInv, NEW w \in Workers, Complete(w) \/ Bury(w) \/ BackOff(w)
  PROVE  Work!Finish(w, on[w]) \/ Work!PutBack(w, on[w])
<1> USE DEF HeldInv, BurialInv, TypeOK
<1>1. on[w] \in Jobs /\ Executing(w, on[w]) /\ status[on[w]] = "running"
  BY DEF HasJob, RunnerHolds, Executing, Complete, Bury, BackOff
<1>2. Holders[on[w]] = {w} /\ Holders' = [Holders EXCEPT ![on[w]] = {}]
  BY <1>1, LeavingHolder DEF Complete, Bury, BackOff
<1>3. seen[w].attempts = attempts[on[w]]
  BY DEF CopyTrue, Row, Complete, Bury, BackOff
<1>4. Stages[on[w]] = "held"
  BY <1>1 DEF Stages, StageOf
<1>5. CASE Complete(w)
  <2>1. Stages' = [Stages EXCEPT ![on[w]] = "done"]
    BY <1>1, <1>5 DEF Stages, StageOf, Complete
  <2>2. QED BY <1>2, <1>4, <1>5, <2>1 DEF Complete, Work!Finish, Stages, Holders
<1>6. CASE Bury(w)
  <2>1. ~(attempts[on[w]] < MaxAttempts)
    BY <1>1, <1>3, <1>6, QueueAssumption DEF Bury, OutOfAttempts
  <2>2. Stages' = [Stages EXCEPT ![on[w]] = "buried"]
    BY <1>1, <1>6 DEF Stages, StageOf, Bury
  <2>3. QED BY <1>2, <1>4, <1>6, <2>1, <2>2 DEF Bury, Work!PutBack, Work!Returned, Stages, Holders
<1>7. CASE BackOff(w)
  <2>1. attempts[on[w]] < MaxAttempts
    BY <1>1, <1>3, <1>7, QueueAssumption DEF BackOff, OutOfAttempts
  <2>2. Stages' = [Stages EXCEPT ![on[w]] = "waiting"]
    BY <1>1, <1>7 DEF Stages, StageOf, BackOff
  <2>3. QED BY <1>2, <1>4, <1>7, <2>1, <2>2 DEF BackOff, Work!PutBack, Work!Returned, Stages, Holders
<1>8. QED BY <1>5, <1>6, <1>7

LEMMA RecoveryImplements ==
  ASSUME HeldInv, NEW w \in Workers, ApplyRecovery(w)
  PROVE  Work!Reclaim(Buried \cup Requeued)
<1> USE DEF HeldInv, BurialInv, TypeOK
<1> DEFINE S == Buried \cup Requeued
<1>1. \A v \in Workers, i \in Jobs : Executing(v, i)' <=> Executing(v, i)
  BY DEF Executing, ApplyRecovery, Leave
<1>2. Holders' = Holders
  BY <1>1 DEF Holders
<1>3. \A j \in S : j \in Jobs /\ Stages[j] = "held" /\ Holders[j] = {}
  BY DEF Buried, Requeued, Stale, RunnerHolds, Stages, StageOf, Holders
<1>4. \A j \in Jobs : Stages'[j] = IF j \in S
        THEN (IF attempts[j] < MaxAttempts THEN "waiting" ELSE "buried") ELSE Stages[j]
  <2>1. \A j \in Jobs : attempts[j] >= MaxAttempts <=> ~(attempts[j] < MaxAttempts)
    BY QueueAssumption
  <2>2. QED BY <2>1 DEF ApplyRecovery, Buried, Requeued, Stages, StageOf
<1>5. Stages' = [j \in Jobs |-> IF j \in S
        THEN (IF attempts[j] < MaxAttempts THEN "waiting" ELSE "buried") ELSE Stages[j]]
  BY <1>4 DEF Stages
<1>6. QED
  BY <1>2, <1>3, <1>5 DEF ApplyRecovery, Work!Reclaim, Work!Returned, Stages, Holders

LEMMA CrashImplements ==
  ASSUME HeldInv, NEW w \in Workers, Crash(w)
  PROVE  (\E j \in Jobs : Work!Lose(w, j)) \/ UNCHANGED Work!vars
<1> USE DEF HeldInv, BurialInv, TypeOK
<1>1. CASE phase[w] \in {"handling", "returned", "raised"}
  <2>1. on[w] \in Jobs /\ Executing(w, on[w]) /\ status[on[w]] = "running"
    BY <1>1 DEF HasJob, RunnerHolds, Executing
  <2>2. Holders[on[w]] = {w} /\ Holders' = [Holders EXCEPT ![on[w]] = {}]
    BY <2>1, LeavingHolder DEF Crash
  <2>3. Stages[on[w]] = "held" /\ Stages' = Stages
    BY <2>1 DEF Stages, StageOf, Crash, rows
  <2>4. Work!Lose(w, on[w])
    BY <2>2, <2>3 DEF Crash, rows, Work!Lose, Stages, Holders
  <2>5. QED BY <2>1, <2>4
<1>2. CASE phase[w] \notin {"handling", "returned", "raised"}
  BY <1>2, StutterImplements DEF Crash, Leave, Executing, rows
<1>3. QED BY <1>1, <1>2

LEMMA StepImplements == HeldInv /\ [Next]_vars => [Work!Next]_(Work!vars)
<1> SUFFICES ASSUME HeldInv, [Next]_vars PROVE Work!Next \/ UNCHANGED Work!vars
  OBVIOUS
<1>1. CASE UNCHANGED vars
  BY <1>1, StutterImplements DEF vars, rows, threads, Executing
<1>2. ASSUME NEW w \in Workers,
         \/ \E t \in Targets : Ask(w, t)
         \/ \E j \in Jobs : Dedupe(w, j)
         \/ FindNone(w) \/ DrainMiss(w) \/ Heartbeat(w) \/ Expire(w) \/ Reload(w)
         \/ Return(w) \/ Raise(w) \/ Disown(w) \/ StartRecovery(w)
      PROVE UNCHANGED Work!vars
  BY <1>2, QuietImplements
<1>3. ASSUME NEW w \in Workers, NEW j \in Jobs, Insert(w, j) PROVE Work!Next
  BY <1>3, InsertImplements DEF Work!Next
<1>4. ASSUME NEW w \in Workers, NEW j \in Jobs, Claim(w, j) \/ Drain(w, j) PROVE Work!Next
  BY <1>4, TakeImplements DEF Claim, Drain, Work!Next
<1>5. ASSUME NEW w \in Workers, Complete(w) \/ Bury(w) \/ BackOff(w) PROVE Work!Next
  <2>1. on[w] \in Jobs
    BY <1>5 DEF HeldInv, BurialInv, HasJob, Complete, Bury, BackOff
  <2>2. QED BY <1>5, <2>1, FinishImplements DEF Work!Next
<1>6. ASSUME NEW w \in Workers, ApplyRecovery(w) PROVE Work!Next
  <2>1. Buried \cup Requeued \in SUBSET Jobs
    BY DEF Buried, Requeued
  <2>2. QED BY <1>6, <2>1, RecoveryImplements DEF Work!Next
<1>7. ASSUME NEW w \in Workers, Crash(w) PROVE Work!Next \/ UNCHANGED Work!vars
  BY <1>7, CrashImplements DEF Work!Next
<1>8. ASSUME NEW j \in Jobs, Age(j) \/ BecomeDue(j) PROVE UNCHANGED Work!vars
  BY <1>8, StutterImplements DEF Age, BecomeDue, threads, Executing
<1>9. QED BY <1>1, <1>2, <1>3, <1>4, <1>5, <1>6, <1>7, <1>8 DEF Next, Finish

\* While heartbeats arrive in time, the rows, the threads and their crashes
\* together behave as the abstract ExclusiveWork: one holder per job, counted
\* attempts, hand-over only from a holder that is done or gone.
THEOREM QueueImplementsExclusiveWork == ASSUME Slow = {} PROVE Spec => ImplementsExclusiveWork
<1>1. QED
  BY InitHeldInv, StepHeldInv, InitImplements, StepImplements, PTL
     DEF Spec, ImplementsExclusiveWork, Work!Spec

-----------------------------------------------------------------------------
(* The pipeline: types.                                                    *)

Enqueueing(w) == phase[w] \in {"asking", "inserting"}
PastAsking(w) == phase[w] \in {"draining", "handling", "returned", "raised"}
Working(w) == phase[w] \in {"handling", "returned", "raised"}

\* A request that is enqueueing knows its workspace, and so does every row and
\* the row of every thread that acts on a job.
TargetsKnown ==
  /\ \A w \in Workers : phase[w] \in {"asking", "inserting"}
                          => w \in Requests /\ wish[w] \in Targets
  /\ \A w \in Workers : phase[w] \in {"draining", "handling", "returned", "raised"}
                          => target[on[w]] \in Targets
  /\ \A j \in Jobs : status[j] # "absent" => target[j] \in Targets

PipelineLocalOK ==
  /\ build \in [Targets -> Builds]
  /\ copy \in [Workers -> Copies]
  /\ dying \in [Workers -> SUBSET Jobs]
  /\ doomed \in [Workers -> SUBSET Targets]
  /\ rearm \in [Workers -> Targets \cup {NoTarget}]
  /\ adrift \subseteq Targets
  /\ racers \in [Targets -> SUBSET Requests]

\* A row that has made all its attempts.
Exhausted(j) == status[j] # "absent" /\ attempts[j] = MaxAttempts

\* A recovery pass lists exhausted rows, and finds their workspaces by them.
Listed == \A w \in Workers :
  /\ \A j \in dying[w] : Exhausted(j)
  /\ \A t \in doomed[w] : \E j \in Jobs : target[j] = t /\ Exhausted(j)

PipelineInv == BurialInv /\ PipelineLocalOK /\ TargetsKnown /\ Listed

LEMMA InitPipelineInv == PipelineInit => PipelineInv
BY InitBurialInv
   DEF PipelineInit, Init, PipelineInv, PipelineLocalOK, TargetsKnown, Listed,
       Builds, Copies

\* Every step of the pipeline is a step of the queue or leaves it alone; only
\* a failed build expires its copy and returns in one step.
LEMMA PipelineStepsQueue ==
  ASSUME PipelineLocalOK, PipelineNext
  PROVE  [Next]_vars \/ \E w \in Workers : BuildFails(w)
<1>1. ASSUME NEW w \in Workers, NEW t \in Targets, Create(w, t) \/ RetryCheck(w, t)
      PROVE  Next \/ UNCHANGED vars
  BY <1>1 DEF Create, RetryCheck, Next
<1>2. ASSUME NEW w \in Workers, RetryCommit(w) PROVE Next
  BY <1>2 DEF RetryCommit, Next, PipelineLocalOK
<1>3. ASSUME NEW w \in Workers, NEW j \in Jobs,
             LoadWorkspace(w) \/ ReloadWorkspace(w) \/ ReadForBurial(w) \/ ReadDying(w, j)
      PROVE  UNCHANGED vars
  BY <1>3 DEF LoadWorkspace, ReloadWorkspace, ReadForBurial, ReadDying
<1>4. ASSUME NEW w \in Workers,
             Progress(w) \/ Conflict(w) \/ BuildSucceeds(w) \/ BuildRaises(w) \/ BuildFindNone(w)
      PROVE  Next
  BY <1>4 DEF Progress, Conflict, BuildSucceeds, BuildRaises, BuildFindNone, Next
<1>5. ASSUME NEW w \in Workers,
             FinishBuild(w) \/ StartBuildRecovery(w) \/ ApplyBuildRecovery(w)
      PROVE  Next
  BY <1>5 DEF FinishBuild, StartBuildRecovery, ApplyBuildRecovery, Next, Finish
<1>6. ASSUME NEW w \in Workers, LoseThread(w) \/ QueueStep(w) PROVE Next \/ UNCHANGED vars
  BY <1>6 DEF LoseThread, QueueStep, Next
<1>7. ASSUME NEW j \in Jobs, TimePasses(j) PROVE Next
  BY <1>7 DEF TimePasses, Next
<1>8. ASSUME NEW w \in Workers, LoadWorkspace(w) \/ ReloadWorkspace(w) \/ ReadForBurial(w)
      PROVE  UNCHANGED vars
  BY <1>8 DEF LoadWorkspace, ReloadWorkspace, ReadForBurial
<1>9. QED
  BY <1>1, <1>2, <1>3, <1>4, <1>5, <1>6, <1>7, <1>8 DEF PipelineNext

LEMMA BuildFailsBurialInv ==
  ASSUME BurialInv, NEW w \in Workers, BuildFails(w)
  PROVE  BurialInv'
BY DEF BuildFails, BurialInv, TypeOK, HasJob, CopyNotAhead, BurialEarned, Phases, rows

\* A queue step hands a workspace on from request to row and never changes it.
LEMMA QueueTargetsKnown ==
  ASSUME BurialInv, TargetsKnown, Next
  PROVE  TargetsKnown'
<1> USE DEF BurialInv, HasJob, TypeOK, TargetsKnown, rows, threads, Leave
<1>1. ASSUME NEW w \in Workers, NEW t \in Targets, Ask(w, t) PROVE TargetsKnown'
  BY <1>1 DEF Ask
<1>2. ASSUME NEW w \in Workers, NEW j \in Jobs, Dedupe(w, j) \/ Insert(w, j)
      PROVE  TargetsKnown'
  BY <1>2 DEF Dedupe, Insert, ActiveFor, Active
<1>3. ASSUME NEW w \in Workers, NEW j \in Jobs, Claim(w, j) \/ Drain(w, j)
      PROVE  TargetsKnown'
  BY <1>3 DEF Claim, Drain, Take, Claimable
<1>4. ASSUME NEW w \in Workers, FindNone(w) \/ DrainMiss(w) \/ Heartbeat(w) \/ Expire(w)
                                \/ Reload(w) \/ Return(w) \/ Raise(w)
      PROVE  TargetsKnown'
  BY <1>4 DEF FindNone, DrainMiss, Heartbeat, Expire, Reload, Return, Raise
<1>5. ASSUME NEW w \in Workers, Disown(w) \/ StartRecovery(w) \/ Crash(w)
      PROVE  TargetsKnown'
  BY <1>5 DEF Disown, StartRecovery, Crash
<1>6. ASSUME NEW w \in Workers, Complete(w) \/ Bury(w) \/ BackOff(w)
      PROVE  TargetsKnown'
  BY <1>6 DEF Complete, Bury, BackOff
<1>7. ASSUME NEW w \in Workers, ApplyRecovery(w) PROVE TargetsKnown'
  BY <1>7 DEF ApplyRecovery, Buried, Requeued, Stale
<1>8. ASSUME NEW j \in Jobs, Age(j) \/ BecomeDue(j) PROVE TargetsKnown'
  BY <1>8 DEF Age, BecomeDue
<1>9. QED
  BY <1>1, <1>2, <1>3, <1>4, <1>5, <1>6, <1>7, <1>8 DEF Next, Finish

\* While a pass is between its SELECT and its UPDATE, no further row becomes
\* stale and exhausted: the cutoff is fixed, and a claim starts a fresh beat.
LEMMA BuriedShrinks ==
  ASSUME BurialInv, NEW v \in Workers, phase[v] = "recovering", Next
  PROVE  Buried' \subseteq Buried
<1> USE DEF BurialInv, TypeOK, HasJob, Buried, Stale, rows, threads
<1>1. ASSUME NEW w \in Workers, NEW t \in Targets, Ask(w, t) PROVE Buried' \subseteq Buried
  BY <1>1 DEF Ask
<1>2. ASSUME NEW w \in Workers, NEW j \in Jobs, Dedupe(w, j) \/ Insert(w, j)
      PROVE  Buried' \subseteq Buried
  BY <1>2 DEF Dedupe, Insert
<1>3. ASSUME NEW w \in Workers, NEW j \in Jobs, Claim(w, j) \/ Drain(w, j)
      PROVE  Buried' \subseteq Buried
  BY <1>3 DEF Claim, Drain, Take, Claimable
<1>4. ASSUME NEW w \in Workers, FindNone(w) \/ DrainMiss(w) \/ Heartbeat(w) \/ Expire(w)
                                \/ Reload(w) \/ Return(w) \/ Raise(w)
      PROVE  Buried' \subseteq Buried
  BY <1>4 DEF FindNone, DrainMiss, Heartbeat, Expire, Reload, Return, Raise
<1>5. ASSUME NEW w \in Workers, Disown(w) \/ StartRecovery(w) \/ Crash(w)
      PROVE  Buried' \subseteq Buried
  BY <1>5 DEF Disown, StartRecovery, Crash
<1>6. ASSUME NEW w \in Workers, Complete(w) \/ Bury(w) \/ BackOff(w)
      PROVE  Buried' \subseteq Buried
  BY <1>6 DEF Complete, Bury, BackOff
<1>7. ASSUME NEW w \in Workers, ApplyRecovery(w) PROVE Buried' \subseteq Buried
  BY <1>7 DEF ApplyRecovery, Requeued
<1>8. ASSUME NEW j \in Jobs, Age(j) \/ BecomeDue(j) PROVE Buried' \subseteq Buried
  BY <1>8 DEF Age, BecomeDue
<1>9. QED
  BY <1>1, <1>2, <1>3, <1>4, <1>5, <1>6, <1>7, <1>8 DEF Next, Finish

LEMMA StepLocalOK == ASSUME PipelineInv, PipelineNext PROVE PipelineLocalOK'
<1> USE DEF PipelineInv, BurialInv, TypeOK, PipelineLocalOK, pipeline, local, history, Builds, Copies
<1>0. ASSUME NEW w \in Workers, Enqueueing(w) PROVE wish[w] \in Targets
  BY <1>0 DEF TargetsKnown, Enqueueing
<1>1. ASSUME NEW w \in Workers, NEW t \in Targets, Create(w, t) \/ RetryCheck(w, t)
      PROVE  PipelineLocalOK'
  BY <1>1 DEF Create, RetryCheck
<1>2. ASSUME NEW w \in Workers, RetryCommit(w) PROVE PipelineLocalOK'
  BY <1>2 DEF RetryCommit
<1>3. ASSUME NEW w \in Workers, LoadWorkspace(w) \/ ReloadWorkspace(w) \/ ReadForBurial(w)
      PROVE  PipelineLocalOK'
  <2>1. target[on[w]] \in Targets
    BY <1>3 DEF TargetsKnown, LoadWorkspace, ReloadWorkspace, ReadForBurial
  <2>2. QED BY <1>3, <2>1 DEF LoadWorkspace, ReloadWorkspace, ReadForBurial
<1>4. ASSUME NEW w \in Workers,
             Progress(w) \/ Conflict(w) \/ BuildSucceeds(w) \/ BuildFails(w) \/ BuildRaises(w)
      PROVE  PipelineLocalOK'
  BY <1>4 DEF Progress, Conflict, BuildSucceeds, BuildFails, BuildRaises
<1>5. ASSUME NEW w \in Workers, FinishBuild(w) \/ ApplyBuildRecovery(w) PROVE PipelineLocalOK'
  BY <1>5 DEF FinishBuild, ApplyBuildRecovery, Forget, FailWorkspaces
<1>6. ASSUME NEW w \in Workers, StartBuildRecovery(w) PROVE PipelineLocalOK'
  BY <1>6 DEF StartBuildRecovery, Buried
<1>7. ASSUME NEW w \in Workers, NEW j \in Jobs, ReadDying(w, j) PROVE PipelineLocalOK'
  <2>1. target[j] \in Targets
    BY <1>7 DEF ReadDying, Listed, Exhausted, TargetsKnown
  <2>2. QED BY <1>7, <2>1 DEF ReadDying
<1>8. ASSUME NEW w \in Workers, LoseThread(w) PROVE PipelineLocalOK'
  BY <1>0, <1>8 DEF LoseThread, Forget, Enqueueing
<1>9. ASSUME NEW w \in Workers, BuildFindNone(w) PROVE PipelineLocalOK'
  <2>1. Pending(wish[w]) \cup {w} \subseteq Requests
    BY <1>9 DEF Pending, BuildFindNone, FindNone, TargetsKnown
  <2>2. QED BY <1>9, <2>1 DEF BuildFindNone
<1>10. ASSUME NEW w \in Workers, QueueStep(w) PROVE PipelineLocalOK'
  BY <1>10 DEF QueueStep
<1>11. ASSUME NEW j \in Jobs, TimePasses(j) PROVE PipelineLocalOK'
  BY <1>11 DEF TimePasses
<1>12. QED
  BY <1>1, <1>2, <1>3, <1>4, <1>5, <1>6, <1>7, <1>8, <1>9, <1>10, <1>11 DEF PipelineNext

\* An exhausted row stays one: claims count up to max_attempts only.
LEMMA ExhaustedStays ==
  ASSUME BurialInv, [Next]_vars \/ (\E w \in Workers : BuildFails(w)), NEW j \in Jobs, Exhausted(j)
  PROVE  Exhausted(j)' /\ target'[j] = target[j]
<1> USE DEF BurialInv, TypeOK, HasJob, Exhausted, rows, threads
<1> DEFINE Goal == Exhausted(j)' /\ target'[j] = target[j]
<1>1. ASSUME NEW w \in Workers, NEW t \in Targets, Ask(w, t) PROVE Goal
  BY <1>1 DEF Ask
<1>2. ASSUME NEW w \in Workers, NEW i \in Jobs, Dedupe(w, i) \/ Insert(w, i) PROVE Goal
  BY <1>2 DEF Dedupe, Insert
<1>3. ASSUME NEW w \in Workers, NEW i \in Jobs, Claim(w, i) \/ Drain(w, i) PROVE Goal
  <2>1. i # j
    BY <1>3, QueueAssumption DEF Claim, Drain, Take, Claimable
  <2>2. QED BY <1>3, <2>1 DEF Claim, Drain, Take
<1>4. ASSUME NEW w \in Workers, FindNone(w) \/ DrainMiss(w) \/ Heartbeat(w) \/ Expire(w)
                                \/ Reload(w) \/ Return(w) \/ Raise(w) \/ BuildFails(w)
      PROVE  Goal
  BY <1>4 DEF FindNone, DrainMiss, Heartbeat, Expire, Reload, Return, Raise, BuildFails
<1>5. ASSUME NEW w \in Workers, Disown(w) \/ StartRecovery(w) \/ Crash(w) PROVE Goal
  BY <1>5 DEF Disown, StartRecovery, Crash
<1>6. ASSUME NEW w \in Workers, Complete(w) \/ Bury(w) \/ BackOff(w) PROVE Goal
  BY <1>6 DEF Complete, Bury, BackOff
<1>7. ASSUME NEW w \in Workers, ApplyRecovery(w) PROVE Goal
  BY <1>7 DEF ApplyRecovery, Buried, Requeued
<1>8. ASSUME NEW i \in Jobs, Age(i) \/ BecomeDue(i) PROVE Goal
  BY <1>8 DEF Age, BecomeDue
<1>9. CASE UNCHANGED vars BY <1>9 DEF vars
<1>10. QED
  BY <1>1, <1>2, <1>3, <1>4, <1>5, <1>6, <1>7, <1>8, <1>9 DEF Next, Finish

\* What a pass does to its lists.
LEMMA PassMoves ==
  ASSUME PipelineInv, PipelineNext, NEW v \in Workers
  PROVE  \/ dying'[v] = dying[v] /\ doomed'[v] = doomed[v] /\ ~StartBuildRecovery(v)
            /\ (phase'[v] = "recovering" => phase[v] = "recovering")
         \/ dying'[v] = {} /\ doomed'[v] = {} /\ phase'[v] # "recovering"
         \/ StartBuildRecovery(v)
         \/ \E j \in Jobs : ReadDying(v, j)
<1> USE DEF PipelineInv, BurialInv, TypeOK, PipelineLocalOK, pipeline, local, history, rows, threads, vars
<1> DEFINE Goal == \/ dying'[v] = dying[v] /\ doomed'[v] = doomed[v] /\ ~StartBuildRecovery(v)
                      /\ (phase'[v] = "recovering" => phase[v] = "recovering")
                   \/ dying'[v] = {} /\ doomed'[v] = {} /\ phase'[v] # "recovering"
                   \/ StartBuildRecovery(v)
                   \/ \E j \in Jobs : ReadDying(v, j)
<1>1. ASSUME NEW w \in Workers, NEW t \in Targets, Create(w, t) \/ RetryCheck(w, t) PROVE Goal
  BY <1>1 DEF Create, RetryCheck, Ask
<1>2. ASSUME NEW w \in Workers,
             \/ RetryCommit(w) \/ LoadWorkspace(w) \/ ReloadWorkspace(w) \/ Progress(w) \/ Conflict(w)
             \/ BuildSucceeds(w) \/ BuildFails(w) \/ BuildRaises(w) \/ ReadForBurial(w)
             \/ BuildFindNone(w)
      PROVE  Goal
  BY <1>2 DEF RetryCommit, Ask, LoadWorkspace, ReloadWorkspace, Progress, Conflict, BuildSucceeds,
              BuildFails, BuildRaises, ReadForBurial, BuildFindNone, Heartbeat, Expire, Return, Raise,
              FindNone
<1>3. ASSUME NEW w \in Workers, FinishBuild(w) \/ ApplyBuildRecovery(w) \/ LoseThread(w) PROVE Goal
  <2>1. phase'[w] # "recovering"
    BY <1>3 DEF FinishBuild, ApplyBuildRecovery, LoseThread, Leave, Complete, BackOff, Disown, Bury,
                ApplyRecovery, Crash
  <2>2. CASE v = w
    BY <1>3, <2>1, <2>2 DEF FinishBuild, ApplyBuildRecovery, LoseThread, Forget
  <2>3. CASE v # w
    <3>1. dying'[v] = dying[v] /\ doomed'[v] = doomed[v] /\ phase'[v] = phase[v]
      BY <1>3, <2>3 DEF FinishBuild, ApplyBuildRecovery, LoseThread, Forget, Leave, Complete, BackOff,
                        Disown, Bury, ApplyRecovery, Crash
    <3>2. QED BY <3>1
  <2>4. QED BY <2>2, <2>3
<1>4. ASSUME NEW w \in Workers, StartBuildRecovery(w) PROVE Goal
  BY <1>4 DEF StartBuildRecovery, StartRecovery
<1>5. ASSUME NEW w \in Workers, NEW j \in Jobs, ReadDying(w, j) PROVE Goal
  BY <1>5 DEF ReadDying
<1>6. ASSUME NEW w \in Workers, QueueStep(w) PROVE Goal
  BY <1>6 DEF QueueStep, Dedupe, Insert, Claim, Drain, Take, DrainMiss, Reload, Leave
<1>7. ASSUME NEW j \in Jobs, TimePasses(j) PROVE Goal
  BY <1>7 DEF TimePasses, Age, BecomeDue
<1>8. QED
  BY <1>1, <1>2, <1>3, <1>4, <1>5, <1>6, <1>7 DEF PipelineNext

LEMMA StepListed == ASSUME PipelineInv, PipelineNext PROVE Listed'
<1> SUFFICES ASSUME NEW v \in Workers
             PROVE  /\ \A j \in dying'[v] : Exhausted(j)'
                    /\ \A t \in doomed'[v] : \E j \in Jobs : target'[j] = t /\ Exhausted(j)'
  BY DEF Listed
<1>0. \A j \in Jobs : Exhausted(j) => Exhausted(j)' /\ target'[j] = target[j]
  BY PipelineStepsQueue, ExhaustedStays DEF PipelineInv
<1>1. dying[v] \subseteq Jobs
  BY DEF PipelineInv, PipelineLocalOK
<1>2. CASE dying'[v] \subseteq dying[v] /\ doomed'[v] \subseteq doomed[v]
  BY <1>0, <1>1, <1>2 DEF PipelineInv, Listed
<1>3. CASE StartBuildRecovery(v)
  <2>1. dying'[v] = Buried /\ doomed'[v] = doomed[v]
    BY <1>3 DEF StartBuildRecovery, PipelineInv, PipelineLocalOK
  <2>2. \A j \in Buried : j \in Jobs /\ Exhausted(j)
    BY QueueAssumption DEF Buried, Stale, Exhausted, PipelineInv, BurialInv, TypeOK
  <2>3. QED BY <1>0, <2>1, <2>2 DEF PipelineInv, Listed
<1>4. ASSUME NEW i \in Jobs, ReadDying(v, i)
      PROVE  /\ \A j \in dying'[v] : Exhausted(j)'
             /\ \A t \in doomed'[v] : \E j \in Jobs : target'[j] = t /\ Exhausted(j)'
  <2>1. dying'[v] \subseteq dying[v] /\ doomed'[v] \subseteq doomed[v] \cup {target[i]}
    BY <1>4 DEF ReadDying, PipelineInv, PipelineLocalOK
  <2>2. Exhausted(i)
    BY <1>4 DEF ReadDying, PipelineInv, Listed
  <2>3. QED BY <1>0, <1>1, <2>1, <2>2 DEF PipelineInv, Listed
<1>5. QED BY <1>2, <1>3, <1>4, PassMoves

LEMMA StepPipelineInv == PipelineInv /\ [PipelineNext]_allVars => PipelineInv'
<1> SUFFICES ASSUME PipelineInv, [PipelineNext]_allVars PROVE PipelineInv'
  OBVIOUS
<1>1. CASE UNCHANGED allVars
  <2>1. BurialInv'
    BY <1>1, StepBurialInv DEF allVars, PipelineInv
  <2>2. QED
    BY <1>1, <2>1 DEF allVars, vars, rows, threads, pipeline, local, history, PipelineInv,
                      PipelineLocalOK, TargetsKnown, Listed, Exhausted
<1>2. CASE PipelineNext
  <2>1. PipelineLocalOK' /\ Listed'
    BY <1>2, StepLocalOK, StepListed
  <2>2. BurialInv'
    BY <1>2, PipelineStepsQueue, StepBurialInv, BuildFailsBurialInv DEF PipelineInv
  <2>3. Next \/ UNCHANGED vars \/ \E w \in Workers : BuildFails(w)
    BY <1>2, PipelineStepsQueue DEF PipelineInv
  <2>4. TargetsKnown'
    <3>1. CASE Next BY <3>1, QueueTargetsKnown DEF PipelineInv
    <3>2. CASE UNCHANGED vars BY <3>2 DEF vars, rows, threads, PipelineInv, TargetsKnown
    <3>3. CASE \E w \in Workers : BuildFails(w)
      BY <3>3 DEF BuildFails, rows, PipelineInv, BurialInv, TypeOK, TargetsKnown
    <3>4. QED BY <2>3, <3>1, <3>2, <3>3
  <2>5. QED BY <2>1, <2>2, <2>4 DEF PipelineInv
<1>3. QED BY <1>1, <1>2

\* Every reachable state of the pipeline is well typed.
THEOREM PipelineTypeCorrect == PipelineSpec => []PipelineTypeOK
<1>1. PipelineInv => PipelineTypeOK
  BY DEF PipelineInv, BurialInv, PipelineLocalOK, PipelineTypeOK
<1>2. QED BY InitPipelineInv, StepPipelineInv, <1>1, PTL DEF PipelineSpec

\* Stale recovery fails a building workspace only if one of its jobs has made
\* its last attempt, with any number of passes and workers, however slow.
THEOREM RecoveryFailsOnlyItsOwn == PipelineSpec => RecoveryFailsOnlyExhausted
<1>1. ASSUME PipelineInv, PipelineNext, NEW w \in Pollers, NEW t \in Targets,
             phase[w] = "recovering", phase'[w] = "idle",
             build[t] = "building", build'[t] = "failed"
      PROVE  \E j \in Jobs : target[j] = t /\ attempts[j] = MaxAttempts
  <2>4. Listed
    BY <1>1 DEF PipelineInv
  <2> USE DEF PipelineInv, BurialInv, TypeOK, PipelineLocalOK, pipeline, local, history, rows, threads, vars
  <2>1. w \in Workers
    BY DEF Workers
  <2>2. ApplyBuildRecovery(w)
    <3>1. ASSUME NEW v \in Workers, NEW s \in Targets, Create(v, s) \/ RetryCheck(v, s) PROVE FALSE
      BY <1>1, <2>1, <3>1 DEF Create, RetryCheck, Ask
    <3>2. ASSUME NEW v \in Workers,
                 \/ RetryCommit(v) \/ LoadWorkspace(v) \/ ReloadWorkspace(v) \/ Progress(v)
                 \/ Conflict(v) \/ BuildSucceeds(v) \/ BuildFails(v) \/ BuildRaises(v)
                 \/ StartBuildRecovery(v) \/ ReadForBurial(v) \/ BuildFindNone(v)
          PROVE  FALSE
      BY <1>1, <2>1, <3>2 DEF RetryCommit, Ask, LoadWorkspace, ReloadWorkspace, Progress, Conflict,
         BuildSucceeds, BuildFails, BuildRaises, Heartbeat, Expire, Return, Raise,
         StartBuildRecovery, StartRecovery, ReadForBurial, BuildFindNone, FindNone
    <3>3. ASSUME NEW v \in Workers, FinishBuild(v) PROVE FALSE
      BY <1>1, <2>1, <3>3 DEF FinishBuild, Forget, Leave, Complete, BackOff, Disown, Bury
    <3>4. ASSUME NEW v \in Workers, NEW j \in Jobs, LoseThread(v) \/ QueueStep(v) \/ ReadDying(v, j)
          PROVE  FALSE
      BY <1>1, <2>1, <3>4 DEF LoseThread, QueueStep, ReadDying
    <3>5. ASSUME NEW j \in Jobs, TimePasses(j) PROVE FALSE
      BY <1>1, <3>5 DEF TimePasses
    <3>6. ASSUME NEW v \in Workers, ApplyBuildRecovery(v) PROVE v = w
      BY <1>1, <2>1, <3>6 DEF ApplyBuildRecovery, ApplyRecovery, Leave
    <3>7. ASSUME NEW v \in Workers, LoseThread(v) \/ QueueStep(v) PROVE FALSE
      BY <1>1, <3>7 DEF LoseThread, QueueStep
    <3>8. QED BY <1>1, <3>1, <3>2, <3>3, <3>4, <3>5, <3>6, <3>7 DEF PipelineNext
  <2>3. t \in doomed[w]
    BY <1>1, <2>2 DEF ApplyBuildRecovery, FailWorkspaces
  <2>5. PICK j \in Jobs : target[j] = t /\ Exhausted(j)
    BY <2>1, <2>3, <2>4 DEF Listed
  <2>6. QED BY <2>5 DEF Exhausted
<1>2. PipelineInv /\ [PipelineNext]_allVars =>
        [\A w \in Pollers, t \in Targets :
           (/\ phase[w] = "recovering" /\ phase'[w] = "idle"
            /\ build[t] = "building" /\ build'[t] = "failed")
             => \E j \in Jobs : target[j] = t /\ attempts[j] = MaxAttempts]_allVars
  BY <1>1
<1>3. QED
  BY InitPipelineInv, StepPipelineInv, <1>2, PTL DEF PipelineSpec, RecoveryFailsOnlyExhausted

-----------------------------------------------------------------------------
(* No workspace is forgotten in "building".  Whatever reads a workspace    *)
(* and acts on it later (a builder that has read "ready", fail, a recovery *)
(* pass) works on an active job meanwhile, or is still executing one: a    *)
(* retry that changes the workspace under it is accepted in flight.        *)

\* The workspace is out of "building", or the API has set it adrift.
Safe(t) == build[t] # "building" \/ t \in adrift
SafeNext(t) == build'[t] # "building" \/ t \in adrift'

\* Workspaces exist before a job or a request names them, rows are in the
\* table before a thread works on them, and only a worker has loaded one.
RowsKnown ==
  /\ \A w \in Workers : rearm[w] # NoTarget => build[rearm[w]] # "absent"
  /\ \A w \in Workers : Enqueueing(w) => build[wish[w]] # "absent"
  /\ \A j \in Jobs : status[j] # "absent" => build[target[j]] # "absent"
  /\ \A w \in Workers : PastAsking(w) => status[on[w]] # "absent"
  /\ \A w \in Workers : copy[w] # "unloaded" => Working(w)

\* A thread that will end its job without another look at the workspace.
Ended(w) ==
  \/ phase[w] = "returned"
  \/ phase[w] = "handling" /\ copy[w] = "ready"
  \/ phase[w] = "raised" /\ copy[w] \notin {"unloaded", "building"}

BuildEnded == \A w \in Workers : Ended(w) => Safe(target[on[w]])

\* What a pass is about to bury it has still to read, or has read.
DyingRead == \A w \in Workers : phase[w] = "recovering" =>
  \A j \in Buried \ dying[w] : target[j] \in doomed[w] \/ Safe(target[j])

BackedInv == PipelineInv /\ RowsKnown /\ BuildEnded /\ DyingRead /\ BuildingIsBacked

LEMMA InitBackedInv == PipelineInit => BackedInv
<1> SUFFICES ASSUME PipelineInit PROVE BackedInv
  OBVIOUS
<1>1. RowsKnown /\ BuildEnded /\ DyingRead /\ BuildingIsBacked
  BY DEF PipelineInit, Init, RowsKnown, BuildEnded, Ended, DyingRead, BuildingIsBacked, Enqueueing,
         PastAsking
<1>2. QED BY <1>1, InitPipelineInv DEF BackedInv

\* A workspace comes to be building by its creation or by a retry, and stays
\* in the table; it is taken off the list of those adrift by a retry alone.
LEMMA BuildMoves ==
  ASSUME PipelineInv, PipelineNext, NEW t \in Targets
  PROVE  /\ build[t] # "absent" => build'[t] # "absent"
         /\ \/ Safe(t) => SafeNext(t)
            \/ build[t] = "absent" /\ \E w \in Workers : Create(w, t)
            \/ \E w \in Workers : RetryCommit(w) /\ rearm[w] = t /\ (InFlight(t) => t \in adrift')
         /\ t \in adrift /\ t \notin adrift' =>
              \E w \in Workers : RetryCommit(w) /\ rearm[w] = t
         /\ build'[t] = "building" =>
              \/ build[t] = "building"
              \/ \E w \in Workers : Create(w, t)
              \/ \E w \in Workers : RetryCommit(w) /\ rearm[w] = t
<1> USE DEF PipelineInv, PipelineLocalOK, pipeline, local, history
<1> DEFINE Retried == \E w \in Workers : RetryCommit(w) /\ rearm[w] = t /\ (InFlight(t) => t \in adrift')
           Created == build[t] = "absent" /\ \E w \in Workers : Create(w, t)
           Kept == /\ build[t] # "absent" => build'[t] # "absent"
                   /\ build'[t] = "building" => build[t] = "building"
                   /\ t \in adrift => t \in adrift'
           Goal == \/ Kept
                   \/ Created /\ build'[t] # "absent" /\ adrift' = adrift
                   \/ Retried /\ build'[t] # "absent"
<1>1. ASSUME NEW w \in Workers, NEW s \in Targets, Create(w, s) PROVE Goal
  BY <1>1 DEF Create
<1>2. ASSUME NEW w \in Workers, NEW s \in Targets, RetryCheck(w, s) PROVE Kept
  BY <1>2 DEF RetryCheck
<1>3. ASSUME NEW w \in Workers, RetryCommit(w) PROVE Goal
  <2>1. rearm[w] \in Targets
    BY <1>3 DEF RetryCommit
  <2>2. CASE rearm[w] = t
    <3>1. InFlight(t) => t \in adrift'
      BY <1>3, <2>2 DEF RetryCommit
    <3>2. build'[t] # "absent"
      BY <1>3, <2>2 DEF RetryCommit
    <3>3. QED BY <1>3, <2>2, <3>1, <3>2
  <2>3. CASE rearm[w] # t
    BY <1>3, <2>1, <2>3 DEF RetryCommit
  <2>4. QED BY <2>2, <2>3
<1>4. ASSUME NEW w \in Workers, BuildSucceeds(w) \/ BuildFails(w) PROVE Kept
  BY <1>4 DEF BuildSucceeds, BuildFails
<1>5. ASSUME NEW j \in Jobs, TimePasses(j) \/ \E w \in Workers : ReadDying(w, j) PROVE Kept
  BY <1>5 DEF TimePasses, ReadDying
<1>6. ASSUME NEW w \in Workers,
             \/ LoadWorkspace(w) \/ ReloadWorkspace(w) \/ Progress(w) \/ Conflict(w)
             \/ BuildRaises(w) \/ ReadForBurial(w) \/ StartBuildRecovery(w)
             \/ LoseThread(w) \/ BuildFindNone(w) \/ QueueStep(w)
      PROVE  Kept
  BY <1>6 DEF LoadWorkspace, ReloadWorkspace, Progress, Conflict, BuildRaises, ReadForBurial,
              StartBuildRecovery, LoseThread, BuildFindNone, QueueStep
<1>7. ASSUME NEW w \in Workers, FinishBuild(w) \/ ApplyBuildRecovery(w) PROVE Kept
  BY <1>7 DEF FinishBuild, ApplyBuildRecovery, FailWorkspaces
<1>8. Goal
  BY <1>1, <1>2, <1>3, <1>4, <1>5, <1>6, <1>7 DEF PipelineNext
<1>9. QED
  <2>1. CASE Kept BY <2>1 DEF Safe, SafeNext
  <2>2. CASE Created /\ build'[t] # "absent" /\ adrift' = adrift BY <2>2
  <2>3. CASE Retried /\ build'[t] # "absent" BY <2>3
  <2>4. QED BY <1>8, <2>1, <2>2, <2>3

LEMMA StaysInTable ==
  ASSUME PipelineInv, PipelineNext, NEW t \in Targets, build[t] # "absent"
  PROVE  build'[t] # "absent"
BY BuildMoves

\* What is out of building stays so while something of it is in flight.
LEMMA SafeInFlight ==
  ASSUME PipelineInv, PipelineNext, NEW t \in Targets, build[t] # "absent", Safe(t), InFlight(t)
  PROVE  SafeNext(t)
BY BuildMoves DEF Safe, SafeNext

\* Rows stay in the table, under their workspace; a new one is inserted by a
\* request, for the workspace it wishes for.
LEMMA RowsStay ==
  ASSUME PipelineInv, RowsKnown, PipelineNext, NEW j \in Jobs
  PROVE  /\ status[j] # "absent" => status'[j] # "absent" /\ target'[j] = target[j]
         /\ status'[j] # "absent" => \/ status[j] # "absent"
                                     \/ \E w \in Workers : Insert(w, j) /\ UNCHANGED build
<1> USE DEF PipelineInv, BurialInv, TypeOK, rows, threads, vars, pipeline, local
<1> DEFINE Goal == /\ status[j] # "absent" => status'[j] # "absent" /\ target'[j] = target[j]
                   /\ status'[j] # "absent" => \/ status[j] # "absent"
                                               \/ \E w \in Workers : Insert(w, j) /\ UNCHANGED build
<1>1. ASSUME NEW w \in Workers, NEW t \in Targets, Create(w, t) \/ RetryCheck(w, t) PROVE Goal
  BY <1>1 DEF Create, RetryCheck, Ask
<1>2. ASSUME NEW w \in Workers,
             \/ RetryCommit(w) \/ LoadWorkspace(w) \/ ReloadWorkspace(w) \/ Progress(w)
             \/ Conflict(w) \/ BuildSucceeds(w) \/ BuildFails(w) \/ BuildRaises(w)
             \/ ReadForBurial(w) \/ StartBuildRecovery(w) \/ BuildFindNone(w)
      PROVE  Goal
  BY <1>2 DEF RetryCommit, Ask, LoadWorkspace, ReloadWorkspace, Progress, Conflict, BuildSucceeds,
              BuildFails, BuildRaises, ReadForBurial, StartBuildRecovery, BuildFindNone, Heartbeat,
              Expire, Return, Raise, StartRecovery, FindNone
<1>3. ASSUME NEW w \in Workers, FinishBuild(w) PROVE Goal
  <2>1. status[on[w]] # "absent"
    BY <1>3 DEF FinishBuild, Complete, Bury, BackOff, Disown, RowsKnown, PastAsking
  <2>2. QED BY <1>3, <2>1 DEF FinishBuild, Complete, Bury, BackOff, Disown
<1>4. ASSUME NEW w \in Workers, ApplyBuildRecovery(w) PROVE Goal
  BY <1>4 DEF ApplyBuildRecovery, ApplyRecovery, Buried, Requeued, Stale
<1>5. ASSUME NEW w \in Workers, LoseThread(w) \/ \E i \in Jobs : ReadDying(w, i) PROVE Goal
  BY <1>5 DEF LoseThread, Crash, ReadDying
<1>6. ASSUME NEW w \in Workers, QueueStep(w) PROVE Goal
  <2>1. ASSUME NEW i \in Jobs, Insert(w, i), UNCHANGED pipeline PROVE Goal
    BY <2>1 DEF Insert
  <2>2. ASSUME NEW i \in Jobs, Claim(w, i) \/ Drain(w, i) PROVE Goal
    BY <2>2 DEF Claim, Drain, Take, Claimable
  <2>3. ASSUME NEW i \in Jobs, Dedupe(w, i) PROVE Goal
    BY <2>3 DEF Dedupe
  <2>4. ASSUME DrainMiss(w) \/ Reload(w) PROVE Goal
    BY <2>4 DEF DrainMiss, Reload
  <2>5. QED BY <1>6, <2>1, <2>2, <2>3, <2>4 DEF QueueStep
<1>7. ASSUME NEW i \in Jobs, TimePasses(i) PROVE Goal
  BY <1>7 DEF TimePasses, Age, BecomeDue
<1>8. QED BY <1>1, <1>2, <1>3, <1>4, <1>5, <1>6, <1>7 DEF PipelineNext

\* A thread comes to enqueue for a workspace it has just set to building, to
\* a job by finding its row, and to a copy of the workspace by working.
LEMMA ThreadsMove ==
  ASSUME PipelineInv, RowsKnown, PipelineNext, NEW w \in Workers
  PROVE  /\ rearm'[w] # NoTarget => \/ rearm'[w] = rearm[w]
                                    \/ rearm'[w] \in Targets /\ build'[rearm'[w]] # "absent"
         /\ Enqueueing(w)' => \/ Enqueueing(w) /\ wish'[w] = wish[w]
                              \/ build'[wish'[w]] # "absent"
         /\ PastAsking(w)' => \/ PastAsking(w) /\ on'[w] = on[w]
                              \/ on'[w] \in Jobs /\ status'[on'[w]] # "absent"
         /\ copy'[w] # "unloaded" => Working(w)'
<1> USE DEF PipelineInv, BurialInv, TypeOK, PipelineLocalOK, RowsKnown, Enqueueing, PastAsking,
            Working, rows, threads, vars, pipeline, local, history
<1> DEFINE Goal == /\ rearm'[w] # NoTarget =>
                        \/ rearm'[w] = rearm[w]
                        \/ rearm'[w] \in Targets /\ build'[rearm'[w]] # "absent"
                   /\ Enqueueing(w)' => \/ Enqueueing(w) /\ wish'[w] = wish[w]
                                        \/ build'[wish'[w]] # "absent"
                   /\ PastAsking(w)' => \/ PastAsking(w) /\ on'[w] = on[w]
                                        \/ on'[w] \in Jobs /\ status'[on'[w]] # "absent"
                   /\ copy'[w] # "unloaded" => Working(w)'
<1>1. ASSUME NEW v \in Workers, NEW t \in Targets, Create(v, t) PROVE Goal
  BY <1>1 DEF Create, Ask
<1>2. ASSUME NEW v \in Workers, NEW t \in Targets, RetryCheck(v, t) PROVE Goal
  BY <1>2 DEF RetryCheck
<1>3. ASSUME NEW v \in Workers, RetryCommit(v) PROVE Goal
  BY <1>3 DEF RetryCommit, Ask
<1>4. ASSUME NEW j \in Jobs, TimePasses(j) PROVE Goal
  BY <1>4 DEF TimePasses, Age, BecomeDue
<1>5. ASSUME NEW v \in Workers, BuildSucceeds(v) \/ BuildFails(v) \/ BuildRaises(v) PROVE Goal
  BY <1>5 DEF BuildSucceeds, BuildFails, BuildRaises, Return, Raise
<1>6. ASSUME NEW v \in Workers, FinishBuild(v) \/ ApplyBuildRecovery(v) \/ LoseThread(v) PROVE Goal
  BY <1>6 DEF FinishBuild, ApplyBuildRecovery, LoseThread, Forget, Leave, Complete, BackOff,
              Disown, Bury, ApplyRecovery, Crash
<1>7. ASSUME NEW v \in Workers, QueueStep(v) PROVE Goal
  <2>1. ASSUME NEW j \in Jobs, Insert(v, j) \/ Dedupe(v, j) \/ Claim(v, j) \/ Drain(v, j),
               UNCHANGED pipeline
        PROVE  Goal
    BY <2>1 DEF Insert, Dedupe, Claim, Drain, Take, ActiveFor, Active
  <2>2. ASSUME DrainMiss(v) \/ Reload(v), UNCHANGED pipeline PROVE Goal
    BY <2>2 DEF DrainMiss, Reload, Leave
  <2>3. QED BY <1>7, <2>1, <2>2 DEF QueueStep
<1>8. ASSUME NEW v \in Workers, NEW j \in Jobs, ReadDying(v, j) PROVE Goal
  BY <1>8 DEF ReadDying
<1>9. ASSUME NEW v \in Workers,
             \/ LoadWorkspace(v) \/ ReloadWorkspace(v) \/ Progress(v) \/ Conflict(v)
             \/ ReadForBurial(v) \/ StartBuildRecovery(v) \/ BuildFindNone(v)
      PROVE  Goal
  BY <1>9 DEF LoadWorkspace, ReloadWorkspace, Progress, Conflict, ReadForBurial, StartBuildRecovery,
              BuildFindNone, Heartbeat, Expire, StartRecovery, FindNone
<1>10. QED
  BY <1>1, <1>2, <1>3, <1>4, <1>5, <1>6, <1>7, <1>8, <1>9 DEF PipelineNext

LEMMA StepRowsKnown ==
  ASSUME PipelineInv, PipelineInv', RowsKnown, PipelineNext
  PROVE  RowsKnown'
<1>1. ASSUME NEW w \in Workers
      PROVE  /\ Enqueueing(w)' => build'[wish'[w]] # "absent"
             /\ rearm'[w] # NoTarget => build'[rearm'[w]] # "absent"
             /\ copy'[w] # "unloaded" => Working(w)'
  <2>1. ASSUME Enqueueing(w), wish'[w] = wish[w] PROVE build'[wish'[w]] # "absent"
    <3>1. wish[w] \in Targets /\ build[wish[w]] # "absent"
      BY <2>1 DEF RowsKnown, PipelineInv, TargetsKnown, Enqueueing
    <3>2. PICK t \in Targets : t = wish[w]
      BY <3>1
    <3>3. build'[t] # "absent"
      BY <3>1, <3>2, StaysInTable
    <3>4. wish'[w] = t /\ build'[t] # "absent"
      BY <2>1, <3>2, <3>3
    <3>5. QED BY <3>4
  <2>2. Enqueueing(w)' => build'[wish'[w]] # "absent"
    BY <2>1, ThreadsMove
  <2>3. ASSUME rearm[w] # NoTarget, rearm'[w] = rearm[w] PROVE build'[rearm'[w]] # "absent"
    <3>1. rearm[w] \in Targets /\ build[rearm[w]] # "absent"
      BY <2>3 DEF RowsKnown, PipelineInv, PipelineLocalOK
    <3>2. PICK t \in Targets : t = rearm[w]
      BY <3>1
    <3>3. build'[t] # "absent"
      BY <3>1, <3>2, StaysInTable
    <3>4. rearm'[w] = t /\ build'[t] # "absent"
      BY <2>3, <3>2, <3>3
    <3>5. QED BY <3>4
  <2>4. rearm'[w] # NoTarget => build'[rearm'[w]] # "absent"
    BY <2>3, ThreadsMove
  <2>5. QED BY <2>2, <2>4, ThreadsMove
<1>2. ASSUME NEW j \in Jobs, status'[j] # "absent" PROVE build'[target'[j]] # "absent"
  <2>1. CASE status[j] # "absent"
    <3>1. target'[j] = target[j] /\ target[j] \in Targets /\ build[target[j]] # "absent"
      BY <2>1, RowsStay DEF RowsKnown, PipelineInv, TargetsKnown
    <3>2. PICK t \in Targets : t = target[j]
      BY <3>1
    <3>3. build'[t] # "absent"
      BY <3>1, <3>2, StaysInTable
    <3>4. QED BY <3>1, <3>2, <3>3
  <2>2. CASE status[j] = "absent"
    <3>1. PICK w \in Workers : Insert(w, j) /\ UNCHANGED build
      BY <1>2, <2>2, RowsStay
    <3>2. target'[j] = wish[w] /\ build[wish[w]] # "absent"
      BY <3>1 DEF Insert, RowsKnown, Enqueueing, PipelineInv, BurialInv, TypeOK
    <3>3. QED BY <3>1, <3>2
  <2>3. QED BY <2>1, <2>2
<1>3. ASSUME NEW w \in Workers, PastAsking(w)' PROVE status'[on'[w]] # "absent"
  <2>1. CASE PastAsking(w) /\ on'[w] = on[w]
    <3>1. on[w] \in Jobs /\ status[on[w]] # "absent"
      BY <2>1 DEF PastAsking, PipelineInv, BurialInv, HasJob, RowsKnown
    <3>2. QED BY <2>1, <3>1, RowsStay
  <2>2. CASE ~(PastAsking(w) /\ on'[w] = on[w])
    BY <1>3, <2>2, ThreadsMove
  <2>3. QED BY <2>1, <2>2
<1>4. QED BY <1>1, <1>2, <1>3 DEF RowsKnown

\* A thread comes to end its job without another look in these ways.
LEMMA BuildsEndWell ==
  ASSUME PipelineInv, RowsKnown, PipelineNext, NEW w \in Workers, Ended(w)'
  PROVE  /\ Working(w) /\ on'[w] = on[w]
         /\ Ended(w) \/ build'[target[on[w]]] # "building"
<1> USE DEF PipelineInv, BurialInv, TypeOK, PipelineLocalOK, Ended, Working, rows, threads, vars,
            pipeline, local, history
<1> DEFINE Goal == /\ Working(w) /\ on'[w] = on[w]
                   /\ Ended(w) \/ build'[target[on[w]]] # "building"
<1>0. ASSUME NEW v \in Workers, Working(v) PROVE target[on[v]] \in Targets
  BY <1>0 DEF TargetsKnown
<1>1. ASSUME NEW v \in Workers, NEW t \in Targets, Create(v, t) \/ RetryCheck(v, t) PROVE Goal
  BY <1>1 DEF Create, RetryCheck, Ask
<1>2. ASSUME NEW v \in Workers,
             \/ RetryCommit(v) \/ Progress(v) \/ Conflict(v) \/ StartBuildRecovery(v)
             \/ BuildFindNone(v)
      PROVE  Goal
  BY <1>2 DEF RetryCommit, Ask, Progress, Conflict, StartBuildRecovery, BuildFindNone,
              Heartbeat, Expire, StartRecovery, FindNone
<1>3. ASSUME NEW v \in Workers, LoadWorkspace(v) \/ ReloadWorkspace(v) \/ ReadForBurial(v) PROVE Goal
  BY <1>0, <1>3 DEF LoadWorkspace, ReloadWorkspace, ReadForBurial
<1>4. ASSUME NEW v \in Workers, BuildSucceeds(v) \/ BuildFails(v) \/ BuildRaises(v) PROVE Goal
  BY <1>0, <1>4 DEF BuildSucceeds, BuildFails, BuildRaises, Return, Raise
<1>5. ASSUME NEW v \in Workers, FinishBuild(v) \/ ApplyBuildRecovery(v) \/ LoseThread(v) PROVE Goal
  <2>1. phase'[v] = "idle" /\ \A u \in Workers \ {v} : phase'[u] = phase[u] /\ on'[u] = on[u] /\ copy'[u] = copy[u]
    BY <1>5 DEF FinishBuild, ApplyBuildRecovery, LoseThread, Forget, Leave, Complete, BackOff,
                Disown, Bury, ApplyRecovery, Crash
  <2>2. QED BY <2>1
<1>6. ASSUME NEW v \in Workers, QueueStep(v) PROVE Goal
  <2>1. ASSUME NEW j \in Jobs, Insert(v, j) \/ Dedupe(v, j), UNCHANGED pipeline PROVE Goal
    BY <2>1 DEF Insert, Dedupe
  <2>2. ASSUME NEW j \in Jobs, Claim(v, j) \/ Drain(v, j), UNCHANGED pipeline PROVE Goal
    <3>1. copy[v] = "unloaded"
      BY <2>2 DEF Claim, Drain, RowsKnown
    <3>2. QED BY <2>2, <3>1 DEF Claim, Drain, Take
  <2>3. ASSUME DrainMiss(v) \/ Reload(v), UNCHANGED pipeline PROVE Goal
    BY <2>3 DEF DrainMiss, Reload, Leave
  <2>4. QED BY <1>6, <2>1, <2>2, <2>3 DEF QueueStep
<1>7. ASSUME NEW j \in Jobs, TimePasses(j) \/ \E v \in Workers : ReadDying(v, j) PROVE Goal
  BY <1>7 DEF TimePasses, Age, BecomeDue, ReadDying
<1>8. QED BY <1>1, <1>2, <1>3, <1>4, <1>5, <1>6, <1>7 DEF PipelineNext

LEMMA StepBuildEnded ==
  ASSUME PipelineInv, RowsKnown, BuildEnded, PipelineNext
  PROVE  BuildEnded'
<1> SUFFICES ASSUME NEW w \in Workers, Ended(w)'
             PROVE  SafeNext(target[on[w]]) /\ target'[on'[w]] = target[on[w]]
  BY DEF BuildEnded, Safe, SafeNext
<1>1. Working(w) /\ on'[w] = on[w] /\ (Ended(w) \/ build'[target[on[w]]] # "building")
  BY BuildsEndWell
<1>2. /\ on[w] \in Jobs /\ status[on[w]] # "absent"
      /\ target[on[w]] \in Targets /\ build[target[on[w]]] # "absent"
  BY <1>1 DEF Working, PipelineInv, BurialInv, HasJob, RowsKnown, PastAsking, TargetsKnown
<1>3. target'[on[w]] = target[on[w]]
  BY <1>2, RowsStay
<1>4. InFlight(target[on[w]])
  BY <1>1, <1>2 DEF InFlight, Executing, Working
<1>5. SafeNext(target[on[w]])
  <2>1. CASE Ended(w) BY <1>2, <1>4, <2>1, SafeInFlight DEF BuildEnded
  <2>2. CASE build'[target[on[w]]] # "building" BY <1>1, <1>3, <2>2 DEF SafeNext
  <2>3. QED BY <1>1, <2>1, <2>2
<1>6. QED BY <1>1, <1>3, <1>5

LEMMA StepDyingRead ==
  ASSUME PipelineInv, RowsKnown, DyingRead, PipelineNext
  PROVE  DyingRead'
<1> SUFFICES ASSUME NEW v \in Workers, phase'[v] = "recovering",
                    NEW j \in Jobs, j \in Buried' \ dying'[v]
             PROVE  target'[j] \in doomed'[v] \/ (SafeNext(target[j]) /\ target'[j] = target[j])
  BY DEF DyingRead, Safe, SafeNext, Buried
<1>1. CASE StartBuildRecovery(v)
  <2>1. dying'[v] = Buried /\ Buried' = Buried
    BY <1>1 DEF StartBuildRecovery, StartRecovery, Buried, Stale, rows, PipelineInv, PipelineLocalOK
  <2>2. QED BY <2>1
<1>2. ASSUME phase[v] = "recovering", j \in dying'[v] \/ j \notin dying[v], doomed[v] \subseteq doomed'[v]
      PROVE  target'[j] \in doomed'[v] \/ (SafeNext(target[j]) /\ target'[j] = target[j])
  <2>1. j \in Buried
    <3>1. CASE Next BY <1>2, <3>1, BuriedShrinks DEF PipelineInv
    <3>2. CASE UNCHANGED vars BY <3>2 DEF vars, rows, Buried, Stale
    <3>3. CASE \E w \in Workers : BuildFails(w)
      BY <3>3 DEF BuildFails, rows, Buried, Stale
    <3>4. QED BY <3>1, <3>2, <3>3, PipelineStepsQueue DEF PipelineInv
  <2>2. status[j] = "running" /\ target[j] \in Targets /\ build[target[j]] # "absent"
    BY <2>1 DEF Buried, Stale, PipelineInv, TargetsKnown, RowsKnown
  <2>3. target'[j] = target[j]
    BY <2>2, RowsStay
  <2>4. InFlight(target[j])
    BY <2>2 DEF InFlight, ActiveFor, Active
  <2>5. target[j] \in doomed[v] \/ Safe(target[j])
    BY <1>2, <2>1 DEF DyingRead
  <2>6. QED BY <1>2, <2>2, <2>3, <2>4, <2>5, SafeInFlight
<1>3. CASE phase[v] = "recovering" /\ dying'[v] = dying[v] /\ doomed'[v] = doomed[v]
  BY <1>2, <1>3
<1>4. ASSUME NEW i \in Jobs, ReadDying(v, i)
      PROVE  target'[j] \in doomed'[v] \/ (SafeNext(target[j]) /\ target'[j] = target[j])
  <2>1. /\ phase[v] = "recovering" /\ dying'[v] = dying[v] \ {i}
        /\ doomed'[v] = doomed[v] \cup (IF build[target[i]] = "building" THEN {target[i]} ELSE {})
        /\ target' = target /\ build' = build
    BY <1>4 DEF ReadDying, PipelineInv, PipelineLocalOK, vars, rows
  <2>2. CASE j = i
    BY <2>1, <2>2 DEF SafeNext
  <2>3. CASE j # i
    BY <1>2, <2>1, <2>3
  <2>4. QED BY <2>2, <2>3
<1>5. QED BY <1>1, <1>3, <1>4, PassMoves

\* The only steps that declare a job dead are fail's and recover_stale's.
LEMMA WhoBuries ==
  ASSUME PipelineInv, PipelineNext, NEW j \in Jobs, status[j] # "dead", status'[j] = "dead"
  PROVE  \/ \E w \in Workers : FinishBuild(w) /\ Bury(w) /\ on[w] = j
         \/ \E w \in Workers : ApplyBuildRecovery(w) /\ j \in Buried
<1> USE DEF PipelineInv, BurialInv, TypeOK, rows, vars
<1>1. ASSUME NEW w \in Workers, NEW t \in Targets, Create(w, t) \/ RetryCheck(w, t) PROVE FALSE
  BY <1>1 DEF Create, RetryCheck, Ask
<1>2. ASSUME NEW w \in Workers,
             \/ RetryCommit(w) \/ LoadWorkspace(w) \/ ReloadWorkspace(w) \/ Progress(w)
             \/ Conflict(w) \/ BuildSucceeds(w) \/ BuildFails(w) \/ BuildRaises(w)
             \/ ReadForBurial(w) \/ StartBuildRecovery(w) \/ BuildFindNone(w)
      PROVE  FALSE
  BY <1>2 DEF RetryCommit, Ask, LoadWorkspace, ReloadWorkspace, Progress, Conflict, BuildSucceeds,
              BuildFails, BuildRaises, ReadForBurial, StartBuildRecovery, BuildFindNone, Heartbeat,
              Expire, Return, Raise, StartRecovery, FindNone
<1>3. ASSUME NEW w \in Workers, FinishBuild(w)
      PROVE  Bury(w) /\ on[w] = j
  BY <1>3 DEF FinishBuild, Complete, BackOff, Disown, Bury
<1>4. ASSUME NEW w \in Workers, ApplyBuildRecovery(w) PROVE j \in Buried
  BY <1>4 DEF ApplyBuildRecovery, ApplyRecovery
<1>5. ASSUME NEW w \in Workers, LoseThread(w) \/ QueueStep(w) PROVE FALSE
  BY <1>5 DEF LoseThread, Crash, QueueStep, Dedupe, Insert, Claim, Drain, Take, DrainMiss, Reload
<1>6. ASSUME NEW i \in Jobs, TimePasses(i) \/ \E w \in Workers : ReadDying(w, i) PROVE FALSE
  BY <1>6 DEF TimePasses, Age, BecomeDue, ReadDying
<1>7. QED
  BY <1>1, <1>2, <1>3, <1>4, <1>5, <1>6 DEF PipelineNext

\* A thread that buries a job does nothing else fail could do.
LEMMA BuriesNot ==
  ASSUME PipelineInv, NEW w \in Workers, FinishBuild(w), Bury(w), on[w] \in Jobs,
         status[on[w]] # "dead"
  PROVE  copy[w] # "unloaded" /\ FailWorkspaces(IF copy[w] = "building" THEN {target[on[w]]} ELSE {})
<1>1. status'[on[w]] = "dead"
  BY DEF Bury, PipelineInv, BurialInv, TypeOK
<1>2. ~(Complete(w) \/ BackOff(w) \/ Disown(w))
  BY <1>1 DEF Complete, BackOff, Disown, rows, PipelineInv, BurialInv, TypeOK
<1>3. QED BY <1>2 DEF FinishBuild

LEMMA DyingFrees ==
  ASSUME PipelineInv, BuildEnded, DyingRead, PipelineNext,
         NEW j \in Jobs, status[j] # "dead", status'[j] = "dead"
  PROVE  SafeNext(target[j])
<1>1. ASSUME NEW w \in Workers, FinishBuild(w), Bury(w), on[w] = j PROVE SafeNext(target[j])
  <2>1. phase[w] = "raised" /\ target[j] \in Targets /\ adrift' = adrift
    BY <1>1 DEF Bury, PipelineInv, TargetsKnown, FinishBuild, history
  <2>2. CASE copy[w] = "building"
    <3>1. build'[target[j]] = "failed"
      BY <1>1, <2>1, <2>2, BuriesNot DEF FinishBuild, FailWorkspaces
    <3>2. QED BY <3>1 DEF SafeNext
  <2>3. CASE copy[w] # "building"
    <3>1. copy[w] # "unloaded" /\ build' = build
      BY <1>1, <2>3, BuriesNot DEF FinishBuild, FailWorkspaces, PipelineInv, PipelineLocalOK
    <3>2. Safe(target[j])
      BY <1>1, <2>1, <2>3, <3>1 DEF Ended, BuildEnded
    <3>3. QED BY <2>1, <3>1, <3>2 DEF Safe, SafeNext
  <2>4. QED BY <2>2, <2>3
<1>2. ASSUME NEW w \in Workers, ApplyBuildRecovery(w), j \in Buried PROVE SafeNext(target[j])
  <2>1. phase[w] = "recovering" /\ dying[w] = {} /\ target[j] \in Targets /\ adrift' = adrift
    BY <1>2 DEF ApplyBuildRecovery, ApplyRecovery, Buried, Stale, PipelineInv, TargetsKnown, history
  <2>2. FailWorkspaces(doomed[w])
    BY <1>2 DEF ApplyBuildRecovery
  <2>3. target[j] \in doomed[w] \/ Safe(target[j])
    BY <1>2, <2>1 DEF DyingRead
  <2>4. QED BY <2>1, <2>2, <2>3 DEF FailWorkspaces, Safe, SafeNext
<1>3. QED BY <1>1, <1>2, WhoBuries

\* A job succeeds in complete only.
LEMMA WhoSucceeds ==
  ASSUME PipelineInv, PipelineNext, NEW j \in Jobs,
         status[j] # "succeeded", status'[j] = "succeeded"
  PROVE  \E w \in Workers : Complete(w) /\ on[w] = j /\ build' = build /\ adrift' = adrift
<1> USE DEF PipelineInv, BurialInv, TypeOK, rows, vars
<1>1. ASSUME NEW w \in Workers, NEW t \in Targets, Create(w, t) \/ RetryCheck(w, t) PROVE FALSE
  BY <1>1 DEF Create, RetryCheck, Ask
<1>2. ASSUME NEW w \in Workers,
             \/ RetryCommit(w) \/ LoadWorkspace(w) \/ ReloadWorkspace(w) \/ Progress(w)
             \/ Conflict(w) \/ BuildSucceeds(w) \/ BuildFails(w) \/ BuildRaises(w)
             \/ ReadForBurial(w) \/ StartBuildRecovery(w) \/ BuildFindNone(w)
      PROVE  FALSE
  BY <1>2 DEF RetryCommit, Ask, LoadWorkspace, ReloadWorkspace, Progress, Conflict, BuildSucceeds,
              BuildFails, BuildRaises, ReadForBurial, StartBuildRecovery, BuildFindNone, Heartbeat,
              Expire, Return, Raise, StartRecovery, FindNone
<1>3. ASSUME NEW w \in Workers, FinishBuild(w)
      PROVE  Complete(w) /\ on[w] = j /\ build' = build /\ adrift' = adrift
  BY <1>3 DEF FinishBuild, Complete, BackOff, Disown, Bury, history
<1>4. ASSUME NEW w \in Workers, ApplyBuildRecovery(w) PROVE FALSE
  BY <1>4 DEF ApplyBuildRecovery, ApplyRecovery
<1>5. ASSUME NEW w \in Workers, LoseThread(w) \/ QueueStep(w) PROVE FALSE
  BY <1>5 DEF LoseThread, Crash, QueueStep, Dedupe, Insert, Claim, Drain, Take, DrainMiss, Reload
<1>6. ASSUME NEW i \in Jobs, TimePasses(i) \/ \E w \in Workers : ReadDying(w, i) PROVE FALSE
  BY <1>6 DEF TimePasses, Age, BecomeDue, ReadDying
<1>7. QED
  BY <1>1, <1>2, <1>3, <1>4, <1>5, <1>6 DEF PipelineNext

\* A request hands its workspace over to an active job, or dies.
LEMMA HandsOver ==
  ASSUME PipelineInv, PipelineNext, NEW w \in Workers, Enqueueing(w)
  PROVE  \/ Enqueueing(w)' /\ wish'[w] = wish[w]
         \/ \E j \in Jobs : status'[j] \in Active /\ target'[j] = wish[w]
         \/ wish[w] \in adrift'
<1> USE DEF PipelineInv, BurialInv, TypeOK, PipelineLocalOK, Enqueueing, rows, threads, vars,
            pipeline, local, history
<1> DEFINE Goal == \/ Enqueueing(w)' /\ wish'[w] = wish[w]
                   \/ \E j \in Jobs : status'[j] \in Active /\ target'[j] = wish[w]
                   \/ wish[w] \in adrift'
<1>1. ASSUME NEW v \in Workers, NEW t \in Targets, Create(v, t) \/ RetryCheck(v, t) PROVE Goal
  BY <1>1 DEF Create, RetryCheck, Ask
<1>2. ASSUME NEW v \in Workers,
             \/ RetryCommit(v) \/ LoadWorkspace(v) \/ ReloadWorkspace(v) \/ Progress(v)
             \/ Conflict(v) \/ BuildSucceeds(v) \/ BuildFails(v) \/ BuildRaises(v)
             \/ ReadForBurial(v) \/ StartBuildRecovery(v) \/ BuildFindNone(v)
      PROVE  Goal
  BY <1>2 DEF RetryCommit, Ask, LoadWorkspace, ReloadWorkspace, Progress, Conflict, BuildSucceeds,
              BuildFails, BuildRaises, ReadForBurial, StartBuildRecovery, BuildFindNone, Heartbeat,
              Expire, Return, Raise, StartRecovery, FindNone
<1>3. ASSUME NEW v \in Workers, FinishBuild(v) \/ ApplyBuildRecovery(v) PROVE Goal
  BY <1>3 DEF FinishBuild, ApplyBuildRecovery, Leave, Complete, BackOff, Disown, Bury, ApplyRecovery
<1>4. ASSUME NEW v \in Workers, LoseThread(v) PROVE Goal
  BY <1>4 DEF LoseThread, Crash, Leave
<1>5. ASSUME NEW v \in Workers, QueueStep(v) PROVE Goal
  <2>1. ASSUME NEW j \in Jobs, Insert(v, j) \/ Dedupe(v, j) PROVE Goal
    BY <2>1 DEF Insert, Dedupe, ActiveFor, Active
  <2>2. ASSUME NEW j \in Jobs, Claim(v, j) \/ Drain(v, j) PROVE Goal
    BY <2>2 DEF Claim, Drain, Take
  <2>3. ASSUME DrainMiss(v) \/ Reload(v) PROVE Goal
    BY <2>3 DEF DrainMiss, Reload, Leave
  <2>4. QED BY <1>5, <2>1, <2>2, <2>3 DEF QueueStep
<1>6. ASSUME NEW i \in Jobs, TimePasses(i) \/ \E v \in Workers : ReadDying(v, i) PROVE Goal
  BY <1>6 DEF TimePasses, Age, BecomeDue, ReadDying
<1>7. QED BY <1>1, <1>2, <1>3, <1>4, <1>5, <1>6 DEF PipelineNext

\* An active job of a building workspace ends by ending the build.
LEMMA StaysBacked ==
  ASSUME PipelineInv, PipelineInv', RowsKnown, BuildEnded, DyingRead, PipelineNext,
         NEW j \in Jobs, status[j] \in Active, ~SafeNext(target[j])
  PROVE  status'[j] \in Active /\ target'[j] = target[j]
<1>1. status'[j] # "absent" /\ target'[j] = target[j]
  BY RowsStay DEF Active
<1>2. status'[j] # "dead"
  BY DyingFrees DEF Active
<1>3. ASSUME status'[j] = "succeeded" PROVE FALSE
  <2>1. PICK w \in Workers : Complete(w) /\ on[w] = j /\ build' = build /\ adrift' = adrift
    BY <1>3, WhoSucceeds DEF Active
  <2>2. Safe(target[j])
    BY <2>1 DEF Complete, Ended, BuildEnded
  <2>3. QED BY <2>1, <2>2 DEF Safe, SafeNext
<1>4. status'[j] \in Statuses
  BY DEF PipelineInv, BurialInv, TypeOK
<1>5. QED BY <1>1, <1>2, <1>3, <1>4 DEF Statuses, Active

LEMMA StepBacked ==
  ASSUME BackedInv, PipelineInv', PipelineNext
  PROVE  BuildingIsBacked'
<1> SUFFICES ASSUME NEW t \in Targets, build'[t] = "building", t \notin adrift'
             PROVE  \/ \E j \in Jobs : status'[j] \in Active /\ target'[j] = t
                    \/ \E w \in Requests : Enqueueing(w)' /\ wish'[w] = t
  BY DEF BuildingIsBacked, ActiveFor, Enqueueing
<1>1. ASSUME NEW w \in Workers, Create(w, t) \/ (RetryCommit(w) /\ rearm[w] = t)
      PROVE  w \in Requests /\ Enqueueing(w)' /\ wish'[w] = t
  BY <1>1 DEF Create, RetryCommit, Ask, Enqueueing, BackedInv, PipelineInv, BurialInv, TypeOK
<1>2. CASE build[t] = "building" /\ ActiveFor(t) # {}
  <2>1. PICK j \in Jobs : status[j] \in Active /\ target[j] = t
    BY <1>2 DEF ActiveFor
  <2>2. ~SafeNext(target[j])
    BY <2>1 DEF SafeNext
  <2>3. QED BY <2>1, <2>2, StaysBacked DEF BackedInv
<1>3. ASSUME NEW w \in Requests, Enqueueing(w), wish[w] = t
      PROVE  \/ \E j \in Jobs : status'[j] \in Active /\ target'[j] = t
             \/ \E v \in Requests : Enqueueing(v)' /\ wish'[v] = t
  BY <1>3, HandsOver DEF BackedInv, Workers
<1>4. CASE \E w \in Workers : Create(w, t) \/ (RetryCommit(w) /\ rearm[w] = t)
  BY <1>1, <1>4
<1>5. CASE build[t] = "building" /\ t \notin adrift
  BY <1>2, <1>3, <1>5 DEF BackedInv, BuildingIsBacked, Enqueueing
<1>6. QED
  BY <1>4, <1>5, BuildMoves DEF BackedInv

LEMMA StepBackedInv == BackedInv /\ [PipelineNext]_allVars => BackedInv'
<1> SUFFICES ASSUME BackedInv, [PipelineNext]_allVars PROVE BackedInv'
  OBVIOUS
<1>1. PipelineInv'
  BY StepPipelineInv DEF BackedInv
<1>2. CASE PipelineNext
  BY <1>1, <1>2, StepRowsKnown, StepBuildEnded, StepDyingRead, StepBacked DEF BackedInv
<1>3. CASE UNCHANGED allVars
  BY <1>1, <1>3 DEF allVars, vars, rows, threads, pipeline, local, history, BackedInv, RowsKnown,
                    BuildEnded, Ended, Safe, DyingRead, Buried, Stale, BuildingIsBacked, ActiveFor,
                    Enqueueing, PastAsking, Working
<1>4. QED BY <1>2, <1>3

\* A workspace shown as building has an active job or a request about to
\* enqueue one, unless a request died between its two commits or a retry was
\* accepted in flight: whatever else crashes, is slow or is superseded.
THEOREM BuildingStaysBacked == PipelineSpec => []BuildingIsBacked
<1>1. BackedInv => BuildingIsBacked
  BY DEF BackedInv
<1>2. QED BY InitBackedInv, StepBackedInv, <1>1, PTL DEF PipelineSpec

\* A build job that dies never leaves its workspace in "building", unless a
\* retry was accepted while the job was active, between the read of the
\* workspace and the commit, or since.
THEOREM DeadJobNeverStrands == PipelineSpec => DeadJobFreesWorkspace
<1>1. BackedInv /\ [PipelineNext]_allVars =>
        [\A j \in Jobs : (status[j] # "dead" /\ status'[j] = "dead")
           => build'[target[j]] # "building" \/ target[j] \in adrift']_allVars
  BY DyingFrees DEF BackedInv, SafeNext, allVars, vars, rows
<1>2. QED
  BY InitBackedInv, StepBackedInv, <1>1, PTL DEF PipelineSpec, DeadJobFreesWorkspace

-----------------------------------------------------------------------------
(* Heartbeats arrive in time.  The queue keeps its promises inside the     *)
(* pipeline, although a failed build expires its copy of the job and       *)
(* returns in one step, which no step of JobQueue alone does.              *)

LEMMA BuildFailsExecuting ==
  ASSUME BurialInv, NEW w \in Workers, BuildFails(w)
  PROVE  \A v \in Workers, j \in Jobs : Executing(v, j)' <=> Executing(v, j)
BY DEF BuildFails, BurialInv, TypeOK, Executing

LEMMA BuildFailsHeldInv ==
  ASSUME HeldInv, NEW w \in Workers, BuildFails(w)
  PROVE  HeldInv'
<1>1. BurialInv'
  BY BuildFailsBurialInv DEF HeldInv
<1>2. RunnerHolds' /\ FreshRows' /\ WaitingIsClaimable'
  <2>1. \A v \in Workers, j \in Jobs : Executing(v, j)' <=> Executing(v, j)
    BY BuildFailsExecuting DEF HeldInv
  <2>2. UNCHANGED <<status, owner, beating, attempts>>
    BY DEF BuildFails, rows
  <2>3. QED BY <2>1, <2>2 DEF HeldInv, RunnerHolds, FreshRows, WaitingIsClaimable
<1>3. CopyTrue'
  BY DEF BuildFails, HeldInv, BurialInv, TypeOK, CopyTrue, Row, rows
<1>4. QED BY <1>1, <1>2, <1>3 DEF HeldInv

\* The pipeline's invariant while heartbeats arrive in time.
PipelineHeld == PipelineInv /\ HeldInv

LEMMA InitPipelineHeld == PipelineInit => PipelineHeld
BY InitPipelineInv, InitHeldInv DEF PipelineInit, PipelineHeld

LEMMA PipelineStep ==
  ASSUME PipelineInv, [PipelineNext]_allVars
  PROVE  [Next]_vars \/ \E w \in Workers : BuildFails(w)
BY PipelineStepsQueue DEF allVars, PipelineInv

LEMMA StepPipelineHeld ==
  ASSUME Slow = {}
  PROVE  PipelineHeld /\ [PipelineNext]_allVars => PipelineHeld'
BY PipelineStep, StepPipelineInv, StepHeldInv, BuildFailsHeldInv DEF PipelineHeld

\* In time or not, no job is declared dead before its last attempt was made,
\* in the pipeline too.
THEOREM PipelineBurialEarned == PipelineSpec => []BurialEarned
<1>1. PipelineInv => BurialEarned
  BY DEF PipelineInv, BurialInv
<1>2. QED BY InitPipelineInv, StepPipelineInv, <1>1, PTL DEF PipelineSpec

\* While heartbeats arrive in time, no two threads ever build for one job,
\* with requests retrying and threads crashing anywhere.
THEOREM PipelineOneExecutor == ASSUME Slow = {} PROVE PipelineSpec => []SoleExecutor
<1>1. PipelineHeld => SoleExecutor
  BY HeldSole DEF PipelineHeld
<1>2. QED BY InitPipelineHeld, StepPipelineHeld, <1>1, PTL DEF PipelineSpec

\* While heartbeats arrive in time, a build job that waits has an attempt left.
THEOREM PipelineWaitingClaimable ==
  ASSUME Slow = {} PROVE PipelineSpec => []WaitingIsClaimable
<1>1. PipelineHeld => WaitingIsClaimable
  BY DEF PipelineHeld, HeldInv
<1>2. QED BY InitPipelineHeld, StepPipelineHeld, <1>1, PTL DEF PipelineSpec

\* While heartbeats arrive in time, no step of a build, a retry or a recovery
\* changes a settled row.
THEOREM PipelineSettledStays == ASSUME Slow = {} PROVE PipelineSpec => TerminalIsFinal
<1>1. PipelineHeld /\ [PipelineNext]_allVars
        => [\A j \in Jobs : status[j] \in Terminal => status'[j] = status[j]]_vars
  <2>1. SUFFICES ASSUME PipelineHeld, [PipelineNext]_allVars
                 PROVE  [\A j \in Jobs : status[j] \in Terminal => status'[j] = status[j]]_vars
    OBVIOUS
  <2>2. CASE [Next]_vars
    BY <2>1, <2>2, StepTerminal DEF PipelineHeld
  <2>3. CASE \E w \in Workers : BuildFails(w)
    BY <2>3 DEF BuildFails, rows
  <2>4. QED BY <2>1, <2>2, <2>3, PipelineStep DEF PipelineHeld
<1>2. QED
  BY InitPipelineHeld, StepPipelineHeld, <1>1, PTL DEF PipelineSpec, TerminalIsFinal

\* While heartbeats arrive in time, the queue inside the pipeline implements
\* ExclusiveWork: whatever builds, retries and crashes do, a job is taken by
\* one holder at a time, at most MaxAttempts times, and is settled once.
THEOREM PipelineImplementsExclusiveWork ==
  ASSUME Slow = {} PROVE PipelineSpec => ImplementsExclusiveWork
<1>1. PipelineHeld /\ [PipelineNext]_allVars => [Work!Next]_(Work!vars)
  <2>1. SUFFICES ASSUME PipelineHeld, [PipelineNext]_allVars PROVE [Work!Next]_(Work!vars)
    OBVIOUS
  <2>2. CASE [Next]_vars
    BY <2>1, <2>2, StepImplements DEF PipelineHeld
  <2>3. CASE \E w \in Workers : BuildFails(w)
    <3>1. PICK w \in Workers : BuildFails(w) BY <2>3
    <3>2. status' = status /\ attempts' = attempts
      BY <3>1 DEF BuildFails, rows
    <3>3. QED
      BY <2>1, <3>1, <3>2, BuildFailsExecuting, StutterImplements DEF PipelineHeld, HeldInv
  <2>4. QED BY <2>1, <2>2, <2>3, PipelineStep DEF PipelineHeld
<1>2. PipelineInit => Work!Init
  BY InitImplements DEF PipelineInit
<1>3. QED
  BY InitPipelineHeld, StepPipelineHeld, <1>1, <1>2, PTL
     DEF PipelineSpec, ImplementsExclusiveWork, Work!Spec


-----------------------------------------------------------------------------
(* Overlapping looks.  enqueue looks for an active job and then inserts a  *)
(* row, in two statements: the requests that have looked before one of     *)
(* them inserts may insert a row each, and nobody else can until the       *)
(* workspace has no active job again.                                      *)

\* Every active job of a workspace, and every request about to insert one, is
\* accounted for by a request of the overlap.
Accounted == \A t \in Targets :
  Cardinality(ActiveFor(t)) + Cardinality(Pending(t)) <= Cardinality(racers[t])

\* Steps that make no job active and bring nobody to insert.
ActiveShrinks ==
  \A j \in Jobs : status'[j] \in Active => status[j] \in Active /\ target'[j] = target[j]

PendingShrinks ==
  \A w \in Requests : phase'[w] = "inserting" => phase[w] = "inserting" /\ wish'[w] = wish[w]

LEMMA FiniteSets ==
  ASSUME PipelineInv, NEW t \in Targets
  PROVE  /\ IsFiniteSet(ActiveFor(t)) /\ Cardinality(ActiveFor(t)) \in Nat
         /\ IsFiniteSet(Pending(t)) /\ Cardinality(Pending(t)) \in Nat
         /\ IsFiniteSet(racers[t]) /\ Cardinality(racers[t]) \in Nat
<1>1. ActiveFor(t) \in SUBSET Jobs /\ Pending(t) \in SUBSET Requests /\ racers[t] \in SUBSET Requests
  BY DEF ActiveFor, Pending, PipelineInv, PipelineLocalOK
<1>2. IsFiniteSet(ActiveFor(t)) /\ IsFiniteSet(Pending(t)) /\ IsFiniteSet(racers[t])
  BY <1>1, FS_Subset, QueueAssumption
<1>3. QED BY <1>2, FS_CardinalityType

LEMMA ShrinkingKeepsAccounts ==
  ASSUME PipelineInv, Accounted, ActiveShrinks, PendingShrinks, racers' = racers
  PROVE  Accounted'
<1> SUFFICES ASSUME NEW t \in Targets
             PROVE  Cardinality(ActiveFor(t)') + Cardinality(Pending(t)') <= Cardinality(racers[t])
  BY DEF Accounted
<1>1. ActiveFor(t)' \in SUBSET ActiveFor(t) /\ Pending(t)' \in SUBSET Pending(t)
  BY DEF ActiveFor, Pending, ActiveShrinks, PendingShrinks
<1>2. /\ Cardinality(ActiveFor(t)') <= Cardinality(ActiveFor(t))
      /\ Cardinality(Pending(t)') <= Cardinality(Pending(t))
      /\ IsFiniteSet(ActiveFor(t)') /\ IsFiniteSet(Pending(t)')
  BY <1>1, FiniteSets, FS_Subset
<1>3. Cardinality(ActiveFor(t)') \in Nat /\ Cardinality(Pending(t)') \in Nat
  BY <1>2, FS_CardinalityType
<1>4. QED BY <1>2, <1>3, FiniteSets DEF Accounted

\* The look that finds nothing starts the account anew.
LEMMA LookKeepsAccounts ==
  ASSUME PipelineInv, Accounted, NEW w \in Workers, BuildFindNone(w)
  PROVE  Accounted'
<1> USE DEF PipelineInv, BurialInv, TypeOK, PipelineLocalOK
<1>1. w \in Requests /\ wish[w] \in Targets /\ phase[w] = "asking" /\ ActiveFor(wish[w]) = {}
  BY DEF BuildFindNone, FindNone, TargetsKnown
<1>0. PICK u \in Targets : u = wish[w]
  BY <1>1
<1>2. /\ \A t \in Targets : ActiveFor(t)' = ActiveFor(t)
      /\ \A t \in Targets \ {u} : Pending(t)' = Pending(t) /\ racers'[t] = racers[t]
      /\ Pending(u)' = Pending(u) \cup {w}
      /\ racers'[u] = Pending(u) \cup {w}
  BY <1>1, <1>0 DEF BuildFindNone, FindNone, ActiveFor, Pending, rows
<1> SUFFICES ASSUME NEW t \in Targets
             PROVE  Cardinality(ActiveFor(t)') + Cardinality(Pending(t)') <= Cardinality(racers'[t])
  BY DEF Accounted
<1>3. CASE t # u
  BY <1>2, <1>3 DEF Accounted
<1>4. CASE t = u
  <2>1. Cardinality(ActiveFor(t)') = 0
    BY <1>0, <1>1, <1>2, <1>4, FS_EmptySet
  <2>2. PICK P \in SUBSET Requests : P = Pending(t) \cup {w}
    BY <1>1 DEF Pending
  <2>3. Pending(t)' = P /\ racers'[t] = P
    <3>1. Pending(t)' = Pending(t) \cup {w}
      BY <1>2, <1>4
    <3>2. racers'[t] = Pending(t) \cup {w}
      BY <1>2, <1>4
    <3>3. QED BY <2>2, <3>1, <3>2
  <2>4. IsFiniteSet(P)
    BY <2>2, FS_Subset, QueueAssumption
  <2>5. Cardinality(P) \in Nat
    BY <2>4, FS_CardinalityType
  <2>6. QED BY <2>1, <2>3, <2>5
<1>5. QED BY <1>3, <1>4

\* The insert turns one who is about to insert into an active job.
LEMMA InsertKeepsAccounts ==
  ASSUME PipelineInv, Accounted, NEW w \in Workers, NEW j \in Jobs, Insert(w, j), racers' = racers
  PROVE  Accounted'
<1> USE DEF PipelineInv, BurialInv, TypeOK, PipelineLocalOK
<1>1. w \in Requests /\ wish[w] \in Targets /\ w \in Pending(wish[w]) /\ j \notin ActiveFor(wish[w])
  BY DEF Insert, TargetsKnown, Pending, ActiveFor, Active
<1>0. PICK u \in Targets : u = wish[w]
  BY <1>1
<1>2. /\ \A t \in Targets \ {u} : ActiveFor(t)' = ActiveFor(t) /\ Pending(t)' = Pending(t)
      /\ ActiveFor(u)' = ActiveFor(u) \cup {j}
      /\ Pending(u)' = Pending(u) \ {w}
  <2>1. \A t \in Targets : \A i \in Jobs :
          (i \in ActiveFor(t)') <=> (i \in ActiveFor(t) \/ (i = j /\ t = u))
    BY <1>0, <1>1 DEF Insert, ActiveFor, Active
  <2>2. \A t \in Targets : \A v \in Requests :
          (v \in Pending(t)') <=> (v \in Pending(t) /\ v # w)
    BY <1>0 DEF Insert, Pending
  <2>3. \A t \in Targets : ActiveFor(t) \subseteq Jobs /\ ActiveFor(t)' \subseteq Jobs
    BY DEF ActiveFor
  <2>4. \A t \in Targets : Pending(t) \subseteq Requests /\ Pending(t)' \subseteq Requests
    BY DEF Pending
  <2>5. \A t \in Targets \ {u} : w \notin Pending(t)
    BY <1>0 DEF Pending
  <2>6. ASSUME NEW t \in Targets, t # u
        PROVE  ActiveFor(t)' = ActiveFor(t) /\ Pending(t)' = Pending(t)
    <3>1. ActiveFor(t)' = ActiveFor(t)
      BY <2>1, <2>3, <2>6
    <3>2. Pending(t)' = Pending(t)
      <4>1. w \notin Pending(t)
        BY <2>5, <2>6
      <4>2. \A v \in Requests : (v \in Pending(t)') <=> (v \in Pending(t))
        BY <2>2, <4>1
      <4>3. QED BY <2>4, <4>2
    <3>3. QED BY <3>1, <3>2
  <2>7. ActiveFor(u)' = ActiveFor(u) \cup {j}
    BY <1>0, <1>1, <2>1, <2>3
  <2>8. Pending(u)' = Pending(u) \ {w}
    BY <1>0, <1>1, <2>2, <2>4
  <2>9. QED BY <2>6, <2>7, <2>8
<1> SUFFICES ASSUME NEW t \in Targets
             PROVE  Cardinality(ActiveFor(t)') + Cardinality(Pending(t)') <= Cardinality(racers[t])
  BY DEF Accounted
<1>3. CASE t # u
  BY <1>2, <1>3 DEF Accounted
<1>4. CASE t = u
  <2> PICK A : A = ActiveFor(t)
    OBVIOUS
  <2> PICK P : P = Pending(t)
    OBVIOUS
  <2>0. /\ IsFiniteSet(A) /\ IsFiniteSet(P) /\ j \notin A /\ w \in P
        /\ ActiveFor(t)' = A \cup {j} /\ Pending(t)' = P \ {w}
    BY <1>0, <1>1, <1>2, <1>4, FiniteSets
  <2>1. Cardinality(ActiveFor(t)') = Cardinality(ActiveFor(t)) + 1
    <3>1. Cardinality(A \cup {j}) = Cardinality(A) + 1
      BY <2>0, FS_AddElement
    <3>2. QED BY <2>0, <3>1
  <2>2. Cardinality(Pending(t)') = Cardinality(Pending(t)) - 1
    <3>1. Cardinality(P \ {w}) = Cardinality(P) - 1
      BY <2>0, FS_RemoveElement
    <3>2. QED BY <2>0, <3>1
  <2>3. QED BY <2>1, <2>2, FiniteSets DEF Accounted
<1>5. QED BY <1>3, <1>4

LEMMA StepAccounted ==
  PipelineHeld /\ Accounted /\ [PipelineNext]_allVars => Accounted'
<1> SUFFICES ASSUME PipelineHeld, Accounted, [PipelineNext]_allVars PROVE Accounted'
  OBVIOUS
<1>1. PipelineInv
  BY DEF PipelineHeld
<1>2. ASSUME NEW w \in Workers, BuildFindNone(w) PROVE Accounted'
  BY <1>1, <1>2, LookKeepsAccounts
<1>3. ASSUME NEW w \in Workers, NEW j \in Jobs, Insert(w, j), UNCHANGED pipeline PROVE Accounted'
  BY <1>1, <1>3, InsertKeepsAccounts DEF pipeline, history
<1>4. SUFFICES ASSUME ~(\E w \in Workers : BuildFindNone(w)),
                      ~(\E w \in Workers, j \in Jobs : Insert(w, j) /\ UNCHANGED pipeline)
               PROVE  ActiveShrinks /\ PendingShrinks /\ racers' = racers
  BY <1>1, <1>2, <1>3, ShrinkingKeepsAccounts
<1> DEFINE Goal == ActiveShrinks /\ PendingShrinks /\ racers' = racers
<1> USE DEF PipelineHeld, HeldInv, BurialInv, TypeOK, rows, threads, vars, pipeline, history, Leave,
            ActiveShrinks, PendingShrinks, Workers
<1>5. ASSUME NEW w \in Workers, NEW t \in Targets, Create(w, t) \/ RetryCheck(w, t) PROVE Goal
  BY <1>5 DEF Create, RetryCheck, Ask
<1>6. ASSUME NEW w \in Workers,
             \/ RetryCommit(w) \/ LoadWorkspace(w) \/ ReloadWorkspace(w) \/ Progress(w) \/ Conflict(w)
             \/ BuildSucceeds(w) \/ BuildFails(w) \/ BuildRaises(w) \/ ReadForBurial(w)
             \/ StartBuildRecovery(w)
      PROVE  Goal
  BY <1>6 DEF RetryCommit, Ask, LoadWorkspace, ReloadWorkspace, Progress, Conflict, BuildSucceeds,
              BuildFails, BuildRaises, ReadForBurial, StartBuildRecovery, Heartbeat, Expire, Return,
              Raise, StartRecovery
<1>7. ASSUME NEW w \in Workers, Complete(w) \/ Bury(w) \/ BackOff(w) \/ Disown(w), UNCHANGED history
      PROVE  Goal
  <2>1. Disown(w) \/ (on[w] \in Jobs /\ status[on[w]] = "running")
    BY <1>7 DEF Complete, Bury, BackOff, HasJob, RunnerHolds, Executing
  <2>2. QED BY <1>7, <2>1 DEF Complete, Bury, BackOff, Disown, Active
<1>8. ASSUME NEW w \in Workers, FinishBuild(w) PROVE Goal
  BY <1>7, <1>8 DEF FinishBuild
<1>9. ASSUME NEW w \in Workers, ApplyBuildRecovery(w) PROVE Goal
  BY <1>9 DEF ApplyBuildRecovery, ApplyRecovery, Buried, Requeued, Stale, Active
<1>10. ASSUME NEW w \in Workers, LoseThread(w) PROVE Goal
  BY <1>10 DEF LoseThread, Crash
<1>11. ASSUME NEW w \in Workers, QueueStep(w) PROVE Goal
  <2>1. ASSUME NEW j \in Jobs, Dedupe(w, j), UNCHANGED pipeline PROVE Goal
    BY <2>1 DEF Dedupe
  <2>2. ASSUME NEW j \in Jobs, Claim(w, j) \/ Drain(w, j), UNCHANGED pipeline PROVE Goal
    BY <2>2 DEF Claim, Drain, Take, Claimable, Active
  <2>3. ASSUME DrainMiss(w) \/ Reload(w), UNCHANGED pipeline PROVE Goal
    BY <2>3 DEF DrainMiss, Reload
  <2>4. QED BY <1>4, <1>11, <2>1, <2>2, <2>3 DEF QueueStep
<1>12. ASSUME NEW j \in Jobs, TimePasses(j) \/ \E w \in Workers : ReadDying(w, j) PROVE Goal
  BY <1>12 DEF TimePasses, Age, BecomeDue, ReadDying
<1>13. CASE UNCHANGED allVars
  BY <1>13 DEF allVars
<1>14. QED
  BY <1>4, <1>5, <1>6, <1>8, <1>9, <1>10, <1>11, <1>12, <1>13 DEF PipelineNext

LEMMA InitAccounted == PipelineInit => Accounted
<1> SUFFICES ASSUME PipelineInit, NEW t \in Targets
             PROVE  Cardinality(ActiveFor(t)) + Cardinality(Pending(t)) <= Cardinality(racers[t])
  BY DEF Accounted
<1>1. ActiveFor(t) = {} /\ Pending(t) = {} /\ racers[t] = {}
  BY DEF PipelineInit, Init, ActiveFor, Active, Pending, Workers
<1>2. QED BY <1>1, FS_EmptySet

\* While heartbeats arrive in time, a workspace has at most one active job and
\* one builder for each request whose look overlapped with the others': one,
\* when the requests enqueue one after the other, whatever retries, crashes
\* and recovery passes there are.
THEOREM OneBuilderHolds == ASSUME Slow = {} PROVE PipelineSpec => []OneBuilderPerLook
<1>1. ASSUME PipelineHeld, Accounted, NEW t \in Targets
      PROVE  /\ Cardinality(ActiveFor(t)) <= Cardinality(racers[t])
             /\ Cardinality({w \in Workers : phase[w] = "handling" /\ target[on[w]] = t})
                  <= Cardinality(racers[t])
  <2> DEFINE Builders == {w \in Workers : phase[w] = "handling" /\ target[on[w]] = t}
             JobOf == [w \in Builders |-> on[w]]
  <2>1. Cardinality(ActiveFor(t)) <= Cardinality(racers[t])
    BY <1>1, FiniteSets DEF Accounted, PipelineHeld
  <2>2. \A w \in Builders : on[w] \in ActiveFor(t) /\ Executing(w, on[w])
    BY <1>1 DEF PipelineHeld, HeldInv, BurialInv, HasJob, RunnerHolds, Executing, ActiveFor, Active
  <2>3. \A v, w \in Builders : on[v] = on[w] => v = w
    <3>1. SoleExecutor
      BY <1>1, HeldSole DEF PipelineHeld
    <3>2. QED BY <2>2, <3>1 DEF SoleExecutor, ActiveFor
  <2>4. JobOf \in Injection(Builders, ActiveFor(t))
    BY <2>2, <2>3 DEF Injection, IsInjective
  <2>5. IsFiniteSet(Builders) /\ Cardinality(Builders) <= Cardinality(ActiveFor(t))
    BY <1>1, <2>4, FiniteSets, FS_Injection DEF PipelineHeld
  <2>6. Cardinality(Builders) \in Nat
    BY <2>5, FS_CardinalityType
  <2>7. QED BY <1>1, <2>1, <2>5, <2>6, FiniteSets DEF PipelineHeld
<1>2. PipelineHeld /\ Accounted => OneBuilderPerLook
  BY <1>1 DEF OneBuilderPerLook
<1>3. QED
  BY InitPipelineHeld, StepPipelineHeld, InitAccounted, StepAccounted, <1>2, PTL DEF PipelineSpec
=============================================================================
