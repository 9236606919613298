------------------------------ MODULE JobQueue ------------------------------
(***************************************************************************)
(* The durable, database-backed job queue of services/job_service.py: the  *)
(* background_jobs rows and the threads that work on them.  One step is    *)
(* one database transaction, or one read whose result a later transaction  *)
(* uses.  The handler a job runs is abstract here (it returns or raises);  *)
(* BuildPipeline runs the real one.                                        *)
(*                                                                         *)
(* Sessions are opened with expire_on_commit=False, so a thread keeps the  *)
(* copy of the row it loaded (seen) until a rollback or expire_all throws  *)
(* it away; _owns reads that copy, and every final write goes by job id.   *)
(***************************************************************************)
EXTENDS Naturals, FiniteSets

CONSTANTS
  Jobs,         \* ids of the rows that can be inserted (bounds the inserts)
  Targets,      \* the workspaces a job's payload can name
  Pollers,      \* worker processes: python -m src.workers.jobs
  Requests,     \* API request threads: enqueue, then drain in the background
  Mortal,       \* the threads that may crash or lose their database
  Slow,         \* the threads that may outlive their heartbeat
  MaxAttempts,  \* max_attempts of every row
  Nobody, NoJob, NoTarget, Expired

Workers == Pollers \cup Requests

ASSUME QueueAssumption ==
  /\ MaxAttempts \in Nat \ {0}
  /\ IsFiniteSet(Jobs) /\ IsFiniteSet(Requests)
  /\ Mortal \subseteq Workers
  /\ Slow \subseteq Workers
  /\ Nobody \notin Workers
  /\ NoJob \notin Jobs
  /\ NoTarget \notin Targets

VARIABLES
  status,    \* background_jobs.status; "absent" before the insert
  target,    \* payload["workspace_id"]
  attempts,  \* attempts
  owner,     \* claimed_by
  beating,   \* heartbeat_at is not older than the stale cutoff
  due,       \* next_attempt_at is NULL or has passed
  phase,     \* where each thread is in job_service
  on,        \* the job it works on
  wish,      \* the workspace a request is about to enqueue a build for
  seen       \* its in-memory copy of the row, or Expired

rows == <<status, target, attempts, owner, beating, due>>
threads == <<phase, on, wish, seen>>
vars == <<rows, threads>>

-----------------------------------------------------------------------------
Statuses == {"absent", "queued", "running", "failed", "succeeded", "dead"}
Active == {"queued", "running", "failed"}
Terminal == {"succeeded", "dead"}
Phases == {"idle", "asking", "inserting", "draining",
           "handling", "returned", "raised", "recovering"}
RowCopy == [status: Statuses, owner: Workers \cup {Nobody}, attempts: 0..MaxAttempts]

Row(j) == [status |-> status[j], owner |-> owner[j], attempts |-> attempts[j]]

\* A thread between its claim and the transaction that records the outcome.
Executing(w, j) == on[w] = j /\ phase[w] \in {"handling", "returned", "raised"}

\* _owns: what the thread believes, read from its own copy of the row.
Owns(w) == seen[w].status = "running" /\ seen[w].owner = w

Claimable(j) == status[j] \in {"queued", "failed"} /\ attempts[j] < MaxAttempts /\ due[j]

\* Mutant of Stale: the heartbeat is not looked at.
StaleWhenRunning(j) == status[j] = "running"

Stale(j) == status[j] = "running" /\ ~beating[j]

\* Mutant of ActiveFor: a running job does not deduplicate.
ActiveForWaiting(t) == {j \in Jobs : status[j] \in {"queued", "failed"} /\ target[j] = t}

ActiveFor(t) == {j \in Jobs : status[j] \in Active /\ target[j] = t}

\* Free rows left for the requests that may still insert one.
RoomToInsert ==
  Cardinality({j \in Jobs : status[j] = "absent"})
    > Cardinality({w \in Requests : phase[w] \in {"asking", "inserting"}})

Init ==
  /\ status = [j \in Jobs |-> "absent"]
  /\ target = [j \in Jobs |-> NoTarget]
  /\ attempts = [j \in Jobs |-> 0]
  /\ owner = [j \in Jobs |-> Nobody]
  /\ beating = [j \in Jobs |-> FALSE]
  /\ due = [j \in Jobs |-> FALSE]
  /\ phase = [w \in Workers |-> "idle"]
  /\ on = [w \in Workers |-> NoJob]
  /\ wish = [w \in Workers |-> NoTarget]
  /\ seen = [w \in Workers |-> Expired]

\* The thread ends its pass: the next one starts from a new session.
Leave(w) ==
  /\ phase' = [phase EXCEPT ![w] = "idle"]
  /\ on' = [on EXCEPT ![w] = NoJob]
  /\ wish' = [wish EXCEPT ![w] = NoTarget]
  /\ seen' = [seen EXCEPT ![w] = Expired]

-----------------------------------------------------------------------------
(* enqueue: look for an active job of the workspace, then insert a row.    *)

Ask(w, t) ==
  /\ w \in Requests /\ phase[w] = "idle" /\ RoomToInsert
  /\ phase' = [phase EXCEPT ![w] = "asking"]
  /\ wish' = [wish EXCEPT ![w] = t]
  /\ UNCHANGED <<rows, on, seen>>

Dedupe(w, j) ==
  /\ phase[w] = "asking" /\ j \in ActiveFor(wish[w])
  /\ phase' = [phase EXCEPT ![w] = "draining"]
  /\ on' = [on EXCEPT ![w] = j]
  /\ UNCHANGED <<rows, wish, seen>>

FindNone(w) ==
  /\ phase[w] = "asking" /\ ActiveFor(wish[w]) = {}
  /\ phase' = [phase EXCEPT ![w] = "inserting"]
  /\ UNCHANGED <<rows, on, wish, seen>>

Insert(w, j) ==
  /\ phase[w] = "inserting" /\ status[j] = "absent"
  /\ status' = [status EXCEPT ![j] = "queued"]
  /\ target' = [target EXCEPT ![j] = wish[w]]
  /\ due' = [due EXCEPT ![j] = TRUE]
  /\ phase' = [phase EXCEPT ![w] = "draining"]
  /\ on' = [on EXCEPT ![w] = j]
  /\ UNCHANGED <<attempts, owner, beating, wish, seen>>

-----------------------------------------------------------------------------
(* _claim_job: one conditional UPDATE, then a refresh of the claimed row.  *)

\* Mutant of Take: the claim does not count the attempt.
TakeUncounted(w, j) ==
  /\ Claimable(j)
  /\ status' = [status EXCEPT ![j] = "running"]
  /\ UNCHANGED <<target, attempts, due, wish>>
  /\ owner' = [owner EXCEPT ![j] = w]
  /\ beating' = [beating EXCEPT ![j] = TRUE]
  /\ phase' = [phase EXCEPT ![w] = "handling"]
  /\ on' = [on EXCEPT ![w] = j]
  /\ seen' = [seen EXCEPT ![w] = Row(j)']

Take(w, j) ==
  /\ Claimable(j)
  /\ status' = [status EXCEPT ![j] = "running"]
  /\ attempts' = [attempts EXCEPT ![j] = @ + 1]
  /\ owner' = [owner EXCEPT ![j] = w]
  /\ beating' = [beating EXCEPT ![j] = TRUE]
  /\ phase' = [phase EXCEPT ![w] = "handling"]
  /\ on' = [on EXCEPT ![w] = j]
  /\ seen' = [seen EXCEPT ![w] = Row(j)']
  /\ UNCHANGED <<target, due, wish>>

\* claim_next: any due job (the oldest-first order is not modelled).
Claim(w, j) == w \in Pollers /\ phase[w] = "idle" /\ Take(w, j)

\* drain_job: the job the request was given; a lost race is a no-op.
Drain(w, j) == phase[w] = "draining" /\ on[w] = j /\ Take(w, j)

DrainMiss(w) ==
  /\ phase[w] = "draining" /\ ~Claimable(on[w])
  /\ Leave(w)
  /\ UNCHANGED rows

-----------------------------------------------------------------------------
(* While the handler runs.                                                 *)

\* heartbeat, from the handler's _beat: it beats for job.claimed_by, whoever
\* that is by now, and only while the row is still that owner's.
Heartbeat(w) ==
  /\ phase[w] = "handling" /\ seen[w] # Expired
  /\ status[on[w]] = "running" /\ owner[on[w]] = seen[w].owner
  /\ beating' = [beating EXCEPT ![on[w]] = TRUE]
  /\ UNCHANGED <<status, target, attempts, owner, due, threads>>

\* A version conflict inside the handler: insert_versioned's expire_all.
Expire(w) ==
  /\ phase[w] = "handling"
  /\ seen' = [seen EXCEPT ![w] = Expired]
  /\ UNCHANGED <<rows, phase, on, wish>>

\* First attribute access on an expired copy: the row is read again.
Reload(w) ==
  /\ phase[w] \in {"handling", "returned", "raised"} /\ seen[w] = Expired
  /\ seen' = [seen EXCEPT ![w] = Row(on[w])]
  /\ UNCHANGED <<rows, phase, on, wish>>

Return(w) ==
  /\ phase[w] = "handling"
  /\ phase' = [phase EXCEPT ![w] = "returned"]
  /\ UNCHANGED <<rows, on, wish, seen>>

\* An exception leaves the handler: _execute rolls back.
Raise(w) ==
  /\ phase[w] = "handling"
  /\ phase' = [phase EXCEPT ![w] = "raised"]
  /\ seen' = [seen EXCEPT ![w] = Expired]
  /\ UNCHANGED <<rows, on, wish>>

-----------------------------------------------------------------------------
(* complete and fail.                                                      *)

Complete(w) ==
  /\ phase[w] = "returned" /\ seen[w] # Expired /\ Owns(w)
  /\ status' = [status EXCEPT ![on[w]] = "succeeded"]
  /\ Leave(w)
  /\ UNCHANGED <<target, attempts, owner, beating, due>>

\* Mutant of OutOfAttempts: the last attempt is given away.
OutOfAttemptsEarly(w) == seen[w].attempts >= MaxAttempts - 1

OutOfAttempts(w) == seen[w].attempts >= MaxAttempts

Bury(w) ==
  /\ phase[w] = "raised" /\ seen[w] # Expired /\ Owns(w)
  /\ OutOfAttempts(w)
  /\ status' = [status EXCEPT ![on[w]] = "dead"]
  /\ Leave(w)
  /\ UNCHANGED <<target, attempts, owner, beating, due>>

\* Mutant of BackOff: > for >= in fail's test of the attempts.
BackOffOnLast(w) ==
  /\ phase[w] = "raised" /\ seen[w] # Expired /\ Owns(w)
  /\ seen[w].attempts <= MaxAttempts
  /\ status' = [status EXCEPT ![on[w]] = "failed"]
  /\ owner' = [owner EXCEPT ![on[w]] = Nobody]
  /\ due' = [due EXCEPT ![on[w]] = FALSE]
  /\ Leave(w)
  /\ UNCHANGED <<target, attempts, beating>>

BackOff(w) ==
  /\ phase[w] = "raised" /\ seen[w] # Expired /\ Owns(w)
  /\ ~OutOfAttempts(w)
  /\ status' = [status EXCEPT ![on[w]] = "failed"]
  /\ owner' = [owner EXCEPT ![on[w]] = Nobody]
  /\ due' = [due EXCEPT ![on[w]] = FALSE]
  /\ Leave(w)
  /\ UNCHANGED <<target, attempts, beating>>

\* The thread finds it no longer holds the job: it leaves the row alone.
Disown(w) ==
  /\ phase[w] \in {"returned", "raised"} /\ seen[w] # Expired /\ ~Owns(w)
  /\ Leave(w)
  /\ UNCHANGED rows

-----------------------------------------------------------------------------
(* recover_stale: the cutoff is fixed and the dying jobs are listed first, *)
(* then two UPDATEs bury or requeue the stale rows in one transaction.     *)

StartRecovery(w) ==
  /\ w \in Pollers /\ phase[w] = "idle"
  /\ phase' = [phase EXCEPT ![w] = "recovering"]
  /\ UNCHANGED <<rows, on, wish, seen>>

Buried == {j \in Jobs : Stale(j) /\ attempts[j] >= MaxAttempts}

\* Mutant of Requeued: the bound is off by one and skips a stale row.
RequeuedOffByOne == {j \in Jobs : Stale(j) /\ attempts[j] < MaxAttempts - 1}

Requeued == {j \in Jobs : Stale(j) /\ attempts[j] < MaxAttempts}

ApplyRecovery(w) ==
  /\ phase[w] = "recovering"
  /\ status' = [j \in Jobs |-> IF j \in Buried THEN "dead"
                               ELSE IF j \in Requeued THEN "queued" ELSE status[j]]
  /\ owner' = [j \in Jobs |-> IF j \in Requeued THEN Nobody ELSE owner[j]]
  /\ due' = [j \in Jobs |-> due[j] \/ j \in Requeued]
  /\ Leave(w)
  /\ UNCHANGED <<target, attempts, beating>>

-----------------------------------------------------------------------------
(* The process and the clock.                                              *)

\* The thread dies, or an exception outside the handler ends its pass.
Crash(w) ==
  /\ w \in Mortal /\ phase[w] # "idle"
  /\ Leave(w)
  /\ UNCHANGED rows

\* The heartbeat grows older than the cutoff.  A live owner that is not Slow
\* beats at every step boundary, in time.  No cutoff is ever as young as a
\* recovery pass, so a heartbeat cannot age past the cutoff of a pass that
\* has already begun.
Age(j) ==
  /\ status[j] = "running" /\ beating[j]
  /\ \A w \in Workers : Executing(w, j) => w \in Slow
  /\ \A w \in Workers : phase[w] # "recovering"
  /\ beating' = [beating EXCEPT ![j] = FALSE]
  /\ UNCHANGED <<status, target, attempts, owner, due, threads>>

\* The retry delay of a failed job runs out.
BecomeDue(j) ==
  /\ status[j] = "failed" /\ ~due[j]
  /\ due' = [due EXCEPT ![j] = TRUE]
  /\ UNCHANGED <<status, target, attempts, owner, beating, threads>>

-----------------------------------------------------------------------------
Finish(w) == Complete(w) \/ Bury(w) \/ BackOff(w) \/ Disown(w)

Next ==
  \/ \E w \in Workers :
       \/ \E t \in Targets : Ask(w, t)
       \/ \E j \in Jobs : Dedupe(w, j) \/ Insert(w, j) \/ Claim(w, j) \/ Drain(w, j)
       \/ FindNone(w) \/ DrainMiss(w)
       \/ Heartbeat(w) \/ Expire(w) \/ Reload(w) \/ Return(w) \/ Raise(w)
       \/ Finish(w)
       \/ StartRecovery(w) \/ ApplyRecovery(w) \/ Crash(w)
  \/ \E j \in Jobs : Age(j) \/ BecomeDue(j)

Spec == Init /\ [][Next]_vars

-----------------------------------------------------------------------------
(* Properties.                                                             *)

\* Every variable keeps its type; attempts never passes max_attempts.
TypeOK ==
  /\ status \in [Jobs -> Statuses]
  /\ target \in [Jobs -> Targets \cup {NoTarget}]
  /\ attempts \in [Jobs -> 0..MaxAttempts]
  /\ owner \in [Jobs -> Workers \cup {Nobody}]
  /\ beating \in [Jobs -> BOOLEAN]
  /\ due \in [Jobs -> BOOLEAN]
  /\ phase \in [Workers -> Phases]
  /\ on \in [Workers -> Jobs \cup {NoJob}]
  /\ wish \in [Workers -> Targets \cup {NoTarget}]
  /\ seen \in [Workers -> RowCopy \cup {Expired}]

\* While heartbeats arrive in time, no two threads ever work on the same job:
\* claiming, backing off and stale recovery never hand a held job out again.
SoleExecutor ==
  \A j \in Jobs : \A w1, w2 \in Workers :
    Executing(w1, j) /\ Executing(w2, j) => w1 = w2

\* A job is only declared dead after all its attempts were really made, on
\* every path that buries it (fail and recover_stale), superseded or not.
BurialEarned == \A j \in Jobs : status[j] = "dead" => attempts[j] = MaxAttempts

\* A job that waits can still be claimed.  One that waits with its attempts
\* used up would be active for ever: never claimed, never recovered, and
\* every later build of its workspace would be deduplicated to it.
WaitingIsClaimable ==
  \A j \in Jobs : status[j] \in {"queued", "failed"} => attempts[j] < MaxAttempts

\* succeeded and dead are final: no late worker rewrites a settled row.
TerminalIsFinal ==
  [][\A j \in Jobs : status[j] \in Terminal => status'[j] = status[j]]_vars

\* The queue implements the abstract promise, holders being the threads that
\* really are between claim and outcome, not what the rows say.
StageOf(s) ==
  IF s = "absent" THEN "none"
  ELSE IF s \in {"queued", "failed"} THEN "waiting"
  ELSE IF s = "running" THEN "held"
  ELSE IF s = "succeeded" THEN "done" ELSE "buried"

Work == INSTANCE ExclusiveWork WITH
  stage <- [j \in Jobs |-> StageOf(status[j])],
  tries <- attempts,
  holders <- [j \in Jobs |-> {w \in Workers : Executing(w, j)}]

ImplementsExclusiveWork == Work!Spec
=============================================================================
