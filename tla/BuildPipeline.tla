--------------------------- MODULE BuildPipeline ---------------------------
(***************************************************************************)
(* The workspace build pipeline: the job queue with its one real handler   *)
(* (_handle_workspace_build running workspace_service.run_build), the      *)
(* workspaces it builds, and the API requests that create a workspace or   *)
(* retry its failed build (routers/workspaces.py).                         *)
(*                                                                         *)
(* Every workspace here has a ticker: one without is born "ready", is      *)
(* never enqueued and can never be retried.                                *)
(***************************************************************************)
EXTENDS JobQueue

CONSTANT Retriers  \* the requests that may post /build/retry

ASSUME PipelineAssumption == Retriers \subseteq Requests

VARIABLES
  build,  \* workspaces.build_status; "absent" before the workspace exists
  copy,   \* build_status as the build's session loaded it
  dying,  \* dying_builds: the jobs a recovery pass expects to bury
  doomed, \* the workspaces it has read as building, to be failed on commit
  rearm,  \* the workspace a retry found failed and is about to re-arm
  adrift, \* history: workspaces the API left building in one of two ways
          \* (LoseThread, RetryCommit) in which nothing may back the build
  racers  \* history: the requests whose looks for a job overlapped

local == <<copy, dying, doomed, rearm>>
history == <<adrift, racers>>
pipeline == <<build, local, history>>
allVars == <<vars, pipeline>>

Builds == {"absent", "building", "ready", "failed"}
Copies == Builds \cup {"unloaded", "expired"}

PipelineInit ==
  /\ Init
  /\ build = [t \in Targets |-> "absent"]
  /\ copy = [w \in Workers |-> "unloaded"]
  /\ dying = [w \in Workers |-> {}]
  /\ doomed = [w \in Workers |-> {}]
  /\ rearm = [w \in Workers |-> NoTarget]
  /\ adrift = {}
  /\ racers = [t \in Targets |-> {}]

\* The thread's session closes: nothing it loaded survives.
Forget(w) ==
  /\ copy' = [copy EXCEPT ![w] = "unloaded"]
  /\ dying' = [dying EXCEPT ![w] = {}]
  /\ doomed' = [doomed EXCEPT ![w] = {}]
  /\ rearm' = [rearm EXCEPT ![w] = NoTarget]

\* The commit of _reconcile_workspace_build: the workspaces it has read as
\* building become failed, whatever they are by now.
FailWorkspaces(T) == build' = [t \in Targets |-> IF t \in T THEN "failed" ELSE build[t]]

\* The workspace has an active job, or a thread still at work on one.
InFlight(t) ==
  \/ ActiveFor(t) # {}
  \/ \E w \in Workers, j \in Jobs : Executing(w, j) /\ target[j] = t

\* The requests that have found no active job and are about to insert one.
Pending(t) == {w \in Requests : phase[w] = "inserting" /\ wish[w] = t}

-----------------------------------------------------------------------------
(* The API requests.  The workspace commits first; enqueue is a second     *)
(* transaction.                                                            *)

Create(w, t) ==
  /\ build[t] = "absent" /\ rearm[w] = NoTarget
  /\ Ask(w, t)
  /\ build' = [build EXCEPT ![t] = "building"]
  /\ UNCHANGED <<local, history>>

RetryCheck(w, t) ==
  /\ w \in Retriers /\ phase[w] = "idle" /\ rearm[w] = NoTarget
  /\ build[t] = "failed"
  /\ rearm' = [rearm EXCEPT ![w] = t]
  /\ UNCHANGED <<vars, build, copy, dying, doomed, history>>

\* A retry accepted while the failed build's job is still active, or a thread
\* is still at work on it, can be deduplicated to a job that is about to end.
RetryCommit(w) ==
  /\ rearm[w] # NoTarget
  /\ Ask(w, rearm[w])
  /\ build' = [build EXCEPT ![rearm[w]] = "building"]
  /\ adrift' = IF InFlight(rearm[w]) THEN adrift \cup {rearm[w]} ELSE adrift \ {rearm[w]}
  /\ rearm' = [rearm EXCEPT ![w] = NoTarget]
  /\ UNCHANGED <<copy, dying, doomed, racers>>

-----------------------------------------------------------------------------
(* run_build, in the session of the thread that claimed the job.           *)

LoadWorkspace(w) ==
  /\ phase[w] = "handling" /\ copy[w] = "unloaded"
  /\ copy' = [copy EXCEPT ![w] = build[target[on[w]]]]
  /\ UNCHANGED <<vars, build, dying, doomed, rearm, history>>

\* progress commits the step and beats, and so does the analysis phase.
Progress(w) ==
  /\ copy[w] # "unloaded"
  /\ Heartbeat(w)
  /\ UNCHANGED pipeline

\* A version conflict expires every object of the session, the job included.
Conflict(w) ==
  /\ copy[w] # "unloaded"
  /\ Expire(w)
  /\ copy' = [copy EXCEPT ![w] = "expired"]
  /\ UNCHANGED <<build, dying, doomed, rearm, history>>

ReloadWorkspace(w) ==
  /\ phase[w] = "handling" /\ copy[w] = "expired"
  /\ copy' = [copy EXCEPT ![w] = build[target[on[w]]]]
  /\ UNCHANGED <<vars, build, dying, doomed, rearm, history>>

\* The ORM emits no UPDATE when the new value equals the loaded one.
BuildSucceeds(w) ==
  /\ copy[w] # "unloaded"
  /\ Return(w)
  /\ build' = IF copy[w] = "ready" THEN build
              ELSE [build EXCEPT ![target[on[w]]] = "ready"]
  /\ UNCHANGED <<local, history>>

\* A failed stage: rollback (which expires the job too), then the failure is
\* committed and the handler returns normally.
BuildFails(w) ==
  /\ phase[w] = "handling" /\ copy[w] # "unloaded"
  /\ phase' = [phase EXCEPT ![w] = "returned"]
  /\ seen' = [seen EXCEPT ![w] = Expired]
  /\ build' = [build EXCEPT ![target[on[w]]] = "failed"]
  /\ UNCHANGED <<rows, on, wish, local, history>>

\* An infrastructure error escapes run_build; _execute's rollback throws away
\* what the session had loaded.
BuildRaises(w) ==
  /\ Raise(w)
  /\ copy' = [copy EXCEPT ![w] = "unloaded"]
  /\ UNCHANGED <<build, dying, doomed, rearm, history>>

-----------------------------------------------------------------------------
(* The queue's own steps, with what they do to workspaces.                 *)

\* fail, out of attempts, reads the workspace; the commit is a later step.
ReadForBurial(w) ==
  /\ phase[w] = "raised" /\ seen[w] # Expired /\ Owns(w) /\ OutOfAttempts(w)
  /\ copy[w] = "unloaded"
  /\ copy' = [copy EXCEPT ![w] = build[target[on[w]]]]
  /\ UNCHANGED <<vars, build, dying, doomed, rearm, history>>

\* Mutant of FinishBuild: fail buries the job without reconciling.
FinishBuildUnreconciled(w) ==
  /\ Complete(w) \/ BackOff(w) \/ Disown(w) \/ (Bury(w) /\ copy[w] # "unloaded")
  /\ UNCHANGED build
  /\ Forget(w)
  /\ UNCHANGED history

FinishBuild(w) ==
  /\ \/ /\ Complete(w) \/ BackOff(w) \/ Disown(w)
        /\ UNCHANGED build
     \/ /\ Bury(w) /\ copy[w] # "unloaded"
        /\ FailWorkspaces(IF copy[w] = "building" THEN {target[on[w]]} ELSE {})
  /\ Forget(w)
  /\ UNCHANGED history

\* Mutant of StartBuildRecovery: it lists every stale job as dying.
StartBuildRecoveryAllStale(w) ==
  /\ StartRecovery(w)
  /\ dying' = [dying EXCEPT ![w] = Buried \cup Requeued]
  /\ UNCHANGED <<build, copy, doomed, rearm, history>>

StartBuildRecovery(w) ==
  /\ StartRecovery(w)
  /\ dying' = [dying EXCEPT ![w] = Buried]
  /\ UNCHANGED <<build, copy, doomed, rearm, history>>

\* One turn of the loop over the listed jobs.
ReadDying(w, j) ==
  /\ phase[w] = "recovering" /\ j \in dying[w]
  /\ dying' = [dying EXCEPT ![w] = @ \ {j}]
  /\ doomed' = [doomed EXCEPT ![w] =
                  @ \cup (IF build[target[j]] = "building" THEN {target[j]} ELSE {})]
  /\ UNCHANGED <<vars, build, copy, rearm, history>>

\* Mutant of ApplyBuildRecovery: the buried jobs' workspaces stay as they are.
ApplyBuildRecoveryUnreconciled(w) ==
  /\ ApplyRecovery(w) /\ dying[w] = {}
  /\ UNCHANGED build
  /\ Forget(w)
  /\ UNCHANGED history

\* The pass commits only if an UPDATE matched; the workspaces it fails are
\* those of the jobs it listed, not of the jobs it buried.  (The UPDATE that
\* buries runs before the loop and holds its rows until the commit; here it
\* takes effect with the commit, which lets more happen in between.)
ApplyBuildRecovery(w) ==
  /\ ApplyRecovery(w) /\ dying[w] = {}
  /\ FailWorkspaces(IF Buried \cup Requeued = {} THEN {} ELSE doomed[w])
  /\ Forget(w)
  /\ UNCHANGED history

\* A request that dies after its workspace committed and before its job is
\* inserted, or found, leaves the workspace adrift.
LoseThread(w) ==
  /\ w \in Mortal
  /\ \/ Crash(w)
     \/ phase[w] = "idle" /\ rearm[w] # NoTarget /\ UNCHANGED vars
  /\ Forget(w)
  /\ adrift' = IF phase[w] \in {"asking", "inserting"} THEN adrift \cup {wish[w]} ELSE adrift
  /\ UNCHANGED <<build, racers>>

\* A request finds no active job: those that are about to insert one for the
\* same workspace have found none either.
BuildFindNone(w) ==
  /\ FindNone(w)
  /\ racers' = [racers EXCEPT ![wish[w]] = Pending(wish[w]) \cup {w}]
  /\ UNCHANGED <<build, local, adrift>>

\* Steps of the queue that neither read nor write a workspace.
QueueStep(w) ==
  /\ \/ \E j \in Jobs : Dedupe(w, j) \/ Insert(w, j) \/ Claim(w, j) \/ Drain(w, j)
     \/ DrainMiss(w) \/ Reload(w)
  /\ UNCHANGED pipeline

TimePasses(j) == (Age(j) \/ BecomeDue(j)) /\ UNCHANGED pipeline

PipelineNext ==
  \/ \E w \in Workers :
       \/ \E t \in Targets : Create(w, t) \/ RetryCheck(w, t)
       \/ RetryCommit(w)
       \/ LoadWorkspace(w) \/ Progress(w) \/ Conflict(w) \/ ReloadWorkspace(w)
       \/ BuildSucceeds(w) \/ BuildFails(w) \/ BuildRaises(w)
       \/ ReadForBurial(w) \/ FinishBuild(w)
       \/ StartBuildRecovery(w) \/ (\E j \in Jobs : ReadDying(w, j)) \/ ApplyBuildRecovery(w)
       \/ LoseThread(w) \/ BuildFindNone(w) \/ QueueStep(w)
  \/ \E j \in Jobs : TimePasses(j)

PipelineSpec == PipelineInit /\ [][PipelineNext]_allVars

\* A running thread keeps running and its handler ends (every network call
\* has a timeout); a poller loops over recovery and claims for ever; time
\* passes.  Nothing is assumed of requests arriving or of crashes, except
\* that not every recovery pass and not every request is cut short.  A poller
\* is busy elsewhere again and again, and a pass holds the cutoff still while
\* it runs: so claims, passes and ageing get strong fairness.
PipelineFairness ==
  /\ \A w \in Workers :
       /\ WF_allVars(LoadWorkspace(w))
       /\ WF_allVars(BuildSucceeds(w) \/ BuildFails(w) \/ BuildRaises(w))
       /\ WF_allVars(ReadForBurial(w) \/ FinishBuild(w))
       /\ WF_allVars(RetryCommit(w))
       /\ WF_allVars(BuildFindNone(w) \/ (QueueStep(w) /\ phase[w] # "idle"))
  /\ \A w \in Pollers :
       /\ SF_allVars(\E j \in Jobs : Claim(w, j) /\ UNCHANGED pipeline)
       /\ SF_allVars(StartBuildRecovery(w))
       /\ SF_allVars(\E j \in Jobs : ReadDying(w, j))
       /\ SF_allVars(ApplyBuildRecovery(w))
  /\ \A j \in Jobs :
       /\ SF_allVars(Age(j) /\ UNCHANGED pipeline)
       /\ WF_allVars(BecomeDue(j) /\ UNCHANGED pipeline)

FairPipelineSpec == PipelineSpec /\ PipelineFairness

-----------------------------------------------------------------------------
(* Properties.                                                             *)

\* Types of the pipeline's own variables, and of the queue's.
PipelineTypeOK ==
  /\ TypeOK
  /\ build \in [Targets -> Builds]
  /\ copy \in [Workers -> Copies]
  /\ dying \in [Workers -> SUBSET Jobs]
  /\ doomed \in [Workers -> SUBSET Targets]
  /\ rearm \in [Workers -> Targets \cup {NoTarget}]
  /\ adrift \subseteq Targets
  /\ racers \in [Targets -> SUBSET Requests]

\* A build job that dies never leaves its workspace in "building", where
\* /build/retry would refuse it for ever: neither in fail nor in recover_stale,
\* however late or slow the threads are, unless a retry was accepted while
\* that job was still active and changed the workspace after it was read.
DeadJobFreesWorkspace ==
  [][\A j \in Jobs : (status[j] # "dead" /\ status'[j] = "dead")
       => build'[target[j]] # "building" \/ target[j] \in adrift']_allVars

\* "A crashed process can never lose the build": a workspace shown as building
\* has an active job or a request on its way to enqueue one.  Only a request
\* that dies between its commit and its enqueue, or a retry accepted while an
\* earlier build was in flight, can leave one without.
BuildingIsBacked ==
  \A t \in Targets : build[t] = "building" =>
    \/ ActiveFor(t) # {}
    \/ \E w \in Requests : phase[w] \in {"asking", "inserting"} /\ wish[w] = t
    \/ t \in adrift

\* What enqueue's look is for, each builder deleting and replacing the
\* workspace's projections: a workspace has one active job and one builder,
\* and when looks overlap, at most one for each request that overlapped.
OneBuilderPerLook ==
  \A t \in Targets :
    /\ Cardinality(ActiveFor(t)) <= Cardinality(racers[t])
    /\ Cardinality({w \in Workers : phase[w] = "handling" /\ target[on[w]] = t})
         <= Cardinality(racers[t])

\* Stale recovery fails the workspaces of the jobs it listed, which by then a
\* late heartbeat or another pass may have saved from its UPDATE; but never
\* one none of whose jobs has made its last attempt.
RecoveryFailsOnlyExhausted ==
  [][\A w \in Pollers, t \in Targets :
       (/\ phase[w] = "recovering" /\ phase'[w] = "idle"
        /\ build[t] = "building" /\ build'[t] = "failed")
         => \E j \in Jobs : target[j] = t /\ attempts[j] = MaxAttempts
    ]_allVars

\* With retries: a workspace that is building while its job still waits for
\* an attempt will be built, or fail and be retryable again.
WaitingBuildEnds ==
  \A t \in Targets :
    (build[t] = "building" /\ \E j \in ActiveFor(t) : status[j] # "running")
      ~> build[t] # "building"
=============================================================================
