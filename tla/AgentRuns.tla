----------------------------- MODULE AgentRuns -----------------------------
(***************************************************************************)
(* The agent runs of one workspace, from the click to the sealed record:   *)
(* the console (AgentConsole.tsx) and API clients, the two run routes with *)
(* their registry of request ids in flight (routers/agent.py), and the run *)
(* (agent_service.run_diligence_agent), whose tool loop is one step here.  *)
(*                                                                         *)
(* A click is one submission.  The console posts to the streaming route    *)
(* and, if no response opens, to the plain route with the same id; an API  *)
(* client posts to the plain route, and a retry of its is another click    *)
(* with the same id.  One process serves all posts; it may be restarted,   *)
(* which empties the registry.                                             *)
(***************************************************************************)
EXTENDS Naturals, FiniteSets

CONSTANTS
  Consoles,        \* clicks in the console
  Apis,            \* posts of API clients
  Id,              \* Id[k]: client_request_id
  Objective,       \* Objective[k]
  Crowds,          \* the sets of clicks considered together
  MaxFaults,       \* bound on runs and starts that fail, and on restarts
  NotRun           \* the record of a run that was gated

Clicks == Consoles \cup Apis
Ids == {Id[k] : k \in Clicks}
Objectives == {Objective[k] : k \in Clicks}
Records == Objectives \cup {NotRun}
Refusals == {"none", "busy", "mismatch", "failed"}
Posts == (Consoles \X {"stream"}) \cup (Clicks \X {"plain"})

ASSUME AgentAssumption ==
  /\ Crowds # {} /\ Crowds \subseteq SUBSET Clicks
  /\ MaxFaults \in Nat
  /\ Consoles \cap Apis = {}
  /\ DOMAIN Id = Clicks /\ DOMAIN Objective = Clicks
  /\ NotRun \notin Objectives
  /\ Records \cap Refusals = {}
  \* The console draws a fresh id for every click.
  /\ \A k \in Consoles : \A j \in Clicks \ {k} : Id[j] # Id[k]

VARIABLES
  crowd,     \* the clicks of this behaviour; it never changes
  inflight,  \* _inflight_request_keys
  at,        \* where each post is in its route, or its worker thread
  reply,     \* what it was answered, or the terminal frame of its stream
  seals,     \* the agent_run artifacts: their ids and objectives
  runs,      \* the runs begun for each id: each one is paid for
  faults,
  view,      \* where each click is in submit
  shown      \* the record it shows

server == <<crowd, inflight, at, reply, seals, runs>>
client == <<view, shown>>
vars == <<server, faults, client>>

-----------------------------------------------------------------------------
Places == {"unsent", "sent", "claimed", "running", "executing", "sealed", "closing", "leaked", "over"}
Replies == Records \cup Refusals
Views == {"ready", "posted", "reading", "fallback", "recovering", "shown", "failed", "unknown"}

IdOf(p) == Id[p[1]]
ObjectiveOf(p) == Objective[p[1]]

\* Between the claim of its id and the release.
Holding(p) == at[p] \in {"claimed", "running", "executing", "sealed", "closing"}

SealsOf(i) == {s \in seals : s.id = i}

Init ==
  /\ crowd \in Crowds
  /\ inflight = {}
  /\ at = [p \in Posts |-> "unsent"]
  /\ reply = [p \in Posts |-> "none"]
  /\ seals = {}
  /\ runs = [i \in Ids |-> 0]
  /\ faults = 0
  /\ view = [k \in Clicks |-> "ready"]
  /\ shown = [k \in Clicks |-> NotRun]

-----------------------------------------------------------------------------
(* The routes: _replay_or_claim.                                           *)

\* Moves p to place l, with answer a.
To(p, l, a) ==
  /\ at' = [at EXCEPT ![p] = l]
  /\ reply' = [reply EXCEPT ![p] = a]

Duplicate(p) ==
  /\ at[p] = "sent" /\ IdOf(p) \in inflight
  /\ To(p, "over", "busy")
  /\ UNCHANGED <<crowd, inflight, seals, runs, faults, client>>

\* _claim_request_id
Claim(p) ==
  /\ at[p] = "sent" /\ IdOf(p) \notin inflight
  /\ inflight' = inflight \cup {IdOf(p)}
  /\ To(p, "claimed", "none")
  /\ UNCHANGED <<crowd, seals, runs, faults, client>>

\* A sealed twin: its record, or a refusal if it had another objective.
Replay(p) ==
  /\ at[p] = "claimed"
  /\ \E s \in SealsOf(IdOf(p)) :
       To(p, "over", IF s.objective = ObjectiveOf(p) THEN s.objective ELSE "mismatch")
  /\ inflight' = inflight \ {IdOf(p)}
  /\ UNCHANGED <<crowd, seals, runs, faults, client>>

\* Mutant of Proceed: the seal is not looked up after the claim.
ProceedUnread(p) ==
  /\ at[p] = "claimed"
  /\ To(p, "running", "none")
  /\ UNCHANGED <<crowd, inflight, seals, runs, faults, client>>

\* No sealed twin: run, on this thread or on one started for it.
Proceed(p) ==
  /\ at[p] = "claimed" /\ SealsOf(IdOf(p)) = {}
  /\ To(p, "running", "none")
  /\ UNCHANGED <<crowd, inflight, seals, runs, faults, client>>

\* The thread does not start: the claim is released.
ThreadFails(p) ==
  /\ at[p] = "claimed" /\ SealsOf(IdOf(p)) = {} /\ p[2] = "stream"
  /\ faults < MaxFaults /\ faults' = faults + 1
  /\ To(p, "over", "failed")
  /\ inflight' = inflight \ {IdOf(p)}
  /\ UNCHANGED <<crowd, seals, runs, client>>

\* The query raises, outside of any try: the claim stays until a restart.
LookupFails(p) ==
  /\ at[p] = "claimed"
  /\ faults < MaxFaults /\ faults' = faults + 1
  /\ To(p, "leaked", "failed")
  /\ UNCHANGED <<crowd, inflight, seals, runs, client>>

-----------------------------------------------------------------------------
(* run_diligence_agent, and the end of the route or of its worker.         *)

\* No consent, mock mode or no key: nothing is run and nothing sealed.
Gate(p) ==
  /\ at[p] = "running"
  /\ To(p, "closing", NotRun)
  /\ UNCHANGED <<crowd, inflight, seals, runs, faults, client>>

Execute(p) ==
  /\ at[p] = "running"
  /\ runs' = [runs EXCEPT ![IdOf(p)] = @ + 1]
  /\ To(p, "executing", "none")
  /\ UNCHANGED <<crowd, inflight, seals, faults, client>>

\* Every outcome of the loop is sealed, errors of the provider included.
Seal(p) ==
  /\ at[p] = "executing"
  /\ seals' = seals \cup {[id |-> IdOf(p), objective |-> ObjectiveOf(p), by |-> p]}
  /\ To(p, "sealed", "none")
  /\ UNCHANGED <<crowd, inflight, runs, faults, client>>

\* An exception before the commit.
RunFails(p) ==
  /\ at[p] \in {"running", "executing"}
  /\ faults < MaxFaults /\ faults' = faults + 1
  /\ To(p, "closing", "failed")
  /\ UNCHANGED <<crowd, inflight, seals, runs, client>>

Finish(p) ==
  /\ at[p] = "sealed"
  /\ To(p, "closing", ObjectiveOf(p))
  /\ UNCHANGED <<crowd, inflight, seals, runs, faults, client>>

\* Mutant of Release: an exception keeps the claim.
ReleaseUnlessFailed(p) ==
  /\ at[p] = "closing"
  /\ inflight' = IF reply[p] = "failed" THEN inflight ELSE inflight \ {IdOf(p)}
  /\ at' = [at EXCEPT ![p] = "over"]
  /\ UNCHANGED <<crowd, reply, seals, runs, faults, client>>

Release(p) ==
  /\ at[p] = "closing"
  /\ inflight' = inflight \ {IdOf(p)}
  /\ at' = [at EXCEPT ![p] = "over"]
  /\ UNCHANGED <<crowd, reply, seals, runs, faults, client>>

\* The process ends and is started again: its threads and registry are gone.
Restart ==
  /\ faults < MaxFaults /\ faults' = faults + 1
  /\ inflight' = {}
  /\ at' = [p \in Posts |-> IF Holding(p) \/ at[p] = "leaked" THEN "over" ELSE at[p]]
  /\ UNCHANGED <<crowd, reply, seals, runs, client>>

-----------------------------------------------------------------------------
(* Clients.                                                                *)

Submit(k) ==
  LET p == <<k, IF k \in Consoles THEN "stream" ELSE "plain">> IN
  /\ view[k] = "ready" /\ k \in crowd
  /\ view' = [view EXCEPT ![k] = IF k \in Consoles THEN "posted" ELSE "fallback"]
  /\ at' = [at EXCEPT ![p] = "sent"]
  /\ UNCHANGED <<crowd, inflight, reply, seals, runs, faults, shown>>

\* A post is lost on its way.
Lose(p) ==
  /\ at[p] = "sent"
  /\ at' = [at EXCEPT ![p] = "over"]
  /\ UNCHANGED <<crowd, inflight, reply, seals, runs, faults, client>>

\* The response of the stream opens: its worker was started.
Open(k) ==
  /\ view[k] = "posted" /\ at[<<k, "stream">>] \in {"running", "executing", "sealed", "closing"}
  /\ view' = [view EXCEPT ![k] = "reading"]
  /\ UNCHANGED <<server, faults, shown>>

\* k ends with the record r, or with the error that r is.
Conclude(k, r) ==
  /\ view' = [view EXCEPT ![k] = IF r \in Records THEN "shown" ELSE "failed"]
  /\ shown' = [shown EXCEPT ![k] = IF r \in Records THEN r ELSE @]
  /\ UNCHANGED <<server, faults>>

\* The terminal frame, or the status of a refusal.
Read(k) ==
  /\ view[k] \in {"posted", "reading"} /\ reply[<<k, "stream">>] # "none"
  /\ Conclude(k, reply[<<k, "stream">>])

\* StreamUnavailable: no response, but the post may have arrived.
FallBack(k) ==
  /\ view[k] = "posted"
  /\ view' = [view EXCEPT ![k] = "fallback"]
  /\ at' = [at EXCEPT ![<<k, "plain">>] = "sent"]
  /\ UNCHANGED <<crowd, inflight, reply, seals, runs, faults, shown>>

\* StreamDropped: cut off, or no frame for too long.
Drop(k) ==
  /\ view[k] = "reading"
  /\ view' = [view EXCEPT ![k] = "recovering"]
  /\ UNCHANGED <<server, faults, shown>>

\* The plain route has answered.
Answered(k) == at[<<k, "plain">>] \in {"over", "leaked"} /\ reply[<<k, "plain">>] # "none"

ReadPlain(k) ==
  /\ view[k] = "fallback" /\ Answered(k)
  /\ ~(k \in Consoles /\ reply[<<k, "plain">>] \in {"busy", "mismatch"})
  /\ Conclude(k, reply[<<k, "plain">>])

\* The console takes a 409 as its own run, still executing.
ReadConflict(k) ==
  /\ view[k] = "fallback" /\ k \in Consoles
  /\ Answered(k) /\ reply[<<k, "plain">>] \in {"busy", "mismatch"}
  /\ view' = [view EXCEPT ![k] = "recovering"]
  /\ UNCHANGED <<server, faults, shown>>

\* The connection of the plain post fails.
LosePlain(k) ==
  /\ view[k] = "fallback"
  /\ Conclude(k, "failed")

\* Mutant of OwnSeals: the newest run of the list, whoever asked for it.
AnySeals(k) == seals

OwnSeals(k) == SealsOf(Id[k])

\* recoverSealedRun: the sealed record in the list of runs, matched by id.
Recover(k) ==
  /\ view[k] = "recovering"
  /\ \E s \in OwnSeals(k) : Conclude(k, s.objective)

\* No record after RECOVERY_ATTEMPTS polls.
StopPolling(k) ==
  /\ view[k] = "recovering"
  /\ view' = [view EXCEPT ![k] = "unknown"]
  /\ UNCHANGED <<server, faults, shown>>

-----------------------------------------------------------------------------
ServerStep(p) ==
  \/ Duplicate(p) \/ Claim(p) \/ Replay(p) \/ Proceed(p) \/ ThreadFails(p) \/ LookupFails(p)
  \/ Gate(p) \/ Execute(p) \/ Seal(p) \/ RunFails(p) \/ Finish(p) \/ Release(p)

ConsoleStep(k) == Open(k) \/ Read(k) \/ FallBack(k) \/ Drop(k) \/ ReadConflict(k)

ClickStep(k) == ReadPlain(k) \/ LosePlain(k) \/ Recover(k) \/ StopPolling(k)

Next ==
  \/ \E p \in Posts : ServerStep(p) \/ Lose(p)
  \/ Restart
  \/ \E k \in Consoles : ConsoleStep(k)
  \/ \E k \in Clicks : Submit(k) \/ ClickStep(k)

Spec == Init /\ [][Next]_vars

\* A post that arrived is served and a provider call ends; a client that waits
\* sees an answer or a timeout in the end.
Fairness ==
  /\ \A p \in Posts : WF_vars(ServerStep(p))
  /\ \A k \in Consoles : WF_vars(ConsoleStep(k))
  /\ \A k \in Clicks : WF_vars(ClickStep(k))

FairSpec == Spec /\ Fairness

-----------------------------------------------------------------------------
(* Properties.                                                             *)

\* The variables hold what their columns, sets and locals can hold.
AgentTypeOK ==
  /\ inflight \subseteq Ids
  /\ at \in [Posts -> Places]
  /\ reply \in [Posts -> Replies]
  /\ seals \subseteq [id : Ids, objective : Objectives, by : Posts]
  /\ runs \in [Ids -> Nat]
  /\ view \in [Clicks -> Views]
  /\ shown \in [Clicks -> Records]

Fate == [i \in Ids |->
  IF SealsOf(i) # {} THEN "sealed"
  ELSE IF \E p \in Posts : at[p] = "executing" /\ IdOf(p) = i THEN "running"
  ELSE "none"]

Promise == INSTANCE IdempotentRuns WITH fate <- Fate, spent <- runs

\* One id never runs twice at once, never again once sealed, and is sealed by
\* the run that was begun for it, whatever the posts, losses and restarts
\* (_replay_or_claim, _release_request_id).
ImplementsIdempotentRuns == Promise!Spec

\* One id is sealed at most once, through failed runs and restarts.
SealedOnce == \A s, t \in seals : s.id = t.id => s = t

\* What a click shows is its own: a gated record, or a run of its objective
\* sealed under its id (_replay_or_claim, recoverSealedRun).
OwnRunShown ==
  \A k \in Clicks :
    view[k] = "shown" =>
      shown[k] = NotRun \/ (shown[k] = Objective[k] /\ \E s \in SealsOf(Id[k]) : s.objective = shown[k])

\* Ids that no post will release any more.
Leaked == {IdOf(p) : p \in {q \in Posts : at[q] = "leaked"}}

\* Once the clicks are made, every claim is released but those of lookups that
\* raised, and every click has ended (the finally blocks of run_agent and
\* _work; submit).
EveryClickEnds ==
  <>[]( /\ inflight = Leaked
        /\ \A k \in Clicks : view[k] \in {"ready", "shown", "failed", "unknown"} )
=============================================================================
