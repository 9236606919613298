# DealLens API: verification project

TLA+ models of the backend in `apps/api/src` of the DealLens diligence lab: a FastAPI application over
SQLAlchemy, PostgreSQL in production and SQLite in development, with separate worker processes. TLC
model-checks the modules on small instances; TLAPS proves the main safety results for every value of the
constants. File names below are relative to `apps/api/src` unless they start with `docs/`.

## 1. The system

### 1.1 Components, their state and their operations

| Component | State | Operations | Talks to |
|---|---|---|---|
| Durable job queue (`services/job_service.py`, `workers/jobs.py`) | table `background_jobs` | `enqueue`, `claim_next`, `drain_job`, `heartbeat`, `complete`, `fail`, `recover_stale` | the build pipeline, as its only handler |
| Workspace build pipeline (`services/workspace_service.py`, `routers/workspaces.py`) | `workspaces.build_status`, the workspace's projections | create, retry, `run_build`, progress, event stream | the queue, the analysis, SEC |
| Versioned streams (`services/common.py`, `evidence_service.py`, `analysis_service.py`, `underwriting_*_service.py`, `deal_intelligence_service.py`) | append-only rows numbered per stream | `insert_versioned`, `evidence_service.create`, `run_full_analysis`, `create_case_set`, `ingest_document` | everything that records history |
| Webhook outbox (`services/webhook_service.py`, `workers/webhooks.py`) | `webhook_endpoints`, `webhook_deliveries` | queue for an audit event, batch, `/send`, retry, replay, switch an endpoint | the audit trail of every other service; receivers outside |
| IC governance and deal workflow (`services/deal_workflow_service.py`) | deals, gates, transitions, team, diligence requests, ledger, tasks; IC packets with comments, decisions, conditions; export manifests | edit, advance, send, respond, review, revise; assemble, submit, comment, decide, resolve, export, verify | cases of underwriting, claims of the data room, audit events |
| Deal intelligence (`services/deal_intelligence_service.py`) | document versions, claim revisions, reviews, redaction proposals | ingest, extract, review, propose and decide a redaction | versioned streams, packets, audit |
| Underwriting data room (`services/underwriting_data_service.py`) | snapshots with facts and exceptions, mappings, QoE adjustments | register, map, import, resolve, propose, decide, bridge | versioned streams, the portfolio dashboard |
| Identity (`identity_service`, `api_key_service`, `oidc_service`, `permission_service`) | users, memberships, sessions, keys, pending OIDC states | login, lock out, suspend, rotate | every request |
| Agent runs (`routers/agent.py`, `services/agent_service.py`, `apps/web/.../AgentConsole.tsx`) | in-process registry of request ids, sealed artifacts, what a console shows | run, stream, replay, fall back, recover | versioned streams, LLM |
| Notifications and watchlists (`services/watchlist_service.py`, `notification_service.py`) | watchlist entries with their filing cursors, notifications | add, remove, refresh, project audit events | audit, outbox, SEC |
| Underwriting model (`services/underwriting_model_service.py`) | cases (saved as versions) | project, recapitalize, stress | versioned streams |
| Limits, share links, collaboration, memos | sliding windows, links, comments | | |
| Computation: valuation, forensics, retrieval, SEC parsing, prompts | none between requests | | |
| Web client, migrations, demo data | none of record | | |

`PROJECT.json` lists every component with its files and whether it is modelled.

### 1.2 What is hard

* **Sessions outlive the truth.** `db/session.py` opens sessions with `expire_on_commit=False`: what a thread
  loaded stays as it was until a rollback. Guards are often evaluated on such a copy, and the write goes by id.
* **Reads and writes are separate statements** at PostgreSQL's read-committed level: check-then-insert and
  check-then-update races are possible wherever no constraint or conditional UPDATE decides.
* **Uniqueness decides, late.** A concurrent insert of the same key waits for the other transaction, and
  transactions that wait for each other are broken up by the deadlock detector.
* **Processes die** between two transactions; recovery must tell a dead owner from a slow one by the age of a
  heartbeat.
* **At-least-once delivery**: an HTTP answer can be lost after the receiver acted.
* **Counters at their bound**: attempts, retries, backoff, stale limits.

### 1.3 What makes each component correct

* Queue: one executor per job, no attempt beyond the bound, a job dies only after all its attempts, a settled
  job stays settled, a waiting job can be claimed, every job settles.
* Pipeline: one active job and one builder per workspace; a workspace in `building` always has somebody who
  will get it out, because `/build/retry` answers 409 until then.
* Outbox: one sender at a time, nothing sent after success, a dead letter is earned, every delivery settles.
* Streams: no version skipped or overwritten, a request's versions appear together or not at all, what is cited
  exists, no edit is lost, no upload is doubled, giving up is earned, every request ends.
* Data room: an approved redaction mints one version, nobody judges their own work, a redaction removes its spans
  from the latest version.
* Governance: nobody submits a packet they found submitted or decides on one they found decided; nobody takes work
  through alone; what the committee reads is approved; exports go on verifying; histories agree, and a write over what
  its author has not seen shows.
* Underwriting data room: a correction wins over what it corrects, an adjustment is counted once and earned, the
  dashboard says what the bridge says.
* Watchlists: a cursor moves forward and each move announces exactly the filings it passes; every event reaches a
  client that polls.
* Agent runs: one request id runs once at a time and never again once sealed; a click shows its own run; every
  claim of an id is given back.
* Underwriting: debt is served in its order of priority and out of cash that exists; a search reports an amount
  that is feasible and as large as it says, or that there is none.
* Identity (planned): an organization keeps an owner, a suspended member has no live session.

## 2. The modules

| Module | What it is |
|---|---|
| `ExclusiveWork` | what a work queue promises: a task is held by one worker at a time, at most so many tries, then done or buried |
| `JobQueue` | `job_service.py` and the poller loop; implements `ExclusiveWork` |
| `BuildPipeline` | extends `JobQueue` with the `workspace_build` handler, workspaces and API requests |
| `ReliableOutbox` | what the outbox promises: a queued event is delivered, or dead after its attempts |
| `WebhookOutbox` | `webhook_service.py`; implements `ReliableOutbox` |
| `VersionLog` | what versioned histories promise: logs to which a request appends everything at once |
| `VersionedStreams` | `insert_versioned` and its callers over transactions; implements `VersionLog` |
| `CommitteeRecord` | what the committee promises of a packet between the looks and the writes of requests that may overlap |
| `DataRoom` | documents, redactions, claims and reviews of `deal_intelligence_service.py` |
| `DealWorkflow` | extends `DataRoom` with the deal: stages, gates, team, diligence requests, ledger, tasks |
| `ICGovernance` | extends `DealWorkflow` with cases, packets and exports; implements `CommitteeRecord` |
| `FilingLog` | what a watchlist promises: the mark moves forward, each filing passed is announced once |
| `FilingFeed` | `watchlist_service.py` and `notification_service.py`; implements `FilingLog` |
| `IdempotentRuns` | what a `client_request_id` promises: one run at a time, none after a seal |
| `AgentRuns` | `routers/agent.py`, the seal of `agent_service.py` and the console; implements `IdempotentRuns` |
| `Waterfall` | the debt schedule of a case as operators (`_apply_debt_service` and what it calls) |
| `UnderwritingSolvers` | the two searches over it, step by step |
| `QoEBridge` | imports, mappings and adjustments of `underwriting_data_service.py`, the bridge over them, and the dashboard of `portfolio_service.py` that shows it |
| `MC...` | symmetry sets and values for TLC |
| `..._proofs` | theorems and their proofs (those of `JobQueue` are in `BuildPipeline_proofs`) |

### 2.1 `JobQueue`

A job is a row (`status`, `target`, `attempts`, `owner`, `beating`, `due`); a thread is where it is in the code
(`phase`, `on`, `wish`) and its copy of the row (`seen`). Times are what the code compares them with: `beating`
is "`heartbeat_at` is younger than the cutoff", `due` is "`next_attempt_at` has passed".

| Code | Actions |
|---|---|
| `enqueue` (a SELECT, then an INSERT) | `Ask`, `Dedupe` or `FindNone`, `Insert` |
| `_claim_job` from `claim_next` / `drain_job` | `Claim` / `Drain`, `DrainMiss` |
| `heartbeat`, the reload of an expired copy | `Heartbeat`, `Expire`, `Reload` |
| `_execute`, `complete`, `fail`, `_owns` | `Return`, `Raise`, `Complete`, `Bury`, `BackOff`, `Disown` |
| `recover_stale` (lists, then two UPDATEs) | `StartRecovery`, `ApplyRecovery` |
| process death, clock | `Crash`, `Age`, `BecomeDue` |

Left out: which claimable row a poller takes first, error texts, statistics.

### 2.2 `BuildPipeline`

Adds `build` (the workspace's status), `copy` (that status as the thread's session holds it), `dying` (the list
`recover_stale` makes before its UPDATEs), `doomed` (the workspaces it has read as building) and `rearm` (a retry between its check and its
commit). Each action of the queue is conjoined with what it does to workspaces. `_reconcile_workspace_build` reads the workspace in one step
(`ReadForBurial` in `fail`, `ReadDying` for each job of a recovery pass) and its answer is committed in a later one (`FinishBuild`,
`ApplyBuildRecovery`, both with `FailWorkspaces`), whatever a retry has committed in between. `adrift` and `racers` are history, read by no guard: the
workspaces that a dying request or a retry accepted too early left without a promise, and the requests whose looks for an active
job overlapped. `BuildSucceeds` writes nothing when the loaded value is already `ready`, as the
ORM does. A workspace without a ticker never meets the queue and is left out.

### 2.3 `WebhookOutbox`

A delivery is `status`, `dest`, `attempts`, `due`, `recent`, `delivered`; `got` records what the receiver knows.
A thread has a `phase`, the delivery it is sending (`on`), the attempt count it read back after its claim
(`tried`) and its session's `copy` of the batch. `RecoverStale`, `SelectPending` and `EndBatch` are
`process_pending`; `Skip`, `Cancel`, `Claim`, `LoseClaim`, `Accept`, `Reject`, `RecordSuccess` and `RecordFailure`
are `deliver`; `Publish`, `Switch`, `QueueTest` and `Replay` insert rows. `Reject` may have reached the receiver.
`AttemptCap` stops the counting of attempts, which the code does not bound after crashes.

### 2.4 `VersionedStreams`

A writer is one request with a plan: the streams it inserts into, in order. `rows` holds what is committed, from
version to author; `held` what a transaction inserted and has not committed. `Build` reads the latest visible
version, `Insert` inserts the next, waiting for another transaction's uncommitted row of that version. A lost
insert is retried inside its savepoint (`Retry`, `Exhaust`), or refused for editors of underwriting cases
(`LoseCase`), who are also refused when the case they had open is no longer the latest (`Superseded`).
`Clear` is the analysis's DELETE of risk findings under read committed. `Waits` and `BreakDeadlock` model
PostgreSQL and are marked external. Versions are numbers and `supersedes_id` is the row below.
Left out: the content of rows, and the four other DELETEs of the analysis, which behave as the first.

### 2.5 `DataRoom`, `DealWorkflow`, `ICGovernance`

A person works in one or more windows; a window has at most one request in flight (`req`). An endpoint that
checks, works and then commits is two actions: `Open...` evaluates its guards on what the session loaded and holds
the request, the second writes by id what the code writes, whatever was committed between the two. Endpoints whose check
and write are one short transaction are one action. `Abandon` is a request that dies, or is refused by a constraint,
between the two. `Written` writes only the columns that the request changed in its copy, as the ORM does. The only lock is that of
`decide_redaction` on its proposal: any other two requests may overlap, on one row too.
`agenda` says who works and on what kinds of request; TLC tries each mix apart, over the whole system.

| Code | Actions |
|---|---|
| `ingest_document`, `extract_claims`, `revise`, `review_claim` | `IngestDocument`, `ExtractClaims`, `OpenReview`, `ReviewClaim` |
| `propose_redaction`, `decide_redaction` (two transactions) | `ProposeRedaction`, `OpenRedaction`, then `RejectRedaction` or `MintRedacted`, `LinkRedacted` |
| `update_deal` with `expected_version` | `OpenForm`, `OpenUpdate`, `UpdateDeal` |
| `transition_deal`, gates, team | `OpenTransition`, `TransitionDeal`, `CreateGate`, `ResolveGate`, `AddTeamMember` |
| diligence requests, ledger, tasks | `CreateRequest` to `ReviewRequest`, `CreateEntry`, `OpenRevision`, `ReviseEntry`, `OpenTask`, `UpdateTask` |
| case decisions | `AddCaseDecision` |
| `submit_ic_packet`, whose readiness check commits and reads the packet again | `OpenSubmit`, `RefreshPacket`, `Submit` |
| packets otherwise | `OpenPacket`, `CreatePacket`, and an `Open...` with each of `AddComment`, `ResolveComment`, `Decide`, `UpdateCondition` |
| exports | `CreateExport`, `VerifyExport` |

A packet quotes a case decision and a claim revision (`Content`); `SourcesCurrent` and `Ready` are the readiness
check, `BindingsResolve` the verification of an export. Some of the state is what the audit events and
rows of the code say of the past: `audited` counts the events that tell of a write of the deal, `filed` and `judged` are whom the events
of a submission and a review name, `seen` is how many ledger rows a revision's author could read, `done` is `completed_at`. The text of documents is a set of spans; a redaction
removes some. Hashes are the values they are taken of.

### 2.6 `FilingFeed`

A refresh has a place in `refresh_watchlist` (`step`), the entries as its session loaded them (`loaded`), the
cursors it moved and the events it wrote, both uncommitted (`claims`, `drafts`), and the row locks it holds
(`held`). `ClaimCursor` is the compare-and-set of `_claim_cursor`; it waits while another refresh holds the row.
`Commit` and `FlushStale` are the two ends: the latter is a flush that finds an entry deleted, which fails the whole
refresh of the organization. `SyncLoad`, `SyncInsert`, `SyncSkip`, `SyncCommit` are `sync_from_audit`, each insert in a savepoint.
A company's filings are numbered; EDGAR's answer shows the newest `Window` of them. `Other` is a transaction
of another service, whose audit event is created before, and committed after, others.

### 2.7 `AgentRuns`

A click is one submission; its posts are `<<click, route>>`. A post goes through `_replay_or_claim` (`Duplicate`,
`Claim`, `Replay`, `Proceed`, `LookupFails`), the run (`Gate`, `Execute`, `Seal`, `RunFails`, `Finish`) and
`Release`, in the request or in the worker thread of the stream. `Restart` empties the registry and ends what runs.
The console falls back to the plain route with the same id when no response opened, and polls the list of sealed
runs when a stream drops. The tool loop of a run is one step: its
budget is a local counter and its tools only read.

### 2.8 `Waterfall`, `UnderwritingSolvers`

`Waterfall` is the code's schedule: per period interest, draws on revolvers by priority, required payments, cash
sweep, interest paid in kind, taxes. Amounts are whole units, rounded down where the code keeps cents;
revenue, gross profit, EBITDA, depreciation, capex and working capital of a year are data (the operating build-up). `WellFormed` is what the schemas
let through; the stable sort by priority is the rank of a tranche among those that precede it (`ByPriority`). `UnderwritingSolvers` takes
`solve_dividend_recap` (`TryZero`, `Double`, `Enclose`, `Bisect`, `ReportRecap`) and `calculate_reverse_stress` (`TryEnds`, `Halve`,
`ReportStress`) one evaluation of the projection at a time. An evaluation of a stress shifts the case, validates it again
(`WellFormed`: a shifted base rate must stay in its range, a shifted EBITDA margin below the gross margin) and finances it (`Financed`); one that fails is `Refused`
and ends the request with an error, the status `refused`. A metric the code leaves empty is `Absent`: the multiple and the IRR of a sponsor who paid nothing, the
IRR of one who gets nothing back. Otherwise exit equity stands for both, which grow with it. `no_solution` is one status, as in the code: an end
without a figure, no crossing between the ends, a middle without a figure, or iterations that ran out. Limits on ratios are positive and periods
are counted from 1, as the schema of the request has it (`LimitAssumption`).

Whether a bisection may infer what it did not try depends on the case, so the properties say where it may. `NoBargain` compares two rows
of a period: the one with more debt has no less to pay in interest and taxes together, and no revolver that can be drawn is due more. `DebtCosts` (a recap) and
`Orderly` (a stress) ask it of every two neighbouring amounts or values of the request itself. They model no code.

### 2.9 `QoEBridge`

`snapshots` holds the imports in the order of their `created_at`, each with its facts; `mappings`, `open` (unresolved exceptions)
and `adjustments` are the other tables; `work` is what a request has read.

| Code | Definitions |
|---|---|
| `create_account_mapping`, `_approved_mapping_index` | `CreateMapping`, `ApprovedMapping` |
| `import_financial_rows`: reads the mappings, then the version, then commits all | `Prepare`, `Number`, then `Commit` or `LoseVersion` |
| `_prepare_financial_rows`, `_reconcile_balance_sheets` | `Fact`, `Distinct`, `Reconciled`, `Exceptions` |
| `register_source_snapshot`, `resolve_import_exception` | `Register`, `Resolve` |
| `create_qoe_adjustment`, `decide_qoe_adjustment` | `FindNoDuplicate`, `Propose`, `LoseDuplicate`, `Consider`, `Decide` |
| `_find_reported_ebitda`, `get_qoe_bridge` | `Bases`, `Bridge` |
| `_source_health`, `_financial_quality` | `Health`, `Quality` |

The bridge and the dashboard are operators over the state, each written from its own code. The bridge's queries take the first row
of an order that does not settle every tie, so that `Bridge` is the set of answers the database may give, and `Quality` likewise,
although the dashboard settles ties by the id of the fact. Values are whole units of the currency; the age that makes a source stale is left out.

## 3. The runs

| Run | Question | Instance |
|---|---|---|
| `Build_slow` | what holds when every worker outlives its heartbeat, anybody dies, and builds are retried? | 2 slow pollers, a retrying request, all mortal, 2 rows, 1 workspace |
| `Build_retry` | does the queue keep its promise when heartbeats arrive in time; how many builders can races, retries and crashes leave, and does every waiting build end? | 1 workspace, 2 rows, a poller, 2 retrying requests, all mortal |
| `Webhook_promise` | does the outbox keep its promise? | 2 deliveries, 2 pollers, 1 `/send` request, crashes |
| `Webhook_live` | is every dead letter earned, does every delivery settle? | 2 slow pollers, a corrupt row, an endpoint switched on and off |
| `Streams_append` | do histories survive every race? | 3 crews of 3 or 4 requests, 2 attempts, crashes |
| `Committee` | do the records of a deal hold together, whatever overlaps? | 15 mixes of 2 to 4 windows of 2 people and automation |
| `Feed` | is every filing announced once, and does everybody catch up? | 4 mixes of a worker, a user's refresh, 2 syncs, another transaction |
| `Agent` | is an id run and sealed once, and does every click end? | a console, 3 posts of API clients, 2 faults |
| `Underwriting` | do the schedule and the searches mean what they say? | 47 cases on 4 operating plans, 5 sets of limits; 329 recaps, 1128 stresses |
| `Bridge` | do the figures of a private company survive imports and decisions in any order? | 2 requests, 2 people, 4 files of 2 sources, 2 mappings, 2 adjustments |
| `Redaction_regression` | violation: a redaction lands on a version that is no longer the latest | the data room's mixes |
| `Recap_maximum` | violation: the maximum payout is none | a revolver that amortizes |

Every property of a passing run has a mutant of the code in its module (`..Early`, `..Unlocked`,
`..Unreconciled` and the like, marked "Mutant of"): with it in place the run finds the property violated.

### 3.1 Bounds, and why they are enough

* `MaxAttempts` is 2 where the code has more: one attempt that is not the last and one that is, which is every
  comparison the code makes of it. `Attempts` of `VersionedStreams` is 2 where the code has 5, likewise.
* A poller and a request that drains its own job race for a row in `Build_retry` as two pollers would. Two requests are what it takes for both to find
  no active job; two slow pollers and the draining request of `Build_slow` are a superseded worker, its successor and a recovering one. More
  threads, workspaces and retries are left to the proofs: every safety property of the two runs is a theorem of the pipeline.
* `RoomToInsert` stops requests when the rows would run out: two rows are a race of two, or a build and its retry.
* `AttemptCap` is 3 or 4, above `MaxAttempts`.
* The crews of `Streams_append` start together, chosen in `Init`: the kinds of request meet within a crew
  (analyses with run posts over the same streams; case sets in opposite orders; uploads of equal and different
  files). Rows grow without bound only in the number of writers.
* Symmetry is used in runs without liveness properties only, over threads, rows and workspaces that no constant
  tells apart.

* `Committee` has two people, one of them with two windows, because four eyes and "the same person twice" need just
  that; a third would repeat the second. Two redactions and two texts, three claim revisions, one packet with two
  votes, three case decisions, two gates (of an early stage and of IC review), two tasks of which one
  waits for the other. A mix is the endpoints that read or write common rows; late mixes begin with the deal in
  IC review, its case approved, a state the early endpoints reach. `MaxWrites` lets a request that writes the deal begin while fewer than two
  writes are audited, so that three or four may be in flight or done: a decline, an edit and a transition over one version.
* `Feed` gives a window of 2 filings, up to 4 filings and 2 companies, so that a move passes none, some or more
  filings than the feed shows. `faults` bounds outages and failed transactions, `rows` how often an entry is added.
* `Agent` has every crowd of clicks whose ids and objectives agree or differ in the ways `_replay_or_claim`
  tells apart; two faults are a failed run and the restart after it.
* `Underwriting`: the outcomes of either search are reached (solved, bounded, infeasible, unbounded, refused; no solution for want of a figure at an end, of a crossing, of
  iterations), with revolvers that mature or amortize, loans before and after them in priority, full and half
  sweep, interest in kind with and without taxes, the terms of the repository's own example, a sponsor who pays nothing, a case that is not
  financed. Stresses shift the rate and the margin out of their ranges and back. `MaximumWhereDebtCosts` looks at every amount up to `Ceiling`, tried or not; of an unbounded
  answer, as its note does, at those up to the bound that was tried. There are solved requests in which debt costs, and some in which it does not; stresses
  without a solution that are `Orderly`, and some that are not. Two things do not occur: a request that is wrong about an amount (`Recap_maximum` has them), and a
  middle without an IRR between two ends that have one, which the code would answer with `no_solution` (`VerdictHolds` says where it cannot). `MaxDoublings` is 5 where the code has 40.

* `Bridge` has the cases the bridge tells apart: a reported figure, two that tie, one to derive from two components of which a source
  may give both or one, a second currency, an amount that is no currency, a mapping that fits its statement or does not, balance
  sheets that balance, do not, or are incomplete; both adjustments have evidence (a third without any takes the run past five minutes: that such a one is never approved is the theorem `BridgeAdjustmentsEarned`); two imports race for one version. `MaxSnapshots` is 2: what a third
  import of a source may do is proved.

Deadlock is checked in the `Build` and `Webhook` runs. In the others all requests end, or the bounds of `Bridge` are reached.

### 3.2 Fairness, and why the code justifies it

* A thread that is running goes on: handlers and requests end because every network call has a timeout. Weak
  fairness of each thread's next step.
* Pollers loop for ever over recovery and claims (`workers/jobs.py`, `workers/webhooks.py`). A poller is busy
  with other rows now and then, so that a given claim or pass is enabled again and again but not
  continuously: strong fairness. It says that a poller meets every row it could claim in some
  batch, which oldest-first selection provides.
* Time passes: weak fairness of `BecomeDue` and `GrowStale`; strong fairness of `Age`, which a recovery pass holds
  up. With two pollers that recover in turns for ever `Age` could be held up for ever in the model (not
  in reality), so that the liveness runs of the queue have one poller.
* Nothing is assumed of crashes, administrators, receivers' answers or requests that have not arrived.
* `VersionedStreams` assumes only that some request takes a step when one can, the deadlock detector included.
* `FilingFeed`: the worker refreshes every interval and clients poll, both for ever; a refresh that began goes on.
  Strong fairness of a refresh that waits for a lock: PostgreSQL grants it in turn. No user has to do anything.
* `AgentRuns`: a post that arrived is served (provider calls have timeouts), a client sees an answer or a
  timeout. Lost posts, failures and restarts are not fair; nobody has to click.

## 4. What is proved

All for any sets of threads, rows, workspaces, endpoints, writers and plans within the named assumptions
(`QueueAssumption`, `PipelineAssumption`, `OutboxAssumption`, `StreamsAssumption`, `AgentAssumption`, `FeedAssumption`, `BridgeAssumption`,
`DataRoomAssumption`, `DealAssumption`, `CommitteeAssumption`, `SolverAssumption`, `CaseAssumption`, and the assumptions of the abstract modules).

* **`BuildPipeline_proofs`, the queue.** `TypeCorrect`. `BurialIsEarned` for every queue, slow threads included, by
  `BurialInv`: besides its type, a thread that acts on a job has one (`HasJob`), and the attempts in its copy
  never exceed the row's (`CopyNotAhead`), so that `fail`, which tests the copy, cannot bury early. With `Slow = {}`: `OneExecutor`, `WaitingStaysClaimable`, `SettledStaysSettled` (of `TerminalIsFinal`, which no run repeats),
  `QueueImplementsExclusiveWork`, by `HeldInv`: an executing thread's row is running, names the thread as its
  owner and is beating (`RunnerHolds`), and its copy is the row (`CopyTrue`), so `_owns` is right. `SoleExecutor` alone is not inductive: it
  does not say that a held row is neither claimable nor stale.
* **`BuildPipeline_proofs`, the pipeline.** `PipelineTypeCorrect`. Every step of the pipeline is a step of `JobQueue` or none (`PipelineStepsQueue`), but
  for a failed build, which expires its copy and returns at once. That step keeps the queue's invariants too (`BuildFailsHeldInv`), so that the queue's
  theorems hold of the pipeline, with any number of retries and crashes: `PipelineBurialEarned` always, and
  with `Slow = {}` `PipelineOneExecutor`, `PipelineWaitingClaimable`, `PipelineSettledStays` and `PipelineImplementsExclusiveWork`.
  `DeadJobNeverStrands`, `BuildingStaysBacked` and `RecoveryFailsOnlyItsOwn` hold of every instance: slow threads, retries, crashes and overlapping requests
  included. The first two are about the workspaces that are not `adrift`, and rest on one idea: a workspace is *safe* when it is out of `building` or adrift, and
  what is safe stays so while a job of it is active or a thread is at work on one (`SafeInFlight`), because only a retry brings it back into `building`, and a retry
  that meets anything in flight sets it adrift. So what a thread read when it was about to bury a job is still good enough when it
  commits: either it read `building` and fails the workspace, or the workspace was safe and is (`WhoBuries`). `DyingRead` says that the list of a pass, or what it has
  already read of it, covers what it will bury. The third is `Listed`: a pass lists exhausted rows, and those stay exhausted (`ExhaustedStays`).
  `OneBuilderHolds` needs `Slow = {}`: `Accounted` says that the active jobs of a workspace and the requests about to insert one
  are together no more than those of the last overlap; with one executor per job (`HeldSole`) that bounds the builders by an injection.
* **`WebhookOutbox_proofs`.** `OutboxTypeCorrect`; `DeadLettersAreEarned` for all instances by `EarnedInv` (what a
  sender counted is never above the row's attempts); with timely requests `OneSender` and `NeverSentAgain` by `SendInv` (a sender's
  row is `delivering` and recent unless it was cancelled under it, and `delivered` rows are settled); with timely
  requests, intact payloads and endpoints left active `OutboxImplementsPromise`.
* **`VersionedStreams_proofs`.** `LogInv` says that committed versions are `1..n` (`Dense`), that a transaction holds
  exactly the versions after `n`, as many as its plan put into that stream so far (`HeldAtEnd`), that only one
  transaction holds any in a stream (`OneHolder`) and that a candidate is either the next version or a
  committed one (`CandidateOK`). From it: `StreamsTypeCorrect`, `StreamsImplementLog`, and with one more invariant each
  `SealedCitationsResolve`, `GivingUpIsEarned`, `EditsLoseNothing`, `UploadsAreNotEchoed`.
* **`AgentRuns_proofs`.** For any clicks, ids, objectives and faults: `AgentTypeCorrect`, `IdSealedOnce`,
  `ClickShowsItsRun` and `RunsImplementPromise`. `RunsInv` adds to the types that an id in flight is claimed by one
  post (`RegistryInv`), that who runs found no seal and none was made since (`SealInv`), that an answered
  record is sealed (`ReplyInv`), and that a post is unsent until its click makes it (`UnsentInv`: without it a
  post could be made twice and give away another's claim). `AgentAssumption` is needed for a console's
  ids, which are fresh, so that the record a console recovers by its id can only be its own.
* **`FilingFeed_proofs`.** `FeedTypeCorrect`; `SyncReportsStored` by `SyncInv`: what a sync reports is stored or pending,
  what two syncs have pending is disjoint, and a batch that is not idle holds positions of events. `FeedImplementsLog`, for any
  companies, refreshes, failures and entries removed meanwhile, by `FeedInv`: nobody shares a lock (`LocksInv`); a cursor
  that is claimed is locked, is still what the session loaded and moves forward (`ClaimInv`); the events a session has written are those
  of the filings its claims pass, but for the one it is at (`DraftsInv`); a first look is at an answer as new as all that was told of the
  company, although the entry may be a second one (`FirstInv`); ids are given out once, so that a row that is as it was loaded is that row (`RowsInv`).
  A commit then is one step of `FilingLog` for all the cursors it moves, and every other step stutters.
* **`QoEBridge_proofs`.** For any files, claims, people and requests: `BridgeTypes`, `BridgeCorrectionWins`, `BridgeAdjustmentsEarned`, `BridgeDashboardHolds`.
  The bridge orders facts by time, not by version, so `CorrectionWins` needs `InOrder`: the snapshots of a source were made in
  the order of their versions. It is inductive with `NoGaps`: a late insert could only bring a version below another one, and
  that version is taken, so the constraint refuses it. `WorkOK` keeps what a request has read: the version it will insert follows a taken one,
  the adjustment it decides was proposed by somebody else and has evidence.
  `DashboardHolds` compares a sum over two layers with the sum over both. The fold adds in the order in which `CHOOSE` picks; `SumFrom` and `SumOfUnion`
  show, of a smallest set for which it would fail, that the order does not matter and that disjoint parts add up. That a source called ready has nothing open and only
  rows that count is `HealthInv`: exceptions are open only of snapshots that had some, and a snapshot is ready only if it had none.
* **`ICGovernance_proofs`.** For any people, windows, texts, tasks and bounds. The state falls into groups of rows, each with the requests that write
  it, and each group has its own invariant: the versions and redactions (`RedactInv`), the claims (`ClaimInv`), the question (`AskInv`), the deal and
  its trail (`DealInv`), the ledger (`LedgerInv`), the tasks (`TaskInv`), the decisions on the case (`VerdictInv`), the packets and exports (`PacketInv`). Besides what its rows
  promise, an invariant says what a window in the middle of a request still knows of what it read (`RedactionHeld`, `PacketHeld` and the like). `StepKinds` sorts the steps
  by the rows they write and what they leave alone, so that a group needs a proof only for its own requests. Nothing is assumed of the requests: any may overlap or die.
  `MintedOnceHolds` rests on the lock on the proposal, `SourcesAreReviewed` and `ExportsVerify` on what is quoted never being changed in place. `FourEyesHold` is
  about what the records name: the response a review was about (`AskInv`: whoever is about to review holds a response of somebody else) and all who ever submitted a packet
  (`PacketInv`: whoever is about to vote has found a submitter other than themselves among them). `HistoriesAlwaysAgree` and `OverwritesAlwaysShow` rest on a count: a write of the deal adds
  one to its audit trail, but sets the version to one more than its author loaded. So the version never exceeds the trail (`DealInv`), a request that still holds as
  many versions as the trail tells of holds the deal as it is, and one that holds fewer leaves the version short, for ever: from then on it cannot catch up.
  While the two are equal, no write was lost and the transitions chain. A ledger revision forks only if its author had looked before the other was made (`LedgerInv`), and
  a task's needs were complete at some time, which `completed_at` remembers (`TaskInv`). `CommitteeRefines`: the packets implement `CommitteeRecord`, in which a
  request looks and writes in two steps and the guards are about the look. The current claim and the latest version are greatest elements, which exist by well-founded induction on the distance to the end (`MaxIsGreatest`).
* **`UnderwritingSolvers_proofs`, the waterfall.** `WaterfallIsOrdered` (`WaterfallHolds`) assumes only what the schemas check (`CaseAssumption`: `WellFormed`), so it holds
  for any number of tranches, priorities, periods and payouts. `Total` adds up in an order that `CHOOSE` picks, so sums come first: they do not depend on the order (`SumFrom`), ascend
  with what they sum (`TotalsAscend`), and add element by element (`TotalsCombine`); each is shown of a smallest set for which it would fail. The order of the tranches is the rank among
  those that precede, a bijection (`OrderIsTotal`). A `FoldLeft` is a function of sets of positions; read from the first position it is a run (`FoldRuns`), along which an
  invariant is carried by its first failure (`AlongTheRun`). Drawing, paying and sweeping are then one thing: an amount is shared out in turn, and `SharedTo` says after k visits what was
  given and what is left. At the end the share is `Fair`: the whole amount is given or everyone has all they can take, and who is given anything comes after those who have
  (`DrawShares`, `PayShares`, `SweepShares`). The rest is arithmetic over three fair shares (`EnoughIsPaid`, `ShortIsDrawn`, `UnpaidIsBroke`, `BorrowedIsSpent`), and a
  balance that is never negative carries it from year to year (`YearsInOrder`).
* **`UnderwritingSolvers_proofs`, two projections.** A bisection is right about amounts it never tried only if the projection moves one way with what is
  searched. That compares two runs of the whole waterfall, and follows from the shares being fair: if somebody who wants no less shares a smaller amount, no more is
  left over and nobody else gains (`SharesCompared`). So a company that owes more of every tranche and has less cash has, after the draws (`DrawnCompared`), the payments
  (`PaidCompared`) and the sweep (`SweptCompared`), no more cash and no less debt in any tranche. Interest and taxes carry that from one period to the next: a lower profit saves taxes, but
  no more than it lost (`TaxesCompared`). `ProjectionsCompared` says it of a whole projection, between a case and a `Harder` one (a higher base rate, lower
  earnings) with a larger payout: every row is `Worse`. `PayoutsNeverHelp` (`PayingNeverHelps`) is the instance of one case and two payouts.
  Without a premise it is false, and the schemas check none (section 5). The premise is `NoBargain` of the rows before: it is in the property, about the two
  projections compared, and the theorem has no other hypothesis. In the period of the payout, which is all of it when that is the last, nothing is asked.
* **`UnderwritingSolvers_proofs`, the searches.** For any cases within the schemas, limits, tolerances, iterations and doublings; no theorem assumes more than the ASSUMEs of
  the module. `MaximumHolds` (`MaximumWhereDebtCosts`): by `RecapInv` the lower end of the bracket was tried and is feasible, the upper one was tried and is not, so the answer
  is what was tried, always (`Tried`); if the projections of the request show that debt costs more the more is paid out, who can bear a payout can bear a smaller one
  (`FeasibilityFollows`, limit by limit), and the answer is right about all amounts, also the ones never tried. `VerdictHolds` (`StressVerdict`): a refusal between two bounds
  that are not refused is excluded (`RefusedAtABound`: rate and margin move monotonically and the financing does not move), by `StressInv` the bracket keeps a crossing of the target through every halving, and
  where the range is `Orderly` an output moves one way between the bounds and is never missing between two that are there.
  `CostlyMaximumHolds` and `CostlyVerdictHolds` replace the premise by one on the terms alone (`CostlyTerms`): no negative rate, no revolver that amortizes, and in a case that is
  taxed, by at most 50%, a cash rate that is a multiple of the rate in kind. The repository's own example qualifies (4% base rate and 8% spread in cash, 4% in kind, 25% tax). That
  it must be a multiple is due to rounding shares to whole units: without rounding a cash rate of no less than the rate in kind would do. `CountsTaxes` asks for a limit of 1.0x
  or more on fixed charge coverage, or for no taxes: one more of interest can save one of taxes, and counts as one more of charges.

Only model-checked: the liveness properties (`WaitingBuildEnds`, `DeliverySettles`, `EveryWriteEnds`, `CatchesUp`,
`EveryClickEnds`), which are out of the prover's reach. Every safety property of a passing run is stated by a theorem.

## 5. Disagreements between code and documentation

Two have a run that exhibits them, `Redaction_regression` and `Recap_maximum`; `PROJECT.json` quotes the lines.
The models have these behaviours too, so that no property of a passing run denies them:

**Queue, pipeline, outbox, streams**

* `complete` and `fail` test `_owns` on the copy of the row the worker loaded when it claimed the job
  (`expire_on_commit=False`) and write by id: a superseded worker records its outcome on the row of the new holder,
  which `_owns` says must not happen (`services/job_service.py:197-198`).
* A retry between the commit of a failed build and the completion of its job is deduplicated to that
  job, and nothing builds the workspace, which stays in `building`; `services/job_service.py:53-54` has the user retry. The same retry may come
  between the read of `_reconcile_workspace_build` (`:69-70`) and the commit that buries the job. `BuildingIsBacked` and `DeadJobFreesWorkspace`
  except the workspaces set adrift in this way, and `WaitingBuildEnds` is about workspaces whose job still waits.
* A late `_mark_failed` overwrites the success of the thread that took a delivery over, and it is sent again
  (`services/webhook_service.py:644` says it cannot be). `NotSentAgain` needs requests that end in time.
* A batch that loaded a row before it was dead-lettered cancels the dead letter when the endpoint is
  disabled: it is no longer visible or replayable (docs/WAVE3.md:108-109).
* Two analyses of one workspace at once delete only the findings they see, and both sets stay on view;
  `services/analysis_service.py:102` says "Replace current-state views".
* Two requests that enqueue for one workspace at once can both find no active job and insert two:
  `enqueue` has no constraint behind it. `OneBuilderPerLook` bounds the jobs and the builders by the requests that overlapped.
* The process may die between committing a workspace as `building` and enqueueing its job: nothing will ever
  build it, where `routers/workspaces.py:41-43` has it that "a crashed process can never lose the build". `BuildingIsBacked` excepts that death and no other.
* `recover_stale` fails workspaces from a list it reads before its UPDATEs; a heartbeat in between leaves the
  job running and its workspace failed. In the model the cutoff is that of a pass, so this needs a slow worker. `RecoveryFailsOnlyExhausted` says what is
  left: the workspace had a job at its last attempt.
* `/send` (force) and a batch whose copy says `queued` do not wait for the backoff of a failed delivery.
* A worker that dies in every attempt of a delivery is never dead-lettered: only `_mark_failed` looks at the
  bound. `Webhook_live` therefore has no `Mortal` thread.
* Two case sets posted in opposite orders deadlock in the database; the victim's error is no
  `IntegrityError` and is answered 500, where docs/HANDOFF.md promises a 409 on conflict.
* A form with no saved case sends no expected parent, and two first saves are both accepted:
  `NoLostUpdate` is about editors that had a version open.


**Data room and committee**

Nothing locks the rows of a deal or a packet, so that two requests that overlap write over each other. The model has, and the
code allows:

* two final decisions on one packet (`services/deal_workflow_service.py:1901` reads, `:1934` writes) by people who both found none, and a submitter replaced by a
  second submission, who may have decided already. `CommitteeRecord` says what is left: nobody decides on what they found decided;
* a comment sets `in_review` over a decision recorded since it loaded the packet (`:1804`); the decision stands, and keeps anybody from deciding again;
* an edit or a transition begun before a decline writes its stage or status after it, and two transitions from one stage both count. The version of the deal then
  falls behind its audit trail, for good (`OverwritesShow`); nothing in the code compares the two;
* an acceptance recorded over a response that came after the one it names, which may be the accepter's own (`:905-946`); `FourEyes` is about the one it names;
* two revisions of one ledger entry, and a task completed while its dependency is opened again. `HistoriesAgree` confines the first to overlapping requests, and
  asks of the second that the dependency has been completed.

Without any overlap: `update_deal` sets `active` or `on_hold` on a declined or closed deal, and links the deal to
another workspace, upon which exports stop verifying (`ExportsKeepVerifying` is about deals that keep theirs); `signing` and `closing` need gates
but no approved packet; a packet of a declined deal can be approved; a decision does not look at the sources again; the lead can be
lost by adding a member again; a gate may be resolved again; a decline by the committee writes no transition. A process that dies between
the two transactions of a redaction leaves `redacted_document_id` NULL beside the version it minted. Promotion of
evidence and the deduplication of extractions are check-then-insert.

**Watchlist**

* A watchlist entry removed during a refresh fails the flush of the whole organization, and
  the worker goes on with no organization after it until its next interval.
* Entries are read in no order, so that two refreshes may deadlock; the database breaks it up and one fails.
* Filings older than the 25 shown are never announced when more than 25 appear between two refreshes: `FilingLog` promises no more.
* EDGAR answers are assumed not to go back. The client's cache could answer with an older list after a newer one; its filings would be announced again.

**Agent runs**

* A lookup that raises in `_replay_or_claim` keeps its claim until a restart, and every retry of the id gets 409
  (`Leaked`), where `routers/agent.py:266-271` says the claim is always released.
* A run that fails before its seal, or a restart, lets a retry run again: the id is sealed once but may be billed
  twice, where `routers/agent.py:207-208` says it can never "execute, bill, or seal twice". `IdempotentRuns` has `Lose` for it.
* The lookup of a sealed run scans the newest 200 runs of a workspace (`routers/agent.py:59`); `SealsOf` scans all. They differ for a retry that
  comes 200 seals late, which would run again.

**Underwriting**

* The searches assume that feasibility is lost once as the payout grows. It is not when a revolver amortizes: a payout can move a
  draw before a year in which it is repaid (`Recap_maximum`). Likewise with limits of `min_fixed_charge_coverage` below the tax rate,
  with a negative rate, and where interest in kind, which is not paid but shields income from tax, saves more than the same debt costs in cash. The premises of
  `PayingNeverHelps`, `MaximumWhereDebtCosts` and `StressVerdict` leave exactly these out; `Underwriting` has cases on either side.
* A revolver is drawn, and counts as liquidity, after the period of its maturity; an unpaid maturity stays in the balance.
* `reverse_stress` answers `no_solution` also where an end of its range has no IRR, and when its iterations run out around a crossing that is there. `StressVerdict` says what
  each can mean.
* A recap of a case that is not financed is refused; so is a stress one of whose bounds is out of the range of its driver, though a value between them may give the target.

**Underwriting data room**

* Two reviewers who load one proposed adjustment both decide it; the later decision stands, where `services/underwriting_data_service.py:1204`
  has it that the adjustment "already has a final decision". Either decision is by somebody else and, if an approval, has evidence.
* A derived EBITDA adds every fact of its period end: a quarter and a year that end on one day are both counted. The latest snapshot
  with any component decides, so that a partial file makes a derivable EBITDA incomplete.
* `portfolio_service.py:240` says that the dashboard mirrors the bridge exactly. It settles ties that the bridge leaves to the
  database, and shows nothing where the bridge derives; `DashboardHolds` says what is left.
* A rejection does not retire the approved mapping below it. An import that loses its version is answered with an error and not retried. Resolving
  the exceptions of a snapshot leaves it `partial`, as a registered reference always is.

## 6. Not modelled, and why

Computation over numbers and text (valuation, fund construction, forensics, retrieval, prompts, the grounding gate) has no
state and no search between requests; TLA+ would restate its formulas. HTTP clients, parsers and the blob store are input and
output. Of the web client only the console of agent runs keeps state that matters; the rest is any order of requests. Migrations are declarative; the
constraints they create are in the models. Share links and comments are single-row operations that their tests reach.
Within modelled components: the layout of packets, exports and notifications, read marks and the digest, the tool loop of
an agent, sensitivities of a case, statistics and listings; stresses of growth and of the entry and exit multiples, and an IRR below -99.99%, which the code cannot find. The component entries of `PROJECT.json` say so for each. The rest is planned:

## 7. Plan

1. `Access`: login lockout, last owner, suspension and sessions, API keys, single-use OIDC states.
2. A reader of build events added to `BuildPipeline`; extraction runs added to `DataRoom`.
3. The frozen inputs of analysis runs over `QoEBridge` (`create_analysis_run`).
4. Proofs: the safety properties of the modules above, as they are written.

Runs are kept few: a component takes one run for safety, refinement and liveness, shares instances where it can, and gets a
second one for a disagreement.
