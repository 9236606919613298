------------------------ MODULE ICGovernance_proofs ------------------------
(***************************************************************************)
(* Proofs about the data room, the deal and its committee, for any people, *)
(* windows, agendas and bounds, however requests overlap.                  *)
(*                                                                         *)
(* Each invariant is about a few variables and the requests that write     *)
(* them, so that it is enough to show that any other step leaves both      *)
(* alone.                                                                  *)
(***************************************************************************)
EXTENDS ICGovernance, FiniteSetTheorems, WellFoundedInduction, TLAPS

-----------------------------------------------------------------------------
(* Requests.                                                               *)

RequestsOK == DOMAIN req = Windows

\* The step is one of the request of w, which holds nothing afterwards or
\* what it checked for an operation in ops.
Moves(w, ops) ==
  /\ DOMAIN req' = Windows
  /\ \A v \in Windows \ {w} : req'[v] = req[v]
  /\ req'[w].op \in ops \cup {"none"}

RoomOps == {"redact", "link", "review"}
DealRowOps == {"edit", "advance"}
AskOps == {"send", "respond", "accept"}
PacketOps == {"assemble", "ready", "submit", "comment", "resolve", "decide", "condition"}
\* Those that have looked at the record of a packet.
LookOps == {"ready", "submit", "decide"}

LEMMA Held ==
  ASSUME RequestsOK, NEW w \in Windows, NEW r, Hold(w, r)
  PROVE  /\ req'[w] = r /\ DOMAIN req' = Windows
         /\ \A v \in Windows \ {w} : req'[v] = req[v]
BY DEF RequestsOK, Hold

LEMMA Ended ==
  ASSUME RequestsOK, NEW w \in Windows, Done(w)
  PROVE  req'[w] = Idle /\ req'[w].op = "none" /\ \A ops : Moves(w, ops)
BY Held DEF Done, Idle, Moves

LEMMA Began ==
  ASSUME RequestsOK, NEW w \in Windows, NEW op, MayBegin(w, op)
  PROVE  /\ req[w].op = "none"
         /\ req' = req => \A ops : Moves(w, ops)
         /\ \A r : Hold(w, r) => /\ req'[w] = r
                                 /\ \A ops : r.op \in ops => Moves(w, ops)
BY Held DEF MayBegin, Idle, RequestsOK, Moves

LEMMA RoomMoves ==
  ASSUME RequestsOK, NEW w \in Windows, RoomStep(w)
  PROVE  Moves(w, RoomOps)
<1> USE DEF RoomOps
<1>1. ASSUME NEW t \in Texts, IngestDocument(w, t) PROVE Moves(w, RoomOps)
  BY <1>1, Began DEF IngestDocument
<1>2. ASSUME NEW p \in Proposals, ProposeRedaction(w, p) PROVE Moves(w, RoomOps)
  BY <1>2, Began DEF ProposeRedaction
<1>3. ASSUME NEW p \in Proposals, NEW verdict, OpenRedaction(w, p, verdict)
      PROVE  Moves(w, RoomOps)
  BY <1>3, Began DEF OpenRedaction
<1>4. CASE RejectRedaction(w) \/ LinkRedacted(w) \/ ReviewClaim(w)
  BY <1>4, Ended DEF RejectRedaction, LinkRedacted, ReviewClaim
<1>5. CASE MintRedacted(w)
  BY <1>5, Held DEF MintRedacted, Moves
<1>6. CASE ExtractClaims(w)
  BY <1>6, Began DEF ExtractClaims
<1>7. ASSUME NEW outcome, OpenReview(w, outcome) PROVE Moves(w, RoomOps)
  BY <1>7, Began DEF OpenReview
<1>8. QED BY <1>1, <1>2, <1>3, <1>4, <1>5, <1>6, <1>7 DEF RoomStep

\* The steps on a deal, by the rows they write.
DealRowStep(w) ==
  \/ OpenForm(w)
  \/ \E s \in {"active", "on_hold"} : OpenUpdate(w, "status", s)
  \/ \E own \in BOOLEAN : OpenUpdate(w, "own", own)
  \/ UpdateDeal(w)
  \/ \E s \in Range(DealStages) \cup {"declined"} : OpenTransition(w, s)
  \/ TransitionDeal(w)

GateStep(w) ==
  \/ \E g \in Gates : CreateGate(w, g)
  \/ \E g \in Gates, s \in {"satisfied", "waived"} : ResolveGate(w, g, s)
  \/ \E leads \in BOOLEAN : AddTeamMember(w, leads)

AskStep(w) ==
  \/ \E s \in {"draft", "requested"} : CreateRequest(w, s)
  \/ OpenSend(w) \/ SendRequest(w) \/ OpenResponse(w) \/ AddResponse(w)
  \/ \E s \in {"accepted", "rejected"} : OpenAnswerReview(w, s)
  \/ ReviewRequest(w)

LedgerStep(w) ==
  \/ \E s \in {"open", "resolved"} : CreateEntry(w, s)
  \/ \E n \in DOMAIN ledger, s \in {"open", "resolved"} : OpenRevision(w, n, s)
  \/ ReviseEntry(w)

TaskStep(w) ==
  \/ \E t \in Tasks, s \in {"not_started", "in_progress"} \cup Finished : OpenTask(w, t, s)
  \/ UpdateTask(w)

LEMMA DealSteps ==
  ASSUME NEW w
  PROVE  DealStep(w) <=> DealRowStep(w) \/ GateStep(w) \/ AskStep(w) \/ LedgerStep(w) \/ TaskStep(w)
BY DEF DealStep, DealRowStep, GateStep, AskStep, LedgerStep, TaskStep

LEMMA DealRowMoves ==
  ASSUME RequestsOK, NEW w \in Windows, DealRowStep(w)
  PROVE  Moves(w, DealRowOps) /\ UNCHANGED <<gates, lead, ask, ledger, tasks>>
<1> USE DEF DealRowOps, dealVars
<1>1. CASE OpenForm(w) BY <1>1, Began DEF OpenForm
<1>2. ASSUME NEW field, NEW value, OpenUpdate(w, field, value)
      PROVE  Moves(w, DealRowOps) /\ UNCHANGED <<gates, lead, ask, ledger, tasks>>
  BY <1>2, Began DEF OpenUpdate
<1>3. ASSUME NEW to, OpenTransition(w, to)
      PROVE  Moves(w, DealRowOps) /\ UNCHANGED <<gates, lead, ask, ledger, tasks>>
  BY <1>3, Began DEF OpenTransition
<1>4. CASE UpdateDeal(w) \/ TransitionDeal(w)
  BY <1>4, Ended DEF UpdateDeal, TransitionDeal
<1>5. QED BY <1>1, <1>2, <1>3, <1>4 DEF DealRowStep

LEMMA GateMoves ==
  ASSUME RequestsOK, NEW w \in Windows, GateStep(w)
  PROVE  Moves(w, {}) /\ UNCHANGED <<deal, audited, form, trail, ask, ledger, tasks>>
BY Began DEF GateStep, CreateGate, ResolveGate, AddTeamMember

LEMMA AskMoves ==
  ASSUME RequestsOK, NEW w \in Windows, AskStep(w)
  PROVE  Moves(w, AskOps) /\ UNCHANGED <<deal, audited, form, gates, trail, lead, ledger, tasks>>
<1> USE DEF AskOps, dealVars
<1>1. ASSUME NEW s, CreateRequest(w, s) PROVE Moves(w, AskOps) /\ UNCHANGED <<deal, audited, form, gates, trail, lead, ledger, tasks>>
  BY <1>1, Began DEF CreateRequest
<1>2. CASE OpenSend(w) BY <1>2, Began DEF OpenSend
<1>3. CASE OpenResponse(w) BY <1>3, Began DEF OpenResponse
<1>4. ASSUME NEW s, OpenAnswerReview(w, s) PROVE Moves(w, AskOps) /\ UNCHANGED <<deal, audited, form, gates, trail, lead, ledger, tasks>>
  BY <1>4, Began DEF OpenAnswerReview
<1>5. CASE SendRequest(w) \/ AddResponse(w) \/ ReviewRequest(w)
  BY <1>5, Ended DEF SendRequest, AddResponse, ReviewRequest
<1>6. QED BY <1>1, <1>2, <1>3, <1>4, <1>5 DEF AskStep

LEMMA LedgerMoves ==
  ASSUME RequestsOK, NEW w \in Windows, LedgerStep(w)
  PROVE  Moves(w, {"revise"}) /\ UNCHANGED <<deal, audited, form, gates, trail, lead, ask, tasks>>
<1> USE DEF dealVars
<1>1. ASSUME NEW s, CreateEntry(w, s) PROVE Moves(w, {"revise"}) /\ UNCHANGED <<deal, audited, form, gates, trail, lead, ask, tasks>>
  BY <1>1, Began DEF CreateEntry
<1>2. ASSUME NEW n, NEW s, OpenRevision(w, n, s) PROVE Moves(w, {"revise"}) /\ UNCHANGED <<deal, audited, form, gates, trail, lead, ask, tasks>>
  BY <1>2, Began DEF OpenRevision
<1>3. CASE ReviseEntry(w) BY <1>3, Ended DEF ReviseEntry
<1>4. QED BY <1>1, <1>2, <1>3 DEF LedgerStep

LEMMA TaskMoves ==
  ASSUME RequestsOK, NEW w \in Windows, TaskStep(w)
  PROVE  Moves(w, {"task"}) /\ UNCHANGED <<deal, audited, form, gates, trail, lead, ask, ledger>>
<1>1. ASSUME NEW t, NEW s, OpenTask(w, t, s) PROVE Moves(w, {"task"}) /\ UNCHANGED <<deal, audited, form, gates, trail, lead, ask, ledger>>
  BY <1>1, Began DEF OpenTask, dealVars
<1>2. CASE UpdateTask(w) BY <1>2, Ended DEF UpdateTask
<1>3. QED BY <1>1, <1>2 DEF TaskStep

VerdictStep(w) ==
  \E what \in {"submitted", "approved", "rejected", "superseded"} : AddCaseDecision(w, what)

PacketStep(w) ==
  \/ \E c \in {0} \cup DOMAIN claims : OpenPacket(w, c)
  \/ CreatePacket(w)
  \/ \E p \in DOMAIN packets :
       \/ OpenSubmit(w, p) \/ OpenResolve(w, p) \/ CreateExport(w, p)
       \/ \E blocking \in BOOLEAN : OpenComment(w, p, blocking)
       \/ \E what \in Decisions : OpenDecision(w, p, what)
       \/ \E status \in {"satisfied", "waived"} : OpenCondition(w, p, status)
  \/ RefreshPacket(w) \/ Submit(w) \/ AddComment(w) \/ ResolveComment(w) \/ Decide(w) \/ UpdateCondition(w)

LEMMA ICSteps == ASSUME NEW w PROVE ICStep(w) <=> VerdictStep(w) \/ PacketStep(w)
BY DEF ICStep, VerdictStep, PacketStep

LEMMA VerdictMoves ==
  ASSUME RequestsOK, NEW w \in Windows, VerdictStep(w)
  PROVE  Moves(w, {}) /\ UNCHANGED <<roomVars, dealVars, packets, exports>>
BY Began DEF VerdictStep, AddCaseDecision

LEMMA PacketMoves ==
  ASSUME RequestsOK, NEW w \in Windows, PacketStep(w)
  PROVE  /\ Moves(w, PacketOps)
         /\ UNCHANGED <<roomVars, form, gates, trail, lead, ask, ledger, tasks, verdicts>>
         /\ UNCHANGED <<deal, audited>> \/ Decide(w)
<1> DEFINE Goal == /\ Moves(w, PacketOps)
                   /\ UNCHANGED <<roomVars, form, gates, trail, lead, ask, ledger, tasks, verdicts>>
                   /\ UNCHANGED <<deal, audited>> \/ Decide(w)
<1> USE DEF PacketOps, dealVars, icVars
<1>1. ASSUME NEW c, OpenPacket(w, c) PROVE Goal
  BY <1>1, Began DEF OpenPacket
<1>2. ASSUME NEW p, OpenSubmit(w, p) PROVE Goal
  BY <1>2, Began DEF OpenSubmit
<1>3. ASSUME NEW p, OpenResolve(w, p) PROVE Goal
  BY <1>3, Began DEF OpenResolve
<1>4. ASSUME NEW p, CreateExport(w, p) PROVE Goal
  BY <1>4, Began DEF CreateExport
<1>5. ASSUME NEW p, NEW blocking, OpenComment(w, p, blocking) PROVE Goal
  BY <1>5, Began DEF OpenComment
<1>6. ASSUME NEW p, NEW what, OpenDecision(w, p, what) PROVE Goal
  BY <1>6, Began DEF OpenDecision
<1>7. ASSUME NEW p, NEW status, OpenCondition(w, p, status) PROVE Goal
  BY <1>7, Began DEF OpenCondition
<1>8. CASE CreatePacket(w) \/ Submit(w) \/ AddComment(w) \/ ResolveComment(w) \/ UpdateCondition(w)
  BY <1>8, Ended DEF CreatePacket, Submit, AddComment, ResolveComment, UpdateCondition
<1>9. CASE Decide(w)
  BY <1>9, Ended DEF Decide
<1>10. CASE RefreshPacket(w)
  BY <1>10, Held DEF RefreshPacket, Moves
<1>11. QED BY <1>1, <1>2, <1>3, <1>4, <1>5, <1>6, <1>7, <1>8, <1>9, <1>10 DEF PacketStep

LEMMA AbandonMoves ==
  ASSUME RequestsOK, NEW w \in Windows, Abandon(w)
  PROVE  Moves(w, {}) /\ UNCHANGED roomVars
BY Ended DEF Abandon

\* What a step of w may do, by the rows it writes.
LEMMA StepKinds ==
  ASSUME RequestsOK, [Next]_vars
  PROVE  \/ UNCHANGED vars
         \/ \E w \in Windows :
              \/ RoomStep(w) /\ Moves(w, RoomOps) /\ UNCHANGED <<dealVars, icVars>>
              \/ DealRowStep(w) /\ Moves(w, DealRowOps) /\ UNCHANGED <<roomVars, gates, lead, ask, ledger, tasks, icVars>>
              \/ AskStep(w) /\ Moves(w, AskOps) /\ UNCHANGED <<roomVars, deal, audited, form, gates, trail, lead, ledger, tasks, icVars>>
              \/ LedgerStep(w) /\ Moves(w, {"revise"}) /\ UNCHANGED <<roomVars, deal, audited, form, gates, trail, lead, ask, tasks, icVars>>
              \/ TaskStep(w) /\ Moves(w, {"task"}) /\ UNCHANGED <<roomVars, deal, audited, form, gates, trail, lead, ask, ledger, icVars>>
              \/ VerdictStep(w) /\ Moves(w, {}) /\ UNCHANGED <<roomVars, dealVars, packets, exports>>
              \/ /\ PacketStep(w) /\ Moves(w, PacketOps)
                 /\ UNCHANGED <<roomVars, form, gates, trail, lead, ask, ledger, tasks, verdicts>>
                 /\ UNCHANGED <<deal, audited>> \/ Decide(w)
              \/ Moves(w, {}) /\ UNCHANGED <<roomVars, deal, audited, form, trail, ask, ledger, tasks, icVars>>
<1>1. CASE UNCHANGED vars BY <1>1
<1>2. ASSUME NEW w \in Windows, RoomStep(w) /\ UNCHANGED <<agenda, dealVars, icVars>>
      PROVE  RoomStep(w) /\ Moves(w, RoomOps) /\ UNCHANGED <<dealVars, icVars>>
  BY <1>2, RoomMoves
<1>3. ASSUME NEW w \in Windows, DealStep(w), UNCHANGED <<agenda, roomVars, icVars>>
      PROVE  \/ DealRowStep(w) /\ Moves(w, DealRowOps) /\ UNCHANGED <<roomVars, gates, lead, ask, ledger, tasks, icVars>>
             \/ AskStep(w) /\ Moves(w, AskOps) /\ UNCHANGED <<roomVars, deal, audited, form, gates, trail, lead, ledger, tasks, icVars>>
             \/ LedgerStep(w) /\ Moves(w, {"revise"}) /\ UNCHANGED <<roomVars, deal, audited, form, gates, trail, lead, ask, tasks, icVars>>
             \/ TaskStep(w) /\ Moves(w, {"task"}) /\ UNCHANGED <<roomVars, deal, audited, form, gates, trail, lead, ask, ledger, icVars>>
             \/ Moves(w, {}) /\ UNCHANGED <<roomVars, deal, audited, form, trail, ask, ledger, tasks, icVars>>
  BY <1>3, DealSteps, DealRowMoves, GateMoves, AskMoves, LedgerMoves, TaskMoves
<1>4. ASSUME NEW w \in Windows, ICStep(w)
      PROVE  \/ VerdictStep(w) /\ Moves(w, {}) /\ UNCHANGED <<roomVars, dealVars, packets, exports>>
             \/ /\ PacketStep(w) /\ Moves(w, PacketOps)
                /\ UNCHANGED <<roomVars, form, gates, trail, lead, ask, ledger, tasks, verdicts>>
                /\ UNCHANGED <<deal, audited>> \/ Decide(w)
  BY <1>4, ICSteps, VerdictMoves, PacketMoves
<1>5. ASSUME NEW w \in Windows, Abandon(w) /\ UNCHANGED <<agenda, dealVars, icVars>>
      PROVE  Moves(w, {}) /\ UNCHANGED <<roomVars, deal, audited, form, trail, ask, ledger, tasks, icVars>>
  BY <1>5, AbandonMoves DEF dealVars
<1>6. QED BY <1>1, <1>2, <1>3, <1>4, <1>5 DEF Next

-----------------------------------------------------------------------------
(* What the rows hold, and what a request that is about to write relies    *)
(* on.                                                                     *)

Doc == [text : Texts, hides : SUBSET Proposals, of : Proposals \cup {Nothing}]
ProposalRow ==
  [status : {"none", "proposed", "approved", "rejected"}, on : Nat,
   by : Users \cup {Nobody}, decider : Users \cup {Nobody}, link : Nat]
ClaimRow == [status : Reviews, by : Users, doc : Nat]

\* A redaction that is being decided is proposed, waits for its decision by
\* somebody else, and nobody else decides it: its row is locked.  A link that
\* is yet to be stored leads to a version of the redaction.
RedactionHeld(w) ==
  /\ req[w].op = "redact" =>
       /\ req[w].on \in Proposals /\ req[w].what \in {"approved", "rejected"}
       /\ proposals[req[w].on].status = "proposed"
       /\ Person[w] \in Humans \ {proposals[req[w].on].by}
       /\ \A v \in Windows \ {w} : req[v].op = "redact" => req[v].on # req[w].on
  /\ req[w].op = "link" =>
       req[w].on \in Proposals /\ req[w].to \in VersionsOf(req[w].on)

RedactionOK(p) ==
  /\ proposals[p].status = "proposed" => proposals[p].on \in DOMAIN docs
  /\ proposals[p].status = "approved" => \E n \in DOMAIN docs : VersionsOf(p) = {n}
  /\ proposals[p].status # "approved" => VersionsOf(p) = {}
  /\ proposals[p].link # 0 => proposals[p].link \in VersionsOf(p)
  /\ proposals[p].status \in {"approved", "rejected"} =>
       proposals[p].decider \in Humans \ {proposals[p].by}

RedactInv ==
  /\ docs \in Seq(Doc) /\ proposals \in [Proposals -> ProposalRow]
  /\ \A p \in Proposals : RedactionOK(p)
  /\ \A w \in Windows : RedactionHeld(w)

\* The reviewer of a claim is not the author of the revision they read.
ReviewHeld(w) ==
  req[w].op = "review" =>
    /\ req[w].on \in DOMAIN claims /\ req[w].what \in Reviews /\ Person[w] \in Humans
    /\ req[w].what # "unreviewed" => Person[w] # claims[req[w].on].by

ClaimInv ==
  /\ docs \in Seq(Doc) /\ claims \in Seq(ClaimRow)
  /\ \A n \in DOMAIN claims : claims[n].doc \in DOMAIN docs
  /\ \A n \in 2..Len(claims) :
       claims[n].status # "unreviewed" => claims[n].by \in Humans \ {claims[n - 1].by}
  /\ \A w \in Windows : ReviewHeld(w)

\* Who reviews an answer has seen it given by somebody else.
AskRow ==
  [status : {"none", "draft", "requested", "responded", "accepted", "rejected"},
   by : Users \cup {Nobody}, accepter : Users \cup {Nobody},
   judged : [of : Users \cup {Nobody}, by : Users \cup {Nobody}]]

AnswerHeld(w) ==
  /\ req[w].op \in {"respond", "accept"} => req[w].saw \in AskRow
  /\ req[w].op = "accept" =>
       req[w].to \in {"accepted", "rejected"} /\ Person[w] \in Humans \ {req[w].saw.by}

AskInv ==
  /\ ask \in AskRow
  /\ ask.status = "accepted" => ask.judged.by \in Humans \ {ask.judged.of}
  /\ \A w \in Windows : AnswerHeld(w)

\* Who is about to write the deal has its current row, or one whose version
\* falls short of the audit trail; and a stage it was recorded to reach.
DealWriters == {"decide", "advance", "edit"}
StageNames == Range(DealStages) \cup {"declined"}
DealRow ==
  [stage : StageNames, status : {"active", "on_hold", "declined", "closed"}, version : Nat, own : BOOLEAN]

Reached(stage) == stage \in {Stage(1), "declined"} \/ \E n \in DOMAIN trail : trail[n][2] = stage

DealHeld(w) ==
  /\ req[w].op \in DealWriters =>
       /\ req[w].saw \in DealRow /\ Reached(req[w].saw.stage)
       /\ req[w].saw.version <= audited
       /\ req[w].saw.version = audited => req[w].saw = deal
  /\ req[w].op = "edit" =>
       /\ form[w] = req[w].saw.version
       /\ \/ req[w].field = "status" /\ req[w].to \in {"active", "on_hold"}
          \/ req[w].field = "own" /\ req[w].to \in BOOLEAN
  /\ req[w].op = "advance" => req[w].to \in StageNames /\ req[w].saw.stage # "declined"

Chained ==
  /\ \A n \in 1..(Len(trail) - 1) : trail[n][2] = trail[n + 1][1]
  /\ trail # <<>> => deal.stage \in {trail[Len(trail)][2], "declined"}

DealInv ==
  /\ deal \in DealRow /\ DOMAIN form = Windows /\ audited \in Nat
  /\ trail \in Seq(StageNames \X StageNames)
  /\ deal.version <= audited /\ Reached(deal.stage)
  /\ \A n \in DOMAIN trail :
       trail[n][1] = Stage(1) \/ \E m \in 1..(n - 1) : trail[m][2] = trail[n][1]
  /\ Accounted => Chained
  /\ \A w \in Windows : DealHeld(w)

\* A revision supersedes an older one; whoever revises what others have
\* revised since has not seen theirs.
LedgerRow == [status : {"open", "resolved", "superseded"}, version : Nat, of : Nat, seen : Nat]

RevisionHeld(w) ==
  req[w].op = "revise" =>
    /\ req[w].on \in DOMAIN ledger /\ req[w].to \in {"open", "resolved"} /\ req[w].seen \in Nat
    /\ req[w].seen <= Len(ledger)
    /\ \A m \in DOMAIN ledger : ledger[m].of = req[w].on => req[w].seen < m

EntryOK(n) ==
  /\ n = 1 => ledger[n].of = 0 /\ ledger[n].version = 1
  /\ n # 1 => ledger[n].of \in 1..(n - 1) /\ ledger[n].version = ledger[ledger[n].of].version + 1
  /\ ledger[n].status = "superseded" <=> \E m \in DOMAIN ledger : ledger[m].of = n
  /\ \A m \in 1..(n - 1) : ledger[m].of = ledger[n].of => ledger[n].seen < m

LedgerInv ==
  /\ ledger \in Seq(LedgerRow)
  /\ \A n \in DOMAIN ledger : EntryOK(n)
  /\ \A w \in Windows : RevisionHeld(w)

\* A task that was complete once is marked for good.
TaskRow == [status : {"not_started", "in_progress"} \cup Finished, done : BOOLEAN]

TaskHeld(w) ==
  req[w].op = "task" =>
    /\ req[w].on \in Tasks /\ req[w].to \in {"not_started", "in_progress"} \cup Finished
    /\ req[w].to = "complete" => \A d \in Needs[req[w].on] : tasks[d].done

TaskInv ==
  /\ tasks \in [Tasks -> TaskRow]
  /\ \A t \in Tasks : tasks[t].status = "complete" =>
       tasks[t].done /\ \A d \in Needs[t] : tasks[d].done
  /\ \A w \in Windows : TaskHeld(w)

\* Whoever approves or rejects the case is not its last submitter.
VerdictRow == [what : {"submitted", "approved", "rejected", "superseded"}, by : Users]

VerdictInv ==
  /\ verdicts \in Seq(VerdictRow)
  /\ \A n \in DOMAIN verdicts : verdicts[n].what \in {"approved", "rejected"} =>
       \E m \in 1..(n - 1) : verdicts[m].what = "submitted" /\ verdicts[m].by # verdicts[n].by

\* A packet quotes what its sources say, and they never change.
BlockerRow ==
  [status : {"none", "open", "resolved"}, by : Users \cup {Nobody}, resolver : Users \cup {Nobody}]
VoteRow == [what : Decisions, by : Users]
PacketRow ==
  [status : {"draft", "submitted", "in_review", "approved", "conditional", "deferred", "declined"},
   submitter : Users \cup {Nobody}, filed : SUBSET Users, case : Nat, verdict : VerdictRow \cup {Undecided},
   claim : Nat, row : ClaimRow \cup {NoClaim}, blocker : BlockerRow, votes : Seq(VoteRow),
   condition : {"none", "open", "satisfied", "waived"}]

Quotes(packet) ==
  /\ packet.case # 0 => packet.case \in DOMAIN verdicts /\ verdicts[packet.case] = packet.verdict
  /\ packet.case = 0 => packet.verdict = Undecided
  /\ packet.claim # 0 =>
       /\ packet.claim \in DOMAIN claims /\ claims[packet.claim] = packet.row
       /\ packet.row.status = "approved"

SubmittedOK(packet) ==
  /\ packet.status = "draft" <=> packet.submitter = Nobody
  /\ packet.status # "draft" => packet.verdict.what = "approved"
  /\ packet.blocker.status = "resolved" => packet.blocker.resolver \in Humans \ {packet.blocker.by}
  /\ packet.submitter # Nobody => packet.submitter \in packet.filed
  /\ \A n \in DOMAIN packet.votes : packet.filed \ {packet.votes[n].by} # {}

PacketHeld(w) ==
  /\ req[w].op = "assemble" =>
       /\ req[w].packet \in PacketRow /\ Quotes(req[w].packet)
       /\ req[w].packet.status = "draft" /\ req[w].packet.submitter = Nobody
       /\ req[w].packet.blocker = Blank /\ req[w].packet.votes = <<>>
  /\ req[w].op \in {"ready", "submit", "comment", "resolve", "decide", "condition"} =>
       req[w].on \in DOMAIN packets
  /\ req[w].op \in {"ready", "submit"} => packets[req[w].on].verdict.what = "approved"
  /\ req[w].op = "submit" =>
       /\ req[w].saw.status # "draft" => packets[req[w].on].status # "draft"
       /\ req[w].saw.submitter # Nobody => packets[req[w].on].submitter # Nobody
  /\ req[w].op = "comment" =>
       req[w].blocking \in BOOLEAN /\ (req[w].saw = "submitted" => packets[req[w].on].status # "draft")
  /\ req[w].op = "resolve" =>
       /\ packets[req[w].on].blocker.status # "none"
       /\ Person[w] \in Humans \ {packets[req[w].on].blocker.by}
  /\ req[w].op = "decide" =>
       /\ packets[req[w].on].status # "draft" /\ req[w].to \in Decisions
       /\ packets[req[w].on].filed \ {Person[w]} # {}
  /\ req[w].op = "condition" => req[w].to \in {"satisfied", "waived"}

PacketInv ==
  /\ packets \in Seq(PacketRow)
  /\ \A p \in DOMAIN packets : Quotes(packets[p]) /\ SubmittedOK(packets[p])
  /\ \A e \in exports :
       /\ e.packet \in DOMAIN packets /\ packets[e.packet].status # "draft"
       /\ e.content = Content(packets[e.packet])
  /\ \A w \in Windows : PacketHeld(w)

-----------------------------------------------------------------------------
(* Sequences and naturals.                                                 *)

LEMMA Appended ==
  ASSUME NEW S, NEW s \in Seq(S), NEW e \in S
  PROVE  /\ Append(s, e) \in Seq(S) /\ Len(s) \in Nat /\ DOMAIN s = 1..Len(s)
         /\ Len(Append(s, e)) = Len(s) + 1 /\ DOMAIN Append(s, e) = 1..(Len(s) + 1)
         /\ \A n \in 1..Len(s) : Append(s, e)[n] = s[n]
         /\ Append(s, e)[Len(s) + 1] = e
OBVIOUS

LEMMA Replaced ==
  ASSUME NEW S, NEW s \in Seq(S), NEW i \in DOMAIN s, NEW e \in S
  PROVE  /\ [s EXCEPT ![i] = e] \in Seq(S)
         /\ Len([s EXCEPT ![i] = e]) = Len(s) /\ DOMAIN [s EXCEPT ![i] = e] = DOMAIN s
         /\ \A n \in DOMAIN s : [s EXCEPT ![i] = e][n] = IF n = i THEN e ELSE s[n]
OBVIOUS

LEMMA NaturalsHaveLeast ==
  ASSUME NEW T, T \subseteq Nat, T # {}
  PROVE  \E x \in T : \A y \in T : x <= y
<1>1. IsWellFoundedOn({ss \in Nat \X Nat : ss[1] < ss[2]}, Nat)
  BY NatLessThanWellFounded DEF OpToRel
<1>2. PICK x \in T : \A y \in T : ~ (<<y, x>> \in {ss \in Nat \X Nat : ss[1] < ss[2]})
  BY <1>1, WFMin
<1>3. \A y \in T : x <= y
  <2> TAKE y \in T
  <2>1. x \in Nat /\ y \in Nat
    OBVIOUS
  <2>2. ~ (y < x)
    BY <1>2, <2>1
  <2> QED BY <2>1, <2>2
<1> QED BY <1>3

LEMMA MaxIsGreatest ==
  ASSUME NEW n \in Nat, NEW S, S \subseteq 1..n, S # {}
  PROVE  Max(S) \in S /\ \A y \in S : Max(S) >= y
<1> DEFINE T == {k \in Nat : n - k \in S}
<1>1. ASSUME NEW y \in S PROVE n - y \in T
  <2>1. y \in 1..n
    OBVIOUS
  <2>2. n - y \in Nat /\ n - (n - y) = y
    BY <2>1
  <2> QED BY <2>2
<1>2. T \subseteq Nat /\ T # {}
  BY <1>1
<1> HIDE DEF T
<1>3. PICK k \in T : \A j \in T : k <= j
  BY <1>2, NaturalsHaveLeast
<1>4. n - k \in S /\ k \in Nat
  BY DEF T
<1>5. ASSUME NEW y \in S PROVE n - k >= y
  <2>1. y \in 1..n /\ k <= n - y
    BY <1>1, <1>3
  <2> QED BY <2>1, <1>4
<1>6. \E m \in S : \A y \in S : m >= y
  BY <1>4, <1>5
<1> QED BY <1>6 DEF Max

-----------------------------------------------------------------------------
(* Redactions.                                                             *)

LEMMA InitRedact == Init => RedactInv
<1> SUFFICES ASSUME Init PROVE RedactInv
  OBVIOUS
<1>1. \A w \in Windows : req[w].op = "none"
  BY DEF Init, RoomInit, Idle
<1>2. docs \in Seq(Doc) /\ \A n \in DOMAIN docs : docs[n].of = Nothing
  <2>1. docs = <<>> \/ \E t \in Texts : docs = <<Upload(t)>>
    BY DEF Init, RoomInit
  <2>2. ASSUME NEW t \in Texts PROVE Upload(t) \in Doc /\ Upload(t).of = Nothing
    BY DEF Upload, Doc
  <2>3. ASSUME NEW d \in Doc, d.of = Nothing, docs = <<d>>
        PROVE  docs \in Seq(Doc) /\ \A n \in DOMAIN docs : docs[n].of = Nothing
    BY <2>3
  <2>4. CASE docs = <<>>
    BY <2>4
  <2>5. CASE \E t \in Texts : docs = <<Upload(t)>>
    BY <2>2, <2>3, <2>5
  <2> QED BY <2>1, <2>4, <2>5
<1>3. \A p \in Proposals : proposals[p] = Unproposed /\ VersionsOf(p) = {}
  BY <1>2, DataRoomAssumption DEF Init, RoomInit, VersionsOf
<1>4. proposals \in [Proposals -> ProposalRow]
  BY DEF Init, RoomInit, Unproposed, ProposalRow
<1>5. QED BY <1>1, <1>2, <1>3, <1>4 DEF RedactInv, RedactionOK, RedactionHeld, Unproposed

LEMMA RedactStays ==
  ASSUME RedactInv, RequestsOK, NEW w \in Windows, NEW ops, Moves(w, ops),
         ops \cap {"redact", "link"} = {}, UNCHANGED <<docs, proposals>>
  PROVE  RedactInv'
<1>1. \A p : VersionsOf(p)' = VersionsOf(p)
  BY DEF VersionsOf
<1>2. \A p \in Proposals : RedactionOK(p)'
  BY <1>1 DEF RedactInv, RedactionOK
<1>3. ASSUME NEW v \in Windows PROVE RedactionHeld(v)'
  BY <1>1 DEF RedactInv, RedactionHeld, Moves
<1> QED BY <1>2, <1>3 DEF RedactInv

LEMMA IngestRedact ==
  ASSUME RedactInv, RequestsOK, NEW w \in Windows, NEW text \in Texts, IngestDocument(w, text)
  PROVE  RedactInv'
<1> DEFINE d == Upload(text)
<1>1. d \in Doc /\ d.of = Nothing
  BY DEF Upload, Doc
<1>2. docs' = Append(docs, d) /\ UNCHANGED <<req, proposals>>
  BY DEF IngestDocument
<1> HIDE DEF d
<1>3. /\ docs' \in Seq(Doc) /\ DOMAIN docs = 1..Len(docs) /\ Len(docs) \in Nat
      /\ DOMAIN docs' = 1..(Len(docs) + 1) /\ docs'[Len(docs) + 1] = d
      /\ \A n \in 1..Len(docs) : docs'[n] = docs[n]
  BY <1>1, <1>2, Appended DEF RedactInv
<1>4. \A p \in Proposals : VersionsOf(p)' = VersionsOf(p)
  BY <1>1, <1>3, DataRoomAssumption DEF VersionsOf
<1>5. \A p \in Proposals : RedactionOK(p)'
  BY <1>2, <1>3, <1>4 DEF RedactInv, RedactionOK
<1>6. ASSUME NEW v \in Windows PROVE RedactionHeld(v)'
  BY <1>2, <1>4 DEF RedactInv, RedactionHeld
<1> QED BY <1>2, <1>3, <1>5, <1>6 DEF RedactInv

LEMMA ProposeRedact ==
  ASSUME RedactInv, RequestsOK, NEW w \in Windows, NEW p \in Proposals, ProposeRedaction(w, p)
  PROVE  RedactInv'
<1> DEFINE row == [Unproposed EXCEPT !.status = "proposed", !.on = Len(docs), !.by = Person[w]]
<1>1. /\ proposals[p].status = "none" /\ docs # <<>>
      /\ proposals' = [proposals EXCEPT ![p] = row] /\ UNCHANGED <<req, docs>>
  BY DEF ProposeRedaction
<1>2. docs \in Seq(Doc) /\ Len(docs) \in Nat /\ Len(docs) \in DOMAIN docs
  BY <1>1 DEF RedactInv
<1>3. /\ row.status = "proposed" /\ row.on = Len(docs) /\ row.link = 0 /\ row \in ProposalRow
  BY <1>2, DataRoomAssumption DEF Unproposed, ProposalRow
<1> HIDE DEF row
<1>4. \A q : VersionsOf(q)' = VersionsOf(q)
  BY <1>1 DEF VersionsOf
<1>5. \A q \in Proposals : RedactionOK(q)'
  BY <1>1, <1>2, <1>3, <1>4 DEF RedactInv, RedactionOK
<1>6. ASSUME NEW v \in Windows PROVE RedactionHeld(v)'
  BY <1>1, <1>4 DEF RedactInv, RedactionHeld
<1> QED BY <1>1, <1>3, <1>5, <1>6 DEF RedactInv

LEMMA OpenRedact ==
  ASSUME RedactInv, RequestsOK, NEW w \in Windows, NEW p \in Proposals,
         NEW verdict \in {"approved", "rejected"}, OpenRedaction(w, p, verdict)
  PROVE  RedactInv'
<1> DEFINE r == [op |-> "redact", on |-> p, what |-> verdict]
<1>1. /\ MayDecide(w, p) /\ UNCHANGED <<docs, proposals>>
      /\ \A v \in Windows : req[v].op = "redact" => req[v].on # p
  BY DEF OpenRedaction, Locked, Holds, roomVars
<1>2. req'[w] = r /\ \A v \in Windows \ {w} : req'[v] = req[v]
  BY Held DEF OpenRedaction
<1>3. r.op = "redact" /\ r.on = p /\ r.what = verdict
  OBVIOUS
<1> HIDE DEF r
<1>4. \A q : VersionsOf(q)' = VersionsOf(q)
  BY <1>1 DEF VersionsOf
<1>5. \A q \in Proposals : RedactionOK(q)'
  BY <1>1, <1>4 DEF RedactInv, RedactionOK
<1>6. RedactionHeld(w)'
  BY <1>1, <1>2, <1>3 DEF RedactionHeld, MayDecide
<1>7. ASSUME NEW v \in Windows \ {w} PROVE RedactionHeld(v)'
  BY <1>1, <1>2, <1>3, <1>4 DEF RedactInv, RedactionHeld
<1> QED BY <1>1, <1>5, <1>6, <1>7 DEF RedactInv

\* A decision stores the status and the person, in the row that is locked.
LEMMA DecidedRow ==
  ASSUME RedactInv, NEW w \in Windows, Holds(w, "redact"), proposals' = Decided(w)
  PROVE  LET p == req[w].on
         IN  /\ p \in Proposals /\ proposals' \in [Proposals -> ProposalRow]
             /\ proposals'[p].status = req[w].what /\ proposals'[p].link = proposals[p].link
             /\ proposals'[p].decider \in Humans \ {proposals'[p].by}
             /\ \A q \in Proposals \ {p} : proposals'[q] = proposals[q]
<1> DEFINE p == req[w].on
<1>1. /\ p \in Proposals /\ proposals[p] \in ProposalRow /\ req[w].what \in {"approved", "rejected"}
      /\ Person[w] \in Humans \ {proposals[p].by}
  BY DEF RedactInv, RedactionHeld, Holds
<1> DEFINE row == [proposals[p] EXCEPT !.status = req[w].what, !.decider = Person[w]]
<1>2. proposals' = [proposals EXCEPT ![p] = row]
  BY <1>1 DEF Decided, RedactInv
<1>3. /\ row \in ProposalRow /\ row.status = req[w].what /\ row.decider = Person[w]
      /\ row.by = proposals[p].by /\ row.link = proposals[p].link
  BY <1>1, DataRoomAssumption DEF ProposalRow
<1> HIDE DEF p, row
<1>4. QED BY <1>1, <1>2, <1>3 DEF RedactInv, p

LEMMA RejectRedact ==
  ASSUME RedactInv, RequestsOK, NEW w \in Windows, RejectRedaction(w)
  PROVE  RedactInv'
<1> DEFINE p == req[w].on
<1>1. Holds(w, "redact") /\ req[w].what = "rejected" /\ proposals' = Decided(w) /\ docs' = docs
  BY DEF RejectRedaction
<1>2. req'[w].op = "none" /\ \A v \in Windows \ {w} : req'[v] = req[v]
  BY Ended DEF RejectRedaction, Moves
<1>3. proposals[p].status = "proposed" /\ \A v \in Windows \ {w} : req[v].op = "redact" => req[v].on # p
  BY <1>1 DEF RedactInv, RedactionHeld, Holds
<1>4. \A q : VersionsOf(q)' = VersionsOf(q)
  BY <1>1 DEF VersionsOf
<1>5. ASSUME NEW q \in Proposals PROVE RedactionOK(q)'
  BY <1>1, <1>3, <1>4, DecidedRow DEF RedactInv, RedactionOK
<1>6. ASSUME NEW v \in Windows PROVE RedactionHeld(v)'
  BY <1>1, <1>2, <1>3, <1>4, DecidedRow DEF RedactInv, RedactionHeld
<1> QED BY <1>1, <1>5, <1>6, DecidedRow DEF RedactInv

LEMMA MintRedact ==
  ASSUME RedactInv, RequestsOK, NEW w \in Windows, MintRedacted(w)
  PROVE  RedactInv'
<1> PICK p, n : p = req[w].on /\ n = Len(docs) + 1
  OBVIOUS
<1> DEFINE d == Redacted(docs[proposals[p].on], p)
           r == [op |-> "link", on |-> p, to |-> n]
<1>1. /\ Holds(w, "redact") /\ req[w].what = "approved" /\ proposals' = Decided(w)
      /\ docs' = Append(docs, d)
  BY DEF MintRedacted
<1>2. req'[w] = r /\ \A v \in Windows \ {w} : req'[v] = req[v]
  BY Held DEF MintRedacted
<1>3. r.op = "link" /\ r.on = p /\ r.to = n
  OBVIOUS
<1>4. /\ p \in Proposals /\ proposals[p].status = "proposed" /\ proposals[p].on \in DOMAIN docs
      /\ VersionsOf(p) = {} /\ proposals[p].link = 0
      /\ \A v \in Windows \ {w} : req[v].op = "redact" => req[v].on # p
  BY <1>1 DEF RedactInv, RedactionHeld, RedactionOK, Holds
<1>5. d \in Doc /\ d.of = p
  <2>1. docs[proposals[p].on] \in Doc
    BY <1>4 DEF RedactInv
  <2> QED BY <1>4, <2>1 DEF Redacted, Doc
<1> HIDE DEF d, r
<1>6. /\ docs' \in Seq(Doc) /\ DOMAIN docs = 1..Len(docs) /\ Len(docs) \in Nat
      /\ DOMAIN docs' = 1..n /\ docs'[n] = d
      /\ \A k \in 1..Len(docs) : docs'[k] = docs[k]
  BY <1>1, <1>5, Appended DEF RedactInv
<1>7. VersionsOf(p)' = {n} /\ n \in DOMAIN docs' /\ n # 0
  <2>1. ASSUME NEW k \in DOMAIN docs PROVE k \in 1..Len(docs) /\ docs[k].of # p
    BY <1>4, <1>6 DEF VersionsOf
  <2> QED BY <1>5, <1>6, <2>1 DEF VersionsOf
<1>8. \A q \in Proposals \ {p} : VersionsOf(q)' = VersionsOf(q)
  BY <1>5, <1>6 DEF VersionsOf
<1>9. ASSUME NEW q \in Proposals PROVE RedactionOK(q)'
  <2>1. CASE q = p
    BY <1>1, <1>4, <1>7, <2>1, DecidedRow DEF RedactionOK
  <2>2. CASE q # p
    <3>1. proposals'[q] = proposals[q] /\ VersionsOf(q)' = VersionsOf(q) /\ DOMAIN docs \subseteq DOMAIN docs'
      BY <1>1, <1>6, <1>8, <2>2, DecidedRow
    <3> QED BY <3>1 DEF RedactInv, RedactionOK
  <2> QED BY <2>1, <2>2
<1>10. RedactionHeld(w)'
  <2>1. req'[w].op = "link" /\ req'[w].on = p /\ req'[w].to = n
    BY <1>2, <1>3
  <2>2. n \in DOMAIN docs' /\ docs'[n].of = p
    BY <1>5, <1>6, <1>7
  <2> QED BY <1>4, <2>1, <2>2 DEF RedactionHeld, VersionsOf
<1>11. ASSUME NEW v \in Windows \ {w} PROVE RedactionHeld(v)'
  <2>1. req'[v] = req[v] /\ req'[w].op = "link"
    BY <1>2, <1>3
  <2>2. CASE req[v].op = "redact"
    <3>1. req[v].on \in Proposals \ {p}
      BY <1>4, <2>2 DEF RedactInv, RedactionHeld
    <3>2. proposals'[req[v].on] = proposals[req[v].on]
      BY <1>1, <3>1, DecidedRow
    <3> QED BY <1>2, <2>1, <2>2, <3>2 DEF RedactInv, RedactionHeld
  <2>3. CASE req[v].op = "link"
    <3>1. /\ req[v].on \in Proposals /\ req[v].to \in DOMAIN docs
          /\ docs[req[v].to].of = req[v].on
      BY <2>3 DEF RedactInv, RedactionHeld, VersionsOf
    <3>2. req[v].to \in DOMAIN docs' /\ docs'[req[v].to] = docs[req[v].to]
      BY <1>6, <3>1
    <3> QED BY <2>1, <2>3, <3>1, <3>2 DEF RedactionHeld, VersionsOf
  <2> QED BY <2>1, <2>2, <2>3 DEF RedactionHeld
<1> QED BY <1>1, <1>6, <1>9, <1>10, <1>11, DecidedRow DEF RedactInv

LEMMA LinkRedact ==
  ASSUME RedactInv, RequestsOK, NEW w \in Windows, LinkRedacted(w)
  PROVE  RedactInv'
<1> DEFINE p == req[w].on
           row == [proposals[p] EXCEPT !.link = req[w].to]
<1>1. /\ p \in Proposals /\ req[w].to \in VersionsOf(p) /\ proposals[p] \in ProposalRow
  BY DEF LinkRedacted, Holds, RedactInv, RedactionHeld
<1>2. proposals' = [proposals EXCEPT ![p] = row] /\ docs' = docs
  BY <1>1 DEF LinkRedacted, RedactInv
<1>3. req'[w].op = "none" /\ \A v \in Windows \ {w} : req'[v] = req[v]
  BY Ended DEF LinkRedacted, Moves
<1>4. req[w].to \in Nat
  BY <1>1 DEF VersionsOf, RedactInv
<1>5. row \in ProposalRow /\ row.link = req[w].to /\ row.status = proposals[p].status
      /\ row.on = proposals[p].on /\ row.by = proposals[p].by /\ row.decider = proposals[p].decider
  BY <1>1, <1>4 DEF ProposalRow
<1> HIDE DEF row, p
<1>6. \A q : VersionsOf(q)' = VersionsOf(q)
  BY <1>2 DEF VersionsOf
<1>7. ASSUME NEW q \in Proposals PROVE RedactionOK(q)'
  BY <1>1, <1>2, <1>5, <1>6 DEF RedactInv, RedactionOK
<1>8. ASSUME NEW v \in Windows PROVE RedactionHeld(v)'
  BY <1>1, <1>2, <1>3, <1>5, <1>6 DEF RedactInv, RedactionHeld
<1> QED BY <1>1, <1>2, <1>5, <1>7, <1>8 DEF RedactInv

LEMMA StepRedact ==
  ASSUME RedactInv, RequestsOK, [Next]_vars
  PROVE  RedactInv'
<1>1. ASSUME NEW w \in Windows, RoomStep(w) PROVE RedactInv'
  <2>1. CASE ExtractClaims(w)
    <3>1. Moves(w, {}) /\ UNCHANGED <<docs, proposals>>
      BY <2>1, Began DEF ExtractClaims
    <3> QED BY <3>1, RedactStays
  <2>2. ASSUME NEW outcome, OpenReview(w, outcome) PROVE RedactInv'
    <3>1. Moves(w, {"review"}) /\ UNCHANGED <<docs, proposals>>
      BY <2>2, Began DEF OpenReview, roomVars
    <3> QED BY <3>1, RedactStays
  <2>3. CASE ReviewClaim(w)
    <3>1. Moves(w, {}) /\ UNCHANGED <<docs, proposals>>
      BY <2>3, Ended DEF ReviewClaim
    <3> QED BY <3>1, RedactStays
  <2> QED BY <1>1, <2>1, <2>2, <2>3, IngestRedact, ProposeRedact, OpenRedact, RejectRedact, MintRedact, LinkRedact
          DEF RoomStep
<1>2. CASE UNCHANGED vars
  BY <1>2 DEF vars, roomVars, RedactInv, RedactionOK, RedactionHeld, VersionsOf
<1> QED BY <1>1, <1>2, StepKinds, RedactStays
        DEF DealRowOps, AskOps, PacketOps, roomVars

-----------------------------------------------------------------------------
(* Claims.                                                                 *)

\* The documents a step adds come after those that are there.
LEMMA DocsGrow ==
  ASSUME RedactInv, RequestsOK, NEW w \in Windows, RoomStep(w)
  PROVE  docs' = docs \/ \E d \in Doc : docs' = Append(docs, d)
<1>1. ASSUME NEW t \in Texts, IngestDocument(w, t) PROVE \E d \in Doc : docs' = Append(docs, d)
  <2>1. Upload(t) \in Doc
    BY DEF Upload, Doc
  <2> QED BY <1>1, <2>1 DEF IngestDocument
<1>2. CASE MintRedacted(w)
  <2> PICK p : p = req[w].on
    OBVIOUS
  <2>1. p \in Proposals /\ docs[proposals[p].on] \in Doc
    BY <1>2 DEF MintRedacted, Holds, RedactInv, RedactionHeld, RedactionOK
  <2>2. Redacted(docs[proposals[p].on], p) \in Doc
    BY <2>1 DEF Redacted, Doc
  <2> QED BY <1>2, <2>2 DEF MintRedacted
<1>3. QED
  BY <1>1, <1>2 DEF RoomStep, ProposeRedaction, OpenRedaction, RejectRedaction, LinkRedacted,
                    ExtractClaims, OpenReview, ReviewClaim, roomVars

LEMMA InitClaim == Init => ClaimInv
<1> SUFFICES ASSUME Init PROVE ClaimInv
  OBVIOUS
<1>1. \A w \in Windows : req[w].op = "none"
  BY DEF Init, RoomInit, Idle
<1>2. docs \in Seq(Doc)
  BY InitRedact DEF RedactInv
<1>3. CASE ~ agenda.begun
  BY <1>1, <1>2, <1>3 DEF Init, RoomInit, ClaimInv, ReviewHeld
<1>4. CASE agenda.begun
  <2>0. PICK author \in Users : \E reviewer \in Humans \ {author} :
          /\ Len(docs) = 1
          /\ claims = <<Claim("unreviewed", author, 1), Claim("approved", reviewer, 1)>>
    BY <1>4 DEF Init, RoomInit
  <2>1. PICK reviewer \in Humans \ {author} :
          /\ Len(docs) = 1
          /\ claims = <<Claim("unreviewed", author, 1), Claim("approved", reviewer, 1)>>
    BY <2>0
  <2>2. claims[1].by = author /\ claims[2].by = reviewer /\ Len(claims) = 2
        /\ claims[1].status = "unreviewed" /\ claims[1].doc = 1 /\ claims[2].doc = 1
    BY <2>1 DEF Claim
  <2>3. Claim("unreviewed", author, 1) \in ClaimRow /\ Claim("approved", reviewer, 1) \in ClaimRow
    BY DataRoomAssumption DEF Claim, ClaimRow, Reviews
  <2>4. claims \in Seq(ClaimRow)
    BY <2>1, <2>3
  <2>5. \A n \in DOMAIN claims : claims[n].doc \in DOMAIN docs
    BY <1>2, <2>1, <2>2, <2>4
  <2>6. \A n \in 2..Len(claims) : claims[n].by \in Humans \ {claims[n - 1].by}
    <3> TAKE n \in 2..Len(claims)
    <3>1. n = 2 /\ n - 1 = 1
      BY <2>2
    <3> QED BY <2>2, <3>1
  <2> QED BY <1>1, <1>2, <2>4, <2>5, <2>6 DEF ClaimInv, ReviewHeld
<1> QED BY <1>3, <1>4

LEMMA ClaimStays ==
  ASSUME ClaimInv, RequestsOK, NEW w \in Windows, NEW ops, Moves(w, ops),
         "review" \notin ops, UNCHANGED claims,
         docs' = docs \/ \E d \in Doc : docs' = Append(docs, d)
  PROVE  ClaimInv'
<1>1. docs' \in Seq(Doc) /\ DOMAIN docs \subseteq DOMAIN docs'
  <2>1. CASE docs' = docs
    BY <2>1 DEF ClaimInv
  <2>2. ASSUME NEW d \in Doc, docs' = Append(docs, d)
        PROVE  docs' \in Seq(Doc) /\ DOMAIN docs \subseteq DOMAIN docs'
    BY <2>2, Appended DEF ClaimInv
  <2> QED BY <2>1, <2>2
<1>2. ASSUME NEW v \in Windows PROVE ReviewHeld(v)'
  BY DEF ClaimInv, ReviewHeld, Moves
<1> QED BY <1>1, <1>2 DEF ClaimInv

LEMMA ExtractClaim ==
  ASSUME ClaimInv, RequestsOK, NEW w \in Windows, ExtractClaims(w)
  PROVE  ClaimInv'
<1> DEFINE c == Claim("unreviewed", Person[w], Len(docs))
<1>1. claims = <<>> /\ docs # <<>> /\ claims' = <<c>> /\ UNCHANGED <<req, docs>>
  BY DEF ExtractClaims
<1>2. docs \in Seq(Doc) /\ Len(docs) \in Nat /\ Len(docs) \in DOMAIN docs
  BY <1>1 DEF ClaimInv
<1>3. c \in ClaimRow /\ c.doc = Len(docs)
  BY <1>2, DataRoomAssumption DEF Claim, ClaimRow, Reviews
<1> HIDE DEF c
<1>4. claims' \in Seq(ClaimRow) /\ Len(claims') = 1 /\ DOMAIN claims' = {1} /\ claims'[1] = c
  BY <1>1, <1>3
<1>5. ASSUME NEW v \in Windows PROVE req[v].op # "review"
  BY <1>1 DEF ClaimInv, ReviewHeld
<1>6. ASSUME NEW v \in Windows PROVE ReviewHeld(v)'
  BY <1>1, <1>5 DEF ReviewHeld
<1>7. \A n \in 2..Len(claims') : FALSE
  BY <1>4
<1> QED BY <1>1, <1>2, <1>3, <1>4, <1>6, <1>7 DEF ClaimInv

LEMMA OpenReviewClaim ==
  ASSUME ClaimInv, RequestsOK, NEW w \in Windows, NEW outcome \in Reviews, OpenReview(w, outcome)
  PROVE  ClaimInv'
<1> DEFINE r == [op |-> "review", on |-> Len(claims), what |-> outcome]
<1>1. /\ Person[w] \in Humans /\ claims # <<>>
      /\ outcome # "unreviewed" => Last(claims).by # Person[w]
      /\ UNCHANGED <<docs, claims>>
  BY DEF OpenReview, roomVars
<1>2. req'[w] = r /\ \A v \in Windows \ {w} : req'[v] = req[v]
  BY Held DEF OpenReview
<1>3. r.on = Len(claims) /\ r.what = outcome
  OBVIOUS
<1> HIDE DEF r
<1>4. Len(claims) \in DOMAIN claims
  BY <1>1 DEF ClaimInv
<1>5. ReviewHeld(w)'
  BY <1>1, <1>2, <1>3, <1>4 DEF ReviewHeld, Last
<1>6. ASSUME NEW v \in Windows \ {w} PROVE ReviewHeld(v)'
  BY <1>1, <1>2 DEF ClaimInv, ReviewHeld
<1> QED BY <1>1, <1>5, <1>6 DEF ClaimInv

LEMMA ReviewedClaim ==
  ASSUME ClaimInv, RequestsOK, NEW w \in Windows, ReviewClaim(w)
  PROVE  ClaimInv'
<1> PICK n : n = Len(claims)
  OBVIOUS
<1> DEFINE c == Claim(req[w].what, Person[w], claims[n].doc)
<1>1. /\ req[w].op = "review" /\ req[w].on = n /\ claims' = Append(claims, c) /\ UNCHANGED docs
  BY DEF ReviewClaim, Holds
<1>2. req'[w].op = "none" /\ \A v \in Windows \ {w} : req'[v] = req[v]
  BY Ended DEF ReviewClaim, Moves
<1>3. /\ n \in DOMAIN claims /\ n \in Nat /\ Person[w] \in Humans /\ req[w].what \in Reviews
      /\ req[w].what # "unreviewed" => Person[w] # claims[n].by
      /\ claims[n] \in ClaimRow /\ claims[n].doc \in DOMAIN docs
  BY <1>1 DEF ClaimInv, ReviewHeld
<1>4. c \in ClaimRow /\ c.status = req[w].what /\ c.by = Person[w] /\ c.doc = claims[n].doc
  BY <1>3, DataRoomAssumption DEF Claim, ClaimRow
<1> HIDE DEF c
<1>5. /\ claims' \in Seq(ClaimRow) /\ DOMAIN claims = 1..n /\ Len(claims') = n + 1
      /\ DOMAIN claims' = 1..(n + 1) /\ claims'[n + 1] = c
      /\ \A k \in 1..n : claims'[k] = claims[k]
  BY <1>1, <1>4, Appended DEF ClaimInv
<1>6. ASSUME NEW k \in DOMAIN claims' PROVE claims'[k].doc \in DOMAIN docs'
  BY <1>1, <1>3, <1>4, <1>5 DEF ClaimInv
<1>7. ASSUME NEW k \in 2..Len(claims'), claims'[k].status # "unreviewed"
      PROVE  claims'[k].by \in Humans \ {claims'[k - 1].by}
  <2>1. CASE k = n + 1
    <3>1. k - 1 = n /\ claims'[k - 1] = claims[n]
      BY <1>3, <1>5, <2>1
    <3> QED BY <1>3, <1>4, <1>5, <1>7, <2>1, <3>1
  <2>2. CASE k # n + 1
    <3>1. k \in 2..n /\ k - 1 \in 1..n
      BY <1>3, <1>5, <2>2
    <3>2. claims'[k] = claims[k] /\ claims'[k - 1] = claims[k - 1]
      BY <1>5, <3>1
    <3> QED BY <1>7, <3>1, <3>2 DEF ClaimInv
  <2> QED BY <2>1, <2>2
<1>8. ASSUME NEW v \in Windows PROVE ReviewHeld(v)'
  BY <1>2, <1>5 DEF ClaimInv, ReviewHeld
<1> QED BY <1>1, <1>5, <1>6, <1>7, <1>8 DEF ClaimInv

LEMMA StepClaim ==
  ASSUME RedactInv, ClaimInv, RequestsOK, [Next]_vars
  PROVE  ClaimInv'
<1>1. ASSUME NEW w \in Windows, RoomStep(w) PROVE ClaimInv'
  <2>1. docs' = docs \/ \E d \in Doc : docs' = Append(docs, d)
    BY <1>1, DocsGrow
  <2>2. ASSUME NEW t \in Texts, IngestDocument(w, t) PROVE ClaimInv'
    <3>1. Moves(w, {}) /\ UNCHANGED claims
      BY <2>2, Began DEF IngestDocument
    <3> QED BY <2>1, <3>1, ClaimStays
  <2>3. ASSUME NEW p \in Proposals, ProposeRedaction(w, p) PROVE ClaimInv'
    <3>1. Moves(w, {}) /\ UNCHANGED claims
      BY <2>3, Began DEF ProposeRedaction
    <3> QED BY <2>1, <3>1, ClaimStays
  <2>4. ASSUME NEW p \in Proposals, NEW verdict, OpenRedaction(w, p, verdict) PROVE ClaimInv'
    <3>1. Moves(w, {"redact"}) /\ UNCHANGED claims
      BY <2>4, Began DEF OpenRedaction, roomVars
    <3> QED BY <2>1, <3>1, ClaimStays
  <2>5. CASE RejectRedaction(w) \/ LinkRedacted(w)
    <3>1. Moves(w, {}) /\ UNCHANGED claims
      BY <2>5, Ended DEF RejectRedaction, LinkRedacted
    <3> QED BY <2>1, <3>1, ClaimStays
  <2>6. CASE MintRedacted(w)
    <3>1. Moves(w, {"link"}) /\ UNCHANGED claims
      BY <2>6, Held DEF MintRedacted, Moves
    <3> QED BY <2>1, <3>1, ClaimStays
  <2> QED BY <1>1, <2>2, <2>3, <2>4, <2>5, <2>6, ExtractClaim, OpenReviewClaim, ReviewedClaim DEF RoomStep
<1>2. CASE UNCHANGED vars
  BY <1>2 DEF vars, roomVars, ClaimInv, ReviewHeld
<1> QED BY <1>1, <1>2, StepKinds, ClaimStays
        DEF DealRowOps, AskOps, PacketOps, roomVars

-----------------------------------------------------------------------------
(* The diligence request.                                                  *)

LEMMA InitAsk == Init => AskInv
<1> SUFFICES ASSUME Init PROVE AskInv
  OBVIOUS
<1>1. \A w \in Windows : req[w].op = "none"
  BY DEF Init, RoomInit, Idle
<1>2. CASE ~ agenda.begun
  <2>1. ask = Unasked
    BY <1>2 DEF Init, DealInit
  <2> QED BY <1>1, <2>1 DEF AskInv, AskRow, Unasked, NoReview, AnswerHeld
<1>3. CASE agenda.begun
  <2>1. PICK author \in Users : \E reviewer \in Humans \ {author} :
          claims = <<Claim("unreviewed", author, 1), Claim("approved", reviewer, 1)>>
    BY <1>3 DEF Init, RoomInit
  <2>2. PICK reviewer \in Humans \ {author} :
          claims = <<Claim("unreviewed", author, 1), Claim("approved", reviewer, 1)>>
    BY <2>1
  <2>3. claims[1].by = author /\ claims[2].by = reviewer
    BY <2>2 DEF Claim
  <2>4. ask = [status |-> "accepted", by |-> author, accepter |-> reviewer,
               judged |-> [of |-> author, by |-> reviewer]]
    BY <1>3, <2>3 DEF Init, DealInit
  <2> QED BY <1>1, <2>4, DataRoomAssumption DEF AskInv, AskRow, AnswerHeld
<1> QED BY <1>2, <1>3

LEMMA AskStays ==
  ASSUME AskInv, NEW w \in Windows, NEW ops, Moves(w, ops), ops \cap AskOps = {}, UNCHANGED ask
  PROVE  AskInv'
<1>1. ASSUME NEW v \in Windows PROVE AnswerHeld(v)'
  BY DEF AskInv, AnswerHeld, Moves, AskOps
<1> QED BY <1>1 DEF AskInv

\* The other requests keep what they have seen.
LEMMA AskWritten ==
  ASSUME AskInv, NEW w \in Windows, Moves(w, AskOps),
         ask' \in AskRow, ask'.status = "accepted" => ask'.judged.by \in Humans \ {ask'.judged.of},
         AnswerHeld(w)'
  PROVE  AskInv'
<1>1. ASSUME NEW v \in Windows \ {w} PROVE AnswerHeld(v)'
  BY DEF AskInv, AnswerHeld, Moves
<1> QED BY <1>1 DEF AskInv

LEMMA AskStepHolds ==
  ASSUME AskInv, RequestsOK, NEW w \in Windows, AskStep(w)
  PROVE  AskInv'
<1>1. Moves(w, AskOps)
  BY AskMoves
<1>2. ask.status = "accepted" => ask.judged.by \in Humans \ {ask.judged.of}
  BY DEF AskInv
<1>3. ask \in AskRow /\ Person[w] \in Users
  BY DataRoomAssumption DEF AskInv
<1>4. ASSUME NEW s \in {"draft", "requested"}, CreateRequest(w, s) PROVE AskInv'
  <2>1. ask' = Requested(s) /\ req' = req
    BY <1>4 DEF CreateRequest
  <2>2. ask' \in AskRow /\ ask'.status = s
    BY <2>1 DEF Requested, Unasked, NoReview, AskRow
  <2>3. AnswerHeld(w)'
    BY <1>4, <2>1, Began DEF CreateRequest, AnswerHeld
  <2> QED BY <1>1, <2>2, <2>3, AskWritten
<1>5. CASE OpenSend(w)
  <2> DEFINE r == [op |-> "send"]
  <2>1. req'[w] = r /\ ask' = ask
    BY <1>5, Held DEF OpenSend, dealVars
  <2>2. AnswerHeld(w)'
    BY <2>1 DEF AnswerHeld
  <2> QED BY <1>1, <1>2, <1>3, <2>1, <2>2, AskWritten
<1>6. CASE SendRequest(w)
  <2>1. ask' = [ask EXCEPT !.status = "requested"] /\ req'[w].op = "none"
    BY <1>6, Ended DEF SendRequest
  <2>2. ask' \in AskRow /\ ask'.status = "requested"
    BY <1>3, <2>1 DEF AskRow
  <2> QED BY <1>1, <2>1, <2>2, AskWritten DEF AnswerHeld
<1>7. CASE OpenResponse(w)
  <2> DEFINE r == [op |-> "respond", saw |-> ask]
  <2>1. req'[w] = r /\ ask' = ask
    BY <1>7, Held DEF OpenResponse, dealVars
  <2>2. AnswerHeld(w)'
    BY <1>3, <2>1 DEF AnswerHeld
  <2> QED BY <1>1, <1>2, <1>3, <2>1, <2>2, AskWritten
<1>8. CASE AddResponse(w)
  <2>0. PICK saw, s, c : /\ saw = req[w].saw /\ s = Written("responded", saw.status, ask.status)
                         /\ c = Written(Nobody, saw.accepter, ask.accepter)
    OBVIOUS
  <2>1. saw \in AskRow /\ req'[w].op = "none"
    BY <1>8, <2>0, Ended DEF AddResponse, AskInv, AnswerHeld, Holds
  <2>2. ask' = [ask EXCEPT !.status = s, !.by = Person[w], !.accepter = c]
    BY <1>3, <1>8, <2>0 DEF AddResponse, AskRow
  <2>3. c \in Users \cup {Nobody} /\ (s = "responded" \/ s = ask.status)
    BY <1>3, <2>0 DEF Written, AskRow
  <2>4. ask' \in AskRow /\ ask'.judged = ask.judged /\ ask'.status = s
    BY <1>3, <2>2, <2>3 DEF AskRow
  <2>5. AnswerHeld(w)'
    BY <2>1 DEF AnswerHeld
  <2> QED BY <1>1, <1>2, <2>3, <2>4, <2>5, AskWritten
<1>9. ASSUME NEW s \in {"accepted", "rejected"}, OpenAnswerReview(w, s) PROVE AskInv'
  <2> DEFINE r == [op |-> "accept", to |-> s, saw |-> ask]
  <2>1. req'[w] = r /\ ask' = ask /\ Person[w] \in Humans \ {ask.by}
    BY <1>9, Held DEF OpenAnswerReview, dealVars
  <2>2. AnswerHeld(w)'
    BY <1>3, <2>1 DEF AnswerHeld
  <2> QED BY <1>1, <1>2, <1>3, <2>1, <2>2, AskWritten
<1>10. CASE ReviewRequest(w)
  <2>0. PICK saw, s, c, h, u :
        /\ saw = req[w].saw /\ s = req[w].to /\ h = Person[w] /\ u = saw.by
        /\ c = Written(IF s = "accepted" THEN h ELSE Nobody, saw.accepter, ask.accepter)
    OBVIOUS
  <2>1. /\ saw \in AskRow /\ req'[w].op = "none" /\ s \in {"accepted", "rejected"}
        /\ h \in Humans \ {u}
    BY <1>10, <2>0, Ended DEF ReviewRequest, AskInv, AnswerHeld, Holds
  <2>2. ask' = [ask EXCEPT !.status = s, !.judged = [of |-> u, by |-> h], !.accepter = c]
    BY <1>3, <1>10, <2>0 DEF ReviewRequest, AskRow
  <2>3. c \in Users \cup {Nobody} /\ u \in Users \cup {Nobody} /\ h \in Users
    BY <1>3, <2>0, <2>1, DataRoomAssumption DEF Written, AskRow
  <2>4. ask' \in AskRow /\ ask'.judged.of = u /\ ask'.judged.by = h
    <3> PICK j : j = [of |-> u, by |-> h]
      OBVIOUS
    <3>1. j \in [of : Users \cup {Nobody}, by : Users \cup {Nobody}] /\ j.of = u /\ j.by = h
      BY <2>3
    <3>2. ask' = [ask EXCEPT !.status = s, !.judged = j, !.accepter = c]
      BY <2>2
    <3> QED BY <1>3, <2>1, <2>3, <3>1, <3>2 DEF AskRow
  <2>5. AnswerHeld(w)'
    BY <2>1 DEF AnswerHeld
  <2> QED BY <1>1, <2>1, <2>4, <2>5, AskWritten
<1> QED BY <1>4, <1>5, <1>6, <1>7, <1>8, <1>9, <1>10 DEF AskStep

LEMMA StepAsk ==
  ASSUME AskInv, RequestsOK, [Next]_vars
  PROVE  AskInv'
<1>1. CASE UNCHANGED vars
  BY <1>1 DEF vars, dealVars, AskInv, AnswerHeld
<1> QED BY <1>1, StepKinds, AskStays, AskStepHolds
        DEF RoomOps, DealRowOps, AskOps, PacketOps, dealVars

-----------------------------------------------------------------------------
(* The ledger entry and the tasks.                                         *)

LEMMA InitLedger == Init => LedgerInv
<1> SUFFICES ASSUME Init PROVE LedgerInv
  OBVIOUS
<1>1. (\A w \in Windows : req[w].op = "none") /\ ledger = <<>>
  BY DEF Init, RoomInit, DealInit, Idle
<1> QED BY <1>1 DEF LedgerInv, RevisionHeld

LEMMA LedgerStays ==
  ASSUME LedgerInv, NEW w \in Windows, NEW ops, Moves(w, ops), "revise" \notin ops, UNCHANGED ledger
  PROVE  LedgerInv'
<1>1. ASSUME NEW v \in Windows PROVE RevisionHeld(v)'
  BY DEF LedgerInv, RevisionHeld, Moves
<1>2. ASSUME NEW n \in DOMAIN ledger' PROVE EntryOK(n)'
  BY DEF LedgerInv, EntryOK
<1> QED BY <1>1, <1>2 DEF LedgerInv

LEMMA LedgerStepHolds ==
  ASSUME LedgerInv, RequestsOK, NEW w \in Windows, LedgerStep(w)
  PROVE  LedgerInv'
<1>1. Moves(w, {"revise"}) /\ ledger \in Seq(LedgerRow)
  BY LedgerMoves DEF LedgerInv
<1>2. \A v \in Windows \ {w} : req'[v] = req[v]
  BY <1>1 DEF Moves
<1>3. ASSUME NEW s \in {"open", "resolved"}, CreateEntry(w, s) PROVE LedgerInv'
  <2> DEFINE e == Entry(s, 1, 0, 0)
  <2>1. ledger = <<>> /\ ledger' = <<e>> /\ req[w].op = "none" /\ req' = req
    BY <1>3, Began DEF CreateEntry
  <2>2. e \in LedgerRow /\ e.version = 1 /\ e.of = 0 /\ e.status # "superseded"
    BY DEF Entry, LedgerRow
  <2> HIDE DEF e
  <2>3. ledger' \in Seq(LedgerRow) /\ DOMAIN ledger' = {1} /\ ledger'[1] = e
    BY <2>1, <2>2
  <2>4. ASSUME NEW v \in Windows PROVE RevisionHeld(v)'
    BY <2>1 DEF LedgerInv, RevisionHeld
  <2>5. EntryOK(1)'
    <3>1. \A m \in 1..(1 - 1) : FALSE
      OBVIOUS
    <3> QED BY <2>2, <2>3, <3>1 DEF EntryOK
  <2> QED BY <2>3, <2>4, <2>5 DEF LedgerInv
<1>4. ASSUME NEW n \in DOMAIN ledger, NEW s \in {"open", "resolved"}, OpenRevision(w, n, s)
      PROVE  LedgerInv'
  <2> DEFINE r == [op |-> "revise", on |-> n, to |-> s, seen |-> Len(ledger)]
  <2>1. req'[w] = r /\ ledger' = ledger /\ ledger[n].status # "superseded"
    BY <1>4, Held DEF OpenRevision, dealVars
  <2>2. \A m \in DOMAIN ledger : ledger[m].of # n
    BY <2>1 DEF LedgerInv, EntryOK
  <2>3. r.on = n /\ r.to = s /\ r.seen = Len(ledger) /\ Len(ledger) \in Nat /\ Len(ledger) <= Len(ledger)
    BY <1>1
  <2> HIDE DEF r
  <2>4. RevisionHeld(w)'
    BY <2>1, <2>2, <2>3 DEF RevisionHeld
  <2>5. ASSUME NEW v \in Windows \ {w} PROVE RevisionHeld(v)'
    BY <1>2, <2>1 DEF LedgerInv, RevisionHeld
  <2>6. ASSUME NEW k \in DOMAIN ledger' PROVE EntryOK(k)'
    BY <2>1 DEF LedgerInv, EntryOK
  <2> QED BY <1>1, <2>1, <2>4, <2>5, <2>6 DEF LedgerInv
<1>5. CASE ReviseEntry(w)
  <2>0. PICK n, len, seen : n = req[w].on /\ len = Len(ledger) /\ seen = req[w].seen
    OBVIOUS
  <2> DEFINE old == [ledger[n] EXCEPT !.status = "superseded"]
             e == Entry(req[w].to, ledger[n].version + 1, n, seen)
             kept == [ledger EXCEPT ![n] = old]
  <2>1. /\ n \in DOMAIN ledger /\ req[w].to \in {"open", "resolved"} /\ seen \in Nat
        /\ \A m \in DOMAIN ledger : ledger[m].of = n => seen < m
        /\ req'[w].op = "none"
    BY <1>5, <2>0, Ended DEF ReviseEntry, LedgerInv, RevisionHeld, Holds
  <2>2. /\ n \in 1..len /\ len \in Nat /\ n \in Nat /\ ledger[n] \in LedgerRow /\ DOMAIN ledger = 1..len
        /\ ledger[n].version \in Nat
    <3>1. DOMAIN ledger = 1..len /\ len \in Nat /\ ledger[n] \in LedgerRow
      BY <1>1, <2>0, <2>1
    <3>2. ledger[n].version \in Nat
      BY <3>1 DEF LedgerRow
    <3> QED BY <2>1, <3>1, <3>2
  <2>3. ledger' = Append(kept, e)
    BY <1>1, <1>5, <2>0, <2>2 DEF ReviseEntry
  <2>4. /\ old \in LedgerRow /\ old.status = "superseded" /\ old.version = ledger[n].version
        /\ old.of = ledger[n].of /\ old.seen = ledger[n].seen
        /\ e \in LedgerRow /\ e.status = req[w].to /\ e.version = ledger[n].version + 1
        /\ e.of = n /\ e.seen = seen
    BY <2>1, <2>2 DEF LedgerRow, Entry
  <2> HIDE DEF old, e
  <2>5. /\ kept \in Seq(LedgerRow) /\ Len(kept) = len
        /\ \A k \in 1..len : kept[k] = IF k = n THEN old ELSE ledger[k]
    BY <1>1, <2>0, <2>2, <2>4, Replaced
  <2> HIDE DEF kept
  <2>6. /\ ledger' \in Seq(LedgerRow) /\ Len(ledger') = len + 1 /\ DOMAIN ledger' = 1..(len + 1)
        /\ ledger'[len + 1] = e /\ \A k \in 1..len : ledger'[k] = kept[k]
    BY <2>3, <2>4, <2>5, Appended
  <2>7. ASSUME NEW k \in 1..len
        PROVE  /\ ledger'[k].version = ledger[k].version /\ ledger'[k].of = ledger[k].of
               /\ ledger'[k].seen = ledger[k].seen
               /\ ledger'[k].status = IF k = n THEN "superseded" ELSE ledger[k].status
    BY <2>4, <2>5, <2>6
  <2>8. ASSUME NEW k \in 1..len PROVE EntryOK(k)'
    <3>1. EntryOK(k)
      BY <2>2 DEF LedgerInv
    <3>2. k = 1 => ledger'[k].of = 0 /\ ledger'[k].version = 1
      BY <2>7, <3>1 DEF EntryOK
    <3>3. k # 1 => ledger'[k].of \in 1..(k - 1) /\ ledger'[k].version = ledger'[ledger'[k].of].version + 1
      <4> SUFFICES ASSUME k # 1
                   PROVE ledger'[k].of \in 1..(k - 1) /\ ledger'[k].version = ledger'[ledger'[k].of].version + 1
        OBVIOUS
      <4>1. PICK f : f = ledger[k].of
        OBVIOUS
      <4>2. f \in 1..(k - 1) /\ ledger[k].version = ledger[f].version + 1
        BY <3>1, <4>1 DEF EntryOK
      <4>3. f \in 1..len
        BY <2>2, <4>2
      <4> QED BY <2>7, <4>1, <4>2, <4>3
    <3>4. (ledger'[k].status = "superseded") <=> (\E m \in DOMAIN ledger' : ledger'[m].of = k)
      <4>1. CASE k = n
        <5>1. len + 1 \in DOMAIN ledger' /\ ledger'[len + 1].of = k
          BY <2>2, <2>4, <2>6, <4>1
        <5> QED BY <2>7, <4>1, <5>1
      <4>2. CASE k # n
        <5>1. ASSUME NEW m \in DOMAIN ledger', ledger'[m].of = k
              PROVE  m \in DOMAIN ledger /\ ledger[m].of = k
          <6>1. m # len + 1
            BY <2>4, <2>6, <4>2, <5>1
          <6>2. m \in 1..len
            BY <2>2, <2>6, <6>1
          <6> QED BY <2>2, <2>7, <5>1, <6>2
        <5>2. ASSUME NEW m \in DOMAIN ledger, ledger[m].of = k
              PROVE  m \in DOMAIN ledger' /\ ledger'[m].of = k
          BY <2>2, <2>6, <2>7, <5>2
        <5> QED BY <2>7, <3>1, <4>2, <5>1, <5>2 DEF EntryOK
      <4> QED BY <4>1, <4>2
    <3>5. ASSUME NEW m \in 1..(k - 1), ledger'[m].of = ledger'[k].of PROVE ledger'[k].seen < m
      <4>1. m \in 1..len
        BY <2>2
      <4> QED BY <2>7, <3>1, <3>5, <4>1 DEF EntryOK
    <3> QED BY <3>2, <3>3, <3>4, <3>5 DEF EntryOK
  <2>9. EntryOK(len + 1)'
    <3>1. len + 1 # 1 /\ n \in 1..((len + 1) - 1)
      BY <2>2
    <3>2. ledger'[n].version = ledger[n].version
      BY <2>2, <2>7
    <3>3. ASSUME NEW m \in DOMAIN ledger' PROVE ledger'[m].of # len + 1
      <4>1. CASE m = len + 1
        BY <2>2, <2>4, <2>6, <4>1
      <4>2. CASE m \in 1..len
        <5>1. EntryOK(m) /\ ledger'[m].of = ledger[m].of
          BY <2>2, <2>7, <4>2 DEF LedgerInv
        <5>2. ledger[m].of = 0 \/ ledger[m].of \in 1..(m - 1)
          BY <5>1 DEF EntryOK
        <5> QED BY <2>2, <4>2, <5>1, <5>2
      <4> QED BY <2>2, <2>6, <4>1, <4>2
    <3>4. ASSUME NEW m \in 1..((len + 1) - 1), ledger'[m].of = n PROVE seen < m
      <4>1. m \in 1..len
        BY <2>2
      <4> QED BY <2>1, <2>2, <2>7, <3>4, <4>1
    <3> QED BY <2>1, <2>4, <2>6, <3>1, <3>2, <3>3, <3>4 DEF EntryOK
  <2>10. ASSUME NEW v \in Windows PROVE RevisionHeld(v)'
    <3>1. CASE v = w
      BY <2>1, <3>1 DEF RevisionHeld
    <3>2. CASE v # w
      <4>1. req'[v] = req[v] /\ RevisionHeld(v)
        BY <1>2, <3>2 DEF LedgerInv
      <4> SUFFICES ASSUME req[v].op = "revise"
                   PROVE  /\ req[v].on \in DOMAIN ledger' /\ req[v].seen <= Len(ledger')
                          /\ \A m \in DOMAIN ledger' : ledger'[m].of = req[v].on => req[v].seen < m
        BY <4>1 DEF RevisionHeld
      <4>2. PICK a, b : a = req[v].on /\ b = req[v].seen
        OBVIOUS
      <4>3. /\ a \in 1..len /\ b \in Nat /\ b <= len
            /\ \A m \in 1..len : ledger[m].of = a => b < m
        BY <2>0, <2>2, <4>1, <4>2 DEF RevisionHeld
      <4>4. a \in 1..(len + 1) /\ b <= len + 1 /\ b < len + 1
        BY <2>2, <4>3
      <4>5. ASSUME NEW m \in 1..(len + 1), ledger'[m].of = a PROVE b < m
        <5>1. CASE m = len + 1
          BY <4>4, <5>1
        <5>2. CASE m \in 1..len
          BY <2>7, <4>3, <4>5, <5>2
        <5> QED BY <2>2, <5>1, <5>2
      <4> QED BY <2>6, <4>2, <4>4, <4>5
    <3> QED BY <3>1, <3>2
  <2>11. ASSUME NEW k \in DOMAIN ledger' PROVE EntryOK(k)'
    <3>1. k \in 1..len \/ k = len + 1
      BY <2>2, <2>6
    <3> QED BY <2>8, <2>9, <3>1
  <2> QED BY <2>6, <2>10, <2>11 DEF LedgerInv
<1> QED BY <1>3, <1>4, <1>5 DEF LedgerStep

LEMMA StepLedger ==
  ASSUME LedgerInv, RequestsOK, [Next]_vars
  PROVE  LedgerInv'
<1>1. CASE UNCHANGED vars
  BY <1>1 DEF vars, dealVars, LedgerInv, EntryOK, RevisionHeld
<1> QED BY <1>1, StepKinds, LedgerStays, LedgerStepHolds
        DEF RoomOps, DealRowOps, AskOps, PacketOps, dealVars

LEMMA InitTask == Init => TaskInv
<1> SUFFICES ASSUME Init PROVE TaskInv
  OBVIOUS
<1>1. (\A w \in Windows : req[w].op = "none") /\ tasks = [t \in Tasks |-> [status |-> "not_started", done |-> FALSE]]
  BY DEF Init, RoomInit, DealInit, Idle
<1> QED BY <1>1 DEF TaskInv, TaskRow, TaskHeld

LEMMA TaskStays ==
  ASSUME TaskInv, NEW w \in Windows, NEW ops, Moves(w, ops), "task" \notin ops, UNCHANGED tasks
  PROVE  TaskInv'
<1>1. ASSUME NEW v \in Windows PROVE TaskHeld(v)'
  BY DEF TaskInv, TaskHeld, Moves
<1> QED BY <1>1 DEF TaskInv

LEMMA TaskStepHolds ==
  ASSUME TaskInv, RequestsOK, NEW w \in Windows, TaskStep(w)
  PROVE  TaskInv'
<1>1. Moves(w, {"task"})
  BY TaskMoves
<1>2. \A t \in Tasks : Needs[t] \subseteq Tasks
  BY DealAssumption
<1>3. ASSUME NEW t \in Tasks, NEW s \in {"not_started", "in_progress"} \cup Finished, OpenTask(w, t, s)
      PROVE  TaskInv'
  <2> DEFINE r == [op |-> "task", on |-> t, to |-> s, saw |-> tasks[t].status]
  <2>1. /\ req'[w] = r /\ tasks' = tasks
        /\ s = "complete" => \A d \in Needs[t] : tasks[d].status = "complete"
    BY <1>3, Held DEF OpenTask, dealVars
  <2>2. r.on = t /\ r.to = s
    OBVIOUS
  <2> HIDE DEF r
  <2>3. s = "complete" => \A d \in Needs[t] : tasks[d].done
    BY <1>2, <2>1 DEF TaskInv
  <2>4. TaskHeld(w)'
    BY <2>1, <2>2, <2>3 DEF TaskHeld
  <2>5. ASSUME NEW v \in Windows \ {w} PROVE TaskHeld(v)'
    BY <1>1, <2>1 DEF TaskInv, TaskHeld, Moves
  <2> QED BY <2>1, <2>4, <2>5 DEF TaskInv
<1>4. CASE UpdateTask(w)
  <2>0. PICK t, s, k, row :
        /\ t = req[w].on /\ k = tasks[t] /\ s = Written(req[w].to, req[w].saw, k.status)
        /\ row = [k EXCEPT !.status = s, !.done = @ \/ req[w].to = "complete"]
    OBVIOUS
  <2>1. /\ t \in Tasks /\ req[w].to \in {"not_started", "in_progress"} \cup Finished
        /\ req[w].to = "complete" => \A d \in Needs[t] : tasks[d].done
        /\ req'[w].op = "none"
    BY <1>4, <2>0, Ended DEF UpdateTask, Holds, TaskInv, TaskHeld
  <2>2. k \in TaskRow /\ tasks' = [tasks EXCEPT ![t] = row]
    BY <1>4, <2>0, <2>1 DEF UpdateTask, TaskInv, TaskRow
  <2>3. s = req[w].to \/ s = k.status
    BY <2>0 DEF Written
  <2>4. /\ row \in TaskRow /\ row.status = s /\ (row.done <=> k.done \/ req[w].to = "complete")
    BY <2>0, <2>1, <2>2, <2>3 DEF TaskRow
  <2>5. tasks' \in [Tasks -> TaskRow] /\ tasks'[t] = row /\ \A u \in Tasks \ {t} : tasks'[u] = tasks[u]
    BY <2>1, <2>2, <2>4 DEF TaskInv
  <2>6. \A d \in Tasks : tasks[d].done => tasks'[d].done
    BY <2>0, <2>4, <2>5
  <2>7. ASSUME NEW u \in Tasks, tasks'[u].status = "complete"
        PROVE  tasks'[u].done /\ \A d \in Needs[u] : tasks[d].done
    <3>1. CASE u # t
      BY <2>5, <2>7, <3>1 DEF TaskInv
    <3>2. CASE u = t /\ req[w].to = "complete"
      BY <2>1, <2>4, <2>5, <3>2
    <3>3. CASE u = t /\ k.status = "complete"
      BY <2>0, <2>1, <2>4, <2>5, <3>3 DEF TaskInv
    <3> QED BY <2>3, <2>4, <2>5, <2>7, <3>1, <3>2, <3>3
  <2>8. ASSUME NEW v \in Windows PROVE TaskHeld(v)'
    <3>1. CASE v = w
      BY <2>1, <3>1 DEF TaskHeld
    <3>2. CASE v # w
      <4>1. req'[v] = req[v] /\ TaskHeld(v)
        BY <1>1, <3>2 DEF Moves, TaskInv
      <4> QED BY <1>2, <2>6, <4>1 DEF TaskHeld
    <3> QED BY <3>1, <3>2
  <2> QED BY <1>2, <2>5, <2>6, <2>7, <2>8 DEF TaskInv
<1> QED BY <1>3, <1>4 DEF TaskStep

LEMMA StepTask ==
  ASSUME TaskInv, RequestsOK, [Next]_vars
  PROVE  TaskInv'
<1>1. CASE UNCHANGED vars
  BY <1>1 DEF vars, dealVars, TaskInv, TaskHeld
<1> QED BY <1>1, StepKinds, TaskStays, TaskStepHolds
        DEF RoomOps, DealRowOps, AskOps, PacketOps, dealVars

-----------------------------------------------------------------------------
(* The row of the deal and its transitions.                                *)

\* The steps on packets, by what they look at and write.
LEMMA DecisionSteps ==
  ASSUME RequestsOK, NEW w \in Windows, PacketStep(w)
  PROVE  \/ Moves(w, PacketOps \ LookOps) /\ UNCHANGED <<deal, audited>>
         \/ \E p \in DOMAIN packets : OpenSubmit(w, p) /\ Moves(w, {"ready"}) /\ UNCHANGED <<deal, audited>>
         \/ RefreshPacket(w) /\ Moves(w, {"submit"}) /\ UNCHANGED <<deal, audited>>
         \/ \E p \in DOMAIN packets, what \in Decisions : OpenDecision(w, p, what)
         \/ Decide(w)
<1> DEFINE Goal == Moves(w, PacketOps \ LookOps) /\ UNCHANGED <<deal, audited>>
<1> USE DEF PacketOps, LookOps, dealVars, icVars
<1>1. ASSUME NEW c, OpenPacket(w, c) PROVE Goal
  BY <1>1, Began DEF OpenPacket
<1>2. ASSUME NEW p, OpenSubmit(w, p) PROVE Moves(w, {"ready"}) /\ UNCHANGED <<deal, audited>>
  BY <1>2, Began DEF OpenSubmit
<1>3. ASSUME NEW p, OpenResolve(w, p) PROVE Goal
  BY <1>3, Began DEF OpenResolve
<1>4. ASSUME NEW p, CreateExport(w, p) PROVE Goal
  BY <1>4, Began DEF CreateExport
<1>5. ASSUME NEW p, NEW blocking, OpenComment(w, p, blocking) PROVE Goal
  BY <1>5, Began DEF OpenComment
<1>6. ASSUME NEW p, NEW status, OpenCondition(w, p, status) PROVE Goal
  BY <1>6, Began DEF OpenCondition
<1>7. ASSUME CreatePacket(w) \/ Submit(w) \/ AddComment(w) \/ ResolveComment(w) \/ UpdateCondition(w) PROVE Goal
  BY <1>7, Ended DEF CreatePacket, Submit, AddComment, ResolveComment, UpdateCondition
<1>8. ASSUME RefreshPacket(w) PROVE Moves(w, {"submit"}) /\ UNCHANGED <<deal, audited>>
  BY <1>8, Held DEF RefreshPacket, Moves
<1> QED BY <1>1, <1>2, <1>3, <1>4, <1>5, <1>6, <1>7, <1>8 DEF PacketStep

LEMMA StagesKnown ==
  /\ StageNames = {"sourcing", "screening", "initial_review", "diligence", "ic_review",
                   "signing", "closed", "declined"}
  /\ \A n \in 1..7 : Stage(n) \in StageNames
  /\ Stage(1) = "sourcing" /\ Stage(5) = "ic_review"
<1>1. /\ DOMAIN DealStages = 1..7 /\ Stage(1) = "sourcing" /\ Stage(2) = "screening"
      /\ Stage(3) = "initial_review" /\ Stage(4) = "diligence" /\ Stage(5) = "ic_review"
      /\ Stage(6) = "signing" /\ Stage(7) = "closed"
  BY DEF DealStages, Stage
<1>2. Range(DealStages) = {Stage(n) : n \in 1..7}
  BY <1>1 DEF Range, Stage
<1> HIDE DEF DealStages, Stage
<1>3. \A n \in 1..7 : n = 1 \/ n = 2 \/ n = 3 \/ n = 4 \/ n = 5 \/ n = 6 \/ n = 7
  OBVIOUS
<1>4. {Stage(n) : n \in 1..7} = {Stage(1), Stage(2), Stage(3), Stage(4), Stage(5), Stage(6), Stage(7)}
  BY <1>3
<1> QED BY <1>1, <1>2, <1>4 DEF StageNames

LEMMA InitDeal == Init => DealInv
<1> SUFFICES ASSUME Init PROVE DealInv
  OBVIOUS
<1>1. (\A w \in Windows : req[w].op = "none") /\ DOMAIN form = Windows /\ audited = Born
  BY DEF Init, RoomInit, DealInit, Idle
<1>2. \A w \in Windows : DealHeld(w)
  BY <1>1 DEF DealHeld, DealWriters
<1>3. CASE ~ agenda.begun
  <2>1. trail = <<>> /\ deal = [stage |-> Stage(1), status |-> "active", version |-> 1, own |-> TRUE] /\ audited = 1
    BY <1>1, <1>3 DEF Init, DealInit, Born
  <2>2. deal \in DealRow
    BY <2>1, StagesKnown DEF DealRow
  <2>3. deal.stage = Stage(1) /\ deal.version = 1 /\ DOMAIN trail = {} /\ trail \in Seq(StageNames \X StageNames)
        /\ \A n \in 1..(Len(trail) - 1) : FALSE
    BY <2>1
  <2> QED BY <1>1, <1>2, <2>1, <2>2, <2>3 DEF DealInv, Reached, Chained
<1>4. CASE agenda.begun
  <2>1. /\ trail = [n \in 1..4 |-> <<Stage(n), Stage(n + 1)>>] /\ audited = 5
        /\ deal = [stage |-> "ic_review", status |-> "active", version |-> 5, own |-> TRUE]
    BY <1>1, <1>4 DEF Init, DealInit, Born
  <2>2. deal \in DealRow /\ deal.version = 5 /\ deal.stage = "ic_review"
    BY <2>1, StagesKnown DEF DealRow
  <2>3. \A n \in 1..4 : /\ n + 1 \in 1..7 /\ n \in 1..7
    OBVIOUS
  <2>4. trail \in Seq(StageNames \X StageNames) /\ Len(trail) = 4 /\ DOMAIN trail = 1..4
    BY <2>1, <2>3, StagesKnown
  <2>5. \A n \in 1..4 : trail[n][1] = Stage(n) /\ trail[n][2] = Stage(n + 1)
    BY <2>1
  <2>6. \A n \in 1..(Len(trail) - 1) : trail[n][2] = trail[n + 1][1]
    <3> TAKE n \in 1..(Len(trail) - 1)
    <3>1. n \in 1..4 /\ n + 1 \in 1..4
      BY <2>4
    <3> QED BY <2>5, <3>1
  <2>7. ASSUME NEW n \in DOMAIN trail
        PROVE  trail[n][1] = Stage(1) \/ \E m \in 1..(n - 1) : trail[m][2] = trail[n][1]
    <3>1. CASE n = 1
      BY <2>4, <2>5, <3>1
    <3>2. CASE n # 1
      <4>1. n - 1 \in 1..(n - 1) /\ n - 1 \in 1..4 /\ (n - 1) + 1 = n /\ n \in 1..4
        BY <2>4, <3>2
      <4>2. trail[n - 1][2] = trail[n][1]
        BY <2>5, <4>1
      <4> QED BY <4>1, <4>2
    <3> QED BY <3>1, <3>2
  <2>8. trail[4][2] = deal.stage
    BY <2>2, <2>5, StagesKnown
  <2>9. Chained /\ Reached(deal.stage)
    BY <2>4, <2>6, <2>8 DEF Chained, Reached
  <2> QED BY <1>1, <1>2, <2>1, <2>2, <2>4, <2>7, <2>9 DEF DealInv
<1> QED BY <1>3, <1>4

LEMMA DealStays ==
  ASSUME DealInv, NEW w \in Windows, NEW ops, Moves(w, ops), ops \cap DealWriters = {},
         UNCHANGED <<deal, audited, form, trail>>
  PROVE  DealInv'
<1>1. ASSUME NEW s PROVE Reached(s)' <=> Reached(s)
  BY DEF Reached
<1>2. ASSUME NEW v \in Windows PROVE DealHeld(v)'
  <2>1. req'[v] = req[v] \/ req'[v].op \notin DealWriters
    BY DEF Moves, DealWriters
  <2> QED BY <1>1, <2>1 DEF DealInv, DealHeld, DealWriters
<1> QED BY <1>1, <1>2 DEF DealInv, Accounted, Chained

\* A request looks at the deal, or a form is opened.
LEMMA DealRead ==
  ASSUME DealInv, NEW w \in Windows, NEW ops, Moves(w, ops), UNCHANGED <<deal, audited, trail>>,
         DOMAIN form' = Windows, \A v \in Windows \ {w} : form'[v] = form[v],
         DealHeld(w)'
  PROVE  DealInv'
<1>1. ASSUME NEW s PROVE Reached(s)' <=> Reached(s)
  BY DEF Reached
<1>2. ASSUME NEW v \in Windows \ {w} PROVE DealHeld(v)'
  <2>1. req'[v] = req[v] /\ form'[v] = form[v] /\ DealHeld(v)
    BY DEF Moves, DealInv
  <2> QED BY <1>1, <2>1 DEF DealHeld
<1> QED BY <1>1, <1>2 DEF DealInv, Accounted, Chained

\* Whoever has seen a version that accounts for the audit trail has seen the
\* row as it is.
LEMMA FreshWrite ==
  ASSUME DealInv, NEW saw, saw \in DealRow, saw.version <= audited, saw.version = audited => saw = deal,
         deal'.version = saw.version + 1, audited' = audited + 1
  PROVE  /\ Accounted' => Accounted /\ saw = deal
         /\ deal'.version <= audited' /\ audited' \in Nat /\ audited < audited'
<1>1. saw.version \in Nat /\ audited \in Nat
  BY DEF DealInv, DealRow
<1>2. PICK n, a : n = saw.version /\ a = audited
  OBVIOUS
<1>3. n \in Nat /\ a \in Nat /\ n <= a /\ n + 1 <= a + 1 /\ a < a + 1 /\ a + 1 \in Nat /\ (n + 1 = a + 1 => n = a)
  BY <1>1, <1>2
<1> QED BY <1>2, <1>3 DEF Accounted

LEMMA DealWritten ==
  ASSUME DealInv, NEW w \in Windows, Moves(w, {}), UNCHANGED form, deal' \in DealRow,
         NEW saw, saw \in DealRow, saw.version <= audited, saw.version = audited => saw = deal,
         deal'.version = saw.version + 1, audited' = audited + 1,
         \/ trail' = trail /\ deal'.stage \in {deal.stage, "declined"}
         \/ /\ trail' = Append(trail, <<saw.stage, deal'.stage>>)
            /\ saw.stage # "declined" /\ Reached(saw.stage)
  PROVE  DealInv'
<1>1. /\ Accounted' => Accounted /\ saw = deal
      /\ deal'.version <= audited' /\ audited' \in Nat /\ audited < audited'
  BY FreshWrite
<1>2. ASSUME \A s : Reached(s) => Reached(s)', NEW v \in Windows PROVE DealHeld(v)'
  <2>1. CASE v = w
    BY <2>1 DEF Moves, DealHeld, DealWriters
  <2>2. CASE v # w
    <3>1. req'[v] = req[v] /\ form'[v] = form[v] /\ DealHeld(v)
      BY <2>2 DEF Moves, DealInv
    <3>2. CASE req[v].op \in DealWriters
      <4> PICK x : x = req[v].saw
        OBVIOUS
      <4>1. x \in DealRow /\ Reached(x.stage)' /\ x.version \in Nat /\ x.version <= audited /\ audited \in Nat
        BY <1>2, <3>1, <3>2 DEF DealHeld, DealRow, DealInv
      <4>2. x.version <= audited' /\ x.version # audited'
        BY <1>1, <4>1
      <4> QED BY <3>1, <3>2, <4>1, <4>2 DEF DealHeld, DealWriters
    <3>3. CASE req[v].op \notin DealWriters
      BY <3>1, <3>3 DEF DealHeld, DealWriters
    <3> QED BY <3>2, <3>3
  <2> QED BY <2>1, <2>2
<1>3. CASE trail' = trail /\ deal'.stage \in {deal.stage, "declined"}
  <2>1. \A s : Reached(s) => Reached(s)'
    BY <1>3 DEF Reached
  <2>2. Reached(deal.stage)' /\ (Accounted' => Chained')
    BY <1>1, <1>3, <2>1 DEF DealInv, Chained, Reached
  <2> QED BY <1>1, <1>2, <1>3, <2>1, <2>2 DEF DealInv
<1>4. CASE trail' = Append(trail, <<saw.stage, deal'.stage>>) /\ saw.stage # "declined" /\ Reached(saw.stage)
  <2> PICK e, n : e = <<saw.stage, deal'.stage>> /\ n = Len(trail)
    OBVIOUS
  <2>1. e \in StageNames \X StageNames /\ e[1] = saw.stage /\ e[2] = deal'.stage
    BY DEF DealRow
  <2>2. /\ trail' \in Seq(StageNames \X StageNames) /\ n \in Nat /\ Len(trail') = n + 1
        /\ DOMAIN trail = 1..n /\ DOMAIN trail' = 1..(n + 1)
        /\ trail'[n + 1] = e /\ \A k \in 1..n : trail'[k] = trail[k]
    BY <1>4, <2>1, Appended DEF DealInv
  <2>3. \A s : Reached(s) => Reached(s)'
    BY <2>2 DEF Reached
  <2>4. Reached(deal.stage)'
    <3>1. n + 1 \in DOMAIN trail'
      BY <2>2
    <3> QED BY <2>1, <2>2, <3>1 DEF Reached
  <2>5. ASSUME NEW k \in DOMAIN trail'
        PROVE  trail'[k][1] = Stage(1) \/ \E m \in 1..(k - 1) : trail'[m][2] = trail'[k][1]
    <3>1. CASE k = n + 1
      <4>1. 1..(k - 1) = 1..n
        BY <2>2, <3>1
      <4> QED BY <1>4, <2>1, <2>2, <3>1, <4>1 DEF Reached
    <3>2. CASE k \in 1..n
      <4>1. trail'[k] = trail[k] /\ \A m \in 1..(k - 1) : m \in 1..n /\ trail'[m] = trail[m]
        BY <2>2, <3>2
      <4> QED BY <2>2, <3>2, <4>1 DEF DealInv
    <3> QED BY <2>2, <3>1, <3>2
  <2>6. Accounted' => Chained'
    <3> SUFFICES ASSUME Accounted' PROVE Chained'
      OBVIOUS
    <3>1. Chained /\ saw = deal
      BY <1>1 DEF DealInv
    <3>2. ASSUME NEW k \in 1..(Len(trail') - 1) PROVE trail'[k][2] = trail'[k + 1][1]
      <4>1. CASE k = n
        <5>1. trail # <<>>
          BY <2>2, <4>1 DEF DealInv
        <5>2. trail[n][2] = deal.stage
          BY <1>4, <3>1, <5>1 DEF Chained
        <5> QED BY <2>1, <2>2, <3>1, <4>1, <5>2
      <4>2. CASE k # n
        <5>1. k \in 1..(n - 1) /\ k \in 1..n /\ k + 1 \in 1..n
          BY <2>2, <4>2
        <5> QED BY <2>2, <3>1, <5>1 DEF Chained
      <4> QED BY <4>1, <4>2
    <3> QED BY <2>1, <2>2, <3>2 DEF Chained
  <2> QED BY <1>1, <1>2, <2>2, <2>3, <2>4, <2>5, <2>6 DEF DealInv
<1> QED BY <1>3, <1>4

\* What writes over an unseen version does to the row shows.
Shown ==
  /\ ~ Accounted => ~ Accounted'
  /\ Accounted' =>
       /\ \A w \in Windows : UpdateDeal(w) => form[w] = deal.version
       /\ deal.stage = "declined" => deal'.stage = "declined"

LEMMA UpdateHolds ==
  ASSUME DealInv, RequestsOK, NEW w \in Windows, UpdateDeal(w)
  PROVE  /\ DealInv' /\ (Accounted' => Accounted) /\ deal'.stage = deal.stage
         /\ Accounted' => form[w] = deal.version
<1>0. PICK saw, f, x : saw = req[w].saw /\ f = req[w].field /\ x = Written(req[w].to, saw[f], deal[f])
  OBVIOUS
<1>1. /\ req[w].op = "edit" /\ Moves(w, {}) /\ UNCHANGED <<form, trail>> /\ audited' = audited + 1
      /\ deal' = [deal EXCEPT ![f] = x, !.version = saw.version + 1]
  BY <1>0, Ended DEF UpdateDeal, Holds, DealInv, DealRow
<1>2. /\ saw \in DealRow /\ saw.version <= audited /\ (saw.version = audited => saw = deal)
      /\ form[w] = saw.version /\ deal \in DealRow
      /\ \/ f = "status" /\ req[w].to \in {"active", "on_hold"}
         \/ f = "own" /\ req[w].to \in BOOLEAN
  BY <1>0, <1>1 DEF DealInv, DealHeld, DealWriters
<1>3. saw.version + 1 \in Nat
  BY <1>2 DEF DealRow
<1>4. deal' \in DealRow /\ deal'.stage = deal.stage /\ deal'.version = saw.version + 1
  <2> PICK n : n = saw.version + 1
    OBVIOUS
  <2>1. CASE f = "status" /\ req[w].to \in {"active", "on_hold"}
    <3>1. x \in {"active", "on_hold", "declined", "closed"}
      BY <1>0, <1>2, <2>1 DEF Written, DealRow
    <3>2. deal' = [deal EXCEPT !.status = x, !.version = n]
      BY <1>1, <2>1
    <3> QED BY <1>2, <1>3, <3>1, <3>2 DEF DealRow
  <2>2. CASE f = "own" /\ req[w].to \in BOOLEAN
    <3>1. x \in BOOLEAN
      BY <1>0, <1>2, <2>2 DEF Written, DealRow
    <3>2. deal' = [deal EXCEPT !.own = x, !.version = n]
      BY <1>1, <2>2
    <3> QED BY <1>2, <1>3, <3>1, <3>2 DEF DealRow
  <2> QED BY <1>2, <2>1, <2>2
<1>5. Accounted' => Accounted /\ saw = deal
  BY <1>1, <1>2, <1>4, FreshWrite
<1> QED BY <1>1, <1>2, <1>4, <1>5, DealWritten

LEMMA TransitionHolds ==
  ASSUME DealInv, RequestsOK, NEW w \in Windows, TransitionDeal(w)
  PROVE  DealInv' /\ (Accounted' => Accounted /\ deal.stage # "declined")
<1>0. PICK saw, to, x : saw = req[w].saw /\ to = req[w].to /\ x = Written(StatusAt(to), saw.status, deal.status)
  OBVIOUS
<1>1. /\ req[w].op = "advance" /\ Moves(w, {}) /\ UNCHANGED form /\ audited' = audited + 1
      /\ trail' = Append(trail, <<saw.stage, to>>)
      /\ deal' = [deal EXCEPT !.stage = to, !.version = saw.version + 1, !.status = x]
  BY <1>0, Ended DEF TransitionDeal, Holds, DealInv, DealRow
<1>2. /\ saw \in DealRow /\ saw.version <= audited /\ (saw.version = audited => saw = deal)
      /\ Reached(saw.stage) /\ saw.stage # "declined" /\ deal \in DealRow /\ to \in StageNames
  BY <1>0, <1>1 DEF DealInv, DealHeld, DealWriters
<1>3. saw.version + 1 \in Nat
  BY <1>2 DEF DealRow
<1>4. deal' \in DealRow /\ deal'.stage = to /\ deal'.version = saw.version + 1
  <2> PICK n : n = saw.version + 1
    OBVIOUS
  <2>1. x \in {"active", "on_hold", "declined", "closed"}
    BY <1>0, <1>2 DEF Written, StatusAt, DealRow
  <2> QED BY <1>1, <1>2, <1>3, <2>1 DEF DealRow
<1>5. Accounted' => Accounted /\ saw = deal
  BY <1>1, <1>2, <1>4, FreshWrite
<1> QED BY <1>1, <1>2, <1>4, <1>5, DealWritten

LEMMA DecideHolds ==
  ASSUME DealInv, RequestsOK, NEW w \in Windows, Decide(w)
  PROVE  DealInv' /\ (Accounted' => Accounted /\ (deal.stage = "declined" => deal'.stage = "declined"))
<1>0. PICK saw, s, x : /\ saw = req[w].saw /\ s = Written("declined", saw.stage, deal.stage)
                       /\ x = Written("declined", saw.status, deal.status)
  OBVIOUS
<1>1. req[w].op = "decide" /\ Moves(w, {}) /\ UNCHANGED <<form, trail>>
  BY Ended DEF Decide, Holds
<1>2. CASE UNCHANGED <<deal, audited>>
  <2>1. {} \cap DealWriters = {}
    OBVIOUS
  <2> QED BY <1>1, <1>2, <2>1, DealStays DEF Accounted
<1>3. CASE deal' = Declined(req[w]) /\ audited' = audited + 1
  <2>1. /\ saw \in DealRow /\ saw.version <= audited /\ (saw.version = audited => saw = deal)
        /\ deal \in DealRow
    BY <1>0, <1>1 DEF DealInv, DealHeld, DealWriters
  <2>2. deal' = [deal EXCEPT !.stage = s, !.status = x, !.version = saw.version + 1]
    BY <1>0, <1>3, <2>1 DEF Declined, DealRow
  <2>3. saw.version + 1 \in Nat
    BY <2>1 DEF DealRow
  <2>4. s \in {deal.stage, "declined"} /\ x \in {"active", "on_hold", "declined", "closed"} /\ s \in StageNames
    BY <1>0, <2>1 DEF Written, DealRow, StageNames
  <2>5. deal' \in DealRow /\ deal'.stage = s /\ deal'.version = saw.version + 1
    <3> PICK n : n = saw.version + 1
      OBVIOUS
    <3> QED BY <2>1, <2>2, <2>3, <2>4 DEF DealRow
  <2>6. Accounted' => Accounted /\ saw = deal
    BY <1>3, <2>1, <2>5, FreshWrite
  <2> QED BY <1>1, <1>3, <2>1, <2>4, <2>5, <2>6, DealWritten
<1> QED BY <1>2, <1>3 DEF Decide

\* Who is about to write has the row as it is.
LEMMA DealLooked ==
  ASSUME DealInv, NEW w \in Windows, UNCHANGED <<deal, audited, trail>>, req'[w].saw = deal
  PROVE  /\ req'[w].saw \in DealRow /\ Reached(req[w].saw.stage)'
         /\ req'[w].saw.version <= audited'
         /\ req'[w].saw.version = audited' => req'[w].saw = deal'
BY DEF DealInv, Reached

LEMMA DealLooks ==
  ASSUME DealInv, RequestsOK, NEW w \in Windows,
         \/ OpenForm(w)
         \/ \E s \in {"active", "on_hold"} : OpenUpdate(w, "status", s)
         \/ \E own \in BOOLEAN : OpenUpdate(w, "own", own)
         \/ \E s \in StageNames : OpenTransition(w, s)
         \/ \E p \in DOMAIN packets, what \in Decisions : OpenDecision(w, p, what)
  PROVE  DealInv' /\ UNCHANGED <<deal, audited>>
<1>1. deal \in DealRow /\ DOMAIN form = Windows
  BY DEF DealInv
<1>2. CASE OpenForm(w)
  <2>1. /\ req' = req /\ req[w].op = "none" /\ Moves(w, {})
        /\ UNCHANGED <<deal, audited, trail>> /\ DOMAIN form' = Windows
        /\ \A v \in Windows \ {w} : form'[v] = form[v]
    BY <1>1, <1>2, Began DEF OpenForm
  <2>2. DealHeld(w)'
    BY <2>1 DEF DealHeld, DealWriters
  <2> QED BY <2>1, <2>2, DealRead
<1>3. ASSUME NEW field, NEW value, OpenUpdate(w, field, value),
             \/ field = "status" /\ value \in {"active", "on_hold"}
             \/ field = "own" /\ value \in BOOLEAN
      PROVE  DealInv' /\ UNCHANGED <<deal, audited>>
  <2> DEFINE r == [op |-> "edit", saw |-> deal, field |-> field, to |-> value]
  <2>1. /\ req'[w] = r /\ Moves(w, DealWriters) /\ UNCHANGED <<deal, audited, form, trail>>
        /\ form[w] = deal.version
    BY <1>3, Began DEF OpenUpdate, DealWriters, dealVars
  <2>2. r.op = "edit" /\ r.saw = deal /\ r.field = field /\ r.to = value
    OBVIOUS
  <2> HIDE DEF r
  <2>3. DealHeld(w)'
    BY <1>3, <2>1, <2>2, DealLooked DEF DealHeld
  <2> QED BY <1>1, <2>1, <2>3, DealRead
<1>4. ASSUME NEW to \in StageNames, OpenTransition(w, to) PROVE DealInv' /\ UNCHANGED <<deal, audited>>
  <2> DEFINE r == [op |-> "advance", saw |-> deal, to |-> to]
  <2>1. /\ req'[w] = r /\ Moves(w, DealWriters) /\ UNCHANGED <<deal, audited, form, trail>>
        /\ to # deal.stage /\ (to # "declined" => deal.stage \notin Over)
    BY <1>4, Began DEF OpenTransition, MayAdvance, DealWriters, dealVars
  <2>2. r.op = "advance" /\ r.saw = deal /\ r.to = to
    OBVIOUS
  <2> HIDE DEF r
  <2>3. deal.stage # "declined"
    BY <2>1 DEF Over
  <2>4. DealHeld(w)'
    BY <2>1, <2>2, <2>3, DealLooked DEF DealHeld
  <2> QED BY <1>1, <2>1, <2>4, DealRead
<1>5. ASSUME NEW p, NEW what, OpenDecision(w, p, what) PROVE DealInv' /\ UNCHANGED <<deal, audited>>
  <2> DEFINE r == [op |-> "decide", on |-> p, to |-> what, saw |-> deal, was |-> packets[p].status]
  <2>1. /\ req'[w] = r /\ Moves(w, DealWriters) /\ UNCHANGED <<deal, audited, form, trail>>
    BY <1>5, Began DEF OpenDecision, DealWriters, dealVars
  <2>2. r.op = "decide" /\ r.saw = deal
    OBVIOUS
  <2> HIDE DEF r
  <2>3. DealHeld(w)'
    BY <2>1, <2>2, DealLooked DEF DealHeld
  <2> QED BY <1>1, <2>1, <2>3, DealRead
<1> QED BY <1>2, <1>3, <1>4, <1>5

LEMMA StepDeal ==
  ASSUME DealInv, RequestsOK, [Next]_vars
  PROVE  DealInv' /\ Shown
<1>1. ASSUME NEW w \in Windows, UpdateDeal(w) PROVE Accounted' => form[w] = deal.version
  BY <1>1, UpdateHolds
<1> DEFINE Goal == /\ DealInv' /\ (Accounted' => Accounted)
                   /\ Accounted' => (deal.stage = "declined" => deal'.stage = "declined")
<1>2. CASE UNCHANGED vars
  <2>1. UNCHANGED <<deal, audited, form, trail, req>>
    BY <1>2 DEF vars, dealVars
  <2>2. Goal
    BY <2>1 DEF DealInv, Reached, Accounted, Chained, DealHeld
  <2> QED BY <1>1, <2>2 DEF Shown
<1>3. ASSUME NEW w \in Windows, DealRowStep(w) PROVE Goal
  BY <1>3, UpdateHolds, TransitionHolds, DealLooks DEF DealRowStep, StageNames, Accounted
<1>4. ASSUME NEW w \in Windows, NEW ops, Moves(w, ops), ops \cap DealWriters = {},
             UNCHANGED <<deal, audited, form, trail>>
      PROVE  Goal
  BY <1>4, DealStays DEF Accounted
<1>5. ASSUME NEW w \in Windows, PacketStep(w), UNCHANGED <<form, trail>> PROVE Goal
  BY <1>5, <1>4, DecisionSteps, DecideHolds, DealLooks DEF PacketOps, LookOps, DealWriters, Accounted
<1>6. CASE ~ UNCHANGED vars
  <2>1. Goal
    BY <1>3, <1>4, <1>5, <1>6, StepKinds DEF RoomOps, AskOps, DealWriters, dealVars
  <2> QED BY <1>1, <2>1 DEF Shown
<1> QED BY <1>2, <1>6

-----------------------------------------------------------------------------
(* The decisions on the case.                                              *)

LEMMA InitVerdict == Init => VerdictInv
<1> SUFFICES ASSUME Init PROVE VerdictInv
  OBVIOUS
<1>1. CASE ~ agenda.begun
  BY <1>1 DEF Init, ICInit, VerdictInv
<1>2. CASE agenda.begun
  <2>1. PICK author \in Users : \E reviewer \in Humans \ {author} :
          claims = <<Claim("unreviewed", author, 1), Claim("approved", reviewer, 1)>>
    BY <1>2 DEF Init, RoomInit
  <2>2. PICK reviewer \in Humans \ {author} :
          claims = <<Claim("unreviewed", author, 1), Claim("approved", reviewer, 1)>>
    BY <2>1
  <2>3. claims[1].by = author /\ claims[2].by = reviewer
    BY <2>2 DEF Claim
  <2> PICK s, a : /\ s = [what |-> "submitted", by |-> author]
                  /\ a = [what |-> "approved", by |-> reviewer]
    OBVIOUS
  <2>4. s \in VerdictRow /\ a \in VerdictRow /\ s.what = "submitted" /\ s.by # a.by
    BY DataRoomAssumption DEF VerdictRow
  <2>5. verdicts = <<s, a>>
    BY <1>2, <2>3 DEF Init, ICInit
  <2>6. verdicts \in Seq(VerdictRow) /\ DOMAIN verdicts = 1..2 /\ verdicts[1] = s /\ verdicts[2] = a
    BY <2>4, <2>5
  <2>7. ASSUME NEW n \in DOMAIN verdicts, verdicts[n].what \in {"approved", "rejected"}
        PROVE  \E m \in 1..(n - 1) : verdicts[m].what = "submitted" /\ verdicts[m].by # verdicts[n].by
    <3>1. n = 2 /\ 1 \in 1..(n - 1)
      BY <2>4, <2>6, <2>7
    <3> QED BY <2>4, <2>6, <3>1
  <2> QED BY <2>6, <2>7 DEF VerdictInv
<1> QED BY <1>1, <1>2

\* The last submitter submitted the case.
LEMMA CaseSubmitterSubmitted ==
  ASSUME VerdictInv, CaseSubmitter # Nobody
  PROVE  \E m \in DOMAIN verdicts : verdicts[m].what = "submitted" /\ verdicts[m].by = CaseSubmitter
<1> DEFINE S == {n \in DOMAIN verdicts : verdicts[n].what = "submitted"}
<1>1. S # {} /\ CaseSubmitter = verdicts[Max(S)].by
  BY DEF CaseSubmitter
<1>2. S \subseteq 1..Len(verdicts) /\ Len(verdicts) \in Nat
  BY DEF VerdictInv
<1>3. Max(S) \in S
  BY <1>1, <1>2, MaxIsGreatest
<1> QED BY <1>1, <1>3

LEMMA VerdictStepHolds ==
  ASSUME VerdictInv, NEW w \in Windows, VerdictStep(w)
  PROVE  VerdictInv' /\ \E e \in VerdictRow : verdicts' = Append(verdicts, e)
<1>1. PICK what \in {"submitted", "approved", "rejected", "superseded"} : AddCaseDecision(w, what)
  BY DEF VerdictStep
<1> PICK e, n : e = [what |-> what, by |-> Person[w]] /\ n = Len(verdicts)
  OBVIOUS
<1>2. e \in VerdictRow /\ e.what = what /\ e.by = Person[w] /\ Person[w] \in Users
  BY DataRoomAssumption DEF VerdictRow
<1>3. verdicts' = Append(verdicts, e)
  BY <1>1 DEF AddCaseDecision
<1>4. /\ verdicts' \in Seq(VerdictRow) /\ n \in Nat /\ DOMAIN verdicts = 1..n
      /\ DOMAIN verdicts' = 1..(n + 1) /\ verdicts'[n + 1] = e
      /\ \A m \in 1..n : verdicts'[m] = verdicts[m]
  BY <1>2, <1>3, Appended DEF VerdictInv
<1>5. ASSUME NEW k \in DOMAIN verdicts', verdicts'[k].what \in {"approved", "rejected"}
      PROVE  \E m \in 1..(k - 1) : verdicts'[m].what = "submitted" /\ verdicts'[m].by # verdicts'[k].by
  <2>1. CASE k = n + 1
    <3>1. CaseSubmitter \notin {Nobody, Person[w]}
      BY <1>1, <1>2, <1>4, <1>5, <2>1 DEF AddCaseDecision
    <3>2. PICK m \in 1..n : verdicts[m].what = "submitted" /\ verdicts[m].by # Person[w]
      BY <1>4, <3>1, CaseSubmitterSubmitted
    <3>3. m \in 1..(k - 1) /\ verdicts'[m] = verdicts[m]
      BY <1>4, <2>1
    <3> QED BY <1>2, <1>4, <2>1, <3>2, <3>3
  <2>2. CASE k # n + 1
    <3>1. k \in 1..n /\ verdicts'[k] = verdicts[k]
      BY <1>4, <2>2
    <3>2. PICK m \in 1..(k - 1) : verdicts[m].what = "submitted" /\ verdicts[m].by # verdicts[k].by
      BY <1>4, <1>5, <3>1 DEF VerdictInv
    <3>3. m \in 1..n /\ verdicts'[m] = verdicts[m]
      BY <1>4, <3>1
    <3> QED BY <3>1, <3>2, <3>3
  <2> QED BY <2>1, <2>2
<1> QED BY <1>2, <1>3, <1>4, <1>5 DEF VerdictInv

LEMMA StepVerdict ==
  ASSUME VerdictInv, RequestsOK, [Next]_vars
  PROVE  VerdictInv' /\ (verdicts' = verdicts \/ \E e \in VerdictRow : verdicts' = Append(verdicts, e))
<1>1. CASE UNCHANGED verdicts
  BY <1>1 DEF VerdictInv
<1> QED BY <1>1, StepKinds, VerdictStepHolds DEF vars, icVars

-----------------------------------------------------------------------------
(* Packets and exports.                                                    *)

\* The rows that were there are there for good: what can be quoted stays so.
SourcesKept ==
  /\ \A n \in DOMAIN claims : n \in DOMAIN claims' /\ claims'[n] = claims[n]
  /\ \A n \in DOMAIN verdicts : n \in DOMAIN verdicts' /\ verdicts'[n] = verdicts[n]

LEMMA ClaimsKept ==
  ASSUME RedactInv, ClaimInv, RequestsOK, [Next]_vars
  PROVE  \A n \in DOMAIN claims : n \in DOMAIN claims' /\ claims'[n] = claims[n]
<1>1. CASE UNCHANGED claims
  BY <1>1
<1>2. ASSUME NEW w \in Windows, RoomStep(w)
      PROVE  \A n \in DOMAIN claims : n \in DOMAIN claims' /\ claims'[n] = claims[n]
  <2>1. CASE ReviewClaim(w)
    <3> PICK n, c : n = Len(claims) /\ c = Claim(req[w].what, Person[w], claims[n].doc)
      OBVIOUS
    <3>1. claims' = Append(claims, c) /\ req[w].op = "review" /\ req[w].on = n
      BY <2>1 DEF ReviewClaim, Holds
    <3>2. n \in DOMAIN claims /\ claims[n] \in ClaimRow /\ req[w].what \in Reviews /\ Person[w] \in Users
      BY <3>1, DataRoomAssumption DEF ClaimInv, ReviewHeld
    <3>3. c \in ClaimRow
      BY <3>2 DEF Claim, ClaimRow
    <3> QED BY <3>1, <3>3, Appended DEF ClaimInv
  <2>2. CASE ExtractClaims(w)
    BY <2>2 DEF ExtractClaims
  <2>3. CASE UNCHANGED claims
    BY <2>3
  <2> QED BY <1>2, <2>1, <2>2, <2>3
          DEF RoomStep, IngestDocument, ProposeRedaction, OpenRedaction, RejectRedaction, MintRedacted,
              LinkRedacted, OpenReview, roomVars
<1> QED BY <1>1, <1>2, StepKinds DEF vars, roomVars

LEMMA VerdictsKept ==
  ASSUME VerdictInv, RequestsOK, [Next]_vars
  PROVE  \A n \in DOMAIN verdicts : n \in DOMAIN verdicts' /\ verdicts'[n] = verdicts[n]
BY StepVerdict, Appended DEF VerdictInv

LEMMA InitPacket == Init => PacketInv
<1> SUFFICES ASSUME Init PROVE PacketInv
  OBVIOUS
<1>1. (\A w \in Windows : req[w].op = "none") /\ packets = <<>> /\ exports = {}
  BY DEF Init, RoomInit, ICInit, Idle
<1> QED BY <1>1 DEF PacketInv, PacketHeld

LEMMA PacketStays ==
  ASSUME PacketInv, RequestsOK, NEW w \in Windows, NEW ops, Moves(w, ops), ops \cap PacketOps = {},
         SourcesKept, UNCHANGED <<packets, exports>>
  PROVE  PacketInv'
<1>1. ASSUME NEW p \in DOMAIN packets PROVE (Quotes(packets[p]) /\ SubmittedOK(packets[p]))'
  BY DEF PacketInv, Quotes, SubmittedOK, SourcesKept
<1>2. ASSUME NEW v \in Windows PROVE PacketHeld(v)'
  BY DEF PacketInv, PacketHeld, Quotes, SourcesKept, Moves, PacketOps
<1> QED BY <1>1, <1>2 DEF PacketInv

\* A request has checked a packet and holds what it is about to write.
LEMMA PacketChecked ==
  ASSUME PacketInv, RequestsOK, NEW w \in Windows, NEW r, Hold(w, r), UNCHANGED <<packets, exports, claims, verdicts>>,
         PacketHeld(w)'
  PROVE  PacketInv'
<1>1. ASSUME NEW p \in DOMAIN packets PROVE (Quotes(packets[p]) /\ SubmittedOK(packets[p]))'
  BY DEF PacketInv, Quotes, SubmittedOK
<1>2. ASSUME NEW v \in Windows \ {w} PROVE PacketHeld(v)'
  BY Held DEF PacketInv, PacketHeld, Quotes
<1> QED BY <1>1, <1>2 DEF PacketInv

\* What a request makes of a row keeps its content, the people who submitted
\* it and the author of a blocking comment.
Follows(row, k) ==
  /\ row \in PacketRow /\ SubmittedOK(row)
  /\ row.case = k.case /\ row.verdict = k.verdict /\ row.claim = k.claim /\ row.row = k.row
  /\ k.status # "draft" => row.status # "draft"
  /\ k.submitter # Nobody => row.submitter # Nobody
  /\ k.filed \subseteq row.filed
  /\ k.blocker.status # "none" => row.blocker.status # "none" /\ row.blocker.by = k.blocker.by

LEMMA PacketWritten ==
  ASSUME PacketInv, RequestsOK, NEW w \in Windows, Done(w), UNCHANGED <<exports, claims, verdicts>>,
         NEW p \in DOMAIN packets, NEW row, packets' = [packets EXCEPT ![p] = row], Follows(row, packets[p])
  PROVE  PacketInv'
<1> USE DEF Follows
<1>1. /\ packets' \in Seq(PacketRow) /\ DOMAIN packets' = DOMAIN packets /\ packets'[p] = row
      /\ \A q \in DOMAIN packets \ {p} : packets'[q] = packets[q]
  BY Replaced DEF PacketInv
<1>2. ASSUME NEW q \in DOMAIN packets'
      PROVE  /\ packets'[q].case = packets[q].case /\ packets'[q].verdict = packets[q].verdict
             /\ packets'[q].claim = packets[q].claim /\ packets'[q].row = packets[q].row
             /\ packets[q].status # "draft" => packets'[q].status # "draft"
             /\ packets[q].submitter # Nobody => packets'[q].submitter # Nobody
             /\ packets[q].filed \subseteq packets'[q].filed
             /\ packets[q].blocker.status # "none" =>
                  packets'[q].blocker.status # "none" /\ packets'[q].blocker.by = packets[q].blocker.by
             /\ SubmittedOK(packets'[q])
  BY <1>1 DEF PacketInv
<1>3. ASSUME NEW q \in DOMAIN packets' PROVE Quotes(packets[q])'
  BY <1>1, <1>2 DEF PacketInv, Quotes
<1>4. ASSUME NEW q \in DOMAIN packets' PROVE SubmittedOK(packets[q])'
  BY <1>2 DEF SubmittedOK
<1>5. ASSUME NEW e \in exports'
      PROVE  /\ e.packet \in DOMAIN packets' /\ packets'[e.packet].status # "draft"
             /\ e.content = Content(packets[e.packet])'
  <2>1. e \in exports /\ e.packet \in DOMAIN packets' /\ packets[e.packet].status # "draft"
        /\ e.content = Content(packets[e.packet])
    BY <1>1 DEF PacketInv
  <2> QED BY <1>2, <2>1 DEF Content
<1>6. ASSUME NEW v \in Windows PROVE PacketHeld(v)'
  <2>1. CASE v = w
    BY <2>1, Ended DEF PacketHeld
  <2>2. CASE v # w
    <3>1. req'[v] = req[v] /\ PacketHeld(v)
      BY <2>2, Held DEF Done, PacketInv
    <3>2. req[v].op = "assemble" => Quotes(req[v].packet)'
      BY <3>1 DEF PacketHeld, Quotes
    <3> QED BY <1>1, <1>2, <3>1, <3>2 DEF PacketHeld
  <2> QED BY <2>1, <2>2
<1> QED BY <1>1, <1>3, <1>4, <1>5, <1>6 DEF PacketInv

LEMMA OpenPacketHolds ==
  ASSUME PacketInv, VerdictInv, ClaimInv, RequestsOK, NEW w \in Windows,
         NEW c \in {0} \cup DOMAIN claims, OpenPacket(w, c)
  PROVE  PacketInv'
<1> PICK k, r : k = Packet(Len(verdicts), c) /\ r = [op |-> "assemble", packet |-> k]
  OBVIOUS
<1>1. Hold(w, r) /\ UNCHANGED <<packets, exports, claims, verdicts>> /\ (c # 0 => claims[c].status = "approved")
  BY DEF OpenPacket, LatestApproved, roomVars, icVars
<1>2. Len(verdicts) \in Nat /\ c \in Nat /\ DOMAIN verdicts = 1..Len(verdicts)
  BY DEF VerdictInv, ClaimInv
<1>3. /\ (IF Len(verdicts) = 0 THEN Undecided ELSE verdicts[Len(verdicts)]) \in VerdictRow \cup {Undecided}
      /\ (IF c = 0 THEN NoClaim ELSE claims[c]) \in ClaimRow \cup {NoClaim}
  BY <1>2 DEF VerdictInv, ClaimInv
<1>4. Blank \in BlockerRow
  BY DEF Blank, BlockerRow
<1>5. k \in PacketRow
  BY <1>2, <1>3, <1>4 DEF Packet, PacketRow
<1>6. /\ k.case = Len(verdicts) /\ k.verdict = IF Len(verdicts) = 0 THEN Undecided ELSE verdicts[Len(verdicts)]
      /\ k.claim = c /\ k.row = IF c = 0 THEN NoClaim ELSE claims[c]
      /\ k.status = "draft" /\ k.submitter = Nobody /\ k.blocker = Blank /\ k.votes = <<>>
  BY DEF Packet
<1>7. Quotes(k)
  BY <1>1, <1>2, <1>6 DEF Quotes
<1>8. Quotes(k)'
  BY <1>1, <1>7 DEF Quotes
<1>9. r.op = "assemble" /\ r.packet = k
  OBVIOUS
<1>10. PacketHeld(w)'
  <2>1. req'[w] = r
    BY <1>1, Held
  <2>2. req'[w].op = "assemble" /\ req'[w].packet = k
    BY <1>9, <2>1
  <2> QED BY <1>5, <1>6, <1>8, <2>2 DEF PacketHeld, Quotes
<1> QED BY <1>1, <1>10, PacketChecked

LEMMA CreatePacketHolds ==
  ASSUME PacketInv, RequestsOK, NEW w \in Windows, CreatePacket(w)
  PROVE  PacketInv'
<1> PICK k, n : k = req[w].packet /\ n = Len(packets)
  OBVIOUS
<1>1. /\ packets' = Append(packets, k) /\ req[w].op = "assemble" /\ UNCHANGED <<exports, claims, verdicts>>
      /\ req'[w].op = "none" /\ \A v \in Windows \ {w} : req'[v] = req[v]
  BY Ended DEF CreatePacket, Holds, Moves, roomVars
<1>2. /\ k \in PacketRow /\ Quotes(k) /\ k.status = "draft" /\ k.submitter = Nobody /\ k.blocker = Blank
      /\ k.votes = <<>> /\ DOMAIN k.votes = {}
  BY <1>1 DEF PacketInv, PacketHeld
<1>3. /\ packets' \in Seq(PacketRow) /\ n \in Nat /\ DOMAIN packets = 1..n /\ DOMAIN packets' = 1..(n + 1)
      /\ packets'[n + 1] = k /\ \A p \in 1..n : packets'[p] = packets[p]
  BY <1>1, <1>2, Appended DEF PacketInv
<1>4. ASSUME NEW p \in DOMAIN packets' PROVE Quotes(packets[p])' /\ SubmittedOK(packets[p])'
  <2>1. CASE p = n + 1
    BY <1>1, <1>2, <1>3, <2>1 DEF Quotes, SubmittedOK, Blank
  <2>2. CASE p # n + 1
    <3>1. p \in DOMAIN packets /\ packets'[p] = packets[p]
      BY <1>3, <2>2
    <3> QED BY <1>1, <3>1 DEF PacketInv, Quotes, SubmittedOK
  <2> QED BY <2>1, <2>2
<1>5. ASSUME NEW e \in exports'
      PROVE  /\ e.packet \in DOMAIN packets' /\ packets'[e.packet].status # "draft"
             /\ e.content = Content(packets[e.packet])'
  <2>1. /\ e.packet \in DOMAIN packets /\ packets[e.packet].status # "draft"
        /\ e.content = Content(packets[e.packet])
    BY <1>1 DEF PacketInv
  <2>2. e.packet \in DOMAIN packets' /\ packets'[e.packet] = packets[e.packet]
    BY <1>3, <2>1
  <2> QED BY <2>1, <2>2 DEF Content
<1>6. ASSUME NEW v \in Windows PROVE PacketHeld(v)'
  <2>1. CASE v = w
    BY <1>1, <2>1 DEF PacketHeld
  <2>2. CASE v # w
    <3>1. req'[v] = req[v] /\ PacketHeld(v) /\ \A p \in DOMAIN packets : p \in DOMAIN packets' /\ packets'[p] = packets[p]
      BY <1>1, <1>3, <2>2 DEF PacketInv
    <3>2. req[v].op = "assemble" => Quotes(req[v].packet)'
      BY <1>1, <3>1 DEF PacketHeld, Quotes
    <3> QED BY <3>1, <3>2 DEF PacketHeld
  <2> QED BY <2>1, <2>2
<1> QED BY <1>3, <1>4, <1>5, <1>6 DEF PacketInv

LEMMA PacketChecksHold ==
  ASSUME PacketInv, RequestsOK, NEW w \in Windows, NEW p \in DOMAIN packets,
         \/ OpenSubmit(w, p) \/ OpenResolve(w, p)
         \/ \E blocking \in BOOLEAN : OpenComment(w, p, blocking)
         \/ \E what \in Decisions : OpenDecision(w, p, what)
         \/ \E status \in {"satisfied", "waived"} : OpenCondition(w, p, status)
  PROVE  PacketInv'
<1> USE DEF roomVars, icVars
<1>1. CASE OpenSubmit(w, p)
  <2> PICK r : r = [op |-> "ready", on |-> p]
    OBVIOUS
  <2>1. /\ Hold(w, r) /\ UNCHANGED <<packets, exports, claims, verdicts>>
        /\ packets[p].verdict.what = "approved"
    BY <1>1 DEF OpenSubmit, Ready
  <2>2. req'[w].op = "ready" /\ req'[w].on = p
    BY <2>1, Held
  <2> QED BY <2>1, <2>2, PacketChecked DEF PacketHeld
<1>2. CASE OpenResolve(w, p)
  <2> PICK r : r = [op |-> "resolve", on |-> p]
    OBVIOUS
  <2>1. /\ Hold(w, r) /\ UNCHANGED <<packets, exports, claims, verdicts>>
        /\ packets[p].blocker.status = "open" /\ Person[w] \in Humans \ {packets[p].blocker.by}
    BY <1>2 DEF OpenResolve
  <2>2. req'[w].op = "resolve" /\ req'[w].on = p
    BY <2>1, Held
  <2> QED BY <2>1, <2>2, PacketChecked DEF PacketHeld
<1>3. ASSUME NEW blocking \in BOOLEAN, OpenComment(w, p, blocking) PROVE PacketInv'
  <2> PICK r : r = [op |-> "comment", on |-> p, saw |-> packets[p].status, blocking |-> blocking]
    OBVIOUS
  <2>1. Hold(w, r) /\ UNCHANGED <<packets, exports, claims, verdicts>>
    BY <1>3 DEF OpenComment
  <2>2. req'[w].op = "comment" /\ req'[w].on = p /\ req'[w].saw = packets[p].status /\ req'[w].blocking = blocking
    BY <2>1, Held
  <2> QED BY <2>1, <2>2, PacketChecked DEF PacketHeld
<1>4. ASSUME NEW what \in Decisions, OpenDecision(w, p, what) PROVE PacketInv'
  <2> PICK r : r = [op |-> "decide", on |-> p, to |-> what, saw |-> deal, was |-> packets[p].status]
    OBVIOUS
  <2>1. /\ Hold(w, r) /\ UNCHANGED <<packets, exports, claims, verdicts>> /\ packets[p].status # "draft"
        /\ packets[p].submitter # Person[w]
    BY <1>4 DEF OpenDecision
  <2>2. req'[w].op = "decide" /\ req'[w].on = p /\ req'[w].to = what
    BY <2>1, Held
  <2>3. packets[p].filed \ {Person[w]} # {}
    BY <2>1 DEF PacketInv, SubmittedOK
  <2> QED BY <2>1, <2>2, <2>3, PacketChecked DEF PacketHeld
<1>5. ASSUME NEW status \in {"satisfied", "waived"}, OpenCondition(w, p, status) PROVE PacketInv'
  <2> PICK r : r = [op |-> "condition", on |-> p, to |-> status]
    OBVIOUS
  <2>1. Hold(w, r) /\ UNCHANGED <<packets, exports, claims, verdicts>>
    BY <1>5 DEF OpenCondition
  <2>2. req'[w].op = "condition" /\ req'[w].on = p /\ req'[w].to = status
    BY <2>1, Held
  <2> QED BY <2>1, <2>2, PacketChecked DEF PacketHeld
<1> QED BY <1>1, <1>2, <1>3, <1>4, <1>5

LEMMA RefreshHolds ==
  ASSUME PacketInv, RequestsOK, NEW w \in Windows, RefreshPacket(w)
  PROVE  PacketInv'
<1> PICK p, k : p = req[w].on /\ k = packets[p]
  OBVIOUS
<1> PICK r : r = [op |-> "submit", on |-> p, saw |-> k]
  OBVIOUS
<1>1. Hold(w, r) /\ UNCHANGED <<packets, exports, claims, verdicts>> /\ req[w].op = "ready"
  BY DEF RefreshPacket, Holds, roomVars, icVars
<1>2. req'[w].op = "submit" /\ req'[w].on = p /\ req'[w].saw = k
  BY <1>1, Held
<1>3. p \in DOMAIN packets /\ k.verdict.what = "approved"
  BY <1>1 DEF PacketInv, PacketHeld
<1>4. PacketHeld(w)'
  BY <1>1, <1>2, <1>3 DEF PacketHeld
<1> QED BY <1>1, <1>4, PacketChecked

LEMMA CreateExportHolds ==
  ASSUME PacketInv, RequestsOK, NEW w \in Windows, NEW p \in DOMAIN packets, CreateExport(w, p)
  PROVE  PacketInv'
<1> PICK e : e = [packet |-> p, content |-> Content(packets[p])]
  OBVIOUS
<1>1. /\ exports' = exports \cup {e} /\ packets[p].status # "draft"
      /\ UNCHANGED <<req, packets, claims, verdicts>>
  BY DEF CreateExport, roomVars
<1>2. e.packet = p /\ e.content = Content(packets[p])
  OBVIOUS
<1> QED BY <1>1, <1>2 DEF PacketInv, PacketHeld, Quotes, SubmittedOK, Content

PacketStatuses == {"draft", "submitted", "in_review", "approved", "conditional", "deferred", "declined"}

LEMMA CommentedRow ==
  ASSUME NEW k \in PacketRow, NEW s \in PacketStatuses, NEW b \in BlockerRow
  PROVE  [k EXCEPT !.status = s, !.blocker = b] \in PacketRow
BY DEF PacketRow, PacketStatuses

LEMMA VotedRow ==
  ASSUME NEW k \in PacketRow, NEW s \in PacketStatuses, NEW vs \in Seq(VoteRow),
         NEW c \in {"none", "open", "satisfied", "waived"}
  PROVE  [k EXCEPT !.votes = vs, !.status = s, !.condition = c] \in PacketRow
BY DEF PacketRow, PacketStatuses

LEMMA BlockerOpened ==
  ASSUME NEW u \in Users
  PROVE  LET b == [Blank EXCEPT !.status = "open", !.by = u]
         IN  b \in BlockerRow /\ b.status = "open" /\ Blank.status = "none"
BY DEF Blank, BlockerRow

\* The writes of a packet, once it is there.
LEMMA PacketWritesHold ==
  ASSUME PacketInv, RequestsOK, NEW w \in Windows,
         Submit(w) \/ AddComment(w) \/ ResolveComment(w) \/ Decide(w) \/ UpdateCondition(w)
  PROVE  PacketInv'
<1> PICK p : p = req[w].on
  OBVIOUS
<1> PICK k : k = packets[p]
  OBVIOUS
<1>1. /\ req[w].op \in {"submit", "comment", "resolve", "decide", "condition"}
      /\ Done(w) /\ UNCHANGED <<exports, claims, verdicts>>
  BY DEF Submit, AddComment, ResolveComment, Decide, UpdateCondition, Holds, roomVars
<1>2. p \in DOMAIN packets /\ k \in PacketRow /\ SubmittedOK(k) /\ Person[w] \in Users /\ Nobody \notin Users
  BY <1>1, DataRoomAssumption DEF PacketInv, PacketHeld
<1>3. k.blocker \in BlockerRow
  BY <1>2 DEF PacketRow
<1>4. CASE Submit(w)
  <2>0. PICK s, u, row :
        /\ s = Written("submitted", req[w].saw.status, k.status)
        /\ u = Written(Person[w], req[w].saw.submitter, k.submitter)
        /\ row = [k EXCEPT !.status = s, !.submitter = u, !.filed = @ \cup {Person[w]}]
    OBVIOUS
  <2>1. packets' = [packets EXCEPT ![p] = row]
    BY <1>2, <1>4, <2>0 DEF Submit, PacketInv, PacketRow
  <2>2. /\ k.verdict.what = "approved"
        /\ req[w].saw.status # "draft" => k.status # "draft"
        /\ req[w].saw.submitter # Nobody => k.submitter # Nobody
    BY <1>4 DEF Submit, Holds, PacketInv, PacketHeld
  <2>3. /\ s \in PacketStatuses \ {"draft"} /\ u \in Users
        /\ u = Person[w] \/ u = k.submitter
    BY <1>2, <2>0, <2>2 DEF Written, PacketStatuses, PacketRow
  <2>4. row \in PacketRow
    BY <1>2, <2>0, <2>3 DEF PacketRow, PacketStatuses
  <2>5. /\ row.case = k.case /\ row.verdict = k.verdict /\ row.claim = k.claim /\ row.row = k.row
        /\ row.status = s /\ row.submitter = u /\ row.blocker = k.blocker
        /\ row.filed = k.filed \cup {Person[w]} /\ row.votes = k.votes
    BY <1>2, <2>0 DEF PacketRow
  <2>6. SubmittedOK(row)
    BY <1>2, <2>2, <2>3, <2>5 DEF SubmittedOK
  <2>11. Follows(row, k)
    BY <1>2, <2>3, <2>4, <2>5, <2>6 DEF Follows
  <2> QED BY <1>1, <1>2, <2>1, <2>11, PacketWritten
<1>5. CASE AddComment(w)
  <2>0. PICK s, b, row : /\ s = IF req[w].saw = "submitted" THEN "in_review" ELSE k.status
                         /\ b = IF req[w].blocking THEN [Blank EXCEPT !.status = "open", !.by = Person[w]] ELSE k.blocker
                         /\ row = [k EXCEPT !.status = s, !.blocker = b]
    OBVIOUS
  <2>1. /\ req[w].blocking \in BOOLEAN /\ (req[w].saw = "submitted" => k.status # "draft")
        /\ req[w].blocking => k.blocker = Blank
    BY <1>5 DEF AddComment, Holds, PacketInv, PacketHeld
  <2>2. packets' = [packets EXCEPT ![p] = row]
    BY <1>2, <1>5, <2>0 DEF AddComment, Commented, PacketInv
  <2>3. /\ b \in BlockerRow /\ (b.status = "resolved" => b = k.blocker)
        /\ k.blocker.status # "none" => b = k.blocker
    <3>1. CASE req[w].blocking
      <4>1. b = [Blank EXCEPT !.status = "open", !.by = Person[w]] /\ k.blocker = Blank
        BY <2>0, <2>1, <3>1
      <4> QED BY <1>2, <4>1, BlockerOpened
    <3>2. CASE ~ req[w].blocking
      BY <1>3, <2>0, <3>2
    <3> QED BY <3>1, <3>2
  <2>4. s \in {"draft", "submitted", "in_review", "approved", "conditional", "deferred", "declined"}
        /\ (s = "draft" <=> k.status = "draft")
    BY <1>2, <2>0, <2>1 DEF PacketRow
  <2>5. row \in PacketRow
    <3>1. k \in PacketRow /\ s \in PacketStatuses /\ b \in BlockerRow
      BY <1>2, <2>3, <2>4 DEF PacketStatuses
    <3>2. [k EXCEPT !.status = s, !.blocker = b] \in PacketRow
      BY <3>1, CommentedRow
    <3> QED BY <2>0, <3>2
  <2>6. /\ row.case = k.case /\ row.verdict = k.verdict /\ row.claim = k.claim /\ row.row = k.row
        /\ row.status = s /\ row.submitter = k.submitter /\ row.blocker = b
        /\ row.filed = k.filed /\ row.votes = k.votes
    BY <1>2, <2>0 DEF PacketRow
  <2>7. SubmittedOK(row)
    BY <1>2, <2>3, <2>4, <2>6 DEF SubmittedOK
  <2>11. Follows(row, k)
    BY <2>3, <2>4, <2>5, <2>6, <2>7 DEF Follows
  <2> QED BY <1>1, <1>2, <2>2, <2>11, PacketWritten
<1>6. CASE ResolveComment(w)
  <2>0. PICK b, row : /\ b = [k.blocker EXCEPT !.status = "resolved", !.resolver = Person[w]]
                      /\ row = [k EXCEPT !.blocker = b]
    OBVIOUS
  <2>1. packets' = [packets EXCEPT ![p] = row]
    BY <1>2, <1>3, <1>6, <2>0 DEF ResolveComment, PacketInv, PacketRow, BlockerRow
  <2>2. Person[w] \in Humans \ {k.blocker.by}
    BY <1>6 DEF ResolveComment, Holds, PacketInv, PacketHeld
  <2>3. /\ b \in BlockerRow /\ b.status = "resolved" /\ b.by = k.blocker.by /\ b.resolver = Person[w]
    BY <1>2, <1>3, <2>0 DEF BlockerRow
  <2>4. row \in PacketRow
    BY <1>2, <2>0, <2>3 DEF PacketRow
  <2>5. /\ row.case = k.case /\ row.verdict = k.verdict /\ row.claim = k.claim /\ row.row = k.row
        /\ row.status = k.status /\ row.submitter = k.submitter /\ row.blocker = b
        /\ row.filed = k.filed /\ row.votes = k.votes
    BY <1>2, <2>0 DEF PacketRow
  <2>6. SubmittedOK(row)
    BY <1>2, <2>2, <2>3, <2>5 DEF SubmittedOK
  <2>11. Follows(row, k)
    BY <2>3, <2>4, <2>5, <2>6 DEF Follows
  <2> QED BY <1>1, <1>2, <2>1, <2>11, PacketWritten
<1>7. CASE Decide(w)
  <2>0. PICK vote, vs, s, c, row :
        /\ vote = [what |-> req[w].to, by |-> Person[w]] /\ vs = Append(k.votes, vote)
        /\ s = Written(StatusAfter[req[w].to], req[w].was, k.status)
        /\ c = IF req[w].to = "conditional" THEN "open" ELSE k.condition
        /\ row = [k EXCEPT !.votes = vs, !.status = s, !.condition = c]
    OBVIOUS
  <2>1. packets' = [packets EXCEPT ![p] = row]
    BY <1>2, <1>7, <2>0 DEF Decide, PacketInv
  <2>2. k.status # "draft" /\ req[w].to \in Decisions
    BY <1>7 DEF Decide, Holds, PacketInv, PacketHeld
  <2>3. vote \in VoteRow
    BY <1>2, <2>0, <2>2 DEF VoteRow
  <2>4. vs \in Seq(VoteRow)
    BY <1>2, <2>0, <2>3, Appended DEF PacketRow
  <2>5. StatusAfter[req[w].to] \in {"approved", "conditional", "deferred", "declined"}
    BY <2>2 DEF StatusAfter, Decisions
  <2>6. s \in {"submitted", "in_review", "approved", "conditional", "deferred", "declined"}
    BY <1>2, <2>0, <2>2, <2>5 DEF Written, PacketRow
  <2>7. c \in {"none", "open", "satisfied", "waived"}
    BY <1>2, <2>0 DEF PacketRow
  <2>8. row \in PacketRow
    <3>1. k \in PacketRow /\ s \in PacketStatuses
      BY <1>2, <2>6 DEF PacketStatuses
    <3>2. [k EXCEPT !.votes = vs, !.status = s, !.condition = c] \in PacketRow
      BY <2>4, <2>7, <3>1, VotedRow
    <3> QED BY <2>0, <3>2
  <2>9. /\ row.case = k.case /\ row.verdict = k.verdict /\ row.claim = k.claim /\ row.row = k.row
        /\ row.status = s /\ row.submitter = k.submitter /\ row.blocker = k.blocker
        /\ row.filed = k.filed /\ row.votes = vs
    BY <1>2, <2>0 DEF PacketRow
  <2>10. SubmittedOK(row)
    <3>1. ASSUME NEW n \in DOMAIN vs PROVE k.filed \ {vs[n].by} # {}
      <4>1. vote.by = Person[w] /\ k.filed \ {Person[w]} # {}
        BY <1>7, <2>0 DEF Decide, Holds, PacketInv, PacketHeld
      <4>2. k.votes \in Seq(VoteRow)
        BY <1>2 DEF PacketRow
      <4>3. vs[n] = vote \/ (n \in DOMAIN k.votes /\ vs[n] = k.votes[n])
        BY <2>0, <2>3, <4>2, Appended
      <4> QED BY <1>2, <4>1, <4>3 DEF SubmittedOK
    <3> QED BY <1>2, <2>2, <2>6, <2>9, <3>1 DEF SubmittedOK
  <2>11. Follows(row, k)
    BY <2>6, <2>8, <2>9, <2>10 DEF Follows
  <2> QED BY <1>1, <1>2, <2>1, <2>11, PacketWritten
<1>8. CASE UpdateCondition(w)
  <2> PICK row : row = [k EXCEPT !.condition = req[w].to]
    OBVIOUS
  <2>1. packets' = [packets EXCEPT ![p] = row]
    BY <1>2, <1>8 DEF UpdateCondition, PacketInv
  <2>2. req[w].to \in {"satisfied", "waived"}
    BY <1>8 DEF UpdateCondition, Holds, PacketInv, PacketHeld
  <2>3. row \in PacketRow
    BY <1>2, <2>2 DEF PacketRow
  <2>4. /\ row.case = k.case /\ row.verdict = k.verdict /\ row.claim = k.claim /\ row.row = k.row
        /\ row.status = k.status /\ row.submitter = k.submitter /\ row.blocker = k.blocker
        /\ row.filed = k.filed /\ row.votes = k.votes
    BY <1>2 DEF PacketRow
  <2>5. SubmittedOK(row)
    BY <1>2, <2>4 DEF SubmittedOK
  <2>11. Follows(row, k)
    BY <2>3, <2>4, <2>5 DEF Follows
  <2> QED BY <1>1, <1>2, <2>1, <2>11, PacketWritten
<1> QED BY <1>4, <1>5, <1>6, <1>7, <1>8

LEMMA StepPacket ==
  ASSUME RedactInv, ClaimInv, VerdictInv, PacketInv, RequestsOK, [Next]_vars
  PROVE  PacketInv'
<1>1. SourcesKept
  BY ClaimsKept, VerdictsKept DEF SourcesKept
<1>2. CASE UNCHANGED vars
  BY <1>2 DEF vars, roomVars, icVars, PacketInv, PacketHeld, Quotes, SubmittedOK, Content
<1>3. ASSUME NEW w \in Windows, PacketStep(w) PROVE PacketInv'
  <2>1. ASSUME NEW p \in DOMAIN packets,
               \/ OpenSubmit(w, p) \/ OpenResolve(w, p) \/ CreateExport(w, p)
               \/ \E blocking \in BOOLEAN : OpenComment(w, p, blocking)
               \/ \E what \in Decisions : OpenDecision(w, p, what)
               \/ \E status \in {"satisfied", "waived"} : OpenCondition(w, p, status)
        PROVE  PacketInv'
    BY <2>1, PacketChecksHold, CreateExportHolds
  <2> QED BY <1>3, <2>1, OpenPacketHolds, CreatePacketHolds, RefreshHolds, PacketWritesHold DEF PacketStep
<1> QED BY <1>1, <1>2, <1>3, StepKinds, PacketStays
        DEF RoomOps, DealRowOps, AskOps, PacketOps, icVars

-----------------------------------------------------------------------------
(* The record of a packet: who submitted it, and the votes.                *)

SameRecord(p) == packets'[p].submitter = packets[p].submitter /\ packets'[p].votes = packets[p].votes

LEMMA RecordEffects ==
  ASSUME PacketInv, RequestsOK, NEW w \in Windows, PacketStep(w)
  PROVE  \/ packets' = packets \/ CreatePacket(w) \/ Submit(w) \/ Decide(w)
         \/ /\ DOMAIN packets' = DOMAIN packets /\ Len(packets') = Len(packets)
            /\ \A p \in DOMAIN packets : SameRecord(p)
<1>1. CASE AddComment(w) \/ ResolveComment(w) \/ UpdateCondition(w)
  <2> PICK p, k : p = req[w].on /\ k = packets[p]
    OBVIOUS
  <2>1. p \in DOMAIN packets /\ k \in PacketRow
    <3>1. req[w].op \in {"comment", "resolve", "condition"} /\ PacketHeld(w) /\ packets \in Seq(PacketRow)
      BY <1>1 DEF AddComment, ResolveComment, UpdateCondition, Holds, PacketInv
    <3>2. p \in DOMAIN packets
      BY <3>1 DEF PacketHeld
    <3> QED BY <3>1, <3>2
  <2>2. PICK row : /\ packets' = [packets EXCEPT ![p] = row]
                   /\ row.submitter = k.submitter /\ row.votes = k.votes
    <3>1. CASE AddComment(w)
      <4> PICK row : row = Commented(k, req[w], w)
        OBVIOUS
      <4>1. packets' = [packets EXCEPT ![p] = row]
        BY <2>1, <3>1 DEF AddComment, PacketInv
      <4>2. row.submitter = k.submitter /\ row.votes = k.votes
        BY <2>1 DEF Commented, PacketRow
      <4> QED BY <4>1, <4>2
    <3>2. CASE ResolveComment(w)
      <4> PICK row : row = [k EXCEPT !.blocker.status = "resolved", !.blocker.resolver = Person[w]]
        OBVIOUS
      <4>1. packets' = [packets EXCEPT ![p] = row]
        BY <2>1, <3>2 DEF ResolveComment, PacketInv
      <4>2. row.submitter = k.submitter /\ row.votes = k.votes
        BY <2>1 DEF PacketRow
      <4> QED BY <4>1, <4>2
    <3>3. CASE UpdateCondition(w)
      <4> PICK row : row = [k EXCEPT !.condition = req[w].to]
        OBVIOUS
      <4>1. packets' = [packets EXCEPT ![p] = row]
        BY <2>1, <3>3 DEF UpdateCondition, PacketInv
      <4>2. row.submitter = k.submitter /\ row.votes = k.votes
        BY <2>1 DEF PacketRow
      <4> QED BY <4>1, <4>2
    <3> QED BY <1>1, <3>1, <3>2, <3>3
  <2>3. DOMAIN packets' = DOMAIN packets /\ \A q \in DOMAIN packets : SameRecord(q)
    BY <2>1, <2>2 DEF PacketInv, SameRecord
  <2>4. packets' \in Seq(PacketRow)
    BY <1>1, PacketWritesHold DEF PacketInv
  <2>5. Len(packets') = Len(packets)
    BY <2>3, <2>4 DEF PacketInv
  <2> QED BY <2>3, <2>5
<1> QED BY <1>1 DEF PacketStep, OpenPacket, OpenSubmit, OpenResolve, CreateExport, OpenComment, OpenDecision,
                    OpenCondition, RefreshPacket, icVars

\* Whoever submits writes their name, or leaves the one that is there.
LEMMA SubmitEffect ==
  ASSUME PacketInv, NEW w \in Windows, Submit(w)
  PROVE  /\ req[w].on \in DOMAIN packets /\ DOMAIN packets' = DOMAIN packets
         /\ packets'[req[w].on].submitter \in {Person[w], packets[req[w].on].submitter}
         /\ packets'[req[w].on].votes = packets[req[w].on].votes
         /\ \A q \in DOMAIN packets \ {req[w].on} : SameRecord(q)
<1>0. PICK p, k, s, u, row :
      /\ p = req[w].on /\ k = packets[p]
      /\ s = Written("submitted", req[w].saw.status, k.status)
      /\ u = Written(Person[w], req[w].saw.submitter, k.submitter)
      /\ row = [k EXCEPT !.status = s, !.submitter = u, !.filed = @ \cup {Person[w]}]
  OBVIOUS
<1>1. p \in DOMAIN packets /\ k \in PacketRow
  <2>1. req[w].op = "submit" /\ PacketHeld(w) /\ packets \in Seq(PacketRow)
    BY DEF Submit, Holds, PacketInv
  <2>2. p \in DOMAIN packets
    BY <1>0, <2>1 DEF PacketHeld
  <2> QED BY <1>0, <2>1, <2>2
<1>2. packets' = [packets EXCEPT ![p] = row]
  BY <1>0, <1>1 DEF Submit, PacketInv, PacketRow
<1>3. row.submitter = u /\ row.votes = k.votes /\ u \in {Person[w], k.submitter}
  BY <1>0, <1>1 DEF PacketRow, Written
<1>4. DOMAIN packets' = DOMAIN packets /\ packets'[p] = row /\ \A q \in DOMAIN packets \ {p} : packets'[q] = packets[q]
  BY <1>1, <1>2 DEF PacketInv
<1> QED BY <1>0, <1>1, <1>3, <1>4 DEF SameRecord

LEMMA DecideEffect ==
  ASSUME PacketInv, NEW w \in Windows, Decide(w)
  PROVE  LET vote == [what |-> req[w].to, by |-> Person[w]]
         IN  /\ req[w].on \in DOMAIN packets /\ DOMAIN packets' = DOMAIN packets /\ vote \in VoteRow
             /\ packets'[req[w].on].submitter = packets[req[w].on].submitter
             /\ packets'[req[w].on].votes = Append(packets[req[w].on].votes, vote)
             /\ \A q \in DOMAIN packets \ {req[w].on} : SameRecord(q)
<1>0. PICK p, k, vote, s, c, row :
      /\ p = req[w].on /\ k = packets[p] /\ vote = [what |-> req[w].to, by |-> Person[w]]
      /\ s = Written(StatusAfter[req[w].to], req[w].was, k.status)
      /\ c = IF req[w].to = "conditional" THEN "open" ELSE k.condition
      /\ row = [k EXCEPT !.votes = Append(@, vote), !.status = s, !.condition = c]
  OBVIOUS
<1>1. p \in DOMAIN packets /\ k \in PacketRow /\ req[w].to \in Decisions
  <2>1. req[w].op = "decide" /\ PacketHeld(w) /\ packets \in Seq(PacketRow)
    BY DEF Decide, Holds, PacketInv
  <2>2. p \in DOMAIN packets /\ req[w].to \in Decisions
    BY <1>0, <2>1 DEF PacketHeld
  <2> QED BY <1>0, <2>1, <2>2
<1>2. packets' = [packets EXCEPT ![p] = row]
  BY <1>0, <1>1 DEF Decide, PacketInv
<1>3. row.submitter = k.submitter /\ row.votes = Append(k.votes, vote)
  BY <1>0, <1>1 DEF PacketRow
<1>4. vote \in VoteRow
  BY <1>0, <1>1, DataRoomAssumption DEF VoteRow
<1>5. DOMAIN packets' = DOMAIN packets /\ packets'[p] = row /\ \A q \in DOMAIN packets \ {p} : packets'[q] = packets[q]
  BY <1>1, <1>2 DEF PacketInv
<1> QED BY <1>0, <1>1, <1>3, <1>4, <1>5 DEF SameRecord

LEMMA FinalVoteAdded ==
  ASSUME NEW k \in PacketRow, NEW row, NEW vote \in VoteRow, row.votes = Append(k.votes, vote)
  PROVE  FinalVotes(row) = FinalVotes(k) \cup (IF vote.what = "defer" THEN {} ELSE {vote})
<1> PICK n : n = Len(k.votes)
  OBVIOUS
<1>1. /\ n \in Nat /\ DOMAIN k.votes = 1..n /\ DOMAIN row.votes = 1..(n + 1)
      /\ row.votes[n + 1] = vote /\ \A m \in 1..n : row.votes[m] = k.votes[m]
  <2>1. k.votes \in Seq(VoteRow)
    BY DEF PacketRow
  <2> QED BY <2>1, Appended
<1> QED BY <1>1 DEF FinalVotes

PacketsBounded == Len(packets) <= MaxPackets

LEMMA InitBounded == Init => PacketsBounded
<1> SUFFICES ASSUME Init PROVE PacketsBounded
  OBVIOUS
<1>1. packets = <<>>
  BY DEF Init, ICInit
<1>2. Len(packets) = 0
  BY <1>1
<1> QED BY <1>2, CommitteeAssumption DEF PacketsBounded

LEMMA StepBounded ==
  ASSUME PacketInv, PacketsBounded, PacketInv', RequestsOK, [Next]_vars
  PROVE  PacketsBounded'
<1>1. Len(packets) \in Nat /\ packets \in Seq(PacketRow) /\ packets' \in Seq(PacketRow)
  BY DEF PacketInv
<1>2. CASE DOMAIN packets' = DOMAIN packets
  <2>1. Len(packets') = Len(packets)
    BY <1>1, <1>2
  <2> QED BY <2>1 DEF PacketsBounded
<1>3. ASSUME NEW w \in Windows, CreatePacket(w) PROVE PacketsBounded'
  <2> PICK k : k = req[w].packet
    OBVIOUS
  <2>1. packets' = Append(packets, k) /\ Len(packets) < MaxPackets /\ k \in PacketRow
    BY <1>3 DEF CreatePacket, Holds, PacketInv, PacketHeld
  <2> QED BY <1>1, <2>1, Appended, CommitteeAssumption DEF PacketsBounded
<1> QED BY <1>2, <1>3, StepKinds, RecordEffects, SubmitEffect, DecideEffect DEF vars, icVars

-----------------------------------------------------------------------------
(* The record of the committee.                                            *)

Submitters == [p \in 1..MaxPackets |-> IF p \in DOMAIN packets THEN packets[p].submitter ELSE Nobody]
Outcomes == [p \in 1..MaxPackets |-> IF p \in DOMAIN packets THEN FinalVotes(packets[p]) ELSE {}]
LookOf(w) == [by |-> w, on |-> req[w].on, to |-> IF Holds(w, "decide") THEN "decide" ELSE "submit"]
Looks == {LookOf(w) : w \in {v \in Windows : req[v].op \in LookOps}}

LEMMA Substituted ==
  /\ Record!Init <=> /\ Submitters = [p \in 1..MaxPackets |-> Nobody]
                     /\ Outcomes = [p \in 1..MaxPackets |-> {}] /\ Looks = {}
  /\ UNCHANGED Record!vars <=> UNCHANGED <<Submitters, Outcomes, Looks>>
  /\ \A w, p, to :
       Record!Look(w, p, to) <=>
         /\ CASE to = "submit" -> Submitters[p] = Nobody
              [] to = "decide" -> Submitters[p] \notin {Nobody, Person[w]} /\ Outcomes[p] = {}
         /\ Looks' = Looks \cup {[by |-> w, on |-> p, to |-> to]}
         /\ UNCHANGED <<Submitters, Outcomes>>
  /\ \A w, p, to :
       Record!Forget(w, p, to) <=>
         Looks' = Looks \ {[by |-> w, on |-> p, to |-> to]} /\ UNCHANGED <<Submitters, Outcomes>>
  /\ \A w, p :
       Record!Submit(w, p) <=>
         /\ [by |-> w, on |-> p, to |-> "submit"] \in Looks
         /\ Submitters' = [Submitters EXCEPT ![p] = Person[w]]
         /\ Looks' = Looks \ {[by |-> w, on |-> p, to |-> "submit"]}
         /\ UNCHANGED Outcomes
  /\ \A w, p, verdict :
       Record!Decide(w, p, verdict) <=>
         /\ [by |-> w, on |-> p, to |-> "decide"] \in Looks
         /\ Outcomes' = [Outcomes EXCEPT ![p] = @ \cup {[by |-> Person[w], what |-> verdict]}]
         /\ Looks' = Looks \ {[by |-> w, on |-> p, to |-> "decide"]}
         /\ UNCHANGED Submitters
BY DEF Record!Init, Record!vars, Record!Look, Record!Forget, Record!Submit, Record!Decide, Record!Looked,
       Submitters, Outcomes, Looks, LookOf, LookOps

\* One request looks at one packet, so that only its own look comes or goes.
LEMMA LooksMove ==
  ASSUME NEW w \in Windows, \A v \in Windows \ {w} : req'[v] = req[v]
  PROVE  /\ req[w].op \in LookOps => LookOf(w) \in Looks
         /\ req[w].op \notin LookOps /\ req'[w].op \notin LookOps => Looks' = Looks
         /\ req[w].op \notin LookOps /\ req'[w].op \in LookOps => Looks' = Looks \cup {LookOf(w)'}
         /\ req[w].op \in LookOps /\ req'[w].op \notin LookOps => Looks' = Looks \ {LookOf(w)}
         /\ req[w].op \in LookOps /\ req'[w].op \in LookOps /\ LookOf(w)' = LookOf(w) => Looks' = Looks
<1>1. \A v \in Windows \ {w} : req'[v].op = req[v].op /\ LookOf(v)' = LookOf(v)
  BY DEF LookOf, Holds
<1>2. \A v \in Windows : LookOf(v).by = v /\ LookOf(v)'.by = v
  BY DEF LookOf
<1>3. \A x : x \in Looks <=> \E v \in Windows : req[v].op \in LookOps /\ x = LookOf(v)
  BY DEF Looks
<1>4. \A x : x \in Looks' <=> \E v \in Windows : req'[v].op \in LookOps /\ x = LookOf(v)'
  BY DEF Looks
<1>5. \A v \in Windows \ {w} : LookOf(v) # LookOf(w)
  BY <1>2
<1> HIDE DEF LookOf, Looks
<1>6. req[w].op \notin LookOps /\ req'[w].op \notin LookOps => Looks' = Looks
  BY <1>1, <1>3, <1>4
<1>7. req[w].op \notin LookOps /\ req'[w].op \in LookOps => Looks' = Looks \cup {LookOf(w)'}
  BY <1>1, <1>3, <1>4
<1>8. req[w].op \in LookOps /\ req'[w].op \notin LookOps => Looks' = Looks \ {LookOf(w)}
  BY <1>1, <1>3, <1>4, <1>5
<1>9. req[w].op \in LookOps /\ req'[w].op \in LookOps /\ LookOf(w)' = LookOf(w) => Looks' = Looks
  BY <1>1, <1>3, <1>4
<1> QED BY <1>3, <1>6, <1>7, <1>8, <1>9

LEMMA SameRecords ==
  ASSUME DOMAIN packets' = DOMAIN packets, NEW S,
         \A p \in DOMAIN packets \ S : SameRecord(p)
  PROVE  \A p \in (1..MaxPackets) \ S : Submitters'[p] = Submitters[p] /\ Outcomes'[p] = Outcomes[p]
<1> TAKE p \in (1..MaxPackets) \ S
<1>1. CASE p \in DOMAIN packets
  <2> PICK k, row : k = packets[p] /\ row = packets'[p]
    OBVIOUS
  <2>1. FinalVotes(row) = FinalVotes(k) /\ row.submitter = k.submitter
    BY <1>1 DEF SameRecord, FinalVotes
  <2> QED BY <1>1, <2>1 DEF Submitters, Outcomes
<1>2. CASE p \notin DOMAIN packets
  BY <1>2 DEF Submitters, Outcomes
<1> QED BY <1>1, <1>2

LEMMA SameTables ==
  ASSUME \A p \in 1..MaxPackets : Submitters'[p] = Submitters[p] /\ Outcomes'[p] = Outcomes[p]
  PROVE  UNCHANGED <<Submitters, Outcomes>>
BY DEF Submitters, Outcomes

\* The packet a request has looked at is there.
LEMMA LookedAt ==
  ASSUME PacketInv, PacketsBounded, NEW w \in Windows, req[w].op \in LookOps
  PROVE  req[w].on \in DOMAIN packets /\ req[w].on \in 1..MaxPackets
<1>1. req[w].on \in DOMAIN packets
  BY DEF PacketInv, PacketHeld, LookOps
<1>2. DOMAIN packets = 1..Len(packets) /\ Len(packets) \in Nat
  BY DEF PacketInv
<1> QED BY <1>1, <1>2, CommitteeAssumption DEF PacketsBounded

\* A request that has looked ends without a trace, or does something else.
LEMMA RecordLeft ==
  ASSUME PacketInv, PacketsBounded, NEW w \in Windows, NEW ops, Moves(w, ops), ops \cap LookOps = {},
         UNCHANGED <<Submitters, Outcomes>>
  PROVE  Record!Next \/ UNCHANGED Record!vars
<1>1. req'[w].op \notin LookOps /\ \A v \in Windows \ {w} : req'[v] = req[v]
  BY DEF Moves, LookOps
<1>2. CASE req[w].op \notin LookOps
  BY <1>1, <1>2, LooksMove, Substituted
<1>3. CASE req[w].op \in LookOps
  <2> PICK p, to : p = req[w].on /\ to = IF Holds(w, "decide") THEN "decide" ELSE "submit"
    OBVIOUS
  <2>1. LookOf(w) = [by |-> w, on |-> p, to |-> to]
    BY DEF LookOf
  <2>2. Looks' = Looks \ {[by |-> w, on |-> p, to |-> to]}
    BY <1>1, <1>3, <2>1, LooksMove
  <2>3. Record!Forget(w, p, to) /\ p \in 1..MaxPackets /\ to \in {"submit", "decide"}
    BY <1>3, <2>2, LookedAt, Substituted
  <2> QED BY <2>3 DEF Record!Next
<1> QED BY <1>2, <1>3

LEMMA SubmitRecord ==
  ASSUME PacketsBounded, PacketInv, RequestsOK, NEW w \in Windows, Submit(w)
  PROVE  Record!Next \/ UNCHANGED Record!vars
<1> PICK p, u : p = req[w].on /\ u = Person[w]
  OBVIOUS
<1>1. /\ p \in DOMAIN packets /\ DOMAIN packets' = DOMAIN packets
      /\ packets'[p].submitter \in {u, packets[p].submitter} /\ packets'[p].votes = packets[p].votes
      /\ \A q \in DOMAIN packets \ {p} : SameRecord(q)
  BY SubmitEffect
<1>2. /\ req[w].op = "submit" /\ Moves(w, {}) /\ req[w].op \in LookOps
      /\ req'[w].op \notin LookOps /\ \A v \in Windows \ {w} : req'[v] = req[v]
  BY Ended DEF Submit, Holds, Moves, LookOps
<1>3. p \in 1..MaxPackets
  BY <1>2, LookedAt
<1>4. \A q \in (1..MaxPackets) \ {p} : Submitters'[q] = Submitters[q] /\ Outcomes'[q] = Outcomes[q]
  BY <1>1, SameRecords
<1>5. Outcomes'[p] = Outcomes[p]
  <2> PICK k, row : k = packets[p] /\ row = packets'[p]
    OBVIOUS
  <2>1. FinalVotes(row) = FinalVotes(k)
    BY <1>1 DEF FinalVotes
  <2> QED BY <1>1, <1>3, <2>1 DEF Outcomes
<1>6. Submitters'[p] \in {u, Submitters[p]}
  BY <1>1, <1>3 DEF Submitters
<1>7. CASE Submitters'[p] = Submitters[p]
  <2>1. UNCHANGED <<Submitters, Outcomes>>
    BY <1>4, <1>5, <1>7, SameTables
  <2> QED BY <1>2, <2>1, RecordLeft
<1>8. CASE Submitters'[p] = u
  <2>1. Submitters' = [Submitters EXCEPT ![p] = u] /\ Outcomes' = Outcomes
    BY <1>3, <1>4, <1>5, <1>8 DEF Submitters, Outcomes
  <2>2. LookOf(w) = [by |-> w, on |-> p, to |-> "submit"]
    BY <1>2 DEF LookOf, Holds
  <2>3. LookOf(w) \in Looks /\ Looks' = Looks \ {LookOf(w)}
    BY <1>2, LooksMove
  <2>4. Record!Submit(w, p)
    BY <2>1, <2>2, <2>3, Substituted
  <2> QED BY <1>3, <2>4 DEF Record!Next
<1> QED BY <1>6, <1>7, <1>8

LEMMA DecideRecord ==
  ASSUME PacketsBounded, PacketInv, RequestsOK, NEW w \in Windows, Decide(w)
  PROVE  Record!Next \/ UNCHANGED Record!vars
<1>0. PICK p, u, to, vote : /\ p = req[w].on /\ u = Person[w] /\ to = req[w].to
                            /\ vote = [what |-> to, by |-> u]
  OBVIOUS
<1>1. /\ p \in DOMAIN packets /\ DOMAIN packets' = DOMAIN packets /\ vote \in VoteRow
      /\ packets'[p].submitter = packets[p].submitter
      /\ packets'[p].votes = Append(packets[p].votes, vote)
      /\ \A q \in DOMAIN packets \ {p} : SameRecord(q)
  BY <1>0, DecideEffect
<1>2. /\ req[w].op = "decide" /\ Moves(w, {}) /\ req[w].op \in LookOps /\ to \in Decisions
      /\ req'[w].op \notin LookOps /\ \A v \in Windows \ {w} : req'[v] = req[v]
  BY <1>0, Ended DEF Decide, Holds, Moves, LookOps, PacketInv, PacketHeld
<1>3. p \in 1..MaxPackets /\ packets[p] \in PacketRow
  BY <1>0, <1>1, <1>2, LookedAt DEF PacketInv
<1>4. \A q \in (1..MaxPackets) \ {p} : Submitters'[q] = Submitters[q] /\ Outcomes'[q] = Outcomes[q]
  BY <1>1, SameRecords
<1>5. Submitters'[p] = Submitters[p]
  BY <1>1, <1>3 DEF Submitters
<1>6. Outcomes'[p] = Outcomes[p] \cup (IF to = "defer" THEN {} ELSE {vote})
  <2>0. PICK k, row : k = packets[p] /\ row = packets'[p]
    OBVIOUS
  <2>1. k \in PacketRow /\ vote \in VoteRow /\ row.votes = Append(k.votes, vote) /\ vote.what = to
    BY <1>0, <1>1, <1>3, <2>0
  <2>2. FinalVotes(row) = FinalVotes(k) \cup (IF vote.what = "defer" THEN {} ELSE {vote})
    BY <2>1, FinalVoteAdded
  <2>3. Outcomes[p] = FinalVotes(k) /\ Outcomes'[p] = FinalVotes(row)
    BY <1>1, <1>3, <2>0 DEF Outcomes
  <2> QED BY <2>1, <2>2, <2>3
<1>7. CASE to = "defer"
  <2>1. Outcomes'[p] = Outcomes[p]
    BY <1>6, <1>7
  <2>2. UNCHANGED <<Submitters, Outcomes>>
    BY <1>4, <1>5, <2>1, SameTables
  <2> QED BY <1>2, <2>2, RecordLeft
<1>8. CASE to # "defer"
  <2>1. Submitters' = Submitters
    BY <1>4, <1>5 DEF Submitters
  <2>2. Outcomes' = [Outcomes EXCEPT ![p] = @ \cup {vote}]
    <3>1. Outcomes'[p] = Outcomes[p] \cup {vote}
      BY <1>6, <1>8
    <3>2. /\ Outcomes = [q \in 1..MaxPackets |-> Outcomes[q]]
          /\ Outcomes' = [q \in 1..MaxPackets |-> Outcomes'[q]]
      BY DEF Outcomes
    <3> QED BY <1>3, <1>4, <3>1, <3>2
  <2>3. [by |-> u, what |-> to] = vote
    BY <1>0
  <2>4. LookOf(w) = [by |-> w, on |-> p, to |-> "decide"]
    BY <1>0, <1>2 DEF LookOf, Holds
  <2>5. LookOf(w) \in Looks /\ Looks' = Looks \ {LookOf(w)}
    BY <1>2, LooksMove
  <2>6. Record!Decide(w, p, to)
    BY <1>0, <2>1, <2>2, <2>3, <2>4, <2>5, Substituted
  <2> QED BY <1>2, <1>3, <1>8, <2>6 DEF Record!Next
<1> QED BY <1>7, <1>8

\* Whoever looks at a packet finds it as the promise asks.
LEMMA LookRecord ==
  ASSUME PacketsBounded, PacketInv, RequestsOK, NEW w \in Windows, NEW p \in DOMAIN packets,
         OpenSubmit(w, p) \/ \E what \in Decisions : OpenDecision(w, p, what)
  PROVE  Record!Next
<1>1. p \in 1..MaxPackets
  <2>1. DOMAIN packets = 1..Len(packets) /\ Len(packets) \in Nat
    BY DEF PacketInv
  <2> QED BY <2>1, CommitteeAssumption DEF PacketsBounded
<1>2. Submitters[p] = packets[p].submitter /\ Outcomes[p] = FinalVotes(packets[p])
  BY <1>1 DEF Submitters, Outcomes
<1>3. packets' = packets
  BY DEF OpenSubmit, OpenDecision, icVars
<1>4. UNCHANGED <<Submitters, Outcomes>>
  BY <1>3 DEF Submitters, Outcomes
<1>5. CASE OpenSubmit(w, p)
  <2> PICK r : r = [op |-> "ready", on |-> p]
    OBVIOUS
  <2>1. MayBegin(w, "submit") /\ Hold(w, r) /\ packets[p].status = "draft"
    BY <1>5 DEF OpenSubmit
  <2>2. req[w].op = "none" /\ req'[w] = r /\ \A v \in Windows \ {w} : req'[v] = req[v]
    BY <2>1, Began, Held
  <2>3. req[w].op \notin LookOps /\ req'[w].op \in LookOps
    BY <2>2 DEF LookOps
  <2>4. LookOf(w)' = [by |-> w, on |-> p, to |-> "submit"]
    BY <2>2 DEF LookOf, Holds
  <2>5. Looks' = Looks \cup {[by |-> w, on |-> p, to |-> "submit"]}
    BY <2>2, <2>3, <2>4, LooksMove
  <2>6. packets[p].submitter = Nobody
    BY <2>1 DEF PacketInv, SubmittedOK
  <2>7. Record!Look(w, p, "submit")
    BY <1>2, <1>4, <2>5, <2>6, Substituted
  <2> QED BY <1>1, <2>7 DEF Record!Next
<1>6. ASSUME NEW what \in Decisions, OpenDecision(w, p, what) PROVE Record!Next
  <2> PICK r : r = [op |-> "decide", on |-> p, to |-> what, saw |-> deal, was |-> packets[p].status]
    OBVIOUS
  <2>1. /\ MayBegin(w, "decide") /\ Hold(w, r) /\ FinalVotes(packets[p]) = {}
        /\ packets[p].submitter # Person[w] /\ packets[p].status # "draft"
    BY <1>6 DEF OpenDecision
  <2>2. req[w].op = "none" /\ req'[w] = r /\ \A v \in Windows \ {w} : req'[v] = req[v]
    BY <2>1, Began, Held
  <2>3. req[w].op \notin LookOps /\ req'[w].op \in LookOps
    BY <2>2 DEF LookOps
  <2>4. LookOf(w)' = [by |-> w, on |-> p, to |-> "decide"]
    BY <2>2 DEF LookOf, Holds
  <2>5. Looks' = Looks \cup {[by |-> w, on |-> p, to |-> "decide"]}
    BY <2>2, <2>3, <2>4, LooksMove
  <2>6. packets[p].submitter # Nobody
    BY <2>1 DEF PacketInv, SubmittedOK
  <2>7. Record!Look(w, p, "decide")
    BY <1>2, <1>4, <2>1, <2>5, <2>6, Substituted
  <2> QED BY <1>1, <2>7 DEF Record!Next
<1> QED BY <1>5, <1>6

\* Reading the packet again is no new look.
LEMMA RefreshRecord ==
  ASSUME RequestsOK, NEW w \in Windows, RefreshPacket(w)
  PROVE  UNCHANGED Record!vars
<1> PICK p, r : p = req[w].on /\ r = [op |-> "submit", on |-> p, saw |-> packets[p]]
  OBVIOUS
<1>1. req[w].op = "ready" /\ req'[w] = r /\ packets' = packets /\ \A v \in Windows \ {w} : req'[v] = req[v]
  BY Held DEF RefreshPacket, Holds, icVars
<1>2. req'[w].op = "submit" /\ req'[w].on = p
  BY <1>1
<1>3. LookOf(w)' = LookOf(w) /\ req[w].op \in LookOps /\ req'[w].op \in LookOps
  BY <1>1, <1>2 DEF LookOf, Holds, LookOps
<1>4. Looks' = Looks
  BY <1>1, <1>3, LooksMove
<1>5. UNCHANGED <<Submitters, Outcomes>>
  BY <1>1 DEF Submitters, Outcomes
<1> QED BY <1>4, <1>5, Substituted

LEMMA RecordInit == Init => Record!Init
<1> SUFFICES ASSUME Init PROVE Record!Init
  OBVIOUS
<1>1. packets = <<>> /\ \A w \in Windows : req[w].op = "none"
  BY DEF Init, RoomInit, ICInit, Idle
<1>2. Looks = {}
  BY <1>1 DEF Looks, LookOps
<1>3. Submitters = [p \in 1..MaxPackets |-> Nobody] /\ Outcomes = [p \in 1..MaxPackets |-> {}]
  BY <1>1 DEF Submitters, Outcomes
<1> QED BY <1>2, <1>3, Substituted

LEMMA RecordStep ==
  ASSUME PacketsBounded, PacketInv, RequestsOK, [Next]_vars
  PROVE  Record!Next \/ UNCHANGED Record!vars
<1> DEFINE Goal == Record!Next \/ UNCHANGED Record!vars
<1>1. ASSUME DOMAIN packets' = DOMAIN packets, \A p \in DOMAIN packets : SameRecord(p)
      PROVE  UNCHANGED <<Submitters, Outcomes>>
  <2>1. \A p \in (1..MaxPackets) \ {} : Submitters'[p] = Submitters[p] /\ Outcomes'[p] = Outcomes[p]
    BY <1>1, SameRecords
  <2> QED BY <2>1, SameTables
<1>2. CASE UNCHANGED vars
  <2>1. UNCHANGED <<req, packets>>
    BY <1>2 DEF vars, icVars
  <2>2. UNCHANGED <<Submitters, Outcomes, Looks>>
    BY <2>1 DEF Submitters, Outcomes, Looks, LookOf, Holds
  <2> QED BY <2>2, Substituted
<1>3. ASSUME NEW w \in Windows, NEW ops, Moves(w, ops), ops \cap LookOps = {}, packets' = packets PROVE Goal
  <2>1. UNCHANGED <<Submitters, Outcomes>>
    BY <1>3 DEF Submitters, Outcomes
  <2> QED BY <1>3, <2>1, RecordLeft
<1>4. ASSUME NEW w \in Windows, CreatePacket(w) PROVE UNCHANGED <<Submitters, Outcomes>>
  <2> PICK k, n : k = req[w].packet /\ n = Len(packets)
    OBVIOUS
  <2>1. packets' = Append(packets, k) /\ k \in PacketRow /\ k.submitter = Nobody /\ k.votes = <<>>
    BY <1>4 DEF CreatePacket, Holds, PacketInv, PacketHeld
  <2>2. /\ n \in Nat /\ DOMAIN packets = 1..n /\ DOMAIN packets' = 1..(n + 1)
        /\ packets'[n + 1] = k /\ \A p \in 1..n : packets'[p] = packets[p]
    BY <2>1, Appended DEF PacketInv
  <2>3. FinalVotes(k) = {}
    BY <2>1 DEF FinalVotes
  <2>4. ASSUME NEW p \in 1..MaxPackets PROVE Submitters'[p] = Submitters[p] /\ Outcomes'[p] = Outcomes[p]
    <3>1. CASE p \in 1..n
      BY <2>2, <3>1 DEF Submitters, Outcomes
    <3>2. CASE p = n + 1
      <4>1. p \notin DOMAIN packets /\ p \in DOMAIN packets'
        BY <2>2, <3>2
      <4> QED BY <2>1, <2>2, <2>3, <3>2, <4>1 DEF Submitters, Outcomes
    <3>3. CASE p \notin 1..(n + 1)
      <4>1. p \notin DOMAIN packets /\ p \notin DOMAIN packets'
        BY <2>2, <3>3
      <4> QED BY <4>1 DEF Submitters, Outcomes
    <3> QED BY <2>2, <3>1, <3>2, <3>3
  <2> QED BY <2>4, SameTables
<1>5. ASSUME NEW w \in Windows, PacketStep(w) PROVE Goal
  <2>1. CASE Submit(w) \/ Decide(w)
    BY <2>1, SubmitRecord, DecideRecord
  <2>2. CASE Moves(w, PacketOps \ LookOps) /\ ~ Submit(w) /\ ~ Decide(w)
    <3>1. UNCHANGED <<Submitters, Outcomes>>
      <4>1. CASE packets' = packets
        BY <4>1 DEF Submitters, Outcomes
      <4> QED BY <1>1, <1>4, <1>5, <2>2, <4>1, RecordEffects
    <3>2. (PacketOps \ LookOps) \cap LookOps = {}
      OBVIOUS
    <3> QED BY <2>2, <3>1, <3>2, RecordLeft
  <2> QED BY <1>5, <2>1, <2>2, DecisionSteps, LookRecord, RefreshRecord
<1> QED BY <1>2, <1>3, <1>5, StepKinds DEF RoomOps, DealRowOps, AskOps, LookOps, icVars

-----------------------------------------------------------------------------
(* The theorems.                                                           *)

\* What holds however requests overlap.
CoreInv == RequestsOK /\ RedactInv /\ ClaimInv /\ VerdictInv /\ PacketInv

LEMMA CoreInit == Init => CoreInv
<1>1. Init => RequestsOK
  BY DEF Init, RoomInit, RequestsOK
<1> QED BY <1>1, InitRedact, InitClaim, InitVerdict, InitPacket DEF CoreInv

LEMMA CoreStep == CoreInv /\ [Next]_vars => CoreInv'
<1> SUFFICES ASSUME CoreInv, [Next]_vars PROVE CoreInv'
  OBVIOUS
<1>1. RequestsOK'
  BY StepKinds DEF CoreInv, RequestsOK, Moves, vars
<1> QED BY <1>1, StepRedact, StepClaim, StepVerdict, StepPacket DEF CoreInv

LEMMA CoreHolds == Spec => []CoreInv
BY CoreInit, CoreStep, PTL DEF Spec

\* An approved redaction has minted exactly one version, any other none
\* (decide_redaction with its row lock, and the crash between the decision and
\* the link).
THEOREM MintedOnceHolds == Spec => []MintedOnce
<1>1. ASSUME CoreInv PROVE MintedOnce
  <2> SUFFICES ASSUME NEW p \in Proposals
               PROVE  /\ Cardinality(VersionsOf(p)) = IF proposals[p].status = "approved" THEN 1 ELSE 0
                      /\ proposals[p].link # 0 => proposals[p].link \in VersionsOf(p)
    BY DEF MintedOnce
  <2>1. RedactionOK(p)
    BY <1>1 DEF CoreInv, RedactInv
  <2>2. \A n : Cardinality({n}) = 1
    BY FS_Singleton
  <2> QED BY <2>1, <2>2, FS_EmptySet DEF RedactionOK
<1> QED BY <1>1, CoreHolds, PTL

\* A packet beyond its draft quotes an approval of the case and, if it quotes
\* a claim, an approved revision (_require_ready, at submission only).
THEOREM SourcesAreReviewed == Spec => []RestsOnReviewedSources
<1>1. ASSUME CoreInv PROVE RestsOnReviewedSources
  <2> SUFFICES ASSUME NEW p \in DOMAIN packets, packets[p].status # "draft"
               PROVE  /\ packets[p].submitter # Nobody /\ packets[p].case # 0
                      /\ verdicts[packets[p].case].what = "approved"
                      /\ packets[p].claim # 0 => claims[packets[p].claim].status = "approved"
    BY DEF RestsOnReviewedSources
  <2>1. SubmittedOK(packets[p]) /\ Quotes(packets[p])
    BY <1>1 DEF CoreInv, PacketInv
  <2>2. Undecided.what # "approved"
    BY DEF Undecided
  <2> QED BY <2>1, <2>2 DEF SubmittedOK, Quotes
<1> QED BY <1>1, CoreHolds, PTL

\* An export verifies for good while the deal is linked to the workspace of
\* its cases (verify_export).
THEOREM ExportsVerify == Spec => []ExportsKeepVerifying
<1>1. ASSUME CoreInv PROVE ExportsKeepVerifying
  <2> SUFFICES ASSUME deal.own, NEW e \in exports
               PROVE  VerifyExport(e) /\ packets[e.packet].status # "draft"
    BY DEF ExportsKeepVerifying
  <2> PICK k : k = packets[e.packet]
    OBVIOUS
  <2>1. /\ e.packet \in DOMAIN packets /\ k.status # "draft"
        /\ e.content = Content(k) /\ Quotes(k)
    BY <1>1 DEF CoreInv, PacketInv
  <2>2. 0 \notin DOMAIN verdicts
    BY <1>1 DEF CoreInv, VerdictInv
  <2>3. k.claim # 0 => k.row.doc \in DOMAIN docs
    BY <1>1, <2>1 DEF CoreInv, ClaimInv, Quotes
  <2>4. BindingsResolve(k)
    BY <2>1, <2>2, <2>3 DEF Quotes, BindingsResolve
  <2> QED BY <2>1, <2>4 DEF VerifyExport
<1> QED BY <1>1, CoreHolds, PTL

\* Two pairs of eyes, whatever overlaps: the row a redaction or a claim is
\* decided on, the response a review names, the submissions of a packet.
THEOREM FourEyesHold == Spec => []FourEyes
<1>1. CoreInv /\ AskInv /\ [Next]_vars => AskInv'
  BY StepAsk DEF CoreInv
<1>2. ASSUME CoreInv, AskInv PROVE FourEyes
  <2>1. RoomFourEyes
    BY <1>2 DEF CoreInv, RedactInv, RedactionOK, ClaimInv, RoomFourEyes
  <2>2. \A p \in DOMAIN packets :
          /\ packets[p].blocker.status = "resolved" => packets[p].blocker.resolver \in Humans \ {packets[p].blocker.by}
          /\ \A n \in DOMAIN packets[p].votes : packets[p].filed \ {packets[p].votes[n].by} # {}
    BY <1>2 DEF CoreInv, PacketInv, SubmittedOK
  <2> QED BY <1>2, <2>1, <2>2 DEF CoreInv, AskInv, VerdictInv, FourEyes
<1> QED BY <1>1, <1>2, InitAsk, CoreHolds, PTL DEF Spec

\* The records of the deal agree as far as overlapping requests let them: the
\* transitions while the version accounts for the audit trail, the forks of
\* the ledger between revisions that did not see each other, the tasks by
\* their completion time.
THEOREM HistoriesAlwaysAgree == Spec => []HistoriesAgree
<1> DEFINE Rows == DealInv /\ LedgerInv /\ TaskInv
<1>1. Init => Rows
  BY InitDeal, InitLedger, InitTask
<1>2. CoreInv /\ Rows /\ [Next]_vars => Rows'
  BY StepDeal, StepLedger, StepTask DEF CoreInv
<1>3. ASSUME Rows PROVE HistoriesAgree
  <2>1. ASSUME NEW n \in DOMAIN ledger
        PROVE  /\ ledger[n].version = IF n = 1 THEN 1 ELSE ledger[ledger[n].of].version + 1
               /\ ledger[n].status = "superseded" <=> \E m \in DOMAIN ledger : ledger[m].of = n
               /\ \A m \in 1..(n - 1) : ledger[m].of = ledger[n].of => ledger[n].seen < m
    BY <1>3 DEF LedgerInv, EntryOK
  <2>2. Accounted => /\ \A n \in 1..(Len(trail) - 1) : trail[n][2] = trail[n + 1][1]
                     /\ trail # <<>> => deal.stage \in {Last(trail)[2], "declined"}
    BY <1>3 DEF DealInv, Chained, Last
  <2> QED BY <1>3, <2>1, <2>2 DEF DealInv, TaskInv, HistoriesAgree
<1> QED BY <1>1, <1>2, <1>3, CoreHolds, PTL DEF Spec

\* A write over what its author has not seen shows for good in the audit
\* trail, and until one happens no edit replaces a version that its form did
\* not show and no declined deal is brought back.
THEOREM OverwritesAlwaysShow == Spec => OverwritesShow
<1>1. CoreInv /\ DealInv /\ [Next]_vars => DealInv' /\ Shown
  BY StepDeal DEF CoreInv
<1>2. Shown => [/\ ~ Accounted => ~ Accounted'
                /\ Accounted' =>
                     /\ \A w \in Windows : UpdateDeal(w) => form[w] = deal.version
                     /\ deal.stage = "declined" => deal'.stage = "declined"]_vars
  BY DEF Shown
<1> QED BY <1>1, <1>2, InitDeal, CoreHolds, PTL DEF Spec, OverwritesShow

\* A packet is submitted by who found it unsubmitted, and decided on for good
\* by who found it submitted by somebody else and undecided.
THEOREM CommitteeRefines == Spec => ImplementsCommitteeRecord
<1>1. CoreInv /\ CoreInv' /\ PacketsBounded /\ [Next]_vars => PacketsBounded'
  BY StepBounded DEF CoreInv
<1>2. CoreInv /\ PacketsBounded /\ [Next]_vars => [Record!Next]_(Record!vars)
  BY RecordStep DEF CoreInv
<1> QED BY <1>1, <1>2, InitBounded, RecordInit, CoreHolds, PTL DEF Spec, ImplementsCommitteeRecord, Record!Spec
=============================================================================
