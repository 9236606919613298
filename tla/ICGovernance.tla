---------------------------- MODULE ICGovernance ----------------------------
(***************************************************************************)
(* The investment committee (services/deal_workflow_service.py): packets   *)
(* that freeze an underwriting case, its latest decision and an approved   *)
(* claim; readiness and submission, comments, decisions, conditions to     *)
(* close, exports and their verification.                                  *)
(***************************************************************************)
EXTENDS DealWorkflow

CONSTANTS
  MaxPackets, MaxVerdicts, MaxVotes   \* bounds on packets, case decisions, votes

ASSUME CommitteeAssumption == MaxPackets \in Nat /\ MaxVerdicts \in Nat /\ MaxVotes \in Nat

VARIABLES
  verdicts,   \* the decisions on the underwriting case, [what, by], append-only
  packets,
  exports     \* what each export manifest is bound to

icVars == <<verdicts, packets, exports>>
vars == <<agenda, req, roomVars, dealVars, icVars>>

Undecided == [what |-> "none", by |-> Nobody]
NoClaim == Claim("none", Nobody, 0)
Blank == [status |-> "none", by |-> Nobody, resolver |-> Nobody]

LatestVerdict == IF verdicts = <<>> THEN Undecided ELSE Last(verdicts)
\* A packet names its sources (case decision n, claim revision c) and quotes
\* what they said.  submitter is a column; filed are the people whom audit
\* events name as having submitted it.
Packet(n, c) ==
  [status |-> "draft", submitter |-> Nobody, filed |-> {},
   case |-> n, verdict |-> IF n = 0 THEN Undecided ELSE verdicts[n],
   claim |-> c, row |-> IF c = 0 THEN NoClaim ELSE claims[c],
   blocker |-> Blank, votes |-> <<>>, condition |-> "none"]
Content(packet) == <<packet.case, packet.verdict, packet.claim, packet.row>>

\* When the deal enters IC review, its case is approved.
ICInit ==
  /\ verdicts = IF ~ agenda.begun THEN <<>>
                ELSE <<[what |-> "submitted", by |-> claims[1].by],
                       [what |-> "approved", by |-> claims[2].by]>>
  /\ packets = <<>> /\ exports = {}

-----------------------------------------------------------------------------
(* Decisions on the case. *)

CaseSubmitter ==
  LET S == {n \in DOMAIN verdicts : verdicts[n].what = "submitted"}
  IN IF S = {} THEN Nobody ELSE verdicts[Max(S)].by

AddCaseDecision(w, what) ==
  /\ MayBegin(w, "verdict") /\ Len(verdicts) < MaxVerdicts
  /\ what \in {"approved", "rejected"} => CaseSubmitter \notin {Nobody, Person[w]}
  /\ verdicts' = Append(verdicts, [what |-> what, by |-> Person[w]])
  /\ UNCHANGED <<req, roomVars, dealVars, packets, exports>>

-----------------------------------------------------------------------------
(* Assembly and submission. *)

LatestApproved(c) == c = Len(claims) /\ claims[c].status = "approved"

OpenPacket(w, c) ==
  /\ MayBegin(w, "assemble") /\ Len(packets) < MaxPackets
  /\ deal.own /\ (c # 0 => LatestApproved(c))
  /\ Hold(w, [op |-> "assemble", packet |-> Packet(Len(verdicts), c)])
  /\ UNCHANGED <<roomVars, dealVars, icVars>>

CreatePacket(w) ==
  /\ Holds(w, "assemble") /\ Len(packets) < MaxPackets
  /\ packets' = Append(packets, req[w].packet)
  /\ Done(w)
  /\ UNCHANGED <<roomVars, dealVars, verdicts, exports>>

SourcesCurrent(packet) ==
  /\ deal.own
  /\ packet.case = Len(verdicts) /\ LatestVerdict.what = "approved"
  /\ packet.claim # 0 => LatestApproved(packet.claim)

\* Mutant of Ready: the governed sources are not checked.
ReadyUngoverned(packet) ==
  /\ deal.stage = "ic_review" /\ lead
  /\ GatesPassed({Stage(n) : n \in 1..5})
  /\ ask.status \in {"none", "accepted"}
  /\ \A n \in DOMAIN ledger : ledger[n].status # "open"

Ready(packet) ==
  /\ packet.verdict.what = "approved" /\ SourcesCurrent(packet)
  /\ deal.stage = "ic_review" /\ lead
  /\ GatesPassed({Stage(n) : n \in 1..5})
  /\ ask.status \in {"none", "accepted"}
  /\ \A n \in DOMAIN ledger : ledger[n].status # "open"

OpenSubmit(w, p) ==
  /\ MayBegin(w, "submit")
  /\ packets[p].status = "draft" /\ Ready(packets[p])
  /\ Hold(w, [op |-> "ready", on |-> p])
  /\ UNCHANGED <<roomVars, dealVars, icVars>>

\* The readiness check commits its result and reads the packet again, the
\* status of which nobody looks at any more.
RefreshPacket(w) ==
  /\ Holds(w, "ready")
  /\ Hold(w, [op |-> "submit", on |-> req[w].on, saw |-> packets[req[w].on]])
  /\ UNCHANGED <<roomVars, dealVars, icVars>>

Submit(w) ==
  LET r == req[w] IN
  /\ Holds(w, "submit")
  /\ packets' = [packets EXCEPT
       ![r.on].status = Written("submitted", r.saw.status, @),
       ![r.on].submitter = Written(Person[w], r.saw.submitter, @),
       ![r.on].filed = @ \cup {Person[w]}]
  /\ Done(w)
  /\ UNCHANGED <<roomVars, dealVars, verdicts, exports>>

-----------------------------------------------------------------------------
(* Comments: the first one takes a submitted packet into review. *)

OpenComment(w, p, blocking) ==
  /\ MayBegin(w, "comment")
  /\ blocking => packets[p].blocker = Blank
  /\ Hold(w, [op |-> "comment", on |-> p, saw |-> packets[p].status, blocking |-> blocking])
  /\ UNCHANGED <<roomVars, dealVars, icVars>>

Commented(packet, r, w) ==
  [packet EXCEPT
     !.status = IF r.saw = "submitted" THEN "in_review" ELSE @,
     !.blocker = IF r.blocking THEN [Blank EXCEPT !.status = "open", !.by = Person[w]] ELSE @]

AddComment(w) ==
  LET r == req[w] IN
  /\ Holds(w, "comment") /\ (r.blocking => packets[r.on].blocker = Blank)
  /\ packets' = [packets EXCEPT ![r.on] = Commented(@, r, w)]
  /\ Done(w)
  /\ UNCHANGED <<roomVars, dealVars, verdicts, exports>>

OpenResolve(w, p) ==
  /\ MayBegin(w, "resolve")
  /\ packets[p].blocker.status = "open" /\ Person[w] \in Humans \ {packets[p].blocker.by}
  /\ Hold(w, [op |-> "resolve", on |-> p])
  /\ UNCHANGED <<roomVars, dealVars, icVars>>

ResolveComment(w) ==
  LET p == req[w].on IN
  /\ Holds(w, "resolve")
  /\ packets' = [packets EXCEPT ![p].blocker.status = "resolved", ![p].blocker.resolver = Person[w]]
  /\ Done(w)
  /\ UNCHANGED <<roomVars, dealVars, verdicts, exports>>

-----------------------------------------------------------------------------
(* Decisions, conditions to close and exports. *)

StatusAfter == [approve |-> "approved", conditional |-> "conditional",
                defer |-> "deferred", decline |-> "declined"]
Decisions == DOMAIN StatusAfter

FinalVotes(packet) == {packet.votes[n] : n \in {m \in DOMAIN packet.votes : packet.votes[m].what # "defer"}}

\* Mutant of OpenDecision: an earlier final decision is not looked for.
OpenDecisionByStatus(w, p, what) ==
  /\ MayBegin(w, "decide") /\ Len(packets[p].votes) < MaxVotes
  /\ packets[p].status \in {"submitted", "in_review", "deferred"} /\ packets[p].submitter # Person[w]
  /\ what \in {"approve", "conditional"} => packets[p].blocker.status # "open"
  /\ RoomToWrite
  /\ Hold(w, [op |-> "decide", on |-> p, to |-> what,
             saw |-> deal, was |-> packets[p].status])
  /\ UNCHANGED <<roomVars, dealVars, icVars>>

OpenDecision(w, p, what) ==
  /\ MayBegin(w, "decide") /\ Len(packets[p].votes) < MaxVotes
  /\ packets[p].status \in {"submitted", "in_review", "deferred"} /\ packets[p].submitter # Person[w]
  /\ what \in {"approve", "conditional"} => packets[p].blocker.status # "open"
  /\ FinalVotes(packets[p]) = {}
  /\ RoomToWrite
  /\ Hold(w, [op |-> "decide", on |-> p, to |-> what,
             saw |-> deal, was |-> packets[p].status])
  /\ UNCHANGED <<roomVars, dealVars, icVars>>

Declined(r) ==
  [deal EXCEPT !.stage = Written("declined", r.saw.stage, @),
               !.status = Written("declined", r.saw.status, @), !.version = r.saw.version + 1]

Decide(w) ==
  LET r == req[w] IN
  /\ Holds(w, "decide")
  /\ packets' = [packets EXCEPT
       ![r.on].votes = Append(@, [what |-> r.to, by |-> Person[w]]),
       ![r.on].status = Written(StatusAfter[r.to], r.was, @),
       ![r.on].condition = IF r.to = "conditional" THEN "open" ELSE @]
  /\ IF r.to = "decline" THEN deal' = Declined(r) /\ audited' = audited + 1
                         ELSE UNCHANGED <<deal, audited>>
  /\ Done(w)
  /\ UNCHANGED <<roomVars, form, gates, trail, lead, ask, ledger, tasks, verdicts, exports>>

OpenCondition(w, p, status) ==
  /\ MayBegin(w, "condition") /\ packets[p].condition = "open"
  /\ Hold(w, [op |-> "condition", on |-> p, to |-> status])
  /\ UNCHANGED <<roomVars, dealVars, icVars>>

UpdateCondition(w) ==
  /\ Holds(w, "condition")
  /\ packets' = [packets EXCEPT ![req[w].on].condition = req[w].to]
  /\ Done(w)
  /\ UNCHANGED <<roomVars, dealVars, verdicts, exports>>

CreateExport(w, p) ==
  /\ MayBegin(w, "export") /\ packets[p].status # "draft"
  /\ exports' = exports \cup {[packet |-> p, content |-> Content(packets[p])]}
  /\ UNCHANGED <<req, roomVars, dealVars, verdicts, packets>>

\* Every quotation of the packet is compared with the row it names.
BindingsResolve(packet) ==
  /\ packet.case \in DOMAIN verdicts => verdicts[packet.case] = packet.verdict
  /\ packet.claim # 0 =>
       /\ claims[packet.claim] = packet.row /\ packet.row.status = "approved"
       /\ packet.row.doc \in DOMAIN docs

VerifyExport(e) ==
  /\ e.content = Content(packets[e.packet])
  /\ deal.own /\ BindingsResolve(packets[e.packet])

ICStep(w) ==
  \/ \E what \in {"submitted", "approved", "rejected", "superseded"} : AddCaseDecision(w, what)
  \/ \E c \in {0} \cup DOMAIN claims : OpenPacket(w, c)
  \/ CreatePacket(w)
  \/ \E p \in DOMAIN packets :
       \/ OpenSubmit(w, p) \/ OpenResolve(w, p) \/ CreateExport(w, p)
       \/ \E blocking \in BOOLEAN : OpenComment(w, p, blocking)
       \/ \E what \in Decisions : OpenDecision(w, p, what)
       \/ \E status \in {"satisfied", "waived"} : OpenCondition(w, p, status)
  \/ RefreshPacket(w) \/ Submit(w) \/ AddComment(w) \/ ResolveComment(w) \/ Decide(w) \/ UpdateCondition(w)

-----------------------------------------------------------------------------

Init == RoomInit /\ DealInit /\ ICInit

Next == \E w \in Windows :
  \/ RoomStep(w) /\ UNCHANGED <<agenda, dealVars, icVars>>
  \/ DealStep(w) /\ UNCHANGED <<agenda, roomVars, icVars>>
  \/ ICStep(w) /\ UNCHANGED agenda
  \/ Abandon(w) /\ UNCHANGED <<agenda, dealVars, icVars>>

Spec == Init /\ [][Next]_vars

-----------------------------------------------------------------------------

\* Whoever submits a packet has found it unsubmitted; whoever decides on it for
\* good has found it submitted by somebody else, with no final decision on it:
\* comments, votes to defer and failed requests in between do not reopen it.
Record == INSTANCE CommitteeRecord WITH
  Packets <- 1..MaxPackets, Verdicts <- Decisions \ {"defer"},
  submitter <- [p \in 1..MaxPackets |-> IF p \in DOMAIN packets THEN packets[p].submitter ELSE Nobody],
  outcome <- [p \in 1..MaxPackets |-> IF p \in DOMAIN packets THEN FinalVotes(packets[p]) ELSE {}],
  looks <- {[by |-> w, on |-> req[w].on, to |-> IF Holds(w, "decide") THEN "decide" ELSE "submit"] :
              w \in {v \in Windows : req[v].op \in {"ready", "submit", "decide"}}}
ImplementsCommitteeRecord == Record!Spec

\* Two pairs of eyes, whatever overlaps: nobody takes a redaction, a claim, a
\* response, a blocking comment, a case or a packet through on their own.
\* An acceptance names a response of somebody else, and a vote on a packet comes
\* after a submission by somebody else, although the last response may be
\* the accepter's and the last submitter the voter.
FourEyes ==
  /\ RoomFourEyes
  /\ ask.status = "accepted" => ask.judged.by \in Humans \ {ask.judged.of}
  /\ \A p \in DOMAIN packets : LET b == packets[p].blocker IN
       b.status = "resolved" => b.resolver \in Humans \ {b.by}
  /\ \A p \in DOMAIN packets : \A n \in DOMAIN packets[p].votes :
       packets[p].filed \ {packets[p].votes[n].by} # {}
  /\ \A n \in DOMAIN verdicts : verdicts[n].what \in {"approved", "rejected"} =>
       \E m \in 1..(n - 1) : verdicts[m].what = "submitted" /\ verdicts[m].by # verdicts[n].by

\* What the committee reads is approved: a packet beyond its draft quotes an
\* approval of the case and, if it quotes a claim, a revision somebody approved.
RestsOnReviewedSources == \A p \in DOMAIN packets : packets[p].status # "draft" =>
  /\ packets[p].submitter # Nobody /\ packets[p].case # 0
  /\ verdicts[packets[p].case].what = "approved"
  /\ packets[p].claim # 0 => claims[packets[p].claim].status = "approved"

\* An export verifies for good, whatever is reviewed, decided or redacted
\* later, as long as the deal stays linked to the workspace of its cases.
ExportsKeepVerifying == deal.own => \A e \in exports :
  VerifyExport(e) /\ packets[e.packet].status # "draft"

\* The row of the deal counts as many versions as the audit trail tells of.
Accounted == deal.version = audited

\* The records of the deal agree.  Overlapping requests may fork them, but:
\* no stage is left that was not reached by a recorded transition, and while
\* the version of the deal accounts for its audit trail, the transitions
\* chain up to its stage, unless the committee declined; a ledger revision is
\* superseded if and only if another one supersedes it and follows its version,
\* by two only if either was begun before the other was made;
\* and no task is complete before those it depends on have been.
HistoriesAgree ==
  /\ \A n \in DOMAIN trail :
       trail[n][1] = Stage(1) \/ \E m \in 1..(n - 1) : trail[m][2] = trail[n][1]
  /\ Accounted =>
       /\ \A n \in 1..(Len(trail) - 1) : trail[n][2] = trail[n + 1][1]
       /\ trail # <<>> => deal.stage \in {Last(trail)[2], "declined"}
  /\ \A n \in DOMAIN ledger :
       /\ ledger[n].version = IF n = 1 THEN 1 ELSE ledger[ledger[n].of].version + 1
       /\ ledger[n].status = "superseded" <=> \E m \in DOMAIN ledger : ledger[m].of = n
       /\ \A m \in 1..(n - 1) : ledger[m].of = ledger[n].of => ledger[n].seen < m
  /\ \A t \in Tasks : tasks[t].status = "complete" => \A d \in Needs[t] : tasks[d].done

\* A write over what its author has not seen shows for good: from then on the
\* version of the deal falls short of its audit trail.  As long as it does not,
\* an edit replaces the version its form showed and a declined deal stays declined.
OverwritesShow == [][
  /\ ~ Accounted => ~ Accounted'
  /\ Accounted' =>
       /\ \A w \in Windows : UpdateDeal(w) => form[w] = deal.version
       /\ deal.stage = "declined" => deal'.stage = "declined"]_vars
=============================================================================
