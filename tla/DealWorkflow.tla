---------------------------- MODULE DealWorkflow ----------------------------
(***************************************************************************)
(* The work on a deal before it reaches the investment committee: its      *)
(* stage and gates, the form it is edited in, its team, a high-priority    *)
(* diligence request, a critical ledger entry and its tasks                *)
(* (services/deal_workflow_service.py).  Apart from single writes that no  *)
(* check precedes, every operation checks in one step and writes in        *)
(* another what it made of the rows it loaded.                             *)
(***************************************************************************)
EXTENDS DataRoom

CONSTANTS
  Gates, StageOf,    \* the required gates and the stage each belongs to
  Tasks, Needs,      \* the tasks and those that each depends on
  MaxWrites,         \* bound on the writes of the deal's row, but for overlapping ones
  MaxLedger          \* bound on the revisions of the ledger entry

ASSUME DealAssumption ==
  /\ Needs \in [Tasks -> SUBSET Tasks]
  /\ MaxWrites \in Nat /\ MaxLedger \in Nat

VARIABLES
  deal,     \* the row of the deal; own: it is linked to the workspace of its cases
  audited,  \* how many audit events tell of a write of the deal's row
  form,     \* form[w]: the version that the edit form of w shows, 0 if it has none
  gates, trail, lead, ask, ledger, tasks

dealVars == <<deal, audited, form, gates, trail, lead, ask, ledger, tasks>>

DealStages == <<"sourcing", "screening", "initial_review", "diligence",
                "ic_review", "signing", "closed">>
Stage(n) == DealStages[n]
Following(s) == Stage(1 + CHOOSE n \in DOMAIN DealStages : Stage(n) = s)
StatusAt(stage) == IF stage \in {"declined", "closed"} THEN stage ELSE "active"
Over == {"closed", "declined"}

\* by: whose the latest response is; judged: the audit event of the latest
\* review, who made it and whose response it names.
NoReview == [of |-> Nobody, by |-> Nobody]
Unasked == [status |-> "none", by |-> Nobody, accepter |-> Nobody, judged |-> NoReview]
\* of: the revision superseded; seen: history, how many revisions there were
\* when the request looked.
Entry(status, version, of, seen) ==
  [status |-> status, version |-> version, of |-> of, seen |-> seen]

\* The version of the deal at the beginning: created, and advanced four times.
Born == IF agenda.begun THEN 5 ELSE 1
RoomToWrite == audited < Born + MaxWrites

\* A deal is met on its creation, or when it enters IC review with its gates
\* passed up to there, a lead, an accepted request and no critical issue.
DealInit ==
  /\ audited = Born
  /\ form = [w \in Windows |-> 0]
  /\ tasks = [t \in Tasks |-> [status |-> "not_started", done |-> FALSE]]
  /\ ledger = <<>>
  /\ IF ~ agenda.begun
     THEN /\ deal = [stage |-> Stage(1), status |-> "active", version |-> Born, own |-> TRUE]
          /\ gates = [g \in Gates |-> IF StageOf[g] = "ic_review" THEN "absent" ELSE "pending"]
          /\ trail = <<>>
          /\ lead \in BOOLEAN
          /\ ask = Unasked
     ELSE /\ deal = [stage |-> "ic_review", status |-> "active", version |-> Born, own |-> TRUE]
          /\ gates = [g \in Gates |-> IF StageOf[g] = "ic_review" THEN "absent" ELSE "satisfied"]
          /\ trail = [n \in 1..4 |-> <<Stage(n), Stage(n + 1)>>]
          /\ lead = TRUE
          /\ ask = [status |-> "accepted", by |-> claims[1].by, accepter |-> claims[2].by,
                    judged |-> [of |-> claims[1].by, by |-> claims[2].by]]

-----------------------------------------------------------------------------
(* The row of the deal: whoever writes it adds one to the version loaded,  *)
(* and an audit event in the same transaction.                             *)

OpenForm(w) ==
  /\ MayBegin(w, "edit") /\ form[w] # deal.version
  /\ form' = [form EXCEPT ![w] = deal.version]
  /\ UNCHANGED <<req, deal, audited, gates, trail, lead, ask, ledger, tasks>>

\* Mutant of OpenUpdate: the form's version is not compared.
OpenUpdateUnchecked(w, field, value) ==
  /\ MayBegin(w, "edit") /\ form[w] # 0 /\ RoomToWrite
  /\ Hold(w, [op |-> "edit", saw |-> deal, field |-> field, to |-> value])
  /\ UNCHANGED dealVars

OpenUpdate(w, field, value) ==
  /\ MayBegin(w, "edit") /\ form[w] = deal.version /\ RoomToWrite
  /\ Hold(w, [op |-> "edit", saw |-> deal, field |-> field, to |-> value])
  /\ UNCHANGED dealVars

UpdateDeal(w) ==
  LET r == req[w] IN
  /\ Holds(w, "edit")
  /\ deal' = [deal EXCEPT ![r.field] = Written(r.to, r.saw[r.field], @), !.version = r.saw.version + 1]
  /\ audited' = audited + 1
  /\ Done(w)
  /\ UNCHANGED <<form, gates, trail, lead, ask, ledger, tasks>>

GatesPassed(stages) == \A g \in Gates : StageOf[g] \in stages => gates[g] # "pending"

MayAdvance(to) ==
  /\ to # deal.stage
  /\ to # "declined" =>
       deal.stage \notin Over /\ to = Following(deal.stage) /\ GatesPassed({deal.stage})

OpenTransition(w, to) ==
  /\ MayBegin(w, "advance") /\ MayAdvance(to) /\ RoomToWrite
  /\ Hold(w, [op |-> "advance", saw |-> deal, to |-> to])
  /\ UNCHANGED dealVars

\* The sequence number of the transition is read last.
TransitionDeal(w) ==
  LET r == req[w] IN
  /\ Holds(w, "advance")
  /\ trail' = Append(trail, <<r.saw.stage, r.to>>)
  /\ deal' = [deal EXCEPT !.stage = r.to, !.version = r.saw.version + 1,
                          !.status = Written(StatusAt(r.to), r.saw.status, @)]
  /\ audited' = audited + 1
  /\ Done(w)
  /\ UNCHANGED <<form, gates, lead, ask, ledger, tasks>>

CreateGate(w, g) ==
  /\ MayBegin(w, "gate") /\ gates[g] = "absent"
  /\ gates' = [gates EXCEPT ![g] = "pending"]
  /\ UNCHANGED <<req, deal, audited, form, trail, lead, ask, ledger, tasks>>

\* A gate may be resolved again, as often as one likes.
ResolveGate(w, g, status) ==
  /\ MayBegin(w, "gate") /\ gates[g] # "absent"
  /\ gates' = [gates EXCEPT ![g] = status]
  /\ UNCHANGED <<req, deal, audited, form, trail, lead, ask, ledger, tasks>>

\* Adding a member again changes the role, so the last lead may lose it.
AddTeamMember(w, leads) ==
  /\ MayBegin(w, "staff")
  /\ lead' = leads
  /\ UNCHANGED <<req, deal, audited, form, gates, trail, ask, ledger, tasks>>

-----------------------------------------------------------------------------
(* A diligence request of high priority. *)

Requested(status) == [Unasked EXCEPT !.status = status]

CreateRequest(w, status) ==
  /\ MayBegin(w, "send") /\ ask.status = "none"
  /\ ask' = Requested(status)
  /\ UNCHANGED <<req, deal, audited, form, gates, trail, lead, ledger, tasks>>

OpenSend(w) ==
  /\ MayBegin(w, "send") /\ ask.status \in {"draft", "rejected"}
  /\ Hold(w, [op |-> "send"])
  /\ UNCHANGED dealVars

SendRequest(w) ==
  /\ Holds(w, "send")
  /\ ask' = [ask EXCEPT !.status = "requested"]
  /\ Done(w)
  /\ UNCHANGED <<deal, audited, form, gates, trail, lead, ledger, tasks>>

OpenResponse(w) ==
  /\ MayBegin(w, "respond") /\ ask.status \in {"requested", "responded", "rejected"}
  /\ Hold(w, [op |-> "respond", saw |-> ask])
  /\ UNCHANGED dealVars

\* Between two responses nothing is written to the status.
AddResponse(w) ==
  LET saw == req[w].saw IN
  /\ Holds(w, "respond")
  /\ ask' = [ask EXCEPT !.status = Written("responded", saw.status, @), !.by = Person[w],
                        !.accepter = Written(Nobody, saw.accepter, @)]
  /\ Done(w)
  /\ UNCHANGED <<deal, audited, form, gates, trail, lead, ledger, tasks>>

OpenAnswerReview(w, status) ==
  /\ MayBegin(w, "accept") /\ ask.status = "responded" /\ Person[w] \in Humans \ {ask.by}
  /\ Hold(w, [op |-> "accept", to |-> status, saw |-> ask])
  /\ UNCHANGED dealVars

ReviewRequest(w) ==
  LET r == req[w] IN
  /\ Holds(w, "accept")
  /\ ask' = [ask EXCEPT !.status = r.to, !.judged = [of |-> r.saw.by, by |-> Person[w]],
       !.accepter = Written(IF r.to = "accepted" THEN Person[w] ELSE Nobody, r.saw.accepter, @)]
  /\ Done(w)
  /\ UNCHANGED <<deal, audited, form, gates, trail, lead, ledger, tasks>>

-----------------------------------------------------------------------------
(* A critical entry of the ledger, and the tasks. *)

CreateEntry(w, status) ==
  /\ MayBegin(w, "revise") /\ ledger = <<>>
  /\ ledger' = <<Entry(status, 1, 0, 0)>>
  /\ UNCHANGED <<req, deal, audited, form, gates, trail, lead, ask, tasks>>

\* Mutant of OpenRevision: a superseded revision may be revised.
OpenRevisionOfAny(w, n, status) ==
  /\ MayBegin(w, "revise") /\ Len(ledger) < MaxLedger
  /\ Hold(w, [op |-> "revise", on |-> n, to |-> status, seen |-> Len(ledger)])
  /\ UNCHANGED dealVars

OpenRevision(w, n, status) ==
  /\ MayBegin(w, "revise") /\ Len(ledger) < MaxLedger /\ ledger[n].status # "superseded"
  /\ Hold(w, [op |-> "revise", on |-> n, to |-> status, seen |-> Len(ledger)])
  /\ UNCHANGED dealVars

ReviseEntry(w) ==
  LET n == req[w].on IN
  /\ Holds(w, "revise")
  /\ ledger' = Append([ledger EXCEPT ![n].status = "superseded"],
                      Entry(req[w].to, ledger[n].version + 1, n, req[w].seen))
  /\ Done(w)
  /\ UNCHANGED <<deal, audited, form, gates, trail, lead, ask, tasks>>

Finished == {"complete", "cancelled"}

OpenTask(w, t, status) ==
  /\ MayBegin(w, "task")
  /\ tasks[t].status \in Finished => status = tasks[t].status
  /\ status = "complete" => \A d \in Needs[t] : tasks[d].status = "complete"
  /\ Hold(w, [op |-> "task", on |-> t, to |-> status, saw |-> tasks[t].status])
  /\ UNCHANGED dealVars

\* completed_at is set and never cleared.
UpdateTask(w) ==
  LET r == req[w] IN
  /\ Holds(w, "task")
  /\ tasks' = [tasks EXCEPT ![r.on].status = Written(r.to, r.saw, @),
                            ![r.on].done = @ \/ r.to = "complete"]
  /\ Done(w)
  /\ UNCHANGED <<deal, audited, form, gates, trail, lead, ask, ledger>>

DealStep(w) ==
  \/ OpenForm(w)
  \/ \E s \in {"active", "on_hold"} : OpenUpdate(w, "status", s)
  \/ \E own \in BOOLEAN : OpenUpdate(w, "own", own)
  \/ UpdateDeal(w)
  \/ \E s \in Range(DealStages) \cup {"declined"} : OpenTransition(w, s)
  \/ TransitionDeal(w)
  \/ \E g \in Gates : CreateGate(w, g)
  \/ \E g \in Gates, s \in {"satisfied", "waived"} : ResolveGate(w, g, s)
  \/ \E leads \in BOOLEAN : AddTeamMember(w, leads)
  \/ \E s \in {"draft", "requested"} : CreateRequest(w, s)
  \/ OpenSend(w) \/ SendRequest(w) \/ OpenResponse(w) \/ AddResponse(w)
  \/ \E s \in {"accepted", "rejected"} : OpenAnswerReview(w, s)
  \/ ReviewRequest(w)
  \/ \E s \in {"open", "resolved"} : CreateEntry(w, s)
  \/ \E n \in DOMAIN ledger, s \in {"open", "resolved"} : OpenRevision(w, n, s)
  \/ ReviseEntry(w)
  \/ \E t \in Tasks, s \in {"not_started", "in_progress"} \cup Finished : OpenTask(w, t, s)
  \/ UpdateTask(w)
=============================================================================
