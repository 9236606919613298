------------------------------ MODULE QoEBridge ------------------------------
(***************************************************************************)
(* The figures of a private company (services/underwriting_data_service.py *)
(* and the part of services/portfolio_service.py that shows them).         *)
(*                                                                         *)
(* Files are imported as versions of their source, their rows mapped to    *)
(* accounts by the mappings approved when the import reads them.  The      *)
(* bridge picks a reported EBITDA, or derives one, among the facts of all  *)
(* imports and adds the adjustments that a second person approved.  The    *)
(* dashboard computes the same figures on its own.                         *)
(*                                                                         *)
(* A request is its reads, its checks on what it read, and one commit.     *)
(* The workspace has its target.  A snapshot's place in the sequence is    *)
(* its created_at, a period its last day; values are whole and scaled.     *)
(***************************************************************************)
EXTENDS Integers, Sequences, FiniteSets, FiniteSetsExt

CONSTANTS
  Requests,      \* HTTP requests in flight
  People,
  Mappings,      \* what may be mapped: [label, account, statement, sign, status]
  Files,         \* what may be imported: [source, rows]
  References,    \* sources that are only registered
  Claims,        \* adjustments, by what their dedupe key is made of
  Components,    \* _EBITDA_COMPONENTS
  Bps,           \* reconciliation_tolerance_bps
  MaxMappings,   \* bound on the versions of a mapping
  MaxSnapshots,  \* bound on the imports
  None           \* an absent account, mapping or filter

Labels == {m.label : m \in Mappings} \cup UNION {{row.label : row \in f.rows} : f \in Files}

Mapping == [label : Labels, account : STRING, statement : STRING, sign : Int, status : {"draft", "approved", "rejected"}]
Row ==
  [label : Labels, account : STRING \cup {None}, statement : STRING, period : Nat, type : STRING,
   unit : STRING, currency : STRING, value : Int]
Claim == [title : STRING, period : Nat, layer : {"management", "sponsor", "covenant"}, amount : Int,
          currency : STRING, evidence : BOOLEAN]

ASSUME BridgeAssumption ==
  /\ \A m \in Mappings : m \in Mapping
  /\ \A f \in Files : f.rows # {} /\ IsFiniteSet(f.rows) /\ \A row \in f.rows : row \in Row
  /\ \A c \in Claims : c \in Claim
  /\ \A f \in Files : f.source \notin References
  /\ Bps \in Nat /\ MaxMappings \in Nat /\ MaxSnapshots \in Nat
  /\ None \notin STRING /\ None \notin Nat /\ None \notin Mapping

VARIABLES
  mappings,     \* the versions of the mapping of a label
  snapshots,    \* imports in the order they were made: [source, version, facts, status]
  open,         \* open import exceptions: <<snapshot, code, what it is about>>
  adjustments,  \* [claim, proposer, status, decider], by row
  work          \* what a request has read

vars == <<mappings, snapshots, open, adjustments, work>>

Idle == [at |-> "idle"]

Init ==
  /\ mappings = [l \in Labels |-> <<>>]
  /\ snapshots = <<>> /\ open = {} /\ adjustments = <<>>
  /\ work = [r \in Requests |-> Idle]

-----------------------------------------------------------------------------
(* Mappings (create_account_mapping, _approved_mapping_index).             *)

CreateMapping(m) ==
  /\ Len(mappings[m.label]) < MaxMappings
  /\ mappings' = [mappings EXCEPT ![m.label] = Append(@, m)]
  /\ UNCHANGED <<snapshots, open, adjustments, work>>

\* A newer draft or rejection does not retire an older approval.
ApprovedMapping(label) ==
  LET versions == mappings[label]
      approved == {v \in DOMAIN versions : versions[v].status = "approved"} IN
  IF approved = {} THEN None ELSE versions[Max(approved)]

-----------------------------------------------------------------------------
(* One import (_prepare_financial_rows, _reconcile_balance_sheets).        *)

Fact(row) ==
  LET map == ApprovedMapping(row.label)
      explicit == row.account # None
      used == ~explicit /\ map # None IN
  [label |-> row.label, statement |-> row.statement, period |-> row.period, type |-> row.type,
   unit |-> row.unit, currency |-> row.currency,
   account |-> IF used THEN map.account ELSE row.account,
   state |-> CASE explicit -> "mapped_explicit"
               [] used /\ map.statement = row.statement -> "mapped"
               [] used /\ map.statement # row.statement -> "mapping_exception"
               [] OTHER -> "unmapped",
   value |-> row.value * (IF used THEN map.sign ELSE 1)]

Key(row) == <<row.label, row.statement, row.period, row.type, row.unit, row.currency>>
Distinct(rows) == \A a, b \in rows : Key(a) = Key(b) => a = b

IsMapped(fact) == fact.state \in {"mapped", "mapped_explicit"}

Value(fact) == fact.value
Held(facts, account) == MapThenSumSet(Value, {f \in facts : f.account = account})
Carries(facts, account) == \E f \in facts : f.account = account

\* Assets against liabilities and equity, within the tolerance.
Reconciled(facts) ==
  LET total == "total_liabilities_and_equity"
      other == IF Carries(facts, total) THEN Held(facts, total)
               ELSE Held(facts, "total_liabilities") + Held(facts, "total_equity")
      difference == Held(facts, "total_assets") - other
      distance == IF difference < 0 THEN -difference ELSE difference
      size == Held(facts, "total_assets")
      tolerance == Max({(IF size < 0 THEN -size ELSE size) * Bps, 100}) IN
  IF Cardinality({f.currency : f \in {g \in facts : g.unit = "currency"}}) > 1 THEN "mixed_currency"
  ELSE IF ~Carries(facts, "total_assets")
          \/ ~(Carries(facts, total) \/ (Carries(facts, "total_liabilities") /\ Carries(facts, "total_equity")))
    THEN "incomplete"
  ELSE IF 10000 * distance <= tolerance THEN "passed" ELSE "imbalance"

Sheet(facts, period) ==
  {f \in facts : f.statement = "balance_sheet" /\ IsMapped(f) /\ f.period = period}

Sheets(facts) == {f.period : f \in {g \in facts : g.statement = "balance_sheet" /\ IsMapped(g)}}

Exceptions(facts) ==
  {<<"mapping_statement_mismatch", f>> : f \in {g \in facts : g.state = "mapping_exception"}}
  \cup {<<"unmapped_account", f>> : f \in {g \in facts : g.account = None}}
  \cup {<<Reconciled(Sheet(facts, p)), p>> : p \in {q \in Sheets(facts) : Reconciled(Sheet(facts, q)) # "passed"}}

-----------------------------------------------------------------------------
(* import_financial_rows: the mappings, then the version are read; the     *)
(* snapshot, its facts and exceptions are one transaction.                 *)

Importing == {r \in Requests : work[r].at \in {"prepared", "numbered"}}

Prepare(r, file) ==
  /\ work[r] = Idle /\ Len(snapshots) + Cardinality(Importing) < MaxSnapshots
  /\ Distinct(file.rows)
  /\ work' = [work EXCEPT ![r] =
       [at |-> "prepared", source |-> file.source, facts |-> {Fact(row) : row \in file.rows}]]
  /\ UNCHANGED <<mappings, snapshots, open, adjustments>>

VersionsOf(source) == {n \in DOMAIN snapshots : snapshots[n].source = source}

\* _next_source_version.
IsNext(source, version) ==
  \/ VersionsOf(source) = {} /\ version = 1
  \/ \E n \in VersionsOf(source) :
       /\ \A m \in VersionsOf(source) : snapshots[m].version <= snapshots[n].version
       /\ version = snapshots[n].version + 1

Number(r) ==
  /\ work[r].at = "prepared"
  /\ \E version \in 1..(Len(snapshots) + 1) :
       /\ IsNext(work[r].source, version)
       /\ work' = [work EXCEPT ![r] =
            [at |-> "numbered", source |-> @.source, facts |-> @.facts, version |-> version]]
  /\ UNCHANGED <<mappings, snapshots, open, adjustments>>

\* uq_source_snapshot_stream_version.
Taken(source, version) == \E n \in VersionsOf(source) : snapshots[n].version = version

Seal(r) ==
  LET found == Exceptions(work[r].facts) IN
  /\ snapshots' = Append(snapshots,
       [source |-> work[r].source, version |-> work[r].version, facts |-> work[r].facts,
        status |-> IF found = {} THEN "ready" ELSE "partial"])
  /\ open' = open \cup {<<Len(snapshots) + 1, x[1], x[2]>> : x \in found}
  /\ work' = [work EXCEPT ![r] = Idle]
  /\ UNCHANGED <<mappings, adjustments>>

\* Mutant of Commit: nothing keeps a version from being used twice.
CommitAnyVersion(r) == work[r].at = "numbered" /\ Seal(r)

Commit(r) ==
  /\ work[r].at = "numbered" /\ ~Taken(work[r].source, work[r].version)
  /\ Seal(r)

\* The constraint refuses the row: the import fails, and is not retried.
LoseVersion(r) ==
  /\ work[r].at = "numbered" /\ Taken(work[r].source, work[r].version)
  /\ work' = [work EXCEPT ![r] = Idle]
  /\ UNCHANGED <<mappings, snapshots, open, adjustments>>

\* register_source_snapshot: a reference to a source, without facts.  It is
\* numbered and inserted until the constraint accepts it (insert_versioned).
Register(source) ==
  /\ Len(snapshots) + Cardinality(Importing) < MaxSnapshots
  /\ \E version \in 1..(Len(snapshots) + 1) :
       /\ IsNext(source, version)
       /\ snapshots' = Append(snapshots,
            [source |-> source, version |-> version, facts |-> {}, status |-> "partial"])
  /\ UNCHANGED <<mappings, open, adjustments, work>>

\* resolve_import_exception: the snapshot keeps its status.
Resolve(x) ==
  /\ x \in open
  /\ open' = open \ {x}
  /\ UNCHANGED <<mappings, snapshots, adjustments, work>>

-----------------------------------------------------------------------------
(* create_qoe_adjustment and decide_qoe_adjustment.                        *)

Proposed(claim) == \E n \in DOMAIN adjustments : adjustments[n].claim = claim

FindNoDuplicate(r, claim, person) ==
  /\ work[r] = Idle /\ ~Proposed(claim)
  /\ work' = [work EXCEPT ![r] = [at |-> "proposing", claim |-> claim, by |-> person]]
  /\ UNCHANGED <<mappings, snapshots, open, adjustments>>

Add(r) ==
  /\ adjustments' = Append(adjustments,
       [claim |-> work[r].claim, proposer |-> work[r].by, status |-> "proposed", decider |-> None])
  /\ work' = [work EXCEPT ![r] = Idle]
  /\ UNCHANGED <<mappings, snapshots, open>>

\* Mutant of Propose: only the look-up guards against duplicates.
ProposeUnconstrained(r) == work[r].at = "proposing" /\ Add(r)

\* uq_qoe_adjustment_dedupe.
Propose(r) == work[r].at = "proposing" /\ ~Proposed(work[r].claim) /\ Add(r)

LoseDuplicate(r) ==
  /\ work[r].at = "proposing" /\ Proposed(work[r].claim)
  /\ work' = [work EXCEPT ![r] = Idle]
  /\ UNCHANGED <<mappings, snapshots, open, adjustments>>

\* The row is loaded and checked.
Consider(r, n, person, verdict) ==
  /\ work[r] = Idle /\ adjustments[n].status = "proposed"
  /\ adjustments[n].proposer # person
  /\ verdict = "approved" => adjustments[n].claim.evidence
  /\ work' = [work EXCEPT ![r] = [at |-> "deciding", row |-> n, by |-> person, verdict |-> verdict]]
  /\ UNCHANGED <<mappings, snapshots, open, adjustments>>

\* The row is written as it was decided, whatever it says by now.
Decide(r) ==
  /\ work[r].at = "deciding"
  /\ adjustments' = [adjustments EXCEPT ![work[r].row] =
       [@ EXCEPT !.status = work[r].verdict, !.decider = work[r].by]]
  /\ work' = [work EXCEPT ![r] = Idle]
  /\ UNCHANGED <<mappings, snapshots, open>>

Next ==
  \/ \E m \in Mappings : CreateMapping(m)
  \/ \E source \in References : Register(source)
  \/ \E x \in open : Resolve(x)
  \/ \E r \in Requests :
       \/ \E file \in Files : Prepare(r, file)
       \/ Number(r) \/ Commit(r) \/ LoseVersion(r)
       \/ \E claim \in Claims, person \in People : FindNoDuplicate(r, claim, person)
       \/ Propose(r) \/ LoseDuplicate(r)
       \/ \E n \in DOMAIN adjustments, person \in People, verdict \in {"approved", "rejected"} :
            Consider(r, n, person, verdict)
       \/ Decide(r)

Spec == Init /\ [][Next]_vars

-----------------------------------------------------------------------------
(* get_qoe_bridge.  Two facts of one snapshot and period are a tie that    *)
(* the query leaves to the database, so there are several answers.         *)

Facts == UNION {{<<n, f>> : f \in snapshots[n].facts} : n \in DOMAIN snapshots}

Usable(accounts, period) ==
  {x \in Facts :
     /\ x[2].account \in accounts /\ IsMapped(x[2]) /\ x[2].unit = "currency"
     /\ period # None => x[2].period = period}

\* By period, then by snapshot.
Newest(X) ==
  {x \in X : \A y \in X : y[2].period < x[2].period \/ (y[2].period = x[2].period /\ y[1] <= x[1])}

Reported(period) == Newest(Usable({"ebitda"}, period))
Candidates(period) == Newest(Usable(Components, period))

\* The components of the candidate's snapshot and period.
Parts(x) == {y \in Usable(Components, x[2].period) : y[1] = x[1]}
PartValue(y) == y[2].value

Derivable(x) ==
  /\ \A a \in Components : \E y \in Parts(x) : y[2].account = a
  /\ \A y, z \in Parts(x) : y[2].currency = z[2].currency

\* _find_reported_ebitda: the base of the bridge, if there is one.
Bases(period) ==
  IF Reported(period) # {}
    THEN {[period |-> x[2].period, currency |-> x[2].currency, ebitda |-> x[2].value] : x \in Reported(period)}
    ELSE {[period |-> x[2].period, currency |-> x[2].currency, ebitda |-> MapThenSumSet(PartValue, Parts(x))] :
            x \in {y \in Candidates(period) : Derivable(y)}}

Included(base) ==
  {n \in DOMAIN adjustments :
     /\ adjustments[n].status = "approved"
     /\ adjustments[n].claim.period = base.period /\ adjustments[n].claim.currency = base.currency}

Amount(n) == adjustments[n].claim.amount
Layer(base, layer) == MapThenSumSet(Amount, {n \in Included(base) : adjustments[n].claim.layer = layer})

\* [period, currency, reported, sponsor]: what get_qoe_bridge may answer.
Bridge(period) ==
  {[period |-> b.period, currency |-> b.currency, reported |-> b.ebitda,
    sponsor |-> b.ebitda + Layer(b, "management") + Layer(b, "sponsor")] : b \in Bases(period)}

-----------------------------------------------------------------------------
(* _source_health and _financial_quality of the dashboard.                 *)

CurrentSnapshots ==
  {n \in DOMAIN snapshots : \A m \in VersionsOf(snapshots[n].source) : snapshots[m].version <= snapshots[n].version}

Health ==
  IF snapshots = <<>> THEN "not_configured"
  ELSE IF \E n \in CurrentSnapshots : snapshots[n].status = "partial" THEN "partial"
  ELSE "ready"

EbitdaFacts ==
  {x \in Facts : x[2].account = "ebitda" /\ x[2].state \in {"mapped", "mapped_explicit"} /\ x[2].unit = "currency"}

LatestEbitda ==
  {x \in EbitdaFacts : ~\E y \in EbitdaFacts :
     y[2].period > x[2].period \/ (y[2].period = x[2].period /\ y[1] > x[1])}

\* Mutant of Accepted: the covenant layer is counted too.
AcceptedInAllLayers(x) ==
  {n \in DOMAIN adjustments :
     /\ adjustments[n].status = "approved"
     /\ adjustments[n].claim.period = x[2].period /\ adjustments[n].claim.currency = x[2].currency}

Accepted(x) ==
  {n \in DOMAIN adjustments :
     /\ adjustments[n].status = "approved"
     /\ adjustments[n].claim.period = x[2].period /\ adjustments[n].claim.currency = x[2].currency
     /\ adjustments[n].claim.layer \in {"management", "sponsor"}}

Quality ==
  {[period |-> x[2].period, currency |-> x[2].currency, reported |-> x[2].value,
    sponsor |-> x[2].value + MapThenSumSet(Amount, Accepted(x))] : x \in LatestEbitda}

-----------------------------------------------------------------------------
(* Properties.                                                             *)

QoEAdjustment ==
  [claim : Claims, proposer : People, status : {"proposed", "approved", "rejected"}, decider : People \cup {None}]

\* Every variable keeps its type.
BridgeTypeOK ==
  /\ mappings \in [Labels -> Seq(Mappings)]
  /\ \A n \in DOMAIN snapshots :
       /\ snapshots[n].source \in References \cup {f.source : f \in Files}
       /\ snapshots[n].version \in Nat \ {0} /\ snapshots[n].status \in {"ready", "partial"}
       /\ \A f \in snapshots[n].facts : f.label \in Labels /\ f.period \in Nat
  /\ adjustments \in Seq(QoEAdjustment)

\* Whatever imports race, a figure that a later version of its source gives
\* again is never taken from the earlier version: created_at, by which the
\* bridge chooses, agrees with the version (_find_reported_ebitda,
\* import_financial_rows).
CorrectionWins ==
  \A accounts \in {{"ebitda"}, Components}, period \in {None} \cup {x[2].period : x \in Facts} :
    \A x \in Newest(Usable(accounts, period)), y \in Usable(accounts, period) :
      snapshots[y[1]].source = snapshots[x[1]].source /\ y[2].period = x[2].period =>
        y[1] = x[1] \/ snapshots[y[1]].version < snapshots[x[1]].version

\* Whatever requests race, the bridge counts no adjustment twice and none that
\* nobody but its proposer approved or that has no evidence
\* (create_qoe_adjustment, decide_qoe_adjustment).
AdjustmentsEarned ==
  /\ \A m, n \in DOMAIN adjustments : adjustments[m].claim = adjustments[n].claim => m = n
  /\ \A n \in DOMAIN adjustments :
       adjustments[n].status = "approved" =>
         adjustments[n].decider # adjustments[n].proposer /\ adjustments[n].claim.evidence

\* The dashboard shows a reported EBITDA whenever the bridge rests on one, the
\* same up to ties, with the same sponsor EBITDA; and it calls sources ready
\* only when every row of their current versions counts and every balance
\* sheet in them balances (_financial_quality, _source_health).
DashboardHolds ==
  /\ Quality = IF Reported(None) = {} THEN {} ELSE Bridge(None)
  /\ Health = "ready" => \A n \in CurrentSnapshots :
       /\ ~\E x \in open : x[1] = n
       /\ \A f \in snapshots[n].facts :
            IsMapped(f) /\ (f.statement = "balance_sheet" => Reconciled(Sheet(snapshots[n].facts, f.period)) = "passed")
=============================================================================
