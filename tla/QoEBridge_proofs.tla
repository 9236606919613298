-------------------------- MODULE QoEBridge_proofs --------------------------
(***************************************************************************)
(* For every set of files, claims, people and requests: a correction wins  *)
(* over what it corrects, no adjustment counts that was not earned, and    *)
(* the dashboard agrees with the bridge.                                   *)
(*                                                                         *)
(* CorrectionWins needs that the snapshots of a source were made in the    *)
(* order of their versions.  A late insert could break that order only     *)
(* with a version below another one; but the versions of a source have no  *)
(* gaps, so that version is taken and the constraint refuses the insert.   *)
(***************************************************************************)
EXTENDS QoEBridge, FiniteSetTheorems, NaturalsInduction, TLAPS

Sealed == \E S : snapshots \in Seq(S)

\* Snapshots of a source are made in the order of their versions.
InOrder ==
  \A m, n \in DOMAIN snapshots :
    m < n /\ snapshots[m].source = snapshots[n].source => snapshots[m].version < snapshots[n].version

\* The versions of a source have no gaps.
NoGaps ==
  \A n \in DOMAIN snapshots : \A v \in 1..snapshots[n].version :
    \E m \in DOMAIN snapshots : snapshots[m].source = snapshots[n].source /\ snapshots[m].version = v

\* What a request has read still holds, except that versions are now taken
\* and rows decided that were not then.
WorkOK ==
  /\ DOMAIN work = Requests
  /\ \A r \in Requests :
       /\ work[r].at \in {"prepared", "numbered"} =>
            /\ work[r].source \in {f.source : f \in Files}
            /\ \A f \in work[r].facts : f.label \in Labels /\ f.period \in Nat
       /\ work[r].at = "numbered" =>
            /\ work[r].version \in Nat \ {0}
            /\ work[r].version = 1 \/ Taken(work[r].source, work[r].version - 1)
       /\ work[r].at = "proposing" => work[r].claim \in Claims /\ work[r].by \in People
       /\ work[r].at = "deciding" =>
            /\ work[r].row \in DOMAIN adjustments /\ work[r].by \in People
            /\ work[r].verdict \in {"approved", "rejected"}
            /\ adjustments[work[r].row].proposer # work[r].by
            /\ work[r].verdict = "approved" => adjustments[work[r].row].claim.evidence

IInv == BridgeTypeOK /\ Sealed /\ InOrder /\ NoGaps /\ WorkOK /\ AdjustmentsEarned

-----------------------------------------------------------------------------
(* One snapshot more.                                                      *)

LEMMA Appended ==
  ASSUME NEW s, \E S : s \in Seq(S), NEW e
  PROVE  /\ DOMAIN s = 1..Len(s) /\ Len(s) \in Nat
         /\ DOMAIN Append(s, e) = 1..(Len(s) + 1)
         /\ \A n \in DOMAIN s : Append(s, e)[n] = s[n]
         /\ Append(s, e)[Len(s) + 1] = e
         /\ \E S : Append(s, e) \in Seq(S)
<1>1. PICK S : s \in Seq(S)
  OBVIOUS
<1>2. s \in Seq(S \cup {e})
  BY <1>1
<1>3. Append(s, e) \in Seq(S \cup {e})
  BY <1>2
<1> QED
  BY <1>1, <1>2, <1>3

LEMMA Replaced ==
  ASSUME NEW S, NEW s \in Seq(S), NEW i \in DOMAIN s
  PROVE  /\ s[i] \in S
         /\ \A e \in S : /\ [s EXCEPT ![i] = e] \in Seq(S)
                         /\ DOMAIN [s EXCEPT ![i] = e] = DOMAIN s
                         /\ [s EXCEPT ![i] = e][i] = e
                         /\ \A n \in DOMAIN s : n # i => [s EXCEPT ![i] = e][n] = s[n]
OBVIOUS

\* A snapshot whose version is free, and the first or next to a taken one,
\* keeps the order and leaves no gap.
LEMMA NewVersion ==
  ASSUME BridgeTypeOK, Sealed, InOrder, NoGaps,
         NEW e, e.version \in Nat \ {0}, snapshots' = Append(snapshots, e),
         ~Taken(e.source, e.version), e.version = 1 \/ Taken(e.source, e.version - 1)
  PROVE  /\ Sealed' /\ InOrder' /\ NoGaps'
         /\ \A source, v : Taken(source, v) => Taken(source, v)'
<1> DEFINE k == Len(snapshots) + 1
<1>1. /\ DOMAIN snapshots = 1..(k - 1) /\ k \in Nat \ {0}
      /\ DOMAIN snapshots' = 1..k
      /\ \A n \in DOMAIN snapshots : snapshots'[n] = snapshots[n]
      /\ snapshots'[k] = e
  BY Appended DEF Sealed
<1>2. Sealed'
  BY Appended DEF Sealed
<1>3. \A source, v : Taken(source, v) => Taken(source, v)'
  BY <1>1 DEF Taken, VersionsOf
<1>4. \A n \in DOMAIN snapshots : snapshots[n].version \in Nat \ {0}
  BY DEF BridgeTypeOK
<1>5. ASSUME NEW n \in DOMAIN snapshots, snapshots[n].source = e.source
      PROVE  snapshots[n].version < e.version
  <2>1. SUFFICES ASSUME e.version <= snapshots[n].version PROVE FALSE
    BY <1>4
  <2>2. e.version \in 1..snapshots[n].version
    BY <2>1, <1>4
  <2> QED
    BY <1>5, <2>2 DEF NoGaps, Taken, VersionsOf
<1>6. InOrder'
  <2> SUFFICES ASSUME NEW m \in DOMAIN snapshots', NEW n \in DOMAIN snapshots', m < n,
                      snapshots'[m].source = snapshots'[n].source
               PROVE  snapshots'[m].version < snapshots'[n].version
    BY DEF InOrder
  <2>1. m \in DOMAIN snapshots
    BY <1>1
  <2>2. CASE n = k
    BY <1>1, <1>5, <2>1, <2>2
  <2>3. CASE n # k
    <3>1. n \in DOMAIN snapshots
      BY <1>1, <2>3
    <3> QED
      BY <1>1, <2>1, <3>1 DEF InOrder
  <2> QED
    BY <2>2, <2>3
<1>7. Taken(e.source, e.version)'
  BY <1>1 DEF Taken, VersionsOf
<1>8. ASSUME NEW v \in 1..e.version PROVE Taken(e.source, v)'
  <2>1. CASE v = e.version
    BY <1>7, <2>1
  <2>2. CASE v # e.version
    <3>1. e.version # 1 /\ v \in 1..(e.version - 1)
      BY <2>2
    <3>2. PICK n \in DOMAIN snapshots : snapshots[n].source = e.source /\ snapshots[n].version = e.version - 1
      BY <3>1 DEF Taken, VersionsOf
    <3> QED
      BY <1>1, <3>1, <3>2 DEF NoGaps, Taken, VersionsOf
  <2> QED
    BY <2>1, <2>2
<1>9. NoGaps'
  <2> SUFFICES ASSUME NEW n \in DOMAIN snapshots', NEW v \in 1..snapshots'[n].version
               PROVE  \E m \in DOMAIN snapshots' :
                        snapshots'[m].source = snapshots'[n].source /\ snapshots'[m].version = v
    BY DEF NoGaps
  <2>1. CASE n = k
    BY <1>1, <1>8, <2>1 DEF Taken, VersionsOf
  <2>2. CASE n # k
    <3>1. n \in DOMAIN snapshots
      BY <1>1, <2>2
    <3>2. PICK m \in DOMAIN snapshots : snapshots[m].source = snapshots[n].source /\ snapshots[m].version = v
      BY <1>1, <3>1 DEF NoGaps
    <3> QED
      BY <1>1, <3>1, <3>2
  <2> QED
    BY <2>1, <2>2
<1> QED
  BY <1>2, <1>3, <1>6, <1>9

\* The version that _next_source_version reads is free and follows one.
LEMMA NextVersion ==
  ASSUME BridgeTypeOK, NEW source, NEW version \in Nat, IsNext(source, version)
  PROVE  /\ version \in Nat \ {0} /\ ~Taken(source, version)
         /\ version = 1 \/ Taken(source, version - 1)
<1>1. CASE VersionsOf(source) = {} /\ version = 1
  BY <1>1 DEF Taken
<1>2. ASSUME NEW n \in VersionsOf(source),
             \A m \in VersionsOf(source) : snapshots[m].version <= snapshots[n].version,
             version = snapshots[n].version + 1
      PROVE  /\ version \in Nat \ {0} /\ ~Taken(source, version)
             /\ version = 1 \/ Taken(source, version - 1)
  <2>1. \A m \in VersionsOf(source) : snapshots[m].version \in Nat \ {0}
    BY DEF BridgeTypeOK, VersionsOf
  <2> QED
    BY <1>2, <2>1 DEF Taken
<1> QED
  BY <1>1, <1>2 DEF IsNext

LEMMA FactKeeps ==
  ASSUME NEW row
  PROVE  Fact(row).label = row.label /\ Fact(row).period = row.period
BY DEF Fact

-----------------------------------------------------------------------------
(* IInv is inductive.                                                      *)

LEMMA BridgeInit == Init => IInv
<1> SUFFICES ASSUME Init PROVE IInv
  OBVIOUS
<1>1. /\ snapshots = <<>> /\ adjustments = <<>> /\ mappings = [l \in Labels |-> <<>>]
      /\ work = [r \in Requests |-> Idle]
  BY DEF Init
<1>2. BridgeTypeOK
  BY <1>1 DEF BridgeTypeOK
<1>3. Sealed
  BY <1>1 DEF Sealed
<1>4. InOrder /\ NoGaps /\ AdjustmentsEarned
  BY <1>1 DEF InOrder, NoGaps, AdjustmentsEarned
<1>5. WorkOK
  BY <1>1 DEF WorkOK, Idle
<1> QED
  BY <1>2, <1>3, <1>4, <1>5 DEF IInv

\* What does not touch the snapshots keeps what is said of them.
LEMMA SameSnapshots ==
  ASSUME IInv, UNCHANGED snapshots
  PROVE  Sealed' /\ InOrder' /\ NoGaps' /\ \A source, v : Taken(source, v)' = Taken(source, v)
BY DEF IInv, Sealed, InOrder, NoGaps, Taken, VersionsOf

LEMMA SameAdjustments ==
  ASSUME IInv, UNCHANGED adjustments
  PROVE  AdjustmentsEarned'
BY DEF IInv, AdjustmentsEarned

\* A snapshot with a new version; work is dealt with by the caller.
LEMMA OneMoreSnapshot ==
  ASSUME IInv, UNCHANGED <<mappings, adjustments>>,
         NEW e, snapshots' = Append(snapshots, e),
         e.source \in References \cup {f.source : f \in Files}, e.version \in Nat \ {0},
         e.status \in {"ready", "partial"}, \A f \in e.facts : f.label \in Labels /\ f.period \in Nat,
         ~Taken(e.source, e.version), e.version = 1 \/ Taken(e.source, e.version - 1)
  PROVE  /\ BridgeTypeOK' /\ Sealed' /\ InOrder' /\ NoGaps' /\ AdjustmentsEarned'
         /\ \A source, v : Taken(source, v) => Taken(source, v)'
<1>1. /\ Sealed' /\ InOrder' /\ NoGaps'
      /\ \A source, v : Taken(source, v) => Taken(source, v)'
  BY NewVersion DEF IInv
<1>2. /\ DOMAIN snapshots = 1..Len(snapshots) /\ Len(snapshots) \in Nat
      /\ DOMAIN snapshots' = 1..(Len(snapshots) + 1)
      /\ \A n \in DOMAIN snapshots : snapshots'[n] = snapshots[n]
      /\ snapshots'[Len(snapshots) + 1] = e
  BY Appended DEF IInv, Sealed
<1>3. \A n \in DOMAIN snapshots' :
        /\ snapshots'[n].source \in References \cup {f.source : f \in Files}
        /\ snapshots'[n].version \in Nat \ {0} /\ snapshots'[n].status \in {"ready", "partial"}
        /\ \A f \in snapshots'[n].facts : f.label \in Labels /\ f.period \in Nat
  <2> SUFFICES ASSUME NEW n \in DOMAIN snapshots'
               PROVE  /\ snapshots'[n].source \in References \cup {f.source : f \in Files}
                      /\ snapshots'[n].version \in Nat \ {0} /\ snapshots'[n].status \in {"ready", "partial"}
                      /\ \A f \in snapshots'[n].facts : f.label \in Labels /\ f.period \in Nat
    OBVIOUS
  <2>1. CASE n = Len(snapshots) + 1
    BY <1>2, <2>1
  <2>2. CASE n # Len(snapshots) + 1
    <3>1. n \in DOMAIN snapshots
      BY <1>2, <2>2
    <3> QED
      BY <1>2, <3>1 DEF IInv, BridgeTypeOK
  <2> QED
    BY <2>1, <2>2
<1>4. BridgeTypeOK'
  BY <1>3 DEF IInv, BridgeTypeOK
<1>5. AdjustmentsEarned'
  BY SameAdjustments
<1> QED
  BY <1>1, <1>4, <1>5

\* What the other requests have read still holds; the caller answers for r.
LEMMA WorkStep ==
  ASSUME IInv, NEW r \in Requests, NEW w, work' = [work EXCEPT ![r] = w],
         \A source, v : Taken(source, v) => Taken(source, v)',
         \A n \in DOMAIN adjustments :
           /\ n \in DOMAIN adjustments'
           /\ adjustments'[n].claim = adjustments[n].claim /\ adjustments'[n].proposer = adjustments[n].proposer,
         w.at \in {"prepared", "numbered"} =>
           /\ w.source \in {f.source : f \in Files}
           /\ \A f \in w.facts : f.label \in Labels /\ f.period \in Nat,
         w.at = "numbered" => w.version \in Nat \ {0} /\ (w.version = 1 \/ Taken(w.source, w.version - 1)'),
         w.at = "proposing" => w.claim \in Claims /\ w.by \in People,
         w.at = "deciding" =>
           /\ w.row \in DOMAIN adjustments' /\ w.by \in People /\ w.verdict \in {"approved", "rejected"}
           /\ adjustments'[w.row].proposer # w.by
           /\ w.verdict = "approved" => adjustments'[w.row].claim.evidence
  PROVE  WorkOK'
<1>1. DOMAIN work' = Requests /\ work'[r] = w /\ \A s \in Requests \ {r} : work'[s] = work[s]
  BY DEF IInv, WorkOK
<1>2. ASSUME NEW s \in Requests, s # r, work[s].at = "numbered"
      PROVE  work[s].version = 1 \/ Taken(work[s].source, work[s].version - 1)'
  BY <1>2 DEF IInv, WorkOK
<1> QED
  BY <1>1, <1>2 DEF IInv, WorkOK

LEMMA Finished ==
  ASSUME IInv, NEW r \in Requests, work' = [work EXCEPT ![r] = Idle],
         \A source, v : Taken(source, v) => Taken(source, v)',
         \A n \in DOMAIN adjustments :
           /\ n \in DOMAIN adjustments'
           /\ adjustments'[n].claim = adjustments[n].claim /\ adjustments'[n].proposer = adjustments[n].proposer
  PROVE  WorkOK'
<1>1. Idle.at = "idle"
  BY DEF Idle
<1> QED
  BY <1>1, WorkStep

-----------------------------------------------------------------------------
(* One lemma per action that does more than drop a request.                *)

LEMMA CreateMappingKeeps ==
  ASSUME IInv, NEW m \in Mappings, CreateMapping(m)
  PROVE  IInv'
<1>1. m.label \in Labels
  BY DEF Labels
<1>2. mappings' \in [Labels -> Seq(Mappings)]
  BY <1>1 DEF CreateMapping, IInv, BridgeTypeOK
<1>3. BridgeTypeOK'
  BY <1>2 DEF CreateMapping, IInv, BridgeTypeOK
<1>4. WorkOK'
  BY SameSnapshots DEF CreateMapping, IInv, WorkOK
<1> QED
  BY <1>3, <1>4, SameSnapshots, SameAdjustments DEF CreateMapping, IInv

LEMMA PrepareKeeps ==
  ASSUME IInv, NEW r \in Requests, NEW file \in Files, Prepare(r, file)
  PROVE  IInv'
<1> DEFINE w == [at |-> "prepared", source |-> file.source, facts |-> {Fact(row) : row \in file.rows}]
<1>1. UNCHANGED <<mappings, snapshots, open, adjustments>> /\ work' = [work EXCEPT ![r] = w]
  BY DEF Prepare
<1>2. \A row \in file.rows : row.label \in Labels /\ row.period \in Nat
  BY BridgeAssumption DEF BridgeAssumption, Row, Labels
<1>3. \A f \in {Fact(row) : row \in file.rows} : f.label \in Labels /\ f.period \in Nat
  BY <1>2, FactKeeps
<1>4. w.source = file.source /\ w.facts = {Fact(row) : row \in file.rows} /\ w.at = "prepared"
  OBVIOUS
<1>5. \A source, v : Taken(source, v) => Taken(source, v)'
  BY <1>1, SameSnapshots
<1>6. WorkOK'
  <2> HIDE DEF w
  <2> QED
    BY <1>1, <1>3, <1>4, <1>5, WorkStep
<1>7. BridgeTypeOK'
  BY <1>1 DEF IInv, BridgeTypeOK
<1> QED
  BY <1>1, <1>6, <1>7, SameSnapshots, SameAdjustments DEF IInv

LEMMA NumberKeeps ==
  ASSUME IInv, NEW r \in Requests, Number(r)
  PROVE  IInv'
<1>1. UNCHANGED <<mappings, snapshots, open, adjustments>>
  BY DEF Number
<1>2. PICK version \in 1..(Len(snapshots) + 1) :
        /\ IsNext(work[r].source, version)
        /\ work' = [work EXCEPT ![r] =
             [at |-> "numbered", source |-> @.source, facts |-> @.facts, version |-> version]]
  BY DEF Number
<1> DEFINE w == [at |-> "numbered", source |-> work[r].source, facts |-> work[r].facts, version |-> version]
<1>3. work' = [work EXCEPT ![r] = w]
  BY <1>2
<1>4. \A source, v : Taken(source, v)' = Taken(source, v)
  BY <1>1, SameSnapshots
<1>5. version \in Nat \ {0} /\ (version = 1 \/ Taken(work[r].source, version - 1))
  <2>1. version \in Nat
    OBVIOUS
  <2> QED
    BY <1>2, <2>1, NextVersion DEF IInv
<1>6. /\ work[r].source \in {f.source : f \in Files}
      /\ \A f \in work[r].facts : f.label \in Labels /\ f.period \in Nat
  BY DEF Number, IInv, WorkOK
<1>7. w.at = "numbered" /\ w.source = work[r].source /\ w.facts = work[r].facts /\ w.version = version
  OBVIOUS
<1>8. WorkOK'
  <2> HIDE DEF w
  <2> QED
    BY <1>1, <1>3, <1>4, <1>5, <1>6, <1>7, WorkStep
<1>9. BridgeTypeOK'
  BY <1>1 DEF IInv, BridgeTypeOK
<1> QED
  BY <1>1, <1>8, <1>9, SameSnapshots, SameAdjustments DEF IInv

LEMMA CommitKeeps ==
  ASSUME IInv, NEW r \in Requests, Commit(r)
  PROVE  IInv'
<1> DEFINE e == [source |-> work[r].source, version |-> work[r].version, facts |-> work[r].facts,
                 status |-> IF Exceptions(work[r].facts) = {} THEN "ready" ELSE "partial"]
<1>1. /\ UNCHANGED <<mappings, adjustments>> /\ snapshots' = Append(snapshots, e)
      /\ work' = [work EXCEPT ![r] = Idle]
  BY DEF Commit, Seal
<1>2. /\ e.source = work[r].source /\ e.version = work[r].version /\ e.facts = work[r].facts
      /\ e.status \in {"ready", "partial"}
  OBVIOUS
<1>3. /\ work[r].at = "numbered" /\ ~Taken(work[r].source, work[r].version)
      /\ work[r].source \in {f.source : f \in Files}
      /\ \A f \in work[r].facts : f.label \in Labels /\ f.period \in Nat
      /\ work[r].version \in Nat \ {0}
      /\ work[r].version = 1 \/ Taken(work[r].source, work[r].version - 1)
  BY DEF Commit, IInv, WorkOK
<1> HIDE DEF e
<1>4. /\ BridgeTypeOK' /\ Sealed' /\ InOrder' /\ NoGaps' /\ AdjustmentsEarned'
      /\ \A source, v : Taken(source, v) => Taken(source, v)'
  <2>1. ~Taken(e.source, e.version) /\ (e.version = 1 \/ Taken(e.source, e.version - 1))
    BY <1>2, <1>3
  <2> QED
    BY <1>1, <1>2, <1>3, <2>1, OneMoreSnapshot
<1>5. WorkOK'
  BY <1>1, <1>4, Finished
<1> QED
  BY <1>4, <1>5 DEF IInv

LEMMA RegisterKeeps ==
  ASSUME IInv, NEW source \in References, Register(source)
  PROVE  IInv'
<1>1. PICK version \in 1..(Len(snapshots) + 1) :
        /\ IsNext(source, version)
        /\ snapshots' = Append(snapshots,
             [source |-> source, version |-> version, facts |-> {}, status |-> "partial"])
  BY DEF Register
<1> DEFINE e == [source |-> source, version |-> version, facts |-> {}, status |-> "partial"]
<1>2. snapshots' = Append(snapshots, e) /\ UNCHANGED <<mappings, open, adjustments, work>>
  BY <1>1 DEF Register
<1>3. e.source = source /\ e.version = version /\ e.facts = {} /\ e.status = "partial"
  OBVIOUS
<1> HIDE DEF e
<1>4. version \in Nat \ {0} /\ ~Taken(source, version) /\ (version = 1 \/ Taken(source, version - 1))
  <2>1. version \in Nat
    OBVIOUS
  <2> QED
    BY <1>1, <2>1, NextVersion DEF IInv
<1>5. /\ BridgeTypeOK' /\ Sealed' /\ InOrder' /\ NoGaps' /\ AdjustmentsEarned'
      /\ \A s, v : Taken(s, v) => Taken(s, v)'
  <2>1. ~Taken(e.source, e.version) /\ (e.version = 1 \/ Taken(e.source, e.version - 1))
    BY <1>3, <1>4
  <2> QED
    BY <1>2, <1>3, <1>4, <2>1, OneMoreSnapshot
<1>6. WorkOK'
  <2>1. \A r \in Requests : work[r].at = "numbered" =>
          work[r].version = 1 \/ Taken(work[r].source, work[r].version - 1)'
    BY <1>2, <1>5 DEF IInv, WorkOK
  <2> QED
    BY <1>2, <2>1 DEF IInv, WorkOK
<1> QED
  BY <1>5, <1>6 DEF IInv

LEMMA ProposeKeeps ==
  ASSUME IInv, NEW r \in Requests, Propose(r)
  PROVE  IInv'
<1> DEFINE e == [claim |-> work[r].claim, proposer |-> work[r].by, status |-> "proposed", decider |-> None]
           k == Len(adjustments) + 1
<1>1. /\ UNCHANGED <<mappings, snapshots, open>> /\ adjustments' = Append(adjustments, e)
      /\ work' = [work EXCEPT ![r] = Idle]
  BY DEF Propose, Add
<1>2. /\ e.claim = work[r].claim /\ e.proposer = work[r].by /\ e.status = "proposed"
      /\ work[r].claim \in Claims /\ work[r].by \in People /\ ~Proposed(work[r].claim)
  BY DEF Propose, IInv, WorkOK
<1>3. adjustments \in Seq(QoEAdjustment)
  BY DEF IInv, BridgeTypeOK
<1>4. e \in QoEAdjustment
  BY <1>2 DEF QoEAdjustment
<1>5. adjustments' \in Seq(QoEAdjustment)
  <2> HIDE DEF e
  <2> QED
    BY <1>1, <1>3, <1>4
<1> HIDE DEF e
<1>6. /\ DOMAIN adjustments = 1..(k - 1) /\ k \in Nat /\ DOMAIN adjustments' = 1..k
      /\ \A n \in DOMAIN adjustments : adjustments'[n] = adjustments[n]
      /\ adjustments'[k] = e
  BY <1>1, <1>3, Appended
<1>7. \A source, v : Taken(source, v) => Taken(source, v)'
  BY <1>1, SameSnapshots
<1>8. WorkOK'
  <2>1. \A n \in DOMAIN adjustments :
          /\ n \in DOMAIN adjustments'
          /\ adjustments'[n].claim = adjustments[n].claim /\ adjustments'[n].proposer = adjustments[n].proposer
    BY <1>6
  <2> QED
    BY <1>1, <1>7, <2>1, Finished
<1>9. AdjustmentsEarned'
  <2>1. ASSUME NEW m \in DOMAIN adjustments', NEW n \in DOMAIN adjustments',
               adjustments'[m].claim = adjustments'[n].claim
        PROVE  m = n
    <3>1. \A i \in DOMAIN adjustments : adjustments[i].claim # e.claim
      BY <1>2 DEF Proposed
    <3>2. CASE m \in DOMAIN adjustments /\ n \in DOMAIN adjustments
      BY <1>6, <2>1, <3>2 DEF IInv, AdjustmentsEarned
    <3>3. CASE m = k \/ n = k
      BY <1>6, <2>1, <3>1, <3>3
    <3> QED
      BY <1>6, <3>2, <3>3
  <2>2. ASSUME NEW n \in DOMAIN adjustments', adjustments'[n].status = "approved"
        PROVE  adjustments'[n].decider # adjustments'[n].proposer /\ adjustments'[n].claim.evidence
    <3>1. n # k
      BY <1>2, <1>6, <2>2
    <3>2. n \in DOMAIN adjustments
      BY <1>6, <3>1
    <3> QED
      BY <1>6, <2>2, <3>2 DEF IInv, AdjustmentsEarned
  <2> QED
    BY <2>1, <2>2 DEF AdjustmentsEarned
<1>10. BridgeTypeOK'
  BY <1>1, <1>5 DEF IInv, BridgeTypeOK
<1> QED
  BY <1>1, <1>8, <1>9, <1>10, SameSnapshots DEF IInv

LEMMA FindNoDuplicateKeeps ==
  ASSUME IInv, NEW r \in Requests, NEW claim \in Claims, NEW person \in People,
         FindNoDuplicate(r, claim, person)
  PROVE  IInv'
<1> DEFINE w == [at |-> "proposing", claim |-> claim, by |-> person]
<1>1. UNCHANGED <<mappings, snapshots, open, adjustments>> /\ work' = [work EXCEPT ![r] = w]
  BY DEF FindNoDuplicate
<1>2. w.at = "proposing" /\ w.claim = claim /\ w.by = person
  OBVIOUS
<1>3. \A source, v : Taken(source, v) => Taken(source, v)'
  BY <1>1, SameSnapshots
<1>4. WorkOK'
  <2> HIDE DEF w
  <2> QED
    BY <1>1, <1>2, <1>3, WorkStep
<1>5. BridgeTypeOK'
  BY <1>1 DEF IInv, BridgeTypeOK
<1> QED
  BY <1>1, <1>4, <1>5, SameSnapshots, SameAdjustments DEF IInv

LEMMA ConsiderKeeps ==
  ASSUME IInv, NEW r \in Requests, NEW n \in DOMAIN adjustments, NEW person \in People,
         NEW verdict \in {"approved", "rejected"}, Consider(r, n, person, verdict)
  PROVE  IInv'
<1> DEFINE w == [at |-> "deciding", row |-> n, by |-> person, verdict |-> verdict]
<1>1. UNCHANGED <<mappings, snapshots, open, adjustments>> /\ work' = [work EXCEPT ![r] = w]
  BY DEF Consider
<1>2. w.at = "deciding" /\ w.row = n /\ w.by = person /\ w.verdict = verdict
  OBVIOUS
<1>3. \A source, v : Taken(source, v) => Taken(source, v)'
  BY <1>1, SameSnapshots
<1>4. adjustments[n].proposer # person /\ (verdict = "approved" => adjustments[n].claim.evidence)
  BY DEF Consider
<1>5. WorkOK'
  <2> HIDE DEF w
  <2> QED
    BY <1>1, <1>2, <1>3, <1>4, WorkStep
<1>6. BridgeTypeOK'
  BY <1>1 DEF IInv, BridgeTypeOK
<1> QED
  BY <1>1, <1>5, <1>6, SameSnapshots, SameAdjustments DEF IInv

LEMMA DecideKeeps ==
  ASSUME IInv, NEW r \in Requests, Decide(r)
  PROVE  IInv'
<1> DEFINE i == work[r].row
           e == [adjustments[i] EXCEPT !.status = work[r].verdict, !.decider = work[r].by]
<1>1. /\ UNCHANGED <<mappings, snapshots, open>> /\ work' = [work EXCEPT ![r] = Idle]
      /\ adjustments' = [adjustments EXCEPT ![i] = [@ EXCEPT !.status = work[r].verdict, !.decider = work[r].by]]
  BY DEF Decide
<1>2. /\ i \in DOMAIN adjustments /\ work[r].by \in People /\ work[r].verdict \in {"approved", "rejected"}
      /\ adjustments[i].proposer # work[r].by
      /\ work[r].verdict = "approved" => adjustments[i].claim.evidence
  BY DEF Decide, IInv, WorkOK
<1>3. adjustments \in Seq(QoEAdjustment)
  BY DEF IInv, BridgeTypeOK
<1>4. adjustments[i] \in QoEAdjustment /\ e \in QoEAdjustment
  <2>1. adjustments[i] \in QoEAdjustment
    BY <1>2, <1>3, Replaced
  <2> QED
    BY <1>2, <2>1 DEF QoEAdjustment
<1>5. /\ adjustments' \in Seq(QoEAdjustment) /\ DOMAIN adjustments' = DOMAIN adjustments
      /\ \A n \in DOMAIN adjustments : n # i => adjustments'[n] = adjustments[n]
      /\ adjustments'[i] = e
  BY <1>1, <1>2, <1>3, <1>4, Replaced
<1>6. /\ adjustments'[i].claim = adjustments[i].claim /\ adjustments'[i].proposer = adjustments[i].proposer
      /\ adjustments'[i].status = work[r].verdict /\ adjustments'[i].decider = work[r].by
  BY <1>4, <1>5 DEF QoEAdjustment
<1>7. \A n \in DOMAIN adjustments :
        adjustments'[n].claim = adjustments[n].claim /\ adjustments'[n].proposer = adjustments[n].proposer
  BY <1>5, <1>6
<1>8. \A source, v : Taken(source, v) => Taken(source, v)'
  BY <1>1, SameSnapshots
<1>9. WorkOK'
  BY <1>1, <1>5, <1>7, <1>8, Finished
<1>10. AdjustmentsEarned'
  <2>1. \A m, n \in DOMAIN adjustments' : adjustments'[m].claim = adjustments'[n].claim => m = n
    BY <1>5, <1>7 DEF IInv, AdjustmentsEarned
  <2>2. ASSUME NEW n \in DOMAIN adjustments', adjustments'[n].status = "approved"
        PROVE  adjustments'[n].decider # adjustments'[n].proposer /\ adjustments'[n].claim.evidence
    <3>1. CASE n = i
      BY <1>2, <1>6, <2>2, <3>1
    <3>2. CASE n # i
      BY <1>5, <2>2, <3>2 DEF IInv, AdjustmentsEarned
    <3> QED
      BY <3>1, <3>2
  <2> QED
    BY <2>1, <2>2 DEF AdjustmentsEarned
<1>11. BridgeTypeOK'
  BY <1>1, <1>5 DEF IInv, BridgeTypeOK
<1> QED
  BY <1>1, <1>9, <1>10, <1>11, SameSnapshots DEF IInv

\* Steps after which a request is forgotten, and the resolution of an exception.
LEMMA DropKeeps ==
  ASSUME IInv, NEW r \in Requests, work' = [work EXCEPT ![r] = Idle],
         UNCHANGED <<mappings, snapshots, open, adjustments>>
  PROVE  IInv'
<1>1. \A source, v : Taken(source, v) => Taken(source, v)'
  BY SameSnapshots
<1>2. WorkOK'
  BY <1>1, Finished
<1>3. BridgeTypeOK'
  BY DEF IInv, BridgeTypeOK
<1> QED
  BY <1>2, <1>3, SameSnapshots, SameAdjustments DEF IInv

LEMMA QuietKeeps ==
  ASSUME IInv, UNCHANGED <<mappings, snapshots, adjustments, work>>
  PROVE  IInv'
<1>1. WorkOK'
  BY SameSnapshots DEF IInv, WorkOK
<1>2. BridgeTypeOK'
  BY DEF IInv, BridgeTypeOK
<1> QED
  BY <1>1, <1>2, SameSnapshots, SameAdjustments DEF IInv

LEMMA BridgeNext == IInv /\ [Next]_vars => IInv'
<1> SUFFICES ASSUME IInv, [Next]_vars PROVE IInv'
  OBVIOUS
<1>1. CASE UNCHANGED vars
  BY <1>1, QuietKeeps DEF vars
<1>2. ASSUME NEW m \in Mappings, CreateMapping(m) PROVE IInv'
  BY <1>2, CreateMappingKeeps
<1>3. ASSUME NEW source \in References, Register(source) PROVE IInv'
  BY <1>3, RegisterKeeps
<1>4. ASSUME NEW x \in open, Resolve(x) PROVE IInv'
  BY <1>4, QuietKeeps DEF Resolve
<1>5. ASSUME NEW r \in Requests,
             \/ \E file \in Files : Prepare(r, file)
             \/ Number(r) \/ Commit(r) \/ LoseVersion(r)
      PROVE  IInv'
  <2>1. LoseVersion(r) => IInv'
    BY DropKeeps DEF LoseVersion
  <2> QED
    BY <1>5, <2>1, PrepareKeeps, NumberKeeps, CommitKeeps
<1>6. ASSUME NEW r \in Requests,
             \/ \E claim \in Claims, person \in People : FindNoDuplicate(r, claim, person)
             \/ Propose(r) \/ LoseDuplicate(r)
             \/ \E n \in DOMAIN adjustments, person \in People, verdict \in {"approved", "rejected"} :
                  Consider(r, n, person, verdict)
             \/ Decide(r)
      PROVE  IInv'
  <2>1. LoseDuplicate(r) => IInv'
    BY DropKeeps DEF LoseDuplicate
  <2> QED
    BY <1>6, <2>1, FindNoDuplicateKeeps, ProposeKeeps, ConsiderKeeps, DecideKeeps
<1> QED
  BY <1>1, <1>2, <1>3, <1>4, <1>5, <1>6 DEF Next

-----------------------------------------------------------------------------

\* The snapshots of a source are in the order of their versions, so the newest
\* import that gives a figure is the last version of its source that does.
LEMMA OrderedCorrectionWins == IInv => CorrectionWins
<1> SUFFICES ASSUME IInv, NEW accounts, NEW period, NEW x \in Newest(Usable(accounts, period)),
                    NEW y \in Usable(accounts, period),
                    snapshots[y[1]].source = snapshots[x[1]].source, y[2].period = x[2].period
             PROVE  y[1] = x[1] \/ snapshots[y[1]].version < snapshots[x[1]].version
  BY DEF CorrectionWins
<1>1. x \in Facts /\ y \in Facts
  BY DEF Newest, Usable
<1>2. /\ x[1] \in DOMAIN snapshots /\ x[2] \in snapshots[x[1]].facts
      /\ y[1] \in DOMAIN snapshots /\ y[2] \in snapshots[y[1]].facts
  BY <1>1 DEF Facts
<1>3. y[2].period \in Nat
  BY <1>2 DEF IInv, BridgeTypeOK
<1>4. y[1] <= x[1]
  BY <1>3 DEF Newest
<1>5. x[1] \in Nat /\ y[1] \in Nat
  BY <1>2, Appended DEF IInv, Sealed
<1> QED
  BY <1>2, <1>4, <1>5 DEF IInv, InOrder

-----------------------------------------------------------------------------
(* Sums over finite sets.  MapThenSumSet adds up in the order in which     *)
(* CHOOSE picks the elements; the order does not matter, and the sum of a  *)
(* disjoint union is that of its parts.  Each is shown of a smallest set   *)
(* for which it would fail.                                                *)

Pick(s) == CHOOSE x \in s : TRUE

\* g sums w over the subsets of S, as the fold computes it.
Sums(w, S, g) ==
  g = [s \in SUBSET S |-> IF s = {} THEN 0 ELSE w[Pick(s)] + g[s \ {Pick(s)}]]

LEMMA LeastNatural ==
  ASSUME NEW T, T \subseteq Nat, T # {}
  PROVE  \E x \in T : \A y \in T : x <= y
<1>1. IsWellFoundedOn({ss \in Nat \X Nat : ss[1] < ss[2]}, Nat)
  BY NatLessThanWellFounded DEF OpToRel
<1>2. PICK x \in T : \A y \in T : ~ (<<y, x>> \in {ss \in Nat \X Nat : ss[1] < ss[2]})
  BY <1>1, WFMin
<1>3. ASSUME NEW y \in T PROVE x <= y
  <2>1. x \in Nat /\ y \in Nat
    OBVIOUS
  <2>2. ~ (y < x)
    BY <1>2, <2>1
  <2> QED BY <2>1, <2>2
<1> QED BY <1>3

LEMMA SmallestSet ==
  ASSUME NEW S, IsFiniteSet(S), NEW B, B \subseteq SUBSET S, B # {}
  PROVE  \E s \in B : \A t \in B : ~(Cardinality(t) < Cardinality(s))
<1> DEFINE T == {Cardinality(s) : s \in B}
<1>1. \A s \in B : Cardinality(s) \in Nat
  BY FS_Subset, FS_CardinalityType
<1>2. T \subseteq Nat /\ T # {}
  BY <1>1
<1>3. PICK k \in T : \A j \in T : k <= j
  BY <1>2, LeastNatural
<1>4. PICK s \in B : k = Cardinality(s)
  BY <1>3
<1>5. ASSUME NEW t \in B PROVE ~(Cardinality(t) < Cardinality(s))
  BY <1>1, <1>3, <1>4
<1> QED BY <1>5

LEMMA WithoutOne ==
  ASSUME NEW S, IsFiniteSet(S), NEW s \in SUBSET S, NEW x \in s
  PROVE  /\ s \ {x} \in SUBSET S /\ Cardinality(s) \in Nat /\ Cardinality(s \ {x}) \in Nat
         /\ Cardinality(s \ {x}) = Cardinality(s) - 1
<1>1. IsFiniteSet(s)
  BY FS_Subset
<1>2. Cardinality(s \ {x}) = Cardinality(s) - 1
  BY <1>1, FS_RemoveElement
<1>3. IsFiniteSet(s \ {x})
  BY <1>1, FS_RemoveElement
<1> QED BY <1>1, <1>2, <1>3, FS_CardinalityType

LEMMA PickIsIn == ASSUME NEW s, s # {} PROVE Pick(s) \in s
BY DEF Pick

LEMMA SumAt ==
  ASSUME NEW w, NEW S, NEW g, Sums(w, S, g), NEW s \in SUBSET S
  PROVE  /\ s = {} => g[s] = 0
         /\ s # {} => g[s] = w[Pick(s)] + g[s \ {Pick(s)}]
<1>1. g = [t \in SUBSET S |-> IF t = {} THEN 0 ELSE w[Pick(t)] + g[t \ {Pick(t)}]]
  BY DEF Sums
<1> QED BY <1>1

\* What a sum over a part is does not depend on the whole.
LEMMA SumUnique ==
  ASSUME NEW w, NEW S, IsFiniteSet(S), NEW T \in SUBSET S, NEW g, Sums(w, S, g), NEW h, Sums(w, T, h)
  PROVE  \A s \in SUBSET T : g[s] = h[s]
<1> DEFINE B == {s \in SUBSET T : g[s] # h[s]}
<1> SUFFICES ASSUME B # {} PROVE FALSE
  OBVIOUS
<1>1. IsFiniteSet(T)
  BY FS_Subset
<1>2. PICK s \in B : \A t \in B : ~(Cardinality(t) < Cardinality(s))
  BY <1>1, SmallestSet
<1>3. /\ s = {} => g[s] = 0 /\ h[s] = 0
      /\ s # {} => g[s] = w[Pick(s)] + g[s \ {Pick(s)}] /\ h[s] = w[Pick(s)] + h[s \ {Pick(s)}]
  BY SumAt
<1>4. s # {}
  BY <1>3
<1>5. s \ {Pick(s)} \in SUBSET T /\ Cardinality(s \ {Pick(s)}) < Cardinality(s)
  BY <1>1, <1>4, PickIsIn, WithoutOne
<1>6. s \ {Pick(s)} \notin B
  BY <1>2, <1>5
<1>7. g[s \ {Pick(s)}] = h[s \ {Pick(s)}]
  BY <1>5, <1>6
<1> QED BY <1>3, <1>4, <1>7

\* The sums over subsets of up to k elements.
UpTo(S, k) == {t \in SUBSET S : Cardinality(t) <= k}

SumsUpTo(w, S, k, h) ==
  h = [s \in UpTo(S, k) |-> IF s = {} THEN 0 ELSE w[Pick(s)] + h[s \ {Pick(s)}]]

LEMMA SumExists ==
  ASSUME NEW w, NEW S, IsFiniteSet(S)
  PROVE  \E g : Sums(w, S, g)
<1> DEFINE B == {k \in Nat : ~\E h : SumsUpTo(w, S, k, h)}
<1>1. \A t \in SUBSET S : Cardinality(t) \in Nat /\ (Cardinality(t) = 0 <=> t = {}) /\ Cardinality(t) <= Cardinality(S)
  BY FS_Subset, FS_CardinalityType, FS_EmptySet
<1>2. 0 \notin B
  <2> DEFINE h == [s \in UpTo(S, 0) |-> 0]
  <2>1. \A s \in UpTo(S, 0) : s = {}
    BY <1>1 DEF UpTo
  <2>2. h = [s \in UpTo(S, 0) |-> IF s = {} THEN 0 ELSE w[Pick(s)] + h[s \ {Pick(s)}]]
    BY <2>1
  <2>3. SumsUpTo(w, S, 0, h)
    BY <2>2 DEF SumsUpTo
  <2> QED BY <2>3
<1>3. ASSUME NEW k \in Nat, k \notin B PROVE k + 1 \notin B
  <2>1. PICK h : SumsUpTo(w, S, k, h)
    BY <1>3
  <2> DEFINE more == [s \in UpTo(S, k + 1) |-> IF s = {} THEN 0 ELSE w[Pick(s)] + h[s \ {Pick(s)}]]
  <2>2. ASSUME NEW s \in UpTo(S, k + 1), s # {} PROVE s \ {Pick(s)} \in UpTo(S, k) /\ s \ {Pick(s)} \in UpTo(S, k + 1)
    <3>1. s \in SUBSET S /\ Cardinality(s) <= k + 1
      BY DEF UpTo
    <3>2. /\ s \ {Pick(s)} \in SUBSET S /\ Cardinality(s) \in Nat /\ Cardinality(s \ {Pick(s)}) \in Nat
          /\ Cardinality(s \ {Pick(s)}) = Cardinality(s) - 1
      BY <2>2, <3>1, PickIsIn, WithoutOne
    <3>3. Cardinality(s \ {Pick(s)}) <= k /\ Cardinality(s \ {Pick(s)}) <= k + 1
      BY <3>1, <3>2
    <3> QED BY <3>2, <3>3 DEF UpTo
  <2>3. ASSUME NEW s \in UpTo(S, k) PROVE more[s] = h[s]
    <3>1. s \in UpTo(S, k + 1)
      <4>1. Cardinality(s) \in Nat /\ Cardinality(s) <= k
        BY <1>1 DEF UpTo
      <4>2. Cardinality(s) <= k + 1
        BY <4>1
      <4> QED BY <4>2 DEF UpTo
    <3>2. h[s] = IF s = {} THEN 0 ELSE w[Pick(s)] + h[s \ {Pick(s)}]
      <4>1. h = [t \in UpTo(S, k) |-> IF t = {} THEN 0 ELSE w[Pick(t)] + h[t \ {Pick(t)}]]
        BY <2>1 DEF SumsUpTo
      <4> QED BY <4>1
    <3> QED BY <3>1, <3>2
  <2>4. ASSUME NEW s \in UpTo(S, k + 1)
        PROVE  (IF s = {} THEN 0 ELSE w[Pick(s)] + h[s \ {Pick(s)}]) = (IF s = {} THEN 0 ELSE w[Pick(s)] + more[s \ {Pick(s)}])
    <3>1. CASE s = {} BY <3>1
    <3>2. CASE s # {}
      <4>1. more[s \ {Pick(s)}] = h[s \ {Pick(s)}]
        BY <2>2, <2>3, <3>2
      <4> QED BY <3>2, <4>1
    <3> QED BY <3>1, <3>2
  <2>5. more = [s \in UpTo(S, k + 1) |-> IF s = {} THEN 0 ELSE w[Pick(s)] + more[s \ {Pick(s)}]]
    <3> DEFINE f == [s \in UpTo(S, k + 1) |-> IF s = {} THEN 0 ELSE w[Pick(s)] + more[s \ {Pick(s)}]]
    <3>1. DOMAIN more = UpTo(S, k + 1) /\ DOMAIN f = UpTo(S, k + 1)
      OBVIOUS
    <3>2. \A s \in UpTo(S, k + 1) : more[s] = f[s]
      BY <2>4
    <3> QED BY <2>4
  <2> HIDE DEF more
  <2>6. SumsUpTo(w, S, k + 1, more)
    BY <2>5 DEF SumsUpTo
  <2> QED BY <2>6
<1>4. B = {}
  <2> SUFFICES ASSUME B # {} PROVE FALSE
    OBVIOUS
  <2>1. PICK k \in B : \A j \in B : k <= j
    BY LeastNatural
  <2> HIDE DEF B
  <2>2. k \in Nat /\ k # 0
    BY <1>2, <2>1 DEF B
  <2>3. k - 1 \in Nat /\ k - 1 \notin B
    BY <2>1, <2>2
  <2>4. (k - 1) + 1 \notin B
    BY <1>3, <2>3
  <2> QED BY <2>1, <2>2, <2>4
<1>5. UpTo(S, Cardinality(S)) = SUBSET S /\ Cardinality(S) \in Nat
  BY <1>1, FS_CardinalityType DEF UpTo
<1>6. PICK g : SumsUpTo(w, S, Cardinality(S), g)
  BY <1>4, <1>5
<1> QED BY <1>5, <1>6 DEF SumsUpTo, Sums

LEMMA SumIsInt ==
  ASSUME NEW w, NEW S, IsFiniteSet(S), \A x \in S : w[x] \in Int, NEW g, Sums(w, S, g)
  PROVE  \A s \in SUBSET S : g[s] \in Int
<1> DEFINE B == {s \in SUBSET S : g[s] \notin Int}
<1> SUFFICES ASSUME B # {} PROVE FALSE
  OBVIOUS
<1>1. PICK s \in B : \A t \in B : ~(Cardinality(t) < Cardinality(s))
  BY SmallestSet
<1>2. s \in SUBSET S
  BY <1>1
<1>3. s # {} /\ g[s] = w[Pick(s)] + g[s \ {Pick(s)}]
  <2>1. s = {} => g[s] = 0
    BY <1>2, SumAt
  <2>2. s # {}
    BY <1>1, <2>1
  <2>3. g[s] = w[Pick(s)] + g[s \ {Pick(s)}]
    BY <1>2, <2>2, SumAt
  <2> QED BY <2>2, <2>3
<1>4. Pick(s) \in s /\ s \ {Pick(s)} \in SUBSET S /\ Cardinality(s \ {Pick(s)}) < Cardinality(s)
  BY <1>3, PickIsIn, WithoutOne
<1>5. g[s \ {Pick(s)}] \in Int
  BY <1>1, <1>4
<1>6. w[Pick(s)] \in Int
  BY <1>4
<1> QED BY <1>1, <1>2, <1>3, <1>5, <1>6

\* Any element may be the first that is added.
LEMMA SumFrom ==
  ASSUME NEW w, NEW S, IsFiniteSet(S), \A x \in S : w[x] \in Int, NEW g, Sums(w, S, g)
  PROVE  \A s \in SUBSET S : \A x \in s : g[s] = w[x] + g[s \ {x}]
<1> DEFINE B == {s \in SUBSET S : \E x \in s : g[s] # w[x] + g[s \ {x}]}
<1> SUFFICES ASSUME B # {} PROVE FALSE
  OBVIOUS
<1>1. PICK s \in B : \A t \in B : ~(Cardinality(t) < Cardinality(s))
  BY SmallestSet
<1>2. PICK x \in s : g[s] # w[x] + g[s \ {x}]
  OBVIOUS
<1>3. PICK p : p = Pick(s)
  OBVIOUS
<1>4. /\ p \in s /\ s \ {p} \in SUBSET S /\ Cardinality(s \ {p}) < Cardinality(s)
      /\ s \ {x} \in SUBSET S /\ Cardinality(s \ {x}) < Cardinality(s)
  BY <1>3, PickIsIn, WithoutOne
<1>5. g[s] = w[p] + g[s \ {p}]
  <2>1. s \in SUBSET S /\ s # {}
    BY <1>1, <1>2
  <2>2. g[s] = w[Pick(s)] + g[s \ {Pick(s)}]
    BY <2>1, SumAt
  <2> QED BY <1>3, <2>1, <2>2
<1>6. x # p
  BY <1>2, <1>5
<1>7. s \ {p} \notin B /\ s \ {x} \notin B
  BY <1>1, <1>4
<1>8. g[s \ {p}] = w[x] + g[(s \ {p}) \ {x}]
  BY <1>4, <1>6, <1>7
<1>9. g[s \ {x}] = w[p] + g[(s \ {x}) \ {p}]
  BY <1>4, <1>6, <1>7
<1>10. (s \ {p}) \ {x} = (s \ {x}) \ {p} /\ (s \ {p}) \ {x} \in SUBSET S
  OBVIOUS
<1>11. w[x] \in Int /\ w[p] \in Int /\ g[(s \ {p}) \ {x}] \in Int
  <2>1. s \in SUBSET S
    BY <1>1
  <2> QED BY <1>4, <1>10, <2>1, SumIsInt
<1>12. PICK a, b, c : a = w[x] /\ b = w[p] /\ c = g[(s \ {p}) \ {x}]
  OBVIOUS
<1>13. g[s] = b + (a + c) /\ g[s \ {x}] = b + c
  BY <1>5, <1>8, <1>9, <1>10, <1>12
<1>14. a \in Int /\ b \in Int /\ c \in Int
  BY <1>11, <1>12
<1> QED BY <1>2, <1>12, <1>13, <1>14

LEMMA SumOfNothing ==
  ASSUME NEW w, NEW S, NEW g, Sums(w, S, g)
  PROVE  g[{}] = 0
<1>1. {} \in SUBSET S
  OBVIOUS
<1> QED BY <1>1, SumAt

LEMMA SumOfUnion ==
  ASSUME NEW w, NEW S, IsFiniteSet(S), \A x \in S : w[x] \in Int, NEW g, Sums(w, S, g)
  PROVE  \A s, t \in SUBSET S : s \cap t = {} => g[s \cup t] = g[s] + g[t]
<1> SUFFICES ASSUME NEW t \in SUBSET S
             PROVE  \A s \in SUBSET S : s \cap t = {} => g[s \cup t] = g[s] + g[t]
  OBVIOUS
<1> DEFINE B == {s \in SUBSET S : s \cap t = {} /\ g[s \cup t] # g[s] + g[t]}
<1> SUFFICES ASSUME B # {} PROVE FALSE
  OBVIOUS
<1>1. PICK s \in B : \A r \in B : ~(Cardinality(r) < Cardinality(s))
  BY SmallestSet
<1>2. \A r \in SUBSET S : g[r] \in Int
  BY SumIsInt
<1>3. s # {}
  <2> SUFFICES ASSUME s = {} PROVE FALSE
    OBVIOUS
  <2>1. g[{}] = 0 /\ g[t] \in Int
    BY <1>2, SumOfNothing
  <2>2. s \cup t = t
    OBVIOUS
  <2>3. g[s \cup t] # g[s] + g[t]
    BY <1>1
  <2> QED BY <2>1, <2>2, <2>3
<1>4. PICK x \in s : TRUE
  BY <1>3
<1>5. s \ {x} \in SUBSET S /\ Cardinality(s \ {x}) < Cardinality(s)
  BY WithoutOne
<1>6. s \ {x} \notin B
  BY <1>1, <1>5
<1>7. g[(s \ {x}) \cup t] = g[s \ {x}] + g[t]
  BY <1>1, <1>5, <1>6
<1>8. s \cup t \in SUBSET S /\ x \in s \cup t /\ (s \cup t) \ {x} = (s \ {x}) \cup t
  BY <1>1
<1>9. g[s \cup t] = w[x] + g[(s \ {x}) \cup t]
  BY <1>8, SumFrom
<1>10. g[s] = w[x] + g[s \ {x}]
  BY SumFrom
<1>11. w[x] \in Int /\ g[s \ {x}] \in Int /\ g[t] \in Int
  BY <1>2, <1>5
<1> QED BY <1>1, <1>7, <1>9, <1>10, <1>11

-----------------------------------------------------------------------------
(* The amounts of adjustments.                                             *)

Amounts == [n \in DOMAIN adjustments |-> Amount(n)]

\* MapThenSumSet(Amount, S) is iter[S] for the iter that CHOOSE picks.
IsSum(S, iter) ==
  iter = [s \in SUBSET S |-> IF s = {} THEN 0 ELSE Amount(Pick(s)) + iter[s \ {Pick(s)}]]

LEMMA FoldIsChosen == \A S : MapThenSumSet(Amount, S) = (CHOOSE iter : IsSum(S, iter))[S]
BY DEF MapThenSumSet, MapThenFoldSet, IsSum, Pick

LEMMA SumsOfAmounts ==
  ASSUME NEW S \in SUBSET DOMAIN adjustments, NEW h
  PROVE  IsSum(S, h) <=> Sums(Amounts, S, h)
<1>1. ASSUME NEW s \in SUBSET S, s # {} PROVE Amounts[Pick(s)] = Amount(Pick(s))
  <2>1. Pick(s) \in DOMAIN adjustments
    BY <1>1, PickIsIn
  <2> QED BY <2>1 DEF Amounts
<1> DEFINE F == [s \in SUBSET S |-> IF s = {} THEN 0 ELSE Amount(Pick(s)) + h[s \ {Pick(s)}]]
           G == [s \in SUBSET S |-> IF s = {} THEN 0 ELSE Amounts[Pick(s)] + h[s \ {Pick(s)}]]
<1>2. F = G
  BY <1>1
<1> QED BY <1>2 DEF IsSum, Sums

LEMMA AmountsAreInt ==
  ASSUME BridgeTypeOK
  PROVE  IsFiniteSet(DOMAIN adjustments) /\ \A n \in DOMAIN adjustments : Amounts[n] \in Int
<1>1. adjustments \in Seq(QoEAdjustment)
  BY DEF BridgeTypeOK
<1>2. DOMAIN adjustments = 1..Len(adjustments) /\ Len(adjustments) \in Nat
  BY <1>1
<1>3. IsFiniteSet(DOMAIN adjustments)
  BY <1>2, FS_Interval
<1>4. ASSUME NEW n \in DOMAIN adjustments PROVE Amounts[n] \in Int
  <2>0. adjustments[n] \in QoEAdjustment
    BY <1>1
  <2>1. adjustments[n].claim \in Claims
    BY <2>0 DEF QoEAdjustment
  <2>2. adjustments[n].claim.amount \in Int
    BY <2>1, BridgeAssumption DEF BridgeAssumption, Claim
  <2> QED BY <2>2 DEF Amounts, Amount
<1> QED BY <1>3, <1>4

LEMMA FoldIsSum ==
  ASSUME BridgeTypeOK, NEW g, Sums(Amounts, DOMAIN adjustments, g), NEW S \in SUBSET DOMAIN adjustments
  PROVE  MapThenSumSet(Amount, S) = g[S]
<1>1. IsFiniteSet(DOMAIN adjustments) /\ IsFiniteSet(S)
  BY AmountsAreInt, FS_Subset
<1>2. PICK h : h = (CHOOSE iter : IsSum(S, iter))
  OBVIOUS
<1>3. \E iter : IsSum(S, iter)
  BY <1>1, SumExists, SumsOfAmounts
<1>4. IsSum(S, h)
  BY <1>2, <1>3
<1>5. Sums(Amounts, S, h)
  BY <1>4, SumsOfAmounts
<1>6. g[S] = h[S]
  BY <1>1, <1>5, SumUnique
<1> QED BY <1>2, <1>6, FoldIsChosen

\* What two sets of adjustments add up to.
LEMMA AmountsAddUp ==
  ASSUME BridgeTypeOK, NEW S \in SUBSET DOMAIN adjustments, NEW T \in SUBSET DOMAIN adjustments, S \cap T = {}
  PROVE  /\ MapThenSumSet(Amount, S \cup T) = MapThenSumSet(Amount, S) + MapThenSumSet(Amount, T)
         /\ MapThenSumSet(Amount, S) \in Int /\ MapThenSumSet(Amount, T) \in Int
<1>1. IsFiniteSet(DOMAIN adjustments) /\ \A n \in DOMAIN adjustments : Amounts[n] \in Int
  BY AmountsAreInt
<1>2. PICK g : Sums(Amounts, DOMAIN adjustments, g)
  BY <1>1, SumExists
<1>3. g[S \cup T] = g[S] + g[T] /\ g[S] \in Int /\ g[T] \in Int
  <2>1. \A s \in SUBSET DOMAIN adjustments : g[s] \in Int
    BY <1>1, <1>2, SumIsInt
  <2>2. \A s \in SUBSET DOMAIN adjustments : s \cap T = {} => g[s \cup T] = g[s] + g[T]
    BY <1>1, <1>2, SumOfUnion
  <2> QED BY <2>1, <2>2
<1>4. S \cup T \in SUBSET DOMAIN adjustments
  OBVIOUS
<1>5. /\ MapThenSumSet(Amount, S) = g[S] /\ MapThenSumSet(Amount, T) = g[T]
      /\ MapThenSumSet(Amount, S \cup T) = g[S \cup T]
  BY <1>2, <1>4, FoldIsSum
<1> QED BY <1>3, <1>5

-----------------------------------------------------------------------------
(* What the dashboard says of the sources rests on what the facts are and  *)
(* on which snapshots had exceptions.                                      *)

\* A fact has a number, and counts unless it has no account.
FactOK(f) ==
  /\ f.value \in Int
  /\ f.state \in {"mapped_explicit", "mapped", "mapping_exception", "unmapped"}
  /\ f.state = "unmapped" => f.account = None

\* A snapshot is ready only if its import found no exceptions, and exceptions
\* are open only of snapshots that had some.
SnapshotsOK ==
  /\ \A n \in DOMAIN snapshots :
       /\ \A f \in snapshots[n].facts : FactOK(f)
       /\ snapshots[n].status = "ready" => Exceptions(snapshots[n].facts) = {}
  /\ \A x \in open : x[1] \in DOMAIN snapshots /\ Exceptions(snapshots[x[1]].facts) # {}

HealthInv ==
  /\ SnapshotsOK
  /\ \A r \in Requests : work[r].at \in {"prepared", "numbered"} => \A f \in work[r].facts : FactOK(f)

LEMMA LastIsOne ==
  ASSUME NEW n \in Nat, NEW S, S \subseteq 1..n, S # {}
  PROVE  Max(S) \in S
<1> DEFINE T == {k \in Nat : n - k \in S}
<1>1. ASSUME NEW y \in S PROVE n - y \in T
  <2>1. y \in 1..n
    OBVIOUS
  <2>2. n - y \in Nat /\ n - (n - y) = y
    BY <2>1
  <2> QED BY <2>2
<1>2. T \subseteq Nat /\ T # {}
  BY <1>1
<1> HIDE DEF T
<1>3. PICK k \in T : \A j \in T : k <= j
  BY <1>2, LeastNatural
<1>4. n - k \in S /\ k \in Nat
  BY DEF T
<1>5. ASSUME NEW y \in S PROVE n - k >= y
  <2>1. y \in 1..n /\ k <= n - y
    BY <1>1, <1>3
  <2> QED BY <2>1, <1>4
<1>6. \E m \in S : \A y \in S : m >= y
  BY <1>4, <1>5
<1> QED BY <1>6 DEF Max

LEMMA ApprovedIsMapping ==
  ASSUME BridgeTypeOK, NEW label \in Labels, ApprovedMapping(label) # None
  PROVE  ApprovedMapping(label) \in Mappings
<1> DEFINE approved == {v \in DOMAIN mappings[label] : mappings[label][v].status = "approved"}
<1>1. mappings[label] \in Seq(Mappings)
  BY DEF BridgeTypeOK
<1>2. approved # {} /\ ApprovedMapping(label) = mappings[label][Max(approved)]
  BY DEF ApprovedMapping
<1>3. approved \subseteq 1..Len(mappings[label]) /\ Len(mappings[label]) \in Nat
  BY <1>1
<1> HIDE DEF approved
<1>4. Max(approved) \in 1..Len(mappings[label])
  BY <1>2, <1>3, LastIsOne
<1> QED BY <1>1, <1>2, <1>4

LEMMA FactsOK ==
  ASSUME BridgeTypeOK, NEW file \in Files, NEW row \in file.rows
  PROVE  FactOK(Fact(row))
<1>1. row \in Row /\ row.label \in Labels
  BY BridgeAssumption DEF BridgeAssumption, Row, Labels
<1> PICK map : map = ApprovedMapping(row.label)
  OBVIOUS
<1> DEFINE used == row.account = None /\ map # None
<1>2. /\ Fact(row).value = row.value * (IF used THEN map.sign ELSE 1)
      /\ Fact(row).account = IF used THEN map.account ELSE row.account
      /\ Fact(row).state = CASE row.account # None -> "mapped_explicit"
                             [] used /\ map.statement = row.statement -> "mapped"
                             [] used /\ map.statement # row.statement -> "mapping_exception"
                             [] OTHER -> "unmapped"
  BY DEF Fact
<1>3. Fact(row).value \in Int
  <2>1. row.value \in Int
    BY <1>1 DEF Row
  <2>2. CASE used
    <3>1. map \in Mappings
      BY <1>1, <2>2, ApprovedIsMapping
    <3>2. map.sign \in Int
      BY <3>1, BridgeAssumption DEF BridgeAssumption, Mapping
    <3>3. row.value * map.sign \in Int
      BY <2>1, <3>2
    <3> QED BY <1>2, <2>2, <3>3
  <2>3. CASE ~used
    BY <1>2, <2>1, <2>3
  <2> QED BY <2>2, <2>3
<1>4. /\ Fact(row).state \in {"mapped_explicit", "mapped", "mapping_exception", "unmapped"}
      /\ Fact(row).state = "unmapped" => ~used /\ row.account = None
  BY <1>2
<1>5. Fact(row).state = "unmapped" => Fact(row).account = None
  BY <1>2, <1>4
<1> QED BY <1>3, <1>4, <1>5 DEF FactOK

LEMMA HealthInit == Init => HealthInv
<1> SUFFICES ASSUME Init PROVE HealthInv
  OBVIOUS
<1>1. /\ snapshots = <<>> /\ open = {} /\ work = [r \in Requests |-> Idle]
  BY DEF Init
<1> QED BY <1>1 DEF HealthInv, SnapshotsOK, Idle

\* One snapshot more, and what is open about it.
LEMMA SnapshotSealed ==
  ASSUME Sealed, SnapshotsOK, NEW e, snapshots' = Append(snapshots, e),
         \A f \in e.facts : FactOK(f), e.status = "ready" => Exceptions(e.facts) = {},
         \A x \in open' : x \in open \/ (x[1] = Len(snapshots) + 1 /\ Exceptions(e.facts) # {})
  PROVE  SnapshotsOK'
<1>1. /\ DOMAIN snapshots = 1..Len(snapshots) /\ Len(snapshots) \in Nat
      /\ DOMAIN snapshots' = 1..(Len(snapshots) + 1)
      /\ \A n \in DOMAIN snapshots : snapshots'[n] = snapshots[n]
      /\ snapshots'[Len(snapshots) + 1] = e
  BY Appended DEF Sealed
<1>2. ASSUME NEW n \in DOMAIN snapshots'
      PROVE  /\ \A f \in snapshots'[n].facts : FactOK(f)
             /\ snapshots'[n].status = "ready" => Exceptions(snapshots'[n].facts) = {}
  <2>1. CASE n = Len(snapshots) + 1
    BY <1>1, <2>1
  <2>2. CASE n # Len(snapshots) + 1
    <3>1. n \in DOMAIN snapshots
      BY <1>1, <2>2
    <3> QED BY <1>1, <3>1 DEF SnapshotsOK
  <2> QED BY <2>1, <2>2
<1>3. ASSUME NEW x \in open'
      PROVE  x[1] \in DOMAIN snapshots' /\ Exceptions(snapshots'[x[1]].facts) # {}
  <2>1. CASE x \in open
    <3>1. x[1] \in DOMAIN snapshots /\ Exceptions(snapshots[x[1]].facts) # {}
      BY <2>1 DEF SnapshotsOK
    <3> QED BY <1>1, <3>1
  <2>2. CASE x[1] = Len(snapshots) + 1 /\ Exceptions(e.facts) # {}
    BY <1>1, <2>2
  <2> QED BY <2>1, <2>2
<1> QED BY <1>2, <1>3 DEF SnapshotsOK

\* A request that holds no rows, or the rows it held.
LEMMA RowsStay ==
  ASSUME IInv, HealthInv, NEW r \in Requests, NEW w, work' = [work EXCEPT ![r] = w], SnapshotsOK',
         w.at \in {"prepared", "numbered"} => \A f \in w.facts : FactOK(f)
  PROVE  HealthInv'
<1>1. DOMAIN work = Requests
  BY DEF IInv, WorkOK
<1>2. work'[r] = w /\ \A s \in Requests \ {r} : work'[s] = work[s]
  BY <1>1
<1> QED BY <1>2 DEF HealthInv

LEMMA PrepareHealth ==
  ASSUME IInv, HealthInv, NEW r \in Requests, NEW file \in Files, Prepare(r, file)
  PROVE  HealthInv'
<1> DEFINE w == [at |-> "prepared", source |-> file.source, facts |-> {Fact(row) : row \in file.rows}]
<1>1. UNCHANGED <<snapshots, open>> /\ work' = [work EXCEPT ![r] = w]
  BY DEF Prepare
<1>2. \A row \in file.rows : FactOK(Fact(row))
  BY FactsOK DEF IInv
<1>3. \A f \in {Fact(row) : row \in file.rows} : FactOK(f)
  BY <1>2
<1>4. w.facts = {Fact(row) : row \in file.rows}
  OBVIOUS
<1> HIDE DEF w
<1>5. SnapshotsOK'
  BY <1>1 DEF HealthInv, SnapshotsOK
<1> QED BY <1>1, <1>3, <1>4, <1>5, RowsStay

LEMMA NumberHealth ==
  ASSUME IInv, HealthInv, NEW r \in Requests, Number(r)
  PROVE  HealthInv'
<1>1. PICK version : work' = [work EXCEPT ![r] =
        [at |-> "numbered", source |-> @.source, facts |-> @.facts, version |-> version]]
  BY DEF Number
<1> DEFINE w == [at |-> "numbered", source |-> work[r].source, facts |-> work[r].facts, version |-> version]
<1>2. work' = [work EXCEPT ![r] = w] /\ w.facts = work[r].facts
  BY <1>1
<1> HIDE DEF w
<1>3. \A f \in w.facts : FactOK(f)
  BY <1>2 DEF HealthInv, Number
<1>4. SnapshotsOK'
  BY DEF HealthInv, SnapshotsOK, Number
<1> QED BY <1>2, <1>3, <1>4, RowsStay

LEMMA CommitHealth ==
  ASSUME IInv, HealthInv, NEW r \in Requests, Commit(r)
  PROVE  HealthInv'
<1> DEFINE found == Exceptions(work[r].facts)
           e == [source |-> work[r].source, version |-> work[r].version, facts |-> work[r].facts,
                 status |-> IF found = {} THEN "ready" ELSE "partial"]
<1>1. /\ snapshots' = Append(snapshots, e) /\ work' = [work EXCEPT ![r] = Idle]
      /\ open' = open \cup {<<Len(snapshots) + 1, x[1], x[2]>> : x \in found}
  BY DEF Commit, Seal
<1>2. e.facts = work[r].facts /\ (e.status = "ready" => found = {})
  OBVIOUS
<1>3. \A f \in work[r].facts : FactOK(f)
  BY DEF HealthInv, Commit
<1>4. \A y \in open' : y \in open \/ (y[1] = Len(snapshots) + 1 /\ found # {})
  <2> HIDE DEF found, e
  <2> QED BY <1>1
<1> HIDE DEF e
<1>5. SnapshotsOK'
  BY <1>1, <1>2, <1>3, <1>4, SnapshotSealed DEF IInv, HealthInv
<1>6. Idle.at = "idle"
  BY DEF Idle
<1> QED BY <1>1, <1>5, <1>6, RowsStay

LEMMA RegisterHealth ==
  ASSUME IInv, HealthInv, NEW source \in References, Register(source)
  PROVE  HealthInv'
<1>1. PICK version : snapshots' = Append(snapshots,
        [source |-> source, version |-> version, facts |-> {}, status |-> "partial"])
  BY DEF Register
<1> DEFINE e == [source |-> source, version |-> version, facts |-> {}, status |-> "partial"]
<1>2. snapshots' = Append(snapshots, e) /\ e.facts = {} /\ e.status = "partial"
  BY <1>1
<1> HIDE DEF e
<1>3. open' = open /\ work' = work
  BY DEF Register
<1>4. SnapshotsOK'
  BY <1>2, <1>3, SnapshotSealed DEF IInv, HealthInv
<1> QED BY <1>3, <1>4 DEF HealthInv

\* The other steps leave the snapshots alone, resolve an exception, or
\* concern adjustments.
LEMMA OthersHealth ==
  ASSUME IInv, HealthInv, snapshots' = snapshots, open' \in SUBSET open,
         \/ work' = work
         \/ \E r \in Requests : \E w : work' = [work EXCEPT ![r] = w] /\ w.at \in {"idle", "proposing", "deciding"}
  PROVE  HealthInv'
<1>1. SnapshotsOK'
  BY DEF HealthInv, SnapshotsOK
<1>2. CASE work' = work
  BY <1>1, <1>2 DEF HealthInv
<1>3. ASSUME NEW r \in Requests, NEW w, work' = [work EXCEPT ![r] = w], w.at \in {"idle", "proposing", "deciding"}
      PROVE  HealthInv'
  BY <1>1, <1>3, RowsStay
<1> QED BY <1>2, <1>3

LEMMA HealthNext == IInv /\ HealthInv /\ [Next]_vars => HealthInv'
<1> SUFFICES ASSUME IInv, HealthInv, [Next]_vars PROVE HealthInv'
  OBVIOUS
<1>1. CASE UNCHANGED vars
  BY <1>1, OthersHealth DEF vars
<1>2. ASSUME NEW m \in Mappings, CreateMapping(m) PROVE HealthInv'
  BY <1>2, OthersHealth DEF CreateMapping
<1>3. ASSUME NEW source \in References, Register(source) PROVE HealthInv'
  BY <1>3, RegisterHealth
<1>4. ASSUME NEW x \in open, Resolve(x) PROVE HealthInv'
  BY <1>4, OthersHealth DEF Resolve
<1>5. ASSUME NEW r \in Requests,
             \/ \E claim \in Claims, person \in People : FindNoDuplicate(r, claim, person)
             \/ Propose(r) \/ LoseDuplicate(r) \/ LoseVersion(r)
             \/ \E n \in DOMAIN adjustments, person \in People, verdict \in {"approved", "rejected"} :
                  Consider(r, n, person, verdict)
             \/ Decide(r)
      PROVE  HealthInv'
  <2>1. Idle.at = "idle"
    BY DEF Idle
  <2>2. snapshots' = snapshots /\ open' = open
    BY <1>5 DEF FindNoDuplicate, Propose, LoseDuplicate, LoseVersion, Consider, Decide, Add
  <2>3. CASE work' = [work EXCEPT ![r] = Idle]
    BY <2>1, <2>2, <2>3, OthersHealth
  <2>4. ASSUME NEW claim \in Claims, NEW person \in People, FindNoDuplicate(r, claim, person) PROVE HealthInv'
    <3> DEFINE w == [at |-> "proposing", claim |-> claim, by |-> person]
    <3>0. work' = [work EXCEPT ![r] = w] /\ w.at = "proposing"
      BY <2>4 DEF FindNoDuplicate
    <3> HIDE DEF w
    <3>1. \E v : work' = [work EXCEPT ![r] = v] /\ v.at = "proposing"
      BY <3>0
    <3> QED BY <2>2, <3>1, OthersHealth
  <2>5. ASSUME NEW n \in DOMAIN adjustments, NEW person \in People, NEW verdict \in {"approved", "rejected"},
               Consider(r, n, person, verdict)
        PROVE  HealthInv'
    <3> DEFINE w == [at |-> "deciding", row |-> n, by |-> person, verdict |-> verdict]
    <3>0. work' = [work EXCEPT ![r] = w] /\ w.at = "deciding"
      BY <2>5 DEF Consider
    <3> HIDE DEF w
    <3>1. \E v : work' = [work EXCEPT ![r] = v] /\ v.at = "deciding"
      BY <3>0
    <3> QED BY <2>2, <3>1, OthersHealth
  <2>6. Propose(r) \/ LoseDuplicate(r) \/ LoseVersion(r) \/ Decide(r) => work' = [work EXCEPT ![r] = Idle]
    BY DEF Propose, LoseDuplicate, LoseVersion, Decide, Add
  <2> QED BY <1>5, <2>3, <2>4, <2>5, <2>6
<1>6. \A r \in Requests, file \in Files : Prepare(r, file) => HealthInv'
  BY PrepareHealth
<1>7. \A r \in Requests : Number(r) \/ Commit(r) => HealthInv'
  BY NumberHealth, CommitHealth
<1> QED BY <1>1, <1>2, <1>3, <1>4, <1>5, <1>6, <1>7 DEF Next

\* A source is called ready only when all of its current version counts.
LEMMA ReadyCounts ==
  ASSUME IInv, HealthInv, Health = "ready", NEW n \in CurrentSnapshots
  PROVE  /\ ~\E x \in open : x[1] = n
         /\ \A f \in snapshots[n].facts :
              /\ IsMapped(f)
              /\ f.statement = "balance_sheet" => Reconciled(Sheet(snapshots[n].facts, f.period)) = "passed"
<1>1. n \in DOMAIN snapshots /\ snapshots[n].status # "partial"
  BY DEF Health, CurrentSnapshots
<1>2. snapshots[n].status = "ready"
  BY <1>1 DEF IInv, BridgeTypeOK
<1> DEFINE facts == snapshots[n].facts
<1>3. Exceptions(facts) = {}
  BY <1>1, <1>2 DEF HealthInv, SnapshotsOK
<1>4. ~\E x \in open : x[1] = n
  BY <1>3 DEF HealthInv, SnapshotsOK
<1>5. \A f \in facts : FactOK(f)
  BY <1>1 DEF HealthInv, SnapshotsOK
<1> HIDE DEF facts
<1>6. ASSUME NEW f \in facts
      PROVE  IsMapped(f) /\ (f.statement = "balance_sheet" => Reconciled(Sheet(facts, f.period)) = "passed")
  <2>1. f.state # "mapping_exception"
    BY <1>3 DEF Exceptions
  <2>2. f.account # None
    BY <1>3 DEF Exceptions
  <2>3. IsMapped(f)
    BY <1>5, <2>1, <2>2 DEF FactOK, IsMapped
  <2>4. f.statement = "balance_sheet" => f.period \in Sheets(facts)
    BY <2>3 DEF Sheets
  <2>5. \A p \in Sheets(facts) : Reconciled(Sheet(facts, p)) = "passed"
    BY <1>3 DEF Exceptions
  <2> QED BY <2>3, <2>4, <2>5
<1> QED BY <1>4, <1>6 DEF facts

\* The two searches for the newest reported EBITDA find the same facts.
LEMMA SameBase ==
  ASSUME IInv
  PROVE  LatestEbitda = Reported(None)
<1>1. EbitdaFacts = Usable({"ebitda"}, None)
  BY DEF EbitdaFacts, Usable, IsMapped
<1>2. \A x \in EbitdaFacts : x[1] \in Nat /\ x[2].period \in Nat
  <2> SUFFICES ASSUME NEW x \in EbitdaFacts PROVE x[1] \in Nat /\ x[2].period \in Nat
    OBVIOUS
  <2>1. x[1] \in DOMAIN snapshots /\ x[2] \in snapshots[x[1]].facts
    BY DEF EbitdaFacts, Facts
  <2>2. x[1] \in Nat
    BY <2>1, Appended DEF IInv, Sealed
  <2> QED BY <2>1, <2>2 DEF IInv, BridgeTypeOK
<1>3. \A x, y \in EbitdaFacts :
        ~(y[2].period > x[2].period \/ (y[2].period = x[2].period /\ y[1] > x[1])) <=>
        (y[2].period < x[2].period \/ (y[2].period = x[2].period /\ y[1] <= x[1]))
  <2> SUFFICES ASSUME NEW x \in EbitdaFacts, NEW y \in EbitdaFacts
               PROVE  ~(y[2].period > x[2].period \/ (y[2].period = x[2].period /\ y[1] > x[1])) <=>
                      (y[2].period < x[2].period \/ (y[2].period = x[2].period /\ y[1] <= x[1]))
    OBVIOUS
  <2>1. x[1] \in Nat /\ x[2].period \in Nat /\ y[1] \in Nat /\ y[2].period \in Nat
    BY <1>2
  <2> QED BY <2>1
<1> QED BY <1>1, <1>3 DEF LatestEbitda, Reported, Newest

\* The bridge adds the layers one by one, the dashboard all at once.
LEMMA SameSponsor ==
  ASSUME IInv, HealthInv, NEW x \in Reported(None), NEW base,
         base.period = x[2].period, base.currency = x[2].currency
  PROVE  x[2].value + MapThenSumSet(Amount, Accepted(x)) = x[2].value + Layer(base, "management") + Layer(base, "sponsor")
<1> DEFINE M == {n \in Included(base) : adjustments[n].claim.layer = "management"}
           S == {n \in Included(base) : adjustments[n].claim.layer = "sponsor"}
<1>1. M \in SUBSET DOMAIN adjustments /\ S \in SUBSET DOMAIN adjustments /\ M \cap S = {}
  BY DEF Included
<1>2. Accepted(x) = M \cup S
  BY DEF Accepted, Included
<1>3. Layer(base, "management") = MapThenSumSet(Amount, M) /\ Layer(base, "sponsor") = MapThenSumSet(Amount, S)
  BY DEF Layer
<1> HIDE DEF M, S
<1>4. /\ MapThenSumSet(Amount, M \cup S) = MapThenSumSet(Amount, M) + MapThenSumSet(Amount, S)
      /\ MapThenSumSet(Amount, M) \in Int /\ MapThenSumSet(Amount, S) \in Int
  BY <1>1, AmountsAddUp DEF IInv
<1>5. x[2].value \in Int
  <2>1. x \in Facts
    BY DEF Reported, Newest, Usable
  <2>2. x[1] \in DOMAIN snapshots /\ x[2] \in snapshots[x[1]].facts
    BY <2>1 DEF Facts
  <2> QED BY <2>2 DEF HealthInv, SnapshotsOK, FactOK
<1>6. PICK v, a, b : v = x[2].value /\ a = MapThenSumSet(Amount, M) /\ b = MapThenSumSet(Amount, S)
  OBVIOUS
<1>7. v + (a + b) = v + a + b
  BY <1>4, <1>5, <1>6
<1> QED BY <1>2, <1>3, <1>4, <1>6, <1>7

LEMMA QualityIsBridge ==
  ASSUME IInv, HealthInv
  PROVE  Quality = IF Reported(None) = {} THEN {} ELSE Bridge(None)
<1> DEFINE Base(x) == [period |-> x[2].period, currency |-> x[2].currency, ebitda |-> x[2].value]
           Shown(x) == [period |-> x[2].period, currency |-> x[2].currency, reported |-> x[2].value,
                        sponsor |-> x[2].value + MapThenSumSet(Amount, Accepted(x))]
           Answered(b) == [period |-> b.period, currency |-> b.currency, reported |-> b.ebitda,
                           sponsor |-> b.ebitda + Layer(b, "management") + Layer(b, "sponsor")]
<1>1. Quality = {Shown(x) : x \in Reported(None)}
  BY SameBase DEF Quality
<1>2. CASE Reported(None) = {}
  BY <1>1, <1>2
<1>3. CASE Reported(None) # {}
  <2>1. Bases(None) = {Base(x) : x \in Reported(None)}
    BY <1>3 DEF Bases
  <2>2. Bridge(None) = {Answered(b) : b \in Bases(None)}
    BY DEF Bridge
  <2>3. ASSUME NEW x \in Reported(None) PROVE Answered(Base(x)) = Shown(x)
    <3>1. Base(x).period = x[2].period /\ Base(x).currency = x[2].currency /\ Base(x).ebitda = x[2].value
      OBVIOUS
    <3> HIDE DEF Base
    <3>2. x[2].value + MapThenSumSet(Amount, Accepted(x))
            = x[2].value + Layer(Base(x), "management") + Layer(Base(x), "sponsor")
      BY <3>1, SameSponsor
    <3> QED BY <3>1, <3>2
  <2> HIDE DEF Base, Shown, Answered
  <2>4. Bridge(None) = {Shown(x) : x \in Reported(None)}
    BY <2>1, <2>2, <2>3
  <2> QED BY <1>1, <1>3, <2>4
<1> QED BY <1>2, <1>3

-----------------------------------------------------------------------------

\* Every variable keeps its type, for any number of requests, files and claims.
THEOREM BridgeTypes == Spec => []BridgeTypeOK
<1>1. IInv => BridgeTypeOK
  BY DEF IInv
<1> QED
  BY <1>1, BridgeInit, BridgeNext, PTL DEF Spec

\* Whatever imports race, the bridge never takes a figure from a version of a
\* source that a later version gives again (import_financial_rows,
\* _find_reported_ebitda).
THEOREM BridgeCorrectionWins == Spec => []CorrectionWins
BY BridgeInit, BridgeNext, OrderedCorrectionWins, PTL DEF Spec

\* Whatever requests race, no adjustment is counted twice, approved by its
\* proposer or approved without evidence (create_qoe_adjustment,
\* decide_qoe_adjustment).
THEOREM BridgeAdjustmentsEarned == Spec => []AdjustmentsEarned
<1>1. IInv => AdjustmentsEarned
  BY DEF IInv
<1> QED
  BY <1>1, BridgeInit, BridgeNext, PTL DEF Spec

\* For any claims, files and requests: the dashboard shows a reported EBITDA
\* whenever the bridge rests on one, with the same sponsor EBITDA, and calls
\* sources ready only when all of their current versions counts
\* (_financial_quality, _source_health).
THEOREM BridgeDashboardHolds == Spec => []DashboardHolds
<1>1. IInv /\ HealthInv => DashboardHolds
  BY QualityIsBridge, ReadyCounts DEF DashboardHolds
<1> QED
  BY <1>1, BridgeInit, BridgeNext, HealthInit, HealthNext, PTL DEF Spec
=============================================================================
