-------------------------- MODULE FilingFeed_proofs --------------------------
(***************************************************************************)
(* Proofs about FilingFeed, for any companies, refreshes, polling clients  *)
(* and faults: what a sync reports, the types, and that cursors and events *)
(* implement FilingLog.                                                    *)
(***************************************************************************)
EXTENDS FilingFeed, FiniteSetTheorems, TLAPS

\* A sync between its load and its commit has yet to insert events, which have
\* positions from 1 on; what it reports it stored or is about to commit, and
\* no other sync has inserted it.
SyncInv ==
  /\ batch \in [Syncs -> SUBSET Nat]
  /\ DOMAIN pending = Syncs /\ DOMAIN created = Syncs
  /\ \A s \in Syncs :
       /\ batch[s] = Idle => pending[s] = {}
       /\ batch[s] # Idle => 0 \notin batch[s]
       /\ pending[s] \subseteq created[s] /\ created[s] \subseteq notes \cup pending[s]
       /\ \A t \in Syncs \ {s} : created[s] \cap created[t] = {}

LEMMA InitSyncInv == Init => SyncInv
BY DEF Init, SyncInv, Idle

\* What is loaded are positions in the log, which start at 1.
LEMMA UnmappedPositions == Unmapped \subseteq Nat \ {0}
BY DEF Unmapped

LEMMA LoadSyncInv ==
  ASSUME SyncInv, NEW s \in Syncs, SyncLoad(s)
  PROVE  SyncInv'
<1>1. batch' = [batch EXCEPT ![s] = Unmapped] /\ created' = [created EXCEPT ![s] = {}]
      /\ UNCHANGED <<notes, pending>> /\ pending[s] = {}
  BY DEF SyncLoad, SyncInv
<1>2. QED BY <1>1, UnmappedPositions DEF SyncInv

LEMMA InsertSyncInv ==
  ASSUME SyncInv, NEW s \in Syncs, SyncInsert(s)
  PROVE  SyncInv'
<1> DEFINE i == Oldest(s)
<1>1. /\ batch[s] # Idle /\ notes' = notes
      /\ i \notin notes /\ \A t \in Syncs \ {s} : i \notin pending[t]
      /\ batch' = [batch EXCEPT ![s] = @ \ {i}]
      /\ pending' = [pending EXCEPT ![s] = @ \cup {i}]
      /\ created' = [created EXCEPT ![s] = @ \cup {i}]
  BY DEF SyncInsert
<1> HIDE DEF i
<1>2. \A t \in Syncs \ {s} : i \notin created[t]
  BY <1>1 DEF SyncInv
<1>3. batch'[s] # Idle /\ 0 \notin batch'[s]
  BY <1>1 DEF SyncInv, Idle
<1>4. QED BY <1>1, <1>2, <1>3 DEF SyncInv

LEMMA SkipSyncInv ==
  ASSUME SyncInv, NEW s \in Syncs, SyncSkip(s)
  PROVE  SyncInv'
<1> DEFINE i == Oldest(s)
<1>1. batch[s] # Idle /\ batch' = [batch EXCEPT ![s] = @ \ {i}]
      /\ UNCHANGED <<notes, pending, created>>
  BY DEF SyncSkip
<1> HIDE DEF i
<1>2. QED BY <1>1 DEF SyncInv, Idle

LEMMA EndSyncInv ==
  ASSUME SyncInv, NEW s \in Syncs, SyncCommit(s) \/ SyncFail(s)
  PROVE  SyncInv'
<1>1. CASE SyncCommit(s) BY <1>1 DEF SyncCommit, SyncInv, Idle
<1>2. CASE SyncFail(s) BY <1>2 DEF SyncFail, SyncInv, Idle
<1>3. QED BY <1>1, <1>2

\* Entries, other services and refreshes leave the notifications alone.
LEMMA OthersLeaveSyncs ==
  ASSUME Entries \/ OtherWrites \/ OtherCommits
           \/ \E r \in Refreshers : Load(r) \/ RefreshStep(r) \/ Fail(r)
  PROVE  UNCHANGED syncing
BY DEF Entries, File, AddEntry, RemoveEntry, OtherWrites, OtherCommits, Load, RefreshStep, Look,
       LookInVain, Fetch, Pass, ClaimCursor, Emit, Commit, FlushStale, BreakDeadlock, Fail

LEMMA StepSyncInv == SyncInv /\ [Next]_vars => SyncInv'
<1> SUFFICES ASSUME SyncInv, [Next]_vars PROVE SyncInv'
  OBVIOUS
<1>1. CASE UNCHANGED syncing
  BY <1>1 DEF syncing, SyncInv
<1>2. ASSUME NEW s \in Syncs, SyncLoad(s) \/ SyncStep(s) \/ SyncFail(s) PROVE SyncInv'
  BY <1>2, LoadSyncInv, InsertSyncInv, SkipSyncInv, EndSyncInv DEF SyncStep
<1>3. CASE UNCHANGED vars
  BY <1>1, <1>3 DEF vars
<1>4. QED BY <1>1, <1>2, <1>3, OthersLeaveSyncs DEF Next

\* What a sync reports as created is stored when it ends, and reported by no
\* other: an insert lost to a racing sync gives back its own row only, for any
\* number of syncs, events and failures (sync_from_audit).
THEOREM SyncReportsStored == Spec => []ReportedIsStored
<1>1. SyncInv => ReportedIsStored
  BY DEF SyncInv, ReportedIsStored
<1>2. QED BY InitSyncInv, StepSyncInv, <1>1, PTL DEF Spec

-----------------------------------------------------------------------------
(* Types.                                                                  *)

LEMMA InitTypes == Init => FeedTypeOK
<1> SUFFICES ASSUME Init PROVE FeedTypeOK
  OBVIOUS
<1>1. filed \in [Companies -> Nat]
  BY FeedAssumption DEF Init, Agenda
<1>2. QED
  BY <1>1 DEF Init, FeedTypeOK, Steps, Row, Absent, NoClaims, Idle

LEMMA CloseTypes ==
  ASSUME FeedTypeOK, NEW r \in Refreshers, Close(r),
         UNCHANGED <<filed, added, batch>>, entry' \in [Companies -> Row]
  PROVE  FeedTypeOK'
BY DEF Close, FeedTypeOK, Steps, Row, Absent, NoClaims

LEMMA ClaimedTypes ==
  ASSUME FeedTypeOK, NEW r \in Refreshers
  PROVE  Claimed(r) \in [Companies -> Row]
<1>1. ASSUME NEW c \in Companies, NEW n \in Nat PROVE [entry[c] EXCEPT !.cursor = n] \in Row
  <2>1. entry[c] \in Row
    BY DEF FeedTypeOK
  <2>2. QED BY <2>1 DEF Row
<1>2. ASSUME NEW c \in Companies PROVE claims[r][c] \in Nat /\ entry[c] \in Row
  BY DEF FeedTypeOK
<1>3. QED BY <1>1, <1>2 DEF Claimed

LEMMA RefreshTypes ==
  ASSUME FeedTypeOK, NEW r \in Refreshers, Load(r) \/ RefreshStep(r) \/ Fail(r)
  PROVE  FeedTypeOK'
<1> USE DEF entries, syncing
<1>1. CASE Load(r) BY <1>1 DEF Load, FeedTypeOK, Steps
<1>2. ASSUME NEW c \in Companies, LookInVain(r, c) PROVE FeedTypeOK'
  BY <1>2 DEF LookInVain, Look, FeedTypeOK
<1>3. ASSUME NEW c \in Companies, Fetch(r, c) PROVE FeedTypeOK'
  BY <1>3 DEF Fetch, Look, FeedTypeOK, Steps
<1>4. CASE Pass(r) BY <1>4 DEF Pass, FeedTypeOK, Steps
<1>5. CASE ClaimCursor(r)
  <2>1. claims' = [claims EXCEPT ![r][at[r]] = listed[r]] /\ listed[r] \in Nat
    BY <1>5 DEF ClaimCursor, FeedTypeOK
  <2>2. claims' \in [Refreshers -> [Companies -> Nat]]
    BY <2>1 DEF FeedTypeOK
  <2>3. step' \in [Refreshers -> Steps]
    BY <1>5 DEF ClaimCursor, FeedTypeOK, Steps
  <2>4. UNCHANGED <<filed, added, entry, loaded, listed, batch>>
    BY <1>5 DEF ClaimCursor
  <2>5. QED BY <2>2, <2>3, <2>4 DEF FeedTypeOK
<1>6. CASE Emit(r) BY <1>6 DEF Emit, FeedTypeOK, Steps
<1>7. CASE Commit(r)
  <2>1. entry' \in [Companies -> Row]
    BY <1>7, ClaimedTypes DEF Commit
  <2>2. QED BY <1>7, <2>1, CloseTypes DEF Commit
<1>8. CASE FlushStale(r) \/ BreakDeadlock(r) \/ Fail(r)
  BY <1>8, CloseTypes DEF FlushStale, BreakDeadlock, Fail, FeedTypeOK
<1>9. QED BY <1>1, <1>2, <1>3, <1>4, <1>5, <1>6, <1>7, <1>8 DEF RefreshStep

LEMMA StepTypes == FeedTypeOK /\ SyncInv' /\ [Next]_vars => FeedTypeOK'
<1> SUFFICES ASSUME FeedTypeOK, SyncInv', [Next]_vars PROVE FeedTypeOK'
  OBVIOUS
<1> USE DEF entries, refresh, syncing
<1>1. ASSUME NEW c \in Companies, File(c) \/ AddEntry(c) \/ RemoveEntry(c) PROVE FeedTypeOK'
  <2>1. CASE AddEntry(c)
    <3>1. added' \in [Companies -> Nat]
      BY <2>1 DEF AddEntry, FeedTypeOK
    <3>2. [id |-> added'[c], cursor |-> 0] \in Row
      BY <3>1 DEF Row
    <3> DEFINE row == [id |-> added'[c], cursor |-> 0]
    <3>3. entry' = [entry EXCEPT ![c] = row]
      BY <2>1 DEF AddEntry
    <3>4. UNCHANGED <<filed, step, loaded, listed, claims, batch>>
      BY <2>1 DEF AddEntry
    <3> HIDE DEF row
    <3>5. entry' \in [Companies -> Row]
      BY <3>2, <3>3 DEF row, FeedTypeOK
    <3>6. QED BY <3>1, <3>4, <3>5 DEF FeedTypeOK
  <2>2. CASE File(c)
    BY <2>2 DEF File, FeedTypeOK
  <2>3. CASE RemoveEntry(c)
    <3>1. Absent \in Row
      BY DEF Absent, Row
    <3>2. QED BY <2>3, <3>1 DEF RemoveEntry, FeedTypeOK
  <2>4. QED BY <1>1, <2>1, <2>2, <2>3
<1>2. CASE OtherWrites \/ OtherCommits
  BY <1>2 DEF OtherWrites, OtherCommits, FeedTypeOK
<1>3. ASSUME NEW r \in Refreshers, Load(r) \/ RefreshStep(r) \/ Fail(r) PROVE FeedTypeOK'
  BY <1>3, RefreshTypes
<1>4. ASSUME NEW s \in Syncs, SyncLoad(s) \/ SyncStep(s) \/ SyncFail(s) PROVE FeedTypeOK'
  BY <1>4 DEF SyncLoad, SyncStep, SyncInsert, SyncSkip, SyncCommit, SyncFail, FeedTypeOK, SyncInv
<1>5. CASE UNCHANGED vars
  BY <1>5 DEF vars, FeedTypeOK
<1>6. QED BY <1>1, <1>2, <1>3, <1>4, <1>5 DEF Next, Entries

\* Every reachable state of the watchlist, its refreshes and syncs has its
\* types.
THEOREM FeedTypeCorrect == Spec => []FeedTypeOK
<1>1. QED BY InitSyncInv, StepSyncInv, InitTypes, StepTypes, PTL DEF Spec

-----------------------------------------------------------------------------
(* The refreshes.  The invariant.                                          *)

\* The events of a sequence that are about c.
About(d, c) == {i \in DOMAIN d : d[i].company = c}

\* d tells of c exactly these filings, the older before the newer.
TellsOf(d, c, filings) ==
  /\ {d[i].filing : i \in About(d, c)} = filings
  /\ \A i, j \in About(d, c) : i < j => d[i].filing < d[j].filing

Event == [company : Companies \cup {NoCompany}, filing : Nat, at : Nat]

SessionTypes ==
  /\ events \in Seq(Event)
  /\ drafts \in [Refreshers -> Seq(Event)]
  /\ at \in [Refreshers -> Companies \cup {NoCompany}]
  /\ todo \in [Refreshers -> SUBSET Companies]
  /\ seen \in [Refreshers -> SUBSET Companies]
  /\ held \in [Refreshers -> SUBSET Companies]

\* Ids are given out once, a row without an id is no row, and nothing is taken
\* note of or told that was not filed.
RowsInv ==
  \A c \in Companies :
    /\ entry[c].id = 0 => entry[c] = Absent
    /\ entry[c].id <= added[c] /\ entry[c].cursor <= filed[c]
    /\ \A i \in About(events, c) : events[i].filing <= filed[c]

LocksInv == \A r, s \in Refreshers : r # s => held[r] \cap held[s] = {}

\* What a session loaded was a row once.
LoadedInv(r) ==
  /\ \A c \in Companies :
       /\ loaded[r][c].id <= added[c] /\ loaded[r][c].cursor <= filed[c]
       /\ c \in todo[r] => loaded[r][c].id # 0 /\ claims[r][c] = 0
  /\ step[r] = "idle" => \A c \in Companies : claims[r][c] = 0

\* The entry a session is at, and what EDGAR said about it.
AtInv(r) ==
  step[r] \in {"claiming", "emitting"} =>
    /\ at[r] \in Companies \ todo[r]
    /\ loaded[r][at[r]].id # 0
    /\ loaded[r][at[r]].cursor <= listed[r] /\ 0 < listed[r] /\ listed[r] <= filed[at[r]]
    /\ step[r] = "claiming" => claims[r][at[r]] = 0
    /\ step[r] = "emitting" => loaded[r][at[r]].cursor # 0 /\ claims[r][at[r]] = listed[r]

\* A cursor that is claimed is locked, is still what the session loaded, and
\* moves forward.
ClaimInv(r) ==
  \A c \in Companies : claims[r][c] # 0 =>
    /\ c \in held[r] /\ loaded[r][c].id # 0 /\ entry[c] = loaded[r][c]
    /\ loaded[r][c].cursor < claims[r][c] /\ claims[r][c] <= filed[c]

\* A first look is at an answer as new as all that was told before.
FirstInv(r) ==
  \A c \in Companies :
    loaded[r][c].id # 0 /\ loaded[r][c].cursor = 0 /\ entry[c] = loaded[r][c] =>
      \A i \in About(events, c) :
        /\ step[r] = "claiming" /\ at[r] = c => events[i].filing <= listed[r]
        /\ claims[r][c] # 0 => events[i].filing <= claims[r][c]

\* The cursors whose events are written.
Announced(r, c) ==
  claims[r][c] # 0 /\ loaded[r][c].cursor # 0 /\ ~(step[r] = "emitting" /\ at[r] = c)

\* The events written are those of the filings that the claims pass.
DraftsInv(r) ==
  \A c \in Companies :
    TellsOf(drafts[r], c, IF Announced(r, c) THEN Log!Passed(loaded[r][c].cursor, claims[r][c]) ELSE {})

SessionInv(r) == LoadedInv(r) /\ AtInv(r) /\ ClaimInv(r) /\ FirstInv(r) /\ DraftsInv(r)

FeedInv ==
  /\ FeedTypeOK /\ SessionTypes /\ RowsInv /\ LocksInv
  /\ \A r \in Refreshers : SessionInv(r)

-----------------------------------------------------------------------------
(* What is detected, and the events made of it.                            *)

LEMMA DetectedIsPassed ==
  ASSUME NEW n \in Nat, NEW k \in Nat, 0 < k, k <= n
  PROVE  Detected(n, k) = Log!Passed(k, n)
BY FeedAssumption DEF Detected, Shown, Log!Passed

LEMMA PassedIsInterval ==
  ASSUME NEW n \in Nat, NEW k \in Nat, k <= n
  PROVE  /\ Cardinality(Log!Passed(k, n)) \in Nat
         /\ Log!Passed(k, n) = n - Cardinality(Log!Passed(k, n)) + 1 .. n
<1> DEFINE first == IF n - Window > k THEN n - Window + 1 ELSE k + 1
<1>1. first \in Int /\ Window \in Nat \ {0}
  BY FeedAssumption
<1>2. Log!Passed(k, n) = first .. n /\ first <= n + 1
  BY <1>1 DEF Log!Passed
<1> HIDE DEF first
<1>3. Cardinality(first .. n) = n - first + 1
  BY <1>1, <1>2, FS_Interval
<1>4. QED BY <1>1, <1>2, <1>3

\* A refresh writes one event for each filing that its claim passes, in order.
LEMMA DraftedTells ==
  ASSUME NEW c \in Companies, NEW n \in Nat, NEW k \in Nat, 0 < k, k <= n
  PROVE  /\ Drafted(c, n, k) \in Seq(Event)
         /\ \A e \in Companies : TellsOf(Drafted(c, n, k), e, IF e = c THEN Log!Passed(k, n) ELSE {})
<1> DEFINE size == Cardinality(Log!Passed(k, n))
<1> DEFINE event(i) == [company |-> c, filing |-> n - size + i, at |-> Now]
<1>1. size \in Nat /\ Log!Passed(k, n) = n - size + 1 .. n
  BY PassedIsInterval
<1>2. Drafted(c, n, k) = [i \in 1..size |-> event(i)]
  BY DetectedIsPassed DEF Drafted
<1>3. size <= n
  <2>1. CASE size = 0 BY <2>1, <1>1
  <2>2. CASE size # 0
    <3>1. n - size + 1 \in Log!Passed(k, n)
      BY <2>2, <1>1
    <3>2. n - size + 1 > k
      BY <3>1, <1>1 DEF Log!Passed
    <3>3. QED BY <3>2, <1>1
  <2>3. QED BY <2>1, <2>2
<1> DEFINE d == Drafted(c, n, k)
<1> HIDE DEF size
<1>4. ASSUME NEW i \in 1..size PROVE event(i) \in Event
  BY <1>1, <1>3, <1>4 DEF Event, Now
<1>5. d \in Seq(Event) /\ DOMAIN d = 1..size
  <2> HIDE DEF event
  <2>1. [i \in 1..size |-> event(i)] \in [1..size -> Event]
    BY <1>4
  <2>2. d \in [1..size -> Event]
    BY <1>2, <2>1
  <2> HIDE DEF d
  <2>3. QED BY <1>1, <2>2
<1>6. ASSUME NEW i \in 1..size PROVE d[i].company = c /\ d[i].filing = n - size + i
  BY <1>2, <1>6
<1> HIDE DEF event, d
<1>7. About(d, c) = 1..size
  BY <1>5, <1>6 DEF About
<1>8. ASSUME NEW e \in Companies, e # c PROVE About(d, e) = {}
  BY <1>5, <1>6, <1>8 DEF About
<1>9. {d[i].filing : i \in 1..size} = n - size + 1 .. n
  <2>1. ASSUME NEW f \in n - size + 1 .. n PROVE \E i \in 1..size : d[i].filing = f
    <3>1. f - n + size \in 1..size
      BY <1>1, <2>1
    <3>2. d[f - n + size].filing = f
      BY <3>1, <1>6, <1>1
    <3>3. QED BY <3>1, <3>2
  <2>2. ASSUME NEW i \in 1..size PROVE d[i].filing \in n - size + 1 .. n
    BY <1>6, <1>1
  <2>3. QED BY <2>1, <2>2
<1>10. \A i, j \in 1..size : i < j => d[i].filing < d[j].filing
  BY <1>6, <1>1
<1>11. ASSUME NEW e \in Companies PROVE TellsOf(d, e, IF e = c THEN Log!Passed(k, n) ELSE {})
  BY <1>1, <1>7, <1>8, <1>9, <1>10 DEF TellsOf
<1>12. QED BY <1>5, <1>11 DEF d

Moved(n, S) == {n + i : i \in S}

\* y is d and then x, as far as they are about c.
Joins(y, d, x, c) ==
  /\ About(y, c) = About(d, c) \cup Moved(Len(d), About(x, c))
  /\ \A i \in About(d, c) : i <= Len(d) /\ y[i] = d[i]
  /\ \A k \in About(x, c) : y[Len(d) + k] = x[k]

LEMMA ConcatJoins ==
  ASSUME NEW d \in Seq(Event), NEW x \in Seq(Event), NEW c
  PROVE  Joins(d \o x, d, x, c)
<1> DEFINE y == d \o x
<1>1. /\ DOMAIN d = 1..Len(d) /\ DOMAIN x = 1..Len(x) /\ Len(d) \in Nat /\ Len(x) \in Nat
      /\ DOMAIN y = 1..(Len(d) + Len(x))
  OBVIOUS
<1>2. \A i \in 1..Len(d) : y[i] = d[i]
  OBVIOUS
<1>3. \A i \in 1..Len(x) : y[Len(d) + i] = x[i]
  OBVIOUS
<1> HIDE DEF y
<1>4. \A i \in 1..(Len(d) + Len(x)) : i \in 1..Len(d) \/ (i - Len(d) \in 1..Len(x) /\ i = Len(d) + (i - Len(d)))
  BY <1>1
<1>5. \A i \in 1..Len(x) : Len(d) + i \in 1..(Len(d) + Len(x))
  BY <1>1
<1>6. \A i \in 1..Len(d) : i \in 1..(Len(d) + Len(x)) /\ i <= Len(d)
  BY <1>1
<1>7. ASSUME NEW i \in About(y, c) PROVE i \in About(d, c) \/ \E k \in About(x, c) : i = Len(d) + k
  <2>1. i \in 1..(Len(d) + Len(x)) /\ y[i].company = c
    BY <1>1, <1>7 DEF About
  <2>2. CASE i \in 1..Len(d)
    BY <1>1, <1>2, <2>1, <2>2 DEF About
  <2>3. CASE i - Len(d) \in 1..Len(x) /\ i = Len(d) + (i - Len(d))
    <3>1. x[i - Len(d)].company = c
      BY <1>3, <2>1, <2>3
    <3>2. i - Len(d) \in About(x, c)
      BY <1>1, <2>3, <3>1 DEF About
    <3>3. QED BY <2>3, <3>2
  <2>4. QED BY <1>4, <2>1, <2>2, <2>3
<1>8. ASSUME NEW i \in About(d, c) PROVE i \in About(y, c) /\ i <= Len(d) /\ y[i] = d[i]
  BY <1>1, <1>2, <1>6 DEF About
<1>9. ASSUME NEW k \in About(x, c) PROVE Len(d) + k \in About(y, c) /\ y[Len(d) + k] = x[k]
  BY <1>1, <1>3, <1>5 DEF About
<1>10. About(y, c) = About(d, c) \cup Moved(Len(d), About(x, c))
  BY <1>7, <1>8, <1>9 DEF Moved
<1>11. Joins(y, d, x, c)
  BY <1>8, <1>9, <1>10 DEF Joins
<1>12. QED BY <1>11 DEF y

LEMMA NothingJoins ==
  ASSUME NEW y, NEW d, NEW x, NEW c, Joins(y, d, x, c), About(x, c) = {}
  PROVE  About(y, c) = About(d, c) /\ \A i \in About(d, c) : y[i] = d[i]
<1>1. Moved(Len(d), About(x, c)) = {}
  BY DEF Moved
<1>2. QED BY <1>1 DEF Joins

-----------------------------------------------------------------------------
(* A step of others.                                                       *)

\* The locals of a session.
Mine(r) == <<step[r], loaded[r], todo[r], at[r], listed[r], claims[r], drafts[r], held[r]>>

\* A company whose row and events a step leaves alone.
Untouched(c) ==
  /\ entry'[c] = entry[c]
  /\ About(events', c) = About(events, c)
  /\ \A i \in About(events, c) : events'[i] = events[i]

\* What the others may do while r is open: no row that it claims changes, and
\* a row it saw without a cursor is not told of unless it changes.
WorldStep(r) ==
  \A c \in Companies :
    /\ filed[c] <= filed'[c] /\ added[c] <= added'[c]
    /\ \/ Untouched(c)
       \/ /\ claims[r][c] = 0
          /\ loaded[r][c].id # 0 /\ loaded[r][c].cursor = 0 => entry'[c] # loaded[r][c]

LEMMA WorldKeeps ==
  ASSUME FeedTypeOK, FeedTypeOK', SessionTypes, NEW r \in Refreshers, SessionInv(r),
         UNCHANGED Mine(r), WorldStep(r)
  PROVE  SessionInv(r)'
<1>1. /\ step'[r] = step[r] /\ loaded'[r] = loaded[r] /\ todo'[r] = todo[r] /\ at'[r] = at[r]
      /\ listed'[r] = listed[r] /\ claims'[r] = claims[r] /\ drafts'[r] = drafts[r] /\ held'[r] = held[r]
  BY DEF Mine
<1>2. ASSUME NEW c \in Companies
      PROVE  /\ filed[c] \in Nat /\ filed'[c] \in Nat /\ added[c] \in Nat /\ added'[c] \in Nat
             /\ loaded[r][c].id \in Nat /\ loaded[r][c].cursor \in Nat /\ claims[r][c] \in Nat /\ listed[r] \in Nat
  BY DEF FeedTypeOK, Row
<1>3. LoadedInv(r)'
  BY <1>1, <1>2 DEF SessionInv, LoadedInv, WorldStep
<1>4. AtInv(r)'
  <2>1. CASE step[r] \notin {"claiming", "emitting"}
    BY <1>1, <2>1 DEF AtInv
  <2>2. CASE step[r] \in {"claiming", "emitting"}
    <3>1. at[r] \in Companies /\ listed[r] <= filed[at[r]] /\ filed[at[r]] <= filed'[at[r]]
      BY <2>2 DEF SessionInv, AtInv, WorldStep
    <3>2. listed[r] <= filed'[at[r]]
      BY <3>1, <1>2
    <3>3. QED BY <1>1, <2>2, <3>1, <3>2 DEF SessionInv, AtInv
  <2>3. QED BY <2>1, <2>2
<1>5. ClaimInv(r)'
  <2> SUFFICES ASSUME NEW c \in Companies, claims[r][c] # 0
               PROVE  /\ c \in held[r] /\ loaded[r][c].id # 0 /\ entry'[c] = loaded[r][c]
                      /\ loaded[r][c].cursor < claims[r][c] /\ claims[r][c] <= filed'[c]
    BY <1>1 DEF ClaimInv
  <2>1. entry'[c] = entry[c] /\ filed[c] <= filed'[c]
    BY DEF WorldStep, Untouched
  <2>2. QED BY <2>1, <1>2 DEF SessionInv, ClaimInv
<1>6. FirstInv(r)'
  <2> SUFFICES ASSUME NEW c \in Companies, loaded[r][c].id # 0, loaded[r][c].cursor = 0, entry'[c] = loaded[r][c],
                      NEW i \in About(events', c)
               PROVE  /\ step[r] = "claiming" /\ at[r] = c => events'[i].filing <= listed[r]
                      /\ claims[r][c] # 0 => events'[i].filing <= claims[r][c]
    BY <1>1 DEF FirstInv, About
  <2>1. entry'[c] = entry[c] /\ i \in About(events, c) /\ events'[i] = events[i]
    BY DEF WorldStep, Untouched
  <2>2. QED BY <2>1 DEF SessionInv, FirstInv
<1>7. DraftsInv(r)'
  BY <1>1 DEF SessionInv, DraftsInv, Announced
<1>8. QED BY <1>3, <1>4, <1>5, <1>6, <1>7 DEF SessionInv

\* A step that leaves the rows, their events and its locals alone.
LEMMA StillSession ==
  ASSUME FeedTypeOK, FeedTypeOK', SessionTypes, NEW r \in Refreshers, SessionInv(r),
         UNCHANGED <<entry, added, events, filed>>, UNCHANGED Mine(r)
  PROVE  SessionInv(r)'
<1>1. WorldStep(r)
  BY DEF WorldStep, Untouched, FeedTypeOK
<1>2. QED BY <1>1, WorldKeeps

LEMMA StillRows ==
  ASSUME RowsInv, UNCHANGED <<entry, added, events, filed>>
  PROVE  RowsInv'
BY DEF RowsInv, About

-----------------------------------------------------------------------------
(* The steps of a session before its commit.                               *)

\* A step of r within its session: the rows and events stay, and so do the
\* locals of the others.
Within(r) ==
  /\ UNCHANGED <<entry, added, events, filed>>
  /\ \A s \in Refreshers \ {r} : UNCHANGED Mine(s)

LEMMA WithinFrame ==
  ASSUME FeedTypeOK, SessionTypes, NEW r \in Refreshers,
         Load(r) \/ RefreshStep(r) \/ Fail(r), ~Commit(r)
  PROVE  Within(r)
<1> USE DEF entries, Within, Mine, FeedTypeOK, SessionTypes
<1>1. CASE Load(r) BY <1>1 DEF Load
<1>2. ASSUME NEW c \in Companies, LookInVain(r, c) PROVE Within(r)
  BY <1>2 DEF LookInVain, Look
<1>3. ASSUME NEW c \in Companies, Fetch(r, c) PROVE Within(r)
  BY <1>3 DEF Fetch, Look
<1>4. CASE Pass(r) BY <1>4 DEF Pass
<1>5. CASE ClaimCursor(r) BY <1>5 DEF ClaimCursor
<1>6. CASE Emit(r) BY <1>6 DEF Emit
<1>7. CASE FlushStale(r) \/ BreakDeadlock(r) \/ Fail(r)
  BY <1>7 DEF FlushStale, BreakDeadlock, Fail, Close
<1>8. QED BY <1>1, <1>2, <1>3, <1>4, <1>5, <1>6, <1>7 DEF RefreshStep

LEMMA LoadSession ==
  ASSUME FeedTypeOK, SessionTypes, RowsInv, NEW r \in Refreshers, SessionInv(r), Load(r)
  PROVE  SessionInv(r)'
<1>1. /\ step[r] = "idle" /\ step'[r] = "looking" /\ loaded'[r] = entry
      /\ todo'[r] = {c \in Companies : entry[c] # Absent}
      /\ UNCHANGED <<filed, entry, added, events, at, listed, claims, drafts, held>>
  BY DEF Load, FeedTypeOK, SessionTypes, entries
<1>2. \A c \in Companies : claims[r][c] = 0
  BY <1>1 DEF SessionInv, LoadedInv
<1>3. LoadedInv(r)'
  BY <1>1, <1>2 DEF LoadedInv, RowsInv
<1>4. AtInv(r)' /\ ClaimInv(r)' /\ FirstInv(r)'
  BY <1>1, <1>2 DEF AtInv, ClaimInv, FirstInv
<1>5. DraftsInv(r)'
  BY <1>1, <1>2 DEF SessionInv, DraftsInv, Announced
<1>6. QED BY <1>3, <1>4, <1>5 DEF SessionInv

LEMMA LookSession ==
  ASSUME FeedTypeOK, SessionTypes, RowsInv, NEW r \in Refreshers, SessionInv(r),
         NEW c \in Companies, LookInVain(r, c) \/ Fetch(r, c)
  PROVE  SessionInv(r)'
<1>1. /\ step[r] = "looking" /\ c \in todo[r] /\ todo'[r] = todo[r] \ {c}
      /\ UNCHANGED <<filed, entry, added, events, loaded, claims, drafts, held>>
  BY DEF LookInVain, Fetch, Look, SessionTypes, entries
<1>2. loaded[r][c].id # 0 /\ claims[r][c] = 0
  BY <1>1 DEF SessionInv, LoadedInv
<1>3. CASE LookInVain(r, c)
  <2>1. UNCHANGED <<step, at, listed>>
    BY <1>3 DEF LookInVain
  <2>2. QED
    BY <1>1, <2>1 DEF SessionInv, LoadedInv, AtInv, ClaimInv, FirstInv, DraftsInv, Announced
<1>4. CASE Fetch(r, c)
  <2>1. filed[c] > 0 /\ step'[r] = "claiming" /\ at'[r] = c /\ listed'[r] = filed[c] /\ filed[c] \in Nat
    BY <1>4 DEF Fetch, FeedTypeOK, SessionTypes
  <2>2. LoadedInv(r)' /\ ClaimInv(r)' /\ DraftsInv(r)'
    BY <1>1, <2>1 DEF SessionInv, LoadedInv, ClaimInv, DraftsInv, Announced
  <2>3. AtInv(r)'
    BY <1>1, <1>2, <2>1 DEF SessionInv, LoadedInv, AtInv
  <2>4. FirstInv(r)'
    BY <1>1, <2>1 DEF SessionInv, FirstInv, RowsInv
  <2>5. QED BY <2>2, <2>3, <2>4 DEF SessionInv
<1>5. QED BY <1>3, <1>4

LEMMA PassSession ==
  ASSUME FeedTypeOK, SessionTypes, NEW r \in Refreshers, SessionInv(r), Pass(r)
  PROVE  SessionInv(r)'
<1>1. /\ step[r] = "claiming" /\ step'[r] = "looking"
      /\ UNCHANGED <<filed, entry, added, events, loaded, todo, at, listed, claims, drafts, held>>
  BY DEF Pass, FeedTypeOK, entries
<1>2. QED
  BY <1>1 DEF SessionInv, LoadedInv, AtInv, ClaimInv, FirstInv, DraftsInv, Announced

\* Where something is new, the answer is newer than the cursor.
LEMMA NewIsAhead ==
  ASSUME FeedTypeOK, NEW r \in Refreshers, AtInv(r), step[r] = "claiming", ~NothingNew(r)
  PROVE  loaded[r][at[r]].cursor < listed[r]
<1>1. /\ at[r] \in Companies /\ loaded[r][at[r]].cursor <= listed[r] /\ 0 < listed[r]
      /\ listed[r] \in Nat /\ loaded[r][at[r]].cursor \in Nat
  BY DEF AtInv, FeedTypeOK, Row
<1>2. CASE loaded[r][at[r]].cursor = 0
  BY <1>1, <1>2
<1>3. CASE loaded[r][at[r]].cursor # 0
  <2>1. Detected(listed[r], loaded[r][at[r]].cursor) # {}
    BY <1>3 DEF NothingNew
  <2>2. PICK f \in Log!Passed(loaded[r][at[r]].cursor, listed[r]) : TRUE
    BY <1>1, <1>3, <2>1, DetectedIsPassed
  <2>3. QED BY <1>1, <2>2 DEF Log!Passed
<1>4. QED BY <1>2, <1>3

LEMMA ClaimSession ==
  ASSUME FeedTypeOK, SessionTypes, NEW r \in Refreshers, SessionInv(r), ClaimCursor(r)
  PROVE  SessionInv(r)'
<1> DEFINE c == at[r]
<1>1. /\ step[r] = "claiming" /\ ~NothingNew(r) /\ Unclaimed(r, c)
      /\ UNCHANGED <<filed, entry, added, events, loaded, todo, at, listed, drafts>>
      /\ step'[r] = IF loaded[r][c].cursor = 0 THEN "looking" ELSE "emitting"
  BY DEF ClaimCursor, FeedTypeOK, entries
<1>2. /\ c \in Companies /\ c \notin todo[r] /\ loaded[r][c].id # 0 /\ claims[r][c] = 0
      /\ listed[r] # 0 /\ listed[r] <= filed[c] /\ listed[r] \in Nat /\ loaded[r][c].cursor < listed[r]
  BY <1>1, NewIsAhead DEF SessionInv, AtInv, FeedTypeOK
<1>3. /\ claims'[r] = [claims[r] EXCEPT ![c] = listed[r]] /\ held'[r] = held[r] \cup {c}
      /\ claims[r] \in [Companies -> Nat]
  BY DEF ClaimCursor, FeedTypeOK, SessionTypes
<1>4. entry[c] = loaded[r][c]
  <2>1. entry[c] \in Row /\ loaded[r][c] \in Row
    BY <1>2 DEF FeedTypeOK
  <2>2. entry[c].id = loaded[r][c].id /\ entry[c].cursor = loaded[r][c].cursor
    BY <1>1 DEF Unclaimed, Kept
  <2>3. QED BY <2>1, <2>2 DEF Row
<1>5. claims'[r][c] = listed[r] /\ \A e \in Companies \ {c} : claims'[r][e] = claims[r][e]
  BY <1>2, <1>3
<1>6. LoadedInv(r)'
  BY <1>1, <1>2, <1>5 DEF SessionInv, LoadedInv
<1>7. AtInv(r)'
  BY <1>1, <1>2, <1>5 DEF SessionInv, AtInv
<1>8. ClaimInv(r)'
  <2> SUFFICES ASSUME NEW e \in Companies, claims'[r][e] # 0
               PROVE  /\ e \in held'[r] /\ loaded[r][e].id # 0 /\ entry[e] = loaded[r][e]
                      /\ loaded[r][e].cursor < claims'[r][e] /\ claims'[r][e] <= filed[e]
    BY <1>1 DEF ClaimInv
  <2>1. CASE e = c BY <2>1, <1>2, <1>3, <1>4, <1>5
  <2>2. CASE e # c BY <2>2, <1>3, <1>5 DEF SessionInv, ClaimInv
  <2>3. QED BY <2>1, <2>2
<1>9. FirstInv(r)'
  <2> SUFFICES ASSUME NEW e \in Companies, loaded[r][e].id # 0, loaded[r][e].cursor = 0, entry[e] = loaded[r][e],
                      NEW i \in About(events, e)
               PROVE  /\ step'[r] = "claiming" /\ at[r] = e => events[i].filing <= listed[r]
                      /\ claims'[r][e] # 0 => events[i].filing <= claims'[r][e]
    BY <1>1 DEF FirstInv
  <2>1. step'[r] # "claiming"
    BY <1>1
  <2>2. CASE e = c BY <2>1, <2>2, <1>1, <1>5 DEF SessionInv, FirstInv
  <2>3. CASE e # c BY <2>1, <2>3, <1>5 DEF SessionInv, FirstInv
  <2>4. QED BY <2>2, <2>3
<1>10. DraftsInv(r)'
  <2>1. ASSUME NEW e \in Companies, e = c PROVE ~Announced(r, e) /\ ~Announced(r, e)'
    BY <1>1, <1>2, <1>5, <2>1 DEF Announced
  <2>2. ASSUME NEW e \in Companies, e # c
        PROVE  Announced(r, e)' = Announced(r, e) /\ claims'[r][e] = claims[r][e]
    BY <1>1, <1>5, <2>2 DEF Announced
  <2>3. ASSUME NEW e \in Companies
        PROVE  TellsOf(drafts[r], e, IF Announced(r, e)' THEN Log!Passed(loaded[r][e].cursor, claims'[r][e]) ELSE {})
    <3>1. CASE e = c BY <3>1, <2>1 DEF SessionInv, DraftsInv
    <3>2. CASE e # c BY <3>2, <2>2 DEF SessionInv, DraftsInv
    <3>3. QED BY <3>1, <3>2
  <2>4. QED BY <1>1, <2>3 DEF DraftsInv
<1>11. QED BY <1>6, <1>7, <1>8, <1>9, <1>10 DEF SessionInv

\* What is told of a company that only one of two sequences is about.
LEMMA TellsJoins ==
  ASSUME NEW d \in Seq(Event), NEW x \in Seq(Event), NEW y, NEW c, NEW F, Joins(y, d, x, c),
         \/ TellsOf(d, c, F) /\ TellsOf(x, c, {})
         \/ TellsOf(d, c, {}) /\ TellsOf(x, c, F)
  PROVE  TellsOf(y, c, F)
<1>1. ASSUME NEW z, TellsOf(z, c, {}) PROVE About(z, c) = {}
  BY <1>1 DEF TellsOf
<1>2. CASE TellsOf(d, c, F) /\ TellsOf(x, c, {})
  <2>1. About(y, c) = About(d, c) /\ \A i \in About(d, c) : y[i] = d[i]
    BY <1>1, <1>2, NothingJoins
  <2>2. {y[i].filing : i \in About(y, c)} = {d[i].filing : i \in About(d, c)}
    BY <2>1
  <2>3. QED BY <1>2, <2>1, <2>2 DEF TellsOf
<1>3. CASE TellsOf(d, c, {}) /\ TellsOf(x, c, F)
  <2>1. About(d, c) = {}
    BY <1>1, <1>3
  <2>2. /\ \A i \in About(y, c) : \E k \in About(x, c) : i = Len(d) + k
        /\ \A k \in About(x, c) : Len(d) + k \in About(y, c) /\ y[Len(d) + k] = x[k]
    BY <2>1 DEF Joins, Moved
  <2>3. About(x, c) \subseteq Int /\ Len(d) \in Nat
    BY DEF About
  <2>4. {y[i].filing : i \in About(y, c)} = {x[i].filing : i \in About(x, c)}
    BY <2>2
  <2>5. ASSUME NEW i \in About(y, c), NEW j \in About(y, c), i < j PROVE y[i].filing < y[j].filing
    <3>1. PICK k \in About(x, c) : i = Len(d) + k
      BY <2>2
    <3>2. PICK l \in About(x, c) : j = Len(d) + l
      BY <2>2
    <3>3. k < l
      BY <2>3, <2>5, <3>1, <3>2
    <3>4. x[k].filing < x[l].filing
      BY <1>3, <3>3 DEF TellsOf
    <3>5. QED BY <2>2, <3>1, <3>2, <3>4
  <2>6. QED BY <1>3, <2>4, <2>5 DEF TellsOf
<1>4. QED BY <1>2, <1>3

LEMMA EmitSession ==
  ASSUME FeedTypeOK, SessionTypes, NEW r \in Refreshers, SessionInv(r), Emit(r)
  PROVE  SessionInv(r)' /\ Drafted(at[r], listed[r], loaded[r][at[r]].cursor) \in Seq(Event)
<1> DEFINE c == at[r]
           x == Drafted(c, listed[r], loaded[r][c].cursor)
<1>1. /\ step[r] = "emitting" /\ step'[r] = "looking" /\ drafts'[r] = drafts[r] \o x
      /\ held'[r] = held[r] \cup seen[r]
      /\ UNCHANGED <<filed, entry, added, events, loaded, todo, at, listed, claims>>
  BY DEF Emit, FeedTypeOK, SessionTypes, entries
<1>2. /\ c \in Companies /\ loaded[r][c].cursor # 0 /\ claims[r][c] = listed[r] /\ 0 < listed[r]
      /\ loaded[r][c].cursor <= listed[r] /\ listed[r] \in Nat /\ loaded[r][c].cursor \in Nat
  BY <1>1 DEF SessionInv, AtInv, FeedTypeOK, Row
<1>3. /\ x \in Seq(Event)
      /\ \A e \in Companies : TellsOf(x, e, IF e = c THEN Log!Passed(loaded[r][c].cursor, listed[r]) ELSE {})
  BY <1>2, DraftedTells
<1> HIDE DEF x
<1>4. LoadedInv(r)' /\ AtInv(r)' /\ ClaimInv(r)' /\ FirstInv(r)'
  BY <1>1 DEF SessionInv, LoadedInv, AtInv, ClaimInv, FirstInv
<1>5. ASSUME NEW e \in Companies
      PROVE  TellsOf(drafts[r] \o x, e, IF Announced(r, e)' THEN Log!Passed(loaded[r][e].cursor, claims[r][e]) ELSE {})
  <2>1. drafts[r] \in Seq(Event)
    BY DEF SessionTypes
  <2>2. CASE e = c
    <3>1. ~Announced(r, e) /\ Announced(r, e)'
      BY <1>1, <1>2, <2>2 DEF Announced
    <3>2. TellsOf(drafts[r], c, {})
      BY <1>2, <2>2, <3>1 DEF SessionInv, DraftsInv
    <3>3. TellsOf(drafts[r] \o x, c, Log!Passed(loaded[r][c].cursor, claims[r][c]))
      BY <1>2, <1>3, <2>1, <3>2, ConcatJoins, TellsJoins
    <3>4. QED BY <2>2, <3>1, <3>3
  <2>3. CASE e # c
    <3>1. Announced(r, e)' = Announced(r, e)
      BY <1>1, <2>3 DEF Announced
    <3> DEFINE F == IF Announced(r, e) THEN Log!Passed(loaded[r][e].cursor, claims[r][e]) ELSE {}
    <3>2. TellsOf(drafts[r], e, F) /\ TellsOf(x, e, {})
      BY <1>3, <2>3 DEF SessionInv, DraftsInv
    <3> HIDE DEF F
    <3>3. TellsOf(drafts[r] \o x, e, F)
      BY <1>3, <2>1, <3>2, ConcatJoins, TellsJoins
    <3>4. QED BY <3>1, <3>3 DEF F
  <2>4. QED BY <2>2, <2>3
<1>6. DraftsInv(r)'
  BY <1>1, <1>5 DEF DraftsInv
<1>7. QED BY <1>3, <1>4, <1>6 DEF SessionInv, x

LEMMA CloseSession ==
  ASSUME FeedTypeOK, FeedTypeOK', SessionTypes, NEW r \in Refreshers, Close(r)
  PROVE  SessionInv(r)'
<1>1. /\ step'[r] \in {"idle", "done"} /\ loaded'[r] = [c \in Companies |-> Absent] /\ todo'[r] = {}
      /\ claims'[r] = NoClaims /\ drafts'[r] = <<>> /\ held'[r] = {}
  BY DEF Close, FeedTypeOK, SessionTypes
<1>2. \A c \in Companies : claims'[r][c] = 0 /\ loaded'[r][c].id = 0 /\ loaded'[r][c].cursor = 0
  BY <1>1 DEF NoClaims, Absent
<1>3. LoadedInv(r)'
  BY <1>1, <1>2 DEF LoadedInv, FeedTypeOK
<1>4. AtInv(r)' /\ ClaimInv(r)' /\ FirstInv(r)'
  BY <1>1, <1>2 DEF AtInv, ClaimInv, FirstInv
<1>5. \A c : About(drafts'[r], c) = {}
  BY <1>1 DEF About
<1>6. DraftsInv(r)'
  BY <1>2, <1>5 DEF DraftsInv, Announced, TellsOf
<1>7. QED BY <1>3, <1>4, <1>6 DEF SessionInv

-----------------------------------------------------------------------------
(* The commit.                                                             *)

\* The filings told of c, by position, as Told has them.
TellingOf(d, c) == [i \in About(d, c) |-> d[i].filing]

\* What FilingLog lets a step do with the mark and the events of c.
Moves(c) ==
  \/ /\ entry[c].cursor = 0
     /\ \A i \in About(events, c) : events[i].filing <= entry'[c].cursor
     /\ TellingOf(events', c) = TellingOf(events, c)
  \/ /\ 0 < entry[c].cursor /\ entry[c].cursor < entry'[c].cursor
     /\ Log!Tells(TellingOf(events, c), TellingOf(events', c), Log!Passed(entry[c].cursor, entry'[c].cursor))
  \/ /\ entry'[c].cursor = 0 \/ entry'[c].cursor = entry[c].cursor
     /\ TellingOf(events', c) = TellingOf(events, c)

LEMMA UntouchedMoves ==
  ASSUME NEW c \in Companies, Untouched(c)
  PROVE  Moves(c)
BY DEF Untouched, Moves, TellingOf

\* A sequence that tells of c, written after another one.
LEMMA TellingJoins ==
  ASSUME NEW d \in Seq(Event), NEW x \in Seq(Event), NEW y, NEW c, NEW F, Joins(y, d, x, c), TellsOf(x, c, F)
  PROVE  Log!Tells(TellingOf(d, c), TellingOf(y, c), F)
<1> DEFINE new == Moved(Len(d), About(x, c))
           g == TellingOf(y, c)
<1>1. About(d, c) \subseteq Int /\ Len(d) \in Nat /\ About(x, c) \subseteq Nat \ {0}
  BY DEF About
<1>2. /\ \A i \in new : i \in Int /\ \E k \in About(x, c) : i = Len(d) + k
      /\ \A k \in About(x, c) : Len(d) + k \in new
  BY <1>1 DEF Moved
<1>3. /\ About(y, c) = About(d, c) \cup new
      /\ \A i \in About(d, c) : i <= Len(d) /\ y[i] = d[i]
      /\ \A k \in About(x, c) : y[Len(d) + k] = x[k]
  BY DEF Joins
<1> HIDE DEF new
<1>4. DOMAIN TellingOf(d, c) = About(d, c) /\ DOMAIN g = About(d, c) \cup new
  BY <1>3 DEF TellingOf
<1>5. \A i \in About(d, c) : TellingOf(d, c)[i] = d[i].filing /\ g[i] = d[i].filing
  BY <1>3 DEF TellingOf
<1>6. \A k \in About(x, c) : g[Len(d) + k] = x[k].filing
  BY <1>2, <1>3 DEF TellingOf
<1> HIDE DEF g
<1>7. \A i \in About(d, c), j \in new : i < j
  BY <1>1, <1>2, <1>3
<1>8. (About(d, c) \cup new) \ About(d, c) = new
  <2>1. ASSUME NEW i \in new PROVE i \notin About(d, c)
    <3>1. ~(i < i)
      BY <1>2
    <3>2. QED BY <1>7, <3>1
  <2>2. QED BY <2>1
<1>9. {g[i] : i \in new} = F
  <2>1. ASSUME NEW i \in new PROVE g[i] \in F
    BY <1>2, <1>6 DEF TellsOf
  <2>2. ASSUME NEW f \in F PROVE \E i \in new : g[i] = f
    <3>1. PICK k \in About(x, c) : x[k].filing = f
      BY DEF TellsOf
    <3>2. QED BY <1>2, <1>6, <3>1
  <2>3. QED BY <2>1, <2>2
<1>10. ASSUME NEW i \in new, NEW j \in new, i < j PROVE g[i] < g[j]
  <2>1. PICK k \in About(x, c) : i = Len(d) + k
    BY <1>2
  <2>2. PICK l \in About(x, c) : j = Len(d) + l
    BY <1>2
  <2>3. k < l
    BY <1>1, <1>10, <2>1, <2>2
  <2>4. x[k].filing < x[l].filing
    BY <2>3 DEF TellsOf
  <2>5. QED BY <1>6, <2>1, <2>2, <2>4
<1>11. Log!Tells(TellingOf(d, c), g, F)
  BY <1>4, <1>5, <1>7, <1>8, <1>9, <1>10 DEF Log!Tells
<1>12. QED BY <1>11 DEF g

LEMMA CommitFacts ==
  ASSUME FeedTypeOK, SessionTypes, NEW r \in Refreshers, Commit(r), SessionInv(r), NEW c \in Companies
  PROVE  /\ drafts[r] \in Seq(Event) /\ events \in Seq(Event) /\ Joins(events', events, drafts[r], c)
         /\ entry[c] \in Row /\ claims[r][c] \in Nat /\ loaded[r][c] \in Row
         /\ claims[r][c] = 0 => Untouched(c)
         /\ claims[r][c] # 0 =>
              /\ entry'[c] = [id |-> entry[c].id, cursor |-> claims[r][c]]
              /\ c \in held[r] /\ entry[c].id # 0 /\ entry[c] = loaded[r][c]
              /\ entry[c].cursor < claims[r][c] /\ claims[r][c] <= filed[c]
              /\ TellsOf(drafts[r], c, IF entry[c].cursor = 0 THEN {} ELSE Log!Passed(entry[c].cursor, claims[r][c]))
<1>1. /\ events' = events \o drafts[r] /\ drafts[r] \in Seq(Event) /\ events \in Seq(Event)
      /\ entry[c] \in Row /\ claims[r][c] \in Nat /\ loaded[r][c] \in Row
      /\ entry' = Claimed(r) /\ step[r] = "looking"
  BY DEF Commit, FeedTypeOK, SessionTypes
<1>0. Joins(events', events, drafts[r], c)
  BY <1>1, ConcatJoins
<1>2. CASE claims[r][c] = 0
  <2>1. entry'[c] = entry[c]
    BY <1>1, <1>2 DEF Claimed
  <2>2. About(drafts[r], c) = {}
    <3>1. TellsOf(drafts[r], c, {})
      BY <1>2 DEF SessionInv, DraftsInv, Announced
    <3>2. QED BY <3>1 DEF TellsOf
  <2>3. About(events', c) = About(events, c) /\ \A i \in About(events, c) : events'[i] = events[i]
    BY <1>0, <2>2, NothingJoins
  <2>4. QED BY <1>0, <1>1, <1>2, <2>1, <2>3 DEF Untouched
<1>3. CASE claims[r][c] # 0
  <2>1. entry'[c] = [entry[c] EXCEPT !.cursor = claims[r][c]]
    BY <1>1, <1>3 DEF Claimed
  <2>2. entry'[c] = [id |-> entry[c].id, cursor |-> claims[r][c]]
    BY <1>1, <2>1 DEF Row
  <2>3. /\ c \in held[r] /\ entry[c].id # 0 /\ entry[c] = loaded[r][c]
        /\ entry[c].cursor < claims[r][c] /\ claims[r][c] <= filed[c]
    BY <1>3 DEF SessionInv, ClaimInv
  <2>4. TellsOf(drafts[r], c, IF entry[c].cursor = 0 THEN {} ELSE Log!Passed(entry[c].cursor, claims[r][c]))
    <3>1. Announced(r, c) <=> entry[c].cursor # 0
      BY <1>1, <1>3, <2>3 DEF Announced
    <3>2. QED BY <2>3, <3>1 DEF SessionInv, DraftsInv
  <2>5. QED BY <1>0, <1>1, <1>3, <2>2, <2>3, <2>4
<1>4. QED BY <1>2, <1>3

LEMMA CommitRows ==
  ASSUME FeedTypeOK, SessionTypes, RowsInv, NEW r \in Refreshers, Commit(r), SessionInv(r)
  PROVE  RowsInv'
<1> SUFFICES ASSUME NEW c \in Companies
             PROVE  /\ entry'[c].id = 0 => entry'[c] = Absent
                    /\ entry'[c].id <= added[c] /\ entry'[c].cursor <= filed[c]
                    /\ \A i \in About(events', c) : events'[i].filing <= filed[c]
  <2>1. UNCHANGED <<added, filed>>
    BY DEF Commit
  <2>2. QED BY <2>1 DEF RowsInv
<1>1. CASE claims[r][c] = 0
  BY <1>1, CommitFacts DEF Untouched, RowsInv
<1>2. CASE claims[r][c] # 0
  <2>1. /\ entry'[c] = [id |-> entry[c].id, cursor |-> claims[r][c]] /\ entry[c].id # 0
        /\ claims[r][c] <= filed[c]
    BY <1>2, CommitFacts
  <2>2. ASSUME NEW i \in About(events', c) PROVE events'[i].filing <= filed[c]
    <3>1. Joins(events', events, drafts[r], c)
      BY CommitFacts
    <3>2. CASE i \in About(events, c)
      <4>1. events'[i] = events[i]
        BY <3>1, <3>2 DEF Joins
      <4>2. QED BY <3>2, <4>1 DEF RowsInv
    <3>3. CASE i \notin About(events, c)
      <4>1. PICK k \in About(drafts[r], c) : i = Len(events) + k
        BY <2>2, <3>1, <3>3 DEF Joins, Moved
      <4>2. events'[i] = drafts[r][k]
        BY <3>1, <4>1 DEF Joins
      <4>3. drafts[r][k].filing \in Log!Passed(entry[c].cursor, claims[r][c])
        <5>1. TellsOf(drafts[r], c, IF entry[c].cursor = 0 THEN {} ELSE Log!Passed(entry[c].cursor, claims[r][c]))
          BY <1>2, CommitFacts
        <5>2. drafts[r][k].filing \in IF entry[c].cursor = 0 THEN {} ELSE Log!Passed(entry[c].cursor, claims[r][c])
          BY <4>1, <5>1 DEF TellsOf
        <5>3. QED BY <5>2
      <4>4. drafts[r][k].filing \in Int /\ drafts[r][k].filing <= claims[r][c]
        BY <4>3, CommitFacts DEF Log!Passed, Row
      <4>5. claims[r][c] \in Nat /\ filed[c] \in Nat
        BY DEF FeedTypeOK
      <4>6. QED BY <2>1, <4>2, <4>4, <4>5
    <3>4. QED BY <3>2, <3>3
  <2>3. QED BY <2>1, <2>2 DEF RowsInv
<1>3. QED BY <1>1, <1>2

\* Its locks keep the claims of the others apart from its own.
LEMMA CommitWorld ==
  ASSUME FeedTypeOK, SessionTypes, LocksInv, NEW r \in Refreshers, Commit(r), SessionInv(r),
         NEW s \in Refreshers \ {r}, SessionInv(s)
  PROVE  WorldStep(s) /\ UNCHANGED Mine(s)
<1>1. UNCHANGED Mine(s) /\ UNCHANGED <<added, filed>>
  BY DEF Commit, Close, Mine, FeedTypeOK, SessionTypes
<1>2. ASSUME NEW c \in Companies
      PROVE  \/ Untouched(c)
             \/ claims[s][c] = 0 /\ (loaded[s][c].id # 0 /\ loaded[s][c].cursor = 0 => entry'[c] # loaded[s][c])
  <2>1. CASE claims[r][c] = 0
    BY <2>1, CommitFacts
  <2>2. CASE claims[r][c] # 0
    <3>1. c \in held[r] /\ entry'[c].cursor = claims[r][c]
      <4>1. c \in held[r] /\ entry'[c] = [id |-> entry[c].id, cursor |-> claims[r][c]]
        BY <2>2, CommitFacts
      <4>2. QED BY <4>1
    <3>2. c \notin held[s]
      BY <3>1 DEF LocksInv
    <3>3. claims[s][c] = 0
      BY <3>2 DEF SessionInv, ClaimInv
    <3>4. QED BY <2>2, <3>1, <3>3
  <2>3. QED BY <2>1, <2>2
<1>3. QED BY <1>1, <1>2 DEF WorldStep, FeedTypeOK

\* A commit moves the marks it claimed and tells exactly what they pass.
LEMMA CommitMoves ==
  ASSUME FeedTypeOK, SessionTypes, NEW r \in Refreshers, Commit(r), SessionInv(r), NEW c \in Companies
  PROVE  Moves(c)
<1>1. CASE claims[r][c] = 0
  BY <1>1, CommitFacts, UntouchedMoves
<1>2. CASE claims[r][c] # 0
  <2>1. /\ drafts[r] \in Seq(Event) /\ events \in Seq(Event) /\ Joins(events', events, drafts[r], c)
        /\ entry'[c].cursor = claims[r][c] /\ entry[c].id # 0 /\ entry[c] = loaded[r][c]
        /\ entry[c].cursor < claims[r][c] /\ entry[c].cursor \in Nat
        /\ TellsOf(drafts[r], c, IF entry[c].cursor = 0 THEN {} ELSE Log!Passed(entry[c].cursor, claims[r][c]))
    <3>1. /\ drafts[r] \in Seq(Event) /\ events \in Seq(Event) /\ Joins(events', events, drafts[r], c)
          /\ entry'[c] = [id |-> entry[c].id, cursor |-> claims[r][c]] /\ entry[c].id # 0 /\ entry[c] = loaded[r][c]
          /\ entry[c].cursor < claims[r][c] /\ entry[c] \in Row
          /\ TellsOf(drafts[r], c, IF entry[c].cursor = 0 THEN {} ELSE Log!Passed(entry[c].cursor, claims[r][c]))
      BY <1>2, CommitFacts
    <3>2. QED BY <3>1 DEF Row
  <2>2. CASE entry[c].cursor = 0
    <3>1. \A i \in About(events, c) : events[i].filing <= claims[r][c]
      BY <1>2, <2>1, <2>2 DEF SessionInv, FirstInv
    <3>2. About(drafts[r], c) = {}
      BY <2>1, <2>2 DEF TellsOf
    <3>3. About(events', c) = About(events, c) /\ \A i \in About(events, c) : events'[i] = events[i]
      BY <2>1, <3>2, NothingJoins
    <3>4. TellingOf(events', c) = TellingOf(events, c)
      BY <3>3 DEF TellingOf
    <3>5. QED BY <2>1, <2>2, <3>1, <3>4 DEF Moves
  <2>3. CASE entry[c].cursor # 0
    <3>1. Log!Tells(TellingOf(events, c), TellingOf(events', c), Log!Passed(entry[c].cursor, claims[r][c]))
      BY <2>1, <2>3, TellingJoins
    <3>2. QED BY <2>1, <2>3, <3>1 DEF Moves
  <2>4. QED BY <2>2, <2>3
<1>3. QED BY <1>1, <1>2

-----------------------------------------------------------------------------
(* The steps of companies, users and other services.                       *)

LEMMA EntriesWorld ==
  ASSUME FeedTypeOK, SessionTypes, RowsInv, NEW r \in Refreshers, SessionInv(r),
         NEW c \in Companies, File(c) \/ AddEntry(c) \/ RemoveEntry(c)
  PROVE  WorldStep(r) /\ UNCHANGED Mine(r)
<1>1. UNCHANGED Mine(r) /\ UNCHANGED events
  BY DEF File, AddEntry, RemoveEntry, Mine, refresh
<1>2. ASSUME NEW e \in Companies
      PROVE  filed[e] \in Nat /\ added[e] \in Nat /\ entry[e].id \in Nat /\ loaded[r][e].id \in Nat
  BY DEF FeedTypeOK, Row
<1>3. ASSUME NEW e \in Companies PROVE filed[e] <= filed'[e] /\ added[e] <= added'[e]
  <2>1. \/ filed' = filed /\ added' = added
        \/ filed' = [filed EXCEPT ![c] = @ + 1] /\ added' = added
        \/ filed' = filed /\ added' = [added EXCEPT ![c] = @ + 1]
    BY DEF File, AddEntry, RemoveEntry
  <2>2. filed'[e] = filed[e] \/ filed'[e] = filed[e] + 1
    BY <2>1 DEF FeedTypeOK
  <2>3. added'[e] = added[e] \/ added'[e] = added[e] + 1
    BY <2>1 DEF FeedTypeOK
  <2>4. QED BY <1>2, <2>2, <2>3
<1>4. ASSUME NEW e \in Companies, entry'[e] = entry[e] PROVE Untouched(e)
  BY <1>1, <1>4 DEF Untouched
<1>5. \/ entry' = entry
      \/ entry' = [entry EXCEPT ![c] = [id |-> added[c] + 1, cursor |-> 0]] /\ entry[c] = Absent
      \/ entry' = [entry EXCEPT ![c] = Absent] /\ c \notin held[r]
  BY DEF File, AddEntry, RemoveEntry, FeedTypeOK
<1>6. ASSUME NEW e \in Companies, entry'[e] # entry[e]
      PROVE  claims[r][e] = 0 /\ (loaded[r][e].id # 0 => entry'[e] # loaded[r][e])
  <2>1. e = c
    BY <1>5, <1>6 DEF FeedTypeOK
  <2>2. CASE entry'[c] = [id |-> added[c] + 1, cursor |-> 0] /\ entry[c] = Absent
    <3>1. claims[r][c] = 0
      BY <2>2 DEF SessionInv, ClaimInv, Absent
    <3>2. loaded[r][c].id <= added[c]
      BY DEF SessionInv, LoadedInv
    <3>3. entry'[c].id # loaded[r][c].id
      BY <1>2, <2>2, <3>2
    <3>4. QED BY <2>1, <3>1, <3>3
  <2>3. CASE entry'[c] = Absent /\ c \notin held[r]
    <3>1. claims[r][c] = 0
      BY <2>3 DEF SessionInv, ClaimInv
    <3>2. entry'[c].id = 0
      BY <2>3 DEF Absent
    <3>3. QED BY <2>1, <3>1, <3>2
  <2>4. QED BY <1>5, <1>6, <2>1, <2>2, <2>3 DEF FeedTypeOK
<1>7. QED BY <1>1, <1>3, <1>4, <1>6 DEF WorldStep

LEMMA EntriesRows ==
  ASSUME FeedTypeOK, SessionTypes, RowsInv, NEW c \in Companies, File(c) \/ AddEntry(c) \/ RemoveEntry(c)
  PROVE  RowsInv'
<1>1. UNCHANGED events
  BY DEF File, AddEntry, RemoveEntry
<1>2. ASSUME NEW e \in Companies
      PROVE  filed[e] \in Nat /\ added[e] \in Nat /\ entry[e].id \in Nat /\ entry[e].cursor \in Nat
  BY DEF FeedTypeOK, Row
<1>3. ASSUME NEW e \in Companies, NEW i \in About(events, e) PROVE events[i].filing \in Nat
  <2>1. events \in Seq(Event) /\ i \in DOMAIN events
    BY DEF SessionTypes, About
  <2>2. events[i] \in Event
    BY <2>1
  <2>3. QED BY <2>2 DEF Event
<1>4. CASE File(c)
  BY <1>1, <1>2, <1>3, <1>4 DEF File, RowsInv, FeedTypeOK
<1>5. CASE AddEntry(c)
  <2>1. /\ added' = [added EXCEPT ![c] = @ + 1] /\ filed' = filed
        /\ entry' = [entry EXCEPT ![c] = [id |-> added'[c], cursor |-> 0]]
        /\ added'[c] = added[c] + 1
    BY <1>5 DEF AddEntry, FeedTypeOK
  <2>2. entry'[c].id = added'[c] /\ entry'[c].cursor = 0
    BY <2>1 DEF FeedTypeOK
  <2>3. \A e \in Companies \ {c} : entry'[e] = entry[e] /\ added'[e] = added[e]
    BY <2>1 DEF FeedTypeOK
  <2>4. ASSUME NEW e \in Companies
        PROVE  /\ entry'[e].id = 0 => entry'[e] = Absent
               /\ entry'[e].id <= added'[e] /\ entry'[e].cursor <= filed[e]
               /\ \A i \in About(events, e) : events[i].filing <= filed[e]
    <3>1. CASE e = c BY <1>2, <2>1, <2>2, <3>1 DEF RowsInv
    <3>2. CASE e # c BY <2>3, <3>2 DEF RowsInv
    <3>3. QED BY <3>1, <3>2
  <2>5. QED BY <1>1, <2>1, <2>4 DEF RowsInv
<1>6. CASE RemoveEntry(c)
  <2>1. UNCHANGED <<filed, added>> /\ entry' = [entry EXCEPT ![c] = Absent]
    BY <1>6 DEF RemoveEntry
  <2>2. Absent.id = 0 /\ Absent.cursor = 0
    BY DEF Absent
  <2>3. ASSUME NEW e \in Companies
        PROVE  /\ entry'[e].id = 0 => entry'[e] = Absent
               /\ entry'[e].id <= added[e] /\ entry'[e].cursor <= filed[e]
               /\ \A i \in About(events, e) : events[i].filing <= filed[e]
    <3>1. CASE e = c
      <4>1. entry'[e] = Absent
        BY <2>1, <3>1 DEF FeedTypeOK
      <4>2. QED BY <1>2, <2>2, <4>1 DEF RowsInv
    <3>2. CASE e # c
      <4>1. entry'[e] = entry[e]
        BY <2>1, <3>2 DEF FeedTypeOK
      <4>2. QED BY <4>1 DEF RowsInv
    <3>3. QED BY <3>1, <3>2
  <2>4. QED BY <1>1, <2>1, <2>3 DEF RowsInv
<1>7. QED BY <1>4, <1>5, <1>6

LEMMA EntriesMove ==
  ASSUME FeedTypeOK, SessionTypes, NEW c \in Companies, File(c) \/ AddEntry(c) \/ RemoveEntry(c),
         NEW e \in Companies
  PROVE  Moves(e)
<1>1. UNCHANGED events
  BY DEF File, AddEntry, RemoveEntry
<1>2. entry'[e] = entry[e] \/ entry'[e].cursor = 0
  BY DEF File, AddEntry, RemoveEntry, FeedTypeOK, Absent
<1>3. QED BY <1>1, <1>2 DEF Moves

\* The event of another service is about no company.
LEMMA OtherUntouched ==
  ASSUME SessionTypes, OtherWrites \/ OtherCommits
  PROVE  /\ \A c \in Companies : Untouched(c)
         /\ UNCHANGED <<entry, added, filed, refresh>> /\ events' \in Seq(Event)
<1> DEFINE event == [company |-> NoCompany, filing |-> 0, at |-> 1]
<1>1. UNCHANGED <<entry, added, filed, refresh>> /\ (events' = events \/ events' = Append(events, event))
  BY DEF OtherWrites, OtherCommits, entries
<1>2. event \in Event /\ \A c \in Companies : event.company # c
  BY FeedAssumption DEF Event
<1> HIDE DEF event
<1>3. CASE events' = events
  BY <1>1, <1>3 DEF Untouched, SessionTypes
<1>4. CASE events' = Append(events, event)
  <2>1. /\ events' \in Seq(Event) /\ DOMAIN events' = DOMAIN events \cup {Len(events) + 1}
        /\ events'[Len(events) + 1] = event /\ Len(events) + 1 \notin DOMAIN events
        /\ \A i \in DOMAIN events : events'[i] = events[i]
    BY <1>2, <1>4 DEF SessionTypes
  <2>2. ASSUME NEW c \in Companies PROVE About(events', c) = About(events, c)
    BY <1>2, <2>1 DEF About
  <2>3. \A c \in Companies : \A i \in About(events, c) : events'[i] = events[i]
    BY <2>1 DEF About
  <2>4. QED BY <1>1, <2>1, <2>2, <2>3 DEF Untouched
<1>5. QED BY <1>1, <1>3, <1>4

LEMMA UntouchedRows ==
  ASSUME RowsInv, UNCHANGED <<entry, added, filed>>, \A c \in Companies : Untouched(c)
  PROVE  RowsInv'
BY DEF RowsInv, Untouched

-----------------------------------------------------------------------------
(* Types and locks of the sessions.                                        *)

LEMMA InitFeedInv == Init => FeedInv
<1> SUFFICES ASSUME Init PROVE FeedInv
  OBVIOUS
<1>1. FeedTypeOK
  BY InitTypes
<1>2. SessionTypes
  BY DEF Init, SessionTypes
<1>3. \A c : About(<<>>, c) = {}
  BY DEF About
<1>4. RowsInv
  <2>1. \A c \in Companies : filed[c] \in Nat
    BY <1>1 DEF FeedTypeOK
  <2>2. QED BY <1>3, <2>1 DEF Init, RowsInv, Absent
<1>5. LocksInv
  BY DEF Init, LocksInv
<1>6. ASSUME NEW r \in Refreshers PROVE SessionInv(r)
  <2>1. \A c \in Companies : filed[c] \in Nat
    BY <1>1 DEF FeedTypeOK
  <2>2. LoadedInv(r)
    BY <2>1 DEF Init, LoadedInv, Absent, NoClaims
  <2>3. AtInv(r) /\ ClaimInv(r) /\ FirstInv(r)
    BY DEF Init, AtInv, ClaimInv, FirstInv, Absent, NoClaims
  <2>4. DraftsInv(r)
    BY <1>3 DEF Init, DraftsInv, Announced, TellsOf, NoClaims
  <2>5. QED BY <2>2, <2>3, <2>4 DEF SessionInv
<1>7. QED BY <1>1, <1>2, <1>4, <1>5, <1>6 DEF FeedInv

LEMMA CloseSessionTypes ==
  ASSUME SessionTypes, NEW r \in Refreshers, Close(r), events' \in Seq(Event)
  PROVE  SessionTypes'
<1>1. <<>> \in Seq(Event)
  OBVIOUS
<1>2. QED BY <1>1 DEF SessionTypes, Close

LEMMA RefreshSessionTypes ==
  ASSUME FeedTypeOK, SessionTypes, NEW r \in Refreshers, SessionInv(r), Load(r) \/ RefreshStep(r) \/ Fail(r)
  PROVE  SessionTypes'
<1> USE DEF entries
<1>1. CASE Load(r) BY <1>1 DEF Load, SessionTypes
<1>2. ASSUME NEW c \in Companies, LookInVain(r, c) PROVE SessionTypes'
  BY <1>2 DEF LookInVain, Look, SessionTypes
<1>3. ASSUME NEW c \in Companies, Fetch(r, c) PROVE SessionTypes'
  BY <1>3 DEF Fetch, Look, SessionTypes
<1>4. CASE Pass(r) BY <1>4 DEF Pass, SessionTypes
<1>5. CASE ClaimCursor(r)
  <2>1. at[r] \in Companies
    BY <1>5 DEF ClaimCursor, SessionInv, AtInv
  <2>2. QED BY <1>5, <2>1 DEF ClaimCursor, SessionTypes
<1>6. CASE Emit(r)
  <2> DEFINE x == Drafted(at[r], listed[r], loaded[r][at[r]].cursor)
  <2>1. x \in Seq(Event)
    BY <1>6, EmitSession
  <2>2. /\ drafts' = [drafts EXCEPT ![r] = @ \o x] /\ held' = [held EXCEPT ![r] = @ \cup seen[r]]
        /\ UNCHANGED <<events, at, todo, seen>>
    BY <1>6 DEF Emit
  <2> HIDE DEF x
  <2>3. drafts[r] \o x \in Seq(Event)
    BY <2>1 DEF SessionTypes
  <2>4. drafts' \in [Refreshers -> Seq(Event)]
    BY <2>2, <2>3 DEF SessionTypes
  <2>5. QED BY <2>2, <2>4 DEF SessionTypes
<1>7. CASE Commit(r)
  <2>1. events' \in Seq(Event)
    BY <1>7 DEF Commit, SessionTypes
  <2>2. QED BY <1>7, <2>1, CloseSessionTypes DEF Commit
<1>8. CASE FlushStale(r) \/ BreakDeadlock(r) \/ Fail(r)
  BY <1>8, CloseSessionTypes DEF FlushStale, BreakDeadlock, Fail, SessionTypes
<1>9. QED BY <1>1, <1>2, <1>3, <1>4, <1>5, <1>6, <1>7, <1>8 DEF RefreshStep

\* A session takes locks that nobody else holds, and gives them back together.
LEMMA RefreshLocks ==
  ASSUME SessionTypes, LocksInv, NEW r \in Refreshers, Load(r) \/ RefreshStep(r) \/ Fail(r)
  PROVE  LocksInv'
<1>1. CASE UNCHANGED held
  BY <1>1 DEF LocksInv
<1>2. ASSUME NEW more, held' = [held EXCEPT ![r] = @ \cup more], \A c \in more : ~LockedByOther(r, c)
      PROVE  LocksInv'
  BY <1>2 DEF LocksInv, LockedByOther, SessionTypes
<1>3. CASE Close(r)
  BY <1>3 DEF Close, LocksInv, SessionTypes
<1>4. CASE ClaimCursor(r)
  <2>1. held' = [held EXCEPT ![r] = @ \cup {at[r]}] /\ \A c \in {at[r]} : ~LockedByOther(r, c)
    BY <1>4 DEF ClaimCursor
  <2>2. QED BY <2>1 DEF LocksInv, LockedByOther, SessionTypes
<1>5. CASE Emit(r)
  <2>1. held' = [held EXCEPT ![r] = @ \cup seen[r]] /\ \A c \in seen[r] : ~LockedByOther(r, c)
    BY <1>5 DEF Emit, CanFlush
  <2>2. QED BY <1>2, <2>1
<1>6. CASE Commit(r) \/ FlushStale(r) \/ BreakDeadlock(r) \/ Fail(r)
  BY <1>3, <1>6 DEF Commit, FlushStale, BreakDeadlock, Fail
<1>7. CASE Load(r) \/ Pass(r) \/ \E c \in Companies : LookInVain(r, c) \/ Fetch(r, c)
  BY <1>1, <1>7 DEF Load, Pass, LookInVain, Fetch, Look
<1>8. QED BY <1>4, <1>5, <1>6, <1>7 DEF RefreshStep

-----------------------------------------------------------------------------
(* The invariant, and the refinement.                                      *)

\* Syncs, and steps that change nothing, leave rows and sessions alone.
LEMMA SyncsLeaveRefreshes ==
  ASSUME (\E s \in Syncs : SyncLoad(s) \/ SyncStep(s) \/ SyncFail(s)) \/ UNCHANGED vars
  PROVE  UNCHANGED <<entries, events, refresh>>
BY DEF SyncLoad, SyncStep, SyncInsert, SyncSkip, SyncCommit, SyncFail, vars

LEMMA RefreshFeedInv ==
  ASSUME FeedInv, FeedTypeOK', NEW r \in Refreshers, Load(r) \/ RefreshStep(r) \/ Fail(r)
  PROVE  FeedInv'
<1> USE DEF FeedInv
<1>1. SessionTypes' /\ LocksInv'
  BY RefreshSessionTypes, RefreshLocks
<1>2. CASE Commit(r)
  <2>1. RowsInv'
    BY <1>2, CommitRows
  <2>2. SessionInv(r)'
    BY <1>2, CloseSession DEF Commit
  <2>3. ASSUME NEW s \in Refreshers \ {r} PROVE SessionInv(s)'
    <3>1. WorldStep(s) /\ UNCHANGED Mine(s)
      BY <1>2, CommitWorld
    <3>2. QED BY <3>1, WorldKeeps
  <2>4. QED BY <1>1, <2>1, <2>2, <2>3
<1>3. CASE ~Commit(r)
  <2>1. UNCHANGED <<entry, added, events, filed>> /\ \A s \in Refreshers \ {r} : UNCHANGED Mine(s)
    BY <1>3, WithinFrame DEF Within
  <2>2. RowsInv'
    BY <2>1, StillRows
  <2>3. ASSUME NEW s \in Refreshers \ {r} PROVE SessionInv(s)'
    BY <2>1, StillSession
  <2>4. SessionInv(r)'
    BY <1>3, LoadSession, LookSession, PassSession, ClaimSession, EmitSession, CloseSession
       DEF RefreshStep, FlushStale, BreakDeadlock, Fail
  <2>5. QED BY <1>1, <2>2, <2>3, <2>4
<1>4. QED BY <1>2, <1>3

LEMMA StepFeedInv == FeedInv /\ SyncInv' /\ [Next]_vars => FeedInv'
<1> SUFFICES ASSUME FeedInv, SyncInv', [Next]_vars PROVE FeedInv'
  OBVIOUS
<1>1. FeedTypeOK'
  BY StepTypes DEF FeedInv
<1>2. ASSUME NEW r \in Refreshers, Load(r) \/ RefreshStep(r) \/ Fail(r) PROVE FeedInv'
  BY <1>1, <1>2, RefreshFeedInv
<1>3. ASSUME NEW c \in Companies, File(c) \/ AddEntry(c) \/ RemoveEntry(c) PROVE FeedInv'
  <2>1. UNCHANGED <<events, refresh>>
    BY <1>3 DEF File, AddEntry, RemoveEntry
  <2>2. SessionTypes' /\ LocksInv'
    BY <2>1 DEF FeedInv, SessionTypes, LocksInv, refresh
  <2>3. RowsInv'
    BY <1>3, EntriesRows DEF FeedInv
  <2>4. ASSUME NEW r \in Refreshers PROVE SessionInv(r)'
    <3>1. WorldStep(r) /\ UNCHANGED Mine(r)
      BY <1>3, EntriesWorld DEF FeedInv
    <3>2. QED BY <1>1, <3>1, WorldKeeps DEF FeedInv
  <2>5. QED BY <1>1, <2>2, <2>3, <2>4 DEF FeedInv
<1>4. CASE OtherWrites \/ OtherCommits
  <2>1. /\ \A c \in Companies : Untouched(c)
        /\ UNCHANGED <<entry, added, filed, refresh>> /\ events' \in Seq(Event)
    BY <1>4, OtherUntouched DEF FeedInv
  <2>2. SessionTypes' /\ LocksInv'
    BY <2>1 DEF FeedInv, SessionTypes, LocksInv, refresh
  <2>3. RowsInv'
    BY <2>1, UntouchedRows DEF FeedInv
  <2>4. ASSUME NEW r \in Refreshers PROVE SessionInv(r)'
    <3>1. WorldStep(r) /\ UNCHANGED Mine(r)
      BY <2>1 DEF WorldStep, Mine, refresh, FeedInv, FeedTypeOK
    <3>2. QED BY <1>1, <3>1, WorldKeeps DEF FeedInv
  <2>5. QED BY <1>1, <2>2, <2>3, <2>4 DEF FeedInv
<1>5. CASE (\E s \in Syncs : SyncLoad(s) \/ SyncStep(s) \/ SyncFail(s)) \/ UNCHANGED vars
  <2>1. UNCHANGED <<entry, added, filed, events, refresh>>
    BY <1>5, SyncsLeaveRefreshes DEF entries
  <2>2. SessionTypes' /\ LocksInv' /\ RowsInv'
    BY <2>1, StillRows DEF FeedInv, SessionTypes, LocksInv, refresh
  <2>3. ASSUME NEW r \in Refreshers PROVE SessionInv(r)'
    <3>1. UNCHANGED Mine(r)
      BY <2>1 DEF Mine, refresh
    <3>2. QED BY <1>1, <2>1, <3>1, StillSession DEF FeedInv
  <2>4. QED BY <1>1, <2>2, <2>3 DEF FeedInv
<1>6. QED BY <1>2, <1>3, <1>4, <1>5 DEF Next, Entries

LEMMA StepMoves ==
  ASSUME FeedInv, [Next]_vars, NEW c \in Companies
  PROVE  Moves(c)
<1> USE DEF FeedInv
<1>1. ASSUME NEW r \in Refreshers, Load(r) \/ RefreshStep(r) \/ Fail(r) PROVE Moves(c)
  <2>1. CASE Commit(r)
    BY <2>1, CommitMoves
  <2>2. CASE ~Commit(r)
    <3>1. UNCHANGED <<entry, events>>
      BY <1>1, <2>2, WithinFrame DEF Within
    <3>2. QED BY <3>1, UntouchedMoves DEF Untouched
  <2>3. QED BY <2>1, <2>2
<1>2. ASSUME NEW e \in Companies, File(e) \/ AddEntry(e) \/ RemoveEntry(e) PROVE Moves(c)
  BY <1>2, EntriesMove
<1>3. CASE OtherWrites \/ OtherCommits
  BY <1>3, OtherUntouched, UntouchedMoves
<1>4. CASE (\E s \in Syncs : SyncLoad(s) \/ SyncStep(s) \/ SyncFail(s)) \/ UNCHANGED vars
  BY <1>4, SyncsLeaveRefreshes, UntouchedMoves DEF Untouched, entries
<1>5. QED BY <1>1, <1>2, <1>3, <1>4 DEF Next, Entries

LEMMA StepsAreLogs == FeedInv /\ [Next]_vars => [Log!Next]_Log!vars
<1> SUFFICES ASSUME FeedInv, [Next]_vars PROVE Log!Next
  OBVIOUS
<1> SUFFICES ASSUME NEW c \in Companies
             PROVE  Log!FirstLook(c) \/ Log!Announce(c) \/ Log!Forget(c) \/ Log!Same(c)
  BY DEF Log!Next
<1>1. Moves(c)
  BY StepMoves
<1>2. Mark[c] = entry[c].cursor /\ Mark'[c] = entry'[c].cursor
  BY DEF Mark
<1>3. /\ [e \in Companies |-> Told(e)][c] = TellingOf(events, c)
      /\ [e \in Companies |-> Told(e)]'[c] = TellingOf(events', c)
  BY DEF Told, TellingOf, About
<1>4. CASE /\ entry[c].cursor = 0
           /\ \A i \in About(events, c) : events[i].filing <= entry'[c].cursor
           /\ TellingOf(events', c) = TellingOf(events, c)
  <2>1. \A i \in DOMAIN TellingOf(events, c) : TellingOf(events, c)[i] <= Mark'[c]
    BY <1>2, <1>4 DEF TellingOf
  <2>2. Log!FirstLook(c)
    BY <1>2, <1>3, <1>4, <2>1 DEF Log!FirstLook, Log!Quiet
  <2>3. QED BY <2>2
<1>5. CASE /\ 0 < entry[c].cursor /\ entry[c].cursor < entry'[c].cursor
           /\ Log!Tells(TellingOf(events, c), TellingOf(events', c), Log!Passed(entry[c].cursor, entry'[c].cursor))
  <2>1. Log!Announce(c)
    BY <1>2, <1>3, <1>5 DEF Log!Announce
  <2>2. QED BY <2>1
<1>6. CASE /\ entry'[c].cursor = 0 \/ entry'[c].cursor = entry[c].cursor
           /\ TellingOf(events', c) = TellingOf(events, c)
  <2>1. Log!Forget(c) \/ Log!Same(c)
    BY <1>2, <1>3, <1>6 DEF Log!Forget, Log!Same, Log!Quiet
  <2>2. QED BY <2>1
<1>7. QED BY <1>1, <1>4, <1>5, <1>6 DEF Moves

LEMMA InitIsLog == Init => Log!Init
<1> SUFFICES ASSUME Init PROVE Log!Init
  OBVIOUS
<1>1. Mark = [c \in Companies |-> 0]
  BY DEF Init, Mark, Absent
<1>2. ASSUME NEW c \in Companies PROVE Told(c) = <<>>
  BY DEF Init, Told
<1>3. [c \in Companies |-> Told(c)] = [c \in Companies |-> <<>>]
  BY <1>2
<1>4. QED BY <1>1, <1>3 DEF Log!Init

\* However refreshes interleave, race for a cursor, fail, wait for each other
\* or lose their entries: cursors only move forward, and each move announces
\* exactly the filings that it passes and the feed still shows, each once and
\* the older first (refresh_watchlist, _claim_cursor).
THEOREM FeedImplementsLog == Spec => ImplementsFilingLog
<1>1. Init => SyncInv /\ FeedInv
  BY InitSyncInv, InitFeedInv
<1>2. SyncInv /\ FeedInv /\ [Next]_vars => SyncInv' /\ FeedInv'
  BY StepSyncInv, StepFeedInv
<1>3. QED BY <1>1, <1>2, InitIsLog, StepsAreLogs, PTL DEF Spec, ImplementsFilingLog, Log!Spec
=============================================================================
