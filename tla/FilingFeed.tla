----------------------------- MODULE FilingFeed -----------------------------
(***************************************************************************)
(* The watchlist of one organization (services/watchlist_service.py) and   *)
(* the notifications made of its events (services/notification_service.py).*)
(*                                                                         *)
(* A refresh loads the entries with their cursors, asks EDGAR about one    *)
(* after the other, claims a cursor by compare-and-set before it writes    *)
(* the events, and commits once at the end: until then it holds the locks  *)
(* of the rows it wrote.  The worker refreshes for ever; a refresh asked   *)
(* for by a user runs once.  A sync maps audit events to notifications,    *)
(* each insert in a savepoint, and commits once.                           *)
(*                                                                         *)
(* A company's filings are numbered in the order they are made.            *)
(***************************************************************************)
EXTENDS Integers, Sequences, FiniteSets

CONSTANTS
  Companies,
  Workers,      \* processes of workers/watchlist_refresh.py
  Requests,     \* refreshes asked for by a user
  Syncs,        \* clients that poll the notifications
  Window,       \* _RECENT_LIMIT
  Agendas,      \* the mixes of actors, filings and faults considered
  Other,        \* a transaction of another service, which writes an audit event
  NoCompany

Refreshers == Workers \cup Requests

\* Who runs, the filings made before and at most, and bounds on the entries
\* added for a company and on outages of EDGAR and failed transactions.
Agenda ==
  [actors : SUBSET (Refreshers \cup Syncs \cup {Other}),
   backlog : [Companies -> Nat], latest : [Companies -> Nat],
   rows : Nat, faults : Nat]

ASSUME FeedAssumption ==
  /\ Window \in Nat \ {0}
  /\ Agendas # {} /\ \A g \in Agendas : g \in Agenda
  /\ Workers \cap Requests = {}
  /\ NoCompany \notin Companies

VARIABLES
  agenda,   \* the mix of this behaviour; it never changes
  filed,    \* the filings a company has made, as EDGAR lists them
  entry,    \* watchlist_entries: id (0: no row) and last_seen_accession
  added,    \* entries added for each company
  events,   \* the committed audit events
  other,    \* whether the other transaction has written its event
  faults,
  step,     \* where each refresh is in refresh_watchlist
  loaded,   \* the entries as its session loaded them
  todo,     \* the entries not looked at yet
  at,       \* the entry it is at
  listed,   \* the newest filing in EDGAR's answer about it
  seen,     \* the entries looked at: last_checked_at is set
  claims,   \* the cursors it moved (0: not moved), uncommitted
  drafts,   \* the events it wrote, uncommitted
  held,     \* the rows it holds locks of
  notes,    \* the positions in events that have a notification
  batch,    \* what each sync has yet to insert; Idle: between syncs
  pending,  \* the notifications it inserted, uncommitted
  created   \* the notifications it reports as created

entries == <<agenda, filed, entry, added>>
refresh == <<step, loaded, todo, at, listed, seen, claims, drafts, held>>
syncing == <<notes, batch, pending, created>>
vars == <<entries, events, other, faults, refresh, syncing>>

-----------------------------------------------------------------------------
Steps == {"idle", "looking", "claiming", "emitting", "done"}
Row == [id : Nat, cursor : Nat]
Absent == [id |-> 0, cursor |-> 0]
Idle == {0}  \* no event has position 0
NoClaims == [c \in Companies |-> 0]

\* EDGAR's answer when n filings are made.
Shown(n) == {f \in 1..n : n - f < Window}

\* _detect_new: newest first, up to the cursor; all of them if it is not shown.
Detected(n, cursor) ==
  {f \in Shown(n) : cursor \in Shown(n) => f > cursor}

\* created_at, as far as it orders an event and that of the other service.
Now == IF other THEN 2 ELSE 0

\* The events of the filings detected, oldest first.
Drafted(c, n, cursor) ==
  LET new == Cardinality(Detected(n, cursor))
  IN  [i \in 1..new |-> [company |-> c, filing |-> n - new + i, at |-> Now]]

LockedByOther(r, c) == \E s \in Refreshers \ {r} : c \in held[s]

\* The row the session loaded is still there.
Kept(r, c) == entry[c].id = loaded[r][c].id

Init ==
  /\ agenda \in Agendas
  /\ filed = agenda.backlog
  /\ entry = [c \in Companies |-> Absent]
  /\ added = [c \in Companies |-> 0]
  /\ events = <<>>
  /\ other = FALSE
  /\ faults = 0
  /\ step = [r \in Refreshers |-> "idle"]
  /\ loaded = [r \in Refreshers |-> [c \in Companies |-> Absent]]
  /\ todo = [r \in Refreshers |-> {}]
  /\ at = [r \in Refreshers |-> NoCompany]
  /\ listed = [r \in Refreshers |-> 0]
  /\ seen = [r \in Refreshers |-> {}]
  /\ claims = [r \in Refreshers |-> NoClaims]
  /\ drafts = [r \in Refreshers |-> <<>>]
  /\ held = [r \in Refreshers |-> {}]
  /\ notes = {}
  /\ batch = [s \in Syncs |-> Idle]
  /\ pending = [s \in Syncs |-> {}]
  /\ created = [s \in Syncs |-> {}]

-----------------------------------------------------------------------------
(* Companies, and the entries of the organization.                         *)

File(c) ==
  /\ filed[c] < agenda.latest[c]
  /\ filed' = [filed EXCEPT ![c] = @ + 1]
  /\ UNCHANGED <<agenda, entry, added, events, other, faults, refresh, syncing>>

\* add_entry, of a company that is not watched; else it changes nothing here.
AddEntry(c) ==
  /\ entry[c] = Absent /\ added[c] < agenda.rows
  /\ added' = [added EXCEPT ![c] = @ + 1]
  /\ entry' = [entry EXCEPT ![c] = [id |-> added'[c], cursor |-> 0]]
  /\ UNCHANGED <<agenda, filed, events, other, faults, refresh, syncing>>

\* remove_entry waits for a refresh that wrote the row.
RemoveEntry(c) ==
  /\ entry[c] # Absent
  /\ \A r \in Refreshers : c \notin held[r]
  /\ entry' = [entry EXCEPT ![c] = Absent]
  /\ UNCHANGED <<agenda, filed, added, events, other, faults, refresh, syncing>>

\* Another service writes an audit event, and commits it later or never.
OtherWrites ==
  /\ ~other /\ Other \in agenda.actors
  /\ other' = TRUE
  /\ UNCHANGED <<entries, events, faults, refresh, syncing>>

OtherCommits ==
  LET event == [company |-> NoCompany, filing |-> 0, at |-> 1] IN
  /\ other
  /\ \A i \in DOMAIN events : events[i] # event
  /\ events' = Append(events, event)
  /\ UNCHANGED <<entries, other, faults, refresh, syncing>>

-----------------------------------------------------------------------------
(* refresh_watchlist.                                                      *)

Load(r) ==
  /\ step[r] = "idle" /\ r \in agenda.actors
  /\ step' = [step EXCEPT ![r] = "looking"]
  /\ loaded' = [loaded EXCEPT ![r] = entry]
  /\ todo' = [todo EXCEPT ![r] = {c \in Companies : entry[c] # Absent}]
  /\ UNCHANGED <<entries, events, other, faults, at, listed, seen, claims, drafts, held, syncing>>

Look(r, c) ==
  /\ step[r] = "looking" /\ c \in todo[r]
  /\ todo' = [todo EXCEPT ![r] = @ \ {c}]
  /\ seen' = [seen EXCEPT ![r] = @ \cup {c}]
  /\ UNCHANGED <<entries, events, other, loaded, claims, drafts, held, syncing>>

\* EDGAR does not answer, or lists no filing.
LookInVain(r, c) ==
  /\ Look(r, c)
  /\ \/ filed[c] = 0 /\ UNCHANGED faults
     \/ faults < agenda.faults /\ faults' = faults + 1
  /\ UNCHANGED <<step, at, listed>>

Fetch(r, c) ==
  /\ Look(r, c)
  /\ filed[c] > 0
  /\ step' = [step EXCEPT ![r] = "claiming"]
  /\ at' = [at EXCEPT ![r] = c]
  /\ listed' = [listed EXCEPT ![r] = filed[c]]
  /\ UNCHANGED faults

NothingNew(r) ==
  LET cursor == loaded[r][at[r]].cursor
  IN  cursor # 0 /\ Detected(listed[r], cursor) = {}

\* Mutant of Unclaimed: the row is updated by its id alone.
UnclaimedById(r, c) == Kept(r, c)

\* The WHERE of _claim_cursor.
Unclaimed(r, c) == Kept(r, c) /\ entry[c].cursor = loaded[r][c].cursor

Pass(r) ==
  /\ step[r] = "claiming"
  /\ NothingNew(r) \/ ~Unclaimed(r, at[r])
  /\ step' = [step EXCEPT ![r] = "looking"]
  /\ UNCHANGED <<entries, events, other, faults, loaded, todo, at, listed, seen, claims, drafts, held, syncing>>

ClaimCursor(r) ==
  LET c == at[r] IN
  /\ step[r] = "claiming"
  /\ ~NothingNew(r) /\ Unclaimed(r, c) /\ ~LockedByOther(r, c)
  /\ claims' = [claims EXCEPT ![r][c] = listed[r]]
  /\ held' = [held EXCEPT ![r] = @ \cup {c}]
  /\ step' = [step EXCEPT ![r] = IF loaded[r][c].cursor = 0 THEN "looking" ELSE "emitting"]
  /\ UNCHANGED <<entries, events, other, faults, loaded, todo, at, listed, seen, drafts, syncing>>

\* It is about to write the events, or to commit.
Flushing(r) ==
  \/ step[r] = "emitting"
  \/ step[r] = "looking" /\ todo[r] = {}

\* A flush updates last_checked_at of the entries looked at.
CanFlush(r) == \A c \in seen[r] : Kept(r, c) /\ ~LockedByOther(r, c)

\* _emit_new_filing_event for each new filing: the first one flushes.
Emit(r) ==
  /\ step[r] = "emitting" /\ CanFlush(r)
  /\ held' = [held EXCEPT ![r] = @ \cup seen[r]]
  /\ drafts' = [drafts EXCEPT ![r] = @ \o Drafted(at[r], listed[r], loaded[r][at[r]].cursor)]
  /\ step' = [step EXCEPT ![r] = "looking"]
  /\ UNCHANGED <<entries, events, other, faults, loaded, todo, at, listed, seen, claims, syncing>>

\* The session of r is closed, and with it its locks and copies.
Close(r) ==
  /\ step' = [step EXCEPT ![r] = IF r \in Requests THEN "done" ELSE "idle"]
  /\ loaded' = [loaded EXCEPT ![r] = [c \in Companies |-> Absent]]
  /\ todo' = [todo EXCEPT ![r] = {}]
  /\ at' = [at EXCEPT ![r] = NoCompany]
  /\ listed' = [listed EXCEPT ![r] = 0]
  /\ seen' = [seen EXCEPT ![r] = {}]
  /\ claims' = [claims EXCEPT ![r] = NoClaims]
  /\ drafts' = [drafts EXCEPT ![r] = <<>>]
  /\ held' = [held EXCEPT ![r] = {}]

\* The cursors claimed by r.
Claimed(r) ==
  [c \in Companies |-> IF claims[r][c] = 0 THEN entry[c] ELSE [entry[c] EXCEPT !.cursor = claims[r][c]]]

Commit(r) ==
  /\ step[r] = "looking" /\ todo[r] = {} /\ CanFlush(r)
  /\ entry' = Claimed(r)
  /\ events' = events \o drafts[r]
  /\ Close(r)
  /\ UNCHANGED <<agenda, filed, added, other, faults, syncing>>

\* StaleDataError: an entry looked at was removed since.
FlushStale(r) ==
  /\ Flushing(r)
  /\ \E c \in seen[r] : ~Kept(r, c)
  /\ Close(r)
  /\ UNCHANGED <<entries, events, other, faults, syncing>>

\* Any other error, or the end of the process.
Fail(r) ==
  /\ step[r] \notin {"idle", "done"} /\ faults < agenda.faults
  /\ faults' = faults + 1
  /\ Close(r)
  /\ UNCHANGED <<entries, events, other, syncing>>

\* The rows r is about to write.
Wants(r) ==
  CASE step[r] = "claiming" /\ ~NothingNew(r) /\ Unclaimed(r, at[r]) -> {at[r]}
    [] Flushing(r) -> seen[r]
    [] OTHER -> {}

\* The database breaks a circle of refreshes that wait for each other's rows.
BreakDeadlock(r) ==
  /\ \E circle \in SUBSET Refreshers :
       /\ r \in circle
       /\ \A p \in circle : \E q \in circle \ {p} : Wants(p) \cap held[q] # {}
  /\ Close(r)
  /\ UNCHANGED <<entries, events, other, faults, syncing>>

-----------------------------------------------------------------------------
(* sync_from_audit.                                                        *)

\* Mutant of Unmapped: only the events after the newest that is mapped.
UnmappedAfterNewest ==
  {i \in DOMAIN events \ notes : \A j \in notes : events[j].at <= events[i].at}

Unmapped == 1..Len(events) \ notes

SyncLoad(s) ==
  /\ batch[s] = Idle /\ s \in agenda.actors
  /\ batch' = [batch EXCEPT ![s] = Unmapped]
  /\ created' = [created EXCEPT ![s] = {}]
  /\ UNCHANGED <<entries, events, other, faults, refresh, notes, pending>>

\* The next event of s by created_at; one refresh writes its events in order.
Oldest(s) ==
  CHOOSE i \in batch[s] :
    \A j \in batch[s] : events[i].at < events[j].at \/ (events[i].at = events[j].at /\ i <= j)

\* The insert of a row that another sync has inserted waits for its commit.
SyncInsert(s) ==
  /\ batch[s] \notin {Idle, {}}
  /\ LET i == Oldest(s) IN
     /\ \A t \in Syncs \ {s} : i \notin pending[t]
     /\ i \notin notes
     /\ batch' = [batch EXCEPT ![s] = @ \ {i}]
     /\ pending' = [pending EXCEPT ![s] = @ \cup {i}]
     /\ created' = [created EXCEPT ![s] = @ \cup {i}]
  /\ UNCHANGED <<entries, events, other, faults, refresh, notes>>

\* Mutant of SyncSkip: the whole transaction is rolled back.
SyncSkipAll(s) ==
  /\ batch[s] \notin {Idle, {}}
  /\ Oldest(s) \in notes
  /\ batch' = [batch EXCEPT ![s] = @ \ {Oldest(s)}]
  /\ pending' = [pending EXCEPT ![s] = {}]
  /\ UNCHANGED <<entries, events, other, faults, refresh, notes, created>>

\* IntegrityError: the savepoint gives back this row only.
SyncSkip(s) ==
  /\ batch[s] \notin {Idle, {}}
  /\ Oldest(s) \in notes
  /\ batch' = [batch EXCEPT ![s] = @ \ {Oldest(s)}]
  /\ UNCHANGED <<entries, events, other, faults, refresh, notes, pending, created>>

SyncCommit(s) ==
  /\ batch[s] = {}
  /\ notes' = notes \cup pending[s]
  /\ batch' = [batch EXCEPT ![s] = Idle]
  /\ pending' = [pending EXCEPT ![s] = {}]
  /\ UNCHANGED <<entries, events, other, faults, refresh, created>>

\* The request fails: nothing is stored and nothing reported.
SyncFail(s) ==
  /\ batch[s] # Idle /\ faults < agenda.faults
  /\ faults' = faults + 1
  /\ batch' = [batch EXCEPT ![s] = Idle]
  /\ pending' = [pending EXCEPT ![s] = {}]
  /\ created' = [created EXCEPT ![s] = {}]
  /\ UNCHANGED <<entries, events, other, refresh, notes>>

-----------------------------------------------------------------------------
Entries == \E c \in Companies : File(c) \/ AddEntry(c) \/ RemoveEntry(c)

RefreshStep(r) ==
  \/ \E c \in Companies : LookInVain(r, c) \/ Fetch(r, c)
  \/ Pass(r) \/ ClaimCursor(r) \/ Emit(r) \/ Commit(r)
  \/ FlushStale(r) \/ BreakDeadlock(r)

SyncStep(s) == SyncInsert(s) \/ SyncSkip(s) \/ SyncCommit(s)

Next ==
  \/ Entries \/ OtherWrites \/ OtherCommits
  \/ \E r \in Refreshers : Load(r) \/ RefreshStep(r) \/ Fail(r)
  \/ \E s \in Syncs : SyncLoad(s) \/ SyncStep(s) \/ SyncFail(s)

Spec == Init /\ [][Next]_vars

\* The worker starts a refresh every interval, the client polls, and what was
\* started goes on; no user is bound to ask for anything.  SF: the database
\* grants a lock to those that wait for it in turn.
Fairness ==
  /\ \A r \in Workers : WF_vars(Load(r))
  /\ \A r \in Refreshers :
       WF_vars(RefreshStep(r)) /\ SF_vars(ClaimCursor(r) \/ Emit(r) \/ Commit(r))
  /\ \A s \in Syncs : WF_vars(SyncLoad(s)) /\ WF_vars(SyncStep(s))

FairSpec == Spec /\ Fairness

-----------------------------------------------------------------------------
(* Properties.                                                             *)

\* The variables hold what their columns and locals can hold.
FeedTypeOK ==
  /\ filed \in [Companies -> Nat]
  /\ added \in [Companies -> Nat]
  /\ entry \in [Companies -> Row]
  /\ step \in [Refreshers -> Steps]
  /\ loaded \in [Refreshers -> [Companies -> Row]]
  /\ listed \in [Refreshers -> Nat]
  /\ claims \in [Refreshers -> [Companies -> Nat]]
  /\ batch \in [Syncs -> SUBSET Nat]

\* The filings of c that were announced, at the positions of their events.
Told(c) == [i \in {j \in DOMAIN events : events[j].company = c} |-> events[i].filing]

Mark == [c \in Companies |-> entry[c].cursor]

Log == INSTANCE FilingLog WITH mark <- Mark, told <- [c \in Companies |-> Told(c)]

\* However refreshes interleave, fail, wait for each other or lose their
\* entries, cursors only move forward and each move announces exactly the
\* filings it passes, once and in order (refresh_watchlist, _claim_cursor).
ImplementsFilingLog == Log!Spec

\* What a sync reports as created is stored, and no other sync reports it:
\* a lost insert gives back its own row only (sync_from_audit).
ReportedIsStored ==
  \A s \in Syncs :
    /\ batch[s] = Idle => created[s] \subseteq notes
    /\ \A t \in Syncs \ {s} : created[s] \cap created[t] = {}

\* Once companies file nothing more, every watched one has its newest filing
\* taken note of and, where a client polls, every event its notification: no
\* order of failures, lost claims and broken deadlocks leaves one behind.
CatchesUp ==
  <>[]( /\ \A c \in Companies : entry[c] # Absent => entry[c].cursor = filed[c]
        /\ Syncs \cap agenda.actors # {} => notes = DOMAIN events )
=============================================================================
