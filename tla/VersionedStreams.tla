-------------------------- MODULE VersionedStreams --------------------------
(***************************************************************************)
(* The append-only histories of a workspace: evidence refs, analysis runs, *)
(* artifacts, documents, underwriting cases.  Each stream numbers its rows *)
(* by SELECT max + 1, and a unique constraint decides the races.  A writer *)
(* is one request (or one build) and its database transaction:             *)
(*   - an analyst is run_full_analysis, which first deletes the workspace's*)
(*     risk findings and then writes evidence, a run and an artifact;      *)
(*   - an editor saves underwriting cases, with the versions it has open as*)
(*     expected parents, and is refused (409) when it loses;               *)
(*   - any other writer retries a lost insert (insert_versioned).          *)
(* Versions, not rows, are the values: a row's supersedes_id is the row of *)
(* the version below it, read by the same query.                           *)
(***************************************************************************)
EXTENDS Naturals, Sequences, FiniteSets, FiniteSetsExt

CONSTANTS
  Writers, Editors, Analysts,
  Crews,      \* the sets of writers that may run together
  Mortal,     \* the writers that may die or raise
  Streams,
  Evidence,   \* the stream of evidence refs
  Documents,  \* the stream of versions of one logical document
  Plan,       \* Plan[w]: the streams w inserts into, in order
  Content,    \* Content[w]: the digest of what w uploads
  Attempts    \* insert_versioned's attempts

ASSUME StreamsAssumption ==
  /\ Editors \subseteq Writers /\ Analysts \subseteq Writers \ Editors
  /\ Crews \subseteq SUBSET Writers
  /\ Plan \in [Writers -> Seq(Streams)]
  /\ Evidence \in Streams /\ Documents \in Streams
  /\ Attempts \in Nat \ {0}
  \* a case set names each case once, and an upload is of one document
  /\ \A w \in Writers : \A i, j \in DOMAIN Plan[w] :
       Plan[w][i] = Plan[w][j] /\ (w \in Editors \/ Plan[w][i] = Documents) => i = j

VARIABLES
  rows,      \* rows[s]: committed rows, a function from version to writer
  held,      \* held[w][s]: versions w inserted and has not committed
  stage,     \* how far the request of w is
  pos,       \* the index in Plan[w] of the row w inserts next
  cand,      \* the version w is about to insert; 0 when it must read first
  tries,     \* lost inserts of that row
  base,      \* base[w][s]: the latest version when w opened its request
  cited,     \* the evidence refs w holds in memory and seals in its artifact
  findings,  \* the analysts whose risk findings are the current view
  doomed     \* the findings that the DELETE of w sees, then has deleted

vars == <<rows, held, stage, pos, cand, tries, base, cited, findings, doomed>>

Stages == {"absent", "new", "clearing", "writing",
           "committed", "refused", "exhausted", "deadlocked", "aborted"}
Ended == {"absent", "committed", "refused", "exhausted", "deadlocked", "aborted"}

Top(V) == Max(V \cup {0})
Latest(s) == Top(DOMAIN rows[s])
\* What w's transaction reads: committed rows and its own.
Visible(w, s) == DOMAIN rows[s] \cup held[w][s]
Target(w) == Plan[w][pos[w]]
Nothing == [s \in Streams |-> {}]

Init ==
  /\ rows = [s \in Streams |-> <<>>]
  /\ held = [w \in Writers |-> Nothing]
  /\ \E crew \in Crews :
       stage = [w \in Writers |-> IF w \in crew THEN "new" ELSE "absent"]
  /\ pos = [w \in Writers |-> 1]
  /\ cand = [w \in Writers |-> 0]
  /\ tries = [w \in Writers |-> 0]
  /\ base = [w \in Writers |-> [s \in Streams |-> 0]]
  /\ cited = [w \in Writers |-> {}]
  /\ findings = {}
  /\ doomed = [w \in Writers |-> {}]

-----------------------------------------------------------------------------
(* The start of a request.  An editor's base is what its form shows.       *)

Begin(w) ==
  /\ stage[w] = "new"
  /\ base' = [base EXCEPT ![w] = [s \in Streams |-> Latest(s)]]
  /\ stage' = [stage EXCEPT ![w] = IF w \in Analysts THEN "clearing" ELSE "writing"]
  /\ doomed' = [doomed EXCEPT ![w] = IF w \in Analysts THEN findings ELSE {}]
  /\ UNCHANGED <<rows, held, pos, cand, tries, cited, findings>>

\* The DELETE waits for a transaction that deleted one of its rows; what
\* that transaction inserted is not in the statement's snapshot.
Clear(w) ==
  /\ stage[w] = "clearing"
  /\ \A o \in Writers \ {w} :
       stage[o] = "writing" => doomed[o] \cap doomed[w] = {}
  /\ doomed' = [doomed EXCEPT ![w] = @ \cap findings]
  /\ stage' = [stage EXCEPT ![w] = "writing"]
  /\ UNCHANGED <<rows, held, pos, cand, tries, base, cited, findings>>

-----------------------------------------------------------------------------
(* One row: read the latest version, then insert under the next.           *)

Reading(w) == stage[w] = "writing" /\ pos[w] <= Len(Plan[w]) /\ cand[w] = 0

\* Mutant of Superseded: only the editor's first case is checked.
SupersededFirst(w) ==
  /\ w \in Editors
  /\ pos[w] = 1
  /\ base[w][Target(w)] # 0
  /\ base[w][Target(w)] # Top(Visible(w, Target(w)))

\* expected_parent_version, which a form without a saved case leaves out.
Superseded(w) ==
  /\ w \in Editors
  /\ base[w][Target(w)] # 0
  /\ base[w][Target(w)] # Top(Visible(w, Target(w)))

\* Mutant of Identical: the digest is compared only before the first attempt.
IdenticalAtFirst(w) ==
  /\ Target(w) = Documents
  /\ Latest(Documents) # 0 /\ tries[w] = 0
  /\ Content[rows[Documents][Latest(Documents)]] = Content[w]

\* The upload repeats the document's latest version.
Identical(w) ==
  /\ Target(w) = Documents
  /\ Latest(Documents) # 0
  /\ Content[rows[Documents][Latest(Documents)]] = Content[w]

Build(w) ==
  /\ Reading(w)
  /\ ~Superseded(w) /\ ~Identical(w)
  /\ cand' = [cand EXCEPT ![w] = Top(Visible(w, Target(w))) + 1]
  /\ UNCHANGED <<rows, held, stage, pos, tries, base, cited, findings, doomed>>

\* The unique index makes the insert wait for the row's uncommitted owner.
Waits(w, o) ==
  /\ o # w /\ stage[w] = "writing" /\ pos[w] <= Len(Plan[w])
  /\ cand[w] # 0 /\ cand[w] \in held[o][Target(w)]

Insert(w) ==
  /\ cand[w] # 0
  /\ cand[w] \notin DOMAIN rows[Target(w)]
  /\ \A o \in Writers : ~Waits(w, o)
  /\ held' = [held EXCEPT ![w][Target(w)] = @ \cup {cand[w]}]
  /\ cited' = [cited EXCEPT ![w] =
                 IF Target(w) = Evidence THEN @ \cup {cand[w]} ELSE @]
  /\ pos' = [pos EXCEPT ![w] = @ + 1]
  /\ cand' = [cand EXCEPT ![w] = 0]
  /\ tries' = [tries EXCEPT ![w] = 0]
  /\ UNCHANGED <<rows, stage, base, findings, doomed>>

-----------------------------------------------------------------------------
(* The ends of a request.                                                  *)

\* The session rolls back and the request ends.
End(w, how) ==
  /\ stage' = [stage EXCEPT ![w] = how]
  /\ held' = [held EXCEPT ![w] = Nothing]
  /\ cand' = [cand EXCEPT ![w] = 0]
  /\ doomed' = [doomed EXCEPT ![w] = {}]
  /\ UNCHANGED <<rows, pos, tries, base, cited, findings>>

Refuse(w) ==
  /\ Reading(w)
  /\ Superseded(w) \/ Identical(w)
  /\ End(w, "refused")

\* IntegrityError: another transaction committed this version first.
Collides(w) == cand[w] # 0 /\ cand[w] \in DOMAIN rows[Target(w)]

\* Mutant of Retry: the whole transaction is rolled back, not the savepoint.
RetryWithoutSavepoint(w) ==
  /\ Collides(w)
  /\ w \notin Editors /\ tries[w] + 1 < Attempts
  /\ tries' = [tries EXCEPT ![w] = @ + 1]
  /\ cand' = [cand EXCEPT ![w] = 0]
  /\ held' = [held EXCEPT ![w] = Nothing]
  /\ UNCHANGED <<rows, stage, pos, base, cited, findings, doomed>>

\* Mutant of Retry: the lost row is offered again as it was built.
RetrySameRow(w) ==
  /\ Collides(w)
  /\ w \notin Editors /\ tries[w] + 1 < Attempts
  /\ tries' = [tries EXCEPT ![w] = @ + 1]
  /\ UNCHANGED <<rows, held, stage, pos, cand, base, cited, findings, doomed>>

\* Mutant of Retry: the loop neither rebuilds the row nor counts its attempts.
RetryForever(w) ==
  /\ Collides(w)
  /\ w \notin Editors
  /\ UNCHANGED vars

Retry(w) ==
  /\ Collides(w)
  /\ w \notin Editors /\ tries[w] + 1 < Attempts
  /\ tries' = [tries EXCEPT ![w] = @ + 1]
  /\ cand' = [cand EXCEPT ![w] = 0]
  /\ UNCHANGED <<rows, held, stage, pos, base, cited, findings, doomed>>

Exhaust(w) ==
  /\ Collides(w)
  /\ w \notin Editors /\ tries[w] + 1 >= Attempts
  /\ End(w, "exhausted")

LoseCase(w) ==
  /\ Collides(w)
  /\ w \in Editors
  /\ End(w, "refused")

Waiting == {w \in Writers : \E o \in Writers : Waits(w, o)}

\* Each of a set of transactions waits for another of it.
Deadlocked(w) ==
  \E S \in SUBSET Waiting : w \in S /\ \A o \in S : \E p \in S : Waits(o, p)

\* The database aborts one of them; it is no IntegrityError.
BreakDeadlock(w) ==
  /\ Deadlocked(w)
  /\ End(w, "deadlocked")

Abort(w) ==
  /\ w \in Mortal
  /\ stage[w] \in {"clearing", "writing"}
  /\ End(w, "aborted")

\* Mutant of Finished: an editor commits each case as it is inserted.
FinishedEach(w) == pos[w] > Len(Plan[w]) \/ (w \in Editors /\ pos[w] > 1)

Finished(w) == pos[w] > Len(Plan[w])

Commit(w) ==
  /\ stage[w] = "writing" /\ Finished(w)
  /\ rows' = [s \in Streams |->
                [v \in Visible(w, s) |->
                   IF v \in DOMAIN rows[s] THEN rows[s][v] ELSE w]]
  /\ findings' = IF w \in Analysts THEN (findings \ doomed[w]) \cup {w} ELSE findings
  /\ held' = [held EXCEPT ![w] = Nothing]
  /\ doomed' = [doomed EXCEPT ![w] = {}]
  /\ stage' = [stage EXCEPT ![w] = "committed"]
  /\ UNCHANGED <<pos, cand, tries, base, cited>>

-----------------------------------------------------------------------------

Step(w) ==
  \/ Begin(w) \/ Clear(w) \/ Build(w) \/ Insert(w) \/ Commit(w)
  \/ Refuse(w) \/ Retry(w) \/ Exhaust(w) \/ LoseCase(w) \/ BreakDeadlock(w)

SomeStep == \E w \in Writers : Step(w)
Next == SomeStep \/ \E w \in Writers : Abort(w)

Spec == Init /\ [][Next]_vars

\* Some request runs as long as one can: no scheduling among them is assumed.
FairSpec == Spec /\ WF_vars(SomeStep)

-----------------------------------------------------------------------------
(* Properties.                                                             *)

StreamsTypeOK ==
  /\ rows \in [Streams -> Seq(Writers)]  \* no version is skipped
  /\ held \in [Writers -> [Streams -> SUBSET (Nat \ {0})]]
  /\ stage \in [Writers -> Stages]
  /\ pos \in [Writers -> Nat] /\ \A w \in Writers : pos[w] \in 1..(Len(Plan[w]) + 1)
  /\ cand \in [Writers -> Nat] /\ tries \in [Writers -> 0..(Attempts - 1)]
  /\ base \in [Writers -> [Streams -> Nat]]
  /\ cited \in [Writers -> SUBSET (Nat \ {0})]
  /\ findings \subseteq Analysts
  /\ doomed \in [Writers -> SUBSET Analysts]

\* What is sealed cites evidence that the same transaction made permanent:
\* no ref an analysis kept in memory was rolled back under it.
CitationsResolve ==
  \A w \in Writers : stage[w] = "committed" =>
    \A v \in cited[w] : /\ v \in DOMAIN rows[Evidence]
                        /\ rows[Evidence][v] = w

\* A saved case directly follows the version its editor had open.
NoLostUpdate ==
  \A w \in Editors : stage[w] = "committed" =>
    \A i \in DOMAIN Plan[w] :
      LET s == Plan[w][i] IN
      base[w][s] # 0 => /\ base[w][s] + 1 \in DOMAIN rows[s]
                        /\ rows[s][base[w][s] + 1] = w

\* Two uploads of one content, however they race, never make two versions in
\* a row of it.
NoEchoedUpload ==
  \A v \in DOMAIN rows[Documents] :
    v + 1 \in DOMAIN rows[Documents] =>
      Content[rows[Documents][v]] # Content[rows[Documents][v + 1]]

\* A request that gave up had lost to Attempts rows committed since it began.
GiveUpEarned ==
  \A w \in Writers : stage[w] = "exhausted" =>
    Latest(Target(w)) >= base[w][Target(w)] + Attempts

\* Every request ends, though inserts and deletes wait for each other.
EveryWriteEnds == <>(\A w \in Writers : stage[w] \in Ended)

\* The streams are logs and a request appends to all of them in one step.
Share == [w \in Writers |-> [s \in Streams |->
            Cardinality({i \in DOMAIN Plan[w] : Plan[w][i] = s})]]

VersionLog == INSTANCE VersionLog WITH
  log <- rows, done <- {w \in Writers : stage[w] = "committed"}

ImplementsVersionLog == VersionLog!Spec
=============================================================================
