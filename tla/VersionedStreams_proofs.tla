----------------------- MODULE VersionedStreams_proofs -----------------------
(***************************************************************************)
(* Theorems about VersionedStreams, for any set of writers and any plans   *)
(* that meet StreamsAssumption.  The invariant LogInv says where the       *)
(* uncommitted rows are: in each stream at most one transaction has some,  *)
(* and they directly follow the committed ones.                            *)
(***************************************************************************)
EXTENDS VersionedStreams, TLAPS, FiniteSetTheorems, SequenceTheorems

\* How many rows of stream s the open transaction of w has inserted.
Before(w, s, n) == {i \in 1..n : Plan[w][i] = s}
Inserted(w, s) ==
  IF stage[w] = "writing" THEN Cardinality(Before(w, s, pos[w] - 1)) ELSE 0

Dense == rows \in [Streams -> Seq(Writers)]

PositionOK ==
  /\ pos \in [Writers -> Nat]
  /\ \A w \in Writers : pos[w] \in 1..(Len(Plan[w]) + 1)

ControlOK ==
  /\ stage \in [Writers -> Stages]
  /\ cand \in [Writers -> Nat]
  /\ held \in [Writers -> [Streams -> SUBSET Nat]]

HeldAtEnd ==
  \A w \in Writers : \A s \in Streams :
    held[w][s] = (Len(rows[s]) + 1)..(Len(rows[s]) + Inserted(w, s))

OneHolder ==
  \A w, o \in Writers : \A s \in Streams :
    w # o => Inserted(w, s) = 0 \/ Inserted(o, s) = 0

\* A version about to be inserted is taken by now, or the next one.
CandidateOK ==
  \A w \in Writers : cand[w] # 0 =>
    /\ stage[w] = "writing" /\ pos[w] <= Len(Plan[w])
    /\ \/ cand[w] \in 1..Len(rows[Target(w)])
       \/ cand[w] = Len(rows[Target(w)]) + Inserted(w, Target(w)) + 1

NewAtStart ==
  \A w \in Writers : stage[w] \in {"absent", "new", "clearing"} => pos[w] = 1

LogInv == /\ Dense /\ PositionOK /\ ControlOK
          /\ HeldAtEnd /\ OneHolder /\ CandidateOK /\ NewAtStart

-----------------------------------------------------------------------------
(* Lemmas about the operators.                                             *)

LEMMA TopOfInterval ==
  ASSUME NEW n \in Nat
  PROVE  Top(1..n) = n
<1>1. n \in (1..n) \cup {0} /\ \A y \in (1..n) \cup {0} : n >= y
  OBVIOUS
<1>2. \A x \in (1..n) \cup {0} :
        (\A y \in (1..n) \cup {0} : x >= y) => x = n
  <2> TAKE x \in (1..n) \cup {0}
  <2> HAVE \A y \in (1..n) \cup {0} : x >= y
  <2> QED BY <1>1
<1> QED BY <1>1, <1>2 DEF Top, Max

LEMMA PlanIsSeq ==
  ASSUME NEW w \in Writers
  PROVE  /\ Plan[w] \in Seq(Streams) /\ Len(Plan[w]) \in Nat
         /\ DOMAIN Plan[w] = 1..Len(Plan[w])
         /\ \A i \in 1..Len(Plan[w]) : Plan[w][i] \in Streams
<1>1. Plan[w] \in Seq(Streams)
  BY StreamsAssumption
<1> QED BY <1>1, LenProperties, ElementOfSeq

LEMMA CountBefore ==
  ASSUME NEW w, NEW s, NEW n \in Nat
  PROVE  /\ Cardinality(Before(w, s, n)) \in Nat
         /\ Cardinality(Before(w, s, n + 1)) =
              IF Plan[w][n + 1] = s THEN Cardinality(Before(w, s, n)) + 1
              ELSE Cardinality(Before(w, s, n))
<1>1. IsFiniteSet(1..n) /\ Before(w, s, n) \in SUBSET (1..n)
  BY FS_Interval DEF Before
<1>2. IsFiniteSet(Before(w, s, n))
  BY <1>1, FS_Subset
<1>3. Cardinality(Before(w, s, n)) \in Nat
  BY <1>2, FS_CardinalityType
<1>4. CASE Plan[w][n + 1] = s
  <2>1. Before(w, s, n + 1) = Before(w, s, n) \cup {n + 1}
    BY <1>4 DEF Before
  <2>2. n + 1 \notin Before(w, s, n)
    BY DEF Before
  <2> QED BY <1>2, <1>3, <1>4, <2>1, <2>2, FS_AddElement
<1>5. CASE Plan[w][n + 1] # s
  <2>1. Before(w, s, n + 1) = Before(w, s, n)
    BY <1>5 DEF Before
  <2> QED BY <1>3, <1>5, <2>1
<1> QED BY <1>4, <1>5

LEMMA CountBeforeNone ==
  ASSUME NEW w, NEW s
  PROVE  Cardinality(Before(w, s, 0)) = 0
<1>1. Before(w, s, 0) = {}
  BY DEF Before
<1> QED BY <1>1, FS_EmptySet

\* What LogInv says of one stream.
LEMMA StreamFacts ==
  ASSUME LogInv, NEW s \in Streams
  PROVE  /\ rows[s] \in Seq(Writers) /\ Len(rows[s]) \in Nat
         /\ DOMAIN rows[s] = 1..Len(rows[s])
         /\ Latest(s) = Len(rows[s])
         /\ \A w \in Writers : Inserted(w, s) \in Nat
         /\ \A w \in Writers : Top(Visible(w, s)) = Len(rows[s]) + Inserted(w, s)
<1>1. rows[s] \in Seq(Writers)
  BY DEF LogInv, Dense
<1>2. Len(rows[s]) \in Nat /\ DOMAIN rows[s] = 1..Len(rows[s])
  BY <1>1, LenProperties
<1>3. Latest(s) = Len(rows[s])
  BY <1>2, TopOfInterval DEF Latest
<1>4. ASSUME NEW w \in Writers
      PROVE  Inserted(w, s) \in Nat
  <2>1. pos[w] - 1 \in Nat
    BY DEF LogInv, PositionOK
  <2> QED BY <2>1, CountBefore DEF Inserted
<1>5. ASSUME NEW w \in Writers
      PROVE  Top(Visible(w, s)) = Len(rows[s]) + Inserted(w, s)
  <2>1. held[w][s] = (Len(rows[s]) + 1)..(Len(rows[s]) + Inserted(w, s))
    BY DEF LogInv, HeldAtEnd
  <2>2. Visible(w, s) = 1..(Len(rows[s]) + Inserted(w, s))
    BY <1>2, <1>4, <2>1 DEF Visible
  <2>3. Len(rows[s]) + Inserted(w, s) \in Nat
    BY <1>2, <1>4
  <2> QED BY <2>2, <2>3, TopOfInterval
<1> QED BY <1>1, <1>2, <1>3, <1>4, <1>5

-----------------------------------------------------------------------------
(* LogInv holds initially and every action keeps it.                       *)

LEMMA LogInvInit == Init => LogInv
<1> SUFFICES ASSUME Init PROVE LogInv
  OBVIOUS
<1> USE DEF Init
<1>1. \A s \in Streams : rows[s] = <<>> /\ rows[s] \in Seq(Writers) /\ Len(rows[s]) = 0
  BY EmptySeq
<1>2. \A w \in Writers : stage[w] \in {"absent", "new"}
  OBVIOUS
<1>3. \A w \in Writers, s \in Streams : Inserted(w, s) = 0
  BY <1>2 DEF Inserted
<1>4. Dense
  BY <1>1 DEF Dense
<1>5. PositionOK
  BY PlanIsSeq DEF PositionOK
<1>6. ControlOK
  BY DEF ControlOK, Stages, Nothing
<1>7. HeldAtEnd
  BY <1>1, <1>3 DEF HeldAtEnd, Nothing
<1> QED
  BY <1>3, <1>4, <1>5, <1>6, <1>7 DEF LogInv, OneHolder, CandidateOK, NewAtStart

\* A request that has inserted nothing moves between stages.
LEMMA LogInvStart ==
  ASSUME LogInv, NEW w \in Writers, Begin(w) \/ Clear(w)
  PROVE  LogInv'
<1> USE DEF LogInv
<1>1. /\ UNCHANGED <<rows, held, pos, cand>>
      /\ stage[w] \in {"new", "clearing"}
      /\ stage' = [stage EXCEPT ![w] = stage'[w]]
      /\ stage'[w] \in {"clearing", "writing"}
  BY DEF Begin, Clear, ControlOK
<1>2. pos[w] = 1 /\ pos'[w] = 1
  BY <1>1 DEF NewAtStart
<1>3. \A o \in Writers, s \in Streams : Inserted(o, s)' = Inserted(o, s)
  <2> TAKE o \in Writers, s \in Streams
  <2>1. CASE o # w
    BY <1>1, <2>1 DEF Inserted, Before, ControlOK
  <2>2. CASE o = w
    <3>1. Inserted(w, s) = 0
      BY <1>1 DEF Inserted
    <3>2. Cardinality(Before(w, s, 0)) = 0
      BY CountBeforeNone
    <3>3. Inserted(w, s)' = 0
      BY <1>2, <3>2 DEF Inserted, Before
    <3> QED BY <2>2, <3>1, <3>3
  <2> QED BY <2>1, <2>2
<1>4. cand[w] = 0
  BY <1>1 DEF CandidateOK
<1>5. Dense' /\ PositionOK' /\ ControlOK'
  BY <1>1 DEF Dense, PositionOK, ControlOK, Stages
<1>6. HeldAtEnd' /\ OneHolder'
  BY <1>1, <1>3 DEF HeldAtEnd, OneHolder
<1>7. CandidateOK'
  <2> SUFFICES ASSUME NEW o \in Writers, cand[o] # 0
               PROVE  /\ stage'[o] = "writing" /\ pos[o] <= Len(Plan[o])
                      /\ \/ cand[o] \in 1..Len(rows[Target(o)])
                         \/ cand[o] = Len(rows[Target(o)]) + Inserted(o, Target(o))' + 1
    BY <1>1 DEF CandidateOK, Target
  <2>1. o # w
    BY <1>4
  <2>2. Target(o) \in Streams
    BY PlanIsSeq DEF CandidateOK, PositionOK, Target
  <2>3. Inserted(o, Target(o))' = Inserted(o, Target(o))
    BY <1>1, <2>1 DEF Inserted, Before, ControlOK, Target
  <2> QED BY <1>1, <2>1, <2>2, <2>3 DEF CandidateOK, ControlOK
<1>8. NewAtStart'
  BY <1>1, <1>2 DEF NewAtStart, ControlOK
<1> QED BY <1>5, <1>6, <1>7, <1>8

\* The candidate is read anew or dropped.
LEMMA LogInvCandidate ==
  ASSUME LogInv, NEW w \in Writers, Build(w) \/ Retry(w)
  PROVE  LogInv'
<1> USE DEF LogInv
<1>1. UNCHANGED <<rows, held, pos, stage>>
  BY DEF Build, Retry
<1>2. \A o, s : Inserted(o, s)' = Inserted(o, s)
  BY <1>1 DEF Inserted, Before
<1>3. CASE Build(w)
  <2>1. stage[w] = "writing" /\ pos[w] <= Len(Plan[w])
    BY <1>3 DEF Build, Reading
  <2>2. Target(w) \in Streams
    BY <2>1, PlanIsSeq DEF PositionOK, Target
  <2>3. cand'[w] = Len(rows[Target(w)]) + Inserted(w, Target(w)) + 1
    BY <1>3, <2>2, StreamFacts DEF Build, ControlOK
  <2>4. /\ cand' \in [Writers -> Nat]
        /\ \A o \in Writers : o # w => cand'[o] = cand[o]
    <3>1. Len(rows[Target(w)]) + Inserted(w, Target(w)) + 1 \in Nat
      BY <2>2, StreamFacts
    <3>2. cand' = [cand EXCEPT ![w] = cand'[w]]
      BY <1>3 DEF Build, ControlOK
    <3> QED BY <2>3, <3>1, <3>2 DEF ControlOK
  <2>5. CandidateOK'
    BY <1>1, <1>2, <2>1, <2>3, <2>4 DEF CandidateOK, Target
  <2> QED
    BY <1>1, <1>2, <2>4, <2>5
    DEF Dense, PositionOK, ControlOK, HeldAtEnd, OneHolder, NewAtStart
<1>4. CASE Retry(w)
  <2>1. /\ cand' \in [Writers -> Nat] /\ cand'[w] = 0
        /\ \A o \in Writers : o # w => cand'[o] = cand[o]
    BY <1>4 DEF Retry, ControlOK
  <2>2. CandidateOK'
    BY <1>1, <1>2, <2>1 DEF CandidateOK, Target
  <2> QED
    BY <1>1, <1>2, <2>1, <2>2
    DEF Dense, PositionOK, ControlOK, HeldAtEnd, OneHolder, NewAtStart
<1> QED BY <1>3, <1>4

Endings == {"refused", "exhausted", "deadlocked", "aborted"}

LEMMA LogInvEnd ==
  ASSUME LogInv, NEW w \in Writers, NEW how \in Endings, End(w, how)
  PROVE  LogInv'
<1> USE DEF LogInv
<1>1. /\ UNCHANGED <<rows, pos>>
      /\ stage' = [stage EXCEPT ![w] = how]
      /\ held' = [held EXCEPT ![w] = Nothing]
      /\ cand' = [cand EXCEPT ![w] = 0]
  BY DEF End
<1>2. \A s : Inserted(w, s)' = 0
  BY <1>1 DEF Inserted, ControlOK, Endings
<1>3. \A o \in Writers : \A s : o # w => Inserted(o, s)' = Inserted(o, s)
  BY <1>1 DEF Inserted, Before, ControlOK
<1>4. Dense' /\ PositionOK' /\ ControlOK' /\ NewAtStart'
  BY <1>1 DEF Dense, PositionOK, ControlOK, NewAtStart, Stages, Endings, Nothing
<1>5. HeldAtEnd'
  <2> SUFFICES ASSUME NEW o \in Writers, NEW s \in Streams
               PROVE  held'[o][s] =
                        (Len(rows[s]) + 1)..(Len(rows[s]) + Inserted(o, s)')
    BY <1>1 DEF HeldAtEnd
  <2>1. Len(rows[s]) \in Nat
    BY StreamFacts
  <2>2. CASE o = w
    BY <1>1, <1>2, <2>1, <2>2 DEF Nothing, ControlOK
  <2>3. CASE o # w
    BY <1>1, <1>3, <2>3 DEF HeldAtEnd, ControlOK
  <2> QED BY <2>2, <2>3
<1>6. OneHolder'
  BY <1>2, <1>3 DEF OneHolder
<1>7. CandidateOK'
  BY <1>1, <1>3 DEF CandidateOK, Target, ControlOK
<1> QED BY <1>4, <1>5, <1>6, <1>7

\* The row goes right after the committed rows and w's own, and no other
\* transaction has a row there.
LEMMA InsertFacts ==
  ASSUME LogInv, NEW w \in Writers, Insert(w)
  PROVE  /\ stage[w] = "writing" /\ pos[w] <= Len(Plan[w])
         /\ Target(w) \in Streams
         /\ cand[w] = Len(rows[Target(w)]) + Inserted(w, Target(w)) + 1
         /\ \A o \in Writers : o # w => Inserted(o, Target(w)) = 0
<1> USE DEF LogInv
<1>1. cand[w] # 0 /\ stage[w] = "writing" /\ pos[w] <= Len(Plan[w])
  BY DEF Insert, CandidateOK
<1>2. Target(w) \in Streams
  BY <1>1, PlanIsSeq DEF PositionOK, Target
<1> DEFINE s == Target(w)
<1>3. /\ Len(rows[s]) \in Nat /\ DOMAIN rows[s] = 1..Len(rows[s])
      /\ \A o \in Writers : Inserted(o, s) \in Nat
  BY <1>2, StreamFacts
<1>4. cand[w] = Len(rows[s]) + Inserted(w, s) + 1
  BY <1>1, <1>3 DEF Insert, CandidateOK
<1>5. ASSUME NEW o \in Writers, o # w
      PROVE  Inserted(o, s) = 0
  <2>1. cand[w] \notin held[o][s]
    BY <1>1, <1>5 DEF Insert, Waits
  <2>2. held[o][s] = (Len(rows[s]) + 1)..(Len(rows[s]) + Inserted(o, s))
    BY <1>2 DEF HeldAtEnd
  <2>3. Inserted(w, s) = 0 \/ Inserted(o, s) = 0
    BY <1>2, <1>5 DEF OneHolder
  <2> QED BY <1>3, <1>4, <2>1, <2>2, <2>3
<1> QED BY <1>1, <1>2, <1>4, <1>5

LEMMA LogInvInsert ==
  ASSUME LogInv, NEW w \in Writers, Insert(w)
  PROVE  LogInv'
<1> USE DEF LogInv
<1> DEFINE t == Target(w)
<1>1. /\ UNCHANGED <<rows, stage>>
      /\ held' = [held EXCEPT ![w][t] = @ \cup {cand[w]}]
      /\ pos' = [pos EXCEPT ![w] = @ + 1]
      /\ cand' = [cand EXCEPT ![w] = 0]
  BY DEF Insert
<1>2. /\ stage[w] = "writing" /\ pos[w] <= Len(Plan[w]) /\ t \in Streams
      /\ cand[w] = Len(rows[t]) + Inserted(w, t) + 1
      /\ \A o \in Writers : o # w => Inserted(o, t) = 0
  BY InsertFacts
<1>3. /\ pos[w] \in 1..Len(Plan[w]) /\ pos'[w] = pos[w] + 1
      /\ \A o \in Writers : o # w => pos'[o] = pos[o]
  BY <1>1, <1>2, PlanIsSeq DEF PositionOK
<1>4. \A o \in Writers, s \in Streams : o # w => Inserted(o, s)' = Inserted(o, s)
  BY <1>1, <1>3 DEF Inserted, Before
<1>5. \A s \in Streams :
        Inserted(w, s)' = IF s = t THEN Inserted(w, s) + 1 ELSE Inserted(w, s)
  <2> TAKE s \in Streams
  <2> DEFINE n == pos[w] - 1
  <2>1. n \in Nat /\ n + 1 = pos[w] /\ pos'[w] - 1 = n + 1
    BY <1>3
  <2>2. Cardinality(Before(w, s, n + 1)) =
          IF Plan[w][n + 1] = s THEN Cardinality(Before(w, s, n)) + 1
          ELSE Cardinality(Before(w, s, n))
    BY <2>1, CountBefore
  <2>3. Inserted(w, s) = Cardinality(Before(w, s, n))
    BY <1>2 DEF Inserted
  <2>4. Inserted(w, s)' = Cardinality(Before(w, s, n + 1))
    BY <1>1, <1>2, <2>1 DEF Inserted, Before
  <2>5. Plan[w][n + 1] = t
    BY <2>1 DEF Target
  <2> QED BY <2>2, <2>3, <2>4, <2>5
<1>6. Dense' /\ NewAtStart'
  BY <1>1, <1>2, <1>3 DEF Dense, NewAtStart, ControlOK
<1>7. PositionOK'
  <2>1. pos' \in [Writers -> Nat]
    BY <1>1, <1>3 DEF PositionOK
  <2>2. ASSUME NEW o \in Writers
        PROVE  pos'[o] \in 1..(Len(Plan[o]) + 1)
    BY <1>3, <2>2, PlanIsSeq DEF PositionOK
  <2> QED BY <2>1, <2>2 DEF PositionOK
<1>8. ControlOK'
  <2>1. cand[w] \in Nat
    BY DEF ControlOK
  <2> QED BY <1>1, <1>2, <2>1 DEF ControlOK
<1>9. HeldAtEnd'
  <2> SUFFICES ASSUME NEW o \in Writers, NEW s \in Streams
               PROVE  held'[o][s] =
                        (Len(rows[s]) + 1)..(Len(rows[s]) + Inserted(o, s)')
    BY <1>1 DEF HeldAtEnd
  <2>1. /\ Len(rows[s]) \in Nat /\ Inserted(o, s) \in Nat
        /\ held[o][s] = (Len(rows[s]) + 1)..(Len(rows[s]) + Inserted(o, s))
    BY StreamFacts DEF HeldAtEnd
  <2>2. CASE o = w /\ s = t
    <3>1. held'[w][t] = held[w][t] \cup {cand[w]}
      BY <1>1, <1>2 DEF ControlOK
    <3> QED BY <1>2, <1>5, <2>1, <2>2, <3>1
  <2>3. CASE ~(o = w /\ s = t)
    <3>1. held'[o][s] = held[o][s]
      BY <1>1, <1>2, <2>3 DEF ControlOK
    <3>2. Inserted(o, s)' = Inserted(o, s)
      BY <1>4, <1>5, <2>3
    <3> QED BY <2>1, <3>1, <3>2
  <2> QED BY <2>2, <2>3
<1>10. OneHolder'
  <2> SUFFICES ASSUME NEW o \in Writers, NEW p \in Writers, NEW s \in Streams, o # p
               PROVE  Inserted(o, s)' = 0 \/ Inserted(p, s)' = 0
    BY DEF OneHolder
  <2> QED BY <1>2, <1>4, <1>5 DEF OneHolder
<1>11. CandidateOK'
  <2> SUFFICES ASSUME NEW o \in Writers, cand'[o] # 0
               PROVE  /\ stage[o] = "writing" /\ pos'[o] <= Len(Plan[o])
                      /\ \/ cand'[o] \in 1..Len(rows[Target(o)'])
                         \/ cand'[o] = Len(rows[Target(o)']) + Inserted(o, Target(o))' + 1
    BY <1>1 DEF CandidateOK
  <2>1. o # w /\ cand'[o] = cand[o] /\ pos'[o] = pos[o]
    BY <1>1, <1>3 DEF ControlOK
  <2>2. Target(o)' = Target(o)
    BY <2>1 DEF Target
  <2>3. Target(o) \in Streams
    BY <2>1, PlanIsSeq DEF CandidateOK, PositionOK, Target
  <2>4. Inserted(o, Target(o))' = Inserted(o, Target(o))
    BY <1>1, <2>1, <2>2 DEF Inserted, Before
  <2> QED BY <2>1, <2>2, <2>4 DEF CandidateOK
<1> QED BY <1>6, <1>7, <1>8, <1>9, <1>10, <1>11

\* A function on 1..n is a sequence of length n.
LEMMA IntervalIsSeq ==
  ASSUME NEW S, NEW n \in Nat, NEW f \in [1..n -> S]
  PROVE  f \in Seq(S) /\ Len(f) = n
<1>1. f \in Seq(S)
  BY SeqDef
<1>2. Len(f) \in Nat /\ 1..Len(f) = 1..n
  BY <1>1, LenProperties
<1>3. ASSUME Len(f) < n PROVE FALSE
  <2>1. n \in 1..n /\ n \notin 1..Len(f)
    BY <1>2, <1>3
  <2> QED BY <1>2, <2>1
<1>4. ASSUME n < Len(f) PROVE FALSE
  <2>1. Len(f) \in 1..Len(f) /\ Len(f) \notin 1..n
    BY <1>2, <1>4
  <2> QED BY <1>2, <2>1
<1> QED BY <1>1, <1>2, <1>3, <1>4

\* A commit appends the rows of w, and only them, to each stream.
LEMMA CommitFacts ==
  ASSUME LogInv, NEW w \in Writers, Commit(w), NEW s \in Streams
  PROVE  /\ rows'[s] \in Seq(Writers)
         /\ Len(rows'[s]) = Len(rows[s]) + Inserted(w, s)
         /\ rows'[s] = [v \in 1..(Len(rows[s]) + Inserted(w, s)) |->
                          IF v <= Len(rows[s]) THEN rows[s][v] ELSE w]
<1> USE DEF LogInv
<1> DEFINE n == Len(rows[s])
           m == Len(rows[s]) + Inserted(w, s)
<1>1. /\ rows[s] \in Seq(Writers) /\ n \in Nat /\ m \in Nat /\ Inserted(w, s) \in Nat
      /\ DOMAIN rows[s] = 1..n /\ \A v \in 1..n : rows[s][v] \in Writers
  BY StreamFacts, ElementOfSeq
<1>2. Visible(w, s) = 1..m
  <2>1. held[w][s] = (n + 1)..m
    BY DEF HeldAtEnd
  <2> QED BY <1>1, <2>1 DEF Visible
<1>3. rows'[s] = [v \in Visible(w, s) |->
                    IF v \in DOMAIN rows[s] THEN rows[s][v] ELSE w]
  BY DEF Commit
<1>4. rows'[s] = [v \in 1..m |-> IF v <= n THEN rows[s][v] ELSE w]
  BY <1>1, <1>2, <1>3
<1>5. rows'[s] \in [1..m -> Writers]
  BY <1>1, <1>4
<1>6. rows'[s] \in Seq(Writers) /\ Len(rows'[s]) = m
  <2> HIDE DEF m
  <2> QED BY <1>1, <1>5, IntervalIsSeq
<1> QED BY <1>4, <1>6

LEMMA LogInvCommit ==
  ASSUME LogInv, NEW w \in Writers, Commit(w)
  PROVE  LogInv'
<1> USE DEF LogInv
<1>1. /\ UNCHANGED <<pos, cand>>
      /\ stage[w] = "writing" /\ pos[w] > Len(Plan[w])
      /\ stage' = [stage EXCEPT ![w] = "committed"]
      /\ held' = [held EXCEPT ![w] = Nothing]
  BY DEF Commit, Finished
<1>2. \A s : Inserted(w, s)' = 0
  BY <1>1 DEF Inserted, ControlOK
<1>3. \A o \in Writers : \A s : o # w => Inserted(o, s)' = Inserted(o, s)
  BY <1>1 DEF Inserted, Before, ControlOK
<1>4. Dense'
  <2>1. rows' = [s \in Streams |-> rows'[s]]
    BY DEF Commit
  <2> QED BY <2>1, CommitFacts DEF Dense
<1>5. PositionOK' /\ ControlOK' /\ NewAtStart'
  BY <1>1 DEF PositionOK, ControlOK, NewAtStart, Stages, Nothing
<1>6. cand[w] = 0
  BY <1>1, PlanIsSeq DEF CandidateOK, PositionOK
<1>7. HeldAtEnd'
  <2> SUFFICES ASSUME NEW o \in Writers, NEW s \in Streams
               PROVE  held'[o][s] =
                        (Len(rows'[s]) + 1)..(Len(rows'[s]) + Inserted(o, s)')
    BY DEF HeldAtEnd
  <2>1. /\ Len(rows[s]) \in Nat /\ Inserted(o, s) \in Nat /\ Inserted(w, s) \in Nat
        /\ Len(rows'[s]) = Len(rows[s]) + Inserted(w, s)
        /\ held[o][s] = (Len(rows[s]) + 1)..(Len(rows[s]) + Inserted(o, s))
    BY StreamFacts, CommitFacts DEF HeldAtEnd
  <2>2. CASE o = w
    <3>1. held'[w][s] = {}
      BY <1>1 DEF Nothing, ControlOK
    <3> QED BY <1>2, <2>1, <2>2, <3>1
  <2>3. CASE o # w
    <3>1. held'[o][s] = held[o][s]
      BY <1>1, <2>3 DEF ControlOK
    <3>2. Inserted(o, s)' = Inserted(o, s)
      BY <1>3, <2>3
    <3>3. Inserted(w, s) = 0 \/ Inserted(o, s) = 0
      BY <2>3 DEF OneHolder
    <3> QED BY <2>1, <3>1, <3>2, <3>3
  <2> QED BY <2>2, <2>3
<1>8. OneHolder'
  BY <1>2, <1>3 DEF OneHolder
<1>9. CandidateOK'
  <2> SUFFICES ASSUME NEW o \in Writers, cand[o] # 0
               PROVE  /\ stage'[o] = "writing" /\ pos[o] <= Len(Plan[o])
                      /\ \/ cand[o] \in 1..Len(rows'[Target(o)])
                         \/ cand[o] = Len(rows'[Target(o)]) + Inserted(o, Target(o))' + 1
    BY <1>1 DEF CandidateOK, Target
  <2> DEFINE s == Target(o)
  <2>1. o # w
    BY <1>6
  <2>2. stage'[o] = "writing" /\ pos[o] <= Len(Plan[o])
    BY <1>1, <2>1 DEF CandidateOK, ControlOK
  <2>3. s \in Streams
    BY <2>2, PlanIsSeq DEF PositionOK, Target
  <2>4. /\ Len(rows[s]) \in Nat /\ Inserted(o, s) \in Nat /\ Inserted(w, s) \in Nat
        /\ Len(rows'[s]) = Len(rows[s]) + Inserted(w, s)
    BY <2>3, StreamFacts, CommitFacts
  <2>5. Inserted(o, Target(o))' = Inserted(o, s)
    BY <1>1, <2>1 DEF Inserted, Before, Target, ControlOK
  <2>6. Inserted(w, s) = 0 \/ Inserted(o, s) = 0
    BY <2>1, <2>3 DEF OneHolder
  <2>7. cand[o] \in 1..Len(rows[s]) \/ cand[o] = Len(rows[s]) + Inserted(o, s) + 1
    BY DEF CandidateOK
  <2>8. \/ cand[o] \in 1..Len(rows'[s])
        \/ cand[o] = Len(rows'[s]) + Inserted(o, s) + 1
    BY <2>4, <2>6, <2>7
  <2> QED BY <2>2, <2>5, <2>8
<1> QED BY <1>4, <1>5, <1>7, <1>8, <1>9

\* Every way a request ends without a commit is an End.
LEMMA EndingsAreEnds ==
  ASSUME NEW w \in Writers,
         Refuse(w) \/ Exhaust(w) \/ LoseCase(w) \/ BreakDeadlock(w) \/ Abort(w)
  PROVE  \E how \in Endings : End(w, how)
BY DEF Refuse, Exhaust, LoseCase, BreakDeadlock, Abort, Endings

LEMMA LogInvNext == LogInv /\ [Next]_vars => LogInv'
<1> SUFFICES ASSUME LogInv, [Next]_vars PROVE LogInv'
  OBVIOUS
<1>1. ASSUME NEW w \in Writers, Begin(w) \/ Clear(w)
      PROVE  LogInv'
  BY <1>1, LogInvStart
<1>2. ASSUME NEW w \in Writers, Build(w) \/ Retry(w)
      PROVE  LogInv'
  BY <1>2, LogInvCandidate
<1>3. ASSUME NEW w \in Writers, Insert(w)
      PROVE  LogInv'
  BY <1>3, LogInvInsert
<1>4. ASSUME NEW w \in Writers, Commit(w)
      PROVE  LogInv'
  BY <1>4, LogInvCommit
<1>5. ASSUME NEW w \in Writers,
             Refuse(w) \/ Exhaust(w) \/ LoseCase(w) \/ BreakDeadlock(w) \/ Abort(w)
      PROVE  LogInv'
  BY <1>5, EndingsAreEnds, LogInvEnd
<1>6. CASE UNCHANGED vars
  <2>1. UNCHANGED <<rows, held, stage, pos, cand>>
    BY <1>6 DEF vars
  <2>2. /\ \A o, s : Inserted(o, s)' = Inserted(o, s)
        /\ \A o : Target(o)' = Target(o)
    BY <2>1 DEF Inserted, Before, Target
  <2>3. Dense' /\ PositionOK' /\ ControlOK' /\ NewAtStart'
    BY <2>1 DEF LogInv, Dense, PositionOK, ControlOK, NewAtStart
  <2>4. HeldAtEnd' /\ OneHolder'
    BY <2>1, <2>2 DEF LogInv, HeldAtEnd, OneHolder
  <2>5. CandidateOK'
    BY <2>1 DEF LogInv, CandidateOK, Inserted, Before, Target
  <2> QED BY <2>3, <2>4, <2>5 DEF LogInv
<1> QED BY <1>1, <1>2, <1>3, <1>4, <1>5, <1>6 DEF Next, SomeStep, Step

THEOREM LogInvariant == Spec => []LogInv
BY LogInvInit, LogInvNext, PTL DEF Spec

-----------------------------------------------------------------------------
(* The type invariant.                                                     *)

RestOK ==
  /\ tries \in [Writers -> 0..(Attempts - 1)]
  /\ base \in [Writers -> [Streams -> Nat]]
  /\ cited \in [Writers -> SUBSET (Nat \ {0})]
  /\ findings \subseteq Analysts
  /\ doomed \in [Writers -> SUBSET Analysts]

LEMMA RestOKInit == Init => RestOK
BY StreamsAssumption DEF Init, RestOK

LEMMA RestOKNext == LogInv /\ RestOK /\ [Next]_vars => RestOK'
<1> SUFFICES ASSUME LogInv, RestOK, [Next]_vars PROVE RestOK'
  OBVIOUS
<1> USE StreamsAssumption DEF RestOK
<1>1. ASSUME NEW w \in Writers, Begin(w)
      PROVE  RestOK'
  <2>1. [s \in Streams |-> Latest(s)] \in [Streams -> Nat]
    BY StreamFacts
  <2> QED BY <1>1, <2>1 DEF Begin
<1>2. ASSUME NEW w \in Writers, Clear(w) \/ Build(w)
      PROVE  RestOK'
  <2>1. CASE Clear(w)
    BY <2>1 DEF Clear
  <2>2. CASE Build(w)
    BY <2>2 DEF Build
  <2> QED BY <1>2, <2>1, <2>2
<1>3. ASSUME NEW w \in Writers, Insert(w)
      PROVE  RestOK'
  <2>1. cand[w] \in Nat \ {0}
    BY <1>3 DEF Insert, LogInv, ControlOK
  <2>2. cited' \in [Writers -> SUBSET (Nat \ {0})]
    <3>1. CASE Target(w) = Evidence
      BY <1>3, <2>1, <3>1 DEF Insert
    <3>2. CASE Target(w) # Evidence
      BY <1>3, <3>2 DEF Insert
    <3> QED BY <3>1, <3>2
  <2>3. tries' \in [Writers -> 0..(Attempts - 1)] /\ UNCHANGED <<base, findings, doomed>>
    BY <1>3 DEF Insert
  <2> QED BY <2>2, <2>3
<1>4. ASSUME NEW w \in Writers, Commit(w)
      PROVE  RestOK'
  BY <1>4 DEF Commit
<1>5. ASSUME NEW w \in Writers, Retry(w)
      PROVE  RestOK'
  BY <1>5 DEF Retry
<1>6. ASSUME NEW w \in Writers,
             Refuse(w) \/ Exhaust(w) \/ LoseCase(w) \/ BreakDeadlock(w) \/ Abort(w)
      PROVE  RestOK'
  <2>1. PICK how \in Endings : End(w, how)
    BY <1>6, EndingsAreEnds
  <2> QED BY <2>1 DEF End
<1>7. CASE UNCHANGED vars
  BY <1>7 DEF vars
<1> QED BY <1>1, <1>2, <1>3, <1>4, <1>5, <1>6, <1>7 DEF Next, SomeStep, Step

LEMMA TypeFromInv == LogInv /\ RestOK => StreamsTypeOK
<1> SUFFICES ASSUME LogInv, RestOK PROVE StreamsTypeOK
  OBVIOUS
<1>1. ASSUME NEW w \in Writers, NEW s \in Streams
      PROVE  held[w][s] \in SUBSET (Nat \ {0})
  <2>1. held[w][s] = (Len(rows[s]) + 1)..(Len(rows[s]) + Inserted(w, s))
    BY DEF LogInv, HeldAtEnd
  <2> QED BY <2>1, StreamFacts
<1>2. held \in [Writers -> [Streams -> SUBSET (Nat \ {0})]]
  BY <1>1 DEF LogInv, ControlOK
<1> QED BY <1>2 DEF StreamsTypeOK, LogInv, Dense, PositionOK, ControlOK, RestOK

\* Every reachable state has its types; in particular every stream is a
\* sequence, whatever was retried, refused, rolled back or killed.
THEOREM StreamsTypeCorrect == Spec => []StreamsTypeOK
BY LogInvInit, LogInvNext, RestOKInit, RestOKNext, TypeFromInv, PTL DEF Spec

-----------------------------------------------------------------------------
(* Refinement: a commit is the write of the abstract log, and every other  *)
(* step stutters.                                                          *)

\* Only Commit touches rows and the set of committed requests.
LEMMA RowsOnlyByCommit ==
  ASSUME LogInv, NEW w \in Writers, Step(w) \/ Abort(w), ~Commit(w)
  PROVE  /\ rows' = rows
         /\ stage[w] # "committed"
         /\ stage' = [stage EXCEPT ![w] = stage'[w]] /\ stage'[w] # "committed"
<1> USE DEF LogInv, ControlOK
<1>1. CASE Begin(w) \/ Clear(w)
  BY <1>1 DEF Begin, Clear
<1>2. CASE Build(w) \/ Insert(w) \/ Retry(w)
  BY <1>2 DEF Build, Reading, Insert, Retry, Collides, CandidateOK
<1>3. CASE Refuse(w) \/ Exhaust(w) \/ LoseCase(w) \/ BreakDeadlock(w) \/ Abort(w)
  <2>1. PICK how \in Endings : End(w, how)
    BY <1>3, EndingsAreEnds
  <2>2. stage[w] \in {"clearing", "writing"}
    BY <1>3 DEF Refuse, Reading, Exhaust, LoseCase, Collides, CandidateOK,
                BreakDeadlock, Deadlocked, Waiting, Waits, Abort
  <2> QED BY <2>1, <2>2 DEF End, Endings
<1> QED BY <1>1, <1>2, <1>3 DEF Step

LEMMA ShareInserted ==
  ASSUME LogInv, NEW w \in Writers, NEW s \in Streams,
         stage[w] = "writing", pos[w] > Len(Plan[w])
  PROVE  Inserted(w, s) = Share[w][s]
<1>1. pos[w] - 1 = Len(Plan[w]) /\ DOMAIN Plan[w] = 1..Len(Plan[w])
  BY PlanIsSeq DEF LogInv, PositionOK
<1> QED BY <1>1 DEF Inserted, Before, Share

LEMMA CommitIsWrite ==
  ASSUME LogInv, NEW w \in Writers, Commit(w)
  PROVE  VersionLog!Write(w)
<1>1. stage[w] = "writing" /\ pos[w] > Len(Plan[w])
      /\ stage' = [stage EXCEPT ![w] = "committed"]
  BY DEF Commit, Finished
<1>2. w \notin {o \in Writers : stage[o] = "committed"}
  BY <1>1
<1>3. {o \in Writers : stage[o] = "committed"}' =
        {o \in Writers : stage[o] = "committed"} \cup {w}
  BY <1>1 DEF LogInv, ControlOK
<1>4. rows' = [s \in Streams |->
                VersionLog!Extended(rows[s], w, Share[w][s])]
  <2>1. rows' = [s \in Streams |-> rows'[s]]
    BY DEF Commit
  <2>2. \A s \in Streams :
          rows'[s] = VersionLog!Extended(rows[s], w, Share[w][s])
    BY <1>1, CommitFacts, ShareInserted DEF VersionLog!Extended
  <2> QED BY <2>1, <2>2
<1> QED BY <1>2, <1>3, <1>4 DEF VersionLog!Write

LEMMA StepRefines == LogInv /\ [Next]_vars => [VersionLog!Next]_(VersionLog!vars)
<1> SUFFICES ASSUME LogInv, [Next]_vars
             PROVE  VersionLog!Next \/ UNCHANGED VersionLog!vars
  OBVIOUS
<1>1. ASSUME NEW w \in Writers, Commit(w)
      PROVE  VersionLog!Next
  BY <1>1, CommitIsWrite DEF VersionLog!Next
<1>2. ASSUME NEW w \in Writers, Step(w) \/ Abort(w), ~Commit(w)
      PROVE  UNCHANGED VersionLog!vars
  <2>1. /\ rows' = rows
        /\ \A o \in Writers : stage'[o] = "committed" <=> stage[o] = "committed"
    BY <1>2, RowsOnlyByCommit DEF LogInv, ControlOK
  <2> QED BY <2>1 DEF VersionLog!vars
<1>3. CASE UNCHANGED vars
  BY <1>3 DEF vars, VersionLog!vars
<1> QED BY <1>1, <1>2, <1>3 DEF Next, SomeStep

LEMMA InitRefines == Init => VersionLog!Init
<1> SUFFICES ASSUME Init PROVE VersionLog!Init
  OBVIOUS
<1>1. \A w \in Writers : stage[w] # "committed"
  BY DEF Init
<1> QED BY <1>1 DEF Init, VersionLog!Init

\* Any number of requests, with plans over any streams, implement the log:
\* each appends all its versions, contiguous in every stream, or none.
THEOREM StreamsImplementLog == Spec => ImplementsVersionLog
BY LogInvInit, LogInvNext, InitRefines, StepRefines, PTL
   DEF Spec, ImplementsVersionLog, VersionLog!Spec

-----------------------------------------------------------------------------
(* What is committed stays, and a commit makes the rows of w permanent.    *)

LEMMA RowsGrow ==
  ASSUME LogInv, [Next]_vars, NEW s \in Streams
  PROVE  /\ Len(rows[s]) \in Nat /\ Len(rows'[s]) \in Nat
         /\ Len(rows[s]) <= Len(rows'[s])
         /\ DOMAIN rows[s] = 1..Len(rows[s]) /\ DOMAIN rows'[s] = 1..Len(rows'[s])
         /\ \A v \in 1..Len(rows[s]) : rows'[s][v] = rows[s][v]
<1>1. Len(rows[s]) \in Nat /\ DOMAIN rows[s] = 1..Len(rows[s])
  BY StreamFacts
<1>2. LogInv'
  BY LogInvNext
<1>3. rows'[s] \in Seq(Writers)
  BY <1>2 DEF LogInv, Dense
<1>4. Len(rows'[s]) \in Nat /\ DOMAIN rows'[s] = 1..Len(rows'[s])
  BY <1>3, LenProperties
<1>5. ASSUME NEW w \in Writers, Commit(w)
      PROVE  /\ Len(rows[s]) <= Len(rows'[s])
             /\ \A v \in 1..Len(rows[s]) : rows'[s][v] = rows[s][v]
  <2>1. /\ Len(rows'[s]) = Len(rows[s]) + Inserted(w, s) /\ Inserted(w, s) \in Nat
        /\ rows'[s] = [v \in 1..(Len(rows[s]) + Inserted(w, s)) |->
                         IF v <= Len(rows[s]) THEN rows[s][v] ELSE w]
    BY <1>5, CommitFacts, StreamFacts
  <2> QED BY <1>1, <2>1
<1>6. ASSUME NEW w \in Writers, Step(w) \/ Abort(w), ~Commit(w)
      PROVE  rows' = rows
  BY <1>6, RowsOnlyByCommit
<1>7. CASE UNCHANGED vars
  BY <1>1, <1>4, <1>7 DEF vars
<1> QED BY <1>1, <1>4, <1>5, <1>6, <1>7 DEF Next, SomeStep

LEMMA HeldBecomesCommitted ==
  ASSUME LogInv, NEW w \in Writers, Commit(w), NEW s \in Streams, NEW v \in held[w][s]
  PROVE  v \in DOMAIN rows'[s] /\ rows'[s][v] = w
<1>1. /\ Len(rows[s]) \in Nat /\ Inserted(w, s) \in Nat
      /\ rows'[s] = [u \in 1..(Len(rows[s]) + Inserted(w, s)) |->
                       IF u <= Len(rows[s]) THEN rows[s][u] ELSE w]
  BY CommitFacts, StreamFacts
<1>2. v \in (Len(rows[s]) + 1)..(Len(rows[s]) + Inserted(w, s))
  BY DEF LogInv, HeldAtEnd
<1> QED BY <1>1, <1>2

-----------------------------------------------------------------------------
(* Sealed citations.                                                       *)

CitedIsHeld ==
  \A w \in Writers :
    stage[w] \in {"new", "clearing", "writing"} => cited[w] \subseteq held[w][Evidence]

CitesInv == CitedIsHeld /\ cited \in [Writers -> SUBSET Nat] /\ CitationsResolve

LEMMA CitesInvInit == Init => CitesInv
BY StreamsAssumption DEF Init, CitesInv, CitedIsHeld, CitationsResolve

\* A step of w that does not commit leaves what is sealed as it was.
LEMMA SealedStays ==
  ASSUME LogInv, CitesInv, [Next]_vars,
         \A o \in Writers : stage'[o] = "committed" =>
            stage[o] = "committed" /\ cited'[o] = cited[o]
  PROVE  CitationsResolve'
<1>1. Evidence \in Streams
  BY StreamsAssumption
<1> QED BY <1>1, RowsGrow DEF CitesInv, CitationsResolve

LEMMA CitesInvNext == LogInv /\ CitesInv /\ [Next]_vars => CitesInv'
<1> SUFFICES ASSUME LogInv, CitesInv, [Next]_vars PROVE CitesInv'
  OBVIOUS
<1> USE DEF CitesInv
<1>1. ASSUME NEW w \in Writers, Begin(w) \/ Clear(w) \/ Build(w) \/ Retry(w)
      PROVE  CitesInv'
  <2>1. /\ UNCHANGED <<cited, held>>
        /\ \A o \in Writers : stage'[o] = "committed" => stage[o] = "committed"
        /\ \A o \in Writers : stage'[o] \in {"new", "clearing", "writing"}
                              => stage[o] \in {"new", "clearing", "writing"}
    BY <1>1 DEF Begin, Clear, Build, Retry, LogInv, ControlOK
  <2>2. CitationsResolve'
    BY <2>1, SealedStays
  <2> QED BY <2>1, <2>2 DEF CitedIsHeld
<1>2. ASSUME NEW w \in Writers, Insert(w)
      PROVE  CitesInv'
  <2>1. /\ UNCHANGED stage /\ stage[w] = "writing" /\ cand[w] \in Nat
        /\ held' = [held EXCEPT ![w][Target(w)] = @ \cup {cand[w]}]
        /\ cited' = [cited EXCEPT ![w] =
                       IF Target(w) = Evidence THEN @ \cup {cand[w]} ELSE @]
        /\ Target(w) \in Streams
    BY <1>2, InsertFacts DEF Insert, LogInv, ControlOK
  <2>2. \A o \in Writers : o # w => cited'[o] = cited[o] /\ held'[o] = held[o]
    BY <2>1 DEF LogInv, ControlOK
  <2>3. CitationsResolve'
    <3>1. \A o \in Writers : stage'[o] = "committed" =>
             stage[o] = "committed" /\ cited'[o] = cited[o]
      BY <2>1, <2>2
    <3> QED BY <3>1, SealedStays
  <2>4. cited'[w] \subseteq held'[w][Evidence]
    <3>1. CASE Target(w) = Evidence
      BY <2>1, <3>1 DEF CitedIsHeld, LogInv, ControlOK
    <3>2. CASE Target(w) # Evidence
      BY <2>1, <3>2, StreamsAssumption DEF CitedIsHeld, LogInv, ControlOK
    <3> QED BY <3>1, <3>2
  <2>5. CitedIsHeld'
    BY <2>1, <2>2, <2>4 DEF CitedIsHeld
  <2>6. cited' \in [Writers -> SUBSET Nat]
    <3>1. CASE Target(w) = Evidence
      BY <2>1, <3>1
    <3>2. CASE Target(w) # Evidence
      BY <2>1, <3>2
    <3> QED BY <3>1, <3>2
  <2> QED BY <2>3, <2>5, <2>6
<1>3. ASSUME NEW w \in Writers, Commit(w)
      PROVE  CitesInv'
  <2>1. /\ UNCHANGED cited /\ stage[w] = "writing"
        /\ stage' = [stage EXCEPT ![w] = "committed"]
        /\ held' = [held EXCEPT ![w] = Nothing]
    BY <1>3 DEF Commit
  <2>2. Evidence \in Streams
    BY StreamsAssumption
  <2>3. ASSUME NEW o \in Writers, stage'[o] = "committed", NEW v \in cited[o]
        PROVE  v \in DOMAIN rows'[Evidence] /\ rows'[Evidence][v] = o
    <3>1. CASE o = w
      <4>1. v \in held[w][Evidence]
        BY <2>1, <2>3, <3>1 DEF CitedIsHeld
      <4> QED BY <1>3, <2>2, <3>1, <4>1, HeldBecomesCommitted
    <3>2. CASE o # w
      <4>1. v \in DOMAIN rows[Evidence] /\ rows[Evidence][v] = o
        BY <2>1, <2>3, <3>2 DEF CitationsResolve, LogInv, ControlOK
      <4> QED BY <2>2, <4>1, RowsGrow
    <3> QED BY <3>1, <3>2
  <2>4. CitedIsHeld'
    BY <2>1 DEF CitedIsHeld, LogInv, ControlOK
  <2> QED BY <2>1, <2>3, <2>4 DEF CitationsResolve
<1>4. ASSUME NEW w \in Writers,
             Refuse(w) \/ Exhaust(w) \/ LoseCase(w) \/ BreakDeadlock(w) \/ Abort(w)
      PROVE  CitesInv'
  <2>1. PICK how \in Endings : End(w, how)
    BY <1>4, EndingsAreEnds
  <2>2. /\ UNCHANGED cited
        /\ stage' = [stage EXCEPT ![w] = how]
        /\ held' = [held EXCEPT ![w] = Nothing]
    BY <2>1 DEF End
  <2>3. CitationsResolve'
    <3>1. \A o \in Writers : stage'[o] = "committed" => stage[o] = "committed"
      BY <2>2 DEF Endings, LogInv, ControlOK
    <3> QED BY <2>2, <3>1, SealedStays
  <2>4. CitedIsHeld'
    BY <2>2 DEF CitedIsHeld, Endings, LogInv, ControlOK
  <2> QED BY <2>2, <2>3, <2>4
<1>5. CASE UNCHANGED vars
  BY <1>5 DEF vars, CitedIsHeld, CitationsResolve
<1> QED BY <1>1, <1>2, <1>3, <1>4, <1>5 DEF Next, SomeStep, Step

\* Every evidence ref that a sealed artifact cites is a committed row of the
\* transaction that sealed it, however many inserts it lost on the way.
THEOREM SealedCitationsResolve == Spec => []CitationsResolve
BY LogInvInit, LogInvNext, CitesInvInit, CitesInvNext, PTL DEF Spec, CitesInv

-----------------------------------------------------------------------------
(* Giving up.                                                              *)

\* w has a row to insert.
HasTarget(w) == pos[w] <= Len(Plan[w])

LagOK(w) ==
  /\ stage[w] \in {"new", "clearing"} => tries[w] = 0
  /\ stage[w] \in {"clearing", "writing"} =>
       \A s \in Streams : base[w][s] <= Len(rows[s])
  /\ stage[w] = "writing" /\ HasTarget(w) =>
       base[w][Target(w)] + tries[w] <= Len(rows[Target(w)])
  /\ cand[w] # 0 => base[w][Target(w)] + tries[w] < cand[w]
  /\ stage[w] = "exhausted" =>
       HasTarget(w) /\ base[w][Target(w)] + Attempts <= Len(rows[Target(w)])

LagInv == \A w \in Writers : LagOK(w)

LEMMA TargetIsStream ==
  ASSUME LogInv, NEW w \in Writers, HasTarget(w)
  PROVE  Target(w) \in Streams
BY PlanIsSeq DEF HasTarget, LogInv, PositionOK, Target

LEMMA LagInvInit == Init => LagInv
BY DEF Init, LagInv, LagOK

\* A writer that does not step keeps its lag: rows only grow.
LEMMA LagOfOthers ==
  ASSUME LogInv, RestOK, LagInv, [Next]_vars, NEW o \in Writers,
         /\ stage'[o] = stage[o] /\ pos'[o] = pos[o] /\ cand'[o] = cand[o]
         /\ tries'[o] = tries[o] /\ base'[o] = base[o]
  PROVE  LagOK(o)'
<1>1. LagOK(o)
  BY DEF LagInv
<1>2. Target(o)' = Target(o) /\ (HasTarget(o)' <=> HasTarget(o))
  BY DEF Target, HasTarget
<1>3. \A s \in Streams : /\ Len(rows[s]) \in Nat /\ Len(rows'[s]) \in Nat
                         /\ Len(rows[s]) <= Len(rows'[s]) /\ base[o][s] \in Nat
  BY RowsGrow DEF RestOK
<1>4. tries[o] \in Nat /\ Attempts \in Nat
  BY StreamsAssumption DEF RestOK
<1>5. HasTarget(o) => Target(o) \in Streams
  BY TargetIsStream
<1> QED BY <1>1, <1>2, <1>3, <1>4, <1>5 DEF LagOK

LEMMA LagInvNext == LogInv /\ RestOK /\ LagInv /\ [Next]_vars => LagInv'
<1> SUFFICES ASSUME LogInv, RestOK, LagInv, [Next]_vars PROVE LagInv'
  OBVIOUS
<1> DEFINE Still(o) == /\ stage'[o] = stage[o] /\ pos'[o] = pos[o]
                       /\ cand'[o] = cand[o]
                       /\ tries'[o] = tries[o] /\ base'[o] = base[o]
<1>1. ASSUME NEW w \in Writers, LagOK(w)', \A o \in Writers \ {w} : Still(o)
      PROVE  LagInv'
  <2>1. ASSUME NEW o \in Writers, o # w
        PROVE  LagOK(o)'
    BY <1>1, <2>1, LagOfOthers
  <2> QED BY <1>1, <2>1 DEF LagInv
<1> USE DEF LogInv, PositionOK, ControlOK, RestOK
<1>2. ASSUME NEW w \in Writers, Begin(w)
      PROVE  LagInv'
  <2>1. /\ UNCHANGED <<rows, pos, cand, tries>>
        /\ stage[w] = "new" /\ stage'[w] \in {"clearing", "writing"}
        /\ \A s \in Streams : base'[w][s] = Len(rows[s])
    BY <1>2, StreamFacts DEF Begin
  <2>2. \A o \in Writers \ {w} : Still(o)
    BY <1>2 DEF Begin
  <2>3. tries[w] = 0 /\ cand[w] = 0
    BY <2>1 DEF LagInv, LagOK, CandidateOK
  <2>4. HasTarget(w)' => Target(w)' \in Streams
    BY <2>1, TargetIsStream DEF HasTarget, Target
  <2>5. \A s \in Streams : Len(rows[s]) \in Nat
    BY StreamFacts
  <2>6. LagOK(w)'
    BY <2>1, <2>3, <2>4, <2>5 DEF LagOK
  <2> QED BY <1>1, <2>2, <2>6
<1>3. ASSUME NEW w \in Writers, Clear(w)
      PROVE  LagInv'
  <2>1. /\ UNCHANGED <<rows, pos, cand, tries, base>>
        /\ stage[w] = "clearing" /\ stage'[w] = "writing"
    BY <1>3 DEF Clear
  <2>2. \A o \in Writers \ {w} : Still(o)
    BY <1>3 DEF Clear
  <2>3. tries[w] = 0 /\ cand[w] = 0
        /\ \A s \in Streams : base[w][s] \in Nat /\ base[w][s] <= Len(rows[s])
    BY <2>1 DEF LagInv, LagOK, CandidateOK
  <2>4. HasTarget(w)' => Target(w)' \in Streams
    BY <2>1, TargetIsStream DEF HasTarget, Target
  <2>5. LagOK(w)'
    BY <2>1, <2>3, <2>4 DEF LagOK
  <2> QED BY <1>1, <2>2, <2>5
<1>4. ASSUME NEW w \in Writers, Build(w)
      PROVE  LagInv'
  <2>1. /\ UNCHANGED <<rows, pos, stage, tries, base>>
        /\ stage[w] = "writing" /\ HasTarget(w)
        /\ cand'[w] = Top(Visible(w, Target(w))) + 1
    BY <1>4 DEF Build, Reading, HasTarget
  <2>2. \A o \in Writers \ {w} : Still(o)
    BY <1>4 DEF Build
  <2>3. Target(w) \in Streams
    BY <2>1, TargetIsStream
  <2>4. /\ Len(rows[Target(w)]) \in Nat /\ Inserted(w, Target(w)) \in Nat
        /\ Top(Visible(w, Target(w))) = Len(rows[Target(w)]) + Inserted(w, Target(w))
    BY <2>3, StreamFacts
  <2>5. /\ base[w][Target(w)] + tries[w] <= Len(rows[Target(w)])
        /\ \A s \in Streams : base[w][s] <= Len(rows[s])
        /\ base[w][Target(w)] \in Nat /\ tries[w] \in Nat
    BY <2>1, <2>3, StreamsAssumption DEF LagInv, LagOK
  <2>6. base[w][Target(w)] + tries[w] < cand'[w]
    BY <2>1, <2>4, <2>5
  <2>7. LagOK(w)'
    BY <2>1, <2>5, <2>6 DEF LagOK, HasTarget, Target
  <2> QED BY <1>1, <2>2, <2>7
<1>5. ASSUME NEW w \in Writers, Insert(w)
      PROVE  LagInv'
  <2>1. /\ UNCHANGED <<rows, stage, base>>
        /\ stage[w] = "writing" /\ cand'[w] = 0 /\ tries'[w] = 0
    BY <1>5, InsertFacts DEF Insert
  <2>2. \A o \in Writers \ {w} : Still(o)
    BY <1>5 DEF Insert
  <2>3. \A s \in Streams : base[w][s] \in Nat /\ base[w][s] <= Len(rows[s])
    BY <2>1 DEF LagInv, LagOK
  <2>4. HasTarget(w)' => Target(w)' \in Streams
    <3>1. LogInv'
      BY LogInvNext
    <3> QED BY <3>1, PlanIsSeq DEF HasTarget, Target
  <2>5. LagOK(w)'
    BY <2>1, <2>3, <2>4 DEF LagOK
  <2> QED BY <1>1, <2>2, <2>5
<1>6. ASSUME NEW w \in Writers, Retry(w) \/ Exhaust(w)
      PROVE  LagInv'
  <2>1. /\ UNCHANGED <<rows, pos, base>> /\ cand'[w] = 0
        /\ cand[w] # 0 /\ stage[w] = "writing" /\ HasTarget(w)
        /\ cand[w] \in DOMAIN rows[Target(w)]
    BY <1>6 DEF Retry, Exhaust, End, Collides, CandidateOK, HasTarget
  <2>2. \A o \in Writers \ {w} : Still(o)
    BY <1>6 DEF Retry, Exhaust, End
  <2>3. Target(w) \in Streams /\ Target(w)' = Target(w) /\ (HasTarget(w)' <=> HasTarget(w))
    BY <2>1, TargetIsStream DEF Target, HasTarget
  <2>4. Len(rows[Target(w)]) \in Nat /\ cand[w] \in 1..Len(rows[Target(w)])
    BY <2>1, <2>3, StreamFacts
  <2>5. /\ base[w][Target(w)] + tries[w] < cand[w]
        /\ \A s \in Streams : base[w][s] <= Len(rows[s])
        /\ base[w][Target(w)] \in Nat /\ tries[w] \in 0..(Attempts - 1) /\ Attempts \in Nat
    BY <2>1, <2>3, StreamsAssumption DEF LagInv, LagOK
  <2>6. base[w][Target(w)] + tries[w] + 1 <= Len(rows[Target(w)])
    BY <2>4, <2>5
  <2>7. CASE Retry(w)
    <3>1. stage'[w] = "writing" /\ tries'[w] = tries[w] + 1
      BY <2>1, <2>7 DEF Retry
    <3>2. base[w][Target(w)] + (tries[w] + 1) <= Len(rows[Target(w)])
      BY <2>4, <2>5, <2>6
    <3>3. LagOK(w)'
      BY <2>1, <2>3, <2>5, <3>1, <3>2 DEF LagOK
    <3> QED BY <1>1, <2>2, <3>3
  <2>8. CASE Exhaust(w)
    <3>1. stage'[w] = "exhausted" /\ tries[w] + 1 >= Attempts /\ tries'[w] = tries[w]
      BY <2>8 DEF Exhaust, End
    <3>2. base[w][Target(w)] + Attempts <= Len(rows[Target(w)])
      BY <2>4, <2>5, <2>6, <3>1
    <3>3. LagOK(w)'
      BY <2>1, <2>3, <3>1, <3>2 DEF LagOK
    <3> QED BY <1>1, <2>2, <3>3
  <2> QED BY <1>6, <2>7, <2>8
<1>7. ASSUME NEW w \in Writers, Refuse(w) \/ LoseCase(w) \/ BreakDeadlock(w) \/ Abort(w)
      PROVE  LagInv'
  <2>1. PICK how \in Endings \ {"exhausted"} : End(w, how)
    BY <1>7 DEF Refuse, LoseCase, BreakDeadlock, Abort, Endings
  <2>2. stage'[w] = how /\ cand'[w] = 0 /\ \A o \in Writers \ {w} : Still(o)
    BY <2>1 DEF End
  <2>3. LagOK(w)'
    BY <2>2 DEF LagOK, Endings
  <2> QED BY <1>1, <2>2, <2>3
<1>8. ASSUME NEW w \in Writers, Commit(w)
      PROVE  LagInv'
  <2>1. /\ stage'[w] = "committed" /\ cand'[w] = cand[w] /\ pos[w] > Len(Plan[w])
        /\ \A o \in Writers \ {w} : Still(o)
    BY <1>8 DEF Commit, Finished
  <2>2. cand[w] = 0
    BY <2>1, PlanIsSeq DEF CandidateOK
  <2>3. LagOK(w)'
    BY <2>1, <2>2 DEF LagOK
  <2> QED BY <1>1, <2>1, <2>3
<1>9. CASE UNCHANGED vars
  <2>1. \A o \in Writers : LagOK(o)'
    BY <1>9, LagOfOthers DEF vars
  <2> QED BY <2>1 DEF LagInv
<1> QED BY <1>2, <1>3, <1>4, <1>5, <1>6, <1>7, <1>8, <1>9 DEF Next, SomeStep, Step

LEMMA GiveUpFromLag == LogInv /\ RestOK /\ LagInv => GiveUpEarned
<1> SUFFICES ASSUME LogInv, RestOK, LagInv, NEW w \in Writers, stage[w] = "exhausted"
             PROVE  Latest(Target(w)) >= base[w][Target(w)] + Attempts
  BY DEF GiveUpEarned
<1>1. HasTarget(w) /\ base[w][Target(w)] + Attempts <= Len(rows[Target(w)])
  BY DEF LagInv, LagOK
<1>2. Target(w) \in Streams
  BY <1>1, TargetIsStream
<1>3. Latest(Target(w)) = Len(rows[Target(w)]) /\ Len(rows[Target(w)]) \in Nat
  BY <1>2, StreamFacts
<1>4. base[w][Target(w)] \in Nat /\ Attempts \in Nat
  BY <1>2, StreamsAssumption DEF RestOK
<1> QED BY <1>1, <1>3, <1>4

\* For any number of writers and of attempts: a writer that gave up lost to
\* that many versions committed since its request began.
THEOREM GivingUpIsEarned == Spec => []GiveUpEarned
BY LogInvInit, LogInvNext, RestOKInit, RestOKNext, LagInvInit, LagInvNext,
   GiveUpFromLag, PTL DEF Spec

-----------------------------------------------------------------------------
(* No lost update.                                                         *)

EditOK(w) ==
  /\ cand[w] # 0 /\ base[w][Target(w)] # 0 => cand[w] = base[w][Target(w)] + 1
  /\ stage[w] = "writing" =>
       \A i \in 1..(pos[w] - 1) :
         base[w][Plan[w][i]] # 0 => base[w][Plan[w][i]] + 1 \in held[w][Plan[w][i]]
  /\ stage[w] = "committed" =>
       \A i \in DOMAIN Plan[w] :
         base[w][Plan[w][i]] # 0 =>
           /\ base[w][Plan[w][i]] + 1 \in DOMAIN rows[Plan[w][i]]
           /\ rows[Plan[w][i]][base[w][Plan[w][i]] + 1] = w

EditInv == \A w \in Editors : EditOK(w)

LEMMA EditInvInit == Init => EditInv
BY StreamsAssumption DEF Init, EditInv, EditOK

LEMMA EditOfOthers ==
  ASSUME LogInv, EditInv, [Next]_vars, NEW o \in Editors,
         /\ stage'[o] = stage[o] /\ pos'[o] = pos[o] /\ cand'[o] = cand[o]
         /\ held'[o] = held[o] /\ base'[o] = base[o]
  PROVE  EditOK(o)'
<1>1. EditOK(o) /\ o \in Writers
  BY StreamsAssumption DEF EditInv
<1>2. Target(o)' = Target(o)
  BY DEF Target
<1>3. ASSUME stage[o] = "committed", NEW i \in DOMAIN Plan[o], base[o][Plan[o][i]] # 0
      PROVE  /\ base[o][Plan[o][i]] + 1 \in DOMAIN rows'[Plan[o][i]]
             /\ rows'[Plan[o][i]][base[o][Plan[o][i]] + 1] = o
  <2>1. Plan[o][i] \in Streams
    BY <1>1, PlanIsSeq
  <2> QED BY <1>1, <1>3, <2>1, RowsGrow DEF EditOK
<1> QED BY <1>1, <1>2, <1>3 DEF EditOK

LEMMA EditInvNext == LogInv /\ EditInv /\ [Next]_vars => EditInv'
<1> SUFFICES ASSUME LogInv, EditInv, [Next]_vars PROVE EditInv'
  OBVIOUS
<1> DEFINE Still(o) == /\ stage'[o] = stage[o] /\ pos'[o] = pos[o]
                       /\ cand'[o] = cand[o]
                       /\ held'[o] = held[o] /\ base'[o] = base[o]
<1>1. ASSUME NEW w \in Writers, w \in Editors => EditOK(w)',
             \A o \in Writers \ {w} : Still(o)
      PROVE  EditInv'
  <2>1. ASSUME NEW o \in Editors, o # w
        PROVE  EditOK(o)'
    BY <1>1, <2>1, EditOfOthers, StreamsAssumption
  <2> QED BY <1>1, <2>1 DEF EditInv
<1> USE DEF LogInv, PositionOK, ControlOK
<1>2. ASSUME NEW w \in Writers, Begin(w) \/ Clear(w)
      PROVE  EditInv'
  <2>1. /\ \A o \in Writers \ {w} : Still(o)
        /\ UNCHANGED <<pos, cand>> /\ stage[w] \in {"new", "clearing"}
        /\ stage'[w] \in {"clearing", "writing"}
    <3>1. CASE Begin(w)
      BY <3>1 DEF Begin
    <3>2. CASE Clear(w)
      BY <3>2 DEF Clear
    <3> QED BY <1>2, <3>1, <3>2
  <2>2. pos'[w] = 1 /\ cand'[w] = 0 /\ 1..(pos'[w] - 1) = {}
    BY <2>1 DEF NewAtStart, CandidateOK
  <2>3. EditOK(w)'
    BY <2>1, <2>2 DEF EditOK
  <2> QED BY <1>1, <2>1, <2>3
<1>3. ASSUME NEW w \in Writers, Build(w)
      PROVE  EditInv'
  <2>1. /\ \A o \in Writers \ {w} : Still(o)
        /\ UNCHANGED <<rows, pos, stage, held, base>> /\ stage[w] = "writing"
        /\ cand'[w] = Top(Visible(w, Target(w))) + 1
        /\ ~Superseded(w)
    BY <1>3 DEF Build, Reading
  <2>2. ASSUME w \in Editors, base[w][Target(w)] # 0
        PROVE  cand'[w] = base[w][Target(w)] + 1
    BY <2>1, <2>2 DEF Superseded
  <2>3. Target(w)' = Target(w)
    BY <2>1 DEF Target
  <2>4. w \in Editors => EditOK(w)'
    BY <2>1, <2>2, <2>3 DEF EditInv, EditOK
  <2> QED BY <1>1, <2>1, <2>4
<1>4. ASSUME NEW w \in Writers, Insert(w)
      PROVE  EditInv'
  <2>1. /\ \A o \in Writers \ {w} : Still(o)
        /\ UNCHANGED <<rows, stage, base>> /\ stage[w] = "writing"
        /\ cand[w] # 0 /\ cand'[w] = 0 /\ pos'[w] = pos[w] + 1
        /\ Target(w) \in Streams
        /\ held' = [held EXCEPT ![w][Target(w)] = @ \cup {cand[w]}]
    BY <1>4, InsertFacts DEF Insert
  <2>2. \A s \in Streams : held[w][s] \subseteq held'[w][s]
    BY <2>1
  <2>3. cand[w] \in held'[w][Target(w)]
    BY <2>1
  <2>4. ASSUME w \in Editors, NEW i \in 1..(pos'[w] - 1), base[w][Plan[w][i]] # 0
        PROVE  base[w][Plan[w][i]] + 1 \in held'[w][Plan[w][i]]
    <3>1. CASE i = pos[w]
      BY <2>1, <2>3, <2>4, <3>1 DEF EditInv, EditOK, Target
    <3>2. CASE i # pos[w]
      <4>1. pos[w] \in 1..Len(Plan[w]) /\ i \in 1..(pos[w] - 1)
        BY <1>4, <2>1, <3>2, InsertFacts, PlanIsSeq
      <4>2. Plan[w][i] \in Streams
        BY <4>1, PlanIsSeq
      <4>3. base[w][Plan[w][i]] + 1 \in held[w][Plan[w][i]]
        BY <2>1, <2>4, <4>1 DEF EditInv, EditOK
      <4> QED BY <2>2, <4>2, <4>3
    <3> QED BY <3>1, <3>2
  <2>5. w \in Editors => EditOK(w)'
    BY <2>1, <2>4 DEF EditOK
  <2> QED BY <1>1, <2>1, <2>5
<1>5. ASSUME NEW w \in Writers, Retry(w)
      PROVE  EditInv'
  <2>1. w \notin Editors /\ \A o \in Writers \ {w} : Still(o)
    BY <1>5 DEF Retry
  <2> QED BY <1>1, <2>1
<1>6. ASSUME NEW w \in Writers,
             Refuse(w) \/ Exhaust(w) \/ LoseCase(w) \/ BreakDeadlock(w) \/ Abort(w)
      PROVE  EditInv'
  <2>1. PICK how \in Endings : End(w, how)
    BY <1>6, EndingsAreEnds
  <2>2. stage'[w] = how /\ cand'[w] = 0 /\ \A o \in Writers \ {w} : Still(o)
    BY <2>1 DEF End
  <2>3. EditOK(w)'
    BY <2>2 DEF EditOK, Endings
  <2> QED BY <1>1, <2>2, <2>3
<1>7. ASSUME NEW w \in Writers, Commit(w)
      PROVE  EditInv'
  <2>1. /\ \A o \in Writers \ {w} : Still(o)
        /\ stage'[w] = "committed" /\ stage[w] = "writing"
        /\ cand'[w] = cand[w] /\ base'[w] = base[w] /\ pos[w] > Len(Plan[w])
    BY <1>7 DEF Commit, Finished
  <2>2. cand'[w] = 0
    BY <2>1, PlanIsSeq DEF CandidateOK
  <2>3. ASSUME w \in Editors, NEW i \in DOMAIN Plan[w], base[w][Plan[w][i]] # 0
        PROVE  /\ base[w][Plan[w][i]] + 1 \in DOMAIN rows'[Plan[w][i]]
               /\ rows'[Plan[w][i]][base[w][Plan[w][i]] + 1] = w
    <3>1. i \in 1..(pos[w] - 1) /\ Plan[w][i] \in Streams
      BY <2>1, PlanIsSeq
    <3>2. base[w][Plan[w][i]] + 1 \in held[w][Plan[w][i]]
      BY <2>1, <2>3, <3>1 DEF EditInv, EditOK
    <3> QED BY <1>7, <3>1, <3>2, HeldBecomesCommitted
  <2>4. w \in Editors => EditOK(w)'
    BY <2>1, <2>2, <2>3 DEF EditOK
  <2> QED BY <1>1, <2>1, <2>4
<1>8. CASE UNCHANGED vars
  <2>1. \A o \in Editors : EditOK(o)'
    BY <1>8, EditOfOthers DEF vars
  <2> QED BY <2>1 DEF EditInv
<1> QED BY <1>2, <1>3, <1>4, <1>5, <1>6, <1>7, <1>8 DEF Next, SomeStep, Step

LEMMA EditedNext == EditInv => NoLostUpdate
<1> SUFFICES ASSUME EditInv, NEW w \in Editors, stage[w] = "committed",
                    NEW i \in DOMAIN Plan[w], base[w][Plan[w][i]] # 0
             PROVE  /\ base[w][Plan[w][i]] + 1 \in DOMAIN rows[Plan[w][i]]
                    /\ rows[Plan[w][i]][base[w][Plan[w][i]] + 1] = w
  BY DEF NoLostUpdate
<1> QED BY DEF EditInv, EditOK

\* A case saved over an open version directly follows that version, for any
\* number of editors and case sets in any order.
THEOREM EditsLoseNothing == Spec => []NoLostUpdate
BY LogInvInit, LogInvNext, EditInvInit, EditInvNext, EditedNext, PTL DEF Spec

-----------------------------------------------------------------------------
(* No echoed upload.                                                       *)

\* The content of the latest committed document version is not that of w.
Differs(w) ==
  Len(rows[Documents]) # 0 =>
    Content[rows[Documents][Len(rows[Documents])]] # Content[w]

\* w has inserted a document version, or is about to and none was committed
\* since it compared the digests.
Uploading(w) ==
  \/ held[w][Documents] # {}
  \/ /\ cand[w] # 0 /\ Target(w) = Documents
     /\ cand[w] = Len(rows[Documents]) + 1

EchoInv == NoEchoedUpload /\ \A w \in Writers : Uploading(w) => Differs(w)

LEMMA EchoInvInit == Init => EchoInv
BY StreamsAssumption, EmptySeq DEF Init, EchoInv, NoEchoedUpload, Uploading, Nothing

\* A request uploads to the document once.
LEMMA OneUpload ==
  ASSUME LogInv, NEW w \in Writers
  PROVE  /\ Inserted(w, Documents) \in {0, 1}
         /\ HasTarget(w) /\ Target(w) = Documents => Inserted(w, Documents) = 0
<1> USE DEF LogInv, PositionOK
<1>1. \A i, j \in 1..Len(Plan[w]) :
        Plan[w][i] = Documents /\ Plan[w][j] = Documents => i = j
  BY StreamsAssumption, PlanIsSeq
<1> DEFINE B == Before(w, Documents, pos[w] - 1)
<1>2. pos[w] - 1 \in 0..Len(Plan[w]) /\ Len(Plan[w]) \in Nat
  BY PlanIsSeq
<1>3. B = {} \/ \E i : B = {i}
  <2>1. \A i, j \in B : i = j
    BY <1>1, <1>2 DEF Before
  <2> QED BY <2>1
<1>4. Cardinality(B) \in {0, 1}
  BY <1>3, FS_EmptySet, FS_Singleton
<1>5. ASSUME HasTarget(w), Target(w) = Documents
      PROVE  B = {}
  BY <1>1, <1>2, <1>5 DEF Before, HasTarget, Target
<1>6. HasTarget(w) /\ Target(w) = Documents => Inserted(w, Documents) = 0
  BY <1>5, FS_EmptySet DEF Inserted
<1> QED BY <1>4, <1>6 DEF Inserted

LEMMA EchoInvNext == LogInv /\ EchoInv /\ [Next]_vars => EchoInv'
<1> SUFFICES ASSUME LogInv, EchoInv, [Next]_vars PROVE EchoInv'
  OBVIOUS
<1> USE DEF EchoInv
<1>0. /\ Documents \in Streams
      /\ Len(rows[Documents]) \in Nat
      /\ DOMAIN rows[Documents] = 1..Len(rows[Documents])
      /\ Latest(Documents) = Len(rows[Documents])
  BY StreamsAssumption, StreamFacts
\* A step that commits nothing and gives no one a new claim to the document.
<1>1. ASSUME UNCHANGED rows,
             \A o \in Writers : Uploading(o)' => Uploading(o) \/ Differs(o)
      PROVE  EchoInv'
  <2>1. NoEchoedUpload' /\ \A o \in Writers : Differs(o)' <=> Differs(o)
    BY <1>1 DEF NoEchoedUpload, Differs
  <2> QED BY <1>1, <2>1
<1> USE DEF LogInv, PositionOK, ControlOK
<1>2. ASSUME NEW w \in Writers, Begin(w) \/ Clear(w)
      PROVE  EchoInv'
  <2>1. UNCHANGED <<rows, held, cand, pos>>
    BY <1>2 DEF Begin, Clear
  <2>2. \A o \in Writers : Uploading(o)' => Uploading(o)
    BY <2>1 DEF Uploading, Target
  <2> QED BY <1>1, <2>1, <2>2
<1>3. ASSUME NEW w \in Writers, Build(w)
      PROVE  EchoInv'
  <2>1. /\ UNCHANGED <<rows, held, pos>> /\ ~Identical(w)
        /\ \A o \in Writers \ {w} : cand'[o] = cand[o]
    BY <1>3 DEF Build
  <2>2. Target(w) = Documents => Differs(w)
    BY <1>0, <2>1 DEF Identical, Differs
  <2>3. \A o \in Writers : Uploading(o)' => Uploading(o) \/ Differs(o)
    BY <2>1, <2>2 DEF Uploading, Target
  <2> QED BY <1>1, <2>1, <2>3
<1>4. ASSUME NEW w \in Writers, Insert(w)
      PROVE  EchoInv'
  <2>1. /\ UNCHANGED rows /\ cand'[w] = 0 /\ cand[w] # 0
        /\ held' = [held EXCEPT ![w][Target(w)] = @ \cup {cand[w]}]
        /\ pos' = [pos EXCEPT ![w] = @ + 1]
        /\ \A o \in Writers \ {w} : cand'[o] = cand[o]
    BY <1>4 DEF Insert
  <2>2. /\ HasTarget(w) /\ Target(w) \in Streams
        /\ cand[w] = Len(rows[Target(w)]) + Inserted(w, Target(w)) + 1
    BY <1>4, InsertFacts DEF HasTarget
  <2>3. Target(w) = Documents => Uploading(w)
    BY <1>0, <2>1, <2>2, OneUpload DEF Uploading
  <2>4. Uploading(w)' => Uploading(w)
    BY <1>0, <2>1, <2>2, <2>3 DEF Uploading
  <2>5. \A o \in Writers \ {w} : Uploading(o)' => Uploading(o)
    BY <2>1 DEF Uploading, Target
  <2> QED BY <1>1, <2>1, <2>4, <2>5
<1>5. ASSUME NEW w \in Writers, Retry(w)
      PROVE  EchoInv'
  <2>1. /\ UNCHANGED <<rows, held, pos>> /\ cand'[w] = 0
        /\ \A o \in Writers \ {w} : cand'[o] = cand[o]
    BY <1>5 DEF Retry
  <2>2. \A o \in Writers : Uploading(o)' => Uploading(o)
    BY <2>1 DEF Uploading, Target
  <2> QED BY <1>1, <2>1, <2>2
<1>6. ASSUME NEW w \in Writers,
             Refuse(w) \/ Exhaust(w) \/ LoseCase(w) \/ BreakDeadlock(w) \/ Abort(w)
      PROVE  EchoInv'
  <2>1. PICK how \in Endings : End(w, how)
    BY <1>6, EndingsAreEnds
  <2>2. /\ UNCHANGED <<rows, pos>> /\ cand'[w] = 0 /\ held'[w][Documents] = {}
        /\ \A o \in Writers \ {w} : cand'[o] = cand[o] /\ held'[o] = held[o]
    BY <1>0, <2>1 DEF End, Nothing
  <2>3. \A o \in Writers : Uploading(o)' => Uploading(o)
    BY <2>2 DEF Uploading, Target
  <2> QED BY <1>1, <2>2, <2>3
<1>7. ASSUME NEW w \in Writers, Commit(w)
      PROVE  EchoInv'
  <2> DEFINE d == rows[Documents]
             k == Inserted(w, Documents)
  <2>1. /\ UNCHANGED <<pos, cand>> /\ held'[w][Documents] = {}
        /\ \A o \in Writers \ {w} : held'[o] = held[o]
        /\ pos[w] > Len(Plan[w])
    BY <1>0, <1>7 DEF Commit, Finished, Nothing
  <2>2. /\ k \in {0, 1} /\ Len(rows'[Documents]) = Len(d) + k
        /\ rows'[Documents] = [v \in 1..(Len(d) + k) |-> IF v <= Len(d) THEN d[v] ELSE w]
        /\ held[w][Documents] = (Len(d) + 1)..(Len(d) + k)
    BY <1>0, <1>7, CommitFacts, OneUpload DEF HeldAtEnd
  <2>3. cand[w] = 0
    BY <2>1, PlanIsSeq DEF CandidateOK
  <2>4. CASE k = 0
    <3>1. rows'[Documents] = d
      <4>1. d \in [1..Len(d) -> Writers]
        BY <1>0, LenProperties DEF Dense
      <4>2. rows'[Documents] = [v \in 1..Len(d) |-> d[v]]
        BY <1>0, <2>2, <2>4
      <4> QED BY <4>1, <4>2
    <3>2. NoEchoedUpload' /\ \A o \in Writers : Differs(o)' <=> Differs(o)
      BY <3>1 DEF NoEchoedUpload, Differs
    <3>3. \A o \in Writers : Uploading(o)' => Uploading(o)
      BY <2>1, <2>3, <3>1 DEF Uploading, Target
    <3> QED BY <3>2, <3>3
  <2>5. CASE k = 1
    <3>1. Differs(w)
      <4>1. Len(d) + 1 \in held[w][Documents]
        BY <1>0, <2>2, <2>5
      <4>2. Uploading(w)
        BY <4>1 DEF Uploading
      <4> QED BY <4>2 DEF EchoInv
    <3>2. NoEchoedUpload'
      <4> SUFFICES ASSUME NEW v \in DOMAIN rows'[Documents], v + 1 \in DOMAIN rows'[Documents]
                   PROVE  Content[rows'[Documents][v]] # Content[rows'[Documents][v + 1]]
        BY DEF NoEchoedUpload
      <4>1. v \in 1..Len(d) /\ v + 1 \in 1..(Len(d) + 1)
        BY <1>0, <2>2, <2>5
      <4>2. CASE v = Len(d)
        BY <1>0, <2>2, <2>5, <3>1, <4>1, <4>2 DEF Differs
      <4>3. CASE v # Len(d)
        BY <1>0, <2>2, <2>5, <4>1, <4>3 DEF NoEchoedUpload
      <4> QED BY <4>2, <4>3
    <3>3. ASSUME NEW o \in Writers
          PROVE  ~Uploading(o)'
      <4>1. CASE o = w
        BY <2>1, <2>3, <4>1 DEF Uploading
      <4>2. CASE o # w
        <5>1. Inserted(o, Documents) = 0
          BY <1>0, <2>5, <4>2 DEF OneHolder
        <5>2. held'[o][Documents] = {}
          BY <1>0, <2>1, <4>2, <5>1 DEF HeldAtEnd
        <5>3. cand[o] # 0 /\ Target(o) = Documents => cand[o] \in 1..(Len(d) + 1)
          BY <1>0, <5>1 DEF CandidateOK
        <5>4. Len(rows'[Documents]) + 1 = Len(d) + 2
          BY <1>0, <2>2, <2>5
        <5> QED BY <1>0, <2>1, <5>2, <5>3, <5>4 DEF Uploading, Target
      <4> QED BY <4>1, <4>2
    <3> QED BY <3>2, <3>3
  <2> QED BY <2>2, <2>4, <2>5
<1>8. CASE UNCHANGED vars
  <2>1. UNCHANGED <<rows, held, cand, pos>>
    BY <1>8 DEF vars
  <2>2. \A o \in Writers : Uploading(o)' => Uploading(o)
    BY <2>1 DEF Uploading, Target
  <2> QED BY <1>1, <2>1, <2>2
<1> QED BY <1>2, <1>3, <1>4, <1>5, <1>6, <1>7, <1>8 DEF Next, SomeStep, Step

\* However many uploads race, the digest test in the retry loop never lets
\* one content become two versions in a row of a document.
THEOREM UploadsAreNotEchoed == Spec => []NoEchoedUpload
BY LogInvInit, LogInvNext, EchoInvInit, EchoInvNext, PTL DEF Spec, EchoInv
=============================================================================
