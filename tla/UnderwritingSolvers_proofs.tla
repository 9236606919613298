---------------------- MODULE UnderwritingSolvers_proofs ----------------------
(***************************************************************************)
(* Proofs about the projection of a case and the two searches over it, for *)
(* any cases within the bounds of the schemas, any limits, tolerances and  *)
(* numbers of iterations.                                                  *)
(*                                                                         *)
(* The projection is a fold over the periods, each of them three folds     *)
(* over the tranches, with sums over the tranches on the way.  The first   *)
(* half of the module shows what these compute: a fold is a run, each of   *)
(* the three runs shares out an amount fairly, and fair shares put a       *)
(* period in order.  The second half compares two projections of which one *)
(* is harder in every respect: less cash, more debt, a higher rate, lower  *)
(* earnings or a larger payout at the start of a period leave no more cash *)
(* and no less debt at its end, as long as debt was no bargain in the rows *)
(* compared.  So an output moves one way with what is searched, and a      *)
(* bisection finds the last crossing and not just some.  The last part     *)
(* shows of which terms of a case debt never is a bargain.                 *)
(***************************************************************************)
EXTENDS UnderwritingSolvers, FiniteSetTheorems, NaturalsInduction, TLAPS

-----------------------------------------------------------------------------
(* Sums over finite sets.  MapThenSumSet adds up in the order in which     *)
(* CHOOSE picks the elements; the order does not matter, and the sum of a  *)
(* disjoint union is that of its parts.  Each is shown of a smallest set   *)
(* for which it would fail.                                                *)

Pick(s) == CHOOSE x \in s : TRUE

\* g sums w over the subsets of S, as the fold computes it.
Sums(w, S, g) ==
  g = [s \in SUBSET S |-> IF s = {} THEN 0 ELSE w[Pick(s)] + g[s \ {Pick(s)}]]

LEMMA LeastNatural ==
  ASSUME NEW T, T \subseteq Nat, T # {}
  PROVE  \E x \in T : \A y \in T : x <= y
<1>1. IsWellFoundedOn({ss \in Nat \X Nat : ss[1] < ss[2]}, Nat)
  BY NatLessThanWellFounded DEF OpToRel
<1>2. PICK x \in T : \A y \in T : ~ (<<y, x>> \in {ss \in Nat \X Nat : ss[1] < ss[2]})
  BY <1>1, WFMin
<1>3. ASSUME NEW y \in T PROVE x <= y
  <2>1. x \in Nat /\ y \in Nat
    OBVIOUS
  <2>2. ~ (y < x)
    BY <1>2, <2>1
  <2> QED BY <2>1, <2>2
<1> QED BY <1>3

LEMMA SmallestSet ==
  ASSUME NEW S, IsFiniteSet(S), NEW B, B \subseteq SUBSET S, B # {}
  PROVE  \E s \in B : \A t \in B : ~(Cardinality(t) < Cardinality(s))
<1> DEFINE T == {Cardinality(s) : s \in B}
<1>1. \A s \in B : Cardinality(s) \in Nat
  BY FS_Subset, FS_CardinalityType
<1>2. T \subseteq Nat /\ T # {}
  BY <1>1
<1>3. PICK k \in T : \A j \in T : k <= j
  BY <1>2, LeastNatural
<1>4. PICK s \in B : k = Cardinality(s)
  BY <1>3
<1>5. ASSUME NEW t \in B PROVE ~(Cardinality(t) < Cardinality(s))
  BY <1>1, <1>3, <1>4
<1> QED BY <1>5

LEMMA WithoutOne ==
  ASSUME NEW S, IsFiniteSet(S), NEW s \in SUBSET S, NEW x \in s
  PROVE  /\ s \ {x} \in SUBSET S /\ Cardinality(s) \in Nat /\ Cardinality(s \ {x}) \in Nat
         /\ Cardinality(s \ {x}) = Cardinality(s) - 1
<1>1. IsFiniteSet(s)
  BY FS_Subset
<1>2. Cardinality(s \ {x}) = Cardinality(s) - 1
  BY <1>1, FS_RemoveElement
<1>3. IsFiniteSet(s \ {x})
  BY <1>1, FS_RemoveElement
<1> QED BY <1>1, <1>2, <1>3, FS_CardinalityType

LEMMA PickIsIn == ASSUME NEW s, s # {} PROVE Pick(s) \in s
BY DEF Pick

LEMMA SumAt ==
  ASSUME NEW w, NEW S, NEW g, Sums(w, S, g), NEW s \in SUBSET S
  PROVE  /\ s = {} => g[s] = 0
         /\ s # {} => g[s] = w[Pick(s)] + g[s \ {Pick(s)}]
<1>1. g = [t \in SUBSET S |-> IF t = {} THEN 0 ELSE w[Pick(t)] + g[t \ {Pick(t)}]]
  BY DEF Sums
<1> QED BY <1>1

\* The sums over subsets of up to k elements.
UpTo(S, k) == {t \in SUBSET S : Cardinality(t) <= k}

SumsUpTo(w, S, k, h) ==
  h = [s \in UpTo(S, k) |-> IF s = {} THEN 0 ELSE w[Pick(s)] + h[s \ {Pick(s)}]]

LEMMA SumExists ==
  ASSUME NEW w, NEW S, IsFiniteSet(S)
  PROVE  \E g : Sums(w, S, g)
<1> DEFINE B == {k \in Nat : ~\E h : SumsUpTo(w, S, k, h)}
<1>1. \A t \in SUBSET S : Cardinality(t) \in Nat /\ (Cardinality(t) = 0 <=> t = {}) /\ Cardinality(t) <= Cardinality(S)
  BY FS_Subset, FS_CardinalityType, FS_EmptySet
<1>2. 0 \notin B
  <2> DEFINE h == [s \in UpTo(S, 0) |-> 0]
  <2>1. \A s \in UpTo(S, 0) : s = {}
    BY <1>1 DEF UpTo
  <2>2. h = [s \in UpTo(S, 0) |-> IF s = {} THEN 0 ELSE w[Pick(s)] + h[s \ {Pick(s)}]]
    BY <2>1
  <2>3. SumsUpTo(w, S, 0, h)
    BY <2>2 DEF SumsUpTo
  <2> QED BY <2>3
<1>3. ASSUME NEW k \in Nat, k \notin B PROVE k + 1 \notin B
  <2>1. PICK h : SumsUpTo(w, S, k, h)
    BY <1>3
  <2> DEFINE more == [s \in UpTo(S, k + 1) |-> IF s = {} THEN 0 ELSE w[Pick(s)] + h[s \ {Pick(s)}]]
  <2>2. ASSUME NEW s \in UpTo(S, k + 1), s # {} PROVE s \ {Pick(s)} \in UpTo(S, k) /\ s \ {Pick(s)} \in UpTo(S, k + 1)
    <3>1. s \in SUBSET S /\ Cardinality(s) <= k + 1
      BY DEF UpTo
    <3>2. /\ s \ {Pick(s)} \in SUBSET S /\ Cardinality(s) \in Nat /\ Cardinality(s \ {Pick(s)}) \in Nat
          /\ Cardinality(s \ {Pick(s)}) = Cardinality(s) - 1
      BY <2>2, <3>1, PickIsIn, WithoutOne
    <3>3. Cardinality(s \ {Pick(s)}) <= k /\ Cardinality(s \ {Pick(s)}) <= k + 1
      BY <3>1, <3>2
    <3> QED BY <3>2, <3>3 DEF UpTo
  <2>3. ASSUME NEW s \in UpTo(S, k) PROVE more[s] = h[s]
    <3>1. s \in UpTo(S, k + 1)
      <4>1. Cardinality(s) \in Nat /\ Cardinality(s) <= k
        BY <1>1 DEF UpTo
      <4>2. Cardinality(s) <= k + 1
        BY <4>1
      <4> QED BY <4>2 DEF UpTo
    <3>2. h[s] = IF s = {} THEN 0 ELSE w[Pick(s)] + h[s \ {Pick(s)}]
      <4>1. h = [t \in UpTo(S, k) |-> IF t = {} THEN 0 ELSE w[Pick(t)] + h[t \ {Pick(t)}]]
        BY <2>1 DEF SumsUpTo
      <4> QED BY <4>1
    <3> QED BY <3>1, <3>2
  <2>4. ASSUME NEW s \in UpTo(S, k + 1)
        PROVE  (IF s = {} THEN 0 ELSE w[Pick(s)] + h[s \ {Pick(s)}]) = (IF s = {} THEN 0 ELSE w[Pick(s)] + more[s \ {Pick(s)}])
    <3>1. CASE s = {} BY <3>1
    <3>2. CASE s # {}
      <4>1. more[s \ {Pick(s)}] = h[s \ {Pick(s)}]
        BY <2>2, <2>3, <3>2
      <4> QED BY <3>2, <4>1
    <3> QED BY <3>1, <3>2
  <2>5. more = [s \in UpTo(S, k + 1) |-> IF s = {} THEN 0 ELSE w[Pick(s)] + more[s \ {Pick(s)}]]
    <3> DEFINE f == [s \in UpTo(S, k + 1) |-> IF s = {} THEN 0 ELSE w[Pick(s)] + more[s \ {Pick(s)}]]
    <3>1. DOMAIN more = UpTo(S, k + 1) /\ DOMAIN f = UpTo(S, k + 1)
      OBVIOUS
    <3>2. \A s \in UpTo(S, k + 1) : more[s] = f[s]
      BY <2>4
    <3> QED BY <2>4
  <2> HIDE DEF more
  <2>6. SumsUpTo(w, S, k + 1, more)
    BY <2>5 DEF SumsUpTo
  <2> QED BY <2>6
<1>4. B = {}
  <2> SUFFICES ASSUME B # {} PROVE FALSE
    OBVIOUS
  <2>1. PICK k \in B : \A j \in B : k <= j
    BY LeastNatural
  <2> HIDE DEF B
  <2>2. k \in Nat /\ k # 0
    BY <1>2, <2>1 DEF B
  <2>3. k - 1 \in Nat /\ k - 1 \notin B
    BY <2>1, <2>2
  <2>4. (k - 1) + 1 \notin B
    BY <1>3, <2>3
  <2> QED BY <2>1, <2>2, <2>4
<1>5. UpTo(S, Cardinality(S)) = SUBSET S /\ Cardinality(S) \in Nat
  BY <1>1, FS_CardinalityType DEF UpTo
<1>6. PICK g : SumsUpTo(w, S, Cardinality(S), g)
  BY <1>4, <1>5
<1> QED BY <1>5, <1>6 DEF SumsUpTo, Sums

LEMMA SumIsInt ==
  ASSUME NEW w, NEW S, IsFiniteSet(S), \A x \in S : w[x] \in Int, NEW g, Sums(w, S, g)
  PROVE  \A s \in SUBSET S : g[s] \in Int
<1> DEFINE B == {s \in SUBSET S : g[s] \notin Int}
<1> SUFFICES ASSUME B # {} PROVE FALSE
  OBVIOUS
<1>1. PICK s \in B : \A t \in B : ~(Cardinality(t) < Cardinality(s))
  BY SmallestSet
<1>2. s \in SUBSET S
  BY <1>1
<1>3. s # {} /\ g[s] = w[Pick(s)] + g[s \ {Pick(s)}]
  <2>1. s = {} => g[s] = 0
    BY <1>2, SumAt
  <2>2. s # {}
    BY <1>1, <2>1
  <2>3. g[s] = w[Pick(s)] + g[s \ {Pick(s)}]
    BY <1>2, <2>2, SumAt
  <2> QED BY <2>2, <2>3
<1>4. Pick(s) \in s /\ s \ {Pick(s)} \in SUBSET S /\ Cardinality(s \ {Pick(s)}) < Cardinality(s)
  BY <1>3, PickIsIn, WithoutOne
<1>5. g[s \ {Pick(s)}] \in Int
  BY <1>1, <1>4
<1>6. w[Pick(s)] \in Int
  BY <1>4
<1> QED BY <1>1, <1>2, <1>3, <1>5, <1>6

\* Any element may be the first that is added.
LEMMA SumFrom ==
  ASSUME NEW w, NEW S, IsFiniteSet(S), \A x \in S : w[x] \in Int, NEW g, Sums(w, S, g)
  PROVE  \A s \in SUBSET S : \A x \in s : g[s] = w[x] + g[s \ {x}]
<1> DEFINE B == {s \in SUBSET S : \E x \in s : g[s] # w[x] + g[s \ {x}]}
<1> SUFFICES ASSUME B # {} PROVE FALSE
  OBVIOUS
<1>1. PICK s \in B : \A t \in B : ~(Cardinality(t) < Cardinality(s))
  BY SmallestSet
<1>2. PICK x \in s : g[s] # w[x] + g[s \ {x}]
  OBVIOUS
<1>3. PICK p : p = Pick(s)
  OBVIOUS
<1>4. /\ p \in s /\ s \ {p} \in SUBSET S /\ Cardinality(s \ {p}) < Cardinality(s)
      /\ s \ {x} \in SUBSET S /\ Cardinality(s \ {x}) < Cardinality(s)
  BY <1>3, PickIsIn, WithoutOne
<1>5. g[s] = w[p] + g[s \ {p}]
  <2>1. s \in SUBSET S /\ s # {}
    BY <1>1, <1>2
  <2>2. g[s] = w[Pick(s)] + g[s \ {Pick(s)}]
    BY <2>1, SumAt
  <2> QED BY <1>3, <2>1, <2>2
<1>6. x # p
  BY <1>2, <1>5
<1>7. s \ {p} \notin B /\ s \ {x} \notin B
  BY <1>1, <1>4
<1>8. g[s \ {p}] = w[x] + g[(s \ {p}) \ {x}]
  BY <1>4, <1>6, <1>7
<1>9. g[s \ {x}] = w[p] + g[(s \ {x}) \ {p}]
  BY <1>4, <1>6, <1>7
<1>10. (s \ {p}) \ {x} = (s \ {x}) \ {p} /\ (s \ {p}) \ {x} \in SUBSET S
  OBVIOUS
<1>11. w[x] \in Int /\ w[p] \in Int /\ g[(s \ {p}) \ {x}] \in Int
  <2>1. s \in SUBSET S
    BY <1>1
  <2> QED BY <1>4, <1>10, <2>1, SumIsInt
<1>12. PICK a, b, c : a = w[x] /\ b = w[p] /\ c = g[(s \ {p}) \ {x}]
  OBVIOUS
<1>13. g[s] = b + (a + c) /\ g[s \ {x}] = b + c
  BY <1>5, <1>8, <1>9, <1>10, <1>12
<1>14. a \in Int /\ b \in Int /\ c \in Int
  BY <1>11, <1>12
<1> QED BY <1>2, <1>12, <1>13, <1>14

\* Sums of functions that agree are the same.
LEMMA SumsAgree ==
  ASSUME NEW S, IsFiniteSet(S), NEW T \in SUBSET S, NEW v, NEW w, \A x \in T : v[x] = w[x],
         NEW g, Sums(v, S, g), NEW h, Sums(w, S, h)
  PROVE  g[T] = h[T]
<1> DEFINE B == {s \in SUBSET T : g[s] # h[s]}
<1> SUFFICES ASSUME B # {} PROVE FALSE
  OBVIOUS
<1>1. IsFiniteSet(T)
  BY FS_Subset
<1>2. PICK s \in B : \A t \in B : ~(Cardinality(t) < Cardinality(s))
  BY <1>1, SmallestSet
<1>3. s \in SUBSET S /\ s \in SUBSET T
  BY <1>2
<1>4. /\ s = {} => g[s] = 0 /\ h[s] = 0
      /\ s # {} => g[s] = v[Pick(s)] + g[s \ {Pick(s)}] /\ h[s] = w[Pick(s)] + h[s \ {Pick(s)}]
  BY <1>3, SumAt
<1>5. s # {} /\ Pick(s) \in s
  BY <1>2, <1>4, PickIsIn
<1>6. s \ {Pick(s)} \in SUBSET T /\ Cardinality(s \ {Pick(s)}) < Cardinality(s)
  BY <1>1, <1>5, WithoutOne
<1>7. g[s \ {Pick(s)}] = h[s \ {Pick(s)}]
  BY <1>2, <1>6
<1>8. v[Pick(s)] = w[Pick(s)]
  BY <1>3, <1>5
<1> QED BY <1>2, <1>4, <1>5, <1>7, <1>8

\* Sums are ordered as what they sum up is.
LEMMA SumsAscend ==
  ASSUME NEW S, IsFiniteSet(S), NEW v, \A x \in S : v[x] \in Int, NEW w, \A x \in S : w[x] \in Int, \A x \in S : v[x] <= w[x],
         NEW g, Sums(v, S, g), NEW h, Sums(w, S, h)
  PROVE  g[S] <= h[S]
<1> DEFINE B == {s \in SUBSET S : ~(g[s] <= h[s])}
<1> SUFFICES ASSUME B # {} PROVE FALSE
  OBVIOUS
<1>1. PICK s \in B : \A t \in B : ~(Cardinality(t) < Cardinality(s))
  BY SmallestSet
<1>2. s \in SUBSET S
  BY <1>1
<1>3. /\ s = {} => g[s] = 0 /\ h[s] = 0
      /\ s # {} => g[s] = v[Pick(s)] + g[s \ {Pick(s)}] /\ h[s] = w[Pick(s)] + h[s \ {Pick(s)}]
  BY <1>2, SumAt
<1>4. s # {} /\ Pick(s) \in s
  BY <1>1, <1>3, PickIsIn
<1>5. s \ {Pick(s)} \in SUBSET S /\ Cardinality(s \ {Pick(s)}) < Cardinality(s)
  BY <1>4, WithoutOne
<1>6. g[s \ {Pick(s)}] <= h[s \ {Pick(s)}]
  BY <1>1, <1>5
<1>7. v[Pick(s)] <= w[Pick(s)] /\ v[Pick(s)] \in Int /\ w[Pick(s)] \in Int
  BY <1>2, <1>4
<1>8. g[s \ {Pick(s)}] \in Int /\ h[s \ {Pick(s)}] \in Int
  BY <1>5, SumIsInt
<1> QED BY <1>1, <1>3, <1>4, <1>6, <1>7, <1>8

\* f gives every element of S a whole number.
Whole(S, f) == \A x \in S : f[x] \in Int

\* e is what a and b add up to, less c and d.
Combines(S, e, a, b, c, d) == \A x \in S : e[x] = a[x] + b[x] - c[x] - d[x]

\* The sum of what is added and subtracted element by element.
LEMMA SumsCombine ==
  ASSUME NEW S, IsFiniteSet(S), NEW a, NEW b, NEW c, NEW d, NEW e,
         Whole(S, a), Whole(S, b), Whole(S, c), Whole(S, d), Whole(S, e), Combines(S, e, a, b, c, d),
         NEW ga, Sums(a, S, ga), NEW gb, Sums(b, S, gb), NEW gc, Sums(c, S, gc), NEW gd, Sums(d, S, gd),
         NEW ge, Sums(e, S, ge)
  PROVE  ge[S] = ga[S] + gb[S] - gc[S] - gd[S]
<1> DEFINE B == {s \in SUBSET S : ge[s] # ga[s] + gb[s] - gc[s] - gd[s]}
<1> SUFFICES ASSUME B # {} PROVE FALSE
  OBVIOUS
<1>1. PICK s \in B : \A t \in B : ~(Cardinality(t) < Cardinality(s))
  BY SmallestSet
<1>2. s \in SUBSET S
  BY <1>1
<1>p. PICK p, r : p = Pick(s) /\ r = s \ {p}
  OBVIOUS
<1>3. /\ s = {} => ga[s] = 0
      /\ s # {} => ga[s] = a[Pick(s)] + ga[s \ {Pick(s)}]
  BY <1>2, SumAt
<1>4. /\ s = {} => gb[s] = 0
      /\ s # {} => gb[s] = b[Pick(s)] + gb[s \ {Pick(s)}]
  BY <1>2, SumAt
<1>5. /\ s = {} => gc[s] = 0
      /\ s # {} => gc[s] = c[Pick(s)] + gc[s \ {Pick(s)}]
  BY <1>2, SumAt
<1>6. /\ s = {} => gd[s] = 0
      /\ s # {} => gd[s] = d[Pick(s)] + gd[s \ {Pick(s)}]
  BY <1>2, SumAt
<1>7. /\ s = {} => ge[s] = 0
      /\ s # {} => ge[s] = e[Pick(s)] + ge[s \ {Pick(s)}]
  BY <1>2, SumAt
<1>8. s # {}
  BY <1>1, <1>3, <1>4, <1>5, <1>6, <1>7
<1>9. p \in s /\ r \in SUBSET S /\ Cardinality(r) < Cardinality(s)
  <2>1. Pick(s) \in s
    BY <1>8, PickIsIn
  <2>2. s \ {Pick(s)} \in SUBSET S /\ Cardinality(s \ {Pick(s)}) < Cardinality(s)
    BY <1>2, <2>1, WithoutOne
  <2> QED BY <1>p, <2>1, <2>2
<1>10. ge[r] = ga[r] + gb[r] - gc[r] - gd[r]
  BY <1>1, <1>9
<1>11. p \in S /\ e[p] = a[p] + b[p] - c[p] - d[p]
  BY <1>2, <1>9 DEF Combines
<1>12. a[p] \in Int /\ b[p] \in Int /\ c[p] \in Int /\ d[p] \in Int
  BY <1>11 DEF Whole
<1>13. ga[r] \in Int /\ gb[r] \in Int /\ gc[r] \in Int /\ gd[r] \in Int
  <2>1. ga[r] \in Int
    BY <1>9, SumIsInt DEF Whole
  <2>2. gb[r] \in Int
    BY <1>9, SumIsInt DEF Whole
  <2>3. gc[r] \in Int
    BY <1>9, SumIsInt DEF Whole
  <2>4. gd[r] \in Int
    BY <1>9, SumIsInt DEF Whole
  <2> QED BY <2>1, <2>2, <2>3, <2>4
<1>14. ge[s] = ga[s] + gb[s] - gc[s] - gd[s]
  <2>1. ga[s] = a[p] + ga[r] /\ gb[s] = b[p] + gb[r] /\ gc[s] = c[p] + gc[r] /\ gd[s] = d[p] + gd[r] /\ ge[s] = e[p] + ge[r]
    BY <1>p, <1>3, <1>4, <1>5, <1>6, <1>7, <1>8
  <2> QED BY <1>10, <1>11, <1>12, <1>13, <2>1
<1> QED BY <1>1, <1>14

-----------------------------------------------------------------------------
(* Total.                                                                  *)

\* f is about the elements of S, and gives each a whole number.
Numbers(f, S) == f \in [S -> Int]

\* Total(f) is what one sum over the domain of f computes.
LEMMA TotalIsSum ==
  ASSUME NEW f, IsFiniteSet(DOMAIN f)
  PROVE  \E g : Sums(f, DOMAIN f, g) /\ Total(f) = g[DOMAIN f]
<1>1. Total(f) = (CHOOSE g : Sums(f, DOMAIN f, g))[DOMAIN f]
  BY DEF Total, FoldFunction, FoldFunctionOnSet, MapThenFoldSet, Sums, Pick
<1>2. \E g : Sums(f, DOMAIN f, g)
  BY SumExists
<1> QED BY <1>1, <1>2

LEMMA TotalIsInt ==
  ASSUME NEW S, IsFiniteSet(S), NEW f, Numbers(f, S)
  PROVE  Total(f) \in Int
<1>1. DOMAIN f = S
  BY DEF Numbers
<1>2. PICK g : Sums(f, S, g) /\ Total(f) = g[S]
  BY <1>1, TotalIsSum
<1>3. \A x \in S : f[x] \in Int
  BY DEF Numbers
<1> QED BY <1>2, <1>3, SumIsInt

LEMMA TotalsAscend ==
  ASSUME NEW S, IsFiniteSet(S), NEW v, Numbers(v, S), NEW w, Numbers(w, S), \A x \in S : v[x] <= w[x]
  PROVE  Total(v) <= Total(w)
<1>1. DOMAIN v = S /\ DOMAIN w = S
  BY DEF Numbers
<1>2. PICK g : Sums(v, S, g) /\ Total(v) = g[S]
  BY <1>1, TotalIsSum
<1>3. PICK h : Sums(w, S, h) /\ Total(w) = h[S]
  BY <1>1, TotalIsSum
<1>4. \A x \in S : v[x] \in Int /\ w[x] \in Int
  BY DEF Numbers
<1> QED BY <1>2, <1>3, <1>4, SumsAscend

LEMMA TotalsCombine ==
  ASSUME NEW S, IsFiniteSet(S), NEW a, Numbers(a, S), NEW b, Numbers(b, S), NEW c, Numbers(c, S),
         NEW d, Numbers(d, S), NEW e, Numbers(e, S), Combines(S, e, a, b, c, d)
  PROVE  Total(e) = Total(a) + Total(b) - Total(c) - Total(d)
<1>1. DOMAIN a = S /\ DOMAIN b = S /\ DOMAIN c = S /\ DOMAIN d = S /\ DOMAIN e = S
  BY DEF Numbers
<1>2. PICK ga : Sums(a, S, ga) /\ Total(a) = ga[S]
  BY <1>1, TotalIsSum
<1>3. PICK gb : Sums(b, S, gb) /\ Total(b) = gb[S]
  BY <1>1, TotalIsSum
<1>4. PICK gc : Sums(c, S, gc) /\ Total(c) = gc[S]
  BY <1>1, TotalIsSum
<1>5. PICK gd : Sums(d, S, gd) /\ Total(d) = gd[S]
  BY <1>1, TotalIsSum
<1>6. PICK ge : Sums(e, S, ge) /\ Total(e) = ge[S]
  BY <1>1, TotalIsSum
<1>7. ge[S] = ga[S] + gb[S] - gc[S] - gd[S]
  <2>1. Whole(S, a) /\ Whole(S, b) /\ Whole(S, c) /\ Whole(S, d) /\ Whole(S, e)
    BY DEF Numbers, Whole
  <2> QED BY <1>2, <1>3, <1>4, <1>5, <1>6, <2>1, SumsCombine
<1> QED BY <1>2, <1>3, <1>4, <1>5, <1>6, <1>7

LEMMA TotalOfNothing ==
  ASSUME NEW S, IsFiniteSet(S), NEW z, Numbers(z, S), \A x \in S : z[x] = 0
  PROVE  Total(z) = 0
<1>4. DOMAIN z = S
  BY DEF Numbers
<1>5. PICK g : Sums(z, S, g) /\ Total(z) = g[S]
  BY <1>4, TotalIsSum
<1>3. \A x \in S : z[x] = 0
  OBVIOUS
<1> DEFINE B == {s \in SUBSET S : g[s] # 0}
<1> SUFFICES ASSUME B # {} PROVE FALSE
  BY <1>5
<1>6. PICK s \in B : \A t \in B : ~(Cardinality(t) < Cardinality(s))
  BY SmallestSet
<1>7. s \in SUBSET S
  BY <1>6
<1>8. /\ s = {} => g[s] = 0
      /\ s # {} => g[s] = z[Pick(s)] + g[s \ {Pick(s)}]
  <2>1. Sums(z, S, g)
    BY <1>5
  <2> QED BY <1>7, <2>1, SumAt
<1>9. s # {} /\ Pick(s) \in s
  BY <1>6, <1>8, PickIsIn
<1>10. g[s \ {Pick(s)}] = 0
  BY <1>6, <1>7, <1>9, WithoutOne
<1> QED BY <1>6, <1>7, <1>8, <1>9, <1>10

\* One element changes.
LEMMA TotalChanges ==
  ASSUME NEW S, IsFiniteSet(S), NEW f, Numbers(f, S), NEW i \in S, NEW x \in Int
  PROVE  Total([f EXCEPT ![i] = x]) = Total(f) - f[i] + x
<1>0. PICK h : h = [f EXCEPT ![i] = x]
  OBVIOUS
<1>1. Numbers(h, S) /\ h[i] = x /\ \A y \in S \ {i} : h[y] = f[y]
  BY <1>0 DEF Numbers
<1>2. DOMAIN f = S /\ DOMAIN h = S
  BY <1>1 DEF Numbers
<1>3. PICK g : Sums(f, S, g) /\ Total(f) = g[S]
  BY <1>2, TotalIsSum
<1>4. PICK k : Sums(h, S, k) /\ Total(h) = k[S]
  BY <1>2, TotalIsSum
<1>5. S \ {i} \in SUBSET S /\ S \in SUBSET S
  OBVIOUS
<1>p. PICK R : R = S \ {i}
  OBVIOUS
<1>6. k[S \ {i}] = g[S \ {i}]
  <2>1. R \in SUBSET S /\ \A y \in R : h[y] = f[y]
    BY <1>1, <1>p
  <2>2. Sums(f, S, g) /\ Sums(h, S, k)
    BY <1>3, <1>4
  <2>3. k[R] = g[R]
    BY <2>1, <2>2, SumsAgree
  <2> QED BY <1>p, <2>3
<1>7. g[S] = f[i] + g[S \ {i}] /\ k[S] = h[i] + k[S \ {i}]
  <2>1. \A y \in S : f[y] \in Int
    BY DEF Numbers
  <2>2. \A y \in S : h[y] \in Int
    BY <1>1 DEF Numbers
  <2>3. g[S] = f[i] + g[S \ {i}]
    BY <1>3, <1>5, <2>1, SumFrom
  <2>4. k[S] = h[i] + k[S \ {i}]
    BY <1>4, <1>5, <2>2, SumFrom
  <2> QED BY <2>3, <2>4
<1>8. g[S \ {i}] \in Int /\ f[i] \in Int
  <2>1. \A y \in S : f[y] \in Int
    BY DEF Numbers
  <2> QED BY <1>3, <1>5, <2>1, SumIsInt
<1> QED BY <1>0, <1>1, <1>3, <1>4, <1>6, <1>7, <1>8

-----------------------------------------------------------------------------
(* The order of the tranches.                                              *)

\* Where a tranche stands: how many precede it.
Rank(case) == [i \in Loans(case) |-> Cardinality(Preceding(case, i))]

LEMMA CaseIs ==
  ASSUME NEW case, WellFormed(case)
  PROVE  /\ case.tranches \in Seq(Loan) /\ case.ebitda \in Seq(Int)
         /\ Len(case.ebitda) \in Nat \ {0} /\ Periods(case) = 1..Len(case.ebitda)
         /\ case.da \in [Periods(case) -> Int] /\ case.capex \in [Periods(case) -> Int]
         /\ case.nwc \in [Periods(case) -> Int]
         /\ case.minimum_cash \in Nat /\ case.sweep \in Percent /\ case.tax \in Percent
         /\ case.base \in Int /\ case.exit_multiple \in Int
<1>1. case \in Terms
  BY DEF WellFormed
<1>2. /\ case.tranches \in Seq(Loan) /\ case.ebitda \in Seq(Int) /\ case.da \in Seq(Int) /\ case.capex \in Seq(Int)
      /\ case.nwc \in Seq(Int) /\ case.minimum_cash \in Nat /\ case.sweep \in Percent /\ case.tax \in Percent
      /\ case.base \in Int /\ case.exit_multiple \in Int
  <2>1. /\ case.tranches \in Seq(Loan) /\ case.ebitda \in Seq(Int) /\ case.da \in Seq(Int) /\ case.capex \in Seq(Int)
        /\ case.nwc \in Seq(Int) /\ case.minimum_cash \in Nat /\ case.sweep \in Percent /\ case.tax \in Percent
    BY <1>1 DEF Terms
  <2>2. case.base \in BaseRate /\ case.exit_multiple \in Nat
    BY <1>1 DEF Terms
  <2>3. case.base \in Int /\ case.exit_multiple \in Int
    BY <2>2 DEF BaseRate
  <2> QED BY <2>1, <2>3
<1>3. Len(case.ebitda) \in Nat \ {0} /\ Periods(case) = 1..Len(case.ebitda)
  <2>1. case.ebitda # <<>>
    BY DEF WellFormed
  <2> QED BY <1>2, <2>1 DEF Periods
<1>4. ASSUME NEW plan \in {case.da, case.capex, case.nwc} PROVE plan \in [Periods(case) -> Int]
  <2>1. plan \in Seq(Int) /\ DOMAIN plan = Periods(case)
    BY <1>2 DEF WellFormed
  <2> QED BY <2>1
<1> QED BY <1>2, <1>3, <1>4

LEMMA LoansAreFinite ==
  ASSUME NEW case, WellFormed(case)
  PROVE  /\ Len(case.tranches) \in Nat /\ Loans(case) = 1..Len(case.tranches)
         /\ IsFiniteSet(Loans(case)) /\ Cardinality(Loans(case)) = Len(case.tranches)
         /\ \A i \in Loans(case) : case.tranches[i] \in Loan
<1>1. case.tranches \in Seq(Loan)
  BY CaseIs
<1>2. /\ Len(case.tranches) \in Nat /\ Loans(case) = 1..Len(case.tranches)
      /\ \A i \in Loans(case) : case.tranches[i] \in Loan
  BY <1>1 DEF Loans
<1> QED BY <1>2, FS_Interval

LEMMA PrecedesOrders ==
  ASSUME NEW case, WellFormed(case), NEW i \in Loans(case), NEW j \in Loans(case)
  PROVE  /\ Precedes(case, i, j) \/ Precedes(case, j, i) \/ i = j
         /\ ~Precedes(case, i, i)
         /\ \A k \in Loans(case) : Precedes(case, i, j) /\ Precedes(case, k, i) => Precedes(case, k, j)
<1>1. i \in Nat /\ j \in Nat /\ \A k \in Loans(case) : k \in Nat
  BY LoansAreFinite
<1>2. \A k \in Loans(case) : case.tranches[k].priority \in Nat
  BY LoansAreFinite DEF Loan
<1> QED BY <1>1, <1>2 DEF Precedes

\* Who is preceded by more comes later, and each place is taken by one.
LEMMA RankOrders ==
  ASSUME NEW case, WellFormed(case)
  PROVE  /\ \A i \in Loans(case) : Rank(case)[i] \in 0..(Len(case.tranches) - 1)
         /\ \A i, j \in Loans(case) : Precedes(case, i, j) => Rank(case)[i] < Rank(case)[j]
         /\ \A i, j \in Loans(case) : Rank(case)[i] = Rank(case)[j] => i = j
         /\ \A k \in 0..(Len(case.tranches) - 1) : \E i \in Loans(case) : Rank(case)[i] = k
<1> DEFINE n == Len(case.tranches)
<1>1. n \in Nat /\ IsFiniteSet(Loans(case)) /\ Cardinality(Loans(case)) = n
  BY LoansAreFinite
<1>2. ASSUME NEW i \in Loans(case)
      PROVE  /\ IsFiniteSet(Preceding(case, i)) /\ Cardinality(Preceding(case, i)) \in Nat
             /\ Cardinality(Preceding(case, i)) < n
  <2>1. Preceding(case, i) \in SUBSET Loans(case) /\ i \notin Preceding(case, i)
    BY PrecedesOrders DEF Preceding
  <2>2. Cardinality(Preceding(case, i)) <= Cardinality(Loans(case)) /\ IsFiniteSet(Preceding(case, i))
        /\ (Cardinality(Loans(case)) = Cardinality(Preceding(case, i)) => Loans(case) = Preceding(case, i))
    BY <1>1, <2>1, FS_Subset
  <2>3. Cardinality(Preceding(case, i)) \in Nat
    BY <2>2, FS_CardinalityType
  <2> QED BY <1>1, <2>1, <2>2, <2>3
<1>3. ASSUME NEW i \in Loans(case), NEW j \in Loans(case), Precedes(case, i, j)
      PROVE  Cardinality(Preceding(case, i)) < Cardinality(Preceding(case, j))
  <2>1. Preceding(case, i) \in SUBSET Preceding(case, j)
    BY <1>3, PrecedesOrders DEF Preceding
  <2>2. i \in Preceding(case, j) /\ i \notin Preceding(case, i)
    BY <1>3, PrecedesOrders DEF Preceding
  <2>3. Cardinality(Preceding(case, i)) <= Cardinality(Preceding(case, j))
        /\ (Cardinality(Preceding(case, j)) = Cardinality(Preceding(case, i)) => Preceding(case, j) = Preceding(case, i))
    BY <1>2, <2>1, FS_Subset
  <2> QED BY <1>2, <2>2, <2>3
<1>4. \A i \in Loans(case) : Rank(case)[i] = Cardinality(Preceding(case, i))
  BY DEF Rank
<1>5. \A i \in Loans(case) : Rank(case)[i] \in 0..(n - 1)
  BY <1>1, <1>2, <1>4
<1>6. \A i, j \in Loans(case) : Precedes(case, i, j) => Rank(case)[i] < Rank(case)[j]
  BY <1>3, <1>4
<1>7. \A i, j \in Loans(case) : Rank(case)[i] = Rank(case)[j] => i = j
  <2> SUFFICES ASSUME NEW i \in Loans(case), NEW j \in Loans(case), Rank(case)[i] = Rank(case)[j] PROVE i = j
    OBVIOUS
  <2>1. ~Precedes(case, i, j) /\ ~Precedes(case, j, i)
    BY <1>5, <1>6
  <2> QED BY <2>1, PrecedesOrders
<1>8. \A k \in 0..(n - 1) : \E i \in Loans(case) : Rank(case)[i] = k
  <2>1. Rank(case) \in Injection(Loans(case), 0..(n - 1))
    <3>1. Rank(case) \in [Loans(case) -> 0..(n - 1)]
      BY <1>5 DEF Rank
    <3> QED BY <1>7, <3>1 DEF Injection, IsInjective
  <2>2. IsFiniteSet(0..(n - 1)) /\ Cardinality(0..(n - 1)) = n
    <3> HIDE DEF n
    <3>1. 0 \in Int /\ n - 1 \in Int
      BY <1>1
    <3>2. IsFiniteSet(0..(n - 1)) /\ Cardinality(0..(n - 1)) = IF 0 > n - 1 THEN 0 ELSE (n - 1) - 0 + 1
      BY <3>1, FS_Interval
    <3> QED BY <1>1, <3>2
  <2>3. Rank(case) \in Surjection(Loans(case), 0..(n - 1))
    BY <1>1, <2>1, <2>2, FS_Injection
  <2> QED BY <2>3 DEF Surjection
<1> QED BY <1>5, <1>6, <1>7, <1>8

\* The order names every tranche once, those of a better priority first.
LEMMA OrderIsTotal ==
  ASSUME NEW case, WellFormed(case), NEW n, n = Len(case.tranches), NEW order, order = ByPriority(case)
  PROVE  /\ DOMAIN order = 1..n /\ \A k \in 1..n : order[k] \in Loans(case)
         /\ \A j, k \in 1..n : order[j] = order[k] => j = k
         /\ \A i \in Loans(case) : \E k \in 1..n : order[k] = i
         /\ \A j, k \in 1..n : Precedes(case, order[j], order[k]) => j < k
<1>1. n \in Nat /\ Loans(case) = 1..n /\ \A i \in Loans(case) : case.tranches[i] \in Loan
  BY LoansAreFinite
<1>2. /\ \A i \in Loans(case) : Rank(case)[i] \in 0..(n - 1)
      /\ \A i, j \in Loans(case) : Precedes(case, i, j) => Rank(case)[i] < Rank(case)[j]
      /\ \A i, j \in Loans(case) : Rank(case)[i] = Rank(case)[j] => i = j
      /\ \A k \in 0..(n - 1) : \E i \in Loans(case) : Rank(case)[i] = k
  BY RankOrders
<1>3. order = [k \in Loans(case) |-> CHOOSE i \in Loans(case) : Rank(case)[i] = k - 1]
  BY DEF ByPriority, Rank
<1>4. ASSUME NEW k \in 1..n PROVE order[k] \in Loans(case) /\ Rank(case)[order[k]] = k - 1
  <2>1. k - 1 \in 0..(n - 1)
    BY <1>1
  <2>2. \E i \in Loans(case) : Rank(case)[i] = k - 1
    BY <1>2, <2>1
  <2>3. order[k] = CHOOSE i \in Loans(case) : Rank(case)[i] = k - 1
    BY <1>1, <1>3
  <2> QED BY <2>2, <2>3
<1>5. \A j, k \in 1..n : order[j] = order[k] => j = k
  BY <1>1, <1>4
<1>6. ASSUME NEW i \in Loans(case) PROVE \E k \in 1..n : order[k] = i
  <2>1. Rank(case)[i] + 1 \in 1..n
    BY <1>1, <1>2
  <2>2. Rank(case)[order[Rank(case)[i] + 1]] = Rank(case)[i]
    BY <1>2, <1>4, <2>1
  <2>3. order[Rank(case)[i] + 1] = i
    BY <1>2, <1>4, <2>1, <2>2
  <2> QED BY <2>1, <2>3
<1>7. ASSUME NEW j \in 1..n, NEW k \in 1..n, Precedes(case, order[j], order[k])
      PROVE  j < k
  <2>1. Rank(case)[order[j]] < Rank(case)[order[k]]
    BY <1>2, <1>4, <1>7
  <2> QED BY <1>1, <1>4, <2>1
<1>8. DOMAIN order = 1..n
  BY <1>1, <1>3
<1> QED BY <1>4, <1>5, <1>6, <1>7, <1>8

-----------------------------------------------------------------------------
(* What a fold over a sequence passes through.  FoldLeft is a function of  *)
(* the set of positions that remain, the last one taken off first; read    *)
(* from the other end it is a run from one state to the next.              *)

DrawVisit(case, debt, f, i) ==
  LET amount == Least(Room(case.tranches[i], debt[i]), f.left)
  IN [f EXCEPT !.cash = @ + amount, !.left = @ - amount, !.draw[i] = amount]

PayVisit(debt, f, i) ==
  LET amount == Least(debt[i].required, Positive(f.cash))
  IN [f EXCEPT !.cash = @ - amount, !.paid[i] = amount]

SweepVisit(case, debt, f, i) ==
  LET amount == Least(Balance(debt, f, i), f.left)
  IN IF case.tranches[i].eligible
     THEN [f EXCEPT !.cash = @ - amount, !.left = @ - amount, !.sweep[i] = amount]
     ELSE f

NextYear(case, period, amount, s, p) ==
  LET row == PeriodRow(case, p, s.cash, s.balance, IF p = period THEN amount ELSE 0)
  IN [cash |-> row.cash, balance |-> row.ending, rows |-> Append(s.rows, row)]

\* One of the four steps, at position k.
Step(K, f, k) ==
  CASE K.of = "draw" -> DrawVisit(K.case, K.debt, f, ByPriority(K.case)[k])
    [] K.of = "pay" -> PayVisit(K.debt, f, ByPriority(K.case)[k])
    [] K.of = "sweep" -> SweepVisit(K.case, K.debt, f, ByPriority(K.case)[k])
    [] K.of = "year" -> NextYear(K.case, K.period, K.amount, f, k)

Runs(K, base, n, c) == c[0] = base /\ \A k \in 1..n : c[k] = Step(K, c[k - 1], k)

Folds(K, base, n, g) ==
  g = [s \in SUBSET (1..n) |-> IF s = {} THEN base ELSE Step(K, g[s \ {Max(s)}], Max(s))]

LEMMA MaxIsGreatest ==
  ASSUME NEW n \in Nat, NEW S, S \subseteq 1..n, S # {}
  PROVE  Max(S) \in S /\ \A y \in S : Max(S) >= y
<1> DEFINE T == {k \in Nat : n - k \in S}
<1>1. ASSUME NEW y \in S PROVE n - y \in T
  <2>1. y \in 1..n
    OBVIOUS
  <2>2. n - y \in Nat /\ n - (n - y) = y
    BY <2>1
  <2> QED BY <2>2
<1>2. T \subseteq Nat /\ T # {}
  BY <1>1
<1> HIDE DEF T
<1>3. PICK k \in T : \A j \in T : k <= j
  BY <1>2, LeastNatural
<1>4. n - k \in S /\ k \in Nat
  BY DEF T
<1>5. ASSUME NEW y \in S PROVE n - k >= y
  <2>1. y \in 1..n /\ k <= n - y
    BY <1>1, <1>3
  <2> QED BY <2>1, <1>4
<1>6. \E m \in S : \A y \in S : m >= y
  BY <1>4, <1>5
<1> QED BY <1>6 DEF Max

LEMMA LastPosition ==
  ASSUME NEW n \in Nat, NEW k \in 1..n
  PROVE  1..k \in SUBSET (1..n) /\ 1..k # {} /\ Max(1..k) = k /\ (1..k) \ {k} = 1..(k - 1)
<1>1. k \in Nat /\ 1..k \subseteq 1..n /\ k \in 1..k
  OBVIOUS
<1>2. Max(1..k) \in 1..k /\ \A y \in 1..k : Max(1..k) >= y
  <2>1. 1..k # {} /\ 1..k \subseteq 1..k
    BY <1>1
  <2> QED BY <1>1, <2>1, MaxIsGreatest
<1>3. Max(1..k) = k
  BY <1>1, <1>2
<1> QED BY <1>1, <1>3

LEMMA WithoutLast ==
  ASSUME NEW n \in Nat, NEW s, s \in SUBSET (1..n), s # {}
  PROVE  s \ {Max(s)} \in SUBSET (1..n) /\ Cardinality(s) \in Nat /\ Cardinality(s \ {Max(s)}) = Cardinality(s) - 1
<1>1. PICK m : m = Max(s)
  OBVIOUS
<1>2. m \in s
  BY <1>1, MaxIsGreatest
<1>3. IsFiniteSet(s)
  <2>1. IsFiniteSet(1..n)
    BY FS_Interval
  <2> QED BY <2>1, FS_Subset
<1>4. Cardinality(s \ {m}) = Cardinality(s) - 1
  BY <1>2, <1>3, FS_RemoveElement
<1> QED BY <1>1, <1>3, <1>4, FS_CardinalityType

\* The folds over subsets of up to k positions.
FoldsUpTo(K, base, n, k, h) ==
  h = [s \in UpTo(1..n, k) |-> IF s = {} THEN base ELSE Step(K, h[s \ {Max(s)}], Max(s))]

LEMMA FoldExists ==
  ASSUME NEW K, NEW base, NEW n \in Nat
  PROVE  \E g : Folds(K, base, n, g)
<1>s. PICK S : S = 1..n
  OBVIOUS
<1>0. IsFiniteSet(S) /\ S \subseteq 1..n
  BY <1>s, FS_Interval
<1> DEFINE B == {k \in Nat : ~\E h : FoldsUpTo(K, base, n, k, h)}
<1>1. \A t \in SUBSET S : Cardinality(t) \in Nat /\ (Cardinality(t) = 0 <=> t = {}) /\ Cardinality(t) <= Cardinality(S)
  BY <1>0, FS_Subset, FS_CardinalityType, FS_EmptySet
<1>2. 0 \notin B
  <2> DEFINE h == [s \in UpTo(S, 0) |-> base]
  <2>1. \A s \in UpTo(S, 0) : s = {}
    BY <1>1 DEF UpTo
  <2>2. h = [s \in UpTo(S, 0) |-> IF s = {} THEN base ELSE Step(K, h[s \ {Max(s)}], Max(s))]
    BY <2>1
  <2>3. FoldsUpTo(K, base, n, 0, h)
    BY <1>s, <2>2 DEF FoldsUpTo
  <2> QED BY <2>3
<1>3. ASSUME NEW k \in Nat, k \notin B PROVE k + 1 \notin B
  <2>1. PICK h : FoldsUpTo(K, base, n, k, h)
    BY <1>3
  <2> DEFINE more == [s \in UpTo(S, k + 1) |-> IF s = {} THEN base ELSE Step(K, h[s \ {Max(s)}], Max(s))]
  <2>2. ASSUME NEW s \in UpTo(S, k + 1), s # {} PROVE s \ {Max(s)} \in UpTo(S, k) /\ s \ {Max(s)} \in UpTo(S, k + 1)
    <3>1. s \in SUBSET S /\ Cardinality(s) <= k + 1
      BY DEF UpTo
    <3>3. s \in SUBSET (1..n)
      BY <1>0, <3>1
    <3>2. s \ {Max(s)} \in SUBSET S /\ Cardinality(s) \in Nat /\ Cardinality(s \ {Max(s)}) = Cardinality(s) - 1
      BY <1>s, <2>2, <3>3, WithoutLast
    <3>4. Cardinality(s \ {Max(s)}) <= k /\ Cardinality(s \ {Max(s)}) <= k + 1
      BY <3>1, <3>2
    <3> QED BY <3>2, <3>4 DEF UpTo
  <2>3. ASSUME NEW s \in UpTo(S, k) PROVE more[s] = h[s]
    <3>1. s \in UpTo(S, k + 1)
      <4>1. Cardinality(s) \in Nat /\ Cardinality(s) <= k
        BY <1>1 DEF UpTo
      <4>2. Cardinality(s) <= k + 1
        BY <4>1
      <4> QED BY <4>2 DEF UpTo
    <3>2. h[s] = IF s = {} THEN base ELSE Step(K, h[s \ {Max(s)}], Max(s))
      <4>1. h = [t \in UpTo(S, k) |-> IF t = {} THEN base ELSE Step(K, h[t \ {Max(t)}], Max(t))]
        BY <1>s, <2>1 DEF FoldsUpTo
      <4> QED BY <4>1
    <3> QED BY <3>1, <3>2
  <2>4. ASSUME NEW s \in UpTo(S, k + 1)
        PROVE  (IF s = {} THEN base ELSE Step(K, h[s \ {Max(s)}], Max(s)))
                 = (IF s = {} THEN base ELSE Step(K, more[s \ {Max(s)}], Max(s)))
    <3>1. CASE s = {} BY <3>1
    <3>2. CASE s # {}
      <4>1. more[s \ {Max(s)}] = h[s \ {Max(s)}]
        BY <2>2, <2>3, <3>2
      <4> QED BY <3>2, <4>1
    <3> QED BY <3>1, <3>2
  <2>5. more = [s \in UpTo(S, k + 1) |-> IF s = {} THEN base ELSE Step(K, more[s \ {Max(s)}], Max(s))]
    BY <2>4
  <2> HIDE DEF more
  <2>6. FoldsUpTo(K, base, n, k + 1, more)
    BY <1>s, <2>5 DEF FoldsUpTo
  <2> QED BY <2>6
<1>4. B = {}
  <2> SUFFICES ASSUME B # {} PROVE FALSE
    OBVIOUS
  <2>1. PICK k \in B : \A j \in B : k <= j
    BY LeastNatural
  <2> HIDE DEF B
  <2>2. k \in Nat /\ k # 0
    BY <1>2, <2>1 DEF B
  <2>3. k - 1 \in Nat /\ k - 1 \notin B
    BY <2>1, <2>2
  <2>4. (k - 1) + 1 \notin B
    BY <1>3, <2>3
  <2> QED BY <2>1, <2>2, <2>4
<1>5. UpTo(S, Cardinality(S)) = SUBSET S /\ Cardinality(S) \in Nat
  BY <1>0, <1>1, FS_CardinalityType DEF UpTo
<1>6. PICK g : FoldsUpTo(K, base, n, Cardinality(S), g)
  BY <1>4, <1>5
<1> QED BY <1>s, <1>5, <1>6 DEF FoldsUpTo, Folds

LEMMA FoldRuns ==
  ASSUME NEW K, NEW base, NEW n \in Nat, NEW g, Folds(K, base, n, g)
  PROVE  \E c : Runs(K, base, n, c) /\ c[n] = g[1..n]
<1> DEFINE c == [k \in 0..n |-> g[1..k]]
<1>1. g = [s \in SUBSET (1..n) |-> IF s = {} THEN base ELSE Step(K, g[s \ {Max(s)}], Max(s))]
  BY DEF Folds
<1>2. c[0] = base
  <2>1. 1..0 = {} /\ {} \in SUBSET (1..n) /\ 0 \in 0..n
    OBVIOUS
  <2>2. g[{}] = base
    BY <1>1, <2>1
  <2> QED BY <2>1, <2>2
<1>3. ASSUME NEW k \in 1..n PROVE c[k] = Step(K, c[k - 1], k)
  <2>1. 1..k \in SUBSET (1..n) /\ 1..k # {} /\ Max(1..k) = k /\ (1..k) \ {k} = 1..(k - 1)
    BY LastPosition
  <2>2. g[1..k] = Step(K, g[1..(k - 1)], k)
    BY <1>1, <2>1
  <2>3. k \in 0..n /\ k - 1 \in 0..n
    OBVIOUS
  <2> QED BY <2>2, <2>3
<1>4. c[n] = g[1..n]
  OBVIOUS
<1> HIDE DEF c
<1> QED BY <1>2, <1>3, <1>4 DEF Runs

DrawStart(case, debt, flow) == [flow EXCEPT !.left = Positive(case.minimum_cash + Required(debt) - flow.cash)]
SweepStart(case, flow) == [flow EXCEPT !.left = Share(Positive(flow.cash - case.minimum_cash), case.sweep)]
YearStart(case) ==
  [cash |-> case.minimum_cash, balance |-> [i \in Loans(case) |-> case.tranches[i].initial], rows |-> <<>>]

\* The folds of the model, as FoldLeft expands to them.
DrawFold(case, debt, base, g) ==
  g = [s \in SUBSET DOMAIN ByPriority(case) |->
         IF s = {} THEN base ELSE DrawVisit(case, debt, g[s \ {Max(s)}], ByPriority(case)[Max(s)])]
PayFold(case, debt, base, g) ==
  g = [s \in SUBSET DOMAIN ByPriority(case) |->
         IF s = {} THEN base ELSE PayVisit(debt, g[s \ {Max(s)}], ByPriority(case)[Max(s)])]
SweepFold(case, debt, base, g) ==
  g = [s \in SUBSET DOMAIN ByPriority(case) |->
         IF s = {} THEN base ELSE SweepVisit(case, debt, g[s \ {Max(s)}], ByPriority(case)[Max(s)])]
YearFold(case, period, amount, base, g) ==
  g = [s \in SUBSET DOMAIN [p \in Periods(case) |-> p] |->
         IF s = {} THEN base ELSE NextYear(case, period, amount, g[s \ {Max(s)}], [p \in Periods(case) |-> p][Max(s)])]

LEMMA FoldsOfTheModel ==
  /\ \A case, debt, flow : Draw(case, debt, flow) =
       (CHOOSE g : DrawFold(case, debt, DrawStart(case, debt, flow), g))[DOMAIN ByPriority(case)]
  /\ \A case, debt, flow : Pay(case, debt, flow) =
       (CHOOSE g : PayFold(case, debt, flow, g))[DOMAIN ByPriority(case)]
  /\ \A case, debt, flow : Sweep(case, debt, flow) =
       (CHOOSE g : SweepFold(case, debt, SweepStart(case, flow), g))[DOMAIN ByPriority(case)]
  /\ \A case, period, amount : Projection(case, period, amount) =
       (CHOOSE g : YearFold(case, period, amount, YearStart(case), g))[DOMAIN [p \in Periods(case) |-> p]].rows
<1>1. \A case, debt, flow : Draw(case, debt, flow) =
        (CHOOSE g : DrawFold(case, debt, DrawStart(case, debt, flow), g))[DOMAIN ByPriority(case)]
  BY DEF Draw, FoldLeft, MapThenFoldSet, DrawFold, DrawStart, DrawVisit
<1>2. \A case, debt, flow : Pay(case, debt, flow) =
        (CHOOSE g : PayFold(case, debt, flow, g))[DOMAIN ByPriority(case)]
  BY DEF Pay, FoldLeft, MapThenFoldSet, PayFold, PayVisit
<1>3. \A case, debt, flow : Sweep(case, debt, flow) =
        (CHOOSE g : SweepFold(case, debt, SweepStart(case, flow), g))[DOMAIN ByPriority(case)]
  BY DEF Sweep, FoldLeft, MapThenFoldSet, SweepFold, SweepStart, SweepVisit
<1>4. \A case, period, amount : Projection(case, period, amount) =
        (CHOOSE g : YearFold(case, period, amount, YearStart(case), g))[DOMAIN [p \in Periods(case) |-> p]].rows
  BY DEF Projection, FoldLeft, MapThenFoldSet, YearFold, YearStart, NextYear
<1> QED BY <1>1, <1>2, <1>3, <1>4

\* Each is a run through the order of the tranches.
LEMMA DrawRuns ==
  ASSUME NEW case, WellFormed(case), NEW debt, NEW flow, NEW n, n = Len(case.tranches)
  PROVE  \E c : /\ c[0] = DrawStart(case, debt, flow) /\ c[n] = Draw(case, debt, flow)
                /\ \A k \in 1..n : c[k] = DrawVisit(case, debt, c[k - 1], ByPriority(case)[k])
<1>k. PICK K, base : K = [of |-> "draw", case |-> case, debt |-> debt] /\ base = DrawStart(case, debt, flow)
  OBVIOUS
<1>1. n \in Nat /\ DOMAIN ByPriority(case) = 1..n
  BY LoansAreFinite, OrderIsTotal
<1>2. \A f, k : Step(K, f, k) = DrawVisit(case, debt, f, ByPriority(case)[k])
  BY <1>k DEF Step
<1>3. ASSUME NEW g PROVE DrawFold(case, debt, base, g) <=> Folds(K, base, n, g)
  <2> DEFINE F == [s \in SUBSET (1..n) |->
                     IF s = {} THEN base ELSE DrawVisit(case, debt, g[s \ {Max(s)}], ByPriority(case)[Max(s)])]
             G == [s \in SUBSET (1..n) |-> IF s = {} THEN base ELSE Step(K, g[s \ {Max(s)}], Max(s))]
  <2>1. F = G
    BY <1>2
  <2>2. DrawFold(case, debt, base, g) <=> g = F
    BY <1>1 DEF DrawFold
  <2>3. Folds(K, base, n, g) <=> g = G
    BY DEF Folds
  <2> QED BY <2>1, <2>2, <2>3
<1>4. \E g : DrawFold(case, debt, base, g)
  BY <1>1, <1>3, FoldExists
<1>5. PICK g : g = CHOOSE h : DrawFold(case, debt, base, h)
  OBVIOUS
<1>6. DrawFold(case, debt, base, g)
  BY <1>4, <1>5
<1>7. PICK c : Runs(K, base, n, c) /\ c[n] = g[1..n]
  BY <1>1, <1>3, <1>6, FoldRuns
<1>8. Draw(case, debt, flow) = g[1..n]
  BY <1>k, <1>1, <1>5, FoldsOfTheModel
<1>9. c[0] = base /\ \A k \in 1..n : c[k] = DrawVisit(case, debt, c[k - 1], ByPriority(case)[k])
  BY <1>1, <1>2, <1>7 DEF Runs
<1> QED BY <1>k, <1>7, <1>8, <1>9

LEMMA PayRuns ==
  ASSUME NEW case, WellFormed(case), NEW debt, NEW flow, NEW n, n = Len(case.tranches)
  PROVE  \E c : /\ c[0] = flow /\ c[n] = Pay(case, debt, flow)
                /\ \A k \in 1..n : c[k] = PayVisit(debt, c[k - 1], ByPriority(case)[k])
<1>k. PICK K, base : K = [of |-> "pay", case |-> case, debt |-> debt] /\ base = flow
  OBVIOUS
<1>1. n \in Nat /\ DOMAIN ByPriority(case) = 1..n
  BY LoansAreFinite, OrderIsTotal
<1>2. \A f, k : Step(K, f, k) = PayVisit(debt, f, ByPriority(case)[k])
  BY <1>k DEF Step
<1>3. ASSUME NEW g PROVE PayFold(case, debt, base, g) <=> Folds(K, base, n, g)
  <2> DEFINE F == [s \in SUBSET (1..n) |->
                     IF s = {} THEN base ELSE PayVisit(debt, g[s \ {Max(s)}], ByPriority(case)[Max(s)])]
             G == [s \in SUBSET (1..n) |-> IF s = {} THEN base ELSE Step(K, g[s \ {Max(s)}], Max(s))]
  <2>1. F = G
    BY <1>2
  <2>2. PayFold(case, debt, base, g) <=> g = F
    BY <1>1 DEF PayFold
  <2>3. Folds(K, base, n, g) <=> g = G
    BY DEF Folds
  <2> QED BY <2>1, <2>2, <2>3
<1>4. \E g : PayFold(case, debt, base, g)
  BY <1>1, <1>3, FoldExists
<1>5. PICK g : g = CHOOSE h : PayFold(case, debt, base, h)
  OBVIOUS
<1>6. PayFold(case, debt, base, g)
  BY <1>4, <1>5
<1>7. PICK c : Runs(K, base, n, c) /\ c[n] = g[1..n]
  BY <1>1, <1>3, <1>6, FoldRuns
<1>8. Pay(case, debt, flow) = g[1..n]
  BY <1>k, <1>1, <1>5, FoldsOfTheModel
<1>9. c[0] = base /\ \A k \in 1..n : c[k] = PayVisit(debt, c[k - 1], ByPriority(case)[k])
  BY <1>1, <1>2, <1>7 DEF Runs
<1> QED BY <1>k, <1>7, <1>8, <1>9

LEMMA SweepRuns ==
  ASSUME NEW case, WellFormed(case), NEW debt, NEW flow, NEW n, n = Len(case.tranches)
  PROVE  \E c : /\ c[0] = SweepStart(case, flow) /\ c[n] = Sweep(case, debt, flow)
                /\ \A k \in 1..n : c[k] = SweepVisit(case, debt, c[k - 1], ByPriority(case)[k])
<1>k. PICK K, base : K = [of |-> "sweep", case |-> case, debt |-> debt] /\ base = SweepStart(case, flow)
  OBVIOUS
<1>1. n \in Nat /\ DOMAIN ByPriority(case) = 1..n
  BY LoansAreFinite, OrderIsTotal
<1>2. \A f, k : Step(K, f, k) = SweepVisit(case, debt, f, ByPriority(case)[k])
  BY <1>k DEF Step
<1>3. ASSUME NEW g PROVE SweepFold(case, debt, base, g) <=> Folds(K, base, n, g)
  <2> DEFINE F == [s \in SUBSET (1..n) |->
                     IF s = {} THEN base ELSE SweepVisit(case, debt, g[s \ {Max(s)}], ByPriority(case)[Max(s)])]
             G == [s \in SUBSET (1..n) |-> IF s = {} THEN base ELSE Step(K, g[s \ {Max(s)}], Max(s))]
  <2>1. F = G
    BY <1>2
  <2>2. SweepFold(case, debt, base, g) <=> g = F
    BY <1>1 DEF SweepFold
  <2>3. Folds(K, base, n, g) <=> g = G
    BY DEF Folds
  <2> QED BY <2>1, <2>2, <2>3
<1>4. \E g : SweepFold(case, debt, base, g)
  BY <1>1, <1>3, FoldExists
<1>5. PICK g : g = CHOOSE h : SweepFold(case, debt, base, h)
  OBVIOUS
<1>6. SweepFold(case, debt, base, g)
  BY <1>4, <1>5
<1>7. PICK c : Runs(K, base, n, c) /\ c[n] = g[1..n]
  BY <1>1, <1>3, <1>6, FoldRuns
<1>8. Sweep(case, debt, flow) = g[1..n]
  BY <1>k, <1>1, <1>5, FoldsOfTheModel
<1>9. c[0] = base /\ \A k \in 1..n : c[k] = SweepVisit(case, debt, c[k - 1], ByPriority(case)[k])
  BY <1>1, <1>2, <1>7 DEF Runs
<1> QED BY <1>k, <1>7, <1>8, <1>9

\* And the projection is a run through the years.
LEMMA YearRuns ==
  ASSUME NEW case, WellFormed(case), NEW period, NEW amount, NEW n, n = Len(case.ebitda)
  PROVE  \E c : /\ c[0] = YearStart(case) /\ c[n].rows = Projection(case, period, amount)
                /\ \A k \in 1..n : c[k] = NextYear(case, period, amount, c[k - 1], k)
<1>k. PICK K, base : K = [of |-> "year", case |-> case, period |-> period, amount |-> amount] /\ base = YearStart(case)
  OBVIOUS
<1>1. n \in Nat /\ DOMAIN [p \in Periods(case) |-> p] = 1..n /\ \A q \in 1..n : [p \in Periods(case) |-> p][q] = q
  BY CaseIs
<1>2. \A f, k : Step(K, f, k) = NextYear(case, period, amount, f, k)
  BY <1>k DEF Step
<1>3. ASSUME NEW g PROVE YearFold(case, period, amount, base, g) <=> Folds(K, base, n, g)
  <2> DEFINE F == [s \in SUBSET (1..n) |->
                     IF s = {} THEN base ELSE NextYear(case, period, amount, g[s \ {Max(s)}], [p \in Periods(case) |-> p][Max(s)])]
             G == [s \in SUBSET (1..n) |-> IF s = {} THEN base ELSE Step(K, g[s \ {Max(s)}], Max(s))]
  <2>1. F = G
    BY <1>1, MaxIsGreatest, <1>2
  <2>2. YearFold(case, period, amount, base, g) <=> g = F
    BY <1>1 DEF YearFold
  <2>3. Folds(K, base, n, g) <=> g = G
    BY DEF Folds
  <2> QED BY <2>1, <2>2, <2>3
<1>4. \E g : YearFold(case, period, amount, base, g)
  BY <1>1, <1>3, FoldExists
<1>5. PICK g : g = CHOOSE h : YearFold(case, period, amount, base, h)
  OBVIOUS
<1>6. YearFold(case, period, amount, base, g)
  BY <1>4, <1>5
<1>7. PICK c : Runs(K, base, n, c) /\ c[n] = g[1..n]
  BY <1>1, <1>3, <1>6, FoldRuns
<1>8. Projection(case, period, amount) = g[1..n].rows
  BY <1>k, <1>1, <1>5, FoldsOfTheModel
<1>9. c[0] = base /\ \A k \in 1..n : c[k] = NextYear(case, period, amount, c[k - 1], k)
  BY <1>1, <1>2, <1>7 DEF Runs
<1> QED BY <1>k, <1>7, <1>8, <1>9

-----------------------------------------------------------------------------
(* Drawing, paying and sweeping share out an amount in the same way: each  *)
(* tranche in its turn is given what it can take of what is left.          *)

\* What fails nowhere first fails nowhere.
LEMMA AlongTheRun ==
  ASSUME NEW n \in Nat, NEW B, B \subseteq 0..n, 0 \notin B, \A k \in 1..n : k - 1 \notin B => k \notin B
  PROVE  B = {}
<1> SUFFICES ASSUME B # {} PROVE FALSE
  OBVIOUS
<1>1. B \subseteq Nat
  OBVIOUS
<1>2. PICK k \in B : \A j \in B : k <= j
  BY <1>1, LeastNatural
<1>3. k \in 1..n /\ k - 1 \in Nat
  OBVIOUS
<1>4. k - 1 \notin B
  BY <1>2, <1>3
<1> QED BY <1>2, <1>3, <1>4

\* The order visits every element of S once.
Visits(order, n, S) ==
  /\ n \in Nat /\ IsFiniteSet(S)
  /\ \A k \in 1..n : order[k] \in S
  /\ \A j, k \in 1..n : order[j] = order[k] => j = k
  /\ \A i \in S : \E k \in 1..n : order[k] = i

\* What each can take.
Limits(cap, S) == cap \in [S -> Nat]

\* g is f, but x at i.
Changes(f, i, x, g) == g = [f EXCEPT ![i] = x]

LEMMA TotalAfter ==
  ASSUME NEW S, IsFiniteSet(S), NEW f, Numbers(f, S), NEW i \in S, NEW x \in Int, NEW g, Changes(f, i, x, g)
  PROVE  Total(g) = Total(f) - f[i] + x
<1>1. Total([f EXCEPT ![i] = x]) = Total(f) - f[i] + x
  BY TotalChanges
<1> QED BY <1>1 DEF Changes

\* After k visits: f was given and p is left.
SharedTo(order, n, S, cap, pool, k, p, f) ==
  /\ p \in Nat /\ f \in [S -> Nat]
  /\ p + Total(f) = pool
  /\ \A i \in S : f[i] <= cap[i]
  /\ \A j \in 1..n : j > k => f[order[j]] = 0
  /\ \A j \in 1..n : j <= k => p = 0 \/ f[order[j]] = cap[order[j]]
  /\ \A j, l \in 1..n : j < l /\ f[order[l]] > 0 => f[order[j]] = cap[order[j]]

LEMMA LeastOf ==
  ASSUME NEW x \in Nat, NEW y \in Nat
  PROVE  /\ Least(x, y) \in Nat /\ Least(x, y) <= x /\ Least(x, y) <= y
         /\ Least(x, y) = x \/ Least(x, y) = y
BY DEF Least

LEMMA SharedStep ==
  ASSUME NEW order, NEW n, NEW S, Visits(order, n, S), NEW cap, Limits(cap, S), NEW pool \in Nat,
         NEW k \in 1..n, NEW p, NEW f, SharedTo(order, n, S, cap, pool, k - 1, p, f),
         NEW x, x = Least(cap[order[k]], p), NEW q, q = p - x, NEW g, Changes(f, order[k], x, g)
  PROVE  SharedTo(order, n, S, cap, pool, k, q, g)
<1>0. n \in Nat /\ k \in Nat
  BY DEF Visits
<1>1. order[k] \in S /\ \A i \in S : cap[i] \in Nat
  BY DEF Visits, Limits
<1>2. p \in Nat /\ f \in [S -> Nat] /\ p + Total(f) = pool
  BY DEF SharedTo
<1>3. x \in Nat /\ x <= cap[order[k]] /\ x <= p /\ (x = cap[order[k]] \/ x = p)
  BY <1>1, <1>2, LeastOf
<1>4. q \in Nat /\ (q = 0 \/ x = cap[order[k]])
  BY <1>1, <1>2, <1>3
<1>5. g \in [S -> Nat] /\ g[order[k]] = x /\ \A i \in S : i # order[k] => g[i] = f[i]
  BY <1>1, <1>2, <1>3 DEF Changes
<1>6. f[order[k]] = 0
  <2>1. k > k - 1
    BY <1>0
  <2> QED BY <2>1 DEF SharedTo
<1>7. q + Total(g) = pool
  <2>1. IsFiniteSet(S) /\ Numbers(f, S)
    BY <1>2 DEF Visits, Numbers
  <2>2. Total(g) = Total(f) - f[order[k]] + x
    <3>1. PICK i : i = order[k]
      OBVIOUS
    <3>2. i \in S /\ x \in Int
      BY <1>1, <1>3, <3>1
    <3>3. Changes(f, i, x, g)
      BY <3>1
    <3>4. Total(g) = Total(f) - f[i] + x
      BY <2>1, <3>2, <3>3, TotalAfter
    <3> QED BY <3>1, <3>4
  <2>3. Total(f) \in Int
    BY <2>1, TotalIsInt
  <2> QED BY <1>2, <1>3, <1>6, <2>2, <2>3
<1>8. \A i \in S : g[i] <= cap[i]
  BY <1>3, <1>5 DEF SharedTo
<1>9. \A j \in 1..n : order[j] \in S /\ (j # k => order[j] # order[k] /\ g[order[j]] = f[order[j]])
  BY <1>5 DEF Visits
<1>10. ASSUME NEW j \in 1..n, j > k PROVE g[order[j]] = 0
  <2>1. j > k - 1 /\ j # k
    BY <1>0, <1>10
  <2>2. f[order[j]] = 0
    BY <2>1 DEF SharedTo
  <2> QED BY <1>9, <2>1, <2>2
<1>11. ASSUME NEW j \in 1..n, j <= k PROVE q = 0 \/ g[order[j]] = cap[order[j]]
  <2>1. CASE j = k
    BY <1>4, <1>5, <2>1
  <2>2. CASE j # k
    <3>1. j <= k - 1
      BY <1>0, <1>11, <2>2
    <3>2. p = 0 \/ f[order[j]] = cap[order[j]]
      BY <3>1 DEF SharedTo
    <3>3. p = 0 => q = 0
      BY <1>2, <1>3, <1>4
    <3> QED BY <1>9, <2>2, <3>2, <3>3
  <2> QED BY <2>1, <2>2
<1>12. ASSUME NEW j \in 1..n, NEW l \in 1..n, j < l, g[order[l]] > 0 PROVE g[order[j]] = cap[order[j]]
  <2>1. CASE l = k
    <3>1. x > 0 /\ p # 0
      BY <1>2, <1>3, <1>5, <1>12, <2>1
    <3>2. j <= k - 1 /\ j # k
      BY <1>0, <1>12, <2>1
    <3>3. f[order[j]] = cap[order[j]]
      BY <3>1, <3>2 DEF SharedTo
    <3> QED BY <1>9, <3>2, <3>3
  <2>2. CASE l # k
    <3>1. f[order[l]] > 0
      BY <1>9, <1>12, <2>2
    <3>2. f[order[j]] = cap[order[j]]
      BY <1>12, <3>1 DEF SharedTo
    <3>3. j # k
      <4> SUFFICES ASSUME j = k PROVE FALSE
        OBVIOUS
      <4>1. l > k - 1
        BY <1>0, <1>12
      <4>2. f[order[l]] = 0
        BY <4>1 DEF SharedTo
      <4> QED BY <3>1, <4>2
    <3> QED BY <1>9, <3>2, <3>3
  <2> QED BY <2>1, <2>2
<1> QED BY <1>4, <1>5, <1>7, <1>8, <1>10, <1>11, <1>12 DEF SharedTo

LEMMA SharedStart ==
  ASSUME NEW order, NEW n, NEW S, Visits(order, n, S), NEW cap, Limits(cap, S), NEW pool \in Nat,
         NEW z, z = [i \in S |-> 0]
  PROVE  SharedTo(order, n, S, cap, pool, 0, pool, z)
<1>2. z \in [S -> Nat] /\ \A i \in S : z[i] = 0
  OBVIOUS
<1>3. Total(z) = 0
  <2>1. IsFiniteSet(S) /\ Numbers(z, S)
    BY <1>2 DEF Visits, Numbers
  <2> QED BY <1>2, <2>1, TotalOfNothing
<1>4. \A i \in S : z[i] <= cap[i]
  BY <1>2 DEF Limits
<1>5. \A j \in 1..n : order[j] \in S /\ z[order[j]] = 0 /\ ~(j <= 0)
  BY <1>2 DEF Visits
<1> QED BY <1>2, <1>3, <1>4, <1>5 DEF SharedTo

\* What a share comes to: the whole amount is given, or everyone has all they
\* can take; and who is given anything comes after those who have.
Fair(case, cap, pool, f) ==
  /\ f \in [Loans(case) -> Nat]
  /\ Total(f) \in Nat /\ Total(f) <= pool
  /\ \A i \in Loans(case) : f[i] <= cap[i]
  /\ Total(f) = pool \/ \A i \in Loans(case) : f[i] = cap[i]
  /\ \A i, j \in Loans(case) : Precedes(case, i, j) /\ f[j] > 0 => f[i] = cap[i]

LEMMA OrderVisits ==
  ASSUME NEW case, WellFormed(case), NEW n, n = Len(case.tranches), NEW order, order = ByPriority(case)
  PROVE  Visits(order, n, Loans(case))
<1>1. n \in Nat /\ IsFiniteSet(Loans(case))
  BY LoansAreFinite
<1>2. /\ \A k \in 1..n : order[k] \in Loans(case)
      /\ \A j, k \in 1..n : order[j] = order[k] => j = k
      /\ \A i \in Loans(case) : \E k \in 1..n : order[k] = i
  BY OrderIsTotal
<1> QED BY <1>1, <1>2 DEF Visits

LEMMA SharesAreFair ==
  ASSUME NEW case, WellFormed(case), NEW n, n = Len(case.tranches), NEW order, order = ByPriority(case),
         NEW cap, Limits(cap, Loans(case)), NEW pool \in Nat, NEW p, NEW f,
         SharedTo(order, n, Loans(case), cap, pool, n, p, f)
  PROVE  Fair(case, cap, pool, f) /\ p = pool - Total(f)
<1>0. n \in Nat /\ IsFiniteSet(Loans(case))
  BY LoansAreFinite
<1>1. p \in Nat /\ f \in [Loans(case) -> Nat] /\ p + Total(f) = pool
  BY DEF SharedTo
<1>2. Total(f) \in Int
  <2>1. Numbers(f, Loans(case))
    BY <1>1 DEF Numbers
  <2> QED BY <1>0, <2>1, TotalIsInt
<1>3. Total(f) >= 0
  <2> PICK z : z = [i \in Loans(case) |-> 0]
    OBVIOUS
  <2>1. Numbers(z, Loans(case)) /\ Numbers(f, Loans(case)) /\ \A i \in Loans(case) : z[i] = 0 /\ z[i] <= f[i]
    BY <1>1 DEF Numbers
  <2>2. Total(z) = 0
    BY <1>0, <2>1, TotalOfNothing
  <2>3. Total(z) <= Total(f)
    BY <1>0, <2>1, TotalsAscend
  <2> QED BY <1>2, <2>2, <2>3
<1>4. p = pool - Total(f) /\ Total(f) \in Nat /\ Total(f) <= pool /\ (p = 0 => Total(f) = pool)
  BY <1>1, <1>2, <1>3
<1>5. /\ \A k \in 1..n : order[k] \in Loans(case) /\ k <= n
      /\ \A i \in Loans(case) : \E k \in 1..n : order[k] = i
      /\ \A j, k \in 1..n : Precedes(case, order[j], order[k]) => j < k
  BY <1>0, OrderIsTotal
<1>6. p = 0 \/ \A i \in Loans(case) : f[i] = cap[i]
  BY <1>5 DEF SharedTo
<1>7. \A i, j \in Loans(case) : Precedes(case, i, j) /\ f[j] > 0 => f[i] = cap[i]
  BY <1>5 DEF SharedTo
<1>8. \A i \in Loans(case) : f[i] <= cap[i]
  BY DEF SharedTo
<1> QED BY <1>1, <1>4, <1>6, <1>7, <1>8 DEF Fair

-----------------------------------------------------------------------------
(* The three shares of a period.                                           *)

\* A flow is a record of its five fields.
Shaped(f) == f = [cash |-> f.cash, left |-> f.left, draw |-> f.draw, paid |-> f.paid, sweep |-> f.sweep]

\* What a period starts from: no more falls due than there is.
Due(case, debt) ==
  \A i \in Loans(case) :
    /\ debt[i].prepayment \in Nat /\ debt[i].required \in Nat /\ debt[i].required <= debt[i].prepayment

\* What each visit does to a flow.
Drew(f, i, x, g) ==
  /\ Shaped(g) /\ g.cash = f.cash + x /\ g.left = f.left - x
  /\ Changes(f.draw, i, x, g.draw) /\ g.paid = f.paid /\ g.sweep = f.sweep
Paid(f, i, x, g) ==
  /\ Shaped(g) /\ g.cash = f.cash - x /\ g.left = f.left
  /\ g.draw = f.draw /\ Changes(f.paid, i, x, g.paid) /\ g.sweep = f.sweep
Swept(f, i, x, g) ==
  /\ Shaped(g) /\ g.cash = f.cash - x /\ g.left = f.left - x
  /\ g.draw = f.draw /\ g.paid = f.paid /\ Changes(f.sweep, i, x, g.sweep)

LEMMA DrawVisitDoes ==
  ASSUME NEW case, NEW debt, NEW f, Shaped(f), NEW i, NEW x, x = Least(Room(case.tranches[i], debt[i]), f.left)
  PROVE  Drew(f, i, x, DrawVisit(case, debt, f, i))
<1> PICK g : g = DrawVisit(case, debt, f, i)
  OBVIOUS
<1>1. g = [f EXCEPT !.cash = @ + x, !.left = @ - x, !.draw[i] = x]
  BY DEF DrawVisit
<1>2. g = [cash |-> f.cash + x, left |-> f.left - x, draw |-> [f.draw EXCEPT ![i] = x], paid |-> f.paid, sweep |-> f.sweep]
  BY <1>1 DEF Shaped
<1> QED BY <1>2 DEF Shaped, Changes, Drew

LEMMA PayVisitDoes ==
  ASSUME NEW debt, NEW f, Shaped(f), NEW i, NEW x, x = Least(debt[i].required, Positive(f.cash))
  PROVE  Paid(f, i, x, PayVisit(debt, f, i))
<1> PICK g : g = PayVisit(debt, f, i)
  OBVIOUS
<1>1. g = [f EXCEPT !.cash = @ - x, !.paid[i] = x]
  BY DEF PayVisit
<1>2. g = [cash |-> f.cash - x, left |-> f.left, draw |-> f.draw, paid |-> [f.paid EXCEPT ![i] = x], sweep |-> f.sweep]
  BY <1>1 DEF Shaped
<1> QED BY <1>2 DEF Shaped, Changes, Paid

LEMMA SweepVisitDoes ==
  ASSUME NEW case, NEW debt, NEW f, Shaped(f), NEW i, case.tranches[i].eligible,
         NEW x, x = Least(Balance(debt, f, i), f.left)
  PROVE  Swept(f, i, x, SweepVisit(case, debt, f, i))
<1> PICK g : g = SweepVisit(case, debt, f, i)
  OBVIOUS
<1>1. g = [f EXCEPT !.cash = @ - x, !.left = @ - x, !.sweep[i] = x]
  BY DEF SweepVisit
<1>2. g = [cash |-> f.cash - x, left |-> f.left - x, draw |-> f.draw, paid |-> f.paid, sweep |-> [f.sweep EXCEPT ![i] = x]]
  BY <1>1 DEF Shaped
<1> QED BY <1>2 DEF Shaped, Changes, Swept

LEMMA PositiveOf ==
  ASSUME NEW x \in Int
  PROVE  Positive(x) \in Nat /\ (x >= 0 => Positive(x) = x) /\ (x <= 0 => Positive(x) = 0)
BY DEF Positive, Greatest

\* What revolvers have room for.
Rooms(case, debt) == [i \in Loans(case) |-> Room(case.tranches[i], debt[i])]

DrawnTo(case, debt, flow, pool, k, f) ==
  /\ Shaped(f) /\ f.paid = flow.paid /\ f.sweep = flow.sweep
  /\ f.cash \in Int /\ f.cash + f.left = flow.cash + pool
  /\ SharedTo(ByPriority(case), Len(case.tranches), Loans(case), Rooms(case, debt), pool, k, f.left, f.draw)

LEMMA RoomsAreLimits ==
  ASSUME NEW case, WellFormed(case), NEW debt, Due(case, debt)
  PROVE  Limits(Rooms(case, debt), Loans(case))
<1>1. ASSUME NEW i \in Loans(case) PROVE Room(case.tranches[i], debt[i]) \in Nat
  <2>1. case.tranches[i].commitment - debt[i].prepayment \in Int
    BY LoansAreFinite DEF Loan, Due
  <2> QED BY <2>1, PositiveOf DEF Room
<1> QED BY <1>1 DEF Limits, Rooms

\* A flow before anything was drawn, paid or swept.
Fresh(case, flow) ==
  /\ Shaped(flow) /\ flow.cash \in Int
  /\ flow.draw = [i \in Loans(case) |-> 0] /\ flow.paid = [i \in Loans(case) |-> 0]
  /\ flow.sweep = [i \in Loans(case) |-> 0]

LEMMA DrawShares ==
  ASSUME NEW case, WellFormed(case), NEW debt, Due(case, debt), NEW flow, Fresh(case, flow),
         NEW pool, pool = Positive(case.minimum_cash + Required(debt) - flow.cash), pool \in Nat,
         NEW drawn, drawn = Draw(case, debt, flow)
  PROVE  /\ Shaped(drawn) /\ drawn.paid = flow.paid /\ drawn.sweep = flow.sweep
         /\ Fair(case, Rooms(case, debt), pool, drawn.draw)
         /\ drawn.cash = flow.cash + Total(drawn.draw)
<1>n. PICK n, order, cap : n = Len(case.tranches) /\ order = ByPriority(case) /\ cap = Rooms(case, debt)
  OBVIOUS
<1>0. n \in Nat /\ Visits(order, n, Loans(case)) /\ Limits(cap, Loans(case))
  BY <1>n, LoansAreFinite, OrderVisits, RoomsAreLimits
<1>1. PICK c : /\ c[0] = DrawStart(case, debt, flow) /\ c[n] = Draw(case, debt, flow)
               /\ \A k \in 1..n : c[k] = DrawVisit(case, debt, c[k - 1], order[k])
  BY <1>n, DrawRuns
<1> DEFINE B == {k \in 0..n : ~DrawnTo(case, debt, flow, pool, k, c[k])}
<1>2. DrawnTo(case, debt, flow, pool, 0, c[0])
  <2>1. c[0] = [cash |-> flow.cash, left |-> pool, draw |-> flow.draw, paid |-> flow.paid, sweep |-> flow.sweep]
    BY <1>1 DEF DrawStart, Fresh, Shaped
  <2>2. SharedTo(order, n, Loans(case), cap, pool, 0, pool, flow.draw)
    BY <1>0, SharedStart DEF Fresh
  <2> QED BY <1>n, <2>1, <2>2 DEF DrawnTo, Shaped, Fresh
<1>3. ASSUME NEW k \in 1..n, k - 1 \notin B PROVE k \notin B
  <2>1. k - 1 \in 0..n
    BY <1>0
  <2>2. DrawnTo(case, debt, flow, pool, k - 1, c[k - 1])
    BY <1>3, <2>1
  <2>p. PICK f, g, i, x : /\ f = c[k - 1] /\ g = c[k] /\ i = order[k]
                          /\ x = Least(Room(case.tranches[i], debt[i]), f.left)
    OBVIOUS
  <2>3. g = DrawVisit(case, debt, f, i) /\ Shaped(f)
    BY <1>1, <2>2, <2>p DEF DrawnTo
  <2>5. i \in Loans(case) /\ cap[i] = Room(case.tranches[i], debt[i]) /\ cap[i] \in Nat
    BY <1>0, <1>n, <2>p DEF Visits, Rooms, Limits
  <2>6. SharedTo(order, n, Loans(case), cap, pool, k - 1, f.left, f.draw)
    BY <1>n, <2>2, <2>p DEF DrawnTo
  <2>8. f.left \in Nat /\ f.cash \in Int /\ f.cash + f.left = flow.cash + pool
    BY <2>2, <2>6, <2>p DEF DrawnTo, SharedTo
  <2>9. x \in Nat
    BY <2>5, <2>8, <2>p, LeastOf
  <2>d. Drew(f, i, x, g)
    <3>1. x = Least(Room(case.tranches[i], debt[i]), f.left)
      BY <2>p
    <3> QED BY <2>3, <3>1, DrawVisitDoes
  <2>4. /\ Shaped(g) /\ g.cash = f.cash + x /\ g.left = f.left - x
        /\ Changes(f.draw, i, x, g.draw) /\ g.paid = f.paid /\ g.sweep = f.sweep
    BY <2>d DEF Drew
  <2>7. SharedTo(order, n, Loans(case), cap, pool, k, g.left, g.draw)
    BY <1>0, <2>4, <2>5, <2>6, <2>p, SharedStep
  <2>10. g.cash \in Int /\ g.cash + g.left = flow.cash + pool
    BY <2>4, <2>8, <2>9
  <2>11. g.paid = flow.paid /\ g.sweep = flow.sweep
    BY <2>2, <2>4, <2>p DEF DrawnTo
  <2> QED BY <1>n, <2>4, <2>7, <2>10, <2>11, <2>p DEF DrawnTo
<1>4. 0 \notin B /\ B \subseteq 0..n
  BY <1>2
<1> HIDE DEF B
<1>5. B = {}
  BY <1>0, <1>3, <1>4, AlongTheRun
<1>6. DrawnTo(case, debt, flow, pool, n, drawn)
  <2>1. n \in 0..n
    BY <1>0
  <2> QED BY <1>1, <1>5, <2>1 DEF B
<1>7. SharedTo(order, n, Loans(case), cap, pool, n, drawn.left, drawn.draw)
  BY <1>6, <1>n DEF DrawnTo
<1>8. Fair(case, cap, pool, drawn.draw) /\ drawn.left = pool - Total(drawn.draw)
  BY <1>0, <1>n, <1>7, SharesAreFair
<1>9. Total(drawn.draw) \in Nat
  BY <1>8 DEF Fair
<1>10. drawn.cash \in Int /\ drawn.cash + drawn.left = flow.cash + pool /\ flow.cash \in Int
  BY <1>6 DEF DrawnTo, Fresh
<1> QED BY <1>6, <1>8, <1>9, <1>10, <1>n DEF DrawnTo

\* What falls due.
Dues(case, debt) == [i \in Loans(case) |-> debt[i].required]

\* Before anything was paid or swept.
Unspent(case, flow) ==
  /\ Shaped(flow) /\ flow.cash \in Int
  /\ flow.paid = [i \in Loans(case) |-> 0] /\ flow.sweep = [i \in Loans(case) |-> 0]

PaidTo(case, debt, flow, k, f) ==
  /\ Shaped(f) /\ f.draw = flow.draw /\ f.sweep = flow.sweep
  /\ f.cash \in Int /\ f.cash - Positive(f.cash) = flow.cash - Positive(flow.cash)
  /\ SharedTo(ByPriority(case), Len(case.tranches), Loans(case), Dues(case, debt), Positive(flow.cash), k,
              Positive(f.cash), f.paid)

LEMMA SpendPositive ==
  ASSUME NEW x \in Int, NEW r \in Nat, NEW y, y = Least(r, Positive(x))
  PROVE  y \in Nat /\ x - y \in Int /\ Positive(x - y) = Positive(x) - y
         /\ (x - y) - Positive(x - y) = x - Positive(x)
BY DEF Positive, Greatest, Least

LEMMA PayShares ==
  ASSUME NEW case, WellFormed(case), NEW debt, Due(case, debt), NEW flow, Unspent(case, flow),
         NEW payed, payed = Pay(case, debt, flow)
  PROVE  /\ Shaped(payed) /\ payed.draw = flow.draw /\ payed.sweep = flow.sweep
         /\ Fair(case, Dues(case, debt), Positive(flow.cash), payed.paid)
         /\ payed.cash = flow.cash - Total(payed.paid)
<1>n. PICK n, order, cap, pool : /\ n = Len(case.tranches) /\ order = ByPriority(case)
                                 /\ cap = Dues(case, debt) /\ pool = Positive(flow.cash)
  OBVIOUS
<1>c. flow.cash \in Int /\ pool \in Nat
  BY <1>n, PositiveOf DEF Unspent
<1>0. n \in Nat /\ Visits(order, n, Loans(case)) /\ Limits(cap, Loans(case))
  <2>1. Limits(cap, Loans(case))
    BY <1>n DEF Due, Dues, Limits
  <2> QED BY <1>n, <2>1, LoansAreFinite, OrderVisits
<1>1. PICK c : /\ c[0] = flow /\ c[n] = Pay(case, debt, flow)
               /\ \A k \in 1..n : c[k] = PayVisit(debt, c[k - 1], order[k])
  BY <1>n, PayRuns
<1> DEFINE B == {k \in 0..n : ~PaidTo(case, debt, flow, k, c[k])}
<1>2. PaidTo(case, debt, flow, 0, c[0])
  <2>1. SharedTo(order, n, Loans(case), cap, pool, 0, pool, flow.paid)
    BY <1>0, <1>c, SharedStart DEF Unspent
  <2> QED BY <1>n, <1>1, <2>1 DEF PaidTo, Unspent
<1>3. ASSUME NEW k \in 1..n, k - 1 \notin B PROVE k \notin B
  <2>1. k - 1 \in 0..n
    BY <1>0
  <2>2. PaidTo(case, debt, flow, k - 1, c[k - 1])
    BY <1>3, <2>1
  <2>p. PICK f, g, i, x : /\ f = c[k - 1] /\ g = c[k] /\ i = order[k]
                          /\ x = Least(debt[i].required, Positive(f.cash))
    OBVIOUS
  <2>3. g = PayVisit(debt, f, i) /\ Shaped(f)
    BY <1>1, <2>2, <2>p DEF PaidTo
  <2>5. i \in Loans(case) /\ cap[i] = debt[i].required /\ cap[i] \in Nat
    BY <1>0, <1>n, <2>p DEF Visits, Dues, Limits
  <2>6. SharedTo(order, n, Loans(case), cap, pool, k - 1, Positive(f.cash), f.paid)
    BY <1>n, <2>2, <2>p DEF PaidTo
  <2>8. f.cash \in Int /\ f.cash - Positive(f.cash) = flow.cash - Positive(flow.cash)
    BY <2>2, <2>p DEF PaidTo
  <2>9. /\ x \in Nat /\ f.cash - x \in Int /\ Positive(f.cash - x) = Positive(f.cash) - x
        /\ (f.cash - x) - Positive(f.cash - x) = f.cash - Positive(f.cash)
    <3>1. x = Least(debt[i].required, Positive(f.cash)) /\ debt[i].required \in Nat
      BY <2>5, <2>p
    <3> QED BY <2>8, <3>1, SpendPositive
  <2>d. Paid(f, i, x, g)
    <3>1. x = Least(debt[i].required, Positive(f.cash))
      BY <2>p
    <3> QED BY <2>3, <3>1, PayVisitDoes
  <2>4. /\ Shaped(g) /\ g.cash = f.cash - x
        /\ g.draw = f.draw /\ Changes(f.paid, i, x, g.paid) /\ g.sweep = f.sweep
    BY <2>d DEF Paid
  <2>7. SharedTo(order, n, Loans(case), cap, pool, k, Positive(g.cash), g.paid)
    <3>1. Positive(g.cash) = Positive(f.cash) - x
      BY <2>4, <2>9
    <3>2. x = Least(cap[order[k]], Positive(f.cash)) /\ Changes(f.paid, order[k], x, g.paid)
      BY <2>4, <2>5, <2>p
    <3> QED BY <1>0, <1>c, <2>6, <3>1, <3>2, SharedStep
  <2>10. g.cash \in Int /\ g.cash - Positive(g.cash) = flow.cash - Positive(flow.cash)
    BY <2>4, <2>8, <2>9
  <2>11. g.draw = flow.draw /\ g.sweep = flow.sweep
    BY <2>2, <2>4, <2>p DEF PaidTo
  <2> QED BY <1>n, <2>4, <2>7, <2>10, <2>11, <2>p DEF PaidTo
<1>4. 0 \notin B /\ B \subseteq 0..n
  BY <1>2
<1> HIDE DEF B
<1>5. B = {}
  BY <1>0, <1>3, <1>4, AlongTheRun
<1>6. PaidTo(case, debt, flow, n, payed)
  <2>1. n \in 0..n
    BY <1>0
  <2> QED BY <1>1, <1>5, <2>1 DEF B
<1>7. SharedTo(order, n, Loans(case), cap, pool, n, Positive(payed.cash), payed.paid)
  BY <1>6, <1>n DEF PaidTo
<1>8. Fair(case, cap, pool, payed.paid) /\ Positive(payed.cash) = pool - Total(payed.paid)
  BY <1>0, <1>c, <1>n, <1>7, SharesAreFair
<1>9. Total(payed.paid) \in Nat
  BY <1>8 DEF Fair
<1>10. payed.cash \in Int /\ payed.cash - Positive(payed.cash) = flow.cash - Positive(flow.cash)
  BY <1>6 DEF PaidTo
<1>11. payed.cash = flow.cash - Total(payed.paid)
  BY <1>c, <1>n, <1>8, <1>9, <1>10
<1> QED BY <1>6, <1>8, <1>11, <1>n DEF PaidTo

\* What the eligible tranches can be prepaid.
Prepayable(case, debt, flow) ==
  [i \in Loans(case) |->
     IF case.tranches[i].eligible THEN debt[i].prepayment + flow.draw[i] - flow.paid[i] ELSE 0]

\* Before anything was swept.
Unswept(case, debt, flow) ==
  /\ Shaped(flow) /\ flow.cash \in Int
  /\ flow.draw \in [Loans(case) -> Nat] /\ flow.paid \in [Loans(case) -> Nat]
  /\ \A i \in Loans(case) : flow.paid[i] <= debt[i].prepayment
  /\ flow.sweep = [i \in Loans(case) |-> 0]

SweptTo(case, debt, flow, pool, k, f) ==
  /\ Shaped(f) /\ f.draw = flow.draw /\ f.paid = flow.paid
  /\ f.cash \in Int /\ f.cash - f.left = flow.cash - pool
  /\ SharedTo(ByPriority(case), Len(case.tranches), Loans(case), Prepayable(case, debt, flow), pool, k, f.left, f.sweep)

LEMMA PrepayableIsLimit ==
  ASSUME NEW case, WellFormed(case), NEW debt, Due(case, debt), NEW flow, Unswept(case, debt, flow)
  PROVE  Limits(Prepayable(case, debt, flow), Loans(case))
<1>1. ASSUME NEW i \in Loans(case) PROVE debt[i].prepayment + flow.draw[i] - flow.paid[i] \in Nat
  BY DEF Due, Unswept
<1> QED BY <1>1 DEF Limits, Prepayable

LEMMA SweepShares ==
  ASSUME NEW case, WellFormed(case), NEW debt, Due(case, debt), NEW flow, Unswept(case, debt, flow),
         NEW pool, pool = Share(Positive(flow.cash - case.minimum_cash), case.sweep), pool \in Nat,
         NEW swept, swept = Sweep(case, debt, flow)
  PROVE  /\ Shaped(swept) /\ swept.draw = flow.draw /\ swept.paid = flow.paid
         /\ Fair(case, Prepayable(case, debt, flow), pool, swept.sweep)
         /\ swept.cash = flow.cash - Total(swept.sweep)
<1>n. PICK n, order, cap : n = Len(case.tranches) /\ order = ByPriority(case) /\ cap = Prepayable(case, debt, flow)
  OBVIOUS
<1>0. n \in Nat /\ Visits(order, n, Loans(case)) /\ Limits(cap, Loans(case))
  BY <1>n, LoansAreFinite, OrderVisits, PrepayableIsLimit
<1>1. PICK c : /\ c[0] = SweepStart(case, flow) /\ c[n] = Sweep(case, debt, flow)
               /\ \A k \in 1..n : c[k] = SweepVisit(case, debt, c[k - 1], order[k])
  BY <1>n, SweepRuns
<1> DEFINE B == {k \in 0..n : ~SweptTo(case, debt, flow, pool, k, c[k])}
<1>2. SweptTo(case, debt, flow, pool, 0, c[0])
  <2>1. c[0] = [cash |-> flow.cash, left |-> pool, draw |-> flow.draw, paid |-> flow.paid, sweep |-> flow.sweep]
    BY <1>1 DEF SweepStart, Unswept, Shaped
  <2>2. SharedTo(order, n, Loans(case), cap, pool, 0, pool, flow.sweep)
    BY <1>0, SharedStart DEF Unswept
  <2> QED BY <1>n, <2>1, <2>2 DEF SweptTo, Shaped, Unswept
<1>3. ASSUME NEW k \in 1..n, k - 1 \notin B PROVE k \notin B
  <2>1. k - 1 \in 0..n
    BY <1>0
  <2>2. SweptTo(case, debt, flow, pool, k - 1, c[k - 1])
    BY <1>3, <2>1
  <2>p. PICK f, g, i, x : /\ f = c[k - 1] /\ g = c[k] /\ i = order[k]
                          /\ x = Least(cap[i], f.left)
    OBVIOUS
  <2>3. g = SweepVisit(case, debt, f, i) /\ Shaped(f)
    BY <1>1, <2>2, <2>p DEF SweptTo
  <2>5. i \in Loans(case) /\ cap[i] \in Nat
    BY <1>0, <1>n, <2>p DEF Visits, Limits
  <2>6. SharedTo(order, n, Loans(case), cap, pool, k - 1, f.left, f.sweep)
    BY <1>n, <2>2, <2>p DEF SweptTo
  <2>8. f.left \in Nat /\ f.cash \in Int /\ f.cash - f.left = flow.cash - pool /\ f.draw = flow.draw /\ f.paid = flow.paid
    BY <2>2, <2>6, <2>p DEF SweptTo, SharedTo
  <2>9. x \in Nat
    BY <2>5, <2>8, <2>p, LeastOf
  <2>10. f.sweep[i] = 0 /\ f.sweep \in [Loans(case) -> Nat]
    <3>1. k > k - 1
      BY <1>0
    <3> QED BY <2>6, <2>p, <3>1 DEF SharedTo
  <2>4. /\ Shaped(g) /\ g.cash = f.cash - x /\ g.left = f.left - x
        /\ g.draw = f.draw /\ g.paid = f.paid /\ Changes(f.sweep, i, x, g.sweep)
    <3>1. CASE case.tranches[i].eligible
      <4>1. Balance(debt, f, i) = cap[i]
        <5>1. cap[i] = debt[i].prepayment + flow.draw[i] - flow.paid[i]
          BY <1>n, <2>5, <3>1 DEF Prepayable
        <5>2. debt[i].prepayment \in Nat /\ flow.draw[i] \in Nat /\ flow.paid[i] \in Nat
          BY <2>5 DEF Due, Unswept
        <5> QED BY <2>8, <2>10, <5>1, <5>2 DEF Balance
      <4>2. x = Least(Balance(debt, f, i), f.left)
        BY <2>p, <4>1
      <4>3. Swept(f, i, x, g)
        BY <2>3, <3>1, <4>2, SweepVisitDoes
      <4> QED BY <4>3 DEF Swept
    <3>2. CASE ~case.tranches[i].eligible
      <4>1. cap[i] = 0
        BY <1>n, <2>5, <3>2 DEF Prepayable
      <4>2. x = 0
        BY <2>8, <2>p, <4>1 DEF Least
      <4>3. g = f
        BY <2>3, <3>2 DEF SweepVisit
      <4>4. Changes(f.sweep, i, x, f.sweep)
        BY <2>5, <2>10, <4>2 DEF Changes
      <4> QED BY <2>3, <2>8, <4>2, <4>3, <4>4
    <3> QED BY <3>1, <3>2
  <2>7. SharedTo(order, n, Loans(case), cap, pool, k, g.left, g.sweep)
    BY <1>0, <2>4, <2>5, <2>6, <2>p, SharedStep
  <2>11. g.cash \in Int /\ g.cash - g.left = flow.cash - pool
    BY <2>4, <2>8, <2>9
  <2>12. g.draw = flow.draw /\ g.paid = flow.paid
    BY <2>4, <2>8
  <2> QED BY <1>n, <2>4, <2>7, <2>11, <2>12, <2>p DEF SweptTo
<1>4. 0 \notin B /\ B \subseteq 0..n
  BY <1>2
<1> HIDE DEF B
<1>5. B = {}
  BY <1>0, <1>3, <1>4, AlongTheRun
<1>6. SweptTo(case, debt, flow, pool, n, swept)
  <2>1. n \in 0..n
    BY <1>0
  <2> QED BY <1>1, <1>5, <2>1 DEF B
<1>7. SharedTo(order, n, Loans(case), cap, pool, n, swept.left, swept.sweep)
  BY <1>6, <1>n DEF SweptTo
<1>8. Fair(case, cap, pool, swept.sweep) /\ swept.left = pool - Total(swept.sweep)
  BY <1>0, <1>n, <1>7, SharesAreFair
<1>9. Total(swept.sweep) \in Nat
  BY <1>8 DEF Fair
<1>10. swept.cash \in Int /\ swept.cash - swept.left = flow.cash - pool /\ flow.cash \in Int
  BY <1>6 DEF SweptTo, Unswept
<1> QED BY <1>6, <1>8, <1>9, <1>10, <1>n DEF SweptTo

-----------------------------------------------------------------------------
(* One period.                                                             *)

\* A share of an amount is no more than the amount.
LEMMA ShareOf ==
  ASSUME NEW x \in Nat, NEW p \in Percent
  PROVE  Share(x, p) \in Nat /\ Share(x, p) <= x
<1>1. p \in Nat /\ p <= 100
  BY DEF Percent
<1>2. x * p \in Nat
  BY <1>1
<1>3. x * p <= x * 100
  BY <1>1
<1>4. PICK y : y = x * p
  OBVIOUS
<1>5. y \in Nat /\ y <= x * 100
  BY <1>2, <1>3, <1>4
<1>6. y \div 100 \in Nat /\ y \div 100 <= x
  BY <1>5
<1> QED BY <1>4, <1>6 DEF Share

LEMMA ShareIsInt ==
  ASSUME NEW x \in Int, NEW p \in Int
  PROVE  Share(x, p) \in Int
<1>1. PICK y : y = x * p
  OBVIOUS
<1>2. y \in Int
  BY <1>1
<1>3. y \div 100 \in Int
  BY <1>2
<1> QED BY <1>1, <1>3 DEF Share

\* Who totals the same and has nowhere more has everywhere the same.
LEMMA TotalsMeet ==
  ASSUME NEW S, IsFiniteSet(S), NEW v, Numbers(v, S), NEW w, Numbers(w, S), \A x \in S : v[x] <= w[x],
         Total(v) = Total(w)
  PROVE  \A x \in S : v[x] = w[x]
<1> SUFFICES ASSUME NEW i \in S, v[i] # w[i] PROVE FALSE
  OBVIOUS
<1>1. v[i] \in Int /\ w[i] \in Int
  BY DEF Numbers
<1>2. v[i] + 1 \in Int /\ v[i] + 1 <= w[i]
  BY <1>1
<1>3. PICK x, h : x = v[i] + 1 /\ Changes(v, i, x, h)
  BY DEF Changes
<1>4. Numbers(h, S) /\ h[i] = x /\ \A y \in S : y # i => h[y] = v[y]
  BY <1>2, <1>3 DEF Changes, Numbers
<1>5. Total(h) = Total(v) - v[i] + x
  BY <1>2, <1>3, TotalAfter
<1>6. \A y \in S : h[y] <= w[y]
  BY <1>2, <1>3, <1>4
<1>7. Total(h) <= Total(w)
  BY <1>4, <1>6, TotalsAscend
<1>8. Total(v) \in Int /\ Total(h) \in Int
  BY <1>4, TotalIsInt
<1> QED BY <1>1, <1>3, <1>5, <1>7, <1>8

\* Of nothing, everyone is given nothing.
LEMMA NothingToShare ==
  ASSUME NEW case, WellFormed(case), NEW cap, NEW f, Fair(case, cap, 0, f)
  PROVE  Total(f) = 0 /\ \A i \in Loans(case) : f[i] = 0
<1>1. IsFiniteSet(Loans(case)) /\ f \in [Loans(case) -> Nat] /\ Total(f) = 0
  BY LoansAreFinite DEF Fair
<1> PICK z : z = [i \in Loans(case) |-> 0]
  OBVIOUS
<1>2. Numbers(z, Loans(case)) /\ Numbers(f, Loans(case)) /\ \A i \in Loans(case) : z[i] = 0 /\ z[i] <= f[i]
  BY <1>1 DEF Numbers
<1>3. Total(z) = 0
  BY <1>1, <1>2, TotalOfNothing
<1>4. \A i \in Loans(case) : z[i] = f[i]
  BY <1>1, <1>2, <1>3, TotalsMeet
<1> QED BY <1>1, <1>2, <1>4

\* A row of the debt schedule, for a balance that is not negative.
LEMMA DebtsAreDue ==
  ASSUME NEW case, WellFormed(case), NEW p, NEW balance \in [Loans(case) -> Nat], NEW debt, debt = Debts(case, p, balance)
  PROVE  /\ DOMAIN debt = Loans(case) /\ Due(case, debt)
         /\ \A i \in Loans(case) : debt[i].interest \in Int /\ debt[i].pik \in Int /\ debt[i].mature \in BOOLEAN
<1>1. DOMAIN debt = Loans(case)
  BY DEF Debts
<1>2. ASSUME NEW i \in Loans(case)
      PROVE  /\ debt[i].prepayment \in Nat /\ debt[i].required \in Nat /\ debt[i].required <= debt[i].prepayment
             /\ debt[i].interest \in Int /\ debt[i].pik \in Int /\ debt[i].mature \in BOOLEAN
  <2>1. PICK loan, opening : loan = case.tranches[i] /\ opening = balance[i]
    OBVIOUS
  <2>2. loan \in Loan /\ opening \in Nat
    BY <2>1, LoansAreFinite
  <2>3. /\ loan.initial \in Nat /\ loan.floor \in Int /\ loan.maturity \in Nat
        /\ loan.spread \in Percent /\ loan.pik \in Percent /\ loan.amort \in Percent
    BY <2>2 DEF Loan, BaseRate
  <2>4. debt[i] = DebtRow(case, i, p, opening)
    BY <2>1 DEF Debts
  <2>5. Share(opening, loan.pik) \in Nat /\ Share(loan.initial, loan.amort) \in Nat
    BY <2>2, <2>3, ShareOf
  <2>6. Share(opening, Greatest(case.base, loan.floor) + loan.spread) \in Int
    <3>1. case.base \in Int
      BY CaseIs
    <3>2. Greatest(case.base, loan.floor) + loan.spread \in Int
      BY <2>3, <3>1 DEF Greatest, Percent
    <3> QED BY <2>2, <3>2, ShareIsInt
  <2>7. /\ debt[i].prepayment = opening + Share(opening, loan.pik)
        /\ debt[i].interest = Share(opening, Greatest(case.base, loan.floor) + loan.spread)
        /\ debt[i].pik = Share(opening, loan.pik)
        /\ debt[i].mature = (loan.maturity = p)
        /\ debt[i].required = IF loan.maturity = p THEN debt[i].prepayment
                              ELSE Least(debt[i].prepayment, Share(loan.initial, loan.amort))
    BY <2>1, <2>4 DEF DebtRow
  <2>8. debt[i].prepayment \in Nat
    BY <2>2, <2>5, <2>7
  <2>9. debt[i].required \in Nat /\ debt[i].required <= debt[i].prepayment
    <3>1. CASE loan.maturity = p
      BY <2>7, <2>8, <3>1
    <3>2. CASE loan.maturity # p
      <4>1. debt[i].required = Least(debt[i].prepayment, Share(loan.initial, loan.amort))
        BY <2>7, <3>2
      <4> QED BY <2>5, <2>8, <4>1, LeastOf
    <3> QED BY <3>1, <3>2
  <2> QED BY <2>5, <2>6, <2>7, <2>8, <2>9
<1> QED BY <1>1, <1>2 DEF Due

\* What is required, as a total.
LEMMA RequiredIsTotal ==
  ASSUME NEW case, WellFormed(case), NEW debt, DOMAIN debt = Loans(case), Due(case, debt)
  PROVE  /\ Required(debt) = Total(Dues(case, debt)) /\ Required(debt) \in Nat
         /\ Numbers(Dues(case, debt), Loans(case)) /\ \A i \in Loans(case) : Dues(case, debt)[i] = debt[i].required
<1> PICK dues, z : dues = Dues(case, debt) /\ z = [i \in Loans(case) |-> 0]
  OBVIOUS
<1>1. Required(debt) = Total(dues)
  BY DEF Required, Dues
<1>2. IsFiniteSet(Loans(case))
  BY LoansAreFinite
<1>3. Numbers(dues, Loans(case)) /\ \A i \in Loans(case) : dues[i] = debt[i].required /\ dues[i] \in Nat
  BY DEF Dues, Numbers, Due
<1>4. Numbers(z, Loans(case)) /\ \A i \in Loans(case) : z[i] = 0 /\ z[i] <= dues[i]
  BY <1>3 DEF Numbers
<1>5. Total(z) = 0 /\ Total(dues) \in Int
  BY <1>2, <1>3, <1>4, TotalOfNothing, TotalIsInt
<1>6. Total(z) <= Total(dues)
  BY <1>2, <1>3, <1>4, TotalsAscend
<1> QED BY <1>1, <1>3, <1>5, <1>6

\* The debt service of a period: what was drawn, paid and swept, and out of what.
Served(case, debt, cash, by, held, after) ==
  /\ held = cash + Total(by.draw) /\ after = held - Total(by.paid) /\ by.cash = after - Total(by.sweep)
  /\ Fair(case, Rooms(case, debt), Positive(case.minimum_cash + Required(debt) - cash), by.draw)
  /\ Fair(case, Dues(case, debt), Positive(held), by.paid)
  /\ Fair(case, Prepayable(case, debt, by), Share(Positive(after - case.minimum_cash), case.sweep), by.sweep)

LEMMA ServiceIsServed ==
  ASSUME NEW case, WellFormed(case), NEW debt, DOMAIN debt = Loans(case), Due(case, debt), NEW cash \in Int,
         NEW by, by = DebtService(case, debt, cash)
  PROVE  \E held, after \in Int : Served(case, debt, cash, by, held, after)
<1>1. PICK flow, drawn, payed : /\ flow = Flow(case, cash) /\ drawn = Draw(case, debt, flow)
                                /\ payed = Pay(case, debt, drawn)
  OBVIOUS
<1>2. by = Sweep(case, debt, payed)
  BY <1>1 DEF DebtService
<1>3. Fresh(case, flow) /\ flow.cash = cash
  BY <1>1 DEF Flow, Fresh, Shaped
<1>4. Required(debt) \in Nat /\ case.minimum_cash \in Nat /\ case.sweep \in Percent
  BY CaseIs, RequiredIsTotal
<1>5. PICK need : need = Positive(case.minimum_cash + Required(debt) - flow.cash)
  OBVIOUS
<1>6. need \in Nat
  BY <1>3, <1>4, <1>5, PositiveOf
<1>7. /\ Shaped(drawn) /\ drawn.paid = flow.paid /\ drawn.sweep = flow.sweep
      /\ Fair(case, Rooms(case, debt), need, drawn.draw)
      /\ drawn.cash = flow.cash + Total(drawn.draw)
  BY <1>1, <1>3, <1>5, <1>6, DrawShares
<1>8. Unspent(case, drawn)
  <2>1. Total(drawn.draw) \in Nat
    BY <1>7 DEF Fair
  <2>2. drawn.cash \in Int
    BY <1>3, <1>7, <2>1
  <2> QED BY <1>3, <1>7, <2>2 DEF Fresh, Unspent
<1>9. /\ Shaped(payed) /\ payed.draw = drawn.draw /\ payed.sweep = drawn.sweep
      /\ Fair(case, Dues(case, debt), Positive(drawn.cash), payed.paid)
      /\ payed.cash = drawn.cash - Total(payed.paid)
  BY <1>1, <1>8, PayShares
<1>10. drawn.cash \in Int /\ payed.cash \in Int
  <2>1. Total(payed.paid) \in Nat
    BY <1>9 DEF Fair
  <2>2. drawn.cash \in Int
    BY <1>8 DEF Unspent
  <2> QED BY <1>9, <2>1, <2>2
<1>11. Unswept(case, debt, payed)
  <2>1. payed.draw \in [Loans(case) -> Nat] /\ payed.paid \in [Loans(case) -> Nat]
    BY <1>7, <1>9 DEF Fair
  <2>2. \A i \in Loans(case) : payed.paid[i] <= debt[i].prepayment
    <3> SUFFICES ASSUME NEW i \in Loans(case) PROVE payed.paid[i] <= debt[i].prepayment
      OBVIOUS
    <3>1. payed.paid[i] <= debt[i].required
      BY <1>9 DEF Fair, Dues
    <3>2. payed.paid[i] \in Nat
      BY <2>1
    <3> QED BY <3>1, <3>2 DEF Due
  <2>3. payed.sweep = [i \in Loans(case) |-> 0]
    BY <1>8, <1>9 DEF Unspent
  <2> QED BY <1>9, <1>10, <2>1, <2>2, <2>3 DEF Unswept
<1>12. PICK spare : spare = Share(Positive(payed.cash - case.minimum_cash), case.sweep)
  OBVIOUS
<1>13. spare \in Nat
  <2>1. Positive(payed.cash - case.minimum_cash) \in Nat
    BY <1>4, <1>10, PositiveOf
  <2> QED BY <1>4, <1>12, <2>1, ShareOf
<1>14. /\ by.draw = payed.draw /\ by.paid = payed.paid
       /\ Fair(case, Prepayable(case, debt, payed), spare, by.sweep)
       /\ by.cash = payed.cash - Total(by.sweep)
  BY <1>2, <1>11, <1>12, <1>13, SweepShares
<1>15. Prepayable(case, debt, by) = Prepayable(case, debt, payed)
  BY <1>14 DEF Prepayable
<1>16. Served(case, debt, cash, by, drawn.cash, payed.cash)
  BY <1>3, <1>5, <1>7, <1>9, <1>12, <1>14, <1>15 DEF Served
<1> QED BY <1>10, <1>16

-----------------------------------------------------------------------------
(* What follows for who is paid.                                           *)

\* Everything due is paid, or all the cash there was.
LEMMA PaidOrSpent ==
  ASSUME NEW case, WellFormed(case), NEW debt, DOMAIN debt = Loans(case), Due(case, debt), NEW cash \in Int,
         NEW by, NEW held \in Int, NEW after \in Int, Served(case, debt, cash, by, held, after)
  PROVE  /\ Total(by.paid) \in Nat /\ Total(by.paid) <= Required(debt) /\ after = held - Total(by.paid)
         /\ Total(by.paid) = Positive(held) \/ Total(by.paid) = Required(debt)
         /\ Total(by.paid) = Required(debt) => \A i \in Loans(case) : by.paid[i] = debt[i].required
         /\ Total(by.paid) # Positive(held) => \A i \in Loans(case) : by.paid[i] = debt[i].required
<1> PICK paid, dues, S : paid = by.paid /\ dues = Dues(case, debt) /\ S = Loans(case)
  OBVIOUS
<1>1. /\ Required(debt) = Total(dues) /\ Numbers(dues, S) /\ IsFiniteSet(S)
      /\ \A i \in S : dues[i] = debt[i].required
  BY RequiredIsTotal, LoansAreFinite
<1>2. Fair(case, dues, Positive(held), paid) /\ after = held - Total(paid)
  BY DEF Served
<1>3. paid \in [S -> Nat] /\ Total(paid) \in Nat /\ \A i \in S : paid[i] <= dues[i]
  BY <1>2 DEF Fair
<1>4. Numbers(paid, S)
  BY <1>3 DEF Numbers
<1>5. Total(paid) <= Total(dues)
  BY <1>1, <1>3, <1>4, TotalsAscend
<1>6. Total(paid) = Total(dues) => \A i \in S : paid[i] = dues[i]
  BY <1>1, <1>3, <1>4, TotalsMeet
<1>7. Total(paid) = Positive(held) \/ \A i \in S : paid[i] = dues[i]
  BY <1>2 DEF Fair
<1>8. (\A i \in S : paid[i] = dues[i]) => paid = dues
  BY <1>3, <1>1 DEF Numbers
<1> QED BY <1>1, <1>2, <1>3, <1>5, <1>6, <1>7, <1>8

\* Cash for the minimum and all that is due leaves the minimum and nobody unpaid.
LEMMA EnoughIsPaid ==
  ASSUME NEW case, WellFormed(case), NEW debt, DOMAIN debt = Loans(case), Due(case, debt), NEW cash \in Int,
         NEW by, NEW held \in Int, NEW after \in Int, Served(case, debt, cash, by, held, after),
         held >= case.minimum_cash + Required(debt)
  PROVE  after >= case.minimum_cash /\ \A i \in Loans(case) : by.paid[i] = debt[i].required
<1>1. /\ Total(by.paid) \in Nat /\ Total(by.paid) <= Required(debt) /\ after = held - Total(by.paid)
      /\ Total(by.paid) = Positive(held) \/ Total(by.paid) = Required(debt)
      /\ Total(by.paid) = Required(debt) => \A i \in Loans(case) : by.paid[i] = debt[i].required
  BY PaidOrSpent
<1>2. Required(debt) \in Nat /\ case.minimum_cash \in Nat
  BY CaseIs, RequiredIsTotal
<1>3. Positive(held) = held
  BY <1>2, PositiveOf
<1>4. Total(by.paid) = Required(debt)
  BY <1>1, <1>2, <1>3
<1> QED BY <1>1, <1>2, <1>4

\* Less than that, and every usable revolver was drawn for what it has room.
LEMMA ShortIsDrawn ==
  ASSUME NEW case, WellFormed(case), NEW debt, DOMAIN debt = Loans(case), Due(case, debt), NEW cash \in Int,
         NEW by, NEW held \in Int, NEW after \in Int, Served(case, debt, cash, by, held, after),
         held < case.minimum_cash + Required(debt)
  PROVE  \A j \in Loans(case) : by.draw[j] = Room(case.tranches[j], debt[j])
<1>1. Required(debt) \in Nat /\ case.minimum_cash \in Nat
  BY CaseIs, RequiredIsTotal
<1>2. PICK gap : gap = case.minimum_cash + Required(debt) - cash
  OBVIOUS
<1>3. gap \in Int /\ Positive(gap) \in Nat /\ Positive(gap) >= gap
  <2>1. gap \in Int
    BY <1>1, <1>2
  <2> QED BY <2>1 DEF Positive, Greatest
<1>4. Fair(case, Rooms(case, debt), Positive(gap), by.draw) /\ held = cash + Total(by.draw)
  BY <1>2 DEF Served
<1>5. Total(by.draw) \in Nat
  BY <1>4 DEF Fair
<1>6. Total(by.draw) # Positive(gap)
  BY <1>1, <1>2, <1>3, <1>4, <1>5
<1> QED BY <1>4, <1>6 DEF Fair, Rooms

\* No cash above the minimum, and nothing is prepaid.
LEMMA ScarceIsKept ==
  ASSUME NEW case, WellFormed(case), NEW debt, DOMAIN debt = Loans(case), Due(case, debt), NEW cash \in Int,
         NEW by, NEW held \in Int, NEW after \in Int, Served(case, debt, cash, by, held, after),
         after <= case.minimum_cash
  PROVE  by.cash = after /\ \A j \in Loans(case) : by.sweep[j] = 0
<1>1. case.minimum_cash \in Nat /\ case.sweep \in Percent
  BY CaseIs
<1>2. Positive(after - case.minimum_cash) = 0
  BY <1>1, PositiveOf
<1>3. Share(0, case.sweep) = 0
  BY <1>1, ShareOf
<1>4. Fair(case, Prepayable(case, debt, by), 0, by.sweep) /\ by.cash = after - Total(by.sweep)
  BY <1>2, <1>3 DEF Served
<1> QED BY <1>4, NothingToShare

\* The sweep leaves the minimum.
LEMMA SweepLeavesMinimum ==
  ASSUME NEW case, WellFormed(case), NEW debt, DOMAIN debt = Loans(case), Due(case, debt), NEW cash \in Int,
         NEW by, NEW held \in Int, NEW after \in Int, Served(case, debt, cash, by, held, after),
         by.cash < case.minimum_cash
  PROVE  after < case.minimum_cash
<1>1. case.minimum_cash \in Nat /\ case.sweep \in Percent
  BY CaseIs
<1>2. PICK spare : spare = Positive(after - case.minimum_cash)
  OBVIOUS
<1>3. spare \in Nat /\ (after >= case.minimum_cash => spare = after - case.minimum_cash)
  BY <1>1, <1>2, PositiveOf
<1>4. Share(spare, case.sweep) \in Nat /\ Share(spare, case.sweep) <= spare
  BY <1>1, <1>3, ShareOf
<1>5. Total(by.sweep) \in Nat /\ Total(by.sweep) <= Share(spare, case.sweep) /\ by.cash = after - Total(by.sweep)
  BY <1>2 DEF Served, Fair
<1> QED BY <1>1, <1>3, <1>4, <1>5

\* Who was not paid in full was owed more than there was.
LEMMA UnpaidIsBroke ==
  ASSUME NEW case, WellFormed(case), NEW debt, DOMAIN debt = Loans(case), Due(case, debt), NEW cash \in Int,
         NEW by, NEW held \in Int, NEW after \in Int, Served(case, debt, cash, by, held, after),
         NEW i \in Loans(case), by.paid[i] < debt[i].required
  PROVE  /\ held < case.minimum_cash + Required(debt) /\ after <= 0
         /\ \A j \in Loans(case) : case.tranches[i].priority < case.tranches[j].priority => by.paid[j] = 0
<1>1. by.paid[i] \in Nat /\ debt[i].required \in Nat /\ by.paid[i] # debt[i].required
  BY DEF Served, Fair, Due
<1>2. Required(debt) \in Nat /\ case.minimum_cash \in Nat
  BY CaseIs, RequiredIsTotal
<1>3. held < case.minimum_cash + Required(debt)
  <2> SUFFICES ASSUME ~(held < case.minimum_cash + Required(debt)) PROVE FALSE
    OBVIOUS
  <2>1. held >= case.minimum_cash + Required(debt)
    BY <1>2
  <2>2. \A j \in Loans(case) : by.paid[j] = debt[j].required
    BY <2>1, EnoughIsPaid
  <2> QED BY <1>1, <2>2
<1>4. Total(by.paid) = Positive(held) /\ after = held - Total(by.paid)
  BY <1>1, PaidOrSpent
<1>5. after <= 0
  BY <1>4 DEF Positive, Greatest
<1>6. ASSUME NEW j \in Loans(case), case.tranches[i].priority < case.tranches[j].priority PROVE by.paid[j] = 0
  <2>1. by.paid[j] \in Nat /\ (by.paid[j] > 0 => by.paid[i] = Dues(case, debt)[i])
    BY <1>6 DEF Served, Fair, Precedes
  <2>2. Dues(case, debt)[i] = debt[i].required
    BY DEF Dues
  <2> QED BY <1>1, <2>1, <2>2
<1> QED BY <1>3, <1>5, <1>6

\* Who borrows has no more than the minimum left.
LEMMA BorrowedIsSpent ==
  ASSUME NEW case, WellFormed(case), NEW debt, DOMAIN debt = Loans(case), Due(case, debt), NEW cash \in Int,
         NEW by, NEW held \in Int, NEW after \in Int, Served(case, debt, cash, by, held, after),
         NEW i \in Loans(case), by.draw[i] > 0
  PROVE  after <= case.minimum_cash /\ by.draw[i] <= Room(case.tranches[i], debt[i])
<1>1. Required(debt) \in Nat /\ case.minimum_cash \in Nat
  BY CaseIs, RequiredIsTotal
<1>2. PICK gap : gap = case.minimum_cash + Required(debt) - cash
  OBVIOUS
<1>3. gap \in Int
  BY <1>1, <1>2
<1>4. Fair(case, Rooms(case, debt), Positive(gap), by.draw) /\ held = cash + Total(by.draw)
  BY <1>2 DEF Served
<1>5. Total(by.draw) \in Nat /\ Total(by.draw) <= Positive(gap) /\ by.draw[i] <= Room(case.tranches[i], debt[i])
  BY <1>4 DEF Fair, Rooms
<1>6. Positive(gap) = gap
  <2> SUFFICES ASSUME Positive(gap) # gap PROVE FALSE
    OBVIOUS
  <2>1. Positive(gap) = 0
    BY <1>3 DEF Positive, Greatest
  <2>2. by.draw[i] = 0
    BY <1>4, <2>1, NothingToShare
  <2> QED BY <2>2
<1>7. held <= case.minimum_cash + Required(debt)
  BY <1>1, <1>2, <1>4, <1>5, <1>6
<1>8. /\ Total(by.paid) \in Nat /\ after = held - Total(by.paid)
      /\ Total(by.paid) = Positive(held) \/ Total(by.paid) = Required(debt)
  BY PaidOrSpent
<1>9. Positive(held) >= held /\ Positive(held) \in Nat
  BY DEF Positive, Greatest
<1> QED BY <1>1, <1>5, <1>7, <1>8, <1>9

\* What is left of each tranche.
LEMMA EndingIsLeft ==
  ASSUME NEW case, WellFormed(case), NEW debt, DOMAIN debt = Loans(case), Due(case, debt), NEW cash \in Int,
         NEW by, NEW held \in Int, NEW after \in Int, Served(case, debt, cash, by, held, after)
  PROVE  /\ Ending(debt, by) \in [Loans(case) -> Nat]
         /\ \A i \in Loans(case) :
              Ending(debt, by)[i] = debt[i].prepayment + by.draw[i] - by.paid[i] - by.sweep[i]
<1>1. ASSUME NEW i \in Loans(case)
      PROVE  /\ Balance(debt, by, i) \in Nat
             /\ Balance(debt, by, i) = debt[i].prepayment + by.draw[i] - by.paid[i] - by.sweep[i]
  <2>1. by.draw[i] \in Nat
    BY DEF Served, Fair
  <2>2. by.paid[i] \in Nat /\ by.paid[i] <= debt[i].required
    BY DEF Served, Fair, Dues
  <2>3. debt[i].prepayment \in Nat /\ debt[i].required \in Nat /\ debt[i].required <= debt[i].prepayment
    BY DEF Due
  <2>4. by.sweep[i] \in Nat /\ by.sweep[i] <= Prepayable(case, debt, by)[i]
    BY DEF Served, Fair
  <2>5. by.sweep[i] <= debt[i].prepayment + by.draw[i] - by.paid[i]
    <3>1. Prepayable(case, debt, by)[i] = IF case.tranches[i].eligible THEN debt[i].prepayment + by.draw[i] - by.paid[i] ELSE 0
      BY DEF Prepayable
    <3> QED BY <2>1, <2>2, <2>3, <2>4, <3>1
  <2> QED BY <2>1, <2>2, <2>3, <2>4, <2>5 DEF Balance
<1>2. ASSUME NEW i \in Loans(case)
      PROVE  Ending(debt, by)[i] = Balance(debt, by, i)
  <2>1. Ending(debt, by)[i] = Positive(Balance(debt, by, i))
    BY DEF Ending
  <2>2. Positive(Balance(debt, by, i)) = Balance(debt, by, i)
    BY <1>1, PositiveOf
  <2> QED BY <2>1, <2>2
<1>3. Ending(debt, by) = [i \in Loans(case) |-> Positive(Balance(debt, by, i))]
  BY DEF Ending
<1>4. \A i \in Loans(case) : Positive(Balance(debt, by, i)) \in Nat
  BY <1>1, PositiveOf
<1>5. Ending(debt, by) \in [Loans(case) -> Nat]
  BY <1>3, <1>4
<1> QED BY <1>1, <1>2, <1>5

\* Nothing is lost between cash and debt.
LEMMA NothingIsLost ==
  ASSUME NEW case, WellFormed(case), NEW debt, DOMAIN debt = Loans(case), Due(case, debt), NEW cash \in Int,
         NEW by, NEW held \in Int, NEW after \in Int, Served(case, debt, cash, by, held, after)
  PROVE  /\ by.cash - Total(Ending(debt, by)) = cash - Total([i \in Loans(case) |-> debt[i].prepayment])
         /\ by.cash \in Int
<1>p. PICK S, e, a, b, c, d : /\ S = Loans(case) /\ e = Ending(debt, by) /\ a = [i \in Loans(case) |-> debt[i].prepayment]
                            /\ b = by.draw /\ c = by.paid /\ d = by.sweep
  OBVIOUS
<1>1. IsFiniteSet(S)
  BY <1>p, LoansAreFinite
<1>2. b \in [S -> Nat] /\ c \in [S -> Nat] /\ d \in [S -> Nat]
  BY <1>p DEF Served, Fair
<1>3. e \in [S -> Nat] /\ \A i \in S : e[i] = debt[i].prepayment + b[i] - c[i] - d[i]
  <2>1. /\ Ending(debt, by) \in [Loans(case) -> Nat]
        /\ \A i \in Loans(case) :
             Ending(debt, by)[i] = debt[i].prepayment + by.draw[i] - by.paid[i] - by.sweep[i]
    BY EndingIsLeft
  <2> QED BY <1>p, <2>1
<1>4. a \in [S -> Nat] /\ \A i \in S : a[i] = debt[i].prepayment
  BY <1>p DEF Due
<1>5. Numbers(a, S) /\ Numbers(b, S) /\ Numbers(c, S) /\ Numbers(d, S) /\ Numbers(e, S)
  BY <1>2, <1>3, <1>4 DEF Numbers
<1>6. Combines(S, e, a, b, c, d)
  BY <1>3, <1>4 DEF Combines
<1>7. Total(e) = Total(a) + Total(b) - Total(c) - Total(d)
  BY <1>1, <1>5, <1>6, TotalsCombine
<1>8. Total(a) \in Int
  BY <1>1, <1>5, TotalIsInt
<1>9. Total(b) \in Nat /\ Total(c) \in Nat /\ Total(d) \in Nat
  BY <1>p DEF Served, Fair
<1>10. held = cash + Total(b) /\ after = held - Total(c) /\ by.cash = after - Total(d)
  BY <1>p DEF Served
<1> QED BY <1>p, <1>7, <1>8, <1>9, <1>10

-----------------------------------------------------------------------------
(* A row in order.                                                         *)

LEMMA ServedInOrder ==
  ASSUME NEW case, WellFormed(case), NEW debt, DOMAIN debt = Loans(case), Due(case, debt), NEW cash \in Int,
         NEW by, NEW held \in Int, NEW after \in Int, Served(case, debt, cash, by, held, after),
         NEW row, row.debt = debt, row.before = cash, row.flow = by, row.ending = Ending(debt, by),
         row.cash = by.cash, row.owed = Total(Ending(debt, by))
  PROVE  InOrder(case, row)
<1> PICK loan, m : loan = case.tranches /\ m = case.minimum_cash
  OBVIOUS
<1>0. /\ m \in Nat /\ Required(debt) \in Nat /\ by.cash \in Int
      /\ \A i \in Loans(case) : loan[i].commitment \in Nat /\ debt[i].prepayment \in Nat
  BY NothingIsLost, RequiredIsTotal, LoansAreFinite, CaseIs DEF Loan, Due
<1>1. row.cash - row.owed = row.before - Total([i \in Loans(case) |-> row.debt[i].prepayment])
  <2>1. by.cash - Total(Ending(debt, by)) = cash - Total([i \in Loans(case) |-> debt[i].prepayment])
    BY NothingIsLost
  <2>2. [i \in Loans(case) |-> row.debt[i].prepayment] = [i \in Loans(case) |-> debt[i].prepayment]
    OBVIOUS
  <2> QED BY <2>1, <2>2
<1>2. ASSUME NEW i \in Loans(case), by.paid[i] < debt[i].required
      PROVE  /\ held < m + Required(debt) /\ after <= m /\ row.cash <= 0
             /\ \A j \in Loans(case) : loan[i].priority < loan[j].priority => by.paid[j] = 0
  <2>1. /\ held < m + Required(debt) /\ after <= 0
        /\ \A j \in Loans(case) : loan[i].priority < loan[j].priority => by.paid[j] = 0
    BY <1>2, UnpaidIsBroke
  <2>2. after <= m
    BY <1>0, <2>1
  <2>3. by.cash = after
    BY <2>2, ScarceIsKept
  <2> QED BY <2>1, <2>2, <2>3
<1>3. ASSUME row.cash < m
      PROVE  held < m + Required(debt) /\ after <= m
  <2>1. after < m
    BY <1>3, SweepLeavesMinimum
  <2>2. ~(held >= m + Required(debt))
    BY <1>0, <2>1, EnoughIsPaid
  <2> QED BY <1>0, <2>1, <2>2
<1>4. ASSUME NEW i \in Loans(case), by.paid[i] < debt[i].required \/ row.cash < m, NEW j \in Loans(case)
      PROVE  /\ by.sweep[j] = 0
             /\ loan[j].revolver /\ ~debt[j].mature => debt[j].prepayment + by.draw[j] >= loan[j].commitment
  <2>1. held < m + Required(debt) /\ after <= m
    BY <1>2, <1>3, <1>4
  <2>2. by.sweep[j] = 0
    BY <2>1, ScarceIsKept
  <2>3. by.draw[j] = Room(loan[j], debt[j])
    BY <2>1, ShortIsDrawn
  <2>4. ASSUME loan[j].revolver /\ ~debt[j].mature PROVE debt[j].prepayment + by.draw[j] >= loan[j].commitment
    <3>1. by.draw[j] = Positive(loan[j].commitment - debt[j].prepayment)
      BY <2>3, <2>4 DEF Room
    <3> QED BY <1>0, <3>1 DEF Positive, Greatest
  <2> QED BY <2>2, <2>4
<1>5. ASSUME NEW i \in Loans(case), by.draw[i] > 0
      PROVE  debt[i].prepayment + by.draw[i] <= loan[i].commitment /\ \A j \in Loans(case) : by.sweep[j] = 0
  <2>1. after <= m /\ by.draw[i] <= Room(loan[i], debt[i])
    BY <1>5, BorrowedIsSpent
  <2>2. \A j \in Loans(case) : by.sweep[j] = 0
    BY <2>1, ScarceIsKept
  <2>3. by.draw[i] \in Nat
    BY DEF Served, Fair
  <2>4. debt[i].prepayment + by.draw[i] <= loan[i].commitment
    BY <1>0, <1>5, <2>1, <2>3 DEF Room, Positive, Greatest
  <2> QED BY <2>2, <2>4
<1>6. ASSUME NEW i \in Loans(case), by.sweep[i] > 0, NEW j \in Loans(case),
             loan[j].priority < loan[i].priority, loan[j].eligible
      PROVE  row.ending[j] = 0
  <2>1. by.sweep[j] = Prepayable(case, debt, by)[j]
    BY <1>6 DEF Served, Fair, Precedes
  <2>2. by.sweep[j] = debt[j].prepayment + by.draw[j] - by.paid[j]
    BY <1>6, <2>1 DEF Prepayable
  <2>3. row.ending[j] = debt[j].prepayment + by.draw[j] - by.paid[j] - by.sweep[j]
    BY EndingIsLeft
  <2>4. by.draw[j] \in Nat /\ by.paid[j] \in Nat /\ by.sweep[j] \in Nat
    BY DEF Served, Fair
  <2> QED BY <1>0, <2>2, <2>3, <2>4
<1> QED BY <1>1, <1>2, <1>4, <1>5, <1>6 DEF InOrder

\* What a period starts with.
LEMMA BeforeIsInt ==
  ASSUME NEW case, WellFormed(case), NEW p \in Periods(case), NEW cash \in Int, NEW balance \in [Loans(case) -> Nat],
         NEW distribution \in Int, NEW debt, debt = Debts(case, p, balance)
  PROVE  BeforeService(case, p, cash, debt, distribution) \in Int
<1>1. /\ DOMAIN debt = Loans(case) /\ IsFiniteSet(Loans(case))
      /\ \A i \in Loans(case) : debt[i].interest \in Int /\ debt[i].pik \in Int
  BY DebtsAreDue, LoansAreFinite
<1>2. Interest(debt) \in Int
  <2> PICK f : f = [i \in Loans(case) |-> debt[i].interest]
    OBVIOUS
  <2>1. Numbers(f, Loans(case))
    BY <1>1 DEF Numbers
  <2>2. Total(f) \in Int
    BY <1>1, <2>1, TotalIsInt
  <2> QED BY <1>1, <2>2 DEF Interest
<1>3. PaidInKind(debt) \in Int
  <2> PICK f : f = [i \in Loans(case) |-> debt[i].pik]
    OBVIOUS
  <2>1. Numbers(f, Loans(case))
    BY <1>1 DEF Numbers
  <2>2. Total(f) \in Int
    BY <1>1, <2>1, TotalIsInt
  <2> QED BY <1>1, <2>2 DEF PaidInKind
<1>4. case.ebitda[p] \in Int /\ case.da[p] \in Int /\ case.capex[p] \in Int /\ case.nwc[p] \in Int /\ case.tax \in Percent
  <2>1. case.ebitda[p] \in Int
    BY CaseIs
  <2>2. case.da \in [Periods(case) -> Int] /\ case.capex \in [Periods(case) -> Int] /\ case.nwc \in [Periods(case) -> Int]
    BY CaseIs
  <2>3. case.tax \in Percent
    BY CaseIs
  <2> QED BY <2>1, <2>2, <2>3
<1>5. PICK profit : profit = case.ebitda[p] - case.da[p] - Interest(debt) - PaidInKind(debt)
  OBVIOUS
<1>6. profit \in Int
  BY <1>2, <1>3, <1>4, <1>5
<1>7. Taxes(case, p, debt) \in Int
  <2>1. Positive(profit) \in Nat
    BY <1>6, PositiveOf
  <2>2. Share(Positive(profit), case.tax) \in Nat
    BY <1>4, <2>1, ShareOf
  <2> QED BY <1>5, <2>2 DEF Taxes
<1> QED BY <1>2, <1>4, <1>7 DEF BeforeService

\* The figures of a row that outputs are made of.
Figures(row) == row.cash \in Int /\ row.owed \in Int /\ row.ebitda \in Int /\ row.liquidity \in Int

LEMMA PeriodInOrder ==
  ASSUME NEW case, WellFormed(case), NEW p \in Periods(case), NEW cash \in Int, NEW balance \in [Loans(case) -> Nat],
         NEW distribution \in Int, NEW row, row = PeriodRow(case, p, cash, balance, distribution)
  PROVE  InOrder(case, row) /\ Figures(row) /\ row.ending \in [Loans(case) -> Nat]
<1>1. PICK debt, before, by : /\ debt = Debts(case, p, balance)
                              /\ before = BeforeService(case, p, cash, debt, distribution)
                              /\ by = DebtService(case, debt, before)
  OBVIOUS
<1>2. row = Row(case, p, debt, before, by, Ending(debt, by))
  BY <1>1 DEF PeriodRow, Accrued, Afforded, Serviced
<1>3. /\ row.debt = debt /\ row.before = before /\ row.flow = by /\ row.ending = Ending(debt, by)
      /\ row.cash = by.cash /\ row.owed = Total(Ending(debt, by))
      /\ row.ebitda = case.ebitda[p] /\ row.liquidity = by.cash + Undrawn(case, Ending(debt, by))
  BY <1>2 DEF Row
<1>4. DOMAIN debt = Loans(case) /\ Due(case, debt) /\ before \in Int
  BY <1>1, DebtsAreDue, BeforeIsInt
<1>5. PICK held \in Int, after \in Int : Served(case, debt, before, by, held, after)
  BY <1>1, <1>4, ServiceIsServed
<1>6. InOrder(case, row)
  BY <1>3, <1>4, <1>5, ServedInOrder
<1>7. by.cash \in Int
  BY <1>4, <1>5, NothingIsLost
<1>8. Ending(debt, by) \in [Loans(case) -> Nat]
  BY <1>4, <1>5, EndingIsLeft
<1>9. IsFiniteSet(Loans(case)) /\ \A i \in Loans(case) : case.tranches[i].commitment \in Nat
  BY LoansAreFinite DEF Loan
<1>10. Total(Ending(debt, by)) \in Int
  <2>1. Numbers(Ending(debt, by), Loans(case))
    BY <1>8 DEF Numbers
  <2> QED BY <1>9, <2>1, TotalIsInt
<1>11. Undrawn(case, Ending(debt, by)) \in Int
  <2>1. PICK ending, room : /\ ending = Ending(debt, by)
                            /\ room = [i \in Loans(case) |->
                                        IF case.tranches[i].revolver
                                        THEN Positive(case.tranches[i].commitment - ending[i]) ELSE 0]
    OBVIOUS
  <2>2. ASSUME NEW i \in Loans(case) PROVE Positive(case.tranches[i].commitment - ending[i]) \in Nat
    <3>1. case.tranches[i].commitment - ending[i] \in Int
      BY <1>8, <1>9, <2>1
    <3> QED BY <3>1, PositiveOf
  <2>3. Numbers(room, Loans(case))
    BY <2>1, <2>2 DEF Numbers
  <2>4. Total(room) \in Int
    BY <1>9, <2>3, TotalIsInt
  <2> QED BY <2>1, <2>4 DEF Undrawn
<1>12. case.ebitda[p] \in Int
  BY CaseIs
<1>13. Figures(row)
  BY <1>3, <1>7, <1>10, <1>11, <1>12 DEF Figures
<1> QED BY <1>3, <1>6, <1>8, <1>13

-----------------------------------------------------------------------------
(* All of them.                                                            *)

\* After k years: a balance of no less than nothing, and k rows in order.
YearsInOrder(case, k, s) ==
  /\ s.cash \in Int /\ s.balance \in [Loans(case) -> Nat]
  /\ \E X : s.rows \in Seq(X) /\ \A row \in X : InOrder(case, row) /\ Figures(row)
  /\ Len(s.rows) = k

LEMMA NextYearInOrder ==
  ASSUME NEW case, WellFormed(case), NEW period, NEW amount \in Int, NEW p \in Periods(case),
         NEW s, YearsInOrder(case, p - 1, s)
  PROVE  YearsInOrder(case, p, NextYear(case, period, amount, s, p))
<1>1. PICK paid, row, t : /\ paid = (IF p = period THEN amount ELSE 0)
                          /\ row = PeriodRow(case, p, s.cash, s.balance, paid)
                          /\ t = NextYear(case, period, amount, s, p)
  OBVIOUS
<1>2. t = [cash |-> row.cash, balance |-> row.ending, rows |-> Append(s.rows, row)]
  BY <1>1 DEF NextYear
<1>3. paid \in Int /\ s.cash \in Int /\ s.balance \in [Loans(case) -> Nat]
  BY <1>1 DEF YearsInOrder
<1>4. InOrder(case, row) /\ Figures(row) /\ row.ending \in [Loans(case) -> Nat]
  BY <1>1, <1>3, PeriodInOrder
<1>5. PICK X : s.rows \in Seq(X) /\ \A x \in X : InOrder(case, x) /\ Figures(x)
  BY DEF YearsInOrder
<1>6. PICK Y : Y = X \cup {row}
  OBVIOUS
<1>7. s.rows \in Seq(Y) /\ row \in Y /\ \A x \in Y : InOrder(case, x) /\ Figures(x)
  BY <1>4, <1>5, <1>6
<1>8. Append(s.rows, row) \in Seq(Y) /\ Len(Append(s.rows, row)) = Len(s.rows) + 1
  BY <1>7
<1>9. Len(s.rows) + 1 = p
  <2>1. p \in Int /\ Len(s.rows) = p - 1
    BY CaseIs DEF YearsInOrder
  <2> QED BY <2>1
<1>10. t.cash = row.cash /\ t.balance = row.ending /\ t.rows = Append(s.rows, row)
  BY <1>2
<1>11. row.cash \in Int
  BY <1>4 DEF Figures
<1>12. YearsInOrder(case, p, t)
  BY <1>4, <1>7, <1>8, <1>9, <1>10, <1>11 DEF YearsInOrder
<1> QED BY <1>1, <1>12

\* A projection has a row for every period, each in order.
LEMMA ProjectionInOrder ==
  ASSUME NEW case, WellFormed(case), NEW period, NEW amount \in Int,
         NEW rows, rows = Projection(case, period, amount)
  PROVE  /\ DOMAIN rows = Periods(case) /\ Len(rows) = Len(case.ebitda)
         /\ \A p \in DOMAIN rows : InOrder(case, rows[p]) /\ Figures(rows[p])
<1>n. PICK n : n = Len(case.ebitda)
  OBVIOUS
<1>1. n \in Nat /\ Periods(case) = 1..n
  BY <1>n, CaseIs
<1>2. PICK c : /\ c[0] = YearStart(case) /\ c[n].rows = Projection(case, period, amount)
               /\ \A k \in 1..n : c[k] = NextYear(case, period, amount, c[k - 1], k)
  BY <1>n, YearRuns
<1> DEFINE B == {k \in 0..n : ~YearsInOrder(case, k, c[k])}
<1>3. YearsInOrder(case, 0, c[0])
  <2>1. PICK initial : initial = [i \in Loans(case) |-> case.tranches[i].initial]
    OBVIOUS
  <2>2. initial \in [Loans(case) -> Nat]
    BY <2>1, LoansAreFinite DEF Loan
  <2>3. c[0].cash = case.minimum_cash /\ c[0].balance = initial /\ c[0].rows = <<>>
    BY <1>2, <2>1 DEF YearStart
  <2>4. case.minimum_cash \in Int
    BY CaseIs
  <2>5. \E X : <<>> \in Seq(X) /\ \A row \in X : InOrder(case, row) /\ Figures(row)
    <3>1. PICK X : X = {}
      OBVIOUS
    <3>2. <<>> \in Seq(X) /\ \A row \in X : InOrder(case, row) /\ Figures(row)
      BY <3>1
    <3> QED BY <3>2
  <2>6. Len(<<>>) = 0
    OBVIOUS
  <2> QED BY <2>2, <2>3, <2>4, <2>5, <2>6 DEF YearsInOrder
<1>4. ASSUME NEW k \in 1..n, k - 1 \notin B PROVE k \notin B
  <2>1. k - 1 \in 0..n
    BY <1>1
  <2>2. YearsInOrder(case, k - 1, c[k - 1])
    BY <1>4, <2>1
  <2>3. YearsInOrder(case, k, NextYear(case, period, amount, c[k - 1], k))
    <3>1. PICK s : s = c[k - 1]
      OBVIOUS
    <3>2. YearsInOrder(case, k - 1, s) /\ k \in Periods(case)
      BY <1>1, <2>2, <3>1
    <3> QED BY <3>1, <3>2, NextYearInOrder
  <2> QED BY <1>2, <2>3
<1>5. 0 \notin B /\ B \subseteq 0..n
  BY <1>3
<1> HIDE DEF B
<1>6. B = {}
  BY <1>1, <1>4, <1>5, AlongTheRun
<1>7. YearsInOrder(case, n, c[n])
  <2>1. n \in 0..n
    BY <1>1
  <2> QED BY <1>6, <2>1 DEF B
<1>8. c[n].rows = rows
  BY <1>2
<1>9. PICK X : rows \in Seq(X) /\ (\A row \in X : InOrder(case, row) /\ Figures(row)) /\ Len(rows) = n
  BY <1>7, <1>8 DEF YearsInOrder
<1> QED BY <1>n, <1>1, <1>9

-----------------------------------------------------------------------------
(* Two fair shares compared. Somebody in want of more, with less to share  *)
(* out, is left with no more, and nobody else gains by it.                 *)

\* Less is shared out among those who can take more: no more is left over, and
\* who had less than they could take is not given more.
LEMMA SharesCompared ==
  ASSUME NEW case, WellFormed(case),
         NEW cap, Limits(cap, Loans(case)), NEW pool \in Nat, NEW f, Fair(case, cap, pool, f),
         NEW more, Limits(more, Loans(case)), NEW less \in Nat, NEW g, Fair(case, more, less, g),
         less <= pool, \A i \in Loans(case) : cap[i] <= more[i]
  PROVE  /\ less - Total(g) <= pool - Total(f)
         /\ \A i \in Loans(case) : f[i] = cap[i] \/ g[i] <= f[i]
<1> PICK S : S = Loans(case)
  OBVIOUS
<1>1. IsFiniteSet(S) /\ \A i \in S : cap[i] \in Nat /\ more[i] \in Nat
  BY LoansAreFinite DEF Limits
<1>2. /\ f \in [S -> Nat] /\ Total(f) \in Nat /\ Total(f) <= pool /\ \A i \in S : f[i] <= cap[i]
      /\ Total(f) = pool \/ \A i \in S : f[i] = cap[i]
      /\ \A i, j \in S : Precedes(case, i, j) /\ f[j] > 0 => f[i] = cap[i]
  BY DEF Fair
<1>3. /\ g \in [S -> Nat] /\ Total(g) \in Nat /\ Total(g) <= less /\ \A i \in S : g[i] <= more[i]
      /\ Total(g) = less \/ \A i \in S : g[i] = more[i]
      /\ \A i, j \in S : Precedes(case, i, j) /\ g[j] > 0 => g[i] = more[i]
  BY DEF Fair
<1>4. Numbers(f, S) /\ Numbers(g, S)
  BY <1>2, <1>3 DEF Numbers
<1>5. less - Total(g) <= pool - Total(f)
  <2>1. CASE Total(g) = less
    BY <1>2, <1>3, <2>1
  <2>2. CASE \A i \in S : g[i] = more[i]
    <3>1. \A i \in S : f[i] <= g[i]
      BY <1>1, <1>2, <1>3, <2>2
    <3>2. Total(f) <= Total(g)
      BY <1>1, <1>4, <3>1, TotalsAscend
    <3> QED BY <1>2, <1>3, <3>2
  <2> QED BY <1>3, <2>1, <2>2
<1>6. ASSUME NEW i \in S, f[i] # cap[i], g[i] > f[i] PROVE FALSE
  <2>1. Total(f) = pool
    BY <1>2, <1>6
  <2>2. ASSUME NEW j \in S PROVE f[j] <= g[j]
    <3>1. CASE Precedes(case, i, j)
      <4>1. ~(f[j] > 0)
        BY <1>2, <1>6, <3>1
      <4> QED BY <1>2, <1>3, <4>1
    <3>2. CASE Precedes(case, j, i)
      <4>1. g[j] = more[j]
        BY <1>2, <1>3, <1>6, <3>2
      <4> QED BY <1>1, <1>2, <1>3, <4>1
    <3>3. CASE i = j
      BY <1>2, <1>3, <1>6, <3>3
    <3> QED BY <3>1, <3>2, <3>3, PrecedesOrders
  <2>3. Total(f) <= Total(g)
    BY <1>1, <1>4, <2>2, TotalsAscend
  <2>4. Total(f) = Total(g)
    BY <1>2, <1>3, <2>1, <2>3
  <2>5. \A j \in S : f[j] = g[j]
    BY <1>1, <1>4, <2>2, <2>4, TotalsMeet
  <2> QED BY <1>2, <1>3, <1>6, <2>5
<1>7. \A i \in S : f[i] = cap[i] \/ g[i] <= f[i]
  <2> SUFFICES ASSUME NEW i \in S, f[i] # cap[i], ~(g[i] <= f[i]) PROVE FALSE
    OBVIOUS
  <2> QED BY <1>2, <1>3, <1>6
<1> QED BY <1>5, <1>7

\* A harder case: the same debt in leaner years.
Harder(case, hard) ==
  /\ hard.tranches = case.tranches /\ hard.minimum_cash = case.minimum_cash /\ hard.sweep = case.sweep
  /\ hard.tax = case.tax /\ hard.da = case.da /\ hard.capex = case.capex /\ hard.nwc = case.nwc
  /\ hard.exit_multiple = case.exit_multiple /\ SponsorEquity(hard) = SponsorEquity(case)
  /\ case.base <= hard.base
  /\ DOMAIN hard.ebitda = DOMAIN case.ebitda
  /\ \A p \in DOMAIN case.ebitda : hard.ebitda[p] <= case.ebitda[p]

\* Only the tranches matter to what is fair.
LEMMA FairAlike ==
  ASSUME NEW case, NEW hard, Harder(case, hard), NEW cap, NEW pool, NEW f, Fair(hard, cap, pool, f)
  PROVE  Fair(case, cap, pool, f)
<1>1. Loans(hard) = Loans(case) /\ \A i, j : Precedes(hard, i, j) <=> Precedes(case, i, j)
  BY DEF Harder, Loans, Precedes
<1> QED BY <1>1 DEF Fair

\* More is owed of every tranche, more falls due, but of a revolver that can be
\* drawn no more, and more stays after that.
Heavier(case, debt, worse) ==
  \A i \in Loans(case) :
    /\ debt[i].prepayment <= worse[i].prepayment /\ debt[i].required <= worse[i].required
    /\ debt[i].prepayment - debt[i].required <= worse[i].prepayment - worse[i].required
    /\ worse[i].mature = debt[i].mature
    /\ case.tranches[i].revolver /\ ~debt[i].mature => worse[i].required = debt[i].required

LEMMA MoreIsRequired ==
  ASSUME NEW case, WellFormed(case), NEW debt, DOMAIN debt = Loans(case), Due(case, debt),
         NEW worse, DOMAIN worse = Loans(case), Due(case, worse), Heavier(case, debt, worse)
  PROVE  Required(debt) <= Required(worse)
<1>p. PICK v, w : v = Dues(case, debt) /\ w = Dues(case, worse)
  OBVIOUS
<1>1. /\ Required(debt) = Total(v) /\ Numbers(v, Loans(case)) /\ \A i \in Loans(case) : v[i] = debt[i].required
      /\ Required(worse) = Total(w) /\ Numbers(w, Loans(case)) /\ \A i \in Loans(case) : w[i] = worse[i].required
  BY <1>p, RequiredIsTotal
<1>2. IsFiniteSet(Loans(case)) /\ \A i \in Loans(case) : v[i] <= w[i]
  BY <1>1, LoansAreFinite DEF Heavier
<1> QED BY <1>1, <1>2, TotalsAscend

-----------------------------------------------------------------------------
(* Two debt services compared, draw, payment and sweep: a company that     *)
(* owes more of every tranche and has less cash ends with no more cash and *)
(* no less debt in any tranche.                                            *)

\* The debt service of a period, of what is owed and the cash there was.
Service(case, debt, cash, by, held, after) ==
  /\ DOMAIN debt = Loans(case) /\ Due(case, debt)
  /\ cash \in Int /\ held \in Int /\ after \in Int
  /\ Served(case, debt, cash, by, held, after)

LEMMA ServiceAlike ==
  ASSUME NEW case, NEW hard, Harder(case, hard), NEW debt, NEW cash, NEW by, NEW held, NEW after,
         Service(hard, debt, cash, by, held, after)
  PROVE  Service(case, debt, cash, by, held, after)
<1>1. Loans(hard) = Loans(case) /\ hard.tranches = case.tranches
      /\ hard.minimum_cash = case.minimum_cash /\ hard.sweep = case.sweep
  BY DEF Harder, Loans
<1>2. Rooms(hard, debt) = Rooms(case, debt) /\ Dues(hard, debt) = Dues(case, debt)
      /\ Prepayable(hard, debt, by) = Prepayable(case, debt, by)
  BY <1>1 DEF Rooms, Dues, Prepayable
<1>3. Served(hard, debt, cash, by, held, after)
  BY DEF Service
<1>4. Served(case, debt, cash, by, held, after)
  BY <1>1, <1>2, <1>3, FairAlike DEF Served
<1> QED BY <1>1, <1>4 DEF Service, Due

\* What is drawn of a revolver with less room never makes up for what is owed more of it.
LEMMA RoomFalls ==
  ASSUME NEW case, WellFormed(case), NEW debt, Due(case, debt), NEW worse, Due(case, worse), Heavier(case, debt, worse),
         NEW i \in Loans(case)
  PROVE  /\ Rooms(case, debt)[i] \in Nat /\ Rooms(case, worse)[i] \in Nat
         /\ Rooms(case, worse)[i] <= Rooms(case, debt)[i]
         /\ debt[i].prepayment + Rooms(case, debt)[i] <= worse[i].prepayment + Rooms(case, worse)[i]
<1>1. debt[i].prepayment \in Nat /\ worse[i].prepayment \in Nat /\ case.tranches[i].commitment \in Nat
  BY LoansAreFinite DEF Due, Loan
<1>2. debt[i].prepayment <= worse[i].prepayment /\ worse[i].mature = debt[i].mature
  BY DEF Heavier
<1>3. Rooms(case, debt)[i] = Room(case.tranches[i], debt[i]) /\ Rooms(case, worse)[i] = Room(case.tranches[i], worse[i])
  BY DEF Rooms
<1> QED BY <1>1, <1>2, <1>3 DEF Room, Positive, Greatest

\* Who owes more and has less borrows no less: more is owed of every tranche
\* after the draws, and no more cash is in hand when revolvers ran out before.
LEMMA DrawnCompared ==
  ASSUME NEW case, WellFormed(case),
         NEW debt, NEW cash, NEW by, NEW held, NEW after, Service(case, debt, cash, by, held, after),
         NEW worse, NEW less, NEW off, NEW kept, NEW rest, Service(case, worse, less, off, kept, rest),
         Heavier(case, debt, worse), less <= cash
  PROVE  /\ \A i \in Loans(case) :
              /\ by.draw[i] \in Nat /\ off.draw[i] \in Nat
              /\ debt[i].prepayment + by.draw[i] <= worse[i].prepayment + off.draw[i]
              /\ Rooms(case, debt)[i] = 0 => by.draw[i] = 0 /\ off.draw[i] = 0
         /\ held < case.minimum_cash + Required(debt) => kept <= held
         /\ held >= case.minimum_cash + Required(debt) =>
              /\ held = Greatest(cash, case.minimum_cash + Required(debt))
         /\ kept <= Greatest(less, case.minimum_cash + Required(worse))
<1>0. /\ DOMAIN debt = Loans(case) /\ Due(case, debt) /\ cash \in Int /\ held \in Int /\ after \in Int
      /\ Served(case, debt, cash, by, held, after)
      /\ DOMAIN worse = Loans(case) /\ Due(case, worse) /\ less \in Int /\ kept \in Int /\ rest \in Int
      /\ Served(case, worse, less, off, kept, rest)
  BY DEF Service
<1>p. PICK S, cap, more, gap, wide, f, g :
         /\ S = Loans(case) /\ cap = Rooms(case, debt) /\ more = Rooms(case, worse)
         /\ gap = Positive(case.minimum_cash + Required(debt) - cash)
         /\ wide = Positive(case.minimum_cash + Required(worse) - less)
         /\ f = by.draw /\ g = off.draw
  OBVIOUS
<1>1. case.minimum_cash \in Nat /\ Required(debt) \in Nat /\ Required(worse) \in Nat /\ Required(debt) <= Required(worse)
  BY <1>0, CaseIs, RequiredIsTotal, MoreIsRequired
<1>2. gap \in Nat /\ wide \in Nat /\ gap <= wide
  BY <1>0, <1>1, <1>p DEF Positive, Greatest
<1>3. Limits(cap, S) /\ Limits(more, S)
  BY <1>0, <1>p, RoomsAreLimits
<1>4. \A i \in S : cap[i] \in Nat /\ more[i] \in Nat /\ more[i] <= cap[i] /\ debt[i].prepayment + cap[i] <= worse[i].prepayment + more[i]
  BY <1>0, <1>p, RoomFalls
<1>5. Fair(case, cap, gap, f) /\ Fair(case, more, wide, g) /\ held = cash + Total(f) /\ kept = less + Total(g)
  BY <1>0, <1>p DEF Served
<1>6. /\ gap - Total(f) <= wide - Total(g)
      /\ \A i \in S : g[i] = more[i] \/ f[i] <= g[i]
  <2>1. Limits(more, Loans(case)) /\ Limits(cap, Loans(case)) /\ \A i \in Loans(case) : more[i] <= cap[i]
    BY <1>3, <1>4, <1>p
  <2>2. /\ gap - Total(f) <= wide - Total(g)
        /\ \A i \in Loans(case) : g[i] = more[i] \/ f[i] <= g[i]
    BY <1>2, <1>5, <2>1, SharesCompared
  <2> QED BY <1>p, <2>2
<1>7. /\ f \in [S -> Nat] /\ Total(f) \in Nat /\ Total(f) <= gap /\ \A i \in S : f[i] <= cap[i]
      /\ g \in [S -> Nat] /\ Total(g) \in Nat /\ Total(g) <= wide /\ \A i \in S : g[i] <= more[i]
      /\ Total(f) = gap \/ \A i \in S : f[i] = cap[i]
  BY <1>5, <1>p DEF Fair
<1>8. \A i \in S : debt[i].prepayment \in Nat /\ worse[i].prepayment \in Nat /\ debt[i].prepayment <= worse[i].prepayment
  BY <1>0, <1>p DEF Due, Heavier
<1>9. ASSUME NEW i \in S
      PROVE  /\ f[i] \in Nat /\ g[i] \in Nat
             /\ debt[i].prepayment + f[i] <= worse[i].prepayment + g[i]
             /\ cap[i] = 0 => f[i] = 0 /\ g[i] = 0
  BY <1>4, <1>6, <1>7, <1>8
<1>10. held < case.minimum_cash + Required(debt) => kept <= held
  <2> SUFFICES ASSUME held < case.minimum_cash + Required(debt) PROVE kept <= held
    OBVIOUS
  <2>1. Total(f) # gap
    BY <1>0, <1>1, <1>5, <1>p DEF Positive, Greatest
  <2>2. \A i \in S : g[i] <= f[i]
    BY <1>4, <1>7, <2>1
  <2>3. Total(g) <= Total(f)
    <3>1. Numbers(f, S) /\ Numbers(g, S) /\ IsFiniteSet(S)
      BY <1>7, <1>p, LoansAreFinite DEF Numbers
    <3> QED BY <2>2, <3>1, TotalsAscend
  <2> QED BY <1>0, <1>5, <1>7, <2>3
<1>11. held >= case.minimum_cash + Required(debt) => held = Greatest(cash, case.minimum_cash + Required(debt))
  BY <1>0, <1>1, <1>5, <1>7, <1>p DEF Positive, Greatest
<1>12. kept <= Greatest(less, case.minimum_cash + Required(worse))
  BY <1>0, <1>1, <1>5, <1>7, <1>p DEF Positive, Greatest
<1> QED BY <1>9, <1>10, <1>11, <1>12, <1>p

\* What no room is drawn of was not there to be paid either.
LEMMA StaysAfterPay ==
  ASSUME NEW case, WellFormed(case), NEW debt, Due(case, debt), NEW worse, Due(case, worse), Heavier(case, debt, worse),
         NEW i \in Loans(case), NEW x \in Nat, NEW y \in Nat,
         debt[i].prepayment + x <= worse[i].prepayment + y,
         Rooms(case, debt)[i] = 0 => x = 0 /\ y = 0
  PROVE  debt[i].prepayment + x - debt[i].required <= worse[i].prepayment + y - worse[i].required
<1>1. /\ debt[i].prepayment \in Nat /\ worse[i].prepayment \in Nat /\ debt[i].required \in Nat /\ worse[i].required \in Nat
      /\ debt[i].prepayment - debt[i].required <= worse[i].prepayment - worse[i].required
  BY DEF Due, Heavier
<1>2. CASE case.tranches[i].revolver /\ ~debt[i].mature
  <2>1. worse[i].required = debt[i].required
    BY <1>2 DEF Heavier
  <2> QED BY <1>1, <2>1
<1>3. CASE ~(case.tranches[i].revolver /\ ~debt[i].mature)
  <2>1. Rooms(case, debt)[i] = 0
    BY <1>3 DEF Rooms, Room
  <2> QED BY <1>1, <2>1
<1> QED BY <1>2, <1>3

\* After amortization: no more cash, no less debt in any tranche.
LEMMA PaidCompared ==
  ASSUME NEW case, WellFormed(case),
         NEW debt, NEW cash, NEW by, NEW held, NEW after, Service(case, debt, cash, by, held, after),
         NEW worse, NEW less, NEW off, NEW kept, NEW rest, Service(case, worse, less, off, kept, rest),
         Heavier(case, debt, worse), less <= cash
  PROVE  /\ rest <= after
         /\ \A i \in Loans(case) :
              debt[i].prepayment + by.draw[i] - by.paid[i] <= worse[i].prepayment + off.draw[i] - off.paid[i]
<1>0. /\ DOMAIN debt = Loans(case) /\ Due(case, debt) /\ cash \in Int /\ held \in Int /\ after \in Int
      /\ Served(case, debt, cash, by, held, after)
      /\ DOMAIN worse = Loans(case) /\ Due(case, worse) /\ less \in Int /\ kept \in Int /\ rest \in Int
      /\ Served(case, worse, less, off, kept, rest)
  BY DEF Service
<1>p. PICK S, m, f, g, dues, more : /\ S = Loans(case) /\ m = case.minimum_cash /\ f = by.paid /\ g = off.paid
                                    /\ dues = Dues(case, debt) /\ more = Dues(case, worse)
  OBVIOUS
<1>1. m \in Nat /\ Required(debt) \in Nat /\ Required(worse) \in Nat /\ Required(debt) <= Required(worse)
  BY <1>0, <1>p, CaseIs, RequiredIsTotal, MoreIsRequired
<1>2. \A i \in S :
        /\ by.draw[i] \in Nat /\ off.draw[i] \in Nat
        /\ debt[i].prepayment + by.draw[i] <= worse[i].prepayment + off.draw[i]
        /\ Rooms(case, debt)[i] = 0 => by.draw[i] = 0 /\ off.draw[i] = 0
  BY <1>p, DrawnCompared
<1>3. /\ held < m + Required(debt) => kept <= held
      /\ held >= m + Required(debt) => held = Greatest(cash, m + Required(debt))
      /\ kept <= Greatest(less, m + Required(worse))
  BY <1>p, DrawnCompared
<1>4. /\ f \in [S -> Nat] /\ g \in [S -> Nat]
      /\ \A i \in S : f[i] <= debt[i].required /\ g[i] <= worse[i].required
      /\ \A i \in S : debt[i].prepayment \in Nat /\ worse[i].prepayment \in Nat
      /\ \A i \in S : debt[i].required \in Nat /\ worse[i].required \in Nat /\ debt[i].required <= worse[i].required
  BY <1>0, <1>p DEF Served, Fair, Dues, Due, Heavier
<1>5. ASSUME NEW i \in S, f[i] = debt[i].required \/ g[i] <= f[i]
      PROVE  debt[i].prepayment + by.draw[i] - f[i] <= worse[i].prepayment + off.draw[i] - g[i]
  <2>1. CASE f[i] = debt[i].required
    <3>1. debt[i].prepayment + by.draw[i] - debt[i].required <= worse[i].prepayment + off.draw[i] - worse[i].required
      BY <1>0, <1>2, <1>p, StaysAfterPay
    <3> QED BY <1>2, <1>4, <2>1, <3>1
  <2>2. CASE g[i] <= f[i]
    BY <1>2, <1>4, <2>2
  <2> QED BY <1>5, <2>1, <2>2
<1>6. /\ Total(g) \in Nat /\ Total(g) <= Required(worse) /\ rest = kept - Total(g)
      /\ Total(g) = Positive(kept) \/ Total(g) = Required(worse)
  BY <1>0, <1>p, PaidOrSpent
<1>7. CASE held >= m + Required(debt)
  <2>1. \A i \in S : f[i] = debt[i].required
    BY <1>0, <1>7, <1>p, EnoughIsPaid
  <2>2. after = held - Required(debt)
    <3>1. /\ Total(f) \in Nat /\ Total(f) <= Required(debt) /\ after = held - Total(f)
          /\ Total(f) = Positive(held) \/ Total(f) = Required(debt)
      BY <1>0, <1>p, PaidOrSpent
    <3>2. Positive(held) = held
      BY <1>0, <1>1, <1>7, PositiveOf
    <3> QED BY <1>0, <1>1, <1>7, <3>1, <3>2
  <2>3. after = Greatest(cash - Required(debt), m)
    BY <1>0, <1>1, <1>3, <1>7, <2>2 DEF Greatest
  <2>4. rest <= after
    <3>1. CASE Total(g) = Positive(kept)
      BY <1>0, <1>1, <1>6, <2>3, <3>1 DEF Positive, Greatest
    <3>2. CASE Total(g) = Required(worse)
      BY <1>0, <1>1, <1>3, <1>6, <2>3, <3>2 DEF Greatest
    <3> QED BY <1>6, <3>1, <3>2
  <2> QED BY <1>5, <2>1, <2>4, <1>p
<1>8. CASE held < m + Required(debt)
  <2>1. kept <= held /\ Positive(held) \in Nat /\ Positive(kept) \in Nat /\ Positive(kept) <= Positive(held)
    BY <1>0, <1>3, <1>8 DEF Positive, Greatest
  <2>2. /\ Positive(kept) - Total(g) <= Positive(held) - Total(f)
        /\ \A i \in S : f[i] = dues[i] \/ g[i] <= f[i]
    <3>1. /\ Limits(dues, Loans(case)) /\ Limits(more, Loans(case)) /\ \A i \in Loans(case) : dues[i] <= more[i]
      BY <1>4, <1>p DEF Limits, Dues
    <3>2. Fair(case, dues, Positive(held), f) /\ Fair(case, more, Positive(kept), g)
      BY <1>0, <1>p DEF Served
    <3>3. /\ Positive(kept) - Total(g) <= Positive(held) - Total(f)
          /\ \A i \in Loans(case) : f[i] = dues[i] \/ g[i] <= f[i]
      BY <2>1, <3>1, <3>2, SharesCompared
    <3> QED BY <1>p, <3>3
  <2>3. \A i \in S : dues[i] = debt[i].required
    BY <1>p DEF Dues
  <2>4. rest <= after
    <3>1. after = held - Total(f) /\ Total(f) \in Nat
      BY <1>0, <1>p, PaidOrSpent
    <3> QED BY <1>0, <1>6, <2>1, <2>2, <3>1 DEF Positive, Greatest
  <2> QED BY <1>5, <2>2, <2>3, <2>4, <1>p
<1> QED BY <1>0, <1>1, <1>7, <1>8

\* A share grows with the amount, and no faster.
LEMMA ShareGrows ==
  ASSUME NEW x \in Nat, NEW y \in Nat, x <= y, NEW p \in Percent
  PROVE  /\ Share(x, p) \in Nat /\ Share(y, p) \in Nat
         /\ Share(x, p) <= Share(y, p) /\ Share(y, p) - Share(x, p) <= y - x
<1>1. p \in Nat /\ p <= 100
  BY DEF Percent
<1>2. PICK d : d = y - x
  OBVIOUS
<1>3. d \in Nat
  BY <1>2
<1>4. PICK a, b : a = x * p /\ b = d * p
  OBVIOUS
<1>5. a \in Nat /\ b \in Nat
  BY <1>1, <1>3, <1>4
<1>6. b <= d * 100
  BY <1>1, <1>3, <1>4
<1>7. y * p = a + b
  BY <1>1, <1>2, <1>3, <1>4
<1>8. /\ a \div 100 \in Nat /\ (a + b) \div 100 \in Nat
      /\ a \div 100 <= (a + b) \div 100 /\ (a + b) \div 100 - a \div 100 <= d
  BY <1>3, <1>5, <1>6
<1> QED BY <1>2, <1>4, <1>7, <1>8 DEF Share

\* After the sweep: no more cash, no less debt in any tranche.
LEMMA SweptCompared ==
  ASSUME NEW case, WellFormed(case),
         NEW debt, NEW cash, NEW by, NEW held, NEW after, Service(case, debt, cash, by, held, after),
         NEW worse, NEW less, NEW off, NEW kept, NEW rest, Service(case, worse, less, off, kept, rest),
         Heavier(case, debt, worse), less <= cash
  PROVE  /\ off.cash <= by.cash
         /\ \A i \in Loans(case) : Ending(debt, by)[i] <= Ending(worse, off)[i]
<1>0. /\ DOMAIN debt = Loans(case) /\ Due(case, debt) /\ cash \in Int /\ held \in Int /\ after \in Int
      /\ Served(case, debt, cash, by, held, after)
      /\ DOMAIN worse = Loans(case) /\ Due(case, worse) /\ less \in Int /\ kept \in Int /\ rest \in Int
      /\ Served(case, worse, less, off, kept, rest)
  BY DEF Service
<1>p. PICK S, m, cap, more, spare, scant, pool, few, f, g :
         /\ S = Loans(case) /\ m = case.minimum_cash /\ f = by.sweep /\ g = off.sweep
         /\ cap = Prepayable(case, debt, by) /\ more = Prepayable(case, worse, off)
         /\ spare = Positive(after - m) /\ scant = Positive(rest - m)
         /\ pool = Share(spare, case.sweep) /\ few = Share(scant, case.sweep)
  OBVIOUS
<1>1. /\ rest <= after
      /\ \A i \in S : debt[i].prepayment + by.draw[i] - by.paid[i] <= worse[i].prepayment + off.draw[i] - off.paid[i]
  BY <1>p, PaidCompared
<1>2. m \in Nat /\ case.sweep \in Percent
  BY <1>p, CaseIs
<1>3. spare \in Nat /\ scant \in Nat /\ scant <= spare /\ rest - scant <= after - spare
  BY <1>0, <1>1, <1>2, <1>p DEF Positive, Greatest
<1>4. pool \in Nat /\ few \in Nat /\ few <= pool /\ pool - few <= spare - scant
  BY <1>2, <1>3, <1>p, ShareGrows
<1>5. /\ by.draw \in [S -> Nat] /\ by.paid \in [S -> Nat] /\ off.draw \in [S -> Nat] /\ off.paid \in [S -> Nat]
      /\ \A i \in S : by.paid[i] <= debt[i].prepayment /\ off.paid[i] <= worse[i].prepayment
      /\ \A i \in S : debt[i].prepayment \in Nat /\ worse[i].prepayment \in Nat
  <2>1. /\ by.draw \in [S -> Nat] /\ by.paid \in [S -> Nat] /\ off.draw \in [S -> Nat] /\ off.paid \in [S -> Nat]
        /\ \A i \in S : by.paid[i] <= debt[i].required /\ off.paid[i] <= worse[i].required
    BY <1>0, <1>p DEF Served, Fair, Dues
  <2>2. \A i \in S : /\ debt[i].prepayment \in Nat /\ worse[i].prepayment \in Nat
                     /\ debt[i].required \in Nat /\ worse[i].required \in Nat
                     /\ debt[i].required <= debt[i].prepayment /\ worse[i].required <= worse[i].prepayment
    BY <1>0, <1>p DEF Due
  <2> QED BY <2>1, <2>2
<1>6. ASSUME NEW i \in S
      PROVE  /\ cap[i] \in Nat /\ more[i] \in Nat /\ cap[i] <= more[i]
             /\ case.tranches[i].eligible => cap[i] = debt[i].prepayment + by.draw[i] - by.paid[i]
             /\ ~case.tranches[i].eligible => cap[i] = 0 /\ more[i] = 0
  <2>1. /\ cap[i] = IF case.tranches[i].eligible THEN debt[i].prepayment + by.draw[i] - by.paid[i] ELSE 0
        /\ more[i] = IF case.tranches[i].eligible THEN worse[i].prepayment + off.draw[i] - off.paid[i] ELSE 0
    BY <1>p DEF Prepayable
  <2>2. /\ by.draw[i] \in Nat /\ by.paid[i] \in Nat /\ off.draw[i] \in Nat /\ off.paid[i] \in Nat
    BY <1>5
  <2> QED BY <1>1, <1>5, <2>1, <2>2
<1>7. Limits(cap, S) /\ Limits(more, S)
  BY <1>6, <1>p DEF Limits, Prepayable
<1>8. Fair(case, cap, pool, f) /\ Fair(case, more, few, g) /\ by.cash = after - Total(f) /\ off.cash = rest - Total(g)
  BY <1>0, <1>p DEF Served
<1>9. /\ few - Total(g) <= pool - Total(f)
      /\ \A i \in S : f[i] = cap[i] \/ g[i] <= f[i]
  <2>1. Limits(cap, Loans(case)) /\ Limits(more, Loans(case)) /\ \A i \in Loans(case) : cap[i] <= more[i]
    BY <1>6, <1>7, <1>p
  <2>2. /\ few - Total(g) <= pool - Total(f)
        /\ \A i \in Loans(case) : f[i] = cap[i] \/ g[i] <= f[i]
    BY <1>4, <1>8, <2>1, SharesCompared
  <2> QED BY <1>p, <2>2
<1>10. /\ f \in [S -> Nat] /\ g \in [S -> Nat] /\ Total(f) \in Nat /\ Total(g) \in Nat
       /\ \A i \in S : f[i] <= cap[i] /\ g[i] <= more[i]
  BY <1>8, <1>p DEF Fair
<1>11. off.cash <= by.cash
  BY <1>0, <1>3, <1>4, <1>8, <1>9, <1>10
<1>12. /\ Ending(debt, by) \in [S -> Nat] /\ Ending(worse, off) \in [S -> Nat]
       /\ \A i \in S : Ending(debt, by)[i] = debt[i].prepayment + by.draw[i] - by.paid[i] - f[i]
       /\ \A i \in S : Ending(worse, off)[i] = worse[i].prepayment + off.draw[i] - off.paid[i] - g[i]
  BY <1>0, <1>p, EndingIsLeft
<1>13. ASSUME NEW i \in S PROVE Ending(debt, by)[i] <= Ending(worse, off)[i]
  <2>n. /\ Ending(debt, by)[i] \in Nat /\ Ending(worse, off)[i] \in Nat /\ f[i] \in Nat /\ g[i] \in Nat
        /\ by.draw[i] \in Nat /\ by.paid[i] \in Nat /\ off.draw[i] \in Nat /\ off.paid[i] \in Nat
    BY <1>5, <1>10, <1>12
  <2>1. CASE case.tranches[i].eligible /\ f[i] = cap[i]
    <3>1. Ending(debt, by)[i] = 0
      BY <1>5, <1>6, <1>12, <2>1, <2>n
    <3> QED BY <2>n, <3>1
  <2>2. CASE g[i] <= f[i]
    BY <1>1, <1>5, <1>12, <2>2, <2>n
  <2>3. CASE ~case.tranches[i].eligible
    <3>1. f[i] = 0 /\ g[i] = 0
      BY <1>6, <1>10, <2>3, <2>n
    <3> QED BY <2>2, <3>1
  <2> QED BY <1>9, <2>1, <2>2, <2>3
<1> QED BY <1>11, <1>13, <1>p

-----------------------------------------------------------------------------
(* Two periods compared. What is owed follows from what was owed before.   *)

\* A tranche of which more is owed, whatever its rate.
LEMMA RowHeavier ==
  ASSUME NEW case, WellFormed(case), NEW hard, Harder(case, hard),
         NEW p, NEW i \in Loans(case), NEW opening \in Nat, NEW more \in Nat, opening <= more,
         NEW row, row = DebtRow(case, i, p, opening), NEW worse, worse = DebtRow(hard, i, p, more)
  PROVE  /\ row.prepayment <= worse.prepayment /\ row.required <= worse.required
         /\ row.prepayment - row.required <= worse.prepayment - worse.required
         /\ worse.mature = row.mature
<1>p. PICK loan, due, kind, piled :
         /\ loan = case.tranches[i] /\ due = Share(loan.initial, loan.amort)
         /\ kind = Share(opening, loan.pik) /\ piled = Share(more, loan.pik)
  OBVIOUS
<1>1. loan \in Loan /\ hard.tranches[i] = loan
  BY <1>p, LoansAreFinite DEF Harder
<1>2. loan.initial \in Nat /\ loan.maturity \in Nat /\ loan.pik \in Percent /\ loan.amort \in Percent
  BY <1>1 DEF Loan
<1>3. due \in Nat
  BY <1>2, <1>p, ShareOf
<1>4. kind \in Nat /\ piled \in Nat /\ kind <= piled
  BY <1>2, <1>p, ShareGrows
<1>5. /\ row.prepayment = opening + kind /\ row.mature = (loan.maturity = p)
      /\ row.required = IF loan.maturity = p THEN opening + kind ELSE Least(opening + kind, due)
  BY <1>p DEF DebtRow
<1>6. /\ worse.prepayment = more + piled /\ worse.mature = (loan.maturity = p)
      /\ worse.required = IF loan.maturity = p THEN more + piled ELSE Least(more + piled, due)
  BY <1>1, <1>p DEF DebtRow
<1>7. PICK x, y : x = opening + kind /\ y = more + piled
  OBVIOUS
<1>8. x \in Nat /\ y \in Nat /\ x <= y
  BY <1>4, <1>7
<1>9. CASE loan.maturity = p
  <2>1. row.prepayment = x /\ worse.prepayment = y /\ row.required = x /\ worse.required = y
    BY <1>5, <1>6, <1>7, <1>9
  <2> QED BY <1>5, <1>6, <1>8, <2>1
<1>10. CASE loan.maturity # p
  <2>1. row.prepayment = x /\ worse.prepayment = y /\ row.required = Least(x, due) /\ worse.required = Least(y, due)
    BY <1>5, <1>6, <1>7, <1>10
  <2>2. Least(x, due) <= Least(y, due) /\ x - Least(x, due) <= y - Least(y, due)
    BY <1>3, <1>8 DEF Least
  <2> QED BY <1>5, <1>6, <1>8, <2>1, <2>2
<1> QED BY <1>9, <1>10

\* All of them, if no revolver that can be drawn is due more.
LEMMA DebtsHeavier ==
  ASSUME NEW case, WellFormed(case), NEW hard, WellFormed(hard), Harder(case, hard),
         NEW p, NEW balance \in [Loans(case) -> Nat], NEW more \in [Loans(case) -> Nat],
         \A i \in Loans(case) : balance[i] <= more[i],
         NEW debt, debt = Debts(case, p, balance), NEW worse, worse = Debts(hard, p, more),
         \A i \in Loans(case) : case.tranches[i].revolver /\ ~worse[i].mature => worse[i].required = debt[i].required
  PROVE  /\ DOMAIN debt = Loans(case) /\ DOMAIN worse = Loans(case)
         /\ Due(case, debt) /\ Due(hard, worse) /\ Due(case, worse) /\ Heavier(case, debt, worse)
<1>1. Loans(hard) = Loans(case)
  BY DEF Harder, Loans
<1>2. DOMAIN debt = Loans(case) /\ DOMAIN worse = Loans(case) /\ Due(case, debt) /\ Due(hard, worse)
  BY <1>1, DebtsAreDue
<1>3. Due(case, worse)
  BY <1>1, <1>2 DEF Due
<1>4. ASSUME NEW i \in Loans(case)
      PROVE  /\ debt[i].prepayment <= worse[i].prepayment /\ debt[i].required <= worse[i].required
             /\ debt[i].prepayment - debt[i].required <= worse[i].prepayment - worse[i].required
             /\ worse[i].mature = debt[i].mature
  <2>1. PICK opening, heavy, row, bad :
          /\ opening = balance[i] /\ heavy = more[i]
          /\ row = DebtRow(case, i, p, opening) /\ bad = DebtRow(hard, i, p, heavy)
    OBVIOUS
  <2>2. debt[i] = row /\ worse[i] = bad
    BY <1>1, <2>1 DEF Debts
  <2>3. opening \in Nat /\ heavy \in Nat /\ opening <= heavy
    BY <2>1
  <2>4. /\ row.prepayment <= bad.prepayment /\ row.required <= bad.required
        /\ row.prepayment - row.required <= bad.prepayment - bad.required
        /\ bad.mature = row.mature
    BY <2>1, <2>3, RowHeavier
  <2> QED BY <2>2, <2>4
<1>5. Heavier(case, debt, worse)
  BY <1>4 DEF Heavier
<1> QED BY <1>2, <1>3, <1>5

LEMMA InterestIsInt ==
  ASSUME NEW case, WellFormed(case), NEW p, NEW balance \in [Loans(case) -> Nat], NEW debt, debt = Debts(case, p, balance)
  PROVE  Interest(debt) \in Int /\ PaidInKind(debt) \in Int
<1>1. /\ DOMAIN debt = Loans(case) /\ IsFiniteSet(Loans(case))
      /\ \A i \in Loans(case) : debt[i].interest \in Int /\ debt[i].pik \in Int
  BY DebtsAreDue, LoansAreFinite
<1> PICK f, g : f = [i \in Loans(case) |-> debt[i].interest] /\ g = [i \in Loans(case) |-> debt[i].pik]
  OBVIOUS
<1>2. Numbers(f, Loans(case)) /\ Numbers(g, Loans(case))
  BY <1>1 DEF Numbers
<1>3. Total(f) \in Int /\ Total(g) \in Int
  BY <1>1, <1>2, TotalIsInt
<1> QED BY <1>1, <1>3 DEF Interest, PaidInKind

LEMMA TaxesAreInt ==
  ASSUME NEW case, WellFormed(case), NEW p \in Periods(case), NEW debt,
         Interest(debt) \in Int, PaidInKind(debt) \in Int
  PROVE  Taxes(case, p, debt) \in Int
<1>1. case.ebitda[p] \in Int /\ case.da \in [Periods(case) -> Int] /\ case.tax \in Percent
  BY CaseIs
<1>2. PICK earned : earned = case.ebitda[p] - case.da[p] - Interest(debt) - PaidInKind(debt)
  OBVIOUS
<1>3. Positive(earned) \in Nat
  <2>1. earned \in Int
    BY <1>1, <1>2
  <2> QED BY <2>1, PositiveOf
<1>4. Share(Positive(earned), case.tax) \in Nat
  BY <1>1, <1>3, ShareOf
<1> QED BY <1>2, <1>4 DEF Taxes

\* A row no better than another: less cash and liquidity, and more debt in
\* every tranche; what falls due grows with it.
Worse(case, row, than) ==
  /\ Figures(row) /\ Figures(than)
  /\ row.ending \in [Loans(case) -> Nat] /\ than.ending \in [Loans(case) -> Nat]
  /\ \A i \in Loans(case) : than.ending[i] <= row.ending[i]
  /\ row.cash <= than.cash /\ row.liquidity <= than.liquidity
  /\ than.owed <= row.owed /\ row.ebitda <= than.ebitda
  /\ row.interest \in Int /\ than.interest \in Int
  /\ row.charges \in Int /\ than.charges \in Int
  /\ row.interest - than.interest <= row.charges - than.charges
  /\ row.covered \in Int /\ than.covered \in Int

LEMMA UndrawnCompared ==
  ASSUME NEW case, WellFormed(case), NEW ending \in [Loans(case) -> Nat], NEW more \in [Loans(case) -> Nat],
         \A i \in Loans(case) : ending[i] <= more[i]
  PROVE  Undrawn(case, ending) \in Int /\ Undrawn(case, more) \in Int /\ Undrawn(case, more) <= Undrawn(case, ending)
<1>1. IsFiniteSet(Loans(case)) /\ \A i \in Loans(case) : case.tranches[i].commitment \in Nat
  BY LoansAreFinite DEF Loan
<1>2. PICK v, w :
        /\ v = [i \in Loans(case) |->
                  IF case.tranches[i].revolver THEN Positive(case.tranches[i].commitment - more[i]) ELSE 0]
        /\ w = [i \in Loans(case) |->
                  IF case.tranches[i].revolver THEN Positive(case.tranches[i].commitment - ending[i]) ELSE 0]
  OBVIOUS
<1>3. ASSUME NEW i \in Loans(case)
      PROVE  LET x == Positive(case.tranches[i].commitment - more[i])
                 y == Positive(case.tranches[i].commitment - ending[i])
             IN x \in Nat /\ y \in Nat /\ x <= y
  BY <1>1 DEF Positive, Greatest
<1>4. Numbers(v, Loans(case)) /\ Numbers(w, Loans(case)) /\ \A i \in Loans(case) : v[i] <= w[i]
  BY <1>2, <1>3 DEF Numbers
<1>5. Total(v) \in Int /\ Total(w) \in Int /\ Total(v) <= Total(w)
  BY <1>1, <1>4, TotalIsInt, TotalsAscend
<1> QED BY <1>2, <1>5 DEF Undrawn

LEMMA ServiceExists ==
  ASSUME NEW case, WellFormed(case), NEW debt, DOMAIN debt = Loans(case), Due(case, debt), NEW cash \in Int,
         NEW by, by = DebtService(case, debt, cash)
  PROVE  \E held, after : Service(case, debt, cash, by, held, after)
<1>1. PICK held \in Int, after \in Int : Served(case, debt, cash, by, held, after)
  BY ServiceIsServed
<1> QED BY <1>1 DEF Service

\* What a row is made of.
LEMMA RowIs ==
  ASSUME NEW case, NEW p, NEW cash, NEW balance, NEW distribution,
         NEW row, row = PeriodRow(case, p, cash, balance, distribution),
         NEW debt, debt = Debts(case, p, balance),
         NEW before, before = BeforeService(case, p, cash, debt, distribution),
         NEW by, by = DebtService(case, debt, before), NEW ending, ending = Ending(debt, by)
  PROVE  /\ row.debt = debt
         /\ row.ending = ending /\ row.cash = by.cash /\ row.owed = Total(ending) /\ row.ebitda = case.ebitda[p]
         /\ row.interest = Interest(debt) /\ row.charges = Interest(debt) + Required(debt)
         /\ row.covered = case.ebitda[p] - case.capex[p] - Taxes(case, p, debt)
         /\ row.liquidity = by.cash + Undrawn(case, ending)
<1>1. row = Row(case, p, debt, before, by, ending)
  BY DEF PeriodRow, Accrued, Afforded, Serviced
<1> QED BY <1>1 DEF Row

\* A period that starts with less cash, more debt, a harder case or a greater
\* payout ends no better, unless the debt was a bargain.
LEMMA PeriodCompared ==
  ASSUME NEW case, WellFormed(case), NEW hard, WellFormed(hard), Harder(case, hard),
         NEW p \in Periods(case), NEW cash \in Int, NEW less \in Int, less <= cash,
         NEW balance \in [Loans(case) -> Nat], NEW more \in [Loans(case) -> Nat],
         \A i \in Loans(case) : balance[i] <= more[i],
         NEW amount \in Int, NEW larger \in Int, amount <= larger,
         NEW row, row = PeriodRow(case, p, cash, balance, amount),
         NEW worse, worse = PeriodRow(hard, p, less, more, larger),
         NoBargain(case, worse, row)
  PROVE  Worse(case, worse, row)
<1>1. /\ Loans(hard) = Loans(case) /\ Periods(hard) = Periods(case) /\ hard.tranches = case.tranches
      /\ hard.capex = case.capex /\ hard.nwc = case.nwc
  BY DEF Harder, Loans, Periods
<1>2. PICK debt, before, by, ending :
        /\ debt = Debts(case, p, balance) /\ before = BeforeService(case, p, cash, debt, amount)
        /\ by = DebtService(case, debt, before) /\ ending = Ending(debt, by)
  OBVIOUS
<1>3. PICK owed, short, off, left :
        /\ owed = Debts(hard, p, more) /\ short = BeforeService(hard, p, less, owed, larger)
        /\ off = DebtService(hard, owed, short) /\ left = Ending(owed, off)
  OBVIOUS
<1>4. /\ row.debt = debt
      /\ row.ending = ending /\ row.cash = by.cash /\ row.owed = Total(ending) /\ row.ebitda = case.ebitda[p]
      /\ row.interest = Interest(debt) /\ row.charges = Interest(debt) + Required(debt)
      /\ row.covered = case.ebitda[p] - case.capex[p] - Taxes(case, p, debt)
      /\ row.liquidity = by.cash + Undrawn(case, ending)
  BY <1>2, RowIs
<1>5. /\ worse.debt = owed
      /\ worse.ending = left /\ worse.cash = off.cash /\ worse.owed = Total(left) /\ worse.ebitda = hard.ebitda[p]
      /\ worse.interest = Interest(owed) /\ worse.charges = Interest(owed) + Required(owed)
      /\ worse.covered = hard.ebitda[p] - case.capex[p] - Taxes(hard, p, owed)
      /\ worse.liquidity = off.cash + Undrawn(case, left)
  <2>1. Undrawn(hard, left) = Undrawn(case, left)
    BY <1>1 DEF Undrawn
  <2>2. /\ worse.debt = owed
        /\ worse.ending = left /\ worse.cash = off.cash /\ worse.owed = Total(left) /\ worse.ebitda = hard.ebitda[p]
        /\ worse.interest = Interest(owed) /\ worse.charges = Interest(owed) + Required(owed)
        /\ worse.covered = hard.ebitda[p] - hard.capex[p] - Taxes(hard, p, owed)
        /\ worse.liquidity = off.cash + Undrawn(hard, left)
    BY <1>3, RowIs
  <2> QED BY <1>1, <2>1, <2>2
<1>6. /\ DOMAIN debt = Loans(case) /\ DOMAIN owed = Loans(case)
      /\ Due(case, debt) /\ Due(hard, owed) /\ Due(case, owed) /\ Heavier(case, debt, owed)
  <2>1. \A i \in Loans(case) : case.tranches[i].revolver /\ ~owed[i].mature => owed[i].required = debt[i].required
    BY <1>4, <1>5 DEF NoBargain
  <2> QED BY <1>2, <1>3, <2>1, DebtsHeavier
<1>7. PICK tax, less_tax, interest, dear :
        /\ tax = Taxes(case, p, debt) /\ less_tax = Taxes(hard, p, owed)
        /\ interest = Interest(debt) /\ dear = Interest(owed)
  OBVIOUS
<1>8. /\ interest \in Int /\ dear \in Int /\ tax \in Int /\ less_tax \in Int
  <2>1. Interest(debt) \in Int /\ PaidInKind(debt) \in Int /\ Interest(owed) \in Int /\ PaidInKind(owed) \in Int
    BY <1>1, <1>2, <1>3, InterestIsInt
  <2>2. Taxes(case, p, debt) \in Int
    BY <2>1, TaxesAreInt
  <2>3. Taxes(hard, p, owed) \in Int
    BY <1>1, <2>1, TaxesAreInt
  <2> QED BY <1>7, <2>1, <2>2, <2>3
<1>9. PICK e, h, c, n : e = case.ebitda[p] /\ h = hard.ebitda[p] /\ c = case.capex[p] /\ n = case.nwc[p]
  OBVIOUS
<1>10. e \in Int /\ h \in Int /\ h <= e /\ c \in Int /\ n \in Int
  <2>1. case.ebitda[p] \in Int /\ hard.ebitda[p] \in Int
    BY <1>1, CaseIs
  <2>2. case.capex \in [Periods(case) -> Int] /\ case.nwc \in [Periods(case) -> Int]
    BY CaseIs
  <2>3. hard.ebitda[p] <= case.ebitda[p]
    BY DEF Harder, Periods
  <2> QED BY <1>9, <2>1, <2>2, <2>3
<1>11. before \in Int /\ short \in Int /\ short <= before
  <2>1. before = cash + e - tax - c - n - interest - amount
    BY <1>2, <1>7, <1>9 DEF BeforeService
  <2>2. short = less + h - less_tax - c - n - dear - larger
    BY <1>1, <1>3, <1>7, <1>9 DEF BeforeService
  <2>3. (h - c - less_tax) - dear <= (e - c - tax) - interest
    BY <1>4, <1>5, <1>7, <1>9 DEF NoBargain
  <2> QED BY <1>8, <1>10, <2>1, <2>2, <2>3
<1>12. PICK held, after : Service(case, debt, before, by, held, after)
  BY <1>2, <1>6, <1>11, ServiceExists
<1>13. PICK kept, rest : Service(case, owed, short, off, kept, rest)
  <2>1. PICK kept, rest : Service(hard, owed, short, off, kept, rest)
    BY <1>1, <1>3, <1>6, <1>11, ServiceExists
  <2>2. Service(case, owed, short, off, kept, rest)
    BY <2>1, ServiceAlike
  <2> QED BY <2>2
<1>14. off.cash <= by.cash /\ \A i \in Loans(case) : ending[i] <= left[i]
  BY <1>2, <1>3, <1>6, <1>11, <1>12, <1>13, SweptCompared
<1>15. /\ Figures(row) /\ row.ending \in [Loans(case) -> Nat]
       /\ Figures(worse) /\ worse.ending \in [Loans(case) -> Nat]
  <2>1. Figures(row) /\ row.ending \in [Loans(case) -> Nat]
    BY PeriodInOrder
  <2>2. Figures(worse) /\ worse.ending \in [Loans(hard) -> Nat]
    <3>1. p \in Periods(hard) /\ more \in [Loans(hard) -> Nat]
      BY <1>1
    <3> QED BY <3>1, PeriodInOrder
  <2> QED BY <1>1, <2>1, <2>2
<1>16. Undrawn(case, ending) \in Int /\ Undrawn(case, left) \in Int /\ Undrawn(case, left) <= Undrawn(case, ending)
  BY <1>4, <1>5, <1>14, <1>15, UndrawnCompared
<1>17. row.owed <= worse.owed
  <2>1. Numbers(ending, Loans(case)) /\ Numbers(left, Loans(case)) /\ IsFiniteSet(Loans(case))
    BY <1>4, <1>5, <1>15, LoansAreFinite DEF Numbers
  <2>2. Total(ending) <= Total(left)
    BY <1>14, <2>1, TotalsAscend
  <2> QED BY <1>4, <1>5, <2>2
<1>18. Required(debt) \in Nat /\ Required(owed) \in Nat /\ Required(debt) <= Required(owed)
  BY <1>6, RequiredIsTotal, MoreIsRequired
<1>19. row.cash \in Int /\ worse.cash \in Int
  BY <1>15 DEF Figures
<1>20. /\ worse.cash <= row.cash /\ worse.liquidity <= row.liquidity
       /\ \A i \in Loans(case) : row.ending[i] <= worse.ending[i]
  BY <1>4, <1>5, <1>14, <1>16, <1>19
<1>21. /\ worse.interest \in Int /\ row.interest \in Int /\ worse.charges \in Int /\ row.charges \in Int
       /\ worse.interest - row.interest <= worse.charges - row.charges
  <2>1. /\ worse.interest = dear /\ row.interest = interest
        /\ worse.charges = dear + Required(owed) /\ row.charges = interest + Required(debt)
    BY <1>4, <1>5, <1>7
  <2> QED BY <1>8, <1>18, <2>1
<1>22. worse.covered \in Int /\ row.covered \in Int /\ worse.ebitda <= row.ebitda
  <2>1. row.covered = e - c - tax /\ worse.covered = h - c - less_tax /\ row.ebitda = e /\ worse.ebitda = h
    BY <1>4, <1>5, <1>7, <1>9
  <2> QED BY <1>8, <1>10, <2>1
<1> QED BY <1>15, <1>17, <1>20, <1>21, <1>22 DEF Worse

-----------------------------------------------------------------------------
(* Two projections compared, year by year.                                 *)

\* Debt was no bargain in any of the first k years.
NoBargains(case, k, rows, than) == \A q \in 1..k : NoBargain(case, rows[q], than[q])

\* After k years: k rows, of which none is better as long as debt was no
\* bargain, and so are cash and debts.
YearsCompared(case, k, s, t) ==
  /\ \E X : s.rows \in Seq(X) /\ t.rows \in Seq(X)
  /\ Len(s.rows) = k /\ Len(t.rows) = k
  /\ NoBargains(case, k, t.rows, s.rows) =>
       /\ s.cash \in Int /\ t.cash \in Int /\ t.cash <= s.cash
       /\ s.balance \in [Loans(case) -> Nat] /\ t.balance \in [Loans(case) -> Nat]
       /\ \A i \in Loans(case) : s.balance[i] <= t.balance[i]
  /\ \A q \in 1..k : NoBargains(case, q, t.rows, s.rows) => Worse(case, t.rows[q], s.rows[q])

LEMMA NextYearCompared ==
  ASSUME NEW case, WellFormed(case), NEW hard, WellFormed(hard), Harder(case, hard),
         NEW period, NEW amount \in Nat, NEW larger \in Nat, amount <= larger,
         NEW p \in Periods(case), NEW s, NEW t, YearsCompared(case, p - 1, s, t)
  PROVE  YearsCompared(case, p, NextYear(case, period, amount, s, p), NextYear(hard, period, larger, t, p))
<1>1. PICK paid, more, row, bad, u, v :
        /\ paid = (IF p = period THEN amount ELSE 0) /\ more = (IF p = period THEN larger ELSE 0)
        /\ row = PeriodRow(case, p, s.cash, s.balance, paid) /\ bad = PeriodRow(hard, p, t.cash, t.balance, more)
        /\ u = NextYear(case, period, amount, s, p) /\ v = NextYear(hard, period, larger, t, p)
  OBVIOUS
<1>2. /\ u = [cash |-> row.cash, balance |-> row.ending, rows |-> Append(s.rows, row)]
      /\ v = [cash |-> bad.cash, balance |-> bad.ending, rows |-> Append(t.rows, bad)]
  BY <1>1 DEF NextYear
<1>3. paid \in Int /\ more \in Int /\ paid <= more
  BY <1>1
<1>4. PICK X : s.rows \in Seq(X) /\ t.rows \in Seq(X)
  BY DEF YearsCompared
<1>5. PICK Y : Y = X \cup {row, bad}
  OBVIOUS
<1>6. s.rows \in Seq(Y) /\ t.rows \in Seq(Y) /\ row \in Y /\ bad \in Y
  BY <1>4, <1>5
<1>7. p \in Nat \ {0} /\ Len(s.rows) = p - 1 /\ Len(t.rows) = p - 1
  BY CaseIs DEF YearsCompared
<1>8. PICK a, b : a = Append(s.rows, row) /\ b = Append(t.rows, bad)
  OBVIOUS
<1>9. /\ a \in Seq(Y) /\ b \in Seq(Y) /\ Len(a) = p /\ Len(b) = p /\ a[p] = row /\ b[p] = bad
      /\ \A q \in 1..(p - 1) : a[q] = s.rows[q] /\ b[q] = t.rows[q]
  BY <1>6, <1>7, <1>8
<1>10. ASSUME NEW q \in 1..(p - 1), NoBargains(case, q, b, a)
       PROVE  NoBargains(case, q, t.rows, s.rows)
  <2>1. \A j \in 1..q : j \in 1..(p - 1)
    BY <1>7
  <2> QED BY <1>9, <1>10, <2>1 DEF NoBargains
<1>11. ASSUME NoBargains(case, p, b, a) PROVE NoBargains(case, p - 1, t.rows, s.rows)
  <2>1. \A j \in 1..(p - 1) : j \in 1..p
    BY <1>7
  <2> QED BY <1>9, <1>11, <2>1 DEF NoBargains
<1>12. ASSUME NoBargains(case, p, b, a) PROVE Worse(case, bad, row)
  <2>1. PICK cash, less, balance, heavy : cash = s.cash /\ less = t.cash /\ balance = s.balance /\ heavy = t.balance
    OBVIOUS
  <2>2. /\ cash \in Int /\ less \in Int /\ less <= cash
        /\ balance \in [Loans(case) -> Nat] /\ heavy \in [Loans(case) -> Nat]
        /\ \A i \in Loans(case) : balance[i] <= heavy[i]
    BY <1>11, <1>12, <2>1 DEF YearsCompared
  <2>3. NoBargain(case, bad, row)
    <3>1. p \in 1..p
      BY <1>7
    <3> QED BY <1>9, <1>12, <3>1 DEF NoBargains
  <2>4. row = PeriodRow(case, p, cash, balance, paid) /\ bad = PeriodRow(hard, p, less, heavy, more)
    BY <1>1, <2>1
  <2> QED BY <1>3, <2>2, <2>3, <2>4, PeriodCompared
<1>13. ASSUME NEW q \in 1..p, NoBargains(case, q, b, a) PROVE Worse(case, b[q], a[q])
  <2>1. CASE q = p
    BY <1>9, <1>12, <1>13, <2>1
  <2>2. CASE q # p
    <3>1. q \in 1..(p - 1)
      BY <1>7, <2>2
    <3>2. Worse(case, t.rows[q], s.rows[q])
      BY <1>10, <1>13, <3>1 DEF YearsCompared
    <3> QED BY <1>9, <3>1, <3>2
  <2> QED BY <2>1, <2>2
<1>14. u.cash = row.cash /\ v.cash = bad.cash /\ u.balance = row.ending /\ v.balance = bad.ending /\ u.rows = a /\ v.rows = b
  BY <1>2, <1>8
<1>15. ASSUME NoBargains(case, p, b, a)
       PROVE  /\ row.cash \in Int /\ bad.cash \in Int /\ bad.cash <= row.cash
              /\ row.ending \in [Loans(case) -> Nat] /\ bad.ending \in [Loans(case) -> Nat]
              /\ \A i \in Loans(case) : row.ending[i] <= bad.ending[i]
  BY <1>12, <1>15 DEF Worse, Figures
<1>16. YearsCompared(case, p, u, v)
  BY <1>9, <1>13, <1>14, <1>15 DEF YearsCompared
<1> QED BY <1>1, <1>16

\* Period by period, the projection of a harder case with a larger payout is
\* no better, as long as debt is no bargain.
LEMMA ProjectionsCompared ==
  ASSUME NEW case, WellFormed(case), NEW hard, WellFormed(hard), Harder(case, hard),
         NEW period, NEW amount \in Nat, NEW larger \in Nat, amount <= larger,
         NEW rows, rows = Projection(case, period, amount), NEW worse, worse = Projection(hard, period, larger)
  PROVE  /\ DOMAIN rows = Periods(case) /\ DOMAIN worse = Periods(case)
         /\ Len(rows) = Len(case.ebitda) /\ Len(worse) = Len(case.ebitda)
         /\ \A p \in Periods(case) : NoBargains(case, p, worse, rows) => Worse(case, worse[p], rows[p])
<1>n. PICK n : n = Len(case.ebitda)
  OBVIOUS
<1>1. n \in Nat /\ Periods(case) = 1..n /\ Periods(hard) = 1..n /\ Len(hard.ebitda) = n
  <2>1. n \in Nat \ {0} /\ Periods(case) = 1..n /\ Len(hard.ebitda) \in Nat \ {0} /\ Periods(hard) = 1..Len(hard.ebitda)
    BY <1>n, CaseIs
  <2>2. Periods(hard) = Periods(case)
    BY DEF Harder, Periods
  <2>3. n \in 1..Len(hard.ebitda) /\ Len(hard.ebitda) \in 1..n
    BY <2>1, <2>2
  <2> QED BY <2>1, <2>2, <2>3
<1>2. PICK c : /\ c[0] = YearStart(case) /\ c[n].rows = Projection(case, period, amount)
               /\ \A k \in 1..n : c[k] = NextYear(case, period, amount, c[k - 1], k)
  BY <1>n, YearRuns
<1>3. PICK d : /\ d[0] = YearStart(hard) /\ d[n].rows = Projection(hard, period, larger)
               /\ \A k \in 1..n : d[k] = NextYear(hard, period, larger, d[k - 1], k)
  <2>1. n = Len(hard.ebitda)
    BY <1>1
  <2> HIDE <1>1
  <2> QED BY <2>1, YearRuns
<1> DEFINE B == {k \in 0..n : ~YearsCompared(case, k, c[k], d[k])}
<1>4. YearsCompared(case, 0, c[0], d[0])
  <2>1. PICK initial : initial = [i \in Loans(case) |-> case.tranches[i].initial]
    OBVIOUS
  <2>2. initial \in [Loans(case) -> Nat]
    BY <2>1, LoansAreFinite DEF Loan
  <2>3. d[0] = c[0]
    BY <1>2, <1>3 DEF YearStart, Harder, Loans
  <2>4. c[0].cash = case.minimum_cash /\ c[0].balance = initial /\ c[0].rows = <<>>
    BY <1>2, <2>1 DEF YearStart
  <2>5. case.minimum_cash \in Int
    BY CaseIs
  <2>6. \E X : <<>> \in Seq(X)
    <3>1. PICK X : X = {}
      OBVIOUS
    <3>2. <<>> \in Seq(X)
      BY <3>1
    <3> QED BY <3>2
  <2>7. Len(<<>>) = 0 /\ \A q \in 1..0 : FALSE
    OBVIOUS
  <2>8. \A i \in Loans(case) : initial[i] <= initial[i]
    BY <2>2
  <2> QED BY <2>2, <2>3, <2>4, <2>5, <2>6, <2>7, <2>8 DEF YearsCompared
<1>5. ASSUME NEW k \in 1..n, k - 1 \notin B PROVE k \notin B
  <2>1. k - 1 \in 0..n
    BY <1>1
  <2>2. YearsCompared(case, k - 1, c[k - 1], d[k - 1])
    BY <1>5, <2>1
  <2>3. PICK s, t : s = c[k - 1] /\ t = d[k - 1]
    OBVIOUS
  <2>4. YearsCompared(case, k - 1, s, t) /\ k \in Periods(case)
    BY <1>1, <2>2, <2>3
  <2>5. YearsCompared(case, k, NextYear(case, period, amount, s, k), NextYear(hard, period, larger, t, k))
    BY <2>4, NextYearCompared
  <2> QED BY <1>2, <1>3, <2>3, <2>5
<1>6. 0 \notin B /\ B \subseteq 0..n
  BY <1>4
<1> HIDE DEF B
<1>7. B = {}
  BY <1>1, <1>5, <1>6, AlongTheRun
<1>8. YearsCompared(case, n, c[n], d[n])
  <2>1. n \in 0..n
    BY <1>1
  <2> QED BY <1>7, <2>1 DEF B
<1>9. c[n].rows = rows /\ d[n].rows = worse
  BY <1>2, <1>3
<1>10. PICK X : rows \in Seq(X) /\ worse \in Seq(X) /\ Len(rows) = n /\ Len(worse) = n
                /\ \A q \in 1..n : NoBargains(case, q, worse, rows) => Worse(case, worse[q], rows[q])
  BY <1>8, <1>9 DEF YearsCompared
<1> QED BY <1>n, <1>1, <1>10

-----------------------------------------------------------------------------
(* Two payouts compared.                                                   *)

LEMMA HarderThanItself ==
  ASSUME NEW case, WellFormed(case) PROVE Harder(case, case)
<1>1. case.base \in Int /\ case.ebitda \in Seq(Int)
  BY CaseIs
<1>2. \A p \in DOMAIN case.ebitda : case.ebitda[p] \in Int
  BY <1>1
<1> QED BY <1>1, <1>2 DEF Harder

\* The ending balances and totals of a worse row.
LEMMA WorseIsNoBetter ==
  ASSUME NEW case, NEW row, NEW than, Worse(case, row, than) PROVE NoBetter(row, than)
<1>1. /\ row.ending \in [Loans(case) -> Nat] /\ than.ending \in [Loans(case) -> Nat]
      /\ \A i \in Loans(case) : than.ending[i] <= row.ending[i]
      /\ row.cash <= than.cash /\ row.liquidity <= than.liquidity
  BY DEF Worse
<1>2. PICK more, less : more = row.ending /\ less = than.ending
  OBVIOUS
<1>3. \A i \in DOMAIN more : more[i] >= less[i]
  BY <1>1, <1>2
<1> QED BY <1>1, <1>2, <1>3 DEF NoBetter

\* What a row charges, and two rows that charge the same.
Amounts(row) == row.interest \in Int /\ row.charges \in Int /\ row.covered \in Int

Alike(row, than) ==
  /\ row.debt = than.debt /\ row.interest = than.interest
  /\ row.charges = than.charges /\ row.covered = than.covered

LEMMA RowIsInt ==
  ASSUME NEW case, WellFormed(case), NEW p \in Periods(case), NEW cash, NEW balance \in [Loans(case) -> Nat],
         NEW distribution, NEW row, row = PeriodRow(case, p, cash, balance, distribution)
  PROVE  Amounts(row)
<1>1. PICK debt, before, by, ending :
        /\ debt = Debts(case, p, balance) /\ before = BeforeService(case, p, cash, debt, distribution)
        /\ by = DebtService(case, debt, before) /\ ending = Ending(debt, by)
  OBVIOUS
<1>2. /\ row.interest = Interest(debt) /\ row.charges = Interest(debt) + Required(debt)
      /\ row.covered = case.ebitda[p] - case.capex[p] - Taxes(case, p, debt)
  BY <1>1, RowIs
<1>3. Interest(debt) \in Int /\ PaidInKind(debt) \in Int
  BY <1>1, InterestIsInt
<1>4. Taxes(case, p, debt) \in Int
  BY <1>3, TaxesAreInt
<1>5. Required(debt) \in Int
  <2>1. DOMAIN debt = Loans(case) /\ Due(case, debt)
    BY <1>1, DebtsAreDue
  <2> QED BY <2>1, RequiredIsTotal
<1>6. case.ebitda[p] \in Int /\ case.capex[p] \in Int
  BY CaseIs
<1> QED BY <1>2, <1>3, <1>4, <1>5, <1>6 DEF Amounts

\* What is charged in a period does not depend on what is paid out in it.
LEMMA ChargedBefore ==
  ASSUME NEW case, NEW p, NEW cash, NEW balance, NEW amount, NEW larger,
         NEW row, row = PeriodRow(case, p, cash, balance, amount),
         NEW worse, worse = PeriodRow(case, p, cash, balance, larger)
  PROVE  Alike(worse, row)
<1>1. PICK debt : debt = Debts(case, p, balance)
  OBVIOUS
<1>2. /\ row.debt = debt /\ row.interest = Interest(debt) /\ row.charges = Interest(debt) + Required(debt)
      /\ row.covered = case.ebitda[p] - case.capex[p] - Taxes(case, p, debt)
  BY <1>1, RowIs
<1>3. /\ worse.debt = debt /\ worse.interest = Interest(debt) /\ worse.charges = Interest(debt) + Required(debt)
      /\ worse.covered = case.ebitda[p] - case.capex[p] - Taxes(case, p, debt)
  BY <1>1, RowIs
<1> QED BY <1>2, <1>3 DEF Alike

\* After k years: the same until the payout, whatever is paid.
YearsAlike(case, period, k, s, t) ==
  /\ \E X : s.rows \in Seq(X) /\ t.rows \in Seq(X)
  /\ Len(s.rows) = k /\ Len(t.rows) = k
  /\ s.cash \in Int /\ s.balance \in [Loans(case) -> Nat]
  /\ k < period => t.cash = s.cash /\ t.balance = s.balance
  /\ \A q \in 1..k : Amounts(s.rows[q]) /\ (q <= period => Alike(t.rows[q], s.rows[q]))

LEMMA NextYearAlike ==
  ASSUME NEW case, WellFormed(case), NEW period \in Nat, NEW amount \in Nat, NEW larger \in Nat,
         NEW p \in Periods(case), NEW s, NEW t, YearsAlike(case, period, p - 1, s, t)
  PROVE  YearsAlike(case, period, p, NextYear(case, period, amount, s, p), NextYear(case, period, larger, t, p))
<1>1. PICK paid, more, row, bad, u, v :
        /\ paid = (IF p = period THEN amount ELSE 0) /\ more = (IF p = period THEN larger ELSE 0)
        /\ row = PeriodRow(case, p, s.cash, s.balance, paid) /\ bad = PeriodRow(case, p, t.cash, t.balance, more)
        /\ u = NextYear(case, period, amount, s, p) /\ v = NextYear(case, period, larger, t, p)
  OBVIOUS
<1>2. /\ u = [cash |-> row.cash, balance |-> row.ending, rows |-> Append(s.rows, row)]
      /\ v = [cash |-> bad.cash, balance |-> bad.ending, rows |-> Append(t.rows, bad)]
  BY <1>1 DEF NextYear
<1>3. PICK X : s.rows \in Seq(X) /\ t.rows \in Seq(X)
  BY DEF YearsAlike
<1>4. PICK Y : Y = X \cup {row, bad}
  OBVIOUS
<1>5. s.rows \in Seq(Y) /\ t.rows \in Seq(Y) /\ row \in Y /\ bad \in Y
  BY <1>3, <1>4
<1>6. p \in Nat \ {0} /\ Len(s.rows) = p - 1 /\ Len(t.rows) = p - 1
  BY CaseIs DEF YearsAlike
<1>7. PICK a, b : a = Append(s.rows, row) /\ b = Append(t.rows, bad)
  OBVIOUS
<1>8. /\ a \in Seq(Y) /\ b \in Seq(Y) /\ Len(a) = p /\ Len(b) = p /\ a[p] = row /\ b[p] = bad
      /\ \A q \in 1..(p - 1) : a[q] = s.rows[q] /\ b[q] = t.rows[q]
  BY <1>5, <1>6, <1>7
<1>9. PICK cash, balance : cash = s.cash /\ balance = s.balance
  OBVIOUS
<1>10. cash \in Int /\ balance \in [Loans(case) -> Nat] /\ paid \in Int
  BY <1>1, <1>9 DEF YearsAlike
<1>11. row = PeriodRow(case, p, cash, balance, paid)
  BY <1>1, <1>9
<1>12. row.cash \in Int /\ row.ending \in [Loans(case) -> Nat] /\ Amounts(row)
  <2>1. Figures(row) /\ row.ending \in [Loans(case) -> Nat]
    BY <1>10, <1>11, PeriodInOrder
  <2>2. Amounts(row)
    BY <1>10, <1>11, RowIsInt
  <2> QED BY <2>1, <2>2 DEF Figures
<1>13. ASSUME p <= period PROVE bad = PeriodRow(case, p, cash, balance, more)
  <2>1. p - 1 < period
    BY <1>6, <1>13
  <2>2. t.cash = cash /\ t.balance = balance
    BY <1>9, <2>1 DEF YearsAlike
  <2> QED BY <1>1, <2>2
<1>14. p <= period => Alike(bad, row)
  BY <1>11, <1>13, ChargedBefore
<1>15. p < period => bad.cash = row.cash /\ bad.ending = row.ending
  <2> SUFFICES ASSUME p < period PROVE bad = row
    OBVIOUS
  <2>1. p <= period /\ p # period
    BY <1>6
  <2>2. more = 0 /\ paid = 0
    BY <1>1, <2>1
  <2> QED BY <1>11, <1>13, <2>1, <2>2
<1>16. ASSUME NEW q \in 1..p PROVE Amounts(a[q]) /\ (q <= period => Alike(b[q], a[q]))
  <2>1. CASE q = p
    BY <1>8, <1>12, <1>14, <2>1
  <2>2. CASE q # p
    <3>1. q \in 1..(p - 1)
      BY <1>6, <2>2
    <3>2. Amounts(s.rows[q]) /\ (q <= period => Alike(t.rows[q], s.rows[q]))
      BY <3>1 DEF YearsAlike
    <3> QED BY <1>8, <3>1, <3>2
  <2> QED BY <2>1, <2>2
<1>17. u.cash = row.cash /\ v.cash = bad.cash /\ u.balance = row.ending /\ v.balance = bad.ending /\ u.rows = a /\ v.rows = b
  BY <1>2, <1>7
<1>18. YearsAlike(case, period, p, u, v)
  BY <1>8, <1>12, <1>15, <1>16, <1>17 DEF YearsAlike
<1> QED BY <1>1, <1>18

\* Whatever is paid, the periods up to the payout charge the same.
LEMMA AlikeUntilPaid ==
  ASSUME NEW case, WellFormed(case), NEW period \in Nat, NEW amount \in Nat, NEW larger \in Nat,
         NEW rows, rows = Projection(case, period, amount), NEW worse, worse = Projection(case, period, larger)
  PROVE  \A q \in Periods(case) : Amounts(rows[q]) /\ (q <= period => Alike(worse[q], rows[q]))
<1>n. PICK n : n = Len(case.ebitda)
  OBVIOUS
<1>1. n \in Nat /\ Periods(case) = 1..n
  BY <1>n, CaseIs
<1>2. PICK c : /\ c[0] = YearStart(case) /\ c[n].rows = Projection(case, period, amount)
               /\ \A k \in 1..n : c[k] = NextYear(case, period, amount, c[k - 1], k)
  BY <1>n, YearRuns
<1>3. PICK d : /\ d[0] = YearStart(case) /\ d[n].rows = Projection(case, period, larger)
               /\ \A k \in 1..n : d[k] = NextYear(case, period, larger, d[k - 1], k)
  BY <1>n, YearRuns
<1> DEFINE B == {k \in 0..n : ~YearsAlike(case, period, k, c[k], d[k])}
<1>4. YearsAlike(case, period, 0, c[0], d[0])
  <2>1. PICK initial : initial = [i \in Loans(case) |-> case.tranches[i].initial]
    OBVIOUS
  <2>2. initial \in [Loans(case) -> Nat]
    BY <2>1, LoansAreFinite DEF Loan
  <2>3. d[0] = c[0]
    BY <1>2, <1>3
  <2>4. c[0].cash = case.minimum_cash /\ c[0].balance = initial /\ c[0].rows = <<>>
    BY <1>2, <2>1 DEF YearStart
  <2>5. case.minimum_cash \in Int
    BY CaseIs
  <2>6. \E X : <<>> \in Seq(X)
    <3>1. PICK X : X = {}
      OBVIOUS
    <3>2. <<>> \in Seq(X)
      BY <3>1
    <3> QED BY <3>2
  <2>7. Len(<<>>) = 0 /\ \A q \in 1..0 : FALSE
    OBVIOUS
  <2> QED BY <2>2, <2>3, <2>4, <2>5, <2>6, <2>7 DEF YearsAlike
<1>5. ASSUME NEW k \in 1..n, k - 1 \notin B PROVE k \notin B
  <2>1. k - 1 \in 0..n
    BY <1>1
  <2>2. YearsAlike(case, period, k - 1, c[k - 1], d[k - 1])
    BY <1>5, <2>1
  <2>3. PICK s, t : s = c[k - 1] /\ t = d[k - 1]
    OBVIOUS
  <2>4. YearsAlike(case, period, k - 1, s, t) /\ k \in Periods(case)
    BY <1>1, <2>2, <2>3
  <2>5. YearsAlike(case, period, k, NextYear(case, period, amount, s, k), NextYear(case, period, larger, t, k))
    BY <2>4, NextYearAlike
  <2> QED BY <1>2, <1>3, <2>3, <2>5
<1>6. 0 \notin B /\ B \subseteq 0..n
  BY <1>4
<1> HIDE DEF B
<1>7. B = {}
  BY <1>1, <1>5, <1>6, AlongTheRun
<1>8. YearsAlike(case, period, n, c[n], d[n])
  <2>1. n \in 0..n
    BY <1>1
  <2> QED BY <1>7, <2>1 DEF B
<1>9. c[n].rows = rows /\ d[n].rows = worse
  BY <1>2, <1>3
<1>10. \A q \in 1..n : Amounts(rows[q]) /\ (q <= period => Alike(worse[q], rows[q]))
  BY <1>8, <1>9 DEF YearsAlike
<1> QED BY <1>1, <1>10

\* What charges the same costs as much.
LEMMA AlikeCostsMore ==
  ASSUME NEW r \in Recaps, NEW row, NEW than, Amounts(than), Alike(row, than)
  PROVE  CostsMore(r, row, than)
<1>1. PICK i, c, v, x, y, z : /\ i = than.interest /\ c = than.charges /\ v = than.covered
                              /\ x = row.interest /\ y = row.charges /\ z = row.covered
  OBVIOUS
<1>2. i \in Int /\ c \in Int /\ v \in Int /\ x = i /\ y = c /\ z = v /\ row.debt = than.debt
  BY <1>1 DEF Amounts, Alike
<1>3. NoBargain(r.case, row, than)
  <2>1. z - x <= v - i
    BY <1>2
  <2> QED BY <1>1, <1>2, <2>1 DEF NoBargain
<1>4. ASSUME NEW limit \in Int PROVE 100 * (z - v) <= limit * (y - c)
  <2>1. z - v = 0 /\ y - c = 0
    BY <1>2
  <2>2. 100 * 0 = 0 /\ limit * 0 = 0
    BY <1>4
  <2> QED BY <2>1, <2>2
<1>5. "min_fixed_charge_coverage" \in DOMAIN r.limits => r.limits["min_fixed_charge_coverage"] \in Int
  BY LimitAssumption
<1>6. x >= i
  BY <1>2
<1> QED BY <1>1, <1>3, <1>4, <1>5, <1>6 DEF CostsMore

\* A payout leaves a period no better as long as debt was no bargain since.
LEMMA PayoutsCompared ==
  ASSUME NEW r \in Recaps, NEW amount \in Nat, NEW larger \in Nat, amount <= larger,
         NEW rows, rows = Recapped(r, amount), NEW worse, worse = Recapped(r, larger)
  PROVE  /\ DOMAIN rows = Periods(r.case) /\ DOMAIN worse = Periods(r.case)
         /\ Len(rows) = Len(r.case.ebitda) /\ Len(worse) = Len(r.case.ebitda)
         /\ \A q \in Periods(r.case) : q <= r.period => CostsMore(r, worse[q], rows[q])
         /\ \A p \in Periods(r.case) :
              (\A q \in r.period + 1..p : NoBargain(r.case, worse[q], rows[q])) => Worse(r.case, worse[p], rows[p])
<1>1. PICK case, period : case = r.case /\ period = r.period
  OBVIOUS
<1>2. WellFormed(case) /\ period \in Nat
  BY <1>1, CaseAssumption, LimitAssumption
<1>3. rows = Projection(case, period, amount) /\ worse = Projection(case, period, larger)
  BY <1>1 DEF Recapped
<1>4. /\ DOMAIN rows = Periods(case) /\ DOMAIN worse = Periods(case)
      /\ Len(rows) = Len(case.ebitda) /\ Len(worse) = Len(case.ebitda)
      /\ \A p \in Periods(case) : NoBargains(case, p, worse, rows) => Worse(case, worse[p], rows[p])
  <2>1. Harder(case, case)
    BY <1>2, HarderThanItself
  <2> QED BY <1>2, <1>3, <2>1, ProjectionsCompared
<1>5. \A q \in Periods(case) : Amounts(rows[q]) /\ (q <= period => Alike(worse[q], rows[q]))
  BY <1>2, <1>3, AlikeUntilPaid
<1>6. ASSUME NEW q \in Periods(case), q <= period PROVE CostsMore(r, worse[q], rows[q])
  <2>1. Amounts(rows[q]) /\ Alike(worse[q], rows[q])
    BY <1>5, <1>6
  <2> QED BY <2>1, AlikeCostsMore
<1>7. ASSUME NEW p \in Periods(case), \A q \in period + 1..p : NoBargain(case, worse[q], rows[q])
      PROVE  Worse(case, worse[p], rows[p])
  <2>1. ASSUME NEW q \in 1..p PROVE NoBargain(case, worse[q], rows[q])
    <3>1. p \in Nat /\ \A j \in 1..p : j \in Periods(case)
      <4>1. Len(case.ebitda) \in Nat /\ Periods(case) = 1..Len(case.ebitda)
        BY <1>2, CaseIs
      <4> QED BY <4>1
    <3>2. CASE q <= period
      <4>1. CostsMore(r, worse[q], rows[q])
        BY <1>6, <3>1, <3>2
      <4> QED BY <1>1, <4>1 DEF CostsMore
    <3>3. CASE ~(q <= period)
      <4>1. q \in period + 1..p
        BY <1>2, <3>1, <3>3
      <4> QED BY <1>7, <4>1
    <3> QED BY <3>2, <3>3
  <2>2. NoBargains(case, p, worse, rows)
    BY <2>1 DEF NoBargains
  <2> QED BY <1>4, <2>2
<1> QED BY <1>1, <1>4, <1>6, <1>7

\* A limit that a worse row meets is met by a better one.
LEMMA LimitsCompared ==
  ASSUME NEW r \in Recaps, NEW row, NEW than, Worse(r.case, row, than), CostsMore(r, row, than),
         NEW name \in DOMAIN r.limits, NEW limit, limit = r.limits[name], Meets(name, limit, row)
  PROVE  Meets(name, limit, than)
<1>0. limit \in Int /\ (name # "min_liquidity" => limit > 0)
  BY LimitAssumption
<1>1. /\ row.owed \in Int /\ than.owed \in Int /\ row.ebitda \in Int /\ than.ebitda \in Int
      /\ row.liquidity \in Int /\ than.liquidity \in Int
      /\ row.liquidity <= than.liquidity /\ than.owed <= row.owed /\ row.ebitda <= than.ebitda
  BY DEF Worse, Figures
<1>2. /\ row.interest \in Int /\ than.interest \in Int /\ row.interest >= than.interest
      /\ row.charges \in Int /\ than.charges \in Int
      /\ row.interest - than.interest <= row.charges - than.charges
      /\ row.covered \in Int /\ than.covered \in Int
  BY DEF Worse, CostsMore
<1>3. CASE name = "max_total_leverage"
  <2>1. PICK o, e, owed, ebitda : o = row.owed /\ e = row.ebitda /\ owed = than.owed /\ ebitda = than.ebitda
    OBVIOUS
  <2>2. o \in Int /\ e \in Int /\ owed \in Int /\ ebitda \in Int /\ owed <= o /\ e <= ebitda /\ limit > 0
    BY <1>0, <1>1, <1>3, <2>1
  <2>3. e > 0 /\ 100 * o <= limit * e
    BY <1>3, <2>1 DEF Meets
  <2>4. limit * e <= limit * ebitda
    BY <1>0, <2>2
  <2>5. 100 * owed <= 100 * o /\ limit * e \in Int /\ limit * ebitda \in Int
    BY <1>0, <2>2
  <2>6. ebitda > 0 /\ 100 * owed <= limit * ebitda
    BY <2>2, <2>3, <2>4, <2>5
  <2> QED BY <1>3, <2>1, <2>6 DEF Meets
<1>4. CASE name = "min_interest_coverage"
  <2>1. PICK i, e, interest, ebitda : i = row.interest /\ e = row.ebitda /\ interest = than.interest /\ ebitda = than.ebitda
    OBVIOUS
  <2>2. i \in Int /\ e \in Int /\ interest \in Int /\ ebitda \in Int /\ interest <= i /\ e <= ebitda /\ limit > 0
    BY <1>0, <1>1, <1>2, <1>4, <2>1
  <2>3. i > 0 => 100 * e >= limit * i
    BY <1>4, <2>1 DEF Meets
  <2>4. limit * interest <= limit * i /\ limit * i \in Int /\ limit * interest \in Int
    BY <1>0, <2>2
  <2>5. interest > 0 => 100 * ebitda >= limit * interest
    BY <2>2, <2>3, <2>4
  <2> QED BY <1>4, <2>1, <2>5 DEF Meets
<1>5. CASE name = "min_fixed_charge_coverage"
  <2>1. PICK c, v, charges, covered :
          c = row.charges /\ v = row.covered /\ charges = than.charges /\ covered = than.covered
    OBVIOUS
  <2>2. /\ c \in Int /\ v \in Int /\ charges \in Int /\ covered \in Int /\ limit > 0
        /\ charges <= c
    BY <1>0, <1>2, <1>5, <2>1
  <2>3. c > 0 => 100 * v >= limit * c
    BY <1>5, <2>1 DEF Meets
  <2>4. 100 * (v - covered) <= limit * (c - charges)
    BY <1>5, <2>1 DEF CostsMore
  <2>5. PICK d, a, b : d = c - charges /\ a = limit * charges /\ b = limit * d
    OBVIOUS
  <2>6. d \in Int /\ a \in Int /\ b \in Int /\ limit * c = a + b
    BY <1>0, <2>2, <2>5
  <2>7. ASSUME charges > 0 PROVE 100 * covered >= a
    <3>1. 100 * v >= a + b
      BY <2>2, <2>3, <2>6, <2>7
    <3>2. 100 * (v - covered) <= b
      BY <2>4, <2>5
    <3> QED BY <2>2, <2>6, <3>1, <3>2
  <2> QED BY <1>5, <2>1, <2>5, <2>7 DEF Meets
<1>6. CASE name = "min_liquidity"
  BY <1>0, <1>1, <1>6 DEF Meets
<1> QED BY <1>3, <1>4, <1>5, <1>6 DEF Meets

\* Where debt costs, who can bear an amount can bear one less.
LEMMA FeasibilityFalls ==
  ASSUME NEW r \in Recaps, NEW amount \in Nat, NEW rows, rows = Recapped(r, amount),
         NEW worse, worse = Recapped(r, amount + 1),
         \A p \in r.period + 1..Len(rows) : CostsMore(r, worse[p], rows[p]),
         Feasible(r, amount + 1)
  PROVE  Feasible(r, amount)
<1> SUFFICES ASSUME NEW name \in DOMAIN r.limits, NEW p \in r.period..Len(rows)
             PROVE  Meets(name, r.limits[name], rows[p])
  BY DEF Feasible, Satisfies
<1>1. PICK larger : larger = amount + 1
  OBVIOUS
<1>2. larger \in Nat /\ amount <= larger /\ worse = Recapped(r, larger)
  BY <1>1
<1>3. /\ Len(rows) = Len(r.case.ebitda) /\ Len(worse) = Len(r.case.ebitda)
      /\ \A q \in Periods(r.case) : q <= r.period => CostsMore(r, worse[q], rows[q])
      /\ \A j \in Periods(r.case) :
           (\A q \in r.period + 1..j : NoBargain(r.case, worse[q], rows[q])) => Worse(r.case, worse[j], rows[j])
  BY <1>2, PayoutsCompared
<1>4. PICK n, period : n = Len(r.case.ebitda) /\ period = r.period
  OBVIOUS
<1>5. n \in Nat /\ Periods(r.case) = 1..n /\ period \in Nat \ {0} /\ p \in 1..n /\ p \in period..n
  <2>1. n \in Nat \ {0} /\ Periods(r.case) = 1..n
    BY <1>4, CaseAssumption, CaseIs
  <2>2. period \in Nat \ {0}
    BY <1>4, LimitAssumption
  <2>3. p \in period..n
    BY <1>3, <1>4
  <2> QED BY <2>1, <2>2, <2>3
<1>6. CostsMore(r, worse[p], rows[p])
  <2>1. CASE p <= period
    BY <1>3, <1>4, <1>5, <2>1
  <2>2. CASE ~(p <= period)
    <3>1. p \in period + 1..n
      BY <1>5, <2>2
    <3> QED BY <1>3, <1>4, <3>1
  <2> QED BY <2>1, <2>2
<1>7. Worse(r.case, worse[p], rows[p])
  <2>1. ASSUME NEW q \in period + 1..p PROVE NoBargain(r.case, worse[q], rows[q])
    <3>1. q \in period + 1..n
      BY <1>5
    <3>2. CostsMore(r, worse[q], rows[q])
      BY <1>3, <1>4, <3>1
    <3> QED BY <3>2 DEF CostsMore
  <2> QED BY <1>3, <1>4, <1>5, <2>1
<1>8. Meets(name, r.limits[name], worse[p])
  <2>1. p \in r.period..Len(worse)
    BY <1>3
  <2> QED BY <2>1 DEF Feasible, Satisfies
<1> QED BY <1>6, <1>7, <1>8, LimitsCompared

\* So who can bear a payout can bear a smaller one.
LEMMA FeasibilityFollows ==
  ASSUME ask \in Recaps, Ceiling \in Int, DebtCosts,
         NEW more \in 0..Ceiling, NEW less \in 0..more, Feasible(ask, more)
  PROVE  Feasible(ask, less)
<1>1. PICK n : n = more - less
  OBVIOUS
<1>2. n \in Nat /\ more \in Nat /\ less \in Nat
  BY <1>1
<1> DEFINE B == {k \in 0..n : ~Feasible(ask, more - k)}
<1>3. 0 \notin B /\ B \subseteq 0..n
  <2>1. more - 0 = more
    BY <1>2
  <2> QED BY <2>1
<1>4. ASSUME NEW k \in 1..n, k - 1 \notin B PROVE k \notin B
  <2>1. PICK amount : amount = more - k
    OBVIOUS
  <2>2. amount \in Nat /\ amount \in 0..Ceiling - 1 /\ more - (k - 1) = amount + 1 /\ k - 1 \in 0..n
    BY <1>1, <1>2, <2>1
  <2>3. Feasible(ask, amount + 1)
    BY <1>4, <2>2
  <2>4. PICK rows, worse : rows = Recapped(ask, amount) /\ worse = Recapped(ask, amount + 1)
    OBVIOUS
  <2>5. \A p \in ask.period + 1..Len(rows) : CostsMore(ask, worse[p], rows[p])
    BY <2>2, <2>4 DEF DebtCosts
  <2>6. Feasible(ask, amount)
    BY <2>2, <2>3, <2>4, <2>5, FeasibilityFalls
  <2> QED BY <2>1, <2>6
<1> HIDE DEF B
<1>5. B = {}
  BY <1>2, <1>3, <1>4, AlongTheRun
<1>6. n \in 0..n /\ more - n = less
  BY <1>1, <1>2
<1> QED BY <1>5, <1>6 DEF B

-----------------------------------------------------------------------------
(* solve_dividend_recap.                                                   *)

\* Whatever the projection does, the ends of the bracket were tried: the lower
\* one is feasible, the upper one is not; and so are the ends that are reported.
Reported ==
  /\ answer.status \in {"solved", "bounded"} =>
       /\ answer.value \in Nat /\ answer.beyond = high
       /\ Feasible(ask, answer.value) /\ ~Feasible(ask, answer.beyond)
  /\ answer.status = "solved" => answer.beyond - answer.value <= ask.tolerance
  /\ answer.status = "infeasible" => ~Feasible(ask, 0)
  /\ answer.status = "unbounded" => answer.beyond = high /\ Feasible(ask, answer.beyond)
  /\ answer.status = "refused" \/ ask.case.entry_ev > 0

RecapInv == ask \in Recaps =>
  /\ at \in {"recap", "doubling", "bisecting", "over"}
  /\ low \in Nat /\ high \in Nat
  /\ at \in {"doubling", "bisecting"} => ask.case.entry_ev > 0
  /\ at = "doubling" => Feasible(ask, 0)
  /\ at = "bisecting" => Feasible(ask, low) /\ ~Feasible(ask, high)
  /\ at = "over" => Reported

LEMMA InitRecapInv == Init => RecapInv
BY SolverAssumption DEF Init, RecapInv

LEMMA StepRecapInv == RecapInv /\ [Next]_vars => RecapInv'
<1> SUFFICES ASSUME RecapInv, [Next]_vars, ask' \in Recaps PROVE RecapInv'
  BY DEF RecapInv
<1> USE DEF RecapInv
<1>1. ask' = ask
  BY DEF Next, RecapNext, StressNext, RefuseRecap, TryZero, Double, GiveUpDoubling, Enclose, Bisect,
         ReportRecap, TryEnds, Halve, ReportStress, vars
<1>2. ask \in Recaps /\ ask.tolerance \in Nat /\ ask.case.entry_ev \in Int
  BY <1>1, SolverAssumption
<1> HIDE DEF RecapInv
<1>3. CASE UNCHANGED vars
  BY <1>3 DEF vars, RecapInv, Reported
<1>4. CASE RefuseRecap
  BY <1>2, <1>4 DEF RefuseRecap, Conclude, RecapInv, Reported
<1>5. CASE TryZero
  BY <1>2, <1>5 DEF TryZero, Financed, Conclude, Greatest, RecapInv, Reported
<1>6. CASE Double
  BY <1>2, <1>6 DEF Double, RecapInv
<1>7. CASE GiveUpDoubling
  BY <1>2, <1>7 DEF GiveUpDoubling, Conclude, RecapInv, Reported
<1>8. CASE Enclose
  BY <1>2, <1>8 DEF Enclose, RecapInv
<1>9. CASE Bisect
  <2>1. Middle \in Nat
    BY <1>2 DEF Middle, RecapInv
  <2>2. QED BY <1>2, <1>9, <2>1 DEF Bisect, RecapInv
<1>10. CASE ReportRecap
  BY <1>2, <1>10 DEF ReportRecap, Conclude, RecapInv, Reported
<1>11. CASE StressNext
  BY <1>2, <1>11 DEF StressNext, TryEnds, Halve, ReportStress, RecapInv
<1>12. QED
  BY <1>3, <1>4, <1>5, <1>6, <1>7, <1>8, <1>9, <1>10, <1>11 DEF Next, RecapNext

\* The amounts the search tries are numbers, and their projections in order.
LEMMA RowsInOrder == RecapInv => WaterfallHolds
<1> SUFFICES ASSUME RecapInv, ask \in Recaps, at # "over", NEW amount \in {low, high}
             PROVE  \A row \in Range(Recapped(ask, amount)) : InOrder(ask.case, row)
  BY DEF WaterfallHolds
<1>1. PICK case, period, rows : /\ case = ask.case /\ period = ask.period
                                /\ rows = Projection(case, period, amount)
  OBVIOUS
<1>2. WellFormed(case) /\ amount \in Int
  BY <1>1, CaseAssumption DEF RecapInv
<1>3. \A p \in DOMAIN rows : InOrder(case, rows[p])
  BY <1>1, <1>2, ProjectionInOrder
<1>4. Recapped(ask, amount) = rows
  BY <1>1 DEF Recapped
<1> QED BY <1>1, <1>3, <1>4 DEF Range

\* Whatever the search tries, every period of every projection at the ends of
\* its bracket is in order: nothing is lost, revolvers before arrears, the
\* minimum before the sweep, a better priority first.
THEOREM WaterfallIsOrdered == Spec => []WaterfallHolds
BY InitRecapInv, StepRecapInv, RowsInOrder, PTL DEF Spec

\* The answer of solve_dividend_recap is always what was tried: a solved
\* distribution satisfies every limit and one at most a tolerance above it
\* does not, "infeasible" was tried with nothing and "unbounded" with its
\* bound.  And it holds of all amounts up to the ceiling, the ones never tried
\* included, in every request whose projections show that debt costs more the
\* more is paid out, whatever the case, the limits and the tolerance.
THEOREM MaximumHolds == Spec => []MaximumWhereDebtCosts
<1>1. RecapInv => MaximumWhereDebtCosts
  <2> SUFFICES ASSUME RecapInv, at = "over", ask \in Recaps PROVE Tried /\ (DebtCosts => MaximumIsExact)
    BY DEF MaximumWhereDebtCosts
  <2>1. Reported /\ high \in Nat /\ ask.tolerance \in Nat \ {0} /\ ask.case.entry_ev \in Int
    BY SolverAssumption DEF RecapInv
  <2>2. Tried
    BY <2>1 DEF Reported, Tried
  <2>3. Ceiling \in Int /\ (answer.status # "refused" => high <= Ceiling)
    BY <2>1 DEF Ceiling, Greatest, Reported
  <2> SUFFICES ASSUME DebtCosts PROVE MaximumIsExact
    BY <2>2
  <2>4. \A more \in 0..Ceiling : \A less \in 0..more : Feasible(ask, more) => Feasible(ask, less)
    BY <2>3, FeasibilityFollows
  <2>5. CASE answer.status = "solved"
    <3>1. ASSUME NEW amount \in answer.value + ask.tolerance..Ceiling, Feasible(ask, amount) PROVE FALSE
      <4>1. answer.value \in Nat /\ answer.beyond \in Nat /\ answer.beyond - answer.value <= ask.tolerance
        BY <2>1, <2>5 DEF Reported
      <4>2. amount \in 0..Ceiling /\ answer.beyond \in 0..amount
        BY <2>1, <2>3, <4>1
      <4>3. Feasible(ask, answer.beyond)
        BY <2>4, <3>1, <4>2
      <4>4. QED BY <2>1, <2>5, <4>3 DEF Reported
    <3>2. QED BY <2>1, <2>5, <3>1 DEF Reported, MaximumIsExact
  <2>6. CASE answer.status = "bounded"
    BY <2>1, <2>6 DEF Reported, MaximumIsExact
  <2>7. CASE answer.status = "infeasible"
    <3>1. ASSUME NEW amount \in 0..Ceiling, Feasible(ask, amount) PROVE FALSE
      <4>1. 0 \in 0..amount
        BY <2>3
      <4>2. Feasible(ask, 0)
        BY <2>4, <3>1, <4>1
      <4>3. QED BY <2>1, <2>7, <4>2 DEF Reported
    <3>2. QED BY <2>7, <3>1 DEF MaximumIsExact
  <2>8. CASE answer.status = "unbounded"
    <3>1. answer.beyond \in 0..Ceiling /\ Feasible(ask, answer.beyond)
      BY <2>1, <2>3, <2>8 DEF Reported
    <3>2. \A amount \in 0..answer.beyond : Feasible(ask, amount)
      BY <2>4, <3>1
    <3>3. QED BY <2>8, <3>2 DEF MaximumIsExact
  <2>9. CASE answer.status \notin {"solved", "bounded", "infeasible", "unbounded"}
    BY <2>9 DEF MaximumIsExact
  <2>10. QED BY <2>5, <2>6, <2>7, <2>8, <2>9
<1>2. QED BY InitRecapInv, StepRecapInv, <1>1, PTL DEF Spec

\* Of two payouts the larger one leaves no more cash, no less debt in any
\* tranche and no more liquidity, in the period of the payout and in every
\* later one until which debt was no bargain, whatever the amounts, the
\* tranches and the number of periods.
THEOREM PayoutsNeverHelp == Spec => []PayingNeverHelps
<1>1. RecapInv => PayingNeverHelps
  <2> SUFFICES ASSUME RecapInv, ask \in Recaps, NEW amount \in 0..Ceiling,
                      NEW kept, kept = Recapped(ask, amount), NEW paid, paid = Recapped(ask, amount + 1),
                      NEW p \in DOMAIN kept,
                      \A q \in ask.period + 1..p : NoBargain(ask.case, paid[q], kept[q])
               PROVE  NoBetter(paid[p], kept[p])
    BY DEF PayingNeverHelps
  <2>1. Ceiling \in Int
    <3>1. high \in Nat /\ ask.case.entry_ev \in Int
      BY SolverAssumption DEF RecapInv
    <3> QED BY <3>1 DEF Ceiling, Greatest
  <2>2. PICK more : more = amount + 1
    OBVIOUS
  <2>3. amount \in Nat /\ more \in Nat /\ amount <= more /\ paid = Recapped(ask, more)
    BY <2>1, <2>2
  <2>4. DOMAIN kept = Periods(ask.case) /\ Worse(ask.case, paid[p], kept[p])
    <3>1. /\ DOMAIN kept = Periods(ask.case)
          /\ \A j \in Periods(ask.case) :
               (\A q \in ask.period + 1..j : NoBargain(ask.case, paid[q], kept[q])) => Worse(ask.case, paid[j], kept[j])
      BY <2>3, PayoutsCompared
    <3> QED BY <3>1
  <2> QED BY <2>4, WorseIsNoBetter
<1> QED BY InitRecapInv, StepRecapInv, <1>1, PTL DEF Spec

-----------------------------------------------------------------------------
(* The outputs of a stress are numbers, and move one way with the driver.  *)

\* Of finitely many numbers one is the least.
LEMMA SomeIsLeast ==
  ASSUME NEW n \in Nat \ {0}, NEW f, \A k \in 1..n : f[k] \in Int
  PROVE  \E m \in 1..n : \A k \in 1..n : f[m] <= f[k]
<1> DEFINE B == {k \in 0..n : k > 0 /\ ~(\E m \in 1..k : \A j \in 1..k : f[m] <= f[j])}
<1>1. 0 \notin B /\ B \subseteq 0..n
  OBVIOUS
<1>2. ASSUME NEW k \in 1..n, k - 1 \notin B PROVE k \notin B
  <2>1. CASE k = 1
    <3>1. 1 \in 1..k /\ \A j \in 1..k : f[1] <= f[j]
      <4>1. 1 \in 1..n /\ \A j \in 1..k : j = 1
        BY <2>1
      <4>2. f[1] \in Int
        BY <4>1
      <4> QED BY <2>1, <4>1, <4>2
    <3> QED BY <3>1
  <2>2. CASE k # 1
    <3>1. k - 1 \in 0..n /\ k - 1 > 0
      BY <2>2
    <3>2. PICK m \in 1..(k - 1) : \A j \in 1..(k - 1) : f[m] <= f[j]
      BY <1>2, <3>1
    <3>3. m \in 1..k /\ m \in 1..n /\ k \in 1..k /\ f[m] \in Int /\ f[k] \in Int
      OBVIOUS
    <3>4. CASE f[m] <= f[k]
      <4>1. \A j \in 1..k : f[m] <= f[j]
        BY <3>2, <3>4
      <4> QED BY <3>3, <4>1
    <3>5. CASE ~(f[m] <= f[k])
      <4>1. \A j \in 1..k : f[k] <= f[j]
        <5> SUFFICES ASSUME NEW j \in 1..k PROVE f[k] <= f[j]
          OBVIOUS
        <5>1. f[j] \in Int
          OBVIOUS
        <5>2. CASE j = k BY <3>3, <5>2
        <5>3. CASE j # k
          <6>1. j \in 1..(k - 1)
            BY <5>3
          <6>2. f[m] <= f[j]
            BY <3>2, <6>1
          <6> QED BY <3>3, <3>5, <5>1, <6>2
        <5> QED BY <5>2, <5>3
      <4> QED BY <3>3, <4>1
    <3> QED BY <3>4, <3>5
  <2> QED BY <2>1, <2>2
<1> HIDE DEF B
<1>3. B = {}
  BY <1>1, <1>2, AlongTheRun
<1>4. n \notin B /\ n \in 0..n /\ n > 0
  BY <1>3
<1> QED BY <1>4 DEF B

LEMMA MinimumIsInt ==
  ASSUME NEW rows, NEW n \in Nat \ {0}, DOMAIN rows = 1..n, \A p \in 1..n : rows[p].liquidity \in Int
  PROVE  MinimumLiquidity(rows) \in Int
<1>1. PICK f : f = [p \in 1..n |-> rows[p].liquidity]
  OBVIOUS
<1>2. \A k \in 1..n : f[k] \in Int
  BY <1>1
<1>3. PICK m \in 1..n : \A k \in 1..n : f[m] <= f[k]
  BY <1>2, SomeIsLeast
<1>4. PICK T : T = {rows[p].liquidity : p \in DOMAIN rows}
  OBVIOUS
<1>5. T \subseteq Int /\ \E x \in T : \A y \in T : x <= y
  BY <1>1, <1>3, <1>4
<1>6. Min(T) \in T
  BY <1>5 DEF Min
<1> QED BY <1>4, <1>5, <1>6 DEF MinimumLiquidity

\* What a shift keeps.
Kept(case, other) ==
  /\ other.entry_ev = case.entry_ev /\ other.existing_debt = case.existing_debt
  /\ other.starting_cash = case.starting_cash /\ other.fees = case.fees /\ other.rollover = case.rollover
  /\ other.minimum_cash = case.minimum_cash /\ other.sweep = case.sweep /\ other.tax = case.tax
  /\ other.exit_multiple = case.exit_multiple /\ other.revenue = case.revenue /\ other.gross = case.gross
  /\ other.da = case.da /\ other.capex = case.capex /\ other.nwc = case.nwc /\ other.tranches = case.tranches
  /\ DOMAIN other.ebitda = DOMAIN case.ebitda

LEMMA ShiftedIs ==
  ASSUME NEW s, NEW case, case = s.case, WellFormed(case), NEW value \in Int, NEW other, other = Shifted(s, value)
  PROVE  /\ Kept(case, other)
         /\ other.base = IF s.variable = "base_rate_shift" THEN case.base + value ELSE case.base
         /\ \A p \in Periods(case) :
              other.ebitda[p] = IF s.variable = "base_rate_shift" THEN case.ebitda[p]
                                ELSE case.ebitda[p] + Share(case.revenue[p], value)
         /\ other.ebitda \in Seq(Int) /\ other.ebitda # <<>>
         /\ other.base \in BaseRate => other \in Terms
<1>1. /\ case \in Terms /\ case.ebitda # <<>> /\ case.ebitda \in Seq(Int) /\ case.base \in Int
      /\ case.revenue \in Seq(Nat) /\ DOMAIN case.revenue = DOMAIN case.ebitda
  <2>1. case \in Terms /\ case.ebitda # <<>> /\ DOMAIN case.revenue = DOMAIN case.ebitda
    BY DEF WellFormed, Periods
  <2>2. case.ebitda \in Seq(Int) /\ case.revenue \in Seq(Nat)
    BY <2>1 DEF Terms
  <2>3. case.base \in Int
    BY CaseIs
  <2> QED BY <2>1, <2>2, <2>3
<1>2. PICK plan, revenue, n : /\ plan = [p \in DOMAIN case.ebitda |-> case.ebitda[p] + Share(revenue[p], value)]
                              /\ revenue = case.revenue /\ n = Len(case.ebitda)
  OBVIOUS
<1>3. n \in Nat \ {0} /\ DOMAIN case.ebitda = 1..n /\ \A p \in 1..n : case.ebitda[p] \in Int
  <2>1. n \in Nat \ {0} /\ Periods(case) = 1..n
    BY <1>2, CaseIs
  <2> QED BY <1>1, <2>1 DEF Periods
<1>4. CASE s.variable = "base_rate_shift"
  <2>1. PICK base : base = case.base + value
    OBVIOUS
  <2>2. other = [case EXCEPT !.base = base]
    BY <1>4, <2>1 DEF Shifted
  <2>3. other.base = base /\ other.ebitda = case.ebitda
    BY <1>1, <2>2 DEF Terms
  <2>4. Kept(case, other)
    BY <1>1, <2>2 DEF Terms, Kept
  <2>5. base \in BaseRate => other \in Terms
    BY <1>1, <2>2 DEF Terms
  <2> QED BY <1>1, <1>4, <2>1, <2>3, <2>4, <2>5
<1>5. CASE s.variable # "base_rate_shift"
  <2>1. other = [case EXCEPT !.ebitda = plan]
    BY <1>2, <1>5 DEF Shifted
  <2>2. plan \in Seq(Int) /\ plan # <<>> /\ DOMAIN plan = DOMAIN case.ebitda
    <3>1. \A p \in 1..n : Share(revenue[p], value) \in Int
      <4>1. \A p \in 1..n : revenue[p] \in Int
        BY <1>1, <1>2, <1>3
      <4> QED BY <4>1, ShareIsInt
    <3>2. plan = [p \in 1..n |-> case.ebitda[p] + Share(revenue[p], value)]
      BY <1>2, <1>3
    <3>3. \A p \in 1..n : case.ebitda[p] + Share(revenue[p], value) \in Int
      BY <1>3, <3>1
    <3>4. plan \in [1..n -> Int]
      BY <3>2, <3>3
    <3>5. plan \in Seq(Int)
      BY <1>3, <3>4
    <3>6. DOMAIN plan = 1..n /\ 1 \in 1..n
      BY <1>3, <3>2
    <3>7. plan # <<>>
      <4>1. \A q : q = <<>> => DOMAIN q = 1..0
        OBVIOUS
      <4>2. 1..0 = {}
        OBVIOUS
      <4> QED BY <3>6, <4>1, <4>2
    <3> QED BY <1>3, <3>5, <3>6, <3>7
  <2>3. other.base = case.base /\ other.ebitda = plan
    BY <1>1, <2>1 DEF Terms
  <2>4. Kept(case, other)
    BY <1>1, <2>1, <2>2 DEF Terms, Kept
  <2>5. other \in Terms
    BY <1>1, <2>1, <2>2 DEF Terms
  <2>6. \A p \in Periods(case) : plan[p] = case.ebitda[p] + Share(case.revenue[p], value)
    BY <1>2 DEF Periods
  <2> QED BY <1>5, <2>2, <2>3, <2>4, <2>5, <2>6
<1> QED BY <1>4, <1>5

\* A shifted case is a case if its rate and its margins are still in bounds.
InBounds(case, other) ==
  /\ other.base \in BaseRate
  /\ \A p \in Periods(case) : -2 * case.revenue[p] <= other.ebitda[p] /\ other.ebitda[p] <= case.gross[p]

LEMMA ShiftedIsCase ==
  ASSUME NEW s, NEW case, case = s.case, WellFormed(case), NEW value \in Int, NEW other, other = Shifted(s, value)
  PROVE  WellFormed(other) <=> InBounds(case, other)
<1>1. /\ Kept(case, other) /\ other.ebitda # <<>>
      /\ other.base \in BaseRate => other \in Terms
  BY ShiftedIs
<1>2. Periods(other) = Periods(case) /\ other.revenue = case.revenue /\ other.gross = case.gross
  BY <1>1 DEF Kept, Periods
<1>3. ASSUME WellFormed(other) PROVE InBounds(case, other)
  <2>1. other \in Terms
    BY <1>3 DEF WellFormed
  <2>2. other.base \in BaseRate
    BY <2>1 DEF Terms
  <2>3. \A p \in Periods(case) : -2 * case.revenue[p] <= other.ebitda[p] /\ other.ebitda[p] <= case.gross[p]
    BY <1>2, <1>3 DEF WellFormed
  <2> QED BY <2>2, <2>3 DEF InBounds
<1>4. ASSUME InBounds(case, other) PROVE WellFormed(other)
  <2>1. other \in Terms
    BY <1>1, <1>4 DEF InBounds
  <2>2. \A plan \in {other.revenue, other.gross, other.da, other.capex, other.nwc} : DOMAIN plan = Periods(other)
    BY <1>1, <1>2 DEF Kept, WellFormed
  <2>3. ASSUME NEW p \in Periods(other)
        PROVE  /\ -2 * other.revenue[p] <= other.ebitda[p] /\ other.ebitda[p] <= other.gross[p]
               /\ other.gross[p] <= 2 * other.revenue[p]
    BY <1>2, <1>4 DEF InBounds, WellFormed
  <2> QED BY <1>1, <2>1, <2>2, <2>3 DEF WellFormed
<1> QED BY <1>3, <1>4

LEMMA SharesRise ==
  ASSUME NEW x \in Nat, NEW p \in Int, NEW q \in Int, p <= q
  PROVE  Share(x, p) \in Int /\ Share(x, q) \in Int /\ Share(x, p) <= Share(x, q)
<1>1. PICK a, b, d : a = x * p /\ d = q - p /\ b = x * d
  OBVIOUS
<1>2. a \in Int /\ d \in Nat /\ b \in Nat
  BY <1>1
<1>3. x * q = a + b
  <2>1. q = p + d
    BY <1>1
  <2> QED BY <1>1, <1>2, <2>1
<1>4. a \div 100 \in Int /\ (a + b) \div 100 \in Int /\ a \div 100 <= (a + b) \div 100
  BY <1>2
<1> QED BY <1>1, <1>3, <1>4 DEF Share

\* What is refused is refused at a bound: a value between two cases is a case.
LEMMA BetweenIsCase ==
  ASSUME NEW s, WellFormed(s.case), NEW i \in Int, NEW j \in Int, NEW k \in Int, i <= j, j <= k,
         WellFormed(Shifted(s, i)), WellFormed(Shifted(s, k))
  PROVE  WellFormed(Shifted(s, j))
<1>1. PICK case, a, b, c : case = s.case /\ a = Shifted(s, i) /\ b = Shifted(s, j) /\ c = Shifted(s, k)
  OBVIOUS
<1>2. InBounds(case, a) /\ InBounds(case, c)
  BY <1>1, ShiftedIsCase
<1>3. case.base \in Int /\ case.revenue \in Seq(Nat) /\ DOMAIN case.revenue = Periods(case) /\ case.gross \in Seq(Int)
      /\ DOMAIN case.gross = Periods(case) /\ case.ebitda \in Seq(Int)
  <2>1. WellFormed(case)
    BY <1>1
  <2>2. case \in Terms /\ DOMAIN case.revenue = Periods(case) /\ DOMAIN case.gross = Periods(case)
    BY <2>1 DEF WellFormed
  <2>3. case.base \in Int
    BY <2>1, CaseIs
  <2> QED BY <2>2, <2>3 DEF Terms
<1>4. b.base \in BaseRate
  <2>1. a.base \in -5..100 /\ c.base \in -5..100
    BY <1>2 DEF InBounds, BaseRate
  <2>2. CASE s.variable = "base_rate_shift"
    <3>1. a.base = case.base + i /\ b.base = case.base + j /\ c.base = case.base + k
      BY <1>1, <2>2, ShiftedIs
    <3>2. PICK x, y, z : x = a.base /\ y = b.base /\ z = c.base
      OBVIOUS
    <3>3. x \in Int /\ y \in Int /\ z \in Int /\ x <= y /\ y <= z
      BY <1>3, <3>1, <3>2
    <3>4. y \in -5..100
      <4>1. x \in -5..100 /\ z \in -5..100
        BY <2>1, <3>2
      <4> QED BY <3>3, <4>1
    <3> QED BY <3>2, <3>4 DEF BaseRate
  <2>3. CASE s.variable # "base_rate_shift"
    <3>1. a.base = case.base /\ b.base = case.base
      BY <1>1, <2>3, ShiftedIs
    <3> QED BY <2>1, <3>1 DEF BaseRate
  <2> QED BY <2>2, <2>3
<1>5. ASSUME NEW p \in Periods(case)
      PROVE  -2 * case.revenue[p] <= b.ebitda[p] /\ b.ebitda[p] <= case.gross[p]
  <2>1. PICK e, r, g : e = case.ebitda[p] /\ r = case.revenue[p] /\ g = case.gross[p]
    OBVIOUS
  <2>2. e \in Int /\ r \in Nat /\ g \in Int
    <3>1. p \in DOMAIN case.revenue /\ p \in DOMAIN case.gross /\ p \in DOMAIN case.ebitda
      BY <1>3 DEF Periods
    <3>2. case.revenue[p] \in Nat
      BY <1>3, <3>1
    <3>3. case.gross[p] \in Int
      BY <1>3, <3>1
    <3>4. case.ebitda[p] \in Int
      BY <1>3, <3>1
    <3> QED BY <2>1, <3>2, <3>3, <3>4
  <2>3. /\ -2 * r <= a.ebitda[p] /\ a.ebitda[p] <= g
        /\ -2 * r <= c.ebitda[p] /\ c.ebitda[p] <= g
    BY <1>2, <2>1 DEF InBounds
  <2>4. CASE s.variable = "base_rate_shift"
    <3>1. a.ebitda[p] = e /\ b.ebitda[p] = e
      BY <1>1, <2>1, <2>4, ShiftedIs
    <3> QED BY <2>1, <2>3, <3>1
  <2>5. CASE s.variable # "base_rate_shift"
    <3>1. PICK x, y, z : x = Share(r, i) /\ y = Share(r, j) /\ z = Share(r, k)
      OBVIOUS
    <3>2. a.ebitda[p] = e + x /\ b.ebitda[p] = e + y /\ c.ebitda[p] = e + z
      <4>1. /\ a.ebitda[p] = e + Share(r, i) /\ b.ebitda[p] = e + Share(r, j)
            /\ c.ebitda[p] = e + Share(r, k)
        <5>1. WellFormed(case)
          BY <1>1
        <5>2. a.ebitda[p] = e + Share(r, i)
          BY <1>1, <2>1, <2>5, <5>1, ShiftedIs
        <5>3. b.ebitda[p] = e + Share(r, j)
          BY <1>1, <2>1, <2>5, <5>1, ShiftedIs
        <5>4. c.ebitda[p] = e + Share(r, k)
          BY <1>1, <2>1, <2>5, <5>1, ShiftedIs
        <5> QED BY <5>2, <5>3, <5>4
      <4> QED BY <3>1, <4>1
    <3>3. x \in Int /\ y \in Int /\ z \in Int /\ x <= y /\ y <= z
      BY <2>2, <3>1, SharesRise
    <3>4. -2 * r <= b.ebitda[p] /\ b.ebitda[p] <= g
      BY <2>2, <2>3, <3>2, <3>3
    <3> QED BY <2>1, <3>4
  <2> QED BY <2>4, <2>5
<1>6. InBounds(case, b)
  BY <1>4, <1>5 DEF InBounds
<1> QED BY <1>1, <1>6, ShiftedIsCase

\* No shift changes what is paid for the company.
LEMMA ShiftedIsFinanced ==
  ASSUME NEW s, WellFormed(s.case), NEW i \in Int
  PROVE  /\ SponsorEquity(Shifted(s, i)) = SponsorEquity(s.case)
         /\ Financed(Shifted(s, i)) <=> Financed(s.case)
<1>1. PICK case, a : case = s.case /\ a = Shifted(s, i)
  OBVIOUS
<1>2. Kept(case, a)
  BY <1>1, ShiftedIs
<1>3. EquityPrice(a) = EquityPrice(case)
  BY <1>2 DEF Kept, EquityPrice
<1>4. NewDebt(a) = NewDebt(case)
  BY <1>2 DEF Kept, NewDebt, Loans
<1>5. SponsorEquity(a) = SponsorEquity(case)
  BY <1>2, <1>3, <1>4 DEF Kept, SponsorEquity
<1>6. Financed(a) <=> Financed(case)
  BY <1>2, <1>3, <1>5 DEF Kept, Financed
<1> QED BY <1>1, <1>5, <1>6

\* A scenario that is one has a number or none to show.
LEMMA OutputIsMeasurable ==
  ASSUME NEW s, NEW case, WellFormed(case), Financed(case)
  PROVE  Measured(s, case) \in Int \cup {Absent}
<1>1. PICK rows, n : rows = Projection(case, 0, 0) /\ n = Len(case.ebitda)
  OBVIOUS
<1>3. n \in Nat \ {0} /\ Periods(case) = 1..n /\ case.exit_multiple \in Int
  BY <1>1, CaseIs
<1>4. /\ DOMAIN rows = 1..n /\ Len(rows) = n
      /\ \A p \in 1..n : Figures(rows[p])
  BY <1>1, <1>3, ProjectionInOrder
<1>5. MinimumLiquidity(rows) \in Int
  <2>1. \A p \in 1..n : rows[p].liquidity \in Int
    BY <1>4 DEF Figures
  <2> QED BY <1>3, <1>4, <2>1, MinimumIsInt
<1>6. ExitEquity(case, Last(rows)) \in Int
  <2>1. PICK exit : exit = Last(rows)
    OBVIOUS
  <2>2. exit = rows[n] /\ n \in 1..n
    BY <1>3, <1>4, <2>1 DEF Last
  <2>3. exit.ebitda \in Int /\ exit.owed \in Int /\ exit.cash \in Int
    BY <1>4, <2>2 DEF Figures
  <2>4. case.exit_multiple * exit.ebitda \in Int
    BY <1>3, <2>3
  <2>5. ExitEquity(case, exit) \in Int
    BY <2>3, <2>4 DEF ExitEquity
  <2> QED BY <2>1, <2>5
<1>7. Measured(s, case) = Output(s, case, rows)
  BY <1>1 DEF Measured
<1> QED BY <1>5, <1>6, <1>7 DEF Output

LEMMA MetricIs ==
  ASSUME NEW s \in Stresses, NEW value \in Int
  PROVE  /\ Metric(s, value) \in Int \cup Missing
         /\ Metric(s, value) # Refused <=> WellFormed(Shifted(s, value)) /\ Financed(Shifted(s, value))
<1>1. PICK case : case = Shifted(s, value)
  OBVIOUS
<1>2. Metric(s, value) = Measured(s, case)
  BY <1>1 DEF Metric
<1>3. CASE WellFormed(case) /\ Financed(case)
  <2>1. Measured(s, case) \in Int \cup {Absent}
    BY <1>3, OutputIsMeasurable
  <2> QED BY <1>1, <1>2, <1>3, <2>1, SolverAssumption DEF Missing
<1>4. CASE ~(WellFormed(case) /\ Financed(case))
  <2>1. Measured(s, case) = Refused
    BY <1>4 DEF Measured
  <2> QED BY <1>1, <1>2, <1>4, <2>1 DEF Missing
<1> QED BY <1>3, <1>4

\* So no value between two bounds that are not refused is.
LEMMA RefusedAtABound ==
  ASSUME NEW s \in Stresses, NEW i \in Int, NEW j \in Int, NEW k \in Int, i <= j, j <= k,
         Metric(s, i) # Refused, Metric(s, k) # Refused
  PROVE  Metric(s, j) # Refused
<1>1. WellFormed(s.case)
  BY CaseAssumption
<1>2. WellFormed(Shifted(s, i)) /\ WellFormed(Shifted(s, k)) /\ Financed(Shifted(s, i))
  BY MetricIs
<1>3. WellFormed(Shifted(s, j))
  BY <1>1, <1>2, BetweenIsCase
<1>4. Financed(Shifted(s, j))
  BY <1>1, <1>2, ShiftedIsFinanced
<1> QED BY <1>3, <1>4, MetricIs

\* The least of lower numbers is lower.
LEMMA MinimaCompared ==
  ASSUME NEW rows, NEW worse, NEW n \in Nat \ {0}, DOMAIN rows = 1..n, DOMAIN worse = 1..n,
         \A p \in 1..n : /\ rows[p].liquidity \in Int /\ worse[p].liquidity \in Int
                         /\ worse[p].liquidity <= rows[p].liquidity
  PROVE  MinimumLiquidity(worse) <= MinimumLiquidity(rows)
<1>1. PICK f, g : f = [p \in 1..n |-> rows[p].liquidity] /\ g = [p \in 1..n |-> worse[p].liquidity]
  OBVIOUS
<1>2. \A k \in 1..n : f[k] \in Int /\ g[k] \in Int /\ g[k] <= f[k]
  BY <1>1
<1>3. PICK k \in 1..n : \A j \in 1..n : f[k] <= f[j]
  BY <1>2, SomeIsLeast
<1>4. PICK m \in 1..n : \A j \in 1..n : g[m] <= g[j]
  BY <1>2, SomeIsLeast
<1>5. PICK S, T : S = {rows[p].liquidity : p \in DOMAIN rows} /\ T = {worse[p].liquidity : p \in DOMAIN worse}
  OBVIOUS
<1>6. S \subseteq Int /\ \E x \in S : \A y \in S : x <= y
  <2>1. S = {f[p] : p \in 1..n}
    BY <1>1, <1>5
  <2>2. f[k] \in S /\ \A y \in S : f[k] <= y
    BY <1>3, <2>1
  <2> QED BY <1>2, <2>1, <2>2
<1>7. T \subseteq Int /\ \E x \in T : \A y \in T : x <= y
  <2>1. T = {g[p] : p \in 1..n}
    BY <1>1, <1>5
  <2>2. g[m] \in T /\ \A y \in T : g[m] <= y
    BY <1>4, <2>1
  <2> QED BY <1>2, <2>1, <2>2
<1>8. Min(S) \in S /\ Min(T) \in T /\ \A y \in T : Min(T) <= y
  BY <1>6, <1>7 DEF Min
<1>9. PICK j \in 1..n : Min(S) = f[j]
  BY <1>1, <1>5, <1>8
<1>10. g[j] \in T
  BY <1>1, <1>5
<1>11. Min(T) <= g[j] /\ g[j] <= f[j] /\ Min(T) \in Int /\ g[j] \in Int /\ f[j] \in Int
  BY <1>2, <1>7, <1>8, <1>10
<1>12. Min(T) <= Min(S)
  BY <1>9, <1>11
<1> QED BY <1>5, <1>12 DEF MinimumLiquidity

\* A harder case that has an output has no greater one than the easier case,
\* which has one too, as long as debt is no bargain in it.
LEMMA OutputsCompared ==
  ASSUME NEW s, NEW case, WellFormed(case), Financed(case), NEW hard, WellFormed(hard), Financed(hard), Harder(case, hard),
         \A p \in Periods(case) : NoBargain(case, Projection(hard, 0, 0)[p], Projection(case, 0, 0)[p]),
         NEW x, x = Measured(s, case), NEW y, y = Measured(s, hard), y # Absent, Absent \notin Int
  PROVE  x \in Int /\ y \in Int /\ y <= x
<1>1. PICK rows, worse, n : /\ rows = Projection(case, 0, 0) /\ worse = Projection(hard, 0, 0)
                            /\ n = Len(case.ebitda)
  OBVIOUS
<1>2. n \in Nat \ {0} /\ Periods(case) = 1..n
  BY <1>1, CaseIs
<1>3. PICK zero : zero = 0
  OBVIOUS
<1>4. rows = Projection(case, zero, zero) /\ worse = Projection(hard, zero, zero) /\ zero \in Nat /\ zero <= zero
  BY <1>1, <1>3
<1>5. /\ DOMAIN rows = 1..n /\ DOMAIN worse = 1..n /\ Len(rows) = n /\ Len(worse) = n
      /\ \A p \in 1..n : NoBargains(case, p, worse, rows) => Worse(case, worse[p], rows[p])
  BY <1>1, <1>2, <1>4, ProjectionsCompared
<1>b. ASSUME NEW p \in 1..n PROVE Worse(case, worse[p], rows[p])
  <2>1. \A q \in 1..p : q \in Periods(case)
    BY <1>2
  <2>2. NoBargains(case, p, worse, rows)
    BY <1>1, <2>1 DEF NoBargains
  <2> QED BY <1>5, <2>2
<1>6. \A p \in 1..n : /\ Figures(rows[p]) /\ Figures(worse[p])
                      /\ worse[p].liquidity <= rows[p].liquidity
                      /\ worse[p].cash <= rows[p].cash
                      /\ rows[p].owed <= worse[p].owed
                      /\ worse[p].ebitda <= rows[p].ebitda
  BY <1>b DEF Worse
<1>7. x = Output(s, case, rows) /\ y = Output(s, hard, worse)
  BY <1>1 DEF Measured
<1>8. CASE s.objective = "minimum_liquidity"
  <2>1. \A p \in 1..n : /\ rows[p].liquidity \in Int /\ worse[p].liquidity \in Int
                        /\ worse[p].liquidity <= rows[p].liquidity
    BY <1>6 DEF Figures
  <2>2. MinimumLiquidity(worse) <= MinimumLiquidity(rows)
    BY <1>2, <1>5, <2>1, MinimaCompared
  <2>3. MinimumLiquidity(worse) \in Int /\ MinimumLiquidity(rows) \in Int
    BY <1>2, <1>5, <2>1, MinimumIsInt
  <2> QED BY <1>7, <1>8, <2>2, <2>3 DEF Output
<1>9. CASE s.objective # "minimum_liquidity"
  <2>1. PICK exit, end : exit = rows[n] /\ end = worse[n]
    OBVIOUS
  <2>2. Last(rows) = exit /\ Last(worse) = end
    BY <1>5, <2>1 DEF Last
  <2>3. /\ exit.ebitda \in Int /\ exit.owed \in Int /\ exit.cash \in Int
        /\ end.ebitda \in Int /\ end.owed \in Int /\ end.cash \in Int
        /\ end.cash <= exit.cash /\ exit.owed <= end.owed /\ end.ebitda <= exit.ebitda
    <3>1. n \in 1..n
      BY <1>2
    <3>2. /\ Figures(exit) /\ Figures(end)
          /\ end.cash <= exit.cash /\ exit.owed <= end.owed /\ end.ebitda <= exit.ebitda
      BY <1>6, <2>1, <3>1
    <3> QED BY <3>2 DEF Figures
  <2>4. case.exit_multiple \in Nat /\ hard.exit_multiple = case.exit_multiple
    <3>1. case \in Terms
      BY DEF WellFormed
    <3> QED BY <3>1 DEF Terms, Harder
  <2>5. PICK m, e, f : m = case.exit_multiple /\ e = exit.ebitda /\ f = end.ebitda
    OBVIOUS
  <2>6. m * f <= m * e /\ m * f \in Int /\ m * e \in Int
    BY <2>3, <2>4, <2>5
  <2>7. PICK v, w, equity, paid : /\ v = ExitEquity(case, exit) /\ w = ExitEquity(hard, end)
                                  /\ equity = SponsorEquity(case) /\ paid = SponsorEquity(hard)
  OBVIOUS
  <2>8. v = m * e - exit.owed + exit.cash /\ w = m * f - end.owed + end.cash /\ paid = equity
    BY <2>4, <2>5, <2>7 DEF ExitEquity, Harder
  <2>9. v \in Int /\ w \in Int /\ w <= v
    BY <2>3, <2>6, <2>8
  <2>10. /\ x = (IF equity > 0 /\ (s.objective = "irr" => v > 0) THEN v ELSE Absent)
         /\ y = (IF paid > 0 /\ (s.objective = "irr" => w > 0) THEN w ELSE Absent)
    BY <1>7, <1>9, <2>2, <2>7 DEF Output
  <2>11. y = w /\ paid > 0 /\ (s.objective = "irr" => w > 0)
    BY <2>10
  <2>12. s.objective = "irr" => v > 0
    BY <2>9, <2>11
  <2>13. x = v
    BY <2>8, <2>10, <2>11, <2>12
  <2> QED BY <2>9, <2>11, <2>13
<1> QED BY <1>8, <1>9

\* A higher base rate makes a case harder, and so do lower earnings.
LEMMA ShiftsCompared ==
  ASSUME NEW s, WellFormed(s.case), NEW value \in Int, NEW more \in Int, value <= more
  PROVE  IF s.variable = "base_rate_shift" THEN Harder(Shifted(s, value), Shifted(s, more))
         ELSE Harder(Shifted(s, more), Shifted(s, value))
<1>1. PICK case, a, b : case = s.case /\ a = Shifted(s, value) /\ b = Shifted(s, more)
  OBVIOUS
<1>2. WellFormed(case) /\ case.base \in Int /\ case.ebitda \in Seq(Int) /\ case.revenue \in Seq(Nat)
      /\ DOMAIN case.revenue = Periods(case)
  <2>1. WellFormed(case)
    BY <1>1
  <2>2. case \in Terms /\ DOMAIN case.revenue = Periods(case)
    BY <2>1 DEF WellFormed
  <2>3. case.base \in Int
    BY <2>1, CaseIs
  <2> QED BY <2>1, <2>2, <2>3 DEF Terms
<1>a. /\ Kept(case, a)
      /\ a.base = IF s.variable = "base_rate_shift" THEN case.base + value ELSE case.base
      /\ \A p \in Periods(case) :
           a.ebitda[p] = IF s.variable = "base_rate_shift" THEN case.ebitda[p]
                         ELSE case.ebitda[p] + Share(case.revenue[p], value)
  <2>1. case = s.case /\ WellFormed(case) /\ a = Shifted(s, value)
    BY <1>1, <1>2
  <2> HIDE <1>1, <1>2
  <2> QED BY <2>1, ShiftedIs
<1>b. /\ Kept(case, b)
      /\ b.base = IF s.variable = "base_rate_shift" THEN case.base + more ELSE case.base
      /\ \A p \in Periods(case) :
           b.ebitda[p] = IF s.variable = "base_rate_shift" THEN case.ebitda[p]
                         ELSE case.ebitda[p] + Share(case.revenue[p], more)
  <2>1. case = s.case /\ WellFormed(case) /\ b = Shifted(s, more)
    BY <1>1, <1>2
  <2> HIDE <1>1, <1>2
  <2> QED BY <2>1, ShiftedIs
<1>3. Kept(case, a) /\ Kept(case, b)
  BY <1>a, <1>b
<1>4. /\ a.tranches = b.tranches /\ a.minimum_cash = b.minimum_cash /\ a.sweep = b.sweep /\ a.tax = b.tax
      /\ a.da = b.da /\ a.capex = b.capex /\ a.nwc = b.nwc /\ a.exit_multiple = b.exit_multiple
      /\ DOMAIN a.ebitda = DOMAIN b.ebitda /\ DOMAIN a.ebitda = DOMAIN case.ebitda
  BY <1>3 DEF Kept
<1>5. SponsorEquity(a) = SponsorEquity(b)
  <2>1. SponsorEquity(a) = SponsorEquity(s.case)
    BY <1>1, ShiftedIsFinanced
  <2>2. SponsorEquity(b) = SponsorEquity(s.case)
    BY <1>1, ShiftedIsFinanced
  <2> QED BY <2>1, <2>2
<1>6. ASSUME NEW p \in DOMAIN case.ebitda PROVE case.ebitda[p] \in Int /\ case.revenue[p] \in Nat /\ p \in Periods(case)
  BY <1>2 DEF Periods
<1>7. CASE s.variable = "base_rate_shift"
  <2>1. a.base = case.base + value
    BY <1>7, <1>a
  <2>2. b.base = case.base + more
    BY <1>7, <1>b
  <2>3. \A p \in DOMAIN a.ebitda : b.ebitda[p] <= a.ebitda[p]
    <3> SUFFICES ASSUME NEW p \in DOMAIN case.ebitda PROVE b.ebitda[p] <= a.ebitda[p]
      BY <1>4
    <3>1. a.ebitda[p] = case.ebitda[p]
      BY <1>6, <1>7, <1>a
    <3>2. b.ebitda[p] = case.ebitda[p]
      BY <1>6, <1>7, <1>b
    <3> QED BY <1>6, <3>1, <3>2
  <2>4. a.base <= b.base
    BY <1>2, <2>1, <2>2
  <2>5. Harder(a, b)
    BY <1>4, <1>5, <2>3, <2>4 DEF Harder
  <2> QED BY <1>1, <1>7, <2>5
<1>8. CASE s.variable # "base_rate_shift"
  <2>1. a.base = case.base
    BY <1>8, <1>a
  <2>2. b.base = case.base
    BY <1>8, <1>b
  <2>3. \A p \in DOMAIN b.ebitda : a.ebitda[p] <= b.ebitda[p]
    <3> SUFFICES ASSUME NEW p \in DOMAIN case.ebitda PROVE a.ebitda[p] <= b.ebitda[p]
      BY <1>4
    <3>1. PICK e, r, x, y : /\ e = case.ebitda[p] /\ r = case.revenue[p]
                            /\ x = Share(case.revenue[p], value) /\ y = Share(case.revenue[p], more)
      OBVIOUS
    <3>2. a.ebitda[p] = e + x
      BY <1>6, <1>8, <1>a, <3>1
    <3>3. b.ebitda[p] = e + y
      BY <1>6, <1>8, <1>b, <3>1
    <3>4. x \in Int /\ y \in Int /\ x <= y
      <4>1. r \in Nat /\ x = Share(r, value) /\ y = Share(r, more)
        BY <1>6, <3>1
      <4> QED BY <4>1, SharesRise
    <3>5. e \in Int
      BY <1>6, <3>1
    <3> QED BY <3>2, <3>3, <3>4, <3>5
  <2>4. b.base <= a.base
    BY <1>2, <2>1, <2>2
  <2>5. Harder(b, a)
    BY <1>4, <1>5, <2>3, <2>4 DEF Harder
  <2> QED BY <1>1, <1>8, <2>5
<1> QED BY <1>7, <1>8

\* NoBargain looks at the tranches of a case only.
LEMMA BargainAlike ==
  ASSUME NEW case, NEW other, other.tranches = case.tranches, NEW row, NEW than, NoBargain(case, row, than)
  PROVE  NoBargain(other, row, than)
BY DEF NoBargain, Loans

\* One value compared with the next.
LEMMA OutputsAdjacent ==
  ASSUME NEW s \in Stresses, Orderly(s), NEW v \in s.low..s.high - 1, NEW x, x = Metric(s, v), NEW y, y = Metric(s, v + 1),
         Refused \notin {x, y}
  PROVE  IF s.variable = "base_rate_shift" THEN y # Absent => x \in Int /\ y \in Int /\ y <= x
         ELSE x # Absent => x \in Int /\ y \in Int /\ x <= y
<1>1. PICK w, a, b : w = v + 1 /\ a = Shifted(s, v) /\ b = Shifted(s, w)
  OBVIOUS
<1>2. v \in Int /\ w \in Int /\ v <= w /\ WellFormed(s.case) /\ Absent \notin Int
  BY <1>1, SolverAssumption, CaseAssumption
<1>3. WellFormed(a) /\ Financed(a)
  BY <1>1, <1>2, MetricIs
<1>4. WellFormed(b) /\ Financed(b)
  BY <1>1, <1>2, MetricIs
<1>5. x = Measured(s, a) /\ y = Measured(s, b)
  BY <1>1 DEF Metric
<1>6. PICK lower, upper : lower = Projection(a, 0, 0) /\ upper = Projection(b, 0, 0)
  OBVIOUS
<1>7. \A p \in DOMAIN lower : IF s.variable = "base_rate_shift" THEN NoBargain(s.case, upper[p], lower[p])
                              ELSE NoBargain(s.case, lower[p], upper[p])
  BY <1>1, <1>6 DEF Orderly
<1>8. Kept(s.case, a)
  BY <1>1, <1>2, ShiftedIs
<1>9. Kept(s.case, b)
  BY <1>1, <1>2, ShiftedIs
<1>10. DOMAIN lower = Periods(a) /\ Periods(a) = Periods(b) /\ a.tranches = s.case.tranches /\ b.tranches = s.case.tranches
  <2>1. DOMAIN lower = Periods(a)
    BY <1>3, <1>6, ProjectionInOrder
  <2> QED BY <1>8, <1>9, <2>1 DEF Kept, Periods
<1>11. CASE s.variable = "base_rate_shift"
  <2>1. Harder(a, b)
    BY <1>1, <1>2, <1>11, ShiftsCompared
  <2>2. \A p \in Periods(a) : NoBargain(a, upper[p], lower[p])
    BY <1>7, <1>10, <1>11, BargainAlike
  <2>3. ASSUME y # Absent PROVE x \in Int /\ y \in Int /\ y <= x
    BY <1>2, <1>3, <1>4, <1>5, <1>6, <2>1, <2>2, <2>3, OutputsCompared
  <2> QED BY <1>11, <2>3
<1>12. CASE s.variable # "base_rate_shift"
  <2>1. Harder(b, a)
    BY <1>1, <1>2, <1>12, ShiftsCompared
  <2>2. \A p \in Periods(b) : NoBargain(b, lower[p], upper[p])
    BY <1>7, <1>10, <1>12, BargainAlike
  <2>3. ASSUME x # Absent PROVE x \in Int /\ y \in Int /\ x <= y
    BY <1>2, <1>3, <1>4, <1>5, <1>6, <2>1, <2>2, <2>3, OutputsCompared
  <2> QED BY <1>12, <2>3
<1> QED BY <1>11, <1>12

\* And with any other, between bounds that are cases.
LEMMA OutputsFollow ==
  ASSUME NEW s \in Stresses, Orderly(s), Metric(s, s.low) # Refused, Metric(s, s.high) # Refused,
         NEW i \in s.low..s.high, NEW j \in s.low..s.high, i <= j, NEW x, x = Metric(s, i), NEW y, y = Metric(s, j)
  PROVE  IF s.variable = "base_rate_shift" THEN y # Absent => x \in Int /\ y \in Int /\ y <= x
         ELSE x # Absent => x \in Int /\ y \in Int /\ x <= y
<1>1. s.low \in Int /\ s.high \in Int /\ i \in Int /\ j \in Int /\ s.low <= s.high
  BY SolverAssumption
<1>2. ASSUME NEW v \in s.low..s.high PROVE Metric(s, v) # Refused /\ Metric(s, v) \in Int \cup {Absent}
  <2>1. Metric(s, v) # Refused
    BY <1>1, RefusedAtABound
  <2>2. Metric(s, v) \in Int \cup Missing
    BY <1>1, MetricIs
  <2> QED BY <2>1, <2>2 DEF Missing
<1>3. PICK n : n = j - i
  OBVIOUS
<1>4. n \in Nat /\ \A k \in 0..n : i + k \in s.low..s.high
  BY <1>1, <1>3
<1>5. ASSUME NEW k \in 1..n, NEW u, u = Metric(s, i + (k - 1)), NEW w, w = Metric(s, i + k)
      PROVE  IF s.variable = "base_rate_shift" THEN w # Absent => u \in Int /\ w \in Int /\ w <= u
             ELSE u # Absent => u \in Int /\ w \in Int /\ u <= w
  <2>1. PICK v : v = i + (k - 1)
    OBVIOUS
  <2>2. v \in s.low..s.high - 1 /\ v + 1 = i + k /\ v \in s.low..s.high /\ v + 1 \in s.low..s.high
    BY <1>1, <1>3, <1>4, <2>1
  <2>3. Refused \notin {u, w}
    BY <1>2, <1>5, <2>1, <2>2
  <2>4. u = Metric(s, v) /\ w = Metric(s, v + 1)
    BY <1>5, <2>1, <2>2
  <2> QED BY <2>2, <2>3, <2>4, OutputsAdjacent
<1> DEFINE After(k) == LET w == Metric(s, i + k) IN
             IF s.variable = "base_rate_shift" THEN w # Absent => x \in Int /\ w \in Int /\ w <= x
             ELSE x # Absent => x \in Int /\ w \in Int /\ x <= w
           B == {k \in 0..n : ~After(k)}
<1>6. 0 \notin B /\ B \subseteq 0..n
  <2>1. i + 0 = i /\ x \in Int \cup {Absent}
    BY <1>1, <1>2
  <2>2. x = Metric(s, i + 0)
    BY <2>1
  <2>3. x \in Int => x <= x
    OBVIOUS
  <2>4. After(0)
    BY <2>1, <2>2, <2>3
  <2> QED BY <2>4
<1>7. ASSUME NEW k \in 1..n, k - 1 \notin B PROVE k \notin B
  <2>1. k - 1 \in 0..n
    BY <1>4
  <2>2. After(k - 1)
    BY <1>7, <2>1
  <2>3. PICK u, w : u = Metric(s, i + (k - 1)) /\ w = Metric(s, i + k)
    OBVIOUS
  <2>4. IF s.variable = "base_rate_shift" THEN u # Absent => x \in Int /\ u \in Int /\ u <= x
        ELSE x # Absent => x \in Int /\ u \in Int /\ x <= u
    BY <2>2, <2>3
  <2>5. IF s.variable = "base_rate_shift" THEN w # Absent => u \in Int /\ w \in Int /\ w <= u
        ELSE u # Absent => u \in Int /\ w \in Int /\ u <= w
    BY <1>5, <2>3
  <2>6. Absent \notin Int
    BY SolverAssumption
  <2>7. IF s.variable = "base_rate_shift" THEN w # Absent => x \in Int /\ w \in Int /\ w <= x
        ELSE x # Absent => x \in Int /\ w \in Int /\ x <= w
    <3> HIDE DEF After
    <3> QED BY <2>4, <2>5, <2>6
  <2>8. After(k)
    BY <2>3, <2>7
  <2> QED BY <2>8
<1> HIDE DEF B
<1>8. B = {}
  BY <1>4, <1>6, <1>7, AlongTheRun
<1>9. n \in 0..n /\ i + n = j
  BY <1>1, <1>3, <1>4
<1>10. After(n)
  BY <1>8, <1>9 DEF B
<1> QED BY <1>9, <1>10

-----------------------------------------------------------------------------
(* calculate_reverse_stress.                                               *)

Measurable(i) == Metric(ask, i) \notin Missing

\* What is reported: near the target or around a crossing of it; refused for a
\* bound; no solution for a bound without a figure, for want of a crossing, or
\* after halvings that always held one.
Stressed ==
  /\ answer.status \in {"solved", "refused", "no_solution"}
  /\ answer.status = "solved" =>
       \/ Near(ask, Metric(ask, answer.value))
       \/ high - low <= ask.tolerance /\ Opposed(ask, Metric(ask, low), Metric(ask, high))
  /\ answer.status = "refused" => Refused \in {Metric(ask, ask.low), Metric(ask, ask.high)}
  /\ answer.status = "no_solution" /\ tries = 0 =>
       \/ Absent \in {Metric(ask, ask.low), Metric(ask, ask.high)}
       \/ /\ Measurable(ask.low) /\ Measurable(ask.high)
          /\ ~Opposed(ask, Metric(ask, ask.low), Metric(ask, ask.high))
  /\ answer.status = "no_solution" /\ tries > 0 =>
       /\ Measurable(ask.low) /\ Measurable(ask.high)
       /\ Opposed(ask, Metric(ask, low), Metric(ask, high))
       /\ tries = ask.iterations \/ \E value \in ask.low..ask.high : Metric(ask, value) = Absent

StressInv == ask \in Stresses =>
  /\ at \in {"stress", "halving", "over"}
  /\ low \in ask.low..ask.high /\ high \in ask.low..ask.high /\ low <= high
  /\ tries \in Nat
  /\ at = "stress" => low = ask.low /\ high = ask.high /\ tries = 0
  /\ at = "halving" => /\ Measurable(low) /\ Measurable(high)
                       /\ Measurable(ask.low) /\ Measurable(ask.high)
                       /\ Opposed(ask, Metric(ask, low), Metric(ask, high))
  /\ at = "over" => Stressed

LEMMA InitStressInv == Init => StressInv
BY SolverAssumption DEF Init, StressInv

LEMMA MiddleIsBetween ==
  ASSUME NEW i \in Int, NEW j \in Int, low \in i..j, high \in i..j, low <= high
  PROVE  Middle \in i..j /\ low <= Middle /\ Middle <= high
BY DEF Middle

LEMMA HalveKeepsCrossing ==
  ASSUME StressInv, ask \in Stresses, Halve
  PROVE  StressInv'
<1> DEFINE x == Metric(ask, low)
           y == Metric(ask, Middle)
           z == Metric(ask, high)
<1>1. /\ low \in ask.low..ask.high /\ high \in ask.low..ask.high /\ low <= high /\ tries \in Nat
      /\ x \notin Missing /\ z \notin Missing /\ Opposed(ask, x, z)
      /\ Measurable(ask.low) /\ Measurable(ask.high)
  BY DEF Halve, StressInv, Measurable
<1>2. /\ ask.low \in Int /\ ask.high \in Int /\ ask.target \in Int /\ ask.tolerance \in Nat
      /\ Absent # Refused
  BY SolverAssumption
<1>3. Middle \in ask.low..ask.high /\ low <= Middle /\ Middle <= high
  BY <1>1, <1>2, MiddleIsBetween
<1>4. x \in Int /\ z \in Int /\ y \in Int \cup Missing
  <2>1. low \in Int /\ high \in Int /\ Middle \in Int
    BY <1>1, <1>2, <1>3
  <2>2. x \in Int \cup Missing
    BY <2>1, MetricIs
  <2>3. y \in Int \cup Missing
    BY <2>1, MetricIs
  <2>4. z \in Int \cup Missing
    BY <2>1, MetricIs
  <2> QED BY <1>1, <2>2, <2>3, <2>4
<1>r. y # Refused
  <2>1. ask.low <= Middle /\ Middle <= ask.high /\ Middle \in Int
    BY <1>2, <1>3
  <2>2. Metric(ask, ask.low) # Refused /\ Metric(ask, ask.high) # Refused
    BY <1>1 DEF Measurable, Missing
  <2> QED BY <1>2, <2>1, <2>2, RefusedAtABound
<1>5. ask' = ask /\ at = "halving" /\ Narrow(x, y) /\ tries' = tries + 1
  BY DEF Halve
<1>t. tries' \in Nat /\ tries' > 0
  BY <1>1, <1>5
<1> HIDE DEF x, y, z
<1>6. CASE y \in Missing
  <2>1. at' = "over" /\ low' = low /\ high' = high
    BY <1>5, <1>6 DEF Narrow, Conclude
  <2>2. answer' = [status |-> "no_solution", value |-> 0, beyond |-> 0]
    BY <1>5, <1>6, <1>r DEF Narrow, Conclude, Without
  <2>3. y = Absent
    BY <1>6, <1>r DEF Missing
  <2>4. \E value \in ask.low..ask.high : Metric(ask, value) = Absent
    BY <1>3, <2>3 DEF y
  <2>5. Stressed'
    BY <1>1, <1>2, <1>5, <1>t, <2>1, <2>2, <2>4 DEF Stressed, Measurable, x, z
  <2> QED BY <1>1, <1>5, <1>t, <2>1, <2>5 DEF StressInv
<1>7. CASE y \notin Missing /\ (Near(ask, y) \/ high - low <= ask.tolerance)
  <2>1. at' = "over" /\ low' = low /\ high' = high
    BY <1>1, <1>2, <1>5, <1>7 DEF Narrow, Conclude
  <2>2. answer' = [status |-> "solved", value |-> Middle, beyond |-> high]
    BY <1>1, <1>2, <1>5, <1>7 DEF Narrow, Conclude
  <2>3. Stressed'
    BY <1>1, <1>5, <1>7, <2>1, <2>2 DEF Stressed, x, y, z
  <2>4. QED BY <1>1, <1>5, <1>t, <2>1, <2>3 DEF StressInv
<1>8. CASE y \notin Missing /\ ~Near(ask, y) /\ high - low > ask.tolerance
  <2>1. y \in Int
    BY <1>4, <1>8
  <2>2. CASE Opposed(ask, x, y)
    <3>1. high' = Middle /\ low' = low /\ at' = at
      BY <1>1, <1>2, <1>5, <1>8, <2>2 DEF Narrow
    <3>2. QED BY <1>1, <1>3, <1>5, <1>8, <1>t, <2>2, <3>1 DEF StressInv, Measurable, x, y
  <2>3. CASE ~Opposed(ask, x, y)
    <3>1. low' = Middle /\ high' = high /\ at' = at
      BY <1>1, <1>2, <1>5, <1>8, <2>3 DEF Narrow
    <3>2. Opposed(ask, y, z)
      BY <1>1, <1>2, <1>4, <2>1, <2>3 DEF Opposed
    <3>3. QED BY <1>1, <1>3, <1>5, <1>8, <1>t, <3>1, <3>2 DEF StressInv, Measurable, y, z
  <2>4. QED BY <2>2, <2>3
<1>9. QED BY <1>5, <1>6, <1>7, <1>8 DEF Narrow

LEMMA StepStressInv == StressInv /\ [Next]_vars => StressInv'
<1> SUFFICES ASSUME StressInv, [Next]_vars, ask' \in Stresses PROVE StressInv'
  BY DEF StressInv
<1>1. ask' = ask
  BY DEF Next, RecapNext, StressNext, RefuseRecap, TryZero, Double, GiveUpDoubling, Enclose, Bisect,
         ReportRecap, TryEnds, Halve, ReportStress, vars
<1>2. ask \in Stresses /\ at \in {"stress", "halving", "over"} /\ tries \in Nat /\ ask.iterations \in Nat \ {0}
  BY <1>1, SolverAssumption DEF StressInv
<1>3. CASE UNCHANGED vars
  BY <1>3 DEF vars, StressInv, Stressed, Measurable
<1>4. CASE RecapNext
  BY <1>2, <1>4 DEF RecapNext, RefuseRecap, TryZero, Double, GiveUpDoubling, Enclose, Bisect, ReportRecap
<1>5. CASE TryEnds
  <2> DEFINE x == Metric(ask, low)
             y == Metric(ask, high)
  <2>1. /\ low = ask.low /\ high = ask.high /\ low' = low /\ high' = high /\ Compare(x, y)
        /\ tries = 0 /\ tries' = tries
    BY <1>2, <1>5 DEF TryEnds, StressInv
  <2>2. low \in ask.low..ask.high /\ high \in ask.low..ask.high /\ low <= high
    BY <1>2 DEF StressInv
  <2> HIDE DEF x, y
  <2>3. CASE x \in Missing \/ y \in Missing
    <3>1. at' = "over" /\ answer' = [status |-> Without(x, y), value |-> 0, beyond |-> 0]
      BY <2>1, <2>3 DEF Compare, Conclude
    <3>2. CASE Refused \in {x, y}
      <4>1. answer'.status = "refused"
        BY <3>1, <3>2 DEF Without
      <4>2. Stressed'
        BY <1>1, <2>1, <3>2, <4>1 DEF Stressed, x, y
      <4> QED BY <1>1, <1>2, <2>1, <2>2, <3>1, <4>2 DEF StressInv
    <3>3. CASE Refused \notin {x, y}
      <4>1. answer'.status = "no_solution" /\ Absent \in {x, y}
        BY <2>3, <3>1, <3>3 DEF Without, Missing
      <4>2. Stressed'
        BY <1>1, <2>1, <4>1 DEF Stressed, x, y
      <4> QED BY <1>1, <1>2, <2>1, <2>2, <3>1, <4>2 DEF StressInv
    <3> QED BY <3>2, <3>3
  <2>4. CASE x \notin Missing /\ y \notin Missing
    <3>1. CASE at' = "halving"
      BY <1>1, <1>2, <2>1, <2>2, <2>4, <3>1 DEF Compare, Conclude, StressInv, Measurable, x, y
    <3>2. CASE at' # "halving"
      <4>1. at' = "over" /\ answer'.status \in {"solved", "no_solution"}
        BY <2>1, <2>4, <3>2 DEF Compare, Conclude
      <4>2. answer'.status = "solved" => Near(ask, Metric(ask, answer'.value))
        BY <2>1, <2>4, <3>2 DEF Compare, Conclude, x, y
      <4>3. answer'.status = "no_solution" => ~Opposed(ask, x, y)
        BY <2>1, <2>4, <3>2 DEF Compare, Conclude
      <4>4. Stressed'
        BY <1>1, <2>1, <2>4, <4>1, <4>2, <4>3 DEF Stressed, Measurable, x, y
      <4> QED BY <1>1, <1>2, <2>1, <2>2, <4>1, <4>4 DEF StressInv
    <3> QED BY <3>1, <3>2
  <2> QED BY <2>3, <2>4
<1>6. CASE Halve
  BY <1>2, <1>6, HalveKeepsCrossing
<1>7. CASE ReportStress
  <2>1. /\ at = "halving" /\ tries = ask.iterations /\ low' = low /\ high' = high /\ tries' = tries
        /\ at' = "over" /\ answer' = [status |-> "no_solution", value |-> 0, beyond |-> 0]
    BY <1>7 DEF ReportStress, Conclude
  <2>2. /\ Measurable(ask.low) /\ Measurable(ask.high)
        /\ Opposed(ask, Metric(ask, low), Metric(ask, high))
    BY <1>2, <2>1 DEF StressInv
  <2>3. Stressed'
    BY <1>1, <1>2, <2>1, <2>2 DEF Stressed, Measurable
  <2> QED BY <1>1, <1>2, <2>1, <2>3 DEF StressInv
<1>8. QED BY <1>3, <1>4, <1>5, <1>6, <1>7 DEF Next, StressNext

\* In an orderly request every value between measurable bounds has a figure,
\* and it is between theirs.
LEMMA BetweenTheBounds ==
  ASSUME ask \in Stresses, Orderly(ask), Measurable(ask.low), Measurable(ask.high), NEW value \in ask.low..ask.high,
         NEW x, x = Metric(ask, ask.low), NEW y, y = Metric(ask, value), NEW z, z = Metric(ask, ask.high)
  PROVE  /\ x \in Int /\ y \in Int /\ z \in Int
         /\ (x <= y /\ y <= z) \/ (z <= y /\ y <= x)
<1>1. PICK i, j : i = ask.low /\ j = ask.high
  OBVIOUS
<1>2. /\ i \in Int /\ j \in Int /\ i <= j /\ value \in i..j /\ i \in i..j /\ j \in i..j /\ i <= value /\ value <= j
  BY <1>1, SolverAssumption
<1>3. x # Refused /\ z # Refused /\ x # Absent /\ z # Absent
  BY DEF Measurable, Missing
<1>4. IF ask.variable = "base_rate_shift" THEN y # Absent => x \in Int /\ y \in Int /\ y <= x
      ELSE x # Absent => x \in Int /\ y \in Int /\ x <= y
  BY <1>1, <1>2, <1>3, OutputsFollow
<1>5. IF ask.variable = "base_rate_shift" THEN z # Absent => y \in Int /\ z \in Int /\ z <= y
      ELSE y # Absent => y \in Int /\ z \in Int /\ y <= z
  BY <1>1, <1>2, <1>3, OutputsFollow
<1>6. Absent \notin Int
  BY SolverAssumption
<1> QED BY <1>3, <1>4, <1>5, <1>6

\* calculate_reverse_stress, whatever the cases: a solved value is near the
\* target or within a tolerance of a crossing, only a bound is refused, and a
\* search that ends without a solution after halvings had a crossing in its
\* bracket.  In every request whose projections show that debt is no bargain,
\* a target that is out of reach is met nowhere between the bounds, and no
\* value between them lacks a figure.
THEOREM VerdictHolds == Spec => []StressVerdict
<1>1. StressInv => StressVerdict
  <2> SUFFICES ASSUME StressInv, at = "over", ask \in Stresses PROVE StressVerdict
    BY DEF StressVerdict
  <2>1. Stressed /\ tries \in Nat
    BY DEF StressInv
  <2>2. ask.target \in Int /\ Absent \notin Int
    BY SolverAssumption
  <2>3. CASE answer.status = "solved"
    BY <2>1, <2>3 DEF Stressed, StressVerdict
  <2>4. CASE answer.status = "refused"
    BY <2>1, <2>4 DEF Stressed, StressVerdict
  <2>5. CASE answer.status = "no_solution" /\ tries = 0
    <3>1. ASSUME Absent \notin {Metric(ask, ask.low), Metric(ask, ask.high)}, Orderly(ask),
                 NEW value \in ask.low..ask.high, Metric(ask, value) = ask.target
          PROVE  FALSE
      <4>1. PICK x, y, z : x = Metric(ask, ask.low) /\ y = Metric(ask, value) /\ z = Metric(ask, ask.high)
        OBVIOUS
      <4>2. Measurable(ask.low) /\ Measurable(ask.high) /\ ~Opposed(ask, x, z)
        BY <2>1, <2>5, <3>1, <4>1 DEF Stressed
      <4>3. (x <= y /\ y <= z) \/ (z <= y /\ y <= x)
        BY <3>1, <4>1, <4>2, BetweenTheBounds
      <4>4. y = ask.target
        BY <3>1, <4>1
      <4> QED BY <4>2, <4>3, <4>4 DEF Opposed
    <3> QED BY <2>5, <3>1 DEF StressVerdict
  <2>6. CASE answer.status = "no_solution" /\ tries > 0
    <3>1. /\ Measurable(ask.low) /\ Measurable(ask.high)
          /\ Opposed(ask, Metric(ask, low), Metric(ask, high))
          /\ tries = ask.iterations \/ \E value \in ask.low..ask.high : Metric(ask, value) = Absent
      BY <2>1, <2>6 DEF Stressed
    <3>2. ASSUME Orderly(ask), NEW value \in ask.low..ask.high PROVE Metric(ask, value) # Absent
      <4>1. Metric(ask, value) \in Int
        BY <3>1, <3>2, BetweenTheBounds
      <4> QED BY <2>2, <4>1
    <3> QED BY <2>6, <3>1, <3>2 DEF StressVerdict
  <2>7. QED BY <2>1, <2>3, <2>4, <2>5, <2>6 DEF Stressed
<1>2. QED BY InitStressInv, StepStressInv, <1>1, PTL DEF Spec

LEMMA SharesGrow ==
  ASSUME NEW x \in Nat, NEW y \in Nat, x <= y, NEW p \in Nat, NEW q \in Nat, p <= q
  PROVE  Share(x, p) \in Nat /\ Share(y, q) \in Nat /\ Share(x, p) <= Share(y, q)
<1>1. PICK a, b, c : a = x * p /\ b = x * q /\ c = y * q
  OBVIOUS
<1>2. a \in Nat /\ b \in Nat /\ c \in Nat
  BY <1>1
<1>3. a <= b
  BY <1>1
<1>4. b <= c
  BY <1>1
<1>5. a \div 100 \in Nat /\ c \div 100 \in Nat /\ a \div 100 <= c \div 100
  BY <1>2, <1>3, <1>4
<1> QED BY <1>1, <1>5 DEF Share

\* A multiple of a rate grows with the amount as fast as the rate, at least.
LEMMA MultiplesGrow ==
  ASSUME NEW x \in Nat, NEW y \in Nat, x <= y, NEW p \in Nat, NEW m \in Nat \ {0}
  PROVE  Share(y, p) - Share(x, p) <= Share(y, m * p) - Share(x, m * p)
<1>1. PICK a, b : a = x * p /\ b = y * p
  OBVIOUS
<1>2. a \in Nat /\ b \in Nat /\ a <= b
  BY <1>1
<1>3. x * (m * p) = m * a /\ y * (m * p) = m * b
  BY <1>1
<1>4. PICK q, r, s, t : q = a \div 100 /\ r = a % 100 /\ s = b \div 100 /\ t = b % 100
  OBVIOUS
<1>5. /\ q \in Nat /\ r \in 0..99 /\ s \in Nat /\ t \in 0..99
      /\ a = 100 * q + r /\ b = 100 * s + t
  BY <1>2, <1>4
<1>6. PICK A, B, R, T : A = m * q /\ B = m * s /\ R = m * r /\ T = m * t
  OBVIOUS
<1>7. A \in Nat /\ B \in Nat /\ R \in Nat /\ T \in Nat
  BY <1>5, <1>6
<1>8. m * a = 100 * A + R /\ m * b = 100 * B + T
  <2>1. m * a = m * (100 * q + r) /\ m * b = m * (100 * s + t)
    BY <1>5
  <2>2. m * (100 * q + r) = 100 * (m * q) + m * r /\ m * (100 * s + t) = 100 * (m * s) + m * t
    BY <1>5
  <2> QED BY <1>6, <2>1, <2>2
<1>9. (m * a) \div 100 = A + R \div 100 /\ (m * b) \div 100 = B + T \div 100
  BY <1>7, <1>8
<1>10. R \div 100 \in Nat /\ R \div 100 <= m - 1 /\ T \div 100 \in Nat
  <2>1. R <= 99 * m
    BY <1>5, <1>6
  <2> QED BY <1>7, <2>1
<1>11. PICK d : d = s - q
  OBVIOUS
<1>12. d \in Nat
  BY <1>2, <1>5, <1>11
<1>13. d <= (B + T \div 100) - (A + R \div 100)
  <2>1. CASE d = 0
    <3>1. q = s /\ r <= t
      BY <1>2, <1>5, <1>11, <2>1
    <3>2. A = B /\ R <= T
      BY <1>5, <1>6, <3>1
    <3> QED BY <1>7, <2>1, <3>2
  <2>2. CASE d # 0
    <3>1. PICK k, n : k = m - 1 /\ n = d - 1
      OBVIOUS
    <3>2. k \in Nat /\ n \in Nat /\ k * n \in Nat
      BY <1>12, <2>2, <3>1
    <3>3. m * d = k * n + k + n + 1
      <4>1. m = k + 1 /\ d = n + 1
        BY <1>12, <3>1
      <4> QED BY <3>2, <4>1
    <3>4. B = A + m * d
      <4>1. s = q + d
        BY <1>5, <1>11
      <4> QED BY <1>5, <1>6, <1>12, <4>1
    <3> QED BY <1>7, <1>10, <1>12, <3>1, <3>2, <3>3, <3>4
  <2> QED BY <2>1, <2>2
<1> QED BY <1>1, <1>3, <1>4, <1>9, <1>11, <1>13 DEF Share

\* Of up to a half of an amount, half the growth is taken.
LEMMA HalfIsSaved ==
  ASSUME NEW x \in Nat, NEW y \in Nat, x <= y, NEW p \in Nat, p <= 50
  PROVE  Share(x, p) \in Nat /\ Share(y, p) \in Nat /\ 2 * (Share(y, p) - Share(x, p)) <= (y - x) + 1
<1>1. PICK d : d = y - x
  OBVIOUS
<1>2. d \in Nat
  BY <1>1
<1>3. PICK a, b : a = x * p /\ b = d * p
  OBVIOUS
<1>4. a \in Nat /\ b \in Nat
  BY <1>2, <1>3
<1>5. b <= d * 50
  BY <1>2, <1>3
<1>6. y * p = a + b
  BY <1>1, <1>2, <1>3
<1>7. /\ a \div 100 \in Nat /\ (a + b) \div 100 \in Nat
      /\ 2 * ((a + b) \div 100 - a \div 100) <= d + 1
  BY <1>2, <1>4, <1>5
<1> QED BY <1>1, <1>3, <1>6, <1>7 DEF Share

-----------------------------------------------------------------------------
(* Terms at which debt always costs: no rate below zero; no interest in    *)
(* kind, no taxes, or no more than half in taxes and a cash rate that is a *)
(* multiple of the rate in kind; no amortizing revolver.  Half is what the *)
(* owners must keep of what interest in kind saves; the multiple is for    *)
(* the rounding of shares to whole units.                                  *)

Rate(case, i) == Greatest(case.base, case.tranches[i].floor) + case.tranches[i].spread

CostlyTerms(case) == \A i \in Loans(case) :
  /\ Rate(case, i) >= 0
  /\ \/ case.tax = 0 \/ case.tranches[i].pik = 0
     \/ case.tax <= 50 /\ \E m \in Nat \ {0} : Rate(case, i) = m * case.tranches[i].pik
  /\ case.tranches[i].revolver => Share(case.tranches[i].initial, case.tranches[i].amort) = 0

\* A limit on the coverage of fixed charges counts what they save in taxes.
CountsTaxes(r) ==
  "min_fixed_charge_coverage" \in DOMAIN r.limits => r.case.tax = 0 \/ r.limits["min_fixed_charge_coverage"] >= 100

\* A tranche of which more is owed, at a rate no lower.
LEMMA RowDearer ==
  ASSUME NEW case, WellFormed(case), CostlyTerms(case), NEW hard, WellFormed(hard), Harder(case, hard),
         NEW p, NEW i \in Loans(case), NEW opening \in Nat, NEW more \in Nat, opening <= more,
         NEW row, row = DebtRow(case, i, p, opening), NEW worse, worse = DebtRow(hard, i, p, more)
  PROVE  /\ row.interest \in Int /\ worse.interest \in Int /\ row.interest <= worse.interest
         /\ row.pik \in Int /\ worse.pik \in Int /\ row.pik <= worse.pik
         /\ \/ case.tax = 0 \/ (row.pik = 0 /\ worse.pik = 0)
            \/ case.tax <= 50 /\ worse.pik - row.pik <= worse.interest - row.interest
         /\ case.tranches[i].revolver /\ ~worse.mature => worse.required = row.required
<1>p. PICK loan, rate, dear, due, kind, piled :
         /\ loan = case.tranches[i] /\ rate = Rate(case, i) /\ dear = Greatest(hard.base, loan.floor) + loan.spread
         /\ due = Share(loan.initial, loan.amort)
         /\ kind = Share(opening, loan.pik) /\ piled = Share(more, loan.pik)
  OBVIOUS
<1>1. loan \in Loan /\ hard.tranches[i] = loan
  BY <1>p, LoansAreFinite DEF Harder
<1>2. /\ loan.initial \in Nat /\ loan.floor \in Int /\ loan.maturity \in Nat
      /\ loan.spread \in Percent /\ loan.pik \in Percent /\ loan.amort \in Percent
  BY <1>1 DEF Loan, BaseRate
<1>3. case.base \in Int /\ hard.base \in Int /\ case.base <= hard.base
  BY CaseIs DEF Harder
<1>4. /\ rate >= 0 /\ (loan.revolver => due = 0)
      /\ \/ case.tax = 0 \/ loan.pik = 0
         \/ case.tax <= 50 /\ \E m \in Nat \ {0} : rate = m * loan.pik
  BY <1>p DEF CostlyTerms
<1>5. rate \in Nat /\ dear \in Nat /\ rate <= dear
  <2>1. loan.spread \in Nat
    BY <1>2 DEF Percent
  <2>2. rate = Greatest(case.base, loan.floor) + loan.spread
    BY <1>p DEF Rate
  <2>3. rate \in Int /\ dear \in Int /\ rate <= dear
    BY <1>2, <1>3, <1>p, <2>1, <2>2 DEF Greatest
  <2> QED BY <1>4, <2>3
<1>6. due \in Nat
  BY <1>2, <1>p, ShareOf
<1>7. kind \in Nat /\ piled \in Nat /\ kind <= piled
  BY <1>2, <1>p, ShareGrows
<1>8. /\ row.pik = kind /\ row.interest = Share(opening, rate) /\ row.mature = (loan.maturity = p)
      /\ row.required = IF loan.maturity = p THEN opening + kind ELSE Least(opening + kind, due)
  BY <1>p DEF DebtRow, Rate
<1>9. /\ worse.pik = piled /\ worse.interest = Share(more, dear) /\ worse.mature = (loan.maturity = p)
      /\ worse.required = IF loan.maturity = p THEN more + piled ELSE Least(more + piled, due)
  BY <1>1, <1>p DEF DebtRow
<1>10. PICK u, v, w : u = Share(opening, rate) /\ v = Share(more, rate) /\ w = Share(more, dear)
  OBVIOUS
<1>11. u \in Nat /\ v \in Nat /\ w \in Nat /\ u <= v /\ v <= w
  <2>1. u \in Nat /\ v \in Nat /\ u <= v
    BY <1>5, <1>10, SharesGrow
  <2>2. w \in Nat /\ v <= w
    <3>1. more <= more
      OBVIOUS
    <3> QED BY <1>5, <1>10, <3>1, SharesGrow
  <2> QED BY <2>1, <2>2
<1>12. \/ case.tax = 0 \/ (kind = 0 /\ piled = 0)
       \/ case.tax <= 50 /\ piled - kind <= w - u
  <2>1. CASE loan.pik = 0
    <3>1. kind = 0 /\ piled = 0
      BY <1>p, <2>1 DEF Share
    <3> QED BY <3>1
  <2>2. CASE case.tax <= 50 /\ \E m \in Nat \ {0} : rate = m * loan.pik
    <3>1. PICK m \in Nat \ {0} : rate = m * loan.pik
      BY <2>2
    <3>2. loan.pik \in Nat
      BY <1>2 DEF Percent
    <3>3. Share(more, loan.pik) - Share(opening, loan.pik) <= Share(more, m * loan.pik) - Share(opening, m * loan.pik)
      BY <3>2, MultiplesGrow
    <3>4. piled - kind <= v - u
      BY <1>p, <1>10, <3>1, <3>3
    <3> QED BY <1>7, <1>11, <2>2, <3>4
  <2> QED BY <1>4, <2>1, <2>2
<1>13. loan.revolver /\ ~worse.mature => worse.required = row.required
  <2> SUFFICES ASSUME loan.revolver, ~worse.mature PROVE worse.required = row.required
    OBVIOUS
  <2>1. due = 0 /\ loan.maturity # p
    BY <1>4, <1>9
  <2>2. row.required = Least(opening + kind, 0) /\ worse.required = Least(more + piled, 0)
    BY <1>8, <1>9, <2>1
  <2>3. Least(opening + kind, 0) = 0 /\ Least(more + piled, 0) = 0
    BY <1>7 DEF Least
  <2> QED BY <2>2, <2>3
<1> QED BY <1>7, <1>8, <1>9, <1>10, <1>11, <1>12, <1>13, <1>p

\* All of them together.
LEMMA DebtsDearer ==
  ASSUME NEW case, WellFormed(case), CostlyTerms(case), NEW hard, WellFormed(hard), Harder(case, hard),
         NEW p, NEW balance \in [Loans(case) -> Nat], NEW more \in [Loans(case) -> Nat],
         \A i \in Loans(case) : balance[i] <= more[i],
         NEW debt, debt = Debts(case, p, balance), NEW worse, worse = Debts(hard, p, more)
  PROVE  /\ Interest(debt) \in Int /\ Interest(worse) \in Int /\ Interest(debt) <= Interest(worse)
         /\ PaidInKind(debt) \in Int /\ PaidInKind(worse) \in Int /\ PaidInKind(debt) <= PaidInKind(worse)
         /\ \/ case.tax = 0 \/ PaidInKind(debt) = PaidInKind(worse)
            \/ case.tax <= 50 /\ PaidInKind(worse) - PaidInKind(debt) <= Interest(worse) - Interest(debt)
         /\ \A i \in Loans(case) :
              case.tranches[i].revolver /\ ~worse[i].mature => worse[i].required = debt[i].required
<1>1. Loans(hard) = Loans(case) /\ IsFiniteSet(Loans(case))
  BY LoansAreFinite DEF Harder, Loans
<1>2. DOMAIN debt = Loans(case) /\ DOMAIN worse = Loans(case)
  BY <1>1 DEF Debts
<1>3. ASSUME NEW i \in Loans(case)
      PROVE  /\ debt[i].interest \in Int /\ worse[i].interest \in Int /\ debt[i].interest <= worse[i].interest
             /\ debt[i].pik \in Int /\ worse[i].pik \in Int /\ debt[i].pik <= worse[i].pik
             /\ \/ case.tax = 0 \/ (debt[i].pik = 0 /\ worse[i].pik = 0)
                \/ case.tax <= 50 /\ worse[i].pik - debt[i].pik <= worse[i].interest - debt[i].interest
             /\ case.tranches[i].revolver /\ ~worse[i].mature => worse[i].required = debt[i].required
  <2>1. PICK opening, heavy, row, bad :
          /\ opening = balance[i] /\ heavy = more[i]
          /\ row = DebtRow(case, i, p, opening) /\ bad = DebtRow(hard, i, p, heavy)
    OBVIOUS
  <2>2. debt[i] = row /\ worse[i] = bad
    BY <1>1, <2>1 DEF Debts
  <2>3. opening \in Nat /\ heavy \in Nat /\ opening <= heavy
    BY <2>1
  <2>4. /\ row.interest \in Int /\ bad.interest \in Int /\ row.interest <= bad.interest
        /\ row.pik \in Int /\ bad.pik \in Int /\ row.pik <= bad.pik
        /\ \/ case.tax = 0 \/ (row.pik = 0 /\ bad.pik = 0)
           \/ case.tax <= 50 /\ bad.pik - row.pik <= bad.interest - row.interest
        /\ case.tranches[i].revolver /\ ~bad.mature => bad.required = row.required
    BY <2>1, <2>3, RowDearer
  <2> QED BY <2>2, <2>4
<1>4. PICK a, b, c, d, z, e, f :
        /\ a = [i \in Loans(case) |-> debt[i].interest] /\ b = [i \in Loans(case) |-> worse[i].interest]
        /\ c = [i \in Loans(case) |-> debt[i].pik] /\ d = [i \in Loans(case) |-> worse[i].pik]
        /\ z = [i \in Loans(case) |-> 0]
        /\ e = [i \in Loans(case) |-> worse[i].pik + debt[i].interest]
        /\ f = [i \in Loans(case) |-> worse[i].interest + debt[i].pik]
  OBVIOUS
<1>5. /\ Numbers(a, Loans(case)) /\ Numbers(b, Loans(case)) /\ Numbers(c, Loans(case)) /\ Numbers(d, Loans(case))
      /\ Numbers(z, Loans(case)) /\ Numbers(e, Loans(case)) /\ Numbers(f, Loans(case))
  BY <1>3, <1>4 DEF Numbers
<1>6. /\ Interest(debt) = Total(a) /\ Interest(worse) = Total(b)
      /\ PaidInKind(debt) = Total(c) /\ PaidInKind(worse) = Total(d)
  BY <1>2, <1>4 DEF Interest, PaidInKind
<1>7. Total(a) \in Int /\ Total(b) \in Int /\ Total(c) \in Int /\ Total(d) \in Int
  BY <1>1, <1>5, TotalIsInt
<1>8. Total(a) <= Total(b)
  <2>1. \A i \in Loans(case) : a[i] <= b[i]
    BY <1>3, <1>4
  <2> QED BY <1>1, <1>5, <2>1, TotalsAscend
<1>9. Total(c) <= Total(d)
  <2>1. \A i \in Loans(case) : c[i] <= d[i]
    BY <1>3, <1>4
  <2> QED BY <1>1, <1>5, <2>1, TotalsAscend
<1>10. \/ case.tax = 0 \/ Total(c) = Total(d)
       \/ case.tax <= 50 /\ Total(d) - Total(c) <= Total(b) - Total(a)
  <2>1. CASE \A i \in Loans(case) : debt[i].pik = worse[i].pik
    <3>1. c = d
      BY <1>4, <2>1
    <3> QED BY <3>1
  <2>2. CASE case.tax # 0 /\ ~(\A i \in Loans(case) : debt[i].pik = worse[i].pik)
    <3>1. case.tax <= 50
      BY <1>3, <2>2
    <3>2. \A i \in Loans(case) : e[i] <= f[i]
      <4> SUFFICES ASSUME NEW i \in Loans(case) PROVE worse[i].pik + debt[i].interest <= worse[i].interest + debt[i].pik
        BY <1>4
      <4> QED BY <1>3, <2>2
    <3>3. Total(e) <= Total(f)
      BY <1>1, <1>5, <3>2, TotalsAscend
    <3>4. Total(z) = 0
      <4>1. \A i \in Loans(case) : z[i] = 0
        BY <1>4
      <4> QED BY <1>1, <1>5, <4>1, TotalOfNothing
    <3>5. Total(e) = Total(d) + Total(a) - Total(z) - Total(z)
      <4>1. Combines(Loans(case), e, d, a, z, z)
        BY <1>3, <1>4 DEF Combines
      <4> QED BY <1>1, <1>5, <4>1, TotalsCombine
    <3>6. Total(f) = Total(b) + Total(c) - Total(z) - Total(z)
      <4>1. Combines(Loans(case), f, b, c, z, z)
        BY <1>3, <1>4 DEF Combines
      <4> QED BY <1>1, <1>5, <4>1, TotalsCombine
    <3> QED BY <1>7, <3>1, <3>3, <3>4, <3>5, <3>6
  <2> QED BY <2>1, <2>2
<1> QED BY <1>3, <1>6, <1>7, <1>8, <1>9, <1>10

\* Lower earnings and more interest save taxes, but no more than they cost.
LEMMA TaxesCompared ==
  ASSUME NEW case, WellFormed(case), NEW hard, WellFormed(hard), Harder(case, hard), NEW p \in Periods(case),
         NEW debt, NEW worse, NEW i, i = Interest(debt), NEW j, j = Interest(worse), i \in Int, j \in Int, i <= j,
         NEW k, k = PaidInKind(debt), NEW l, l = PaidInKind(worse), k \in Int, l \in Int, k <= l,
         case.tax = 0 \/ k = l \/ (case.tax <= 50 /\ l - k <= j - i),
         NEW tax, tax = Taxes(case, p, debt), NEW less, less = Taxes(hard, p, worse)
  PROVE  /\ tax \in Int /\ less \in Int /\ tax - less <= (case.ebitda[p] - hard.ebitda[p]) + (j - i)
         /\ case.tax = 0 => tax = 0 /\ less = 0
<1>1. /\ case.ebitda[p] \in Int /\ case.da[p] \in Int /\ case.tax \in Percent /\ hard.ebitda[p] \in Int
      /\ hard.ebitda[p] <= case.ebitda[p] /\ hard.da = case.da /\ hard.tax = case.tax
  <2>1. Periods(hard) = Periods(case)
    BY DEF Harder, Periods
  <2>2. case.ebitda[p] \in Int /\ hard.ebitda[p] \in Int
    BY <2>1, CaseIs
  <2>3. case.da \in [Periods(case) -> Int] /\ case.tax \in Percent
    BY CaseIs
  <2>4. hard.ebitda[p] <= case.ebitda[p] /\ hard.da = case.da /\ hard.tax = case.tax
    BY DEF Harder, Periods
  <2> QED BY <2>2, <2>3, <2>4
<1>2. PICK e, h, d, rate : e = case.ebitda[p] /\ h = hard.ebitda[p] /\ d = case.da[p] /\ rate = case.tax
  OBVIOUS
<1>3. PICK earned, lost, gain, cost :
        /\ earned = e - d - i - k /\ lost = h - d - j - l
        /\ gain = Positive(earned) /\ cost = Positive(lost)
  OBVIOUS
<1>4. e \in Int /\ h \in Int /\ h <= e /\ d \in Int /\ rate \in Nat /\ rate <= 100
  BY <1>1, <1>2 DEF Percent
<1>5. earned \in Int /\ lost \in Int /\ lost <= earned /\ earned - lost = (e - h) + (j - i) + (l - k)
  BY <1>3, <1>4
<1>6. gain \in Nat /\ cost \in Nat /\ cost <= gain /\ gain - cost <= earned - lost
  BY <1>3, <1>5 DEF Positive, Greatest
<1>7. tax = Share(gain, rate) /\ less = Share(cost, rate)
  BY <1>1, <1>2, <1>3 DEF Taxes
<1>8. /\ Share(gain, rate) \in Nat /\ Share(cost, rate) \in Nat
      /\ Share(gain, rate) - Share(cost, rate) <= gain - cost
  <2>1. rate \in Percent
    BY <1>1, <1>2
  <2> QED BY <1>6, <2>1, ShareGrows
<1>9. rate = 0 => Share(gain, rate) = 0 /\ Share(cost, rate) = 0
  <2> SUFFICES ASSUME rate = 0 PROVE Share(gain, rate) = 0 /\ Share(cost, rate) = 0
    OBVIOUS
  <2>1. gain * rate = 0 /\ cost * rate = 0
    BY <1>6
  <2> QED BY <2>1 DEF Share
<1>10. tax - less <= (e - h) + (j - i)
  <2>1. CASE rate = 0
    BY <1>4, <1>7, <1>9, <2>1
  <2>2. CASE k = l
    BY <1>4, <1>5, <1>6, <1>7, <1>8, <2>2
  <2>3. CASE rate <= 50 /\ l - k <= j - i
    <3>1. 2 * (Share(gain, rate) - Share(cost, rate)) <= (gain - cost) + 1
      BY <1>4, <1>6, <2>3, HalfIsSaved
    <3>2. PICK x, y : x = Share(gain, rate) /\ y = Share(cost, rate)
      OBVIOUS
    <3>3. x \in Nat /\ y \in Nat /\ 2 * (x - y) <= (gain - cost) + 1
      BY <1>8, <3>1, <3>2
    <3>4. x - y <= (e - h) + (j - i)
      BY <1>4, <1>5, <1>6, <2>3, <3>3
    <3> QED BY <1>7, <3>2, <3>4
  <2> QED BY <1>2, <2>1, <2>2, <2>3
<1> QED BY <1>2, <1>7, <1>8, <1>9, <1>10

\* Debt is no bargain, and what interest saves in taxes is less than it.
Dearer(case, row, than) ==
  /\ NoBargain(case, row, than)
  /\ than.interest <= row.interest
  /\ row.covered - than.covered <= row.interest - than.interest
  /\ case.tax = 0 => row.covered <= than.covered

LEMMA PeriodDearer ==
  ASSUME NEW case, WellFormed(case), CostlyTerms(case), NEW hard, WellFormed(hard), Harder(case, hard),
         NEW p \in Periods(case), NEW cash, NEW less,
         NEW balance \in [Loans(case) -> Nat], NEW more \in [Loans(case) -> Nat],
         \A i \in Loans(case) : balance[i] <= more[i], NEW amount, NEW larger,
         NEW row, row = PeriodRow(case, p, cash, balance, amount),
         NEW worse, worse = PeriodRow(hard, p, less, more, larger)
  PROVE  Dearer(case, worse, row)
<1>1. PICK debt, owed : debt = Debts(case, p, balance) /\ owed = Debts(hard, p, more)
  OBVIOUS
<1>2. PICK i, j, k, l, tax, saved :
        /\ i = Interest(debt) /\ j = Interest(owed) /\ k = PaidInKind(debt) /\ l = PaidInKind(owed)
        /\ tax = Taxes(case, p, debt) /\ saved = Taxes(hard, p, owed)
  OBVIOUS
<1>3. /\ i \in Int /\ j \in Int /\ i <= j /\ k \in Int /\ l \in Int /\ k <= l
      /\ case.tax = 0 \/ k = l \/ (case.tax <= 50 /\ l - k <= j - i)
      /\ \A n \in Loans(case) : case.tranches[n].revolver /\ ~owed[n].mature => owed[n].required = debt[n].required
  <2>1. /\ Interest(debt) \in Int /\ Interest(owed) \in Int /\ Interest(debt) <= Interest(owed)
        /\ PaidInKind(debt) \in Int /\ PaidInKind(owed) \in Int /\ PaidInKind(debt) <= PaidInKind(owed)
        /\ \/ case.tax = 0 \/ PaidInKind(debt) = PaidInKind(owed)
           \/ case.tax <= 50 /\ PaidInKind(owed) - PaidInKind(debt) <= Interest(owed) - Interest(debt)
        /\ \A n \in Loans(case) : case.tranches[n].revolver /\ ~owed[n].mature => owed[n].required = debt[n].required
    BY <1>1, DebtsDearer
  <2> QED BY <1>2, <2>1
<1>4. /\ tax \in Int /\ saved \in Int /\ tax - saved <= (case.ebitda[p] - hard.ebitda[p]) + (j - i)
      /\ case.tax = 0 => tax = 0 /\ saved = 0
  BY <1>2, <1>3, TaxesCompared
<1>5. PICK e, h, c : e = case.ebitda[p] /\ h = hard.ebitda[p] /\ c = case.capex[p]
  OBVIOUS
<1>6. e \in Int /\ h \in Int /\ h <= e /\ c \in Int /\ hard.capex = case.capex
  <2>1. Periods(hard) = Periods(case) /\ hard.capex = case.capex /\ hard.ebitda[p] <= case.ebitda[p]
    BY DEF Harder, Periods
  <2>2. case.ebitda[p] \in Int /\ hard.ebitda[p] \in Int
    BY <2>1, CaseIs
  <2>3. case.capex \in [Periods(case) -> Int]
    BY CaseIs
  <2> QED BY <1>5, <2>1, <2>2, <2>3
<1>7. row.debt = debt /\ row.interest = i /\ row.covered = e - c - tax
  BY <1>1, <1>2, <1>5, RowIs
<1>8. worse.debt = owed /\ worse.interest = j /\ worse.covered = h - c - saved
  BY <1>1, <1>2, <1>5, <1>6, RowIs
<1>9. (h - c - saved) - j <= (e - c - tax) - i /\ (h - c - saved) - (e - c - tax) <= j - i
  BY <1>3, <1>4, <1>5, <1>6
<1>10. case.tax = 0 => h - c - saved <= e - c - tax
  BY <1>4, <1>6
<1>11. NoBargain(case, worse, row)
  BY <1>3, <1>7, <1>8, <1>9 DEF NoBargain
<1> QED BY <1>3, <1>7, <1>8, <1>9, <1>10, <1>11 DEF Dearer

\* After k years at costly terms.
YearsDearer(case, k, s, t) ==
  /\ \E X : s.rows \in Seq(X) /\ t.rows \in Seq(X)
  /\ Len(s.rows) = k /\ Len(t.rows) = k
  /\ s.cash \in Int /\ t.cash \in Int /\ t.cash <= s.cash
  /\ s.balance \in [Loans(case) -> Nat] /\ t.balance \in [Loans(case) -> Nat]
  /\ \A i \in Loans(case) : s.balance[i] <= t.balance[i]
  /\ \A q \in 1..k : Dearer(case, t.rows[q], s.rows[q])

LEMMA NextYearDearer ==
  ASSUME NEW case, WellFormed(case), CostlyTerms(case), NEW hard, WellFormed(hard), Harder(case, hard),
         NEW period, NEW amount \in Nat, NEW larger \in Nat, amount <= larger,
         NEW p \in Periods(case), NEW s, NEW t, YearsDearer(case, p - 1, s, t)
  PROVE  YearsDearer(case, p, NextYear(case, period, amount, s, p), NextYear(hard, period, larger, t, p))
<1>1. PICK paid, more, row, bad, u, v :
        /\ paid = (IF p = period THEN amount ELSE 0) /\ more = (IF p = period THEN larger ELSE 0)
        /\ row = PeriodRow(case, p, s.cash, s.balance, paid) /\ bad = PeriodRow(hard, p, t.cash, t.balance, more)
        /\ u = NextYear(case, period, amount, s, p) /\ v = NextYear(hard, period, larger, t, p)
  OBVIOUS
<1>2. /\ u = [cash |-> row.cash, balance |-> row.ending, rows |-> Append(s.rows, row)]
      /\ v = [cash |-> bad.cash, balance |-> bad.ending, rows |-> Append(t.rows, bad)]
  BY <1>1 DEF NextYear
<1>3. paid \in Int /\ more \in Int /\ paid <= more
  BY <1>1
<1>4. PICK X : s.rows \in Seq(X) /\ t.rows \in Seq(X)
  BY DEF YearsDearer
<1>5. PICK Y : Y = X \cup {row, bad}
  OBVIOUS
<1>6. s.rows \in Seq(Y) /\ t.rows \in Seq(Y) /\ row \in Y /\ bad \in Y
  BY <1>4, <1>5
<1>7. p \in Nat \ {0} /\ Len(s.rows) = p - 1 /\ Len(t.rows) = p - 1
  BY CaseIs DEF YearsDearer
<1>8. PICK a, b : a = Append(s.rows, row) /\ b = Append(t.rows, bad)
  OBVIOUS
<1>9. /\ a \in Seq(Y) /\ b \in Seq(Y) /\ Len(a) = p /\ Len(b) = p /\ a[p] = row /\ b[p] = bad
      /\ \A q \in 1..(p - 1) : a[q] = s.rows[q] /\ b[q] = t.rows[q]
  BY <1>6, <1>7, <1>8
<1>10. PICK cash, less, balance, heavy : cash = s.cash /\ less = t.cash /\ balance = s.balance /\ heavy = t.balance
  OBVIOUS
<1>11. /\ cash \in Int /\ less \in Int /\ less <= cash
       /\ balance \in [Loans(case) -> Nat] /\ heavy \in [Loans(case) -> Nat]
       /\ \A i \in Loans(case) : balance[i] <= heavy[i]
  BY <1>10 DEF YearsDearer
<1>12. row = PeriodRow(case, p, cash, balance, paid) /\ bad = PeriodRow(hard, p, less, heavy, more)
  BY <1>1, <1>10
<1>13. Dearer(case, bad, row)
  BY <1>11, <1>12, PeriodDearer
<1>14. Worse(case, bad, row)
  <2>1. NoBargain(case, bad, row)
    BY <1>13 DEF Dearer
  <2> QED BY <1>3, <1>11, <1>12, <2>1, PeriodCompared
<1>15. ASSUME NEW q \in 1..p PROVE Dearer(case, b[q], a[q])
  <2>1. CASE q = p
    BY <1>9, <1>13, <2>1
  <2>2. CASE q # p
    <3>1. q \in 1..(p - 1)
      BY <1>7, <2>2
    <3> QED BY <1>9, <3>1 DEF YearsDearer
  <2> QED BY <2>1, <2>2
<1>16. u.cash = row.cash /\ v.cash = bad.cash /\ u.balance = row.ending /\ v.balance = bad.ending /\ u.rows = a /\ v.rows = b
  BY <1>2, <1>8
<1>17. /\ row.cash \in Int /\ bad.cash \in Int /\ bad.cash <= row.cash
       /\ row.ending \in [Loans(case) -> Nat] /\ bad.ending \in [Loans(case) -> Nat]
       /\ \A i \in Loans(case) : row.ending[i] <= bad.ending[i]
  BY <1>14 DEF Worse, Figures
<1>18. YearsDearer(case, p, u, v)
  BY <1>9, <1>15, <1>16, <1>17 DEF YearsDearer
<1> QED BY <1>1, <1>18

\* At costly terms debt costs in every period of a harder projection.
LEMMA ProjectionsDearer ==
  ASSUME NEW case, WellFormed(case), CostlyTerms(case), NEW hard, WellFormed(hard), Harder(case, hard),
         NEW period, NEW amount \in Nat, NEW larger \in Nat, amount <= larger,
         NEW rows, rows = Projection(case, period, amount), NEW worse, worse = Projection(hard, period, larger)
  PROVE  \A p \in Periods(case) : Dearer(case, worse[p], rows[p])
<1>n. PICK n : n = Len(case.ebitda)
  OBVIOUS
<1>1. n \in Nat /\ Periods(case) = 1..n /\ Len(hard.ebitda) = n
  <2>1. n \in Nat \ {0} /\ Periods(case) = 1..n /\ Len(hard.ebitda) \in Nat \ {0} /\ Periods(hard) = 1..Len(hard.ebitda)
    BY <1>n, CaseIs
  <2>2. Periods(hard) = Periods(case)
    BY DEF Harder, Periods
  <2>3. n \in 1..Len(hard.ebitda) /\ Len(hard.ebitda) \in 1..n
    BY <2>1, <2>2
  <2> QED BY <2>1, <2>2, <2>3
<1>2. PICK c : /\ c[0] = YearStart(case) /\ c[n].rows = Projection(case, period, amount)
               /\ \A k \in 1..n : c[k] = NextYear(case, period, amount, c[k - 1], k)
  BY <1>n, YearRuns
<1>3. PICK d : /\ d[0] = YearStart(hard) /\ d[n].rows = Projection(hard, period, larger)
               /\ \A k \in 1..n : d[k] = NextYear(hard, period, larger, d[k - 1], k)
  <2>1. n = Len(hard.ebitda)
    BY <1>1
  <2> HIDE <1>1
  <2> QED BY <2>1, YearRuns
<1> DEFINE B == {k \in 0..n : ~YearsDearer(case, k, c[k], d[k])}
<1>4. YearsDearer(case, 0, c[0], d[0])
  <2>1. PICK initial : initial = [i \in Loans(case) |-> case.tranches[i].initial]
    OBVIOUS
  <2>2. initial \in [Loans(case) -> Nat]
    BY <2>1, LoansAreFinite DEF Loan
  <2>3. d[0] = c[0]
    BY <1>2, <1>3 DEF YearStart, Harder, Loans
  <2>4. c[0].cash = case.minimum_cash /\ c[0].balance = initial /\ c[0].rows = <<>>
    BY <1>2, <2>1 DEF YearStart
  <2>5. case.minimum_cash \in Int
    BY CaseIs
  <2>6. \E X : <<>> \in Seq(X)
    <3>1. PICK X : X = {}
      OBVIOUS
    <3>2. <<>> \in Seq(X)
      BY <3>1
    <3> QED BY <3>2
  <2>7. Len(<<>>) = 0 /\ \A q \in 1..0 : FALSE
    OBVIOUS
  <2>8. \A i \in Loans(case) : initial[i] <= initial[i]
    BY <2>2
  <2>9. case.minimum_cash <= case.minimum_cash
    BY <2>5
  <2> QED BY <2>2, <2>3, <2>4, <2>5, <2>6, <2>7, <2>8, <2>9 DEF YearsDearer
<1>5. ASSUME NEW k \in 1..n, k - 1 \notin B PROVE k \notin B
  <2>1. k - 1 \in 0..n
    BY <1>1
  <2>2. YearsDearer(case, k - 1, c[k - 1], d[k - 1])
    BY <1>5, <2>1
  <2>3. PICK s, t : s = c[k - 1] /\ t = d[k - 1]
    OBVIOUS
  <2>4. YearsDearer(case, k - 1, s, t) /\ k \in Periods(case)
    BY <1>1, <2>2, <2>3
  <2>5. YearsDearer(case, k, NextYear(case, period, amount, s, k), NextYear(hard, period, larger, t, k))
    BY <2>4, NextYearDearer
  <2> QED BY <1>2, <1>3, <2>3, <2>5
<1>6. 0 \notin B /\ B \subseteq 0..n
  BY <1>4
<1> HIDE DEF B
<1>7. B = {}
  BY <1>1, <1>5, <1>6, AlongTheRun
<1>8. YearsDearer(case, n, c[n], d[n])
  <2>1. n \in 0..n
    BY <1>1
  <2> QED BY <1>7, <2>1 DEF B
<1>9. c[n].rows = rows /\ d[n].rows = worse
  BY <1>2, <1>3
<1>10. \A q \in 1..n : Dearer(case, worse[q], rows[q])
  BY <1>8, <1>9 DEF YearsDearer
<1> QED BY <1>1, <1>10

\* So a request at such terms, of a case whose limits count taxes, shows it.
LEMMA TermsCostMore ==
  ASSUME NEW r \in Recaps, CostlyTerms(r.case), CountsTaxes(r), NEW amount \in Nat,
         NEW rows, rows = Recapped(r, amount), NEW worse, worse = Recapped(r, amount + 1)
  PROVE  \A p \in r.period + 1..Len(rows) : CostsMore(r, worse[p], rows[p])
<1>1. PICK case, larger : case = r.case /\ larger = amount + 1
  OBVIOUS
<1>2. WellFormed(case) /\ CostlyTerms(case) /\ larger \in Nat /\ amount <= larger
  BY <1>1, CaseAssumption
<1>3. rows = Projection(case, r.period, amount) /\ worse = Projection(case, r.period, larger)
  BY <1>1 DEF Recapped
<1>4. Harder(case, case)
  BY <1>2, HarderThanItself
<1>5. \A p \in Periods(case) : Dearer(case, worse[p], rows[p])
  BY <1>2, <1>3, <1>4, ProjectionsDearer
<1>6. /\ Len(rows) = Len(case.ebitda) /\ DOMAIN rows = Periods(case)
      /\ \A p \in Periods(case) : NoBargains(case, p, worse, rows) => Worse(case, worse[p], rows[p])
  BY <1>2, <1>3, <1>4, ProjectionsCompared
<1>7. Len(case.ebitda) \in Nat /\ Periods(case) = 1..Len(case.ebitda) /\ r.period \in Nat
  BY <1>2, CaseIs, LimitAssumption
<1> SUFFICES ASSUME NEW p \in r.period + 1..Len(rows) PROVE CostsMore(r, worse[p], rows[p])
  OBVIOUS
<1>8. p \in Periods(case) /\ \A q \in 1..p : q \in Periods(case)
  BY <1>6, <1>7
<1>9. PICK row, bad : row = rows[p] /\ bad = worse[p]
  OBVIOUS
<1>10. Dearer(case, bad, row)
  BY <1>5, <1>8, <1>9
<1>11. Worse(case, bad, row)
  <2>1. NoBargains(case, p, worse, rows)
    BY <1>5, <1>8 DEF NoBargains, Dearer
  <2> QED BY <1>6, <1>8, <1>9, <2>1
<1>12. PICK i, c, v, x, y, z : /\ i = row.interest /\ c = row.charges /\ v = row.covered
                               /\ x = bad.interest /\ y = bad.charges /\ z = bad.covered
  OBVIOUS
<1>13. /\ i \in Int /\ c \in Int /\ v \in Int /\ x \in Int /\ y \in Int /\ z \in Int
       /\ i <= x /\ x - i <= y - c /\ z - v <= x - i /\ (case.tax = 0 => z <= v)
  BY <1>10, <1>11, <1>12 DEF Worse, Dearer
<1>14. ASSUME NEW limit, limit \in Int, limit > 0, case.tax = 0 \/ limit >= 100
       PROVE  100 * (z - v) <= limit * (y - c)
  <2>1. PICK d : d = y - c
    OBVIOUS
  <2>2. d \in Nat /\ z - v <= d
    BY <1>13, <2>1
  <2>3. limit * d \in Nat
    BY <1>14, <2>2
  <2>4. CASE case.tax = 0
    BY <1>13, <2>1, <2>3, <2>4
  <2>5. CASE limit >= 100
    <3>1. 100 * d <= limit * d
      BY <1>14, <2>2, <2>5
    <3>2. 100 * (z - v) <= 100 * d
      BY <1>13, <2>2
    <3> QED BY <1>13, <2>1, <2>2, <2>3, <3>1, <3>2
  <2> QED BY <1>14, <2>4, <2>5
<1>15. "min_fixed_charge_coverage" \in DOMAIN r.limits =>
         100 * (z - v) <= r.limits["min_fixed_charge_coverage"] * (y - c)
  <2> SUFFICES ASSUME "min_fixed_charge_coverage" \in DOMAIN r.limits
               PROVE  100 * (z - v) <= r.limits["min_fixed_charge_coverage"] * (y - c)
    OBVIOUS
  <2>1. PICK limit : limit = r.limits["min_fixed_charge_coverage"]
    OBVIOUS
  <2>2. limit \in Int /\ limit > 0
    BY <2>1, LimitAssumption
  <2>3. case.tax = 0 \/ limit >= 100
    BY <1>1, <2>1 DEF CountsTaxes
  <2> QED BY <1>14, <2>1, <2>2, <2>3
<1>16. NoBargain(r.case, bad, row) /\ x >= i
  BY <1>1, <1>10, <1>13 DEF Dearer
<1>17. CostsMore(r, bad, row)
  BY <1>12, <1>15, <1>16 DEF CostsMore
<1> QED BY <1>9, <1>17

\* The maximum of solve_dividend_recap is the maximum of all amounts, tried or
\* not, in every request at costly terms whose limit on the coverage of fixed
\* charges is 1.0x at least: read off the case, without projecting it.
THEOREM CostlyMaximumHolds ==
  Spec => [](ask \in Recaps /\ CostlyTerms(ask.case) /\ CountsTaxes(ask) => MaximumIsExact)
<1>1. RecapInv /\ MaximumWhereDebtCosts => (ask \in Recaps /\ CostlyTerms(ask.case) /\ CountsTaxes(ask) => MaximumIsExact)
  <2> SUFFICES ASSUME RecapInv, MaximumWhereDebtCosts, ask \in Recaps, CostlyTerms(ask.case), CountsTaxes(ask)
               PROVE  MaximumIsExact
    OBVIOUS
  <2>1. CASE at # "over"
    BY <2>1 DEF MaximumIsExact
  <2>2. CASE at = "over"
    <3>1. Ceiling \in Int
      <4>1. high \in Nat /\ ask.case.entry_ev \in Int
        BY SolverAssumption DEF RecapInv
      <4> QED BY <4>1 DEF Ceiling, Greatest
    <3>2. ASSUME NEW amount \in 0..Ceiling - 1, NEW rows, rows = Recapped(ask, amount),
                 NEW worse, worse = Recapped(ask, amount + 1)
          PROVE  \A p \in ask.period + 1..Len(rows) : CostsMore(ask, worse[p], rows[p])
      <4>1. amount \in Nat
        BY <3>1
      <4> QED BY <3>2, <4>1, TermsCostMore
    <3>3. DebtCosts
      BY <3>2 DEF DebtCosts
    <3> QED BY <2>2, <3>3 DEF MaximumWhereDebtCosts
  <2> QED BY <2>1, <2>2
<1> QED BY InitRecapInv, StepRecapInv, MaximumHolds, <1>1, PTL DEF Spec

\* Every value of a driver is at costly terms compared with the next.
CostlyAlong(s) ==
  \A value \in s.low..s.high - 1 :
    CostlyTerms(Shifted(s, IF s.variable = "base_rate_shift" THEN value ELSE value + 1))

LEMMA CostlyIsOrderly ==
  ASSUME NEW s \in Stresses, CostlyAlong(s), Metric(s, s.low) # Refused, Metric(s, s.high) # Refused
  PROVE  Orderly(s)
<1>1. s.low \in Int /\ s.high \in Int /\ WellFormed(s.case)
  BY SolverAssumption, CaseAssumption
<1> SUFFICES ASSUME NEW value \in s.low..s.high - 1, NEW a, a = Shifted(s, value), NEW b, b = Shifted(s, value + 1),
                    NEW lower, lower = Projection(a, 0, 0), NEW upper, upper = Projection(b, 0, 0), NEW p \in DOMAIN lower
             PROVE  IF s.variable = "base_rate_shift" THEN NoBargain(s.case, upper[p], lower[p])
                    ELSE NoBargain(s.case, lower[p], upper[p])
  BY DEF Orderly
<1>2. PICK next : next = value + 1
  OBVIOUS
<1>3. /\ value \in Int /\ next \in Int /\ s.low <= value /\ value <= s.high /\ s.low <= next /\ next <= s.high
      /\ value <= next /\ b = Shifted(s, next)
  BY <1>1, <1>2
<1>4. WellFormed(a) /\ WellFormed(b)
  <2>1. Metric(s, value) # Refused
    BY <1>1, <1>3, RefusedAtABound
  <2>2. Metric(s, next) # Refused
    BY <1>1, <1>3, RefusedAtABound
  <2>3. WellFormed(Shifted(s, value))
    BY <1>3, <2>1, MetricIs
  <2>4. WellFormed(Shifted(s, next))
    BY <1>3, <2>2, MetricIs
  <2> QED BY <1>3, <2>3, <2>4
<1>5. Kept(s.case, a)
  BY <1>1, <1>3, ShiftedIs
<1>6. Kept(s.case, b)
  BY <1>1, <1>3, ShiftedIs
<1>7. p \in Periods(a) /\ Periods(a) = Periods(b) /\ a.tranches = s.case.tranches /\ b.tranches = s.case.tranches
  <2>1. DOMAIN lower = Periods(a)
    BY <1>4, ProjectionInOrder
  <2> QED BY <1>5, <1>6, <2>1 DEF Kept, Periods
<1>8. PICK zero : zero = 0
  OBVIOUS
<1>9. lower = Projection(a, zero, zero) /\ upper = Projection(b, zero, zero) /\ zero \in Nat /\ zero <= zero
  BY <1>8
<1>10. CASE s.variable = "base_rate_shift"
  <2>1. Harder(a, b)
    BY <1>1, <1>3, <1>10, ShiftsCompared
  <2>2. CostlyTerms(a)
    BY <1>10 DEF CostlyAlong
  <2>3. Dearer(a, upper[p], lower[p])
    BY <1>4, <1>7, <1>9, <2>1, <2>2, ProjectionsDearer
  <2>4. NoBargain(a, upper[p], lower[p])
    BY <2>3 DEF Dearer
  <2> QED BY <1>7, <1>10, <2>4, BargainAlike
<1>11. CASE s.variable # "base_rate_shift"
  <2>1. Harder(b, a)
    BY <1>1, <1>3, <1>11, ShiftsCompared
  <2>2. CostlyTerms(b)
    BY <1>11 DEF CostlyAlong
  <2>3. Dearer(b, lower[p], upper[p])
    BY <1>4, <1>7, <1>9, <2>1, <2>2, ProjectionsDearer
  <2>4. NoBargain(b, lower[p], upper[p])
    BY <2>3 DEF Dearer
  <2> QED BY <1>7, <1>11, <2>4, BargainAlike
<1> QED BY <1>10, <1>11

\* A target said to be out of reach at costly terms is: between bounds that
\* have figures no value gives it, the ones never tried included.
THEOREM CostlyVerdictHolds ==
  Spec => [](at = "over" /\ ask \in Stresses /\ CostlyAlong(ask) /\ answer.status = "no_solution" /\ tries = 0
               /\ Measurable(ask.low) /\ Measurable(ask.high)
             => \A value \in ask.low..ask.high : Metric(ask, value) # ask.target)
<1>1. StressVerdict =>
        (at = "over" /\ ask \in Stresses /\ CostlyAlong(ask) /\ answer.status = "no_solution" /\ tries = 0
               /\ Measurable(ask.low) /\ Measurable(ask.high)
         => \A value \in ask.low..ask.high : Metric(ask, value) # ask.target)
  <2> SUFFICES ASSUME StressVerdict, at = "over", ask \in Stresses, CostlyAlong(ask),
                      answer.status = "no_solution", tries = 0, Measurable(ask.low), Measurable(ask.high)
               PROVE  \A value \in ask.low..ask.high : Metric(ask, value) # ask.target
    OBVIOUS
  <2>1. /\ Absent \notin {Metric(ask, ask.low), Metric(ask, ask.high)}
        /\ Metric(ask, ask.low) # Refused /\ Metric(ask, ask.high) # Refused
    BY DEF Measurable, Missing
  <2>2. Orderly(ask)
    BY <2>1, CostlyIsOrderly
  <2> QED BY <2>1, <2>2 DEF StressVerdict
<1> QED BY VerdictHolds, <1>1, PTL
=============================================================================
