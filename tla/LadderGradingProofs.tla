------------------------- MODULE LadderGradingProofs -------------------------
(***************************************************************************)
(* The facts about finite ladders the other proofs rest on: a ladder has a *)
(* highest rung, its rungs are numbered without a gap, filing a window     *)
(* adds it to the evidence and to nothing else, and an order statistic of  *)
(* the windows of a rung exists and is the one the code takes.             *)
(***************************************************************************)
EXTENDS DraftReport, FiniteSetTheorems, WellFoundedInduction, TLAPS

\* A strict subset of a finite set is smaller.
LEMMA StrictSubsetSmaller ==
  ASSUME NEW T, IsFiniteSet(T), NEW S \in SUBSET T, S # T
  PROVE  /\ IsFiniteSet(S)
         /\ Cardinality(S) \in Nat /\ Cardinality(T) \in Nat
         /\ Cardinality(S) < Cardinality(T)
BY FS_Subset, FS_CardinalityType

\* A set of numbers that is not empty has a least member.
LEMMA LeastExists ==
  ASSUME NEW S \in SUBSET Nat, S # {}
  PROVE  \E m \in S : \A x \in S : m <= x
<1>1. PICK m \in S : \A x \in S : ~(<<x, m>> \in OpToRel(<, Nat))
  BY NatLessThanWellFounded, WFMin
<1>2. OpToRel(<, Nat) = {ss \in Nat \X Nat : ss[1] < ss[2]}
  BY DEF OpToRel
<1>3. \A x \in S : ~(x < m)
  BY <1>1, <1>2
<1> QED BY <1>3

\* A finite set of numbers that is not empty has a greatest member.
LEMMA GreatestExists ==
  ASSUME NEW S \in SUBSET Nat, IsFiniteSet(S), S # {}
  PROVE  \E m \in S : \A x \in S : x <= m
<1> DEFINE above == [m \in S |-> {x \in S : m < x}]
           counts == {Cardinality(above[m]) : m \in S}
<1>1. \A m \in S : /\ above[m] \in SUBSET S
                   /\ \A x \in S : x \in above[m] <=> m < x
  OBVIOUS
<1> HIDE DEF above
<1>2. \A m \in S : IsFiniteSet(above[m]) /\ Cardinality(above[m]) \in Nat
  BY <1>1, FS_Subset, FS_CardinalityType
<1>3. PICK n \in counts : \A c \in counts : n <= c
  <2>1. counts \in SUBSET Nat /\ counts # {}
    BY <1>2
  <2> HIDE DEF counts
  <2> QED BY <2>1, LeastExists
<1>4. PICK m \in S : n = Cardinality(above[m])
  BY <1>3
<1>5. ASSUME NEW x \in S, m < x PROVE FALSE
  <2>1. above[x] \in SUBSET above[m] /\ above[x] # above[m]
    <3>1. m \in Nat /\ x \in Nat /\ \A y \in S : y \in Nat
      OBVIOUS
    <3>2. \A y \in S : x < y => m < y
      BY <1>5, <3>1
    <3>3. \A y \in above[x] : y \in above[m]
      BY <1>1, <3>2
    <3>4. x \in above[m] /\ x \notin above[x]
      BY <1>1, <1>5, <3>1
    <3> QED BY <3>3, <3>4
  <2>2. Cardinality(above[x]) < Cardinality(above[m])
    BY <1>2, <2>1, StrictSubsetSmaller
  <2>3. Cardinality(above[m]) <= Cardinality(above[x])
    BY <1>3, <1>4
  <2>4. Cardinality(above[m]) \in Nat /\ Cardinality(above[x]) \in Nat
    BY <1>2
  <2> QED BY <2>2, <2>3, <2>4
<1> QED BY <1>5

\* MaxOf is what it says.
LEMMA MaxOfIsGreatest ==
  ASSUME NEW S \in SUBSET Nat, IsFiniteSet(S), S # {}
  PROVE  MaxOf(S) \in S /\ \A x \in S : x <= MaxOf(S)
BY GreatestExists DEF MaxOf

-----------------------------------------------------------------------------
\* How many rungs lie below one.
Rank(S, l) == Cardinality({m \in S : m < l})

\* Two rungs of a ladder have different ranks, the lower rung the lower one.
LEMMA RankIncreases ==
  ASSUME NEW S \in SUBSET Nat, IsFiniteSet(S), NEW a \in S, NEW b \in S, a < b
  PROVE  Rank(S, a) < Rank(S, b)
<1> DEFINE A == {m \in S : m < a}  B == {m \in S : m < b}
<1>1. A \in SUBSET B /\ a \in B /\ a \notin A
  <2>1. a \in Nat /\ b \in Nat
    OBVIOUS
  <2>2. \A m \in S : m < a => m < b
    BY <2>1
  <2>3. a \in B /\ a \notin A
    BY <2>1
  <2>4. \A m \in A : m \in B
    BY <2>2
  <2> HIDE DEF A, B
  <2> QED BY <2>3, <2>4
<1>2. IsFiniteSet(B)
  BY FS_Subset
<1> HIDE DEF A, B
<1>3. Cardinality(A) < Cardinality(B)
  BY <1>1, <1>2, StrictSubsetSmaller
<1> QED BY <1>3 DEF Rank, A, B

\* A rank is a number below the number of rungs.
LEMMA RankType ==
  ASSUME NEW S \in SUBSET Nat, IsFiniteSet(S), NEW a \in S
  PROVE  Cardinality(S) \in Nat /\ Rank(S, a) \in 0 .. Cardinality(S) - 1
<1> DEFINE A == {m \in S : m < a}
<1>1. A \in SUBSET S /\ a \notin A
  OBVIOUS
<1> HIDE DEF A
<1>2. Cardinality(A) \in Nat /\ Cardinality(S) \in Nat /\ Cardinality(A) < Cardinality(S)
  BY <1>1, StrictSubsetSmaller
<1> QED BY <1>2 DEF Rank, A

\* Every number below the number of rungs is the rank of one.
LEMMA RankOnto ==
  ASSUME NEW S \in SUBSET Nat, IsFiniteSet(S), NEW k \in 0 .. Cardinality(S) - 1
  PROVE  \E l \in S : Rank(S, l) = k
<1> DEFINE n == Cardinality(S)
           f == [l \in S |-> Rank(S, l)]
<1>1. n \in Nat
  BY FS_CardinalityType
<1>2. \A l \in S : Rank(S, l) \in 0 .. n - 1
  BY RankType
<1>3. \A a, b \in S : Rank(S, a) = Rank(S, b) => a = b
  <2> SUFFICES ASSUME NEW a \in S, NEW b \in S, Rank(S, a) = Rank(S, b), a # b
               PROVE  FALSE
    OBVIOUS
  <2>1. a < b \/ b < a
    OBVIOUS
  <2>2. Rank(S, a) \in Nat /\ Rank(S, b) \in Nat
    BY <1>2
  <2> QED BY <2>1, <2>2, RankIncreases
<1>4. f \in Injection(S, 0 .. n - 1)
  BY <1>2, <1>3 DEF Injection, IsInjective
<1>5. IsFiniteSet(0 .. n - 1) /\ Cardinality(0 .. n - 1) = n
  BY <1>1, FS_Interval
<1>6. f \in Surjection(S, 0 .. n - 1)
  <2> HIDE DEF f, n
  <2>1. Cardinality(S) = n
    BY DEF n
  <2> QED BY <1>4, <1>5, <2>1, FS_Injection
<1>7. \A j \in 0 .. n - 1 : \E l \in S : f[l] = j
  <2> HIDE DEF f
  <2> QED BY <1>6 DEF Surjection
<1> QED BY <1>7

-----------------------------------------------------------------------------
\* The provisional boundary is a rung of the ladder, and there is one unless the
\* search sustained nothing.
LEMMA BoundaryIsARung ==
  ASSUME LadderPolicyAssumption
  PROVE  MaxSustainable \in Levels \cup {None} /\ None \notin Levels
<1>1. Sustainable \in SUBSET Levels
  BY DEF Sustainable, Complete, Graded, Rungs
<1>2. Levels \subseteq Nat /\ IsFiniteSet(Levels) /\ None \notin Levels
  BY DEF LadderPolicyAssumption
<1>3. CASE Sustainable = {}
  BY <1>2, <1>3 DEF MaxSustainable
<1>4. CASE Sustainable # {}
  <2>1. Sustainable \in SUBSET Nat /\ IsFiniteSet(Sustainable)
    BY <1>1, <1>2, FS_Subset
  <2>2. MaxOf(Sustainable) \in Sustainable
    BY <1>4, <2>1, MaxOfIsGreatest
  <2> QED BY <1>1, <1>2, <1>4, <2>2 DEF MaxSustainable
<1> QED BY <1>3, <1>4

\* Filing a window under a rung of the ladder adds it to the evidence and nothing else.
LEMMA FileAdds ==
  ASSUME DOMAIN evidence = Levels, NEW level \in Levels, NEW rep, File(level, rep)
  PROVE  /\ DOMAIN evidence' = Levels
         /\ \A l \in Levels : evidence'[l] = IF l = level THEN evidence[l] \cup {rep}
                                             ELSE evidence[l]
         /\ UNION {evidence'[l] : l \in Levels}
              = (UNION {evidence[l] : l \in Levels}) \cup {rep}
<1>1. DOMAIN evidence' = Levels
  BY DEF File
<1>2. \A l \in Levels : evidence'[l] = IF l = level THEN evidence[l] \cup {rep}
                                       ELSE evidence[l]
  BY DEF File
<1>3. UNION {evidence'[l] : l \in Levels}
              = (UNION {evidence[l] : l \in Levels}) \cup {rep}
  <2> DEFINE before == UNION {evidence[l] : l \in Levels}
             after == UNION {evidence'[l] : l \in Levels}
  <2>1. \A x : x \in after <=> \E l \in Levels : x \in evidence'[l]
    OBVIOUS
  <2>2. \A x : x \in before <=> \E l \in Levels : x \in evidence[l]
    OBVIOUS
  <2>3. \A x : x \in after <=> x \in before \cup {rep}
    <3> HIDE DEF before, after
    <3> QED BY <1>2, <2>1, <2>2
  <2> HIDE DEF before, after
  <2>4. after = before \cup {rep}
    BY <2>3
  <2> QED BY <2>4 DEF before, after
<1> QED BY <1>1, <1>2, <1>3

-----------------------------------------------------------------------------
(* Order statistics. *)

\* lt orders the members of S strictly.
StrictOrder(S, lt) ==
  /\ \A a \in S : <<a, a>> \notin lt
  /\ \A a, b, c \in S : <<a, b>> \in lt /\ <<b, c>> \in lt => <<a, c>> \in lt

\* Some member of a finite set has none above it.
LEMMA MaximalExists ==
  ASSUME NEW S, NEW lt, StrictOrder(S, lt), NEW T \in SUBSET S, IsFiniteSet(T), T # {}
  PROVE  \E m \in T : \A x \in T : <<m, x>> \notin lt
<1> DEFINE above == [m \in T |-> {x \in T : <<m, x>> \in lt}]
           counts == {Cardinality(above[m]) : m \in T}
<1>1. \A m \in T : /\ above[m] \in SUBSET T
                   /\ \A x \in T : x \in above[m] <=> <<m, x>> \in lt
  OBVIOUS
<1> HIDE DEF above
<1>2. \A m \in T : IsFiniteSet(above[m]) /\ Cardinality(above[m]) \in Nat
  BY <1>1, FS_Subset, FS_CardinalityType
<1>3. PICK n \in counts : \A c \in counts : n <= c
  <2>1. counts \in SUBSET Nat /\ counts # {}
    BY <1>2
  <2> HIDE DEF counts
  <2> QED BY <2>1, LeastExists
<1>4. PICK m \in T : n = Cardinality(above[m])
  BY <1>3
<1>5. ASSUME NEW x \in T, <<m, x>> \in lt PROVE FALSE
  <2>1. above[x] \in SUBSET above[m]
    BY <1>1, <1>5 DEF StrictOrder
  <2>2. x \in above[m] /\ x \notin above[x]
    BY <1>1, <1>5 DEF StrictOrder
  <2>3. Cardinality(above[x]) < Cardinality(above[m])
    BY <1>2, <2>1, <2>2, StrictSubsetSmaller
  <2>4. Cardinality(above[m]) <= Cardinality(above[x])
    BY <1>3, <1>4
  <2> QED BY <1>2, <2>3, <2>4
<1> QED BY <1>5

\* A finite set sorted by a strict order has a member at every position: at most k
\* before it, and more than k not after it.
LEMMA KthExists ==
  ASSUME NEW S, NEW lt, StrictOrder(S, lt), IsFiniteSet(S),
         NEW k \in Nat, k < Cardinality(S)
  PROVE  \E e \in S : /\ Cardinality({r \in S : <<r, e>> \in lt}) <= k
                      /\ k < Cardinality({r \in S : <<e, r>> \notin lt})
<1> DEFINE before == [e \in S |-> {r \in S : <<r, e>> \in lt}]
           upto == [e \in S |-> {r \in S : <<e, r>> \notin lt}]
           T == {e \in S : k < Cardinality(upto[e])}
           counts == {Cardinality(before[e]) : e \in T}
<1>1. \A e \in S : /\ before[e] \in SUBSET S /\ upto[e] \in SUBSET S
                   /\ \A r \in S : r \in before[e] <=> <<r, e>> \in lt
                   /\ \A r \in S : r \in upto[e] <=> <<e, r>> \notin lt
  OBVIOUS
<1>2. \A e \in S : /\ IsFiniteSet(before[e]) /\ Cardinality(before[e]) \in Nat
                   /\ IsFiniteSet(upto[e]) /\ Cardinality(upto[e]) \in Nat
  <2> HIDE DEF before, upto
  <2> QED BY <1>1, FS_Subset, FS_CardinalityType
<1>3. T # {}
  <2>1. Cardinality(S) \in Nat
    BY FS_CardinalityType
  <2>2. S # {}
    BY <2>1, FS_EmptySet
  <2>3. S \in SUBSET S
    OBVIOUS
  <2>4. PICK m \in S : \A x \in S : <<m, x>> \notin lt
    BY <2>2, <2>3, MaximalExists
  <2>5. upto[m] = S
    BY <2>4
  <2> HIDE DEF upto
  <2> QED BY <2>5
<1>4. PICK n \in counts : \A c \in counts : n <= c
  <2>1. counts \in SUBSET Nat /\ counts # {}
    <3> HIDE DEF before
    <3> QED BY <1>2, <1>3
  <2> HIDE DEF counts
  <2> QED BY <2>1, LeastExists
<1>5. PICK e \in T : n = Cardinality(before[e])
  BY <1>4
<1>6. e \in S /\ k < Cardinality(upto[e])
  <2> HIDE DEF upto
  <2> QED BY <1>5
<1>7. Cardinality(before[e]) <= k
  <2> SUFFICES ASSUME ~(Cardinality(before[e]) <= k) PROVE FALSE
    OBVIOUS
  <2> HIDE DEF before, upto
  <2>1. k < Cardinality(before[e]) /\ before[e] # {}
    <3>1. Cardinality(before[e]) \in Nat
      BY <1>2, <1>6
    <3>2. k < Cardinality(before[e])
      BY <3>1
    <3> QED BY <3>1, <3>2, FS_EmptySet
  <2>2. PICK m \in before[e] : \A x \in before[e] : <<m, x>> \notin lt
    BY <1>1, <1>2, <1>6, <2>1, MaximalExists
  <2>3. m \in S /\ <<m, e>> \in lt
    BY <1>1, <1>6
  <2>4. before[e] \in SUBSET upto[m]
    BY <1>1, <1>6, <2>2, <2>3
  <2>5. Cardinality(before[e]) <= Cardinality(upto[m])
    BY <1>2, <2>3, <2>4, FS_Subset
  <2>6. m \in T
    <3>1. Cardinality(upto[m]) \in Nat /\ Cardinality(before[e]) \in Nat
      BY <1>2, <1>6, <2>3
    <3>2. k < Cardinality(upto[m])
      BY <2>1, <2>5, <3>1
    <3> QED BY <2>3, <3>2
  <2>7. before[m] \in SUBSET before[e] /\ m \in before[e] /\ m \notin before[m]
    BY <1>1, <1>6, <2>3 DEF StrictOrder
  <2>8. Cardinality(before[m]) < Cardinality(before[e])
    BY <1>2, <1>6, <2>7, StrictSubsetSmaller
  <2>9. Cardinality(before[e]) <= Cardinality(before[m])
    <3> HIDE DEF T
    <3> QED BY <1>4, <1>5, <2>6
  <2> QED BY <1>2, <1>6, <2>3, <2>8, <2>9
<1> QED BY <1>6, <1>7

\* A figure that at most k - 1 windows are below and at least k are not above is the k-th.
LEMMA KthFigureIs ==
  ASSUME NEW reps, IsFiniteSet(reps), NEW figure, \A rep \in reps : rep[figure] \in Nat,
         NEW k \in Nat, NEW e \in reps,
         Cardinality({rep \in reps : rep[figure] < e[figure]}) < k,
         k <= Cardinality({rep \in reps : rep[figure] <= e[figure]})
  PROVE  KthFigure(reps, figure, k) = e[figure]
<1> DEFINE below == [v \in Nat |-> {rep \in reps : rep[figure] < v}]
           upto == [v \in Nat |-> {rep \in reps : rep[figure] <= v}]
           Kth(v) == Cardinality(below[v]) < k /\ k <= Cardinality(upto[v])
<1>1. \A v \in Nat : /\ below[v] = {rep \in reps : rep[figure] < v}
                     /\ upto[v] = {rep \in reps : rep[figure] <= v}
                     /\ below[v] \in SUBSET reps /\ upto[v] \in SUBSET reps
  OBVIOUS
<1>2. \A v \in Nat : /\ IsFiniteSet(below[v]) /\ Cardinality(below[v]) \in Nat
                     /\ IsFiniteSet(upto[v]) /\ Cardinality(upto[v]) \in Nat
  <2> HIDE DEF below, upto
  <2> QED BY <1>1, FS_Subset, FS_CardinalityType
<1>3. ASSUME NEW v \in Nat, NEW w \in Nat, v < w, Kth(v), Kth(w) PROVE FALSE
  <2>1. upto[v] \in SUBSET below[w]
    <3>1. \A rep \in reps : rep[figure] <= v => rep[figure] < w
      BY <1>3
    <3> QED BY <1>1, <3>1
  <2> HIDE DEF below, upto
  <2>2. Cardinality(upto[v]) <= Cardinality(below[w])
    BY <1>2, <2>1, FS_Subset
  <2> QED BY <1>2, <1>3, <2>2
<1>4. e[figure] \in Nat /\ Kth(e[figure])
  BY <1>1
<1>5. KthFigure(reps, figure, k) = CHOOSE v \in {rep[figure] : rep \in reps} : Kth(v)
  <2>1. \A v \in {rep[figure] : rep \in reps} :
          Kth(v) <=> /\ Cardinality({rep \in reps : rep[figure] < v}) < k
                     /\ k <= Cardinality({rep \in reps : rep[figure] <= v})
    BY <1>1
  <2> HIDE DEF Kth
  <2> QED BY <2>1 DEF KthFigure
<1>6. \A v \in {rep[figure] : rep \in reps} : Kth(v) => v = e[figure]
  <2> SUFFICES ASSUME NEW rep \in reps, Kth(rep[figure]) PROVE rep[figure] = e[figure]
    OBVIOUS
  <2> DEFINE v == rep[figure]  w == e[figure]
  <2>1. v \in Nat /\ w \in Nat /\ Kth(v) /\ Kth(w)
    BY <1>4
  <2> HIDE DEF v, w, Kth
  <2>2. ~(v < w) /\ ~(w < v)
    BY <1>3, <2>1
  <2> QED BY <2>1, <2>2 DEF v, w
<1> HIDE DEF Kth
<1> QED BY <1>4, <1>5, <1>6

\* Between the first and the last there is always a k-th figure, and it is a number.
LEMMA KthFigureType ==
  ASSUME NEW reps, IsFiniteSet(reps), NEW figure, \A rep \in reps : rep[figure] \in Nat,
         NEW k \in 1 .. Cardinality(reps)
  PROVE  KthFigure(reps, figure, k) \in Nat
<1> DEFINE lt == {pair \in reps \X reps : pair[1][figure] < pair[2][figure]}
<1>1. \A a, b \in reps : <<a, b>> \in lt <=> a[figure] < b[figure]
  OBVIOUS
<1>2. StrictOrder(reps, lt)
  <2> HIDE DEF lt
  <2> QED BY <1>1 DEF StrictOrder
<1>3. Cardinality(reps) \in Nat /\ k \in Nat /\ k - 1 \in Nat /\ k - 1 < Cardinality(reps)
  BY FS_CardinalityType
<1> HIDE DEF lt
<1> DEFINE j == k - 1
<1>4. PICK e \in reps : /\ Cardinality({r \in reps : <<r, e>> \in lt}) <= j
                        /\ j < Cardinality({r \in reps : <<e, r>> \notin lt})
  <2>1. j \in Nat /\ j < Cardinality(reps)
    BY <1>3
  <2> HIDE DEF j
  <2> QED BY <1>2, <2>1, KthExists
<1>5. /\ {r \in reps : <<r, e>> \in lt} = {rep \in reps : rep[figure] < e[figure]}
      /\ {r \in reps : <<e, r>> \notin lt} = {rep \in reps : rep[figure] <= e[figure]}
  <2>1. \A r \in reps : <<r, e>> \in lt <=> r[figure] < e[figure]
    BY <1>1
  <2>2. \A r \in reps : <<e, r>> \notin lt <=> r[figure] <= e[figure]
    BY <1>1
  <2> QED BY <2>1, <2>2
<1>6. /\ IsFiniteSet({rep \in reps : rep[figure] < e[figure]})
      /\ IsFiniteSet({rep \in reps : rep[figure] <= e[figure]})
  BY FS_Subset
<1>7. /\ Cardinality({rep \in reps : rep[figure] < e[figure]}) < k
      /\ k <= Cardinality({rep \in reps : rep[figure] <= e[figure]})
  <2> DEFINE below == {rep \in reps : rep[figure] < e[figure]}
             upto == {rep \in reps : rep[figure] <= e[figure]}
  <2>1. Cardinality(below) \in Nat /\ Cardinality(upto) \in Nat
    <3> HIDE DEF below, upto
    <3> QED BY <1>6, FS_CardinalityType DEF below, upto
  <2>2. Cardinality(below) <= k - 1 /\ k - 1 < Cardinality(upto)
    BY <1>4, <1>5
  <2> HIDE DEF below, upto
  <2>3. Cardinality(below) < k /\ k <= Cardinality(upto)
    BY <1>3, <2>1, <2>2
  <2> QED BY <2>3 DEF below, upto
<1>8. KthFigure(reps, figure, k) = e[figure]
  <2>1. k \in Nat
    BY <1>3
  <2> QED BY <1>7, <2>1, KthFigureIs
<1> QED BY <1>8

-----------------------------------------------------------------------------
(* The row of a rung. *)

\* Windows are ordered by throughput, then tail, then number.
LEMMA PrecedesOrders ==
  ASSUME LadderPolicyAssumption, NEW reps \in SUBSET Repetition
  PROVE  StrictOrder(reps, {pair \in reps \X reps : Precedes(pair[1], pair[2])})
<1>1. \A a \in reps : /\ TokS(a) \in Nat /\ a.repetition \in Nat
                      /\ a.ttft = None \/ a.ttft \in Nat
  BY DEF Repetition, TokS
<1>2. \A a \in reps : ~Precedes(a, a)
  BY <1>1 DEF Precedes, ShorterTail, LadderPolicyAssumption
<1>3. ASSUME NEW a \in reps, NEW b \in reps, NEW c \in reps, Precedes(a, b), Precedes(b, c)
      PROVE  Precedes(a, c)
  <2>1. TokS(a) <= TokS(b) /\ TokS(b) <= TokS(c)
    BY <1>1, <1>3 DEF Precedes
  <2>2. CASE TokS(a) < TokS(b) \/ TokS(b) < TokS(c)
    <3>1. TokS(a) < TokS(c)
      BY <1>1, <2>1, <2>2
    <3> QED BY <3>1 DEF Precedes
  <2>3. CASE TokS(a) = TokS(b) /\ TokS(b) = TokS(c)
    <3>1. /\ ShorterTail(a, b) \/ (~ShorterTail(b, a) /\ a.repetition < b.repetition)
          /\ ShorterTail(b, c) \/ (~ShorterTail(c, b) /\ b.repetition < c.repetition)
      BY <1>1, <1>3, <2>3 DEF Precedes
    <3>2. ShorterTail(a, c) \/ (~ShorterTail(c, a) /\ a.repetition < c.repetition)
      BY <1>1, <3>1 DEF ShorterTail, LadderPolicyAssumption
    <3> QED BY <2>3, <3>2 DEF Precedes
  <2> QED BY <1>1, <2>1, <2>2, <2>3
<1> DEFINE lt == {pair \in reps \X reps : Precedes(pair[1], pair[2])}
<1>4. \A a, b \in reps : <<a, b>> \in lt <=> Precedes(a, b)
  OBVIOUS
<1> HIDE DEF lt
<1>5. StrictOrder(reps, lt)
  BY <1>2, <1>3, <1>4 DEF StrictOrder
<1> QED BY <1>5 DEF lt

\* Halving as _median_repetition and statistics.median do it.
LEMMA Halves ==
  ASSUME NEW n \in Nat, n > 0
  PROVE  /\ (n - 1) \div 2 \in Nat /\ (n - 1) \div 2 < n
         /\ (n + 1) \div 2 = ((n - 1) \div 2) + 1
         /\ (n + 1) \div 2 \in 1 .. n
OBVIOUS

\* The representative window exists and stands in the middle.
LEMMA MedianRepetitionIs ==
  ASSUME LadderPolicyAssumption, NEW reps \in SUBSET Repetition, IsFiniteSet(reps), reps # {}
  PROVE  LET m == MedianRepetition(reps)
             ranked == Ranked(reps)
             k == (Cardinality(ranked) - 1) \div 2
         IN  /\ m \in ranked /\ m \in reps
             /\ Cardinality({r \in ranked : Precedes(r, m)}) <= k
             /\ k < Cardinality({r \in ranked : ~Precedes(m, r)})
<1> DEFINE ranked == Ranked(reps)
           n == Cardinality(ranked)
           k == (n - 1) \div 2
           lt == {pair \in ranked \X ranked : Precedes(pair[1], pair[2])}
           Middle(e) == /\ Cardinality({r \in ranked : Precedes(r, e)}) <= k
                        /\ k < Cardinality({r \in ranked : ~Precedes(e, r)})
<1>1. ranked \in SUBSET reps /\ ranked # {} /\ ranked \in SUBSET Repetition
  BY DEF Ranked
<1>2. IsFiniteSet(ranked) /\ n \in Nat /\ n > 0
  <2> HIDE DEF ranked
  <2>1. IsFiniteSet(ranked) /\ n \in Nat
    BY <1>1, FS_Subset, FS_CardinalityType
  <2>2. n # 0
    BY <1>1, <2>1, FS_EmptySet
  <2> HIDE DEF n
  <2> QED BY <2>1, <2>2
<1>3. k \in Nat /\ k < n
  <2> HIDE DEF n
  <2> QED BY <1>2, Halves
<1>4. StrictOrder(ranked, lt)
  <2> HIDE DEF ranked
  <2> QED BY <1>1, PrecedesOrders
<1>5. \A a, b \in ranked : <<a, b>> \in lt <=> Precedes(a, b)
  OBVIOUS
<1>6. \E e \in ranked : Middle(e)
  <2> HIDE DEF ranked, lt, k
  <2>1. PICK e \in ranked : /\ Cardinality({r \in ranked : <<r, e>> \in lt}) <= k
                            /\ k < Cardinality({r \in ranked : <<e, r>> \notin lt})
    <3>1. k \in Nat /\ k < Cardinality(ranked) /\ IsFiniteSet(ranked)
      BY <1>2, <1>3
    <3> QED BY <1>4, <3>1, KthExists
  <2>2. /\ {r \in ranked : <<r, e>> \in lt} = {r \in ranked : Precedes(r, e)}
        /\ {r \in ranked : <<e, r>> \notin lt} = {r \in ranked : ~Precedes(e, r)}
    BY <1>5
  <2> QED BY <2>1, <2>2
<1>7. MedianRepetition(reps) = CHOOSE e \in ranked : Middle(e)
  BY DEF MedianRepetition
<1> HIDE DEF ranked, Middle
<1>8. MedianRepetition(reps) \in ranked /\ Middle(MedianRepetition(reps))
  BY <1>6, <1>7
<1> QED BY <1>1, <1>8 DEF ranked, Middle

\* What the block beside a row says of one figure.
LEMMA FigureDispersionIs ==
  ASSUME LadderPolicyAssumption, DraftAssumption,
         NEW reps \in SUBSET Repetition, IsFiniteSet(reps), NEW figure \in {"tok_s", "ttft"}
  PROVE  LET alive == Survivors(reps, figure)
             n == Cardinality(alive)
             spread == FigureDispersion(reps, figure)
         IN  /\ alive \in SUBSET reps /\ IsFiniteSet(alive) /\ n \in Nat
             /\ \A rep \in alive : rep[figure] \in Nat
             /\ spread = None <=> \A rep \in reps : rep[figure] = None
             /\ alive # {} => n > 0 /\ spread.median = KthFigure(alive, figure, (n + 1) \div 2)
<1> DEFINE alive == Survivors(reps, figure)
           n == Cardinality(alive)
           spread == FigureDispersion(reps, figure)
<1>1. alive \in SUBSET reps /\ \A rep \in reps : rep \in alive <=> rep[figure] # None
  BY DEF Survivors
<1>2. \A rep \in alive : rep[figure] \in Nat
  <2>1. \A rep \in reps : rep["tok_s"] \in Nat \cup {None} /\ rep["ttft"] \in Nat \cup {None}
    BY DEF Repetition
  <2> HIDE DEF alive
  <2> QED BY <1>1, <2>1
<1> HIDE DEF alive
<1>3. IsFiniteSet(alive) /\ n \in Nat /\ (n = 0 <=> alive = {})
  BY <1>1, FS_Subset, FS_CardinalityType, FS_EmptySet
<1>4. CASE alive = {}
  <2>1. spread = None
    BY <1>3, <1>4 DEF FigureDispersion, alive
  <2> QED BY <1>1, <1>2, <1>3, <1>4, <2>1 DEF alive
<1>5. CASE alive # {}
  <2>1. n > 0
    BY <1>3, <1>5
  <2>2. spread = [min |-> KthFigure(alive, figure, 1), max |-> KthFigure(alive, figure, n),
                  median |-> KthFigure(alive, figure, (n + 1) \div 2), n |-> n]
    BY <1>3, <1>5 DEF FigureDispersion, alive
  <2>3. 1 \in 1 .. n /\ n \in 1 .. n /\ (n + 1) \div 2 \in 1 .. n
    <3> HIDE DEF n
    <3> QED BY <1>3, <2>1, Halves
  <2>4. \A k \in 1 .. n : KthFigure(alive, figure, k) \in Nat
    BY <1>2, <1>3, KthFigureType
  <2>5. spread \in [min : Nat, max : Nat, median : Nat, n : Nat]
    <3> HIDE DEF n
    <3> QED BY <1>3, <2>2, <2>3, <2>4
  <2>6. spread # None
    BY <2>5 DEF DraftAssumption
  <2>7. spread.median = KthFigure(alive, figure, (n + 1) \div 2)
    BY <2>2
  <2>8. ~ \A rep \in reps : rep[figure] = None
    BY <1>1, <1>5
  <2> QED BY <1>1, <1>2, <1>3, <2>1, <2>6, <2>7, <2>8 DEF alive
<1> QED BY <1>4, <1>5

\* A window in the middle of the order is in the middle of any figure the order follows.
LEMMA MiddleOfFigure ==
  ASSUME NEW ranked, IsFiniteSet(ranked), NEW figure, \A rep \in ranked : rep[figure] \in Nat,
         NEW m \in ranked, Cardinality(ranked) \in Nat, Cardinality(ranked) > 0,
         \A r \in ranked : r[figure] < m[figure] => Precedes(r, m),
         \A r \in ranked : m[figure] < r[figure] => Precedes(m, r),
         Cardinality({r \in ranked : Precedes(r, m)}) <= (Cardinality(ranked) - 1) \div 2,
         (Cardinality(ranked) - 1) \div 2 < Cardinality({r \in ranked : ~Precedes(m, r)})
  PROVE  KthFigure(ranked, figure, (Cardinality(ranked) + 1) \div 2) = m[figure]
<1> DEFINE n == Cardinality(ranked)
           k == (n - 1) \div 2
           before == {r \in ranked : Precedes(r, m)}
           upto == {r \in ranked : ~Precedes(m, r)}
           less == {rep \in ranked : rep[figure] < m[figure]}
           notmore == {rep \in ranked : rep[figure] <= m[figure]}
<1>1. k \in Nat /\ (n + 1) \div 2 = k + 1
  <2>1. n \in Nat /\ n > 0
    OBVIOUS
  <2> HIDE DEF n
  <2> QED BY <2>1, Halves
<1>2. less \in SUBSET before /\ before \in SUBSET ranked
  OBVIOUS
<1>3. upto \in SUBSET notmore /\ notmore \in SUBSET ranked /\ upto \in SUBSET ranked
  <2>1. \A r \in ranked : ~Precedes(m, r) => r[figure] <= m[figure]
    OBVIOUS
  <2> QED BY <2>1
<1>4. Cardinality(before) <= k /\ k < Cardinality(upto)
  OBVIOUS
<1> HIDE DEF before, upto, less, notmore, k
<1>5. /\ Cardinality(less) \in Nat /\ Cardinality(before) \in Nat
      /\ Cardinality(upto) \in Nat /\ Cardinality(notmore) \in Nat
      /\ Cardinality(less) <= Cardinality(before)
      /\ Cardinality(upto) <= Cardinality(notmore)
  <2>1. IsFiniteSet(before) /\ IsFiniteSet(notmore) /\ IsFiniteSet(upto)
    BY <1>2, <1>3, FS_Subset
  <2> QED BY <1>2, <1>3, <2>1, FS_Subset, FS_CardinalityType
<1>6. Cardinality(less) < k + 1 /\ k + 1 <= Cardinality(notmore) /\ k + 1 \in Nat
  BY <1>1, <1>4, <1>5
<1> DEFINE kth == k + 1
<1>7. Cardinality(less) < kth /\ kth <= Cardinality(notmore) /\ kth \in Nat
  BY <1>6
<1> HIDE DEF kth
<1>8. KthFigure(ranked, figure, kth) = m[figure]
  BY <1>7, KthFigureIs DEF less, notmore
<1> QED BY <1>1, <1>8 DEF kth
=============================================================================
