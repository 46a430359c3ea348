----------------------------- MODULE SizingProofs -----------------------------
(***************************************************************************)
(* The cluster gpus_required buys meets the demand it was sized for and is *)
(* the smallest that does, for every workload, deployment and headroom.    *)
(*                                                                         *)
(* The argument has three parts: the KV estimate is the memory the sum     *)
(* over layers and ranks asks for, each floor is a comparison of demand    *)
(* with supply, and the search has tried every smaller cluster.            *)
(***************************************************************************)
EXTENDS Sizing, FiniteSetTheorems, WellFoundedInduction, TLAPS

-----------------------------------------------------------------------------
(* Sums.                                                                    *)

\* A set of numbers that is not empty has a least member.
LEMMA LeastExists ==
  ASSUME NEW S \in SUBSET Nat, S # {}
  PROVE  \E m \in S : \A x \in S : m <= x
<1>1. PICK m \in S : \A x \in S : ~(<<x, m>> \in OpToRel(<, Nat))
  BY NatLessThanWellFounded, WFMin
<1>2. OpToRel(<, Nat) = {ss \in Nat \X Nat : ss[1] < ss[2]}
  BY DEF OpToRel
<1>3. \A x \in S : ~(x < m)
  BY <1>1, <1>2
<1> QED BY <1>3

\* A sum is its last term on top of the sum before it.
LEMMA SumUnfolds ==
  ASSUME NEW n \in Nat, NEW f
  PROVE  \E s : /\ s[0] = 0 /\ \A k \in 1..n : s[k] = s[k - 1] + f[k]
                /\ SumTo(n, f) = s[n]
<1> DEFINE Fits(h, m) == h = [k \in 0..m |-> IF k = 0 THEN 0 ELSE h[k - 1] + f[k]]
           bad == {m \in 0..n : ~ \E h : Fits(h, m)}
<1>1. bad = {}
  <2> SUFFICES ASSUME bad # {} PROVE FALSE
    OBVIOUS
  <2>1. bad \in SUBSET Nat
    OBVIOUS
  <2>2. PICK m \in bad : \A x \in bad : m <= x
    <3> HIDE DEF bad
    <3> QED BY <2>1, LeastExists
  <2>3. m \in 0..n /\ m \in Nat /\ ~ \E h : Fits(h, m)
    OBVIOUS
  <2>4. m # 0
    <3> SUFFICES ASSUME m = 0 PROVE FALSE
      OBVIOUS
    <3> DEFINE h == [k \in 0..0 |-> 0]
    <3>1. h = [k \in 0..0 |-> IF k = 0 THEN 0 ELSE h[k - 1] + f[k]]
      OBVIOUS
    <3> HIDE DEF h
    <3> QED BY <2>3, <3>1
  <2>5. m - 1 \in 0..n /\ ~(m <= m - 1)
    BY <2>3, <2>4
  <2>6. PICK h : Fits(h, m - 1)
    <3>1. m - 1 \notin bad
      BY <2>2, <2>5
    <3> QED BY <2>5, <3>1
  <2> DEFINE g == [k \in 0..m |-> IF k = m THEN h[m - 1] + f[m] ELSE h[k]]
  <2>7. \A k \in 0..m : g[k] = IF k = 0 THEN 0 ELSE g[k - 1] + f[k]
    <3> SUFFICES ASSUME NEW k \in 0..m PROVE g[k] = IF k = 0 THEN 0 ELSE g[k - 1] + f[k]
      OBVIOUS
    <3>1. CASE k = m
      <4>1. k - 1 \in 0..m /\ k - 1 # m /\ k # 0
        BY <2>3, <2>4, <3>1
      <4>2. g[k - 1] = h[m - 1]
        BY <3>1, <4>1
      <4> QED BY <3>1, <4>1, <4>2
    <3>2. CASE k # m
      <4>1. k \in 0..m - 1
        BY <2>3, <3>2
      <4>2. h[k] = IF k = 0 THEN 0 ELSE h[k - 1] + f[k]
        BY <2>6, <4>1
      <4>3. g[k] = h[k]
        BY <3>2
      <4>4. k # 0 => k - 1 \in 0..m /\ k - 1 # m
        BY <2>3, <4>1
      <4>5. k # 0 => g[k - 1] = h[k - 1]
        BY <4>4
      <4> HIDE DEF g
      <4> QED BY <4>2, <4>3, <4>5
    <3> QED BY <3>1, <3>2
  <2>8. Fits(g, m)
    <3>1. g = [k \in 0..m |-> g[k]]
      OBVIOUS
    <3> HIDE DEF g
    <3> QED BY <2>7, <3>1
  <2> QED BY <2>3, <2>8
<1> DEFINE s == CHOOSE h : Fits(h, n)
<1>2. PICK h : Fits(h, n)
  <2>1. n \in 0..n
    OBVIOUS
  <2> QED BY <1>1, <2>1
<1>3. Fits(s, n)
  <2> HIDE DEF Fits
  <2> QED BY <1>2
<1>4. SumTo(n, f) = s[n]
  BY DEF SumTo
<1> HIDE DEF s
<1>5. s[0] = 0 /\ \A k \in 1..n : s[k] = s[k - 1] + f[k]
  <2>1. 0 \in 0..n /\ \A k \in 1..n : k \in 0..n /\ k # 0
    OBVIOUS
  <2> QED BY <1>3, <2>1
<1> QED BY <1>4, <1>5

\* A sum whose terms g's steps cover is at most g, and is g where they are the same.
LEMMA SumBound ==
  ASSUME NEW n \in Nat, NEW f, \A k \in 1..n : f[k] \in Nat,
         NEW g, g[0] = 0, \A k \in 0..n : g[k] \in Nat,
         \A k \in 1..n : g[k - 1] + f[k] <= g[k]
  PROVE  /\ SumTo(n, f) \in Nat /\ SumTo(n, f) <= g[n]
         /\ (\A k \in 1..n : g[k - 1] + f[k] = g[k]) => SumTo(n, f) = g[n]
<1>1. PICK s : /\ s[0] = 0 /\ \A k \in 1..n : s[k] = s[k - 1] + f[k]
               /\ SumTo(n, f) = s[n]
  BY SumUnfolds
<1> DEFINE exact == \A k \in 1..n : g[k - 1] + f[k] = g[k]
           P(k) == s[k] \in Nat /\ s[k] <= g[k] /\ (exact => s[k] = g[k])
           bad == {k \in 0..n : ~P(k)}
<1> HIDE DEF exact
<1>2. bad = {}
  <2> SUFFICES ASSUME bad # {} PROVE FALSE
    OBVIOUS
  <2>1. bad \in SUBSET Nat
    OBVIOUS
  <2>2. PICK m \in bad : \A x \in bad : m <= x
    <3> HIDE DEF bad
    <3> QED BY <2>1, LeastExists
  <2>3. m \in 0..n /\ ~P(m)
    OBVIOUS
  <2>4. m # 0
    BY <1>1, <2>3
  <2>5. m \in 1..n /\ m - 1 \in 0..n /\ ~(m <= m - 1)
    BY <2>3, <2>4
  <2>6. P(m - 1)
    BY <2>2, <2>5
  <2>7. /\ s[m] = s[m - 1] + f[m] /\ f[m] \in Nat /\ g[m] \in Nat /\ g[m - 1] \in Nat
        /\ g[m - 1] + f[m] <= g[m]
    BY <1>1, <2>5
  <2>8. exact => g[m - 1] + f[m] = g[m]
    BY <2>5 DEF exact
  <2>9. P(m)
    BY <2>6, <2>7, <2>8
  <2> QED BY <2>3, <2>9
<1>3. P(n)
  <2>1. n \in 0..n
    OBVIOUS
  <2> QED BY <1>2, <2>1
<1> QED BY <1>1, <1>3 DEF exact

-----------------------------------------------------------------------------
(* What a session holds.                                                    *)

\* The state SizingInit leaves for good: the workload, the deployment and the headroom.
Typed == w \in Workloads /\ dep \in Deployments /\ headroom \in Headrooms

LEMMA Types ==
  ASSUME Typed
  PROVE  /\ w.daily \in Nat /\ w.duty \in Nat /\ w.input \in Nat /\ w.output \in Nat
         /\ w.growth \in Nat /\ w.requests \in Nat /\ w.requests > 0 /\ w.target \in Nat
         /\ w.secs \in Nat /\ w.peak \in Nat
         /\ w.concurrent # None => w.concurrent \in Nat
         /\ w.residency # None => w.residency \in Nat
         /\ dep.layers \in Nat /\ dep.layers > 0 /\ dep.global \in Nat /\ dep.global > 0
         /\ dep.global <= dep.layers /\ dep.heads \in Nat /\ dep.heads > 0
         /\ dep.width \in Nat /\ dep.width > 0
         /\ dep.vram \in Nat /\ dep.weights \in Nat /\ dep.tok \in Nat
         /\ dep.window # None => dep.window \in Nat /\ dep.window > 0
         /\ dep.prefill # None => dep.prefill \in Nat
         /\ headroom \in Nat /\ headroom > 0
         /\ Whole \in Nat /\ Whole > 0 /\ DayS \in Nat /\ DayS > 0
BY SizingAssumption DEF Typed

\* The context of a session in half tokens, what a windowed layer keeps of it, and the layers'
\* total.
Context == avg_context_tokens[1]
Windowed == IF dep.window = None THEN Context ELSE Min({Context, 2 * dep.window})
LayerTotal == dep.global * Context + (dep.layers - dep.global) * Windowed

LEMMA ContextIs ==
  ASSUME Typed
  PROVE  /\ avg_context_tokens = <<Context, 2>> /\ Context \in Nat
         /\ Context = 2 * w.input + w.output + (w.requests - 1) * w.growth
<1>1. /\ w.input \in Nat /\ w.output \in Nat /\ w.growth \in Nat /\ w.requests \in Nat
      /\ w.requests > 0
  BY Types
<1> DEFINE more == IF w.growth > 0 /\ w.requests > 1 THEN w.growth * (w.requests - 1) ELSE 0
<1>2. more = (w.requests - 1) * w.growth /\ more \in Nat
  BY <1>1
<1>3. avg_context_tokens = <<2 * w.input + w.output + more, 2>>
  BY DEF avg_context_tokens
<1> HIDE DEF more
<1> QED BY <1>1, <1>2, <1>3 DEF Context

\* The smaller and the greater of two numbers.
LEMMA MinOfTwo ==
  ASSUME NEW a \in Int, NEW b \in Int
  PROVE  Min({a, b}) = IF a <= b THEN a ELSE b
BY DEF Min

LEMMA MaxOfTwo ==
  ASSUME NEW a \in Int, NEW b \in Int
  PROVE  Max({a, b}) = IF a >= b THEN a ELSE b
BY DEF Max

LEMMA WindowedIs ==
  ASSUME Typed
  PROVE  /\ Windowed \in Nat
         /\ \A layer : HeldBy(layer) = IF layer <= dep.global THEN Context ELSE Windowed
<1>1. Context \in Nat /\ Context = 2 * w.input + w.output + (w.requests - 1) * w.growth
  BY ContextIs
<1>2. dep.window # None => 2 * dep.window \in Nat
  BY Types
<1>3. Windowed \in Nat
  BY <1>1, <1>2, MinOfTwo DEF Windowed
<1> QED BY <1>1, <1>3 DEF HeldBy, Windowed

\* One more row of a product.
LEMMA NextRow ==
  ASSUME NEW k \in Nat, k > 0, NEW c \in Nat
  PROVE  (k - 1) * c + c = k * c /\ k * c \in Nat
OBVIOUS

\* The first layers keep all of the context and the others what the window allows: the sum
\* over the layers is the total effective_layer_frac averages.
LEMMA LayersHold ==
  ASSUME Typed
  PROVE  /\ LayerTotal \in Nat
         /\ SumTo(dep.layers, [layer \in 1..dep.layers |-> HeldBy(layer)]) = LayerTotal
<1> DEFINE L == dep.layers
           G == dep.global
           f == [layer \in 1..L |-> HeldBy(layer)]
           g == [k \in 0..L |-> IF k <= G THEN k * Context
                                ELSE G * Context + (k - G) * Windowed]
<1>1. /\ L \in Nat /\ G \in Nat /\ G > 0 /\ G <= L /\ Context \in Nat /\ Windowed \in Nat
  BY Types, ContextIs, WindowedIs
<1>2. \A k \in 1..L : f[k] = (IF k <= G THEN Context ELSE Windowed) /\ f[k] \in Nat
  BY <1>1, WindowedIs
<1>3. \A k \in 0..L : g[k] \in Nat
  <2> SUFFICES ASSUME NEW k \in 0..L PROVE g[k] \in Nat
    OBVIOUS
  <2>1. CASE k <= G
    BY <1>1, <2>1
  <2>2. CASE ~(k <= G)
    <3>1. k - G \in Nat
      BY <1>1, <2>2
    <3>2. (k - G) * Windowed \in Nat /\ G * Context \in Nat
      BY <1>1, <3>1
    <3> QED BY <2>2, <3>2
  <2> QED BY <2>1, <2>2
<1>4. g[0] = 0
  BY <1>1
<1> DEFINE rows(k) == IF k <= G THEN k * Context ELSE G * Context + (k - G) * Windowed
<1>4a. \A k \in 0..L : g[k] = rows(k)
  OBVIOUS
<1>5. \A k \in 1..L : g[k - 1] + f[k] = g[k]
  <2> SUFFICES ASSUME NEW k \in 1..L PROVE g[k - 1] + f[k] = g[k]
    OBVIOUS
  <2> DEFINE j == k - 1
  <2>1. j \in 0..L /\ k \in 0..L /\ k \in Nat /\ k > 0 /\ j \in Nat /\ k = j + 1
    BY <1>1
  <2>2. g[j] = rows(j) /\ g[k] = rows(k) /\ f[k] = (IF k <= G THEN Context ELSE Windowed)
    BY <1>2, <1>4a, <2>1
  <2> HIDE DEF f, g, j
  <2>3. CASE k <= G
    <3>1. rows(k) = k * Context /\ rows(j) = j * Context
      BY <1>1, <2>1, <2>3
    <3>2. j * Context + Context = k * Context
      BY <1>1, <2>1, NextRow DEF j
    <3> QED BY <2>2, <2>3, <3>1, <3>2 DEF j
  <2>4. CASE ~(k <= G)
    <3> DEFINE more == j - G
    <3>1. more \in Nat /\ k - G \in Nat /\ k - G > 0 /\ (k - G) - 1 = more
      BY <1>1, <2>1, <2>4
    <3>2. more * Windowed + Windowed = (k - G) * Windowed
      BY <1>1, <3>1, NextRow
    <3>3. rows(j) = G * Context + more * Windowed
      <4>1. CASE j <= G
        <5>1. j = G /\ more = 0
          BY <1>1, <2>1, <2>4, <4>1
        <5> QED BY <1>1, <5>1
      <4>2. CASE ~(j <= G)
        BY <4>2
      <4> QED BY <4>1, <4>2
    <3> DEFINE full == G * Context
               before == more * Windowed
               row == (k - G) * Windowed
    <3>4. full \in Nat /\ before \in Nat /\ row \in Nat
      BY <1>1, <3>1
    <3>5. g[j] = full + before /\ g[k] = full + row /\ f[k] = Windowed
      BY <2>2, <2>4, <3>3
    <3>6. before + Windowed = row
      BY <3>2
    <3> HIDE DEF full, before, row
    <3> QED BY <1>1, <3>4, <3>5, <3>6 DEF j
  <2> QED BY <2>3, <2>4
<1>6. g[L] = LayerTotal
  <2>1. CASE L = G
    BY <1>1, <2>1 DEF LayerTotal
  <2>2. CASE L # G
    BY <1>1, <2>2 DEF LayerTotal
  <2> QED BY <2>1, <2>2
<1>7. L \in 0..L
  BY <1>1
<1> HIDE DEF f, g
<1>8. \A k \in 1..L : g[k - 1] + f[k] <= g[k]
  <2>1. \A k \in 1..L : k \in 0..L
    BY <1>1
  <2> QED BY <1>3, <1>5, <2>1
<1>9. SumTo(L, f) = g[L]
  BY <1>1, <1>2, <1>3, <1>4, <1>5, <1>8, SumBound
<1> QED BY <1>3, <1>6, <1>7, <1>9 DEF f

-----------------------------------------------------------------------------
(* Heads dealt to ranks.                                                    *)

\* A product grows with its second factor.
LEMMA ProductGrows ==
  ASSUME NEW m \in Nat, NEW a \in Nat, NEW b \in Nat
  PROVE  /\ m * a \in Nat
         /\ a <= b => m * a <= m * b
         /\ m > 0 /\ a < b => m * a + m <= m * b
<1>1. m * a \in Nat /\ m * b \in Nat
  OBVIOUS
<1>2. ASSUME a <= b PROVE m * a <= m * b
  <2>1. PICK d \in Nat : b = a + d
    <3>1. b - a \in Nat /\ b = a + (b - a)
      BY <1>2
    <3> QED BY <3>1
  <2>2. m * b = m * a + m * d /\ m * d \in Nat
    BY <2>1
  <2> QED BY <1>1, <2>2
<1>3. ASSUME m > 0, a < b PROVE m * a + m <= m * b
  <2>1. PICK d \in Nat : b = a + 1 + d
    <3>1. b - a - 1 \in Nat /\ b = a + 1 + (b - a - 1)
      BY <1>3
    <3> QED BY <3>1
  <2>2. m * b = m * a + m + m * d /\ m * d \in Nat
    BY <2>1
  <2> QED BY <1>1, <2>2
<1> QED BY <1>1, <1>2, <1>3

\* Division with remainder.
LEMMA Division ==
  ASSUME NEW a \in Nat, NEW m \in Nat, m > 0
  PROVE  /\ a \div m \in Nat /\ a % m \in 0..m - 1
         /\ a = m * (a \div m) + (a % m)
OBVIOUS

LEMMA DivisionUnique ==
  ASSUME NEW a \in Nat, NEW m \in Nat, m > 0, NEW q \in Nat, NEW b \in 0..m - 1,
         a = m * q + b
  PROVE  a \div m = q /\ a % m = b
<1> DEFINE p == a \div m
           c == a % m
<1>1. p \in Nat /\ c \in 0..m - 1 /\ a = m * p + c
  BY Division
<1> HIDE DEF p, c
<1>2. /\ m * p \in Nat /\ m * q \in Nat
      /\ p < q => m * p + m <= m * q
      /\ q < p => m * q + m <= m * p
  BY <1>1, ProductGrows
<1> DEFINE x == m * p
           y == m * q
<1>3. /\ x \in Nat /\ y \in Nat /\ (p < q => x + m <= y) /\ (q < p => y + m <= x)
      /\ x + c = y + b
  BY <1>1, <1>2
<1>4. p = q => x = y
  OBVIOUS
<1> HIDE DEF x, y
<1>5. ~(p < q) /\ ~(q < p)
  BY <1>1, <1>3
<1>6. p = q
  BY <1>1, <1>5
<1> QED BY <1>1, <1>3, <1>4, <1>6 DEF p, c

\* The share a rank holds: never more than the heads over the ranks rounded up, exactly that
\* when they divide, and at most one when there are fewer heads than ranks.
LEMMA Share ==
  ASSUME NEW heads \in Nat, heads > 0, NEW m \in Nat, m > 0, NEW r \in 0..m - 1
  PROVE  LET count == Cardinality({h \in 1..heads : h % m = r})
             most == (heads + m - 1) \div m
         IN  /\ count \in Nat /\ most \in Nat /\ most > 0 /\ count <= most
             /\ heads % m = 0 => count = most
             /\ heads < m => most = 1
<1> DEFINE S == {h \in 1..heads : h % m = r}
           most == (heads + m - 1) \div m
           back == (heads - 1) \div m
           T == 1..most
           turn(h) == (h - 1) \div m
           f == [h \in S |-> turn(h) + 1]
<1>1. heads - 1 \in Nat /\ heads + m - 1 \in Nat
  OBVIOUS
<1>2. back \in Nat /\ ((heads - 1) % m) \in 0..m - 1 /\ heads - 1 = m * back + ((heads - 1) % m)
  BY <1>1, Division
<1>3. most = back + 1
  <2>1. heads + m - 1 = m * (back + 1) + ((heads - 1) % m) /\ back + 1 \in Nat
    <3> DEFINE y == m * back
    <3>1. m * (back + 1) = y + m /\ y \in Nat
      BY <1>2
    <3>2. heads - 1 = y + ((heads - 1) % m)
      BY <1>2
    <3> HIDE DEF y, back
    <3> QED BY <1>2, <3>1, <3>2
  <2> QED BY <1>1, <1>2, <2>1, DivisionUnique
<1> HIDE DEF most, back
<1>4. ASSUME NEW h \in S
      PROVE  /\ h \in Nat /\ h - 1 \in Nat /\ turn(h) \in Nat
             /\ ((h - 1) % m) \in 0..m - 1 /\ h - 1 = m * turn(h) + ((h - 1) % m)
             /\ h \div m \in Nat /\ h = m * (h \div m) + r
  <2>1. h \in Nat /\ h - 1 \in Nat /\ h % m = r
    OBVIOUS
  <2> QED BY <2>1, Division
<1>5. \A h \in S : turn(h) \in 0..back
  <2> SUFFICES ASSUME NEW h \in S, turn(h) > back PROVE FALSE
    BY <1>2, <1>4
  <2> DEFINE t == turn(h)
             x == m * t
             y == m * back
  <2>1. t \in Nat /\ y + m <= x /\ x \in Nat /\ y \in Nat
    BY <1>2, <1>4, ProductGrows
  <2>2. h - 1 = x + ((h - 1) % m) /\ heads - 1 = y + ((heads - 1) % m) /\ h <= heads
    BY <1>2, <1>4
  <2> HIDE DEF x, y, t
  <2> QED BY <1>2, <1>4, <2>1, <2>2
<1>6. f \in [S -> T]
  BY <1>2, <1>3, <1>5 DEF T
<1>7. \A g, h \in S : turn(g) = turn(h) => g = h
  <2> SUFFICES \A g, h \in S : turn(g) = turn(h) => ~(g < h)
    <3>1. \A g \in S : g \in Nat
      BY <1>4
    <3> HIDE DEF S, turn
    <3> QED BY <3>1
  <2> TAKE g, h \in S
  <2> SUFFICES ASSUME turn(g) = turn(h), g < h PROVE FALSE
    OBVIOUS
  <2> DEFINE c == g \div m
             d == h \div m
             x == m * c
             y == m * d
             z == m * turn(g)
  <2>1. /\ c \in Nat /\ d \in Nat /\ g = x + r /\ h = y + r
        /\ g - 1 = z + ((g - 1) % m) /\ h - 1 = z + ((h - 1) % m)
    BY <1>4
  <2>2. /\ x \in Nat /\ y \in Nat /\ z \in Nat /\ (d <= c => y <= x) /\ (c < d => x + m <= y)
    BY <1>4, <2>1, ProductGrows
  <2> HIDE DEF c, d, x, y, z
  <2> QED BY <1>4, <2>1, <2>2
<1>8. f \in Injection(S, T)
  <2>1. \A g, h \in S : f[g] = f[h] => turn(g) = turn(h)
    <3> SUFFICES ASSUME NEW g \in S, NEW h \in S, f[g] = f[h] PROVE turn(g) = turn(h)
      OBVIOUS
    <3>1. turn(g) \in Nat /\ turn(h) \in Nat /\ turn(g) + 1 = turn(h) + 1
      BY <1>4
    <3> QED BY <3>1
  <2> HIDE DEF f
  <2> QED BY <1>6, <1>7, <2>1 DEF Injection, IsInjective
<1>9. IsFiniteSet(T) /\ Cardinality(T) = most /\ most \in Nat /\ most > 0
  BY <1>2, <1>3, FS_Interval
<1>10. IsFiniteSet(S) /\ Cardinality(S) \in Nat /\ Cardinality(S) <= most
  <2> HIDE DEF f, S, T
  <2> QED BY <1>8, <1>9, FS_Injection, FS_CardinalityType
<1>11. ASSUME heads % m = 0 PROVE Cardinality(S) = most
  <2>1. PICK k \in Nat : heads = m * k
    BY <1>11, Division
  <2>2. most = k
    <3>1. heads + m - 1 = m * k + (m - 1) /\ m - 1 \in 0..m - 1
      BY <2>1
    <3> QED BY <1>1, <3>1, DivisionUnique DEF most
  <2>3. ASSUME NEW y \in T PROVE \E h \in S : f[h] = y
    <3> DEFINE low == m * (y - 1)
               rest == IF r = 0 THEN m ELSE r
               h == low + rest
    <3>1. y \in Nat /\ y - 1 \in Nat /\ low \in Nat /\ m * y = low + m /\ m * y <= m * k
      BY <2>2, ProductGrows DEF T
    <3>2. rest \in 1..m /\ rest - 1 \in 0..m - 1
      OBVIOUS
    <3>3. h \in 1..heads
      <4> HIDE DEF low, rest
      <4>1. h <= low + m
        BY <3>1, <3>2
      <4> QED BY <2>1, <3>1, <3>2, <4>1
    <3>4. h % m = r
      <4>1. CASE r = 0
        <5>1. h = m * y + 0 /\ 0 \in 0..m - 1 /\ h \in Nat
          BY <3>1, <3>3, <4>1
        <5> HIDE DEF h
        <5> QED BY <3>1, <4>1, <5>1, DivisionUnique
      <4>2. CASE r # 0
        <5>1. h = m * (y - 1) + r /\ h \in Nat
          BY <3>1, <3>3, <4>2
        <5> HIDE DEF h
        <5> QED BY <3>1, <5>1, DivisionUnique
      <4> QED BY <4>1, <4>2
    <3>5. turn(h) = y - 1
      <4>1. h - 1 = m * (y - 1) + (rest - 1) /\ h - 1 \in Nat
        <5> HIDE DEF rest
        <5> QED BY <3>1, <3>2, <3>3
      <4> HIDE DEF h, rest
      <4> QED BY <3>1, <3>2, <4>1, DivisionUnique
    <3> HIDE DEF h
    <3>6. h \in S
      BY <3>3, <3>4
    <3>7. f[h] = y
      BY <3>1, <3>5, <3>6
    <3> QED BY <3>6, <3>7
  <2>4. f \in Surjection(S, T)
    <3> HIDE DEF f, S, T
    <3> QED BY <1>6, <2>3 DEF Surjection
  <2> HIDE DEF f, S, T
  <2> QED BY <1>8, <1>9, <2>4, FS_Injection
<1>12. ASSUME heads < m PROVE most = 1
  <2>1. heads + m - 1 = m * 1 + (heads - 1) /\ heads - 1 \in 0..m - 1
    BY <1>12
  <2> QED BY <1>1, <2>1, DivisionUnique DEF most
<1> HIDE DEF S
<1> QED BY <1>9, <1>10, <1>11, <1>12 DEF S, most

\* Heads priced by kv_bytes_per_token: those of a rank, on every rank.
Priced == dep.width * kv_heads_per_rank[1]

\* The estimate never prices fewer heads than the ranks hold, and prices exactly those where
\* they divide over the ranks.
LEMMA HeadsPriced ==
  ASSUME Typed
  PROVE  /\ kv_heads_per_rank = <<kv_heads_per_rank[1], 1>>
         /\ kv_heads_per_rank[1] \in Nat /\ kv_heads_per_rank[1] > 0
         /\ HeadCopies \in Nat /\ HeadCopies <= Priced
         /\ HeadsDivide => HeadCopies = Priced
<1> DEFINE m == dep.width
           heads == dep.heads
           most == (heads + m - 1) \div m
           each == kv_heads_per_rank[1]
           count(rank) == Cardinality({h \in 1..heads : h % m = rank - 1})
           f == [rank \in 1..m |-> HeadsOn(rank)]
           g == [rank \in 0..m |-> rank * each]
<1>1. heads \in Nat /\ heads > 0 /\ m \in Nat /\ m > 0
  BY Types
<1>2. \A rank \in 1..m :
        /\ count(rank) \in Nat /\ most \in Nat /\ most > 0 /\ count(rank) <= most
        /\ heads % m = 0 => count(rank) = most
        /\ heads < m => most = 1
  <2> SUFFICES ASSUME NEW rank \in 1..m
               PROVE  /\ count(rank) \in Nat /\ most \in Nat /\ most > 0 /\ count(rank) <= most
                      /\ heads % m = 0 => count(rank) = most
                      /\ heads < m => most = 1
    OBVIOUS
  <2>1. rank - 1 \in 0..m - 1
    BY <1>1
  <2> HIDE DEF heads, m
  <2> QED BY <1>1, <2>1, Share
<1>3. most \in Nat /\ most > 0
  <2>1. 1 \in 1..m
    BY <1>1
  <2> QED BY <1>2, <2>1
<1>4. kv_heads_per_rank = <<most, 1>> /\ each = most
  <2>1. Max({1, most}) = most
    BY <1>3, MaxOfTwo
  <2> QED BY <2>1 DEF kv_heads_per_rank
<1>5. \A rank \in 1..m : HeadsOn(rank) = IF 1 >= count(rank) THEN 1 ELSE count(rank)
  <2> SUFFICES ASSUME NEW rank \in 1..m
               PROVE  HeadsOn(rank) = IF 1 >= count(rank) THEN 1 ELSE count(rank)
    OBVIOUS
  <2>1. HeadsOn(rank) = Max({1, count(rank)}) /\ count(rank) \in Int
    BY <1>2 DEF HeadsOn
  <2> HIDE DEF count
  <2> QED BY <2>1, MaxOfTwo
<1> HIDE DEF count, most
<1>6. \A rank \in 1..m : f[rank] \in Nat /\ f[rank] <= each /\ (HeadsDivide => f[rank] = each)
  BY <1>2, <1>3, <1>4, <1>5 DEF HeadsDivide
<1> HIDE DEF f, each
<1>7. /\ g[0] = 0 /\ g[m] = m * each /\ \A rank \in 0..m : g[rank] \in Nat
      /\ \A rank \in 1..m : g[rank - 1] + each = g[rank]
  <2>1. \A rank \in 0..m : g[rank] = rank * each /\ rank * each \in Nat
    BY <1>3, <1>4
  <2>2. 0 \in 0..m /\ m \in 0..m /\ \A rank \in 1..m : rank \in 0..m /\ rank - 1 \in 0..m
    BY <1>1
  <2>3. \A rank \in 1..m : (rank - 1) * each + each = rank * each
    <3>1. \A rank \in 1..m : rank \in Nat /\ rank > 0
      BY <1>1
    <3> QED BY <1>3, <1>4, <3>1, NextRow
  <2>4. 0 * each = 0
    BY <1>3, <1>4
  <2> HIDE DEF g
  <2> QED BY <2>1, <2>2, <2>3, <2>4
<1> HIDE DEF g
<1>8. \A rank \in 1..m : /\ g[rank - 1] + f[rank] <= g[rank]
                         /\ HeadsDivide => g[rank - 1] + f[rank] = g[rank]
  <2>1. \A rank \in 1..m : g[rank - 1] \in Nat /\ g[rank] \in Nat
    <3>1. \A rank \in 1..m : rank \in 0..m /\ rank - 1 \in 0..m
      BY <1>1
    <3> QED BY <1>7, <3>1
  <2> QED BY <1>3, <1>4, <1>6, <1>7, <2>1
<1>9. /\ SumTo(m, f) \in Nat /\ SumTo(m, f) <= g[m]
      /\ (\A rank \in 1..m : g[rank - 1] + f[rank] = g[rank]) => SumTo(m, f) = g[m]
  BY <1>1, <1>6, <1>7, <1>8, SumBound
<1>10. HeadCopies = SumTo(m, f) /\ Priced = g[m]
  BY <1>7 DEF HeadCopies, Priced, f, each
<1> QED BY <1>3, <1>4, <1>8, <1>9, <1>10 DEF each

\* One session's KV: the product of heads and layers, in the code's estimate and in the sum.
LEMMA SessionPriced ==
  ASSUME Typed
  PROVE  /\ SessionBytes \in Nat /\ Priced \in Nat /\ Priced > 0 /\ LayerTotal \in Nat
         /\ SessionBytes <= Priced * LayerTotal
         /\ HeadsDivide => SessionBytes = Priced * LayerTotal
<1> DEFINE each == kv_heads_per_rank[1]
<1>1. /\ HeadCopies \in Nat /\ HeadCopies <= Priced /\ (HeadsDivide => HeadCopies = Priced)
      /\ each \in Nat /\ each > 0
  BY HeadsPriced
<1>2. LayerTotal \in Nat /\ SessionBytes = HeadCopies * LayerTotal
  BY LayersHold DEF SessionBytes
<1>3. Priced \in Nat /\ Priced > 0
  <2>1. dep.width \in Nat /\ dep.width > 0
    BY Types
  <2> HIDE DEF each
  <2>2. Priced = dep.width * each
    BY DEF Priced, each
  <2>3. dep.width * 1 <= dep.width * each /\ dep.width * each \in Nat
    BY <1>1, <2>1, ProductGrows
  <2> QED BY <2>1, <2>2, <2>3
<1>4. /\ LayerTotal * HeadCopies <= LayerTotal * Priced /\ LayerTotal * HeadCopies \in Nat
  BY <1>1, <1>2, <1>3, ProductGrows
<1>5. LayerTotal * HeadCopies = HeadCopies * LayerTotal /\ LayerTotal * Priced = Priced * LayerTotal
  BY <1>1, <1>2, <1>3
<1> QED BY <1>1, <1>2, <1>3, <1>4, <1>5

-----------------------------------------------------------------------------
(* Exact quantities.                                                        *)

\* A positive factor of both sides goes.
LEMMA Cancel ==
  ASSUME NEW z \in Nat, z > 0, NEW a \in Nat, NEW b \in Nat
  PROVE  z * a <= z * b <=> a <= b
<1>1. /\ z * a \in Nat /\ z * b \in Nat
      /\ a <= b => z * a <= z * b
      /\ b < a => z * b + z <= z * a
  BY ProductGrows
<1> QED BY <1>1

Quantity == {q \in Nat \X Nat : q[2] > 0} \cup {Infinite}

LEMMA LeqTotal ==
  ASSUME NEW a \in Quantity, NEW b \in Quantity
  PROVE  Leq(a, b) \/ Leq(b, a)
<1>1. a[1] \in Nat /\ a[2] \in Nat /\ b[1] \in Nat /\ b[2] \in Nat
  BY DEF Quantity, Infinite
<1>2. a[1] * b[2] \in Nat /\ b[1] * a[2] \in Nat
  BY <1>1
<1> QED BY <1>2 DEF Leq

\* Comparing quantities is transitive, infinity included.
LEMMA LeqTransitive ==
  ASSUME NEW a \in Quantity, NEW b \in Quantity, NEW c \in Quantity, Leq(a, b), Leq(b, c)
  PROVE  Leq(a, c)
<1> DEFINE a1 == a[1]
           a2 == a[2]
           b1 == b[1]
           b2 == b[2]
           c1 == c[1]
           c2 == c[2]
<1>1. /\ a1 \in Nat /\ a2 \in Nat /\ b1 \in Nat /\ b2 \in Nat /\ c1 \in Nat /\ c2 \in Nat
      /\ b2 = 0 => b1 = 1
  BY DEF Quantity, Infinite
<1>2. a1 * b2 <= b1 * a2 /\ b1 * c2 <= c1 * b2
  BY DEF Leq
<1> HIDE DEF a1, a2, b1, b2, c1, c2
<1>3. a1 * c2 <= c1 * a2
  <2>1. CASE b2 = 0
    <3>1. c2 = 0
      BY <1>1, <1>2, <2>1
    <3>2. a1 * c2 = 0 /\ c1 * a2 \in Nat
      BY <1>1, <3>1
    <3> QED BY <3>2
  <2>2. CASE b2 > 0
    <3>1. /\ a1 * b2 \in Nat /\ b1 * a2 \in Nat /\ b1 * c2 \in Nat /\ c1 * b2 \in Nat
          /\ a1 * c2 \in Nat /\ c1 * a2 \in Nat
      BY <1>1
    <3>2. c2 * (a1 * b2) <= c2 * (b1 * a2)
      BY <1>1, <1>2, <3>1, ProductGrows
    <3>3. a2 * (b1 * c2) <= a2 * (c1 * b2)
      BY <1>1, <1>2, <3>1, ProductGrows
    <3>4. c2 * (b1 * a2) = a2 * (b1 * c2)
      BY <1>1
    <3>5. c2 * (a1 * b2) = b2 * (a1 * c2) /\ a2 * (c1 * b2) = b2 * (c1 * a2)
      BY <1>1
    <3>6. b2 * (a1 * c2) \in Nat /\ b2 * (c1 * a2) \in Nat /\ a2 * (b1 * c2) \in Nat
      BY <1>1, <3>1
    <3>7. b2 * (a1 * c2) <= b2 * (c1 * a2)
      BY <3>2, <3>3, <3>4, <3>5, <3>6
    <3> QED BY <1>1, <2>2, <3>1, <3>7, Cancel
  <2> QED BY <1>1, <2>1, <2>2
<1> QED BY <1>3 DEF Leq, a1, a2, c1, c2

-----------------------------------------------------------------------------
(* The floors.                                                              *)

\* Users at peak: a count of them, over one or over the seconds of a day.
LEMMA UsersType ==
  ASSUME Typed
  PROVE  /\ Users = <<Users[1], Users[2]>> /\ Users \in Quantity
         /\ Users[1] \in Nat /\ Users[2] \in Nat /\ Users[2] > 0
<1>1. CASE w.concurrent # None
  <2>1. Users = <<w.concurrent, 1>> /\ w.concurrent \in Nat
    BY <1>1, Types DEF Users, peak_concurrent_users
  <2> HIDE DEF Users
  <2> QED BY <2>1 DEF Quantity
<1>2. CASE w.concurrent = None
  <2>1. w.daily \in Nat /\ w.secs \in Nat /\ w.peak \in Nat /\ DayS \in Nat /\ DayS > 0
    BY Types
  <2>2. w.daily * w.secs * w.peak \in Nat
    BY <2>1
  <2>3. Users = <<w.daily * w.secs * w.peak, DayS>>
    BY <1>2 DEF Users, peak_concurrent_users
  <2> HIDE DEF Users
  <2> QED BY <2>1, <2>2, <2>3 DEF Quantity
<1> QED BY <1>1, <1>2

\* A supply over what one unit costs is at least u1 / u2 where u1 units cost no more than u2
\* times the supply; where a unit costs nothing it is infinite, and so is the answer.
LEMMA OverIs ==
  ASSUME NEW s1 \in Nat, NEW s2 \in Nat, s2 > 0, NEW d1 \in Nat, NEW d2 \in Nat, d2 > 0,
         NEW u1 \in Nat, NEW u2 \in Nat, u2 > 0
  PROVE  /\ Over(<<s1, s2>>, <<d1, d2>>) \in Quantity
         /\ Leq(<<u1, u2>>, Over(<<s1, s2>>, <<d1, d2>>))
              <=> u1 * (s2 * d1) <= (s1 * d2) * u2
<1>1. CASE d1 = 0
  <2>1. Over(<<s1, s2>>, <<d1, d2>>) = Infinite
    BY <1>1 DEF Over
  <2>2. Leq(<<u1, u2>>, Infinite)
    BY DEF Leq, Infinite
  <2>3. u1 * (s2 * d1) = 0 /\ (s1 * d2) * u2 \in Nat
    BY <1>1
  <2>4. u1 * (s2 * d1) <= (s1 * d2) * u2
    BY <2>3
  <2> QED BY <2>1, <2>2, <2>4 DEF Quantity
<1>2. CASE d1 # 0
  <2>1. Over(<<s1, s2>>, <<d1, d2>>) = <<s1 * d2, s2 * d1>>
    BY <1>2 DEF Over
  <2>2. s1 * d2 \in Nat /\ s2 * d1 \in Nat /\ s2 * d1 > 0
    <3>1. s2 * 1 <= s2 * d1 /\ s2 * d1 \in Nat
      BY <1>2, ProductGrows
    <3> QED BY <3>1
  <2> QED BY <2>1, <2>2 DEF Leq, Quantity
<1> QED BY <1>1, <1>2

\* What is supplied to n GPUs, less the headroom.
LEMMA UsableIs ==
  ASSUME Typed, NEW s1 \in Nat, NEW s2 \in Nat, s2 > 0, NEW n \in Nat
  PROVE  /\ Usable(<<s1, s2>>, n) = <<s1 * (n * Whole), s2 * headroom>>
         /\ s1 * (n * Whole) \in Nat /\ s2 * headroom \in Nat /\ s2 * headroom > 0
<1>1. Whole \in Nat /\ headroom \in Nat /\ headroom > 0
  BY Types
<1>2. s2 * 1 <= s2 * headroom /\ s2 * headroom \in Nat
  BY <1>1, ProductGrows
<1>3. n * Whole \in Nat /\ s1 * (n * Whole) \in Nat
  BY <1>1
<1> QED BY <1>1, <1>2, <1>3 DEF Usable, Times

\* What one user asks for is a finite rate wherever capacity_at does not refuse.
LEMMA PerUserIs ==
  ASSUME Typed, ~Unpriceable
  PROVE  /\ PerUser = <<PerUser[1], PerUser[2]>>
         /\ PerUser[1] \in Nat /\ PerUser[2] \in Nat /\ PerUser[2] > 0
<1> USE DEF PerUser
<1>1. CASE Users[1] = 0
  BY <1>1 DEF Users
<1>2. CASE Users[1] # 0 /\ w.target > 0
  <2>1. w.duty * w.target \in Nat /\ Whole \in Nat /\ Whole > 0
    BY Types
  <2> QED BY <1>2, <2>1 DEF Users
<1>3. CASE Users[1] # 0 /\ ~(w.target > 0)
  <2>1. w.output * w.requests \in Nat /\ w.secs \in Nat /\ w.target = 0
    BY <1>3, Types
  <2>2. w.secs # 0
    BY <1>3, <2>1, UsersType DEF Unpriceable, Users
  <2> QED BY <1>3, <2>1, <2>2 DEF Users
<1> QED BY <1>1, <1>2, <1>3

LEMMA PerUserPrefillIs ==
  ASSUME Typed, ~Unpriceable, dep.prefill # None
  PROVE  /\ PerUserPrefill = <<PerUserPrefill[1], PerUserPrefill[2]>>
         /\ PerUserPrefill[1] \in Nat /\ PerUserPrefill[2] \in Nat /\ PerUserPrefill[2] > 0
<1> USE DEF PerUserPrefill
<1>1. CASE Users[1] = 0
  BY <1>1 DEF Users
<1>2. CASE Users[1] # 0 /\ w.target > 0
  <2>1. /\ w.duty * w.target * w.input \in Nat /\ Whole \in Nat /\ Whole > 0
        /\ w.output \in Nat
    BY Types
  <2>2. w.output > 0
    BY <1>2, <2>1, UsersType DEF Unpriceable, Users
  <2>3. Whole * 1 <= Whole * w.output /\ Whole * w.output \in Nat
    BY <2>1, <2>2, ProductGrows
  <2> QED BY <1>2, <2>1, <2>3 DEF Users
<1>3. CASE Users[1] # 0 /\ ~(w.target > 0)
  <2>1. w.input * w.requests \in Nat /\ w.secs \in Nat /\ w.target = 0
    BY <1>3, Types
  <2>2. w.secs # 0
    BY <1>3, <2>1, UsersType DEF Unpriceable, Users
  <2> QED BY <1>3, <2>1, <2>2 DEF Users
<1> QED BY <1>1, <1>2, <1>3

\* A rate floor: so many users ask for no more than the GPUs answer.
LEMMA RateFloorIs ==
  ASSUME Typed, NEW rate \in Nat, NEW n \in Nat, NEW p \in Nat, NEW q \in Nat, q > 0,
         NEW u1 \in Nat, NEW u2 \in Nat, u2 > 0
  PROVE  /\ Over(Usable(<<rate, 1>>, n), <<p, q>>) \in Quantity
         /\ Leq(<<u1, u2>>, Over(Usable(<<rate, 1>>, n), <<p, q>>))
              <=> u1 * p * headroom <= u2 * Whole * rate * n * q
<1>1. Whole \in Nat /\ headroom \in Nat
  BY Types
<1>2. /\ Usable(<<rate, 1>>, n) = <<rate * (n * Whole), 1 * headroom>>
      /\ rate * (n * Whole) \in Nat /\ 1 * headroom \in Nat /\ 1 * headroom > 0
  <2> DEFINE one == 1
  <2>1. one \in Nat /\ one > 0
    OBVIOUS
  <2> HIDE DEF one
  <2>2. /\ Usable(<<rate, one>>, n) = <<rate * (n * Whole), one * headroom>>
        /\ rate * (n * Whole) \in Nat /\ one * headroom \in Nat /\ one * headroom > 0
    BY <2>1, UsableIs
  <2> QED BY <2>2 DEF one
<1> DEFINE s1 == rate * (n * Whole)
           s2 == 1 * headroom
<1>3. /\ u1 * (s2 * p) = u1 * p * headroom
      /\ (s1 * q) * u2 = u2 * Whole * rate * n * q
  BY <1>1
<1>4. Usable(<<rate, 1>>, n) = <<s1, s2>> /\ s1 \in Nat /\ s2 \in Nat /\ s2 > 0
  BY <1>2
<1> HIDE DEF s1, s2
<1>5. /\ Over(<<s1, s2>>, <<p, q>>) \in Quantity
      /\ Leq(<<u1, u2>>, Over(<<s1, s2>>, <<p, q>>)) <=> u1 * (s2 * p) <= (s1 * q) * u2
  BY <1>4, OverIs
<1> QED BY <1>3, <1>4, <1>5

LEMMA ThroughputFloorIs ==
  ASSUME Typed, ~Unpriceable, NEW n \in Nat, NEW u1 \in Nat, NEW u2 \in Nat, u2 > 0
  PROVE  /\ ThroughputFloor(n) \in Quantity
         /\ Leq(<<u1, u2>>, ThroughputFloor(n))
              <=> u1 * PerUser[1] * headroom <= u2 * Whole * dep.tok * n * PerUser[2]
<1>1. dep.tok \in Nat
  BY Types
<1> QED BY <1>1, PerUserIs, RateFloorIs DEF ThroughputFloor

LEMMA PrefillFloorIs ==
  ASSUME Typed, ~Unpriceable, NEW n \in Nat, NEW u1 \in Nat, NEW u2 \in Nat, u2 > 0
  PROVE  /\ PrefillFloor(n) \in Quantity
         /\ dep.prefill # None =>
              (Leq(<<u1, u2>>, PrefillFloor(n))
                 <=> u1 * PerUserPrefill[1] * headroom
                       <= u2 * Whole * dep.prefill * n * PerUserPrefill[2])
         /\ dep.prefill = None => Leq(<<u1, u2>>, PrefillFloor(n))
<1>1. CASE dep.prefill = None
  <2>1. PrefillFloor(n) = Infinite
    BY <1>1 DEF PrefillFloor
  <2>2. Leq(<<u1, u2>>, Infinite)
    BY DEF Leq, Infinite
  <2> QED BY <1>1, <2>1, <2>2 DEF Quantity
<1>2. CASE dep.prefill # None
  <2>1. dep.prefill \in Nat
    BY <1>2, Types
  <2> QED BY <1>2, <2>1, PerUserPrefillIs, RateFloorIs DEF PrefillFloor
<1> QED BY <1>1, <1>2

\* The KV comparison, in numbers: m GPUs to a replica, L layers, F1 / F2 of them held at a
\* context of c half tokens, T half tokens over the layers.
LEMMA KvAlgebra ==
  ASSUME NEW L \in Nat, NEW m \in Nat, m > 0, NEW F1 \in Nat, NEW F2 \in Nat, F2 > 0,
         NEW each \in Nat, NEW pool \in Nat, NEW r \in Nat, NEW W \in Nat, NEW H \in Nat,
         NEW c \in Nat, NEW R \in Nat, NEW T \in Nat, NEW u1 \in Nat, NEW u2 \in Nat,
         L * c * F1 = F2 * T
  PROVE  u1 * ((((m * ((2 * L * m) * (F1 * each))) * H) * c) * R)
           <= (((((pool * (1 * (F2 * 1))) * ((r * m) * W)) * 2)) * W) * u2
         <=> u1 * R * H * ((m * each) * T) <= u2 * W * W * (r * pool)
<1> DEFINE z == 2 * m * F2
           a == u1 * R * H * ((m * each) * T)
           b == u2 * W * W * (r * pool)
           left == u1 * ((((m * ((2 * L * m) * (F1 * each))) * H) * c) * R)
           right == (((((pool * (1 * (F2 * 1))) * ((r * m) * W)) * 2)) * W) * u2
<1>1. left = (2 * m * u1 * R * H * m * each) * (L * c * F1)
  OBVIOUS
<1>2. (2 * m * u1 * R * H * m * each) * (F2 * T) = z * a
  OBVIOUS
<1>3. right = z * b
  OBVIOUS
<1>4. a \in Nat /\ b \in Nat
  OBVIOUS
<1>5. z \in Nat /\ z > 0
  <2>1. (2 * m) * 1 <= (2 * m) * F2 /\ (2 * m) * F2 \in Nat /\ 2 * m > 0
    <3>1. 2 * m \in Nat /\ 2 * m > 0
      OBVIOUS
    <3> QED BY <3>1, ProductGrows
  <2> QED BY <2>1
<1>6. left = z * a
  BY <1>1, <1>2
<1> HIDE DEF z, a, b, left, right
<1>7. z * a <= z * b <=> a <= b
  BY <1>4, <1>5, Cancel
<1>8. left <= right <=> a <= b
  BY <1>3, <1>6, <1>7
<1> QED BY <1>8 DEF a, b, left, right

\* The KV one token costs, over the layers that keep it at this context.
LEMMA TokenPriced ==
  ASSUME Typed, Context > 0
  PROVE  \E F1, F2 \in Nat :
           /\ F1 > 0 /\ F2 > 0 /\ dep.layers * Context * F1 = F2 * LayerTotal
           /\ kv_bytes_per_token
                = <<(2 * dep.layers * dep.width) * (F1 * kv_heads_per_rank[1]), 1 * (F2 * 1)>>
<1> DEFINE L == dep.layers
           G == dep.global
           F1 == effective_layer_frac[1]
           F2 == effective_layer_frac[2]
<1>1. /\ L \in Nat /\ L > 0 /\ G \in Nat /\ G > 0 /\ G <= L /\ Context \in Nat
      /\ Windowed \in Nat /\ LayerTotal = G * Context + (L - G) * Windowed
  BY Types, ContextIs, WindowedIs DEF LayerTotal
<1>2. kv_heads_per_rank = <<kv_heads_per_rank[1], 1>>
  BY HeadsPriced
<1>3. CASE dep.window = None
  <2>1. effective_layer_frac = <<1, 1>> /\ Windowed = Context
    BY <1>3 DEF effective_layer_frac, Windowed
  <2>2. L * Context * 1 = 1 * LayerTotal
    <3>1. PICK d \in Nat : L = G + d
      <4>1. L - G \in Nat /\ L = G + (L - G)
        BY <1>1
      <4> QED BY <4>1
    <3>2. L - G = d
      BY <1>1, <3>1
    <3>3. (G + d) * Context = G * Context + d * Context
      BY <1>1, <3>1
    <3> HIDE DEF L, G
    <3> QED BY <1>1, <2>1, <3>1, <3>2, <3>3
  <2>3. kv_bytes_per_token = <<(2 * L * dep.width) * (1 * kv_heads_per_rank[1]), 1 * (1 * 1)>>
    BY <1>2, <2>1 DEF kv_bytes_per_token, Times
  <2>4. 1 \in Nat /\ 1 > 0
    OBVIOUS
  <2> QED BY <2>2, <2>3, <2>4
<1>4. CASE dep.window # None
  <2>1. effective_layer_frac = <<LayerTotal, L * Context>>
    BY <1>4 DEF effective_layer_frac, Windowed, LayerTotal, Context
  <2>2. L * Context \in Nat /\ L * Context > 0
    <3>1. L * 1 <= L * Context /\ L * Context \in Nat
      BY <1>1, ProductGrows
    <3> QED BY <1>1, <3>1
  <2>3. LayerTotal \in Nat /\ LayerTotal > 0
    <3>1. G * 1 <= G * Context /\ G * Context \in Nat
      BY <1>1, ProductGrows
    <3>2. L - G \in Nat
      BY <1>1
    <3>3. (L - G) * Windowed \in Nat
      BY <1>1, <3>2
    <3> QED BY <1>1, <3>1, <3>3
  <2>4. kv_bytes_per_token
          = <<(2 * L * dep.width) * (LayerTotal * kv_heads_per_rank[1]), 1 * ((L * Context) * 1)>>
    BY <1>2, <2>1 DEF kv_bytes_per_token, Times
  <2> QED BY <2>2, <2>3, <2>4
<1> QED BY <1>3, <1>4

LEMMA PoolType == Typed => kv_pool_bytes \in Nat
<1> SUFFICES ASSUME Typed PROVE kv_pool_bytes \in Nat
  OBVIOUS
<1>1. 0 \in Int /\ dep.width * dep.vram - dep.weights \in Int
  BY Types
<1> QED BY <1>1, MaxOfTwo DEF kv_pool_bytes

LEMMA ResidencyType == Typed => Residency \in Nat
BY Types DEF Residency

\* The KV floor: so many users need no more memory than the pools of r replicas hold, at the
\* estimate's price of a session.
LEMMA KvFloorIs ==
  ASSUME Typed, ~Unpriceable, NEW r \in Nat, NEW u1 \in Nat, NEW u2 \in Nat, u2 > 0
  PROVE  /\ KvFloor(r * dep.width) \in Quantity
         /\ Leq(<<u1, u2>>, KvFloor(r * dep.width))
              <=> u1 * Residency * headroom * (Priced * LayerTotal)
                    <= u2 * Whole * Whole * (r * kv_pool_bytes)
<1> DEFINE L == dep.layers
           m == dep.width
           each == kv_heads_per_rank[1]
           pool == kv_pool_bytes
           W == Whole
           H == headroom
           c == Context
           R == Residency
           T == LayerTotal
<1>1. /\ L \in Nat /\ L > 0 /\ m \in Nat /\ m > 0 /\ each \in Nat /\ each > 0 /\ pool \in Nat
      /\ W \in Nat /\ W > 0 /\ H \in Nat /\ H > 0 /\ R \in Nat /\ T \in Nat
  BY Types, HeadsPriced, PoolType, ResidencyType, LayersHold
<1>2. c \in Nat /\ c > 0 /\ avg_context_tokens = <<c, 2>>
  BY ContextIs DEF Unpriceable, Context
<1>3. PICK F1 \in Nat, F2 \in Nat :
        /\ F1 > 0 /\ F2 > 0 /\ L * c * F1 = F2 * T
        /\ kv_bytes_per_token = <<(2 * L * m) * (F1 * each), 1 * (F2 * 1)>>
  BY <1>2, TokenPriced
<1>4. KvFloor(r * m) = Over(Over(Usable(Over(<<pool, m>>, kv_bytes_per_token), r * m),
                                 avg_context_tokens), <<R, W>>)
  BY DEF KvFloor, KvTokensPerGpu
<1>5. Priced = m * each
  BY DEF Priced
<1> HIDE DEF L, m, each, pool, W, c, R, T
<1> DEFINE k1 == (2 * L * m) * (F1 * each)
           k2 == 1 * (F2 * 1)
           s1 == pool * k2
           s2 == m * k1
           t1 == s1 * ((r * m) * W)
           t2 == s2 * H
           v1 == t1 * 2
           v2 == t2 * c
<1>6. k1 \in Nat /\ k1 > 0 /\ k2 \in Nat /\ k2 > 0
  <2>1. L * 1 <= L * m /\ L * m \in Nat /\ F1 * 1 <= F1 * each /\ F1 * each \in Nat
    BY <1>1, <1>3, ProductGrows
  <2>2. 2 * L * m \in Nat /\ 2 * L * m > 0 /\ F1 * each > 0
    BY <1>1, <1>3, <2>1
  <2>3. (2 * L * m) * 1 <= (2 * L * m) * (F1 * each) /\ (2 * L * m) * (F1 * each) \in Nat
    BY <2>1, <2>2, ProductGrows
  <2>4. k1 \in Nat /\ k1 > 0
    BY <2>2, <2>3
  <2> QED BY <1>3, <2>4
<1>7. /\ s1 \in Nat /\ s2 \in Nat /\ s2 > 0
      /\ Over(<<pool, m>>, kv_bytes_per_token) = <<s1, s2>>
  <2>1. kv_bytes_per_token = <<k1, k2>>
    BY <1>3
  <2> HIDE DEF k1, k2
  <2>2. m * 1 <= m * k1 /\ m * k1 \in Nat /\ pool * k2 \in Nat
    BY <1>1, <1>6, ProductGrows
  <2> QED BY <1>1, <1>6, <2>1, <2>2 DEF Over
<1>8. /\ t1 \in Nat /\ t2 \in Nat /\ t2 > 0
      /\ Usable(<<s1, s2>>, r * m) = <<t1, t2>>
  <2> HIDE DEF s1, s2
  <2>1. r * m \in Nat
    BY <1>1
  <2>2. /\ Usable(<<s1, s2>>, r * m) = <<s1 * ((r * m) * Whole), s2 * headroom>>
        /\ s1 * ((r * m) * Whole) \in Nat /\ s2 * headroom \in Nat /\ s2 * headroom > 0
    BY <1>7, <2>1, UsableIs
  <2> QED BY <2>2 DEF W
<1>9. /\ v1 \in Nat /\ v2 \in Nat /\ v2 > 0
      /\ Over(<<t1, t2>>, avg_context_tokens) = <<v1, v2>>
  <2> HIDE DEF t1, t2
  <2>1. t2 * 1 <= t2 * c /\ t2 * c \in Nat /\ t1 * 2 \in Nat
    BY <1>2, <1>8, ProductGrows
  <2> QED BY <1>2, <1>8, <2>1 DEF Over
<1>10. KvFloor(r * m) = Over(<<v1, v2>>, <<R, W>>)
  <2> HIDE DEF s1, s2, t1, t2, v1, v2
  <2> QED BY <1>4, <1>7, <1>8, <1>9
<1>11. /\ KvFloor(r * m) \in Quantity
       /\ Leq(<<u1, u2>>, KvFloor(r * m)) <=> u1 * (v2 * R) <= (v1 * W) * u2
  <2> HIDE DEF v1, v2
  <2> QED BY <1>1, <1>9, <1>10, OverIs
<1>12. u1 * (v2 * R) <= (v1 * W) * u2
         <=> u1 * R * H * ((m * each) * T) <= u2 * W * W * (r * pool)
  <2>1. u1 * ((((m * ((2 * L * m) * (F1 * each))) * H) * c) * R)
           <= (((((pool * (1 * (F2 * 1))) * ((r * m) * W)) * 2)) * W) * u2
         <=> u1 * R * H * ((m * each) * T) <= u2 * W * W * (r * pool)
    <3> HIDE DEF H
    <3> QED BY <1>1, <1>2, <1>3, KvAlgebra
  <2> QED BY <2>1
<1> HIDE DEF v1, v2
<1>13. /\ KvFloor(r * m) \in Quantity
       /\ Leq(<<u1, u2>>, KvFloor(r * m))
            <=> u1 * R * H * ((m * each) * T) <= u2 * W * W * (r * pool)
  BY <1>11, <1>12
<1> QED BY <1>5, <1>13 DEF m, pool, W, R, T

\* What capacity_at answers is the floor it names, and no other floor is below it.
LEMMA LowestFloorIs ==
  ASSUME Typed, ~Unpriceable, NEW r \in Nat
  PROVE  LET n == r * dep.width
             lowest == LowestFloor(n)
         IN  /\ \/ lowest = <<"KV", KvFloor(n)>>
                \/ lowest = <<"throughput", ThroughputFloor(n)>>
                \/ lowest = <<"prefill", PrefillFloor(n)>> /\ dep.prefill # None
             /\ lowest[2] \in Quantity
             /\ \A users \in Quantity :
                  Leq(users, lowest[2]) <=> /\ Leq(users, KvFloor(n))
                                            /\ Leq(users, ThroughputFloor(n))
                                            /\ Leq(users, PrefillFloor(n))
<1> DEFINE n == r * dep.width
           kv == KvFloor(n)
           rate == ThroughputFloor(n)
           prompt == PrefillFloor(n)
           lowest == LowestFloor(n)
<1>1. n \in Nat
  BY Types
<1>2. kv \in Quantity /\ rate \in Quantity /\ prompt \in Quantity
  <2>1. 1 \in Nat /\ 1 > 0
    OBVIOUS
  <2> HIDE DEF n, kv, rate, prompt
  <2>2. rate \in Quantity /\ prompt \in Quantity
    BY <1>1, <2>1, ThroughputFloorIs, PrefillFloorIs DEF rate, prompt
  <2> QED BY <2>1, <2>2, KvFloorIs DEF kv, n
<1>3. dep.prefill = None => prompt = Infinite
  BY DEF PrefillFloor
<1>4. \A q \in Quantity : Leq(q, Infinite)
  BY DEF Leq, Infinite, Quantity
<1>5. lowest = IF Leq(kv, rate) /\ Leq(kv, prompt) THEN <<"KV", kv>>
               ELSE IF Leq(rate, prompt) THEN <<"throughput", rate>> ELSE <<"prefill", prompt>>
  BY DEF LowestFloor
<1> HIDE DEF kv, rate, prompt, lowest
<1>6. /\ Leq(kv, rate) \/ Leq(rate, kv)
      /\ Leq(kv, prompt) \/ Leq(prompt, kv)
      /\ Leq(rate, prompt) \/ Leq(prompt, rate)
  BY <1>2, LeqTotal
<1>7. \A a, b, c \in Quantity : Leq(a, b) /\ Leq(b, c) => Leq(a, c)
  BY LeqTransitive
<1>8. /\ \/ lowest = <<"KV", kv>>
         \/ lowest = <<"throughput", rate>>
         \/ lowest = <<"prefill", prompt>> /\ dep.prefill # None
      /\ lowest[2] \in {kv, rate, prompt}
      /\ Leq(lowest[2], kv) /\ Leq(lowest[2], rate) /\ Leq(lowest[2], prompt)
  <2>1. CASE Leq(kv, rate) /\ Leq(kv, prompt)
    <3>1. lowest = <<"KV", kv>> /\ lowest[2] = kv
      BY <1>5, <2>1
    <3>2. Leq(kv, kv)
      BY <1>2, LeqTotal
    <3> QED BY <2>1, <3>1, <3>2
  <2>2. CASE ~(Leq(kv, rate) /\ Leq(kv, prompt)) /\ Leq(rate, prompt)
    <3>1. lowest = <<"throughput", rate>> /\ lowest[2] = rate
      BY <1>5, <2>2
    <3>2. Leq(rate, rate)
      BY <1>2, LeqTotal
    <3>3. Leq(rate, kv)
      BY <1>2, <1>6, <1>7, <2>2
    <3> QED BY <2>2, <3>1, <3>2, <3>3
  <2>3. CASE ~(Leq(kv, rate) /\ Leq(kv, prompt)) /\ ~Leq(rate, prompt)
    <3>1. lowest = <<"prefill", prompt>> /\ lowest[2] = prompt
      BY <1>5, <2>3
    <3>2. Leq(prompt, prompt) /\ Leq(prompt, rate)
      BY <1>2, <1>6, <2>3, LeqTotal
    <3>3. Leq(prompt, kv)
      BY <1>2, <1>6, <1>7, <2>3, <3>2
    <3>4. dep.prefill # None
      BY <1>2, <1>3, <1>4, <2>3
    <3> QED BY <3>1, <3>2, <3>3, <3>4
  <2> QED BY <2>1, <2>2, <2>3
<1>9. lowest[2] \in Quantity
  BY <1>2, <1>8
<1>10. \A users \in Quantity : Leq(users, lowest[2]) <=> /\ Leq(users, kv) /\ Leq(users, rate)
                                                         /\ Leq(users, prompt)
  BY <1>2, <1>7, <1>8, <1>9
<1> QED BY <1>8, <1>9, <1>10 DEF kv, rate, prompt, lowest

\* Both rate floors clear the users at peak exactly where what they ask for in w.secs is
\* answered.
LEMMA RatesAre ==
  ASSUME Typed, ~Unpriceable, NEW n \in Nat
  PROVE  Leq(Users, ThroughputFloor(n)) /\ Leq(Users, PrefillFloor(n)) <=> RatesHold(n)
<1> DEFINE u1 == Users[1]
           u2 == Users[2]
           H == headroom
           W == Whole
           tok == dep.tok
           pre == dep.prefill
           p == PerUser[1]
           q == PerUser[2]
           pp == PerUserPrefill[1]
           pq == PerUserPrefill[2]
<1>1. Users = <<u1, u2>> /\ u1 \in Nat /\ u2 \in Nat /\ u2 > 0
  BY UsersType
<1>2. Leq(Users, ThroughputFloor(n)) <=> u1 * p * H <= u2 * W * tok * n * q
  <2>1. Leq(<<u1, u2>>, ThroughputFloor(n)) <=> u1 * p * H <= u2 * W * tok * n * q
    BY <1>1, ThroughputFloorIs
  <2> QED BY <1>1, <2>1
<1>3. /\ pre # None => (Leq(Users, PrefillFloor(n)) <=> u1 * pp * H <= u2 * W * pre * n * pq)
      /\ pre = None => Leq(Users, PrefillFloor(n))
  <2>1. /\ pre # None =>
             (Leq(<<u1, u2>>, PrefillFloor(n)) <=> u1 * pp * H <= u2 * W * pre * n * pq)
        /\ pre = None => Leq(<<u1, u2>>, PrefillFloor(n))
    BY <1>1, PrefillFloorIs
  <2> QED BY <1>1, <2>1
<1>4. /\ H \in Nat /\ W \in Nat /\ tok \in Nat /\ (pre # None => pre \in Nat)
      /\ w.duty \in Nat /\ w.target \in Nat /\ w.input \in Nat /\ w.output \in Nat
      /\ w.requests \in Nat /\ w.secs \in Nat
  BY Types
<1>5. CASE u1 = 0
  <2>1. p = 0 /\ q = 1 /\ pp = 0 /\ pq = 1
    BY <1>5 DEF Users, PerUser, PerUserPrefill
  <2>2. /\ u2 * W * tok * n * q \in Nat /\ u1 * p * H = 0
        /\ pre # None => u2 * W * pre * n * pq \in Nat /\ u1 * pp * H = 0
    BY <1>1, <1>4, <1>5, <2>1
  <2>3. RatesHold(n)
    <3>1. /\ u1 * w.requests * w.output * H = 0 /\ u2 * W * tok * n * w.secs \in Nat
          /\ u1 * w.duty * w.target * H = 0 /\ u2 * W * W * tok * n \in Nat
      BY <1>1, <1>4, <1>5
    <3>2. pre # None =>
             /\ u1 * w.requests * w.input * H = 0 /\ u2 * W * pre * n * w.secs \in Nat
             /\ u1 * w.duty * w.target * w.input * H = 0
             /\ u2 * W * W * pre * n * w.output \in Nat
      BY <1>1, <1>4, <1>5
    <3> QED BY <3>1, <3>2 DEF RatesHold
  <2> QED BY <1>2, <1>3, <2>2, <2>3
<1>6. CASE u1 # 0 /\ w.target > 0
  <2>1. p = w.duty * w.target /\ q = W /\ pp = w.duty * w.target * w.input /\ pq = W * w.output
    BY <1>6 DEF Users, PerUser, PerUserPrefill
  <2>2. /\ u1 * p * H = u1 * w.duty * w.target * H
        /\ u2 * W * tok * n * q = u2 * W * W * tok * n
        /\ u1 * pp * H = u1 * w.duty * w.target * w.input * H
    <3> HIDE DEF u1, u2, H, W, tok, p, q, pp
    <3> QED BY <1>1, <1>4, <2>1
  <2>3. pre # None => u2 * W * pre * n * pq = u2 * W * W * pre * n * w.output
    <3> HIDE DEF u1, u2, H, W, pre, pq
    <3> QED BY <1>1, <1>4, <2>1
  <2>4. w.target # 0
    BY <1>4, <1>6
  <2> QED BY <1>2, <1>3, <2>2, <2>3, <2>4 DEF RatesHold
<1>7. CASE u1 # 0 /\ ~(w.target > 0)
  <2>1. w.target = 0
    BY <1>4, <1>7
  <2>2. p = w.output * w.requests /\ q = w.secs /\ pp = w.input * w.requests /\ pq = w.secs
    BY <1>7 DEF Users, PerUser, PerUserPrefill
  <2>3. /\ u1 * p * H = u1 * w.requests * w.output * H
        /\ u1 * pp * H = u1 * w.requests * w.input * H
    <3> HIDE DEF u1, H, p, pp
    <3> QED BY <1>1, <1>4, <2>2
  <2> QED BY <1>2, <1>3, <2>1, <2>2, <2>3 DEF RatesHold
<1> QED BY <1>1, <1>5, <1>6, <1>7

-----------------------------------------------------------------------------
(* The search.                                                              *)

\* So many replicas clear the users at peak on every floor.
Serves(r) == Leq(Users, LowestFloor(r * dep.width)[2])

\* What the search has established: every smaller count was tried and fell short, and the
\* answer, once there is one, is that of the count the search stands at.
SearchInv ==
  /\ Typed
  /\ replicas \in Nat /\ replicas > 0
  /\ \A r \in 1..replicas - 1 : ~Serves(r)
  /\ Sized => /\ ~Unpriceable
              /\ Serves(replicas)
              /\ result = [n_gpus |-> replicas * dep.width,
                           users |-> LowestFloor(replicas * dep.width)[2],
                           binding |-> LowestFloor(replicas * dep.width)[1]]

\* What the floors are computed from does not change.
LEMMA SameInputs ==
  ASSUME UNCHANGED <<w, dep, headroom>>
  PROVE  /\ Typed' = Typed /\ Unpriceable' = Unpriceable
         /\ \A r : Serves(r)' = Serves(r) /\ (LowestFloor(r)' = LowestFloor(r))
<1>1. Typed' = Typed
  BY DEF Typed
<1>2. /\ avg_context_tokens' = avg_context_tokens /\ Users' = Users /\ Residency' = Residency
      /\ peak_concurrent_users' = peak_concurrent_users /\ UsersUnknown' = UsersUnknown
  BY DEF avg_context_tokens, Users, peak_concurrent_users, Residency, UsersUnknown
<1>3. Unpriceable' = Unpriceable
  BY <1>2 DEF Unpriceable
<1>4. PerUser' = PerUser /\ PerUserPrefill' = PerUserPrefill
  BY <1>2 DEF PerUser, PerUserPrefill
<1>5. kv_bytes_per_token' = kv_bytes_per_token
  <2>1. kv_heads_per_rank' = kv_heads_per_rank
    BY DEF kv_heads_per_rank
  <2>2. effective_layer_frac' = effective_layer_frac
    BY <1>2 DEF effective_layer_frac
  <2> QED BY <2>1, <2>2 DEF kv_bytes_per_token, Times
<1>6. KvTokensPerGpu' = KvTokensPerGpu
  BY <1>5 DEF KvTokensPerGpu, kv_pool_bytes, Over, Infinite
<1>7. ASSUME NEW n
      PROVE  /\ KvFloor(n)' = KvFloor(n) /\ ThroughputFloor(n)' = ThroughputFloor(n)
             /\ PrefillFloor(n)' = PrefillFloor(n)
  <2>1. KvFloor(n)' = KvFloor(n)
    BY <1>2, <1>6 DEF KvFloor, Over, Usable, Times, Infinite
  <2>2. ThroughputFloor(n)' = ThroughputFloor(n)
    BY <1>4 DEF ThroughputFloor, Over, Usable, Times, Infinite
  <2>3. PrefillFloor(n)' = PrefillFloor(n)
    BY <1>4 DEF PrefillFloor, Over, Usable, Times, Infinite
  <2> QED BY <2>1, <2>2, <2>3
<1>8. ASSUME NEW n PROVE LowestFloor(n)' = LowestFloor(n)
  BY <1>7 DEF LowestFloor, Leq
<1>9. ASSUME NEW r PROVE Serves(r)' = Serves(r)
  <2>1. LowestFloor(r * dep.width)' = LowestFloor(r * dep.width)
    BY <1>8
  <2> QED BY <1>2, <2>1 DEF Serves, Leq
<1> QED BY <1>1, <1>3, <1>8, <1>9

\* gpus_required tries replica counts in order, answers with the first that clears the users
\* at peak on every floor, and answers nothing on inputs capacity_at refuses.
THEOREM SearchInvariant == SizingSpec => []SearchInv
<1>1. SizingInit => SearchInv
  <2> SUFFICES ASSUME SizingInit PROVE SearchInv
    OBVIOUS
  <2>1. Typed /\ replicas = 1 /\ ~Sized
    BY DEF SizingInit, Typed, Sized
  <2>2. 1..replicas - 1 = {}
    BY <2>1
  <2> QED BY <2>1, <2>2 DEF SearchInv
<1>2. SearchInv /\ [SizingNext]_sizingVars => SearchInv'
  <2> SUFFICES ASSUME SearchInv, [SizingNext]_sizingVars PROVE SearchInv'
    OBVIOUS
  <2>1. UNCHANGED <<w, dep, headroom>>
    BY DEF SizingNext, Refuse, TryReplicas, sizingVars
  <2>2. /\ Typed' = Typed /\ Unpriceable' = Unpriceable
        /\ \A r : Serves(r)' = Serves(r) /\ (LowestFloor(r)' = LowestFloor(r))
    BY <2>1, SameInputs
  <2>3. /\ Typed /\ replicas \in Nat /\ replicas > 0
        /\ \A r \in 1..replicas - 1 : ~Serves(r)
    BY DEF SearchInv
  <2>4. CASE Refuse
    <3>1. replicas' = replicas /\ ~Sized'
      BY <2>4 DEF Refuse, Sized
    <3> QED BY <2>2, <2>3, <3>1 DEF SearchInv
  <2>5. CASE TryReplicas
    <3> DEFINE n == replicas * dep.width
               floor == LowestFloor(n)
    <3>1. /\ result = None /\ ~Unpriceable
          /\ Leq(Users, floor[2])
               => result' = [n_gpus |-> n, users |-> floor[2], binding |-> floor[1]]
                  /\ replicas' = replicas
          /\ ~Leq(Users, floor[2]) => replicas' = replicas + 1 /\ result' = result
      BY <2>5 DEF TryReplicas, Users
    <3>2. Leq(Users, floor[2]) <=> Serves(replicas)
      BY DEF Serves
    <3> HIDE DEF floor
    <3>3. CASE Serves(replicas)
      <4>1. /\ replicas' = replicas
            /\ result' = [n_gpus |-> n, users |-> floor[2], binding |-> floor[1]]
        BY <3>1, <3>2, <3>3
      <4>2. LowestFloor(replicas * dep.width)' = floor
        <5>1. LowestFloor(n)' = floor
          BY <2>1, <2>2, <4>1 DEF floor
        <5> QED BY <5>1
      <4>3. Serves(replicas)'
        <5>1. Serves(replicas)' = Serves(replicas)
          BY <2>2, <4>1 DEF Serves
        <5> QED BY <3>3, <5>1
      <4> QED BY <2>1, <2>2, <2>3, <3>1, <4>1, <4>2, <4>3 DEF SearchInv
    <3>4. CASE ~Serves(replicas)
      <4>1. replicas' = replicas + 1 /\ ~Sized'
        BY <3>1, <3>2, <3>4 DEF Sized
      <4>2. \A r \in 1..replicas' - 1 : ~Serves(r)
        <5>1. \A r \in 1..replicas' - 1 : r \in 1..replicas - 1 \/ r = replicas
          BY <2>3, <4>1
        <5> QED BY <2>3, <3>4, <5>1
      <4> QED BY <2>2, <2>3, <4>1, <4>2 DEF SearchInv
    <3> QED BY <3>3, <3>4
  <2>6. CASE UNCHANGED sizingVars
    <3>1. replicas' = replicas /\ result' = result
      BY <2>6 DEF sizingVars
    <3>2. /\ LowestFloor(replicas * dep.width)' = LowestFloor(replicas * dep.width)
          /\ Serves(replicas)' = Serves(replicas)
      BY <2>1, <2>2, <3>1 DEF Serves
    <3> QED BY <2>1, <2>2, <2>3, <3>1, <3>2 DEF SearchInv, Sized
  <2> QED BY <2>4, <2>5, <2>6 DEF SizingNext
<1> QED BY <1>1, <1>2, PTL DEF SizingSpec

-----------------------------------------------------------------------------
(* The purchase.                                                            *)

LEMMA ReplicasBack ==
  ASSUME Typed, NEW r \in Nat
  PROVE  /\ (r * dep.width) \div dep.width = r /\ (r * dep.width) % dep.width = 0
         /\ r * dep.width \in Nat
<1> DEFINE m == dep.width
           n == r * m
<1>1. m \in Nat /\ m > 0
  BY Types
<1>2. n = m * r + 0 /\ 0 \in 0..m - 1 /\ n \in Nat
  BY <1>1
<1> HIDE DEF n, m
<1>3. n \div m = r /\ n % m = 0
  BY <1>1, <1>2, DivisionUnique
<1> QED BY <1>2, <1>3 DEF n, m

\* A count that serves the users answers their rates and holds their sessions; where the heads
\* divide over the ranks, one that does both serves them.
LEMMA ServesIs ==
  ASSUME Typed, ~Unpriceable, NEW r \in Nat
  PROVE  /\ Serves(r) => PoolHolds(r * dep.width) /\ RatesHold(r * dep.width)
         /\ HeadsDivide /\ PoolHolds(r * dep.width) /\ RatesHold(r * dep.width) => Serves(r)
<1> DEFINE n == r * dep.width
           u1 == Users[1]
           u2 == Users[2]
           cost == u1 * Residency * headroom
           room == u2 * Whole * Whole * (r * kv_pool_bytes)
<1>1. Users = <<u1, u2>> /\ Users \in Quantity /\ u1 \in Nat /\ u2 \in Nat /\ u2 > 0
  BY UsersType
<1>2. n \in Nat /\ n \div dep.width = r
  BY ReplicasBack
<1>3. Serves(r) <=> Leq(Users, KvFloor(n)) /\ RatesHold(n)
  <2>1. Serves(r) <=> /\ Leq(Users, KvFloor(n))
                      /\ Leq(Users, ThroughputFloor(n)) /\ Leq(Users, PrefillFloor(n))
    BY <1>1, LowestFloorIs DEF Serves
  <2> QED BY <1>2, <2>1, RatesAre
<1>4. Leq(Users, KvFloor(n)) <=> cost * (Priced * LayerTotal) <= room
  <2>1. Leq(<<u1, u2>>, KvFloor(n)) <=> cost * (Priced * LayerTotal) <= room
    BY <1>1, KvFloorIs
  <2> QED BY <1>1, <2>1
<1>5. PoolHolds(n) <=> cost * SessionBytes <= room
  BY <1>2 DEF PoolHolds
<1>6. /\ SessionBytes \in Nat /\ SessionBytes <= Priced * LayerTotal
      /\ HeadsDivide => SessionBytes = Priced * LayerTotal
      /\ Priced * LayerTotal \in Nat
  BY SessionPriced
<1>7. cost \in Nat /\ room \in Nat
  <2>1. Residency \in Nat /\ headroom \in Nat /\ Whole \in Nat /\ kv_pool_bytes \in Nat
    BY Types, ResidencyType, PoolType
  <2> HIDE DEF u1, u2
  <2> QED BY <1>1, <2>1
<1> HIDE DEF cost, room
<1>8. cost * SessionBytes <= cost * (Priced * LayerTotal) /\ cost * SessionBytes \in Nat
      /\ cost * (Priced * LayerTotal) \in Nat
  BY <1>6, <1>7, ProductGrows
<1> QED BY <1>3, <1>4, <1>5, <1>6, <1>7, <1>8

\* No deployment is sold without the memory for its sessions, whatever the geometry: windowed
\* layers, replicated heads, a residency above the duty cycle and a growing transcript.
THEOREM PurchaseHoldsSessions == SizingSpec => []PoolHoldsSessions
<1>1. SearchInv => PoolHoldsSessions
  BY ServesIs DEF SearchInv, PoolHoldsSessions
<1> QED BY <1>1, SearchInvariant, PTL

\* The cluster is whole replicas, answers every priced rate, and one replica less would fail a
\* demand: the search stops at the first count that serves.
THEOREM PurchaseIsSmallest == SizingSpec => []SmallestCluster
<1>1. SearchInv => SmallestCluster
  <2> SUFFICES ASSUME SearchInv, Sized
               PROVE  /\ result.n_gpus % dep.width = 0
                      /\ RatesHold(result.n_gpus)
                      /\ result.n_gpus > dep.width /\ HeadsDivide =>
                           ~(PoolHolds(result.n_gpus - dep.width)
                               /\ RatesHold(result.n_gpus - dep.width))
    BY DEF SmallestCluster
  <2> DEFINE m == dep.width
  <2>1. /\ Typed /\ ~Unpriceable /\ replicas \in Nat /\ replicas > 0 /\ Serves(replicas)
        /\ result.n_gpus = replicas * m /\ \A r \in 1..replicas - 1 : ~Serves(r)
    BY DEF SearchInv
  <2>2. (replicas * m) % m = 0 /\ RatesHold(replicas * m)
    BY <2>1, ServesIs, ReplicasBack
  <2>3. ASSUME replicas * m > m, HeadsDivide
        PROVE  ~(PoolHolds(replicas * m - m) /\ RatesHold(replicas * m - m))
    <3> DEFINE fewer == replicas - 1
    <3>1. m \in Nat /\ m > 0
      BY <2>1, Types
    <3>2. replicas # 1
      BY <2>3, <3>1
    <3>3. fewer \in Nat /\ fewer \in 1..replicas - 1
      BY <2>1, <3>2
    <3>4. fewer * m = replicas * m - m
      <4>1. fewer * m + m = replicas * m /\ replicas * m \in Nat
        BY <2>1, <3>1, NextRow
      <4>2. fewer * m \in Nat
        BY <3>1, <3>3
      <4> HIDE DEF fewer, m
      <4> QED BY <3>1, <4>1, <4>2
    <3>5. ~Serves(fewer)
      BY <2>1, <3>3
    <3>6. HeadsDivide /\ PoolHolds(fewer * m) /\ RatesHold(fewer * m) => Serves(fewer)
      <4> HIDE DEF fewer
      <4> QED BY <2>1, <3>3, ServesIs
    <3> QED BY <2>3, <3>4, <3>5, <3>6
  <2> QED BY <2>1, <2>2, <2>3
<1> QED BY <1>1, SearchInvariant, PTL

\* One user more than a quantity supports is one too many for it.
LEMMA OneMore ==
  ASSUME NEW users \in Quantity, users # Infinite
  PROVE  LET more == users[1] \div users[2] + 1
         IN  more \in Nat /\ ~Leq(<<more, 1>>, users)
<1> DEFINE a == users[1]
           b == users[2]
           c == a \div b
           x == b * c
<1>1. a \in Nat /\ b \in Nat /\ b > 0
  BY DEF Quantity
<1>2. c \in Nat /\ (a % b) \in 0..b - 1 /\ a = x + (a % b)
  BY <1>1, Division
<1>3. (c + 1) * b = x + b /\ x \in Nat
  BY <1>1, <1>2
<1>4. Leq(<<c + 1, 1>>, users) <=> (c + 1) * b <= a * 1
  BY DEF Leq
<1> HIDE DEF a, b, c, x
<1>5. ~((c + 1) * b <= a * 1) /\ c + 1 \in Nat
  BY <1>1, <1>2, <1>3
<1> QED BY <1>4, <1>5 DEF a, b, c

\* The constraint named is the supply that a single user more would overdraw.
THEOREM BindingIsRight == SizingSpec => []BindingRunsOut
<1>1. SearchInv => BindingRunsOut
  <2> SUFFICES ASSUME SearchInv, Sized, result.users # Infinite PROVE BindingRunsOut
    BY DEF BindingRunsOut
  <2> DEFINE n == replicas * dep.width
             lowest == LowestFloor(n)
             m == result.users[1] \div result.users[2] + 1
             H == headroom
             W == Whole
  <2>1. /\ Typed /\ ~Unpriceable /\ replicas \in Nat /\ result.n_gpus = n
        /\ result.users = lowest[2] /\ result.binding = lowest[1]
    BY DEF SearchInv
  <2>2. /\ \/ lowest = <<"KV", KvFloor(n)>>
           \/ lowest = <<"throughput", ThroughputFloor(n)>>
           \/ lowest = <<"prefill", PrefillFloor(n)>> /\ dep.prefill # None
        /\ lowest[2] \in Quantity
    BY <2>1, LowestFloorIs
  <2>3. m \in Nat /\ ~Leq(<<m, 1>>, lowest[2])
    BY <2>1, <2>2, OneMore
  <2>4. n \in Nat /\ n \div dep.width = replicas
    BY <2>1, ReplicasBack
  <2>5. 1 \in Nat /\ 1 > 0 /\ H \in Nat /\ W \in Nat /\ dep.tok \in Nat
        /\ (dep.prefill # None => dep.prefill \in Nat)
    BY <2>1, Types
  <2> DEFINE Short(p, q, s) == ~Leq(Times(<<m, 1>>, Times(<<p, q>>, <<H, W>>)), <<s * n, 1>>)
  <2>6. ASSUME NEW p \in Nat, NEW q \in Nat, NEW s \in Nat,
               ~(m * p * H <= 1 * W * s * n * q)
        PROVE  Short(p, q, s)
    <3>1. Leq(Times(<<m, 1>>, Times(<<p, q>>, <<H, W>>)), <<s * n, 1>>)
            <=> (m * (p * H)) * 1 <= (s * n) * (1 * (q * W))
      BY DEF Leq, Times
    <3>2. (m * (p * H)) * 1 = m * p * H /\ (s * n) * (1 * (q * W)) = 1 * W * s * n * q
      <4> HIDE DEF m, H, W, n
      <4> QED BY <2>3, <2>4, <2>5, <2>6
    <3> QED BY <2>6, <3>1, <3>2
  <2>7. CASE lowest = <<"KV", KvFloor(n)>>
    <3>1. result.binding = "KV" /\ ~Leq(<<m, 1>>, KvFloor(n))
      BY <2>1, <2>3, <2>7
    <3>2. Leq(<<m, 1>>, KvFloor(n))
            <=> m * Residency * H * (Priced * LayerTotal) <= 1 * W * W * (replicas * kv_pool_bytes)
      <4> HIDE DEF m
      <4> QED BY <2>1, <2>3, <2>5, KvFloorIs
    <3>3. HeadsDivide => SessionBytes = Priced * LayerTotal
      BY <2>1, SessionPriced
    <3>4. /\ m * Residency * H * (Priced * LayerTotal) \in Nat
          /\ 1 * W * W * (replicas * kv_pool_bytes) \in Nat
      <4>1. Priced * LayerTotal \in Nat /\ Residency \in Nat /\ kv_pool_bytes \in Nat
        BY <2>1, SessionPriced, ResidencyType, PoolType
      <4> HIDE DEF m, H, W
      <4> QED BY <2>1, <2>3, <2>5, <4>1
    <3>5. HeadsDivide => m * Residency * H * SessionBytes
                           > 1 * W * W * ((n \div dep.width) * kv_pool_bytes)
      <4> HIDE DEF m, H, W, n
      <4> QED BY <2>4, <3>1, <3>2, <3>3, <3>4
    <3> QED BY <2>1, <3>1, <3>5 DEF BindingRunsOut
  <2>8. CASE lowest = <<"throughput", ThroughputFloor(n)>>
    <3>1. result.binding = "throughput" /\ ~Leq(<<m, 1>>, ThroughputFloor(n))
      BY <2>1, <2>3, <2>8
    <3>2. /\ PerUser = <<PerUser[1], PerUser[2]>> /\ PerUser[1] \in Nat /\ PerUser[2] \in Nat
      BY <2>1, PerUserIs
    <3>3. ~(m * PerUser[1] * H <= 1 * W * dep.tok * n * PerUser[2])
      <4> HIDE DEF m, n
      <4> QED BY <2>1, <2>3, <2>4, <2>5, <3>1, ThroughputFloorIs
    <3>4. Short(PerUser[1], PerUser[2], dep.tok)
      <4> HIDE DEF m, n, H, W, Short
      <4> QED BY <2>5, <2>6, <3>2, <3>3
    <3> QED BY <2>1, <3>1, <3>2, <3>4 DEF BindingRunsOut
  <2>9. CASE lowest = <<"prefill", PrefillFloor(n)>> /\ dep.prefill # None
    <3>1. result.binding = "prefill" /\ ~Leq(<<m, 1>>, PrefillFloor(n))
      BY <2>1, <2>3, <2>9
    <3>2. /\ PerUserPrefill = <<PerUserPrefill[1], PerUserPrefill[2]>>
          /\ PerUserPrefill[1] \in Nat /\ PerUserPrefill[2] \in Nat
      BY <2>1, <2>9, PerUserPrefillIs
    <3>3. ~(m * PerUserPrefill[1] * H <= 1 * W * dep.prefill * n * PerUserPrefill[2])
      <4> HIDE DEF m, n
      <4> QED BY <2>1, <2>3, <2>4, <2>5, <2>9, <3>1, PrefillFloorIs
    <3>4. Short(PerUserPrefill[1], PerUserPrefill[2], dep.prefill)
      <4> HIDE DEF m, n, H, W, Short
      <4> QED BY <2>5, <2>6, <2>9, <3>2, <3>3
    <3> QED BY <2>1, <3>1, <3>2, <3>4 DEF BindingRunsOut
  <2> QED BY <2>2, <2>7, <2>8, <2>9
<1> QED BY <1>1, SearchInvariant, PTL

=============================================================================
