-------------------------- MODULE PageReaderProofs ---------------------------
(***************************************************************************)
(* Proofs about PageReader: for every dictionary, every model, every line  *)
(* and its spoiled steps, and every buffer.                                *)
(***************************************************************************)
EXTENDS PageReader, FiniteSetTheorems, WellFoundedInduction, TLAPS

-----------------------------------------------------------------------------
(* Natural numbers, and functions defined by recursion over them *)

\* A nonempty set of natural numbers has a least element.
LEMMA LeastExists ==
  ASSUME NEW S \in SUBSET Nat, S # {}
  PROVE  \E n \in S : \A m \in S : n <= m
  <1> DEFINE Below == OpToRel(<, Nat)
  <1>1. IsWellFoundedOn(Below, Nat)
    BY NatLessThanWellFounded
  <1>2. \A n, m \in Nat : n < m => <<n, m>> \in Below
    BY DEF OpToRel
  <1> HIDE DEF Below
  <1>3. PICK n \in S : \A m \in S : ~(<<m, n>> \in Below)
    BY <1>1, WFMin
  <1>4. \A m \in S : ~(m < n)
    BY <1>2, <1>3
  <1> QED
    BY <1>4

\* Induction up to a bound.
LEMMA Upwards ==
  ASSUME NEW N \in Nat, NEW S, 0 \in S, \A n \in 1..N : n - 1 \in S => n \in S
  PROVE  \A n \in 0..N : n \in S
  <1> DEFINE Bad == {n \in 0..N : n \notin S}
  <1> SUFFICES ASSUME Bad # {} PROVE FALSE
    OBVIOUS
  <1>1. Bad \in SUBSET Nat
    OBVIOUS
  <1>2. PICK n \in Bad : \A m \in Bad : n <= m
    <2> HIDE DEF Bad
    <2> QED
      BY <1>1, LeastExists
  <1>3. n \in 1..N /\ n - 1 \in 0..N /\ n - 1 < n
    BY <1>2
  <1>4. n - 1 \notin Bad
    BY <1>2, <1>3
  <1> QED
    BY <1>2, <1>3, <1>4

Steps(N, V, base, F) == N \in Nat /\ base \in V /\ F \in [(1..N) \X V -> V]

Traces(g, N, V, base, F) ==
  g \in [0..N -> V] /\ g[0] = base /\ \A n \in 1..N : g[n] = F[<<n, g[n - 1]>>]

LEMMA Earlier ==
  ASSUME NEW N \in Nat, NEW T, NEW f \in [0..N -> T], NEW n \in 1..N
  PROVE  f[n - 1] \in T
  OBVIOUS

\* A value can be taken through N steps of a function.
LEMMA Recursion ==
  ASSUME NEW N, NEW V, NEW base, NEW F, Steps(N, V, base, F)
  PROVE  \E g : Traces(g, N, V, base, F)
  <1>0. N \in Nat /\ base \in V /\ F \in [(1..N) \X V -> V]
    BY DEF Steps
  <1> DEFINE Follows(g, m) == g[0] = base /\ \A n \in 1..m : g[n] = F[<<n, g[n - 1]>>]
             Good == {m \in 0..N : \E g \in [0..m -> V] : Follows(g, m)}
  <1>1. 0 \in Good
    <2>1. [k \in 0..0 |-> base] \in [0..0 -> V] /\ Follows([k \in 0..0 |-> base], 0)
      BY <1>0
    <2>2. \E g \in [0..0 -> V] : Follows(g, 0)
      <3> HIDE DEF Follows
      <3> QED
        BY <2>1
    <2> QED
      BY <1>0, <2>2
  <1>2. ASSUME NEW m \in 1..N, m - 1 \in Good
        PROVE  m \in Good
    <2>1. PICK g \in [0..m - 1 -> V] : Follows(g, m - 1)
      BY <1>0, <1>2
    <2> DEFINE h == [k \in 0..m |-> IF k = m THEN F[<<m, g[m - 1]>>] ELSE g[k]]
    <2>2. h \in [0..m -> V] /\ h[0] = base
      BY <1>0, <2>1
    <2>3. \A k \in 1..m : k # m => h[k] = g[k] /\ h[k - 1] = g[k - 1] /\ k \in 1..m - 1
      BY <1>0
    <2>4. h[m] = F[<<m, h[m - 1]>>]
      <3>1. m \in 0..m /\ m - 1 \in 0..m /\ m - 1 # m
        BY <1>0
      <3> QED
        BY <3>1
    <2>5. \A k \in 1..m : h[k] = F[<<k, h[k - 1]>>]
      <3> HIDE DEF h
      <3> QED
        BY <2>1, <2>3, <2>4
    <2> HIDE DEF h
    <2> QED
      BY <2>2, <2>5
  <1>3. N \in Good
    <2> HIDE DEF Good
    <2> QED
      BY <1>0, <1>1, <1>2, Upwards
  <1> QED
    BY <1>3 DEF Traces

\* Value f[0] + ... + f[n - 1] is an integer.
LEMMA TotalType ==
  ASSUME NEW n \in Nat, NEW f \in [0..n - 1 -> Int]
  PROVE  Total(n, f) \in Int
  <1> DEFINE sum == CHOOSE g : g = [i \in 0..n |-> IF i = 0 THEN 0 ELSE g[i - 1] + f[i - 1]]
             F == [p \in (1..n) \X Int |-> p[2] + f[p[1] - 1]]
  <1>1. F \in [(1..n) \X Int -> Int] /\ \A i \in 1..n, k \in Int : F[<<i, k>>] = k + f[i - 1]
    <2>1. \A i \in 1..n, k \in Int : k + f[i - 1] \in Int
      OBVIOUS
    <2>2. \A i \in 1..n, k \in Int : F[<<i, k>>] = k + f[i - 1]
      OBVIOUS
    <2>3. \A p \in (1..n) \X Int : p[2] + f[p[1] - 1] \in Int
      BY <2>1
    <2>4. F \in [(1..n) \X Int -> Int]
      BY <2>3
    <2> QED
      BY <2>2, <2>4
  <1>2. PICK g \in [0..n -> Int] : g[0] = 0 /\ \A i \in 1..n : g[i] = F[<<i, g[i - 1]>>]
    <2>1. Steps(n, Int, 0, F)
      BY DEF Steps
    <2>2. PICK g : Traces(g, n, Int, 0, F)
      BY <2>1, Recursion
    <2> QED
      BY <2>2 DEF Traces
  <1>3. \A i \in 1..n : g[i] = g[i - 1] + f[i - 1]
    <2> HIDE DEF F
    <2>1. \A i \in 1..n : g[i - 1] \in Int
      OBVIOUS
    <2> QED
      BY <1>1, <1>2, <2>1
  <1>4. g = [i \in 0..n |-> IF i = 0 THEN 0 ELSE g[i - 1] + f[i - 1]]
    BY <1>2, <1>3
  <1>5. sum = [i \in 0..n |-> IF i = 0 THEN 0 ELSE sum[i - 1] + f[i - 1]]
    BY <1>4
  <1> DEFINE Good == {i \in 0..n : sum[i] \in Int}
  <1>6. 0 \in Good /\ \A i \in 1..n : i - 1 \in Good => i \in Good
    <2> HIDE DEF sum
    <2> QED
      BY <1>5
  <1>7. sum[n] \in Int
    <2> HIDE DEF sum
    <2>1. \A i \in 0..n : i \in Good
      <3> HIDE DEF Good
      <3> QED
        BY <1>6, Upwards
    <2> QED
      BY <2>1
  <1> QED
    BY <1>7 DEF Total

-----------------------------------------------------------------------------
(* Division *)

LEMMA DivisionFacts ==
  ASSUME NEW x \in Nat, NEW d \in Nat \ {0}
  PROVE  /\ x \div d \in Nat /\ x % d \in 0..d - 1
         /\ x = (x \div d) * d + (x % d)
  BY Z3

LEMMA SameQuotient ==
  ASSUME NEW d \in Nat \ {0}, NEW q \in Int, NEW p \in Int, NEW r \in 0..d - 1, NEW s \in 0..d - 1,
         q * d + r = p * d + s
  PROVE  q = p
  <1>1. (q - p) * d = s - r /\ q - p \in Int /\ s - r < d /\ s - r > -d
    BY Z3
  <1>2. ASSUME NEW k \in Int, k >= 1 PROVE k * d >= d
    BY <1>2, Z3
  <1>3. ASSUME NEW k \in Int, k <= -1 PROVE k * d <= -d
    BY <1>3, Z3
  <1>4. ~(q - p >= 1)
    BY <1>1, <1>2
  <1>5. ~(q - p <= -1)
    BY <1>1, <1>3
  <1> QED
    BY <1>1, <1>4, <1>5

\* Quotient and remainder are unique.
LEMMA Divided ==
  ASSUME NEW q \in Nat, NEW d \in Nat \ {0}, NEW r \in 0..d - 1
  PROVE  (q * d + r) \div d = q /\ (q * d + r) % d = r
  <1> DEFINE x == q * d + r
             p == x \div d
             s == x % d
  <1>1. x \in Nat /\ q * d \in Nat
    BY Z3
  <1>2. p \in Nat /\ s \in 0..d - 1 /\ x = p * d + s
    <2> HIDE DEF x
    <2> QED
      BY <1>1, DivisionFacts
  <1>3. p = q
    <2> HIDE DEF p, s
    <2> QED
      BY <1>2, SameQuotient
  <1>4. s = r
    <2> HIDE DEF p, s
    <2> QED
      BY <1>1, <1>2, <1>3, Z3
  <1> QED
    BY <1>3, <1>4

\* A product of a smaller number is smaller, and stays within bounds with a remainder.
LEMMA WithinBlocks ==
  ASSUME NEW d \in Nat \ {0}, NEW q \in Nat, NEW n \in Nat, q < n, NEW r \in 0..d - 1
  PROVE  q * d + r \in 0..n * d - 1
  <1>1. (q + 1) * d <= n * d /\ q * d \in Nat /\ n * d \in Nat
    BY Z3
  <1>2. (q + 1) * d = q * d + d
    BY Z3
  <1> QED
    BY <1>1, <1>2

-----------------------------------------------------------------------------
(* The projection: every way to an element of the product reads the same weights *)

LEMMA ClassFacts ==
  /\ LabelLengths \in Seq(Nat) /\ Len(LabelLengths) \in Nat
  /\ ClassCount = Len(LabelLengths) + 2 /\ ClassCount \in Nat \ {0}
  /\ Classes = 0..ClassCount - 1 /\ 0 \in Classes /\ Classes \subseteq Nat
  <1>1. LabelLengths \in Seq(Nat) /\ Len(LabelLengths) \in Nat
    BY LineReaderAssumption
  <1> QED
    BY <1>1 DEF ClassCount, Classes

\* A model and the features of one step.
Fed(g, features) ==
  /\ g.inner \in Nat \ {0} /\ g.weights \in [0..g.inner * ClassCount - 1 -> Int]
  /\ g.bias \in [Classes -> Int]
  /\ features \in Seq(Int) /\ Len(features) = g.inner

\* The terms of one element of the product.
Terms(g, features, column) ==
  [i \in 0..g.inner - 1 |-> features[i + 1] * g.weights[i * ClassCount + column]]

LEMMA TermFacts ==
  ASSUME NEW g, NEW features, Fed(g, features), NEW column \in Classes
  PROVE  /\ Terms(g, features, column) \in [0..g.inner - 1 -> Int]
         /\ Product(g, features, column) = g.bias[column] + Total(g.inner, Terms(g, features, column))
         /\ Product(g, features, column) \in Int
  <1>1. /\ g.inner \in Nat /\ features \in Seq(Int) /\ Len(features) = g.inner
        /\ g.weights \in [0..g.inner * ClassCount - 1 -> Int] /\ g.bias[column] \in Int
        /\ ClassCount \in Nat \ {0} /\ column \in 0..ClassCount - 1
    BY ClassFacts DEF Fed
  <1>2. ASSUME NEW i \in 0..g.inner - 1
        PROVE  features[i + 1] * g.weights[i * ClassCount + column] \in Int
    <2>1. features[i + 1] \in Int
      <3>1. i + 1 \in 1..Len(features)
        BY <1>1
      <3> QED
        BY <1>1, <3>1
    <2>2. i * ClassCount + column \in 0..g.inner * ClassCount - 1
      <3>1. i \in Nat /\ i < g.inner
        BY <1>1
      <3> QED
        BY <1>1, <3>1, WithinBlocks
    <2>3. g.weights[i * ClassCount + column] \in Int
      BY <1>1, <2>2
    <2> QED
      BY <2>1, <2>3
  <1>3. Terms(g, features, column) \in [0..g.inner - 1 -> Int]
    BY <1>2 DEF Terms
  <1>4. Total(g.inner, Terms(g, features, column)) \in Int
    BY <1>1, <1>3, TotalType
  <1>5. Product(g, features, column) = g.bias[column] + Total(g.inner, Terms(g, features, column))
    BY DEF Product, Terms
  <1> QED
    BY <1>1, <1>3, <1>4, <1>5

LEMMA SharedIsProduct ==
  ASSUME NEW g, NEW features, NEW column
  PROVE  SharedElement(g, features, column) = Total(g.inner, Terms(g, features, column))
  BY DEF SharedElement, Accumulated, Terms

\* The column's tile begins in the same row, not after it.
LEMMA TiledIsProduct ==
  ASSUME NEW g, NEW features, Fed(g, features), NEW column \in Classes
  PROVE  TiledElement(g, features, column) = Total(g.inner, Terms(g, features, column))
  <1> DEFINE start == column - (column % Lanes)
             width == Smaller(ClassCount - start, Lanes)
             tile(i) == [lane \in 0..Lanes - 1 |->
                           IF lane < width THEN g.weights[i * ClassCount + start + lane] ELSE 0]
             terms == [i \in 0..g.inner - 1 |-> features[i + 1] * tile(i)[column - start]]
  <1>1. /\ column \in Nat /\ column < ClassCount /\ ClassCount \in Nat
        /\ Lanes \in Nat \ {0} /\ g.inner \in Nat
    BY ClassFacts, LineReaderAssumption DEF Fed
  <1>2. column % Lanes \in 0..Lanes - 1
    BY <1>1, DivisionFacts
  <1>3. /\ column - start = column % Lanes /\ column - start \in 0..Lanes - 1
        /\ start \in Int
    BY <1>1, <1>2
  <1>4. column - start < width
    <2> HIDE DEF start
    <2> QED
      BY <1>1, <1>3 DEF Smaller
  <1>5. ASSUME NEW i \in 0..g.inner - 1
        PROVE  tile(i)[column - start] = g.weights[i * ClassCount + column]
    <2>1. tile(i)[column - start] = g.weights[i * ClassCount + start + (column - start)]
      <3> HIDE DEF start, width
      <3> QED
        BY <1>3, <1>4
    <2>2. i * ClassCount + start + (column - start) = i * ClassCount + column
      <3>1. i * ClassCount \in Int
        BY <1>1
      <3> HIDE DEF start
      <3> QED
        BY <1>1, <1>3, <3>1
    <2> QED
      BY <2>1, <2>2
  <1>6. terms = Terms(g, features, column)
    <2> HIDE DEF start, tile
    <2> QED
      BY <1>5 DEF Terms
  <1> QED
    BY <1>6 DEF TiledElement

\* Where lw_pack_matmul_weights_f32 put the weight of row i and the column.
LEMMA PackedAddress ==
  ASSUME NEW g, NEW features, Fed(g, features), NEW column \in Classes, NEW i \in 0..g.inner - 1
  PROVE  PackedWeights(g)[((column \div ColumnTile) * g.inner + i) * ColumnTile
                            + (column % ColumnTile)]
           = g.weights[i * ClassCount + column]
  <1> DEFINE T == ColumnTile
             K == g.inner
             panel == column \div T
             lane == column % T
             row == panel * K + i
             address == row * T + lane
             at(a) == (a \div (K * T)) * T + (a % T)
             inner(a) == (a \div T) % K
  <1>1. /\ column \in Nat /\ column < ClassCount /\ ClassCount \in Nat \ {0}
        /\ T \in Nat \ {0} /\ K \in Nat \ {0} /\ i \in Nat /\ i < K
    <2>1. column \in 0..ClassCount - 1 /\ ClassCount \in Nat \ {0}
      BY ClassFacts
    <2>2. T \in Nat \ {0}
      BY LineReaderAssumption
    <2>3. K \in Nat \ {0}
      BY DEF Fed
    <2> QED
      BY <2>1, <2>2, <2>3
  <1>2. panel \in Nat /\ lane \in 0..T - 1 /\ column = panel * T + lane
    BY <1>1, DivisionFacts
  <1>3. Panels \in Nat /\ ClassCount <= Panels * T
    <2>1. ClassCount + T - 1 \in Nat
      BY <1>1
    <2>2. /\ Panels \in Nat /\ (ClassCount + T - 1) % T \in 0..T - 1
          /\ ClassCount + T - 1 = Panels * T + ((ClassCount + T - 1) % T)
      BY <1>1, <2>1, DivisionFacts DEF Panels
    <2>3. Panels * T \in Nat
      BY <1>1, <2>2
    <2> QED
      BY <1>1, <2>2, <2>3
  <1> HIDE DEF T, K, panel, lane
  <1>4. panel < Panels
    <2>1. ASSUME Panels <= panel PROVE Panels * T <= panel * T
      BY <1>1, <1>2, <1>3, <2>1, Z3
    <2>2. panel * T \in Nat /\ Panels * T \in Nat
      BY <1>1, <1>2, <1>3
    <2> QED
      BY <1>1, <1>2, <1>3, <2>1, <2>2
  <1>5. row \in Nat /\ row < Panels * K /\ row \div T \in Int
    <2>1. row \in 0..Panels * K - 1
      BY <1>1, <1>2, <1>3, <1>4, WithinBlocks
    <2>2. Panels * K \in Nat
      BY <1>1, <1>3
    <2> QED
      BY <1>1, <2>1, <2>2
  <1>6. row % K = i
    BY <1>1, <1>2, Divided
  <1> HIDE DEF row
  <1>7. address \div T = row /\ address % T = lane
    BY <1>1, <1>2, <1>5, Divided
  <1>8. address \in 0..(Panels * K) * T - 1
    <2>1. Panels * K \in Nat
      BY <1>1, <1>3
    <2> QED
      BY <1>1, <1>2, <1>5, <2>1, WithinBlocks
  <1>9. address \div (K * T) = panel
    <2>1. i * T + lane \in 0..K * T - 1
      BY <1>1, <1>2, WithinBlocks
    <2>2. K * T \in Nat \ {0}
      BY <1>1, Z3
    <2>3. (panel * (K * T) + (i * T + lane)) \div (K * T) = panel
      <3> DEFINE M == K * T
                 r == i * T + lane
      <3>1. M \in Nat \ {0} /\ r \in 0..M - 1
        BY <2>1, <2>2
      <3> HIDE DEF M, r
      <3>2. (panel * M + r) \div M = panel
        BY <1>2, <3>1, Divided
      <3> QED
        BY <3>2 DEF M, r
    <2>4. address = panel * (K * T) + (i * T + lane)
      BY <1>1, <1>2, Z3 DEF row
    <2> QED
      BY <2>3, <2>4
  <1>10. at(address) = column /\ inner(address) = i
    <2> HIDE DEF address
    <2> QED
      BY <1>1, <1>2, <1>6, <1>7, <1>9
  <1> HIDE DEF address
  <1>11. PackedWeights(g) =
           [a \in 0..(Panels * K) * T - 1 |->
              IF at(a) < ClassCount THEN g.weights[inner(a) * ClassCount + at(a)] ELSE 0]
    BY DEF PackedWeights, K, T
  <1>12. PackedWeights(g)[address] = g.weights[i * ClassCount + column]
    <2> HIDE DEF at, inner
    <2> QED
      BY <1>1, <1>8, <1>10, <1>11
  <1> QED
    BY <1>12 DEF address, row, panel, lane, K, T

LEMMA PackedIsProduct ==
  ASSUME NEW g, NEW features, Fed(g, features), NEW column \in Classes
  PROVE  PackedElement(g, features, column) = Total(g.inner, Terms(g, features, column))
  <1> DEFINE terms == [i \in 0..g.inner - 1 |->
               features[i + 1] * PackedWeights(g)[((column \div ColumnTile) * g.inner + i) * ColumnTile
                                                    + (column % ColumnTile)]]
  <1>1. terms = Terms(g, features, column)
    BY PackedAddress DEF Terms
  <1>2. PackedElement(g, features, column) = Total(g.inner, terms)
    BY DEF PackedElement, Accumulated
  <1> QED
    BY <1>1, <1>2

\* Whichever kernel runs, the logits of a step are the products with their bias.
LEMMA LogitsExact ==
  ASSUME NEW g, NEW line, \A t \in DOMAIN line : Fed(g, line[t])
  PROVE  Logits(g, line) = [t \in DOMAIN line |-> [c \in Classes |-> Product(g, line[t], c)]]
  <1>1. ASSUME NEW t \in DOMAIN line, NEW c \in Classes
        PROVE  /\ PackedElement(g, line[t], c) = Total(g.inner, Terms(g, line[t], c))
               /\ TiledElement(g, line[t], c) = Total(g.inner, Terms(g, line[t], c))
               /\ SharedElement(g, line[t], c) = Total(g.inner, Terms(g, line[t], c))
               /\ Product(g, line[t], c) = g.bias[c] + Total(g.inner, Terms(g, line[t], c))
    BY PackedIsProduct, TiledIsProduct, SharedIsProduct, TermFacts
  <1> QED
    BY <1>1 DEF Logits

-----------------------------------------------------------------------------
(* The best class of a row *)

Rows == [Classes -> Int]

\* b is the first largest of the first n entries, or 0 if there are none.
BestUpTo(row, n, b) ==
  /\ b \in Classes
  /\ b = 0 \/ b < n
  /\ \A d \in 0..n - 1 : row[b] > row[d] \/ (row[b] = row[d] /\ b <= d)

LEMMA BestStep ==
  ASSUME NEW row \in Rows, NEW n \in Classes, NEW b, BestUpTo(row, n, b)
  PROVE  BestUpTo(row, n + 1, IF row[n] > row[b] THEN n ELSE b)
  <1>1. n \in Nat /\ b \in Classes /\ b \in Nat /\ Classes = 0..ClassCount - 1 /\ ClassCount \in Nat
    BY ClassFacts DEF BestUpTo
  <1>2. \A d \in 0..n : d \in Classes /\ d \in Nat /\ row[d] \in Int /\ (d = n \/ d \in 0..n - 1)
    BY <1>1 DEF Rows
  <1>3. row[n] \in Int /\ row[b] \in Int
    BY <1>1 DEF Rows
  <1>4. CASE row[n] > row[b]
    <2>1. \A d \in 0..n : row[n] > row[d] \/ (row[n] = row[d] /\ n <= d)
      BY <1>1, <1>2, <1>3, <1>4 DEF BestUpTo
    <2> QED
      BY <1>1, <1>4, <2>1 DEF BestUpTo
  <1>5. CASE ~(row[n] > row[b])
    <2>1. \A d \in 0..n : row[b] > row[d] \/ (row[b] = row[d] /\ b <= d)
      BY <1>1, <1>2, <1>3, <1>5 DEF BestUpTo
    <2> QED
      BY <1>1, <1>5, <2>1 DEF BestUpTo
  <1> QED
    BY <1>4, <1>5

\* There is only one.
LEMMA BestUnique ==
  ASSUME NEW row \in Rows, NEW b, NEW c,
         BestUpTo(row, ClassCount, b), BestUpTo(row, ClassCount, c)
  PROVE  b = c
  <1>1. b \in 0..ClassCount - 1 /\ c \in 0..ClassCount - 1 /\ row[b] \in Int /\ row[c] \in Int
    BY ClassFacts DEF BestUpTo, Rows
  <1>2. b <= c /\ c <= b
    BY <1>1 DEF BestUpTo
  <1> QED
    BY <1>1, <1>2

LEMMA FirstBestIs ==
  ASSUME NEW row \in Rows
  PROVE  BestUpTo(row, ClassCount, FirstBest(row))
  <1> DEFINE N == ClassCount - 1
             Step(b, n) == IF row[n] > row[b] THEN n ELSE b
             F == [p \in (1..N) \X Classes |-> Step(p[2], p[1])]
             best == CHOOSE g : g = [c \in Classes |->
                       IF c = 0 THEN 0
                       ELSE LET before == g[c - 1] IN IF row[c] > row[before] THEN c ELSE before]
  <1>1. N \in Nat /\ Classes = 0..N /\ 0 \in Classes /\ N + 1 = ClassCount
    BY ClassFacts
  <1> HIDE DEF N
  <1>2. Steps(N, Classes, 0, F)
    <2>1. \A n \in 1..N, b \in Classes : Step(b, n) \in Classes
      BY <1>1
    <2> HIDE DEF Step
    <2> QED
      BY <1>1, <2>1 DEF Steps
  <1>3. PICK g : Traces(g, N, Classes, 0, F)
    <2> HIDE DEF F
    <2> QED
      BY <1>2, Recursion
  <1>4. g \in [Classes -> Classes] /\ g[0] = 0 /\ \A c \in 1..N : g[c] = Step(g[c - 1], c)
    <2>1. g \in [0..N -> Classes] /\ g[0] = 0 /\ \A c \in 1..N : g[c] = F[<<c, g[c - 1]>>]
      <3> HIDE DEF F
      <3> QED
        BY <1>3 DEF Traces
    <2>2. \A c \in 1..N : g[c - 1] \in Classes
      BY <1>1, <2>1
    <2> HIDE DEF Step
    <2> QED
      BY <1>1, <2>1, <2>2
  <1>5. g = [c \in Classes |->
               IF c = 0 THEN 0
               ELSE LET before == g[c - 1] IN IF row[c] > row[before] THEN c ELSE before]
    <2>1. g = [c \in Classes |->
                 IF c = 0 THEN 0 ELSE IF row[c] > row[g[c - 1]] THEN c ELSE g[c - 1]]
      <3>1. \A c \in Classes : c = 0 \/ c \in 1..N
        BY <1>1
      <3>2. \A c \in Classes :
              g[c] = IF c = 0 THEN 0 ELSE IF row[c] > row[g[c - 1]] THEN c ELSE g[c - 1]
        BY <1>4, <3>1
      <3>3. g = [c \in Classes |-> g[c]]
        BY <1>4
      <3> QED
        BY <3>2, <3>3
    <2> QED
      BY <2>1, Zenon
  <1>6. best = [c \in Classes |->
                  IF c = 0 THEN 0
                  ELSE LET before == best[c - 1] IN IF row[c] > row[before] THEN c ELSE before]
    BY <1>5
  <1> HIDE DEF best
  <1>7. best[0] = 0 /\ \A c \in 1..N : best[c] = IF row[c] > row[best[c - 1]] THEN c ELSE best[c - 1]
    BY <1>1, <1>6
  <1> DEFINE Good == {c \in Classes : BestUpTo(row, c + 1, best[c])}
  <1>8. 0 \in Good
    <2>1. row[0] \in Int
      BY <1>1 DEF Rows
    <2> QED
      BY <1>1, <1>7, <2>1 DEF BestUpTo
  <1>9. ASSUME NEW c \in 1..N, c - 1 \in Good
        PROVE  c \in Good
    <2>1. c \in Classes /\ BestUpTo(row, c, best[c - 1])
      BY <1>1, <1>9
    <2>2. BestUpTo(row, c + 1, best[c])
      BY <1>7, <2>1, BestStep
    <2> QED
      BY <2>1, <2>2
  <1>10. N \in Good
    <2> HIDE DEF Good
    <2> QED
      BY <1>1, <1>8, <1>9, Upwards
  <1>11. FirstBest(row) = best[N]
    BY DEF FirstBest, best, N
  <1> QED
    BY <1>1, <1>10, <1>11

\* One panel of lw_avx2_packed_matmul_bias_argmax_f32.
ScanStep(row, state, c) ==
  IF row[c] > state.value THEN [value |-> row[c], best |-> c] ELSE state

PanelBase(panel) == panel * ColumnTile
PanelCount(panel) == Smaller(ClassCount - PanelBase(panel), ColumnTile)

Scanned(row, panel, best) ==
  CHOOSE scanned : scanned =
    [n \in 0..PanelCount(panel) |->
       IF n = 0 THEN [value |-> KeptValue(row, panel, best), best |-> best]
       ELSE ScanStep(row, scanned[n - 1], PanelBase(panel) + n - 1)]

PanelBest(row, panel, best) == Scanned(row, panel, best)[PanelCount(panel)].best

ScanStates == [value : Int, best : Classes]

LEMMA PanelFacts ==
  /\ ColumnTile \in Nat \ {0} /\ Panels \in Nat
  /\ ClassCount <= Panels * ColumnTile
  /\ \A panel \in 0..Panels - 1 :
       /\ PanelBase(panel) \in Nat /\ PanelBase(panel) < ClassCount
       /\ PanelCount(panel) \in Nat
       /\ PanelBase(panel + 1) = PanelBase(panel) + ColumnTile
       /\ PanelBase(panel) + PanelCount(panel) = Smaller(ClassCount, PanelBase(panel + 1))
  <1> DEFINE x == ClassCount + ColumnTile - 1
  <1>1. ColumnTile \in Nat \ {0} /\ ClassCount \in Nat \ {0} /\ x \in Nat
    BY ClassFacts, LineReaderAssumption
  <1>2. Panels \in Nat /\ x % ColumnTile \in 0..ColumnTile - 1
        /\ x = Panels * ColumnTile + (x % ColumnTile)
    <2> HIDE DEF x
    <2>1. Panels = x \div ColumnTile
      BY DEF Panels, x
    <2> QED
      BY <1>1, <2>1, DivisionFacts
  <1>3. Panels * ColumnTile \in Nat /\ ClassCount <= Panels * ColumnTile
        /\ Panels * ColumnTile <= ClassCount + ColumnTile - 1
    <2>1. Panels * ColumnTile \in Nat
      BY <1>1, <1>2
    <2> QED
      BY <1>1, <1>2, <2>1
  <1>4. ASSUME NEW panel \in 0..Panels - 1
        PROVE  /\ PanelBase(panel) \in Nat /\ PanelBase(panel) < ClassCount
               /\ PanelBase(panel + 1) = PanelBase(panel) + ColumnTile
    <2>1. /\ panel \in Nat /\ panel * ColumnTile \in Nat
          /\ (panel + 1) * ColumnTile = panel * ColumnTile + ColumnTile
      BY <1>1, <1>2, Z3
    <2>2. (panel + 1) * ColumnTile <= Panels * ColumnTile
      BY <1>1, <1>2, <2>1, Z3
    <2> QED
      BY <1>1, <1>3, <2>1, <2>2 DEF PanelBase
  <1>5. ASSUME NEW panel \in 0..Panels - 1
        PROVE  /\ PanelCount(panel) \in Nat
               /\ PanelBase(panel) + PanelCount(panel) = Smaller(ClassCount, PanelBase(panel + 1))
    <2>1. PanelBase(panel) \in Nat /\ PanelBase(panel) < ClassCount
          /\ PanelBase(panel + 1) = PanelBase(panel) + ColumnTile
      BY <1>4
    <2> QED
      BY <1>1, <2>1 DEF PanelCount, Smaller
  <1> QED
    BY <1>1, <1>2, <1>3, <1>4, <1>5

\* The scan of a panel is what its recursion says.
LEMMA ScanFacts ==
  ASSUME NEW row \in Rows, NEW panel \in 0..Panels - 1, NEW best \in Classes
  PROVE  LET scanned == Scanned(row, panel, best)
         IN /\ scanned \in [0..PanelCount(panel) -> ScanStates]
            /\ scanned[0] = [value |-> KeptValue(row, panel, best), best |-> best]
            /\ \A n \in 1..PanelCount(panel) :
                 scanned[n] = ScanStep(row, scanned[n - 1], PanelBase(panel) + n - 1)
  <1> DEFINE N == PanelCount(panel)
             first == [value |-> KeptValue(row, panel, best), best |-> best]
             at(n) == PanelBase(panel) + n - 1
             F == [p \in (1..N) \X ScanStates |-> ScanStep(row, p[2], at(p[1]))]
  <1>1. N \in Nat /\ \A n \in 1..N : at(n) \in Classes /\ row[at(n)] \in Int
    <2>1. /\ PanelBase(panel) \in Nat /\ N \in Nat /\ PanelBase(panel) < ClassCount
          /\ N = Smaller(ClassCount - PanelBase(panel), ColumnTile)
          /\ ClassCount \in Nat /\ ColumnTile \in Nat /\ Classes = 0..ClassCount - 1
      BY PanelFacts, ClassFacts DEF PanelCount
    <2>2. N <= ClassCount - PanelBase(panel)
      BY <2>1 DEF Smaller
    <2>3. \A n \in 1..N : at(n) \in Classes
      <3> HIDE DEF N
      <3> QED
        BY <2>1, <2>2
    <2> QED
      BY <2>1, <2>3 DEF Rows
  <1>2. first \in ScanStates
    BY ClassFacts DEF ScanStates, KeptValue, Rows
  <1> HIDE DEF N, first, at
  <1>3. Steps(N, ScanStates, first, F)
    <2>1. \A n \in 1..N, s \in ScanStates : ScanStep(row, s, at(n)) \in ScanStates
      BY <1>1 DEF ScanStep, ScanStates
    <2>2. F \in [(1..N) \X ScanStates -> ScanStates]
      <3> HIDE DEF ScanStates
      <3> QED
        BY <2>1
    <2> QED
      BY <1>1, <1>2, <2>2 DEF Steps
  <1>4. PICK g : Traces(g, N, ScanStates, first, F)
    <2> HIDE DEF F
    <2> QED
      BY <1>3, Recursion
  <1>5. /\ g \in [0..N -> ScanStates] /\ g[0] = first
        /\ \A n \in 1..N : g[n] = ScanStep(row, g[n - 1], at(n))
    <2>1. g \in [0..N -> ScanStates] /\ g[0] = first /\ \A n \in 1..N : g[n] = F[<<n, g[n - 1]>>]
      <3> HIDE DEF F
      <3> QED
        BY <1>4 DEF Traces
    <2>2. \A n \in 1..N : g[n - 1] \in ScanStates
      BY <1>1, <2>1
    <2> QED
      BY <1>1, <2>1, <2>2
  <1>6. g = [n \in 0..N |-> IF n = 0 THEN first ELSE ScanStep(row, g[n - 1], at(n))]
    BY <1>1, <1>5
  <1>7. Scanned(row, panel, best) =
          CHOOSE h : h = [n \in 0..N |-> IF n = 0 THEN first ELSE ScanStep(row, h[n - 1], at(n))]
    BY DEF Scanned, N, first, at
  <1> DEFINE s == Scanned(row, panel, best)
  <1>8. s = [n \in 0..N |-> IF n = 0 THEN first ELSE ScanStep(row, s[n - 1], at(n))]
    BY <1>6, <1>7
  <1> HIDE DEF s
  <1>9. s[0] = first /\ \A n \in 1..N : s[n] = ScanStep(row, s[n - 1], at(n))
    BY <1>1, <1>8
  <1> DEFINE Good == {n \in 0..N : s[n] = g[n]}
  <1>10. 0 \in Good /\ \A n \in 1..N : n - 1 \in Good => n \in Good
    BY <1>1, <1>5, <1>9
  <1>11. \A n \in 0..N : n \in Good
    <2> HIDE DEF Good
    <2> QED
      BY <1>1, <1>10, Upwards
  <1>12. s \in [0..N -> ScanStates]
    <2>1. \A n \in 0..N : s[n] \in ScanStates
      BY <1>5, <1>11
    <2> QED
      BY <1>8, <2>1
  <1> QED
    BY <1>9, <1>12 DEF s, N, first, at

LEMMA PanelBestType ==
  ASSUME NEW row \in Rows, NEW panel \in 0..Panels - 1, NEW best \in Classes
  PROVE  PanelBest(row, panel, best) \in Classes
  <1>1. PanelCount(panel) \in 0..PanelCount(panel)
    BY PanelFacts
  <1>2. Scanned(row, panel, best) \in [0..PanelCount(panel) -> ScanStates]
    BY ScanFacts
  <1>3. Scanned(row, panel, best)[PanelCount(panel)] \in ScanStates
    BY <1>1, <1>2
  <1> QED
    BY <1>3 DEF PanelBest, ScanStates

LEMMA PanelBestIs ==
  ASSUME NEW row \in Rows, NEW panel \in 0..Panels - 1, NEW best,
         BestUpTo(row, PanelBase(panel), best)
  PROVE  BestUpTo(row, PanelBase(panel) + PanelCount(panel), PanelBest(row, panel, best))
  <1> DEFINE s == Scanned(row, panel, best)
             N == PanelCount(panel)
             base == PanelBase(panel)
  <1>1. /\ best \in Classes /\ base \in Nat /\ N \in Nat /\ base + N <= ClassCount
        /\ ClassCount \in Nat /\ Classes = 0..ClassCount - 1 /\ ColumnTile \in Nat
        /\ base + N = Smaller(ClassCount, PanelBase(panel + 1))
    BY ClassFacts, PanelFacts DEF BestUpTo, Smaller
  <1>2. /\ s[0] = [value |-> KeptValue(row, panel, best), best |-> best]
        /\ \A n \in 1..N : s[n] = ScanStep(row, s[n - 1], base + n - 1)
    BY <1>1, ScanFacts
  <1>3. KeptValue(row, panel, best) = row[best]
    <2>1. CASE panel = 0
      <3>1. base = 0
        BY <2>1, PanelFacts DEF PanelBase
      <3>2. best = 0
        BY <1>1, <3>1 DEF BestUpTo
      <3> QED
        BY <2>1, <3>2 DEF KeptValue
    <2>2. CASE panel # 0
      BY <2>2 DEF KeptValue
    <2> QED
      BY <2>1, <2>2
  <1> HIDE DEF s, N, base
  <1> DEFINE Good == {n \in 0..N : s[n].value = row[s[n].best] /\ BestUpTo(row, base + n, s[n].best)}
  <1>4. 0 \in Good
    <2>1. s[0].value = row[s[0].best] /\ s[0].best = best /\ base + 0 = base
      BY <1>1, <1>2, <1>3
    <2>2. BestUpTo(row, base + 0, s[0].best)
      BY <2>1 DEF base
    <2> QED
      BY <1>1, <2>1, <2>2
  <1>5. ASSUME NEW n \in 1..N, n - 1 \in Good
        PROVE  n \in Good
    <2> DEFINE c == base + n - 1
               b == s[n - 1].best
    <2>1. s[n - 1].value = row[b] /\ BestUpTo(row, base + (n - 1), b) /\ base + (n - 1) = c
      BY <1>1, <1>5
    <2>2. c \in Classes /\ c + 1 = base + n
      BY <1>1
    <2>3. s[n] = ScanStep(row, s[n - 1], c)
      BY <1>2
    <2> HIDE DEF c
    <2>4. BestUpTo(row, c, b)
      BY <2>1
    <2>5. BestUpTo(row, c + 1, IF row[c] > row[b] THEN c ELSE b)
      BY <2>2, <2>4, BestStep
    <2>6. s[n].best = (IF row[c] > row[b] THEN c ELSE b) /\ s[n].value = row[s[n].best]
      BY <2>1, <2>3 DEF ScanStep
    <2> QED
      BY <2>2, <2>5, <2>6
  <1>6. N \in Good
    <2>1. N \in Nat /\ \A n \in 1..N : n - 1 \in Good => n \in Good
      BY <1>1, <1>5
    <2>2. \A n \in 0..N : n \in Good
      <3> HIDE DEF Good
      <3> QED
        BY <1>4, <2>1, Upwards
    <2> QED
      BY <2>1, <2>2
  <1> QED
    BY <1>6 DEF PanelBest, s, N, base

LEMMA FusedBestIs ==
  ASSUME NEW row \in Rows
  PROVE  BestUpTo(row, ClassCount, FusedBest(row))
  <1> DEFINE F == [p \in (1..Panels) \X Classes |-> PanelBest(row, p[1] - 1, p[2])]
             found == CHOOSE g : g = [p \in 0..Panels |->
                        IF p = 0 THEN 0 ELSE PanelBest(row, p - 1, g[p - 1])]
  <1>1. Panels \in Nat /\ 0 \in Classes /\ ClassCount \in Nat
    BY PanelFacts, ClassFacts
  <1>2. \A p \in 1..Panels, b \in Classes : p - 1 \in 0..Panels - 1 /\ PanelBest(row, p - 1, b) \in Classes
    BY <1>1, PanelBestType
  <1>3. Steps(Panels, Classes, 0, F)
    BY <1>1, <1>2 DEF Steps
  <1>4. PICK g : Traces(g, Panels, Classes, 0, F)
    <2> HIDE DEF F
    <2> QED
      BY <1>3, Recursion
  <1>5. /\ g \in [0..Panels -> Classes] /\ g[0] = 0
        /\ \A p \in 1..Panels : g[p] = PanelBest(row, p - 1, g[p - 1])
    <2>1. /\ g \in [0..Panels -> Classes] /\ g[0] = 0
          /\ \A p \in 1..Panels : g[p] = F[<<p, g[p - 1]>>]
      <3> HIDE DEF F
      <3> QED
        BY <1>4 DEF Traces
    <2>2. \A p \in 1..Panels : g[p - 1] \in Classes
      BY <1>1, <2>1
    <2> QED
      BY <1>1, <2>1, <2>2
  <1>6. g = [p \in 0..Panels |-> IF p = 0 THEN 0 ELSE PanelBest(row, p - 1, g[p - 1])]
    BY <1>1, <1>5
  <1>7. found = [p \in 0..Panels |-> IF p = 0 THEN 0 ELSE PanelBest(row, p - 1, found[p - 1])]
    BY <1>6
  <1> HIDE DEF found
  <1>8. found[0] = 0 /\ \A p \in 1..Panels : found[p] = PanelBest(row, p - 1, found[p - 1])
    BY <1>1, <1>7
  <1> DEFINE Good == {p \in 0..Panels : BestUpTo(row, Smaller(ClassCount, PanelBase(p)), found[p])}
  <1>9. 0 \in Good
    <2>1. Smaller(ClassCount, PanelBase(0)) = 0
      BY <1>1, PanelFacts DEF PanelBase, Smaller
    <2>2. BestUpTo(row, 0, found[0])
      BY <1>1, <1>8 DEF BestUpTo
    <2> QED
      BY <1>1, <2>1, <2>2
  <1>10. ASSUME NEW p \in 1..Panels, p - 1 \in Good
         PROVE  p \in Good
    <2>1. /\ p - 1 \in 0..Panels - 1 /\ (p - 1) + 1 = p
          /\ BestUpTo(row, Smaller(ClassCount, PanelBase(p - 1)), found[p - 1])
      BY <1>1, <1>10
    <2>2. /\ PanelBase(p - 1) \in Nat /\ PanelBase(p - 1) < ClassCount
          /\ PanelBase(p - 1) + PanelCount(p - 1) = Smaller(ClassCount, PanelBase(p))
      BY <2>1, PanelFacts
    <2>3. Smaller(ClassCount, PanelBase(p - 1)) = PanelBase(p - 1)
      BY <1>1, <2>2 DEF Smaller
    <2>4. BestUpTo(row, PanelBase(p - 1) + PanelCount(p - 1), PanelBest(row, p - 1, found[p - 1]))
      BY <2>1, <2>3, PanelBestIs
    <2> QED
      BY <1>8, <2>2, <2>4
  <1>11. Panels \in Good
    <2> HIDE DEF Good
    <2> QED
      BY <1>1, <1>9, <1>10, Upwards
  <1>12. Smaller(ClassCount, PanelBase(Panels)) = ClassCount
    <2>1. PanelBase(Panels) \in Nat /\ ClassCount <= PanelBase(Panels)
      BY PanelFacts DEF PanelBase
    <2> QED
      BY <1>1, <2>1 DEF Smaller
  <1>13. FusedBest(row) = found[Panels]
    BY DEF FusedBest, found, PanelBest, Scanned, PanelBase, PanelCount, ScanStep
  <1> QED
    BY <1>11, <1>12, <1>13

-----------------------------------------------------------------------------
(* Every way to the classes finds the best path and its probabilities *)

ReadRow(g, line, t) == [c \in Classes |-> Product(g, line[t], c)]

Certain(g, line, t) ==
  Probability(ReadRow(g, line, t), BestPath(g, line)[t], ReadRow(g, line, t)[BestPath(g, line)[t]])

LineFits(g, line) ==
  /\ line \in Seq(Seq(Int)) /\ Len(line) \in 0..MaxSteps
  /\ \A t \in DOMAIN line : Fed(g, line[t])

LEMMA RowType ==
  ASSUME NEW g, NEW line, LineFits(g, line), NEW t \in DOMAIN line
  PROVE  ReadRow(g, line, t) \in Rows
  <1>1. \A c \in Classes : Product(g, line[t], c) \in Int
    BY TermFacts DEF LineFits
  <1> QED
    BY <1>1 DEF ReadRow, Rows

LEMMA PathIs ==
  ASSUME NEW g, NEW line, LineFits(g, line), NEW t \in DOMAIN line, NEW b,
         BestUpTo(ReadRow(g, line, t), ClassCount, b)
  PROVE  BestPath(g, line)[t] = b
  <1> DEFINE row == ReadRow(g, line, t)
             Wins(c) == \A d \in Classes : LET gap == row[c] - row[d]
                                           IN gap > 0 \/ (gap = 0 /\ c <= d)
  <1>1. /\ row \in Rows /\ Classes = 0..ClassCount - 1 /\ \A c \in Classes : row[c] \in Int
        /\ ClassCount \in Nat
    BY RowType, ClassFacts DEF Rows
  <1>2. \A c \in Classes : row[c] = Product(g, line[t], c)
    BY DEF ReadRow
  <1>3. BestPath(g, line)[t] = CHOOSE c \in Classes : \A d \in Classes :
          LET gap == Product(g, line[t], c) - Product(g, line[t], d)
          IN gap > 0 \/ (gap = 0 /\ c <= d)
    BY DEF BestPath
  <1>4. BestPath(g, line)[t] = CHOOSE c \in Classes : Wins(c)
    <2> HIDE DEF row
    <2> QED
      BY <1>2, <1>3, Zenon
  <1>5. BestUpTo(row, ClassCount, b)
    OBVIOUS
  <1> HIDE DEF row
  <1>6. ASSUME NEW c \in Classes
        PROVE  Wins(c) <=> BestUpTo(row, ClassCount, c)
    <2>1. c \in Nat /\ (c = 0 \/ c < ClassCount) /\ row[c] \in Int
      BY <1>1
    <2>2. \A d \in Classes : d \in 0..ClassCount - 1 /\ row[d] \in Int /\ d \in Nat
      BY <1>1
    <2>3. \A d \in 0..ClassCount - 1 : d \in Classes
      BY <1>1
    <2> QED
      BY <2>1, <2>2, <2>3 DEF BestUpTo
  <1>7. b \in Classes /\ Wins(b)
    <2>1. b \in Classes
      BY <1>5 DEF BestUpTo
    <2> QED
      BY <1>5, <1>6, <2>1
  <1> HIDE DEF Wins
  <1>8. BestPath(g, line)[t] \in Classes /\ Wins(BestPath(g, line)[t])
    BY <1>4, <1>7
  <1>9. BestUpTo(row, ClassCount, BestPath(g, line)[t])
    BY <1>6, <1>8
  <1> QED
    BY <1>1, <1>5, <1>9, BestUnique

LEMMA PathType ==
  ASSUME NEW g, NEW line, LineFits(g, line)
  PROVE  /\ BestPath(g, line) \in [DOMAIN line -> Classes]
         /\ DOMAIN line = 1..Len(line) /\ Len(line) \in Nat
         /\ BestPath(g, line) \in Seq(Classes) /\ Len(BestPath(g, line)) = Len(line)
  <1>1. DOMAIN line = 1..Len(line) /\ Len(line) \in Nat
    BY DEF LineFits
  <1>2. \A t \in DOMAIN line : BestPath(g, line)[t] \in Classes
    <2>1. ASSUME NEW t \in DOMAIN line
          PROVE  BestPath(g, line)[t] \in Classes
      <3>1. BestUpTo(ReadRow(g, line, t), ClassCount, FirstBest(ReadRow(g, line, t)))
        BY RowType, FirstBestIs
      <3>2. BestPath(g, line)[t] = FirstBest(ReadRow(g, line, t))
        BY <3>1, PathIs
      <3> QED
        BY <3>1, <3>2 DEF BestUpTo
    <2> QED
      BY <2>1
  <1>3. BestPath(g, line) \in [DOMAIN line -> Classes]
    BY <1>2 DEF BestPath
  <1> QED
    BY <1>1, <1>3

\* Less the same number everywhere, a row has the same best class.
LEMMA ShiftedBest ==
  ASSUME NEW row \in Rows, NEW m \in Int, NEW shifted, shifted = [c \in Classes |-> row[c] - m], NEW b,
         BestUpTo(shifted, ClassCount, b)
  PROVE  BestUpTo(row, ClassCount, b)
  <1>1. /\ \A d \in 0..ClassCount - 1 : d \in Classes /\ row[d] \in Int /\ shifted[d] = row[d] - m
        /\ b \in Classes /\ row[b] \in Int /\ shifted[b] = row[b] - m
    BY ClassFacts DEF Rows, BestUpTo
  <1> QED
    BY <1>1 DEF BestUpTo

\* What the decoder is given at the steps which are not spoiled: the best class, numbers,
\* and the probability of a character which is emitted there.
Exact(decoded, g, line, spoiled) ==
  /\ decoded.best \in Seq(Classes) /\ Len(decoded.best) = Len(line)
  /\ \A t \in DOMAIN line \ spoiled :
       /\ decoded.best[t] = BestPath(g, line)[t]
       /\ decoded.finite[t]
       /\ Emitted(decoded.best, t) => decoded.value[t] = Certain(g, line, t)

\* Spoiled steps have any class and leave the others alone.
LEMMA SpoiledPath ==
  ASSUME NEW g, NEW line, LineFits(g, line), NEW spoiled, NEW outcome \in Outcomes(spoiled)
  PROVE  /\ Spoil(BestPath(g, line), outcome) \in [DOMAIN line -> Classes]
         /\ Spoil(BestPath(g, line), outcome) \in Seq(Classes)
         /\ Len(Spoil(BestPath(g, line), outcome)) = Len(line)
         /\ \A t \in DOMAIN line \ spoiled : Spoil(BestPath(g, line), outcome)[t] = BestPath(g, line)[t]
  <1> DEFINE path == BestPath(g, line)
             best == Spoil(path, outcome)
  <1>1. path \in [DOMAIN line -> Classes] /\ DOMAIN line = 1..Len(line) /\ Len(line) \in Nat
    BY PathType
  <1> HIDE DEF path
  <1>2. DOMAIN outcome = spoiled /\ \A t \in spoiled : outcome[t].best \in Classes
    BY DEF Outcomes
  <1>3. best = [t \in DOMAIN line |-> IF t \in spoiled THEN outcome[t].best ELSE path[t]]
    BY <1>1, <1>2 DEF Spoil
  <1>4. best \in [DOMAIN line -> Classes]
    BY <1>1, <1>2, <1>3
  <1>5. \A t \in DOMAIN line \ spoiled : best[t] = path[t]
    BY <1>3
  <1> HIDE DEF best
  <1>6. best \in Seq(Classes) /\ Len(best) = Len(line)
    BY <1>1, <1>4
  <1> QED
    BY <1>4, <1>5, <1>6 DEF best, path

LEMMA GreedyIsExact ==
  ASSUME NEW g, NEW line, LineFits(g, line), NEW spoiled, NEW outcome \in Outcomes(spoiled)
  PROVE  Exact(GreedyClasses(g, line, Logits(g, line), outcome), g, line, spoiled)
  <1> DEFINE logits == Logits(g, line)
             found == [t \in DOMAIN line |->
                         IF Fused(g, line) THEN FusedBest(logits[t]) ELSE FirstBest(logits[t])]
             best == Spoil(found, outcome)
             finite == [t \in DOMAIN best |->
                          t \in DOMAIN outcome /\ Emitted(best, t) => outcome[t].finite]
  <1>1. logits = [t \in DOMAIN line |-> ReadRow(g, line, t)]
    BY LogitsExact DEF LineFits, ReadRow
  <1> HIDE DEF logits
  <1>2. found = BestPath(g, line)
    <2>1. ASSUME NEW t \in DOMAIN line
          PROVE  /\ FusedBest(logits[t]) = BestPath(g, line)[t]
                 /\ FirstBest(logits[t]) = BestPath(g, line)[t]
      <3>1. logits[t] = ReadRow(g, line, t) /\ ReadRow(g, line, t) \in Rows
        BY <1>1, RowType
      <3>2. /\ BestUpTo(ReadRow(g, line, t), ClassCount, FusedBest(logits[t]))
            /\ BestUpTo(ReadRow(g, line, t), ClassCount, FirstBest(logits[t]))
        BY <3>1, FusedBestIs, FirstBestIs
      <3> QED
        BY <3>2, PathIs
    <2>2. found = [t \in DOMAIN line |-> BestPath(g, line)[t]]
      BY <2>1
    <2>3. BestPath(g, line) \in [DOMAIN line -> Classes]
      BY PathType
    <2> QED
      BY <2>2, <2>3
  <1>3. GreedyClasses(g, line, logits, outcome)
          = [best |-> best, value |-> EmittedSoftmax(logits, best), finite |-> finite]
    BY DEF GreedyClasses
  <1> HIDE DEF found
  <1>4. /\ best \in Seq(Classes) /\ Len(best) = Len(line) /\ DOMAIN best = DOMAIN line
        /\ \A t \in DOMAIN line \ spoiled : best[t] = BestPath(g, line)[t]
    BY <1>2, SpoiledPath
  <1>5. DOMAIN outcome = spoiled
    BY DEF Outcomes
  <1> HIDE DEF best
  <1>6. ASSUME NEW t \in DOMAIN line \ spoiled
        PROVE  finite[t] /\ (Emitted(best, t) => EmittedSoftmax(logits, best)[t] = Certain(g, line, t))
    <2>1. finite[t]
      BY <1>4, <1>5
    <2>2. logits[t] = ReadRow(g, line, t) /\ t \in DOMAIN logits /\ best[t] = BestPath(g, line)[t]
      BY <1>1, <1>4
    <2> HIDE DEF finite
    <2> QED
      BY <2>1, <2>2 DEF EmittedSoftmax, Certain
  <1> HIDE DEF finite
  <1> QED
    BY <1>3, <1>4, <1>6 DEF Exact, logits

LEMMA SoftmaxIsExact ==
  ASSUME NEW g, NEW line, LineFits(g, line), NEW spoiled, NEW outcome \in Outcomes(spoiled)
  PROVE  Exact(BestOf([t \in DOMAIN line |-> Softmax(Logits(g, line)[t])], outcome), g, line, spoiled)
  <1> DEFINE logits == Logits(g, line)
             probabilities == [t \in DOMAIN line |-> Softmax(logits[t])]
             found == [t \in DOMAIN probabilities |->
                         FirstBest([c \in Classes |-> probabilities[t][c].logit])]
             best == Spoil(found, outcome)
             value == [t \in DOMAIN best |-> probabilities[t][best[t]]]
             finite == [t \in DOMAIN best |-> t \in DOMAIN outcome => outcome[t].finite]
  <1>1. logits = [t \in DOMAIN line |-> ReadRow(g, line, t)]
    BY LogitsExact DEF LineFits, ReadRow
  <1> HIDE DEF logits
  <1>2. ASSUME NEW t \in DOMAIN line
        PROVE  /\ found[t] = BestPath(g, line)[t]
               /\ probabilities[t][BestPath(g, line)[t]] = Certain(g, line, t)
    <2> DEFINE row == ReadRow(g, line, t)
               m == row[FirstBest(row)]
               shifted == [c \in Classes |-> row[c] - m]
    <2>1. row \in Rows /\ logits[t] = row /\ probabilities[t] = Softmax(row)
      BY <1>1, RowType
    <2> HIDE DEF row
    <2>2. /\ BestUpTo(row, ClassCount, FirstBest(row)) /\ m \in Int
      <3>1. BestUpTo(row, ClassCount, FirstBest(row))
        BY <2>1, FirstBestIs
      <3> QED
        BY <2>1, <3>1 DEF BestUpTo, Rows
    <2>3. /\ Softmax(row) = [c \in Classes |-> Probability(row, c, m)]
          /\ \A c \in Classes : Probability(row, c, m).logit = row[c] - m
      BY DEF Softmax, Probability
    <2> HIDE DEF m
    <2>4. [c \in Classes |-> probabilities[t][c].logit] = shifted
      BY <2>1, <2>3
    <2>5. shifted \in Rows
      BY <2>1, <2>2 DEF Rows
    <2>6. BestUpTo(shifted, ClassCount, FirstBest(shifted))
      BY <2>5, FirstBestIs
    <2>7. BestUpTo(row, ClassCount, FirstBest(shifted))
      <3> HIDE DEF shifted
      <3>1. shifted = [c \in Classes |-> row[c] - m]
        BY DEF shifted
      <3> QED
        BY <2>1, <2>2, <2>6, <3>1, ShiftedBest
    <2>8. BestPath(g, line)[t] = FirstBest(shifted) /\ BestPath(g, line)[t] = FirstBest(row)
      BY <2>2, <2>7, PathIs DEF row
    <2>9. found[t] = FirstBest(shifted)
      <3>1. found[t] = FirstBest([c \in Classes |-> probabilities[t][c].logit])
        OBVIOUS
      <3> QED
        BY <2>4, <3>1
    <2>10. FirstBest(row) \in Classes
      BY <2>2 DEF BestUpTo
    <2>11. probabilities[t][BestPath(g, line)[t]]
             = Probability(row, BestPath(g, line)[t], row[BestPath(g, line)[t]])
      <3> HIDE DEF found, shifted, probabilities
      <3> QED
        BY <2>1, <2>3, <2>8, <2>10 DEF m
    <2> HIDE DEF found, probabilities
    <2> QED
      BY <2>8, <2>9, <2>11 DEF Certain, row
  <1>3. found = BestPath(g, line)
    <2>1. DOMAIN found = DOMAIN line /\ found = [t \in DOMAIN line |-> found[t]]
      OBVIOUS
    <2>2. BestPath(g, line) = [t \in DOMAIN line |-> BestPath(g, line)[t]]
      BY PathType
    <2> HIDE DEF found
    <2> QED
      BY <1>2, <2>1, <2>2
  <1>4. BestOf(probabilities, outcome) = [best |-> best, value |-> value, finite |-> finite]
    BY DEF BestOf
  <1> HIDE DEF found
  <1>5. /\ best \in Seq(Classes) /\ Len(best) = Len(line) /\ DOMAIN best = DOMAIN line
        /\ \A t \in DOMAIN line \ spoiled : best[t] = BestPath(g, line)[t]
    BY <1>3, SpoiledPath
  <1>6. DOMAIN outcome = spoiled
    BY DEF Outcomes
  <1> HIDE DEF best, probabilities
  <1>7. ASSUME NEW t \in DOMAIN line \ spoiled
        PROVE  finite[t] /\ value[t] = Certain(g, line, t)
    <2>1. finite[t]
      BY <1>5, <1>6
    <2>2. value[t] = probabilities[t][best[t]] /\ best[t] = BestPath(g, line)[t]
      BY <1>5
    <2> HIDE DEF finite, value
    <2> QED
      BY <1>2, <2>1, <2>2
  <1> HIDE DEF finite, value
  <1>8. Exact(BestOf(probabilities, outcome), g, line, spoiled)
    BY <1>4, <1>5, <1>7 DEF Exact
  <1> QED
    BY <1>8 DEF logits, probabilities

-----------------------------------------------------------------------------
(* The characters of a path, and their number up to a step *)

UpTo(path, t) == {s \in Begun(path) : s <= t}
Characters(path, t) == Cardinality(UpTo(path, t))

\* decode_pass emits a character exactly where a run of one class begins.
LEMMA BegunIsEmitted ==
  ASSUME NEW path \in Seq(Classes)
  PROVE  /\ DOMAIN path = 1..Len(path) /\ Len(path) \in Nat
         /\ Begun(path) \subseteq 1..Len(path)
         /\ \A t \in 1..Len(path) : t \in Begun(path) <=> Emitted(path, t)
  BY DEF Begun, Emitted

LEMMA CharactersCount ==
  ASSUME NEW path \in Seq(Classes), NEW t \in 0..Len(path)
  PROVE  /\ IsFiniteSet(UpTo(path, t)) /\ Characters(path, t) \in Nat
         /\ t = 0 => Characters(path, t) = 0
         /\ t # 0 => Characters(path, t) = IF Emitted(path, t) THEN Characters(path, t - 1) + 1
                                           ELSE Characters(path, t - 1)
         /\ Characters(path, t) <= Characters(path, Len(path))
         /\ Characters(path, Len(path)) = Cardinality(Begun(path))
  <1>1. /\ Len(path) \in Nat
        /\ Begun(path) \subseteq 1..Len(path)
        /\ \A s \in 1..Len(path) : s \in Begun(path) <=> Emitted(path, s)
    BY BegunIsEmitted
  <1>2. UpTo(path, Len(path)) = Begun(path)
    BY <1>1 DEF UpTo
  <1>3. IsFiniteSet(Begun(path))
    <2>1. 1 \in Int /\ Len(path) \in Int
      BY <1>1
    <2>2. IsFiniteSet(1..Len(path))
      BY <2>1, FS_Interval
    <2> QED
      BY <1>1, <2>2, FS_Subset
  <1>4. /\ IsFiniteSet(UpTo(path, t))
        /\ Characters(path, t) <= Characters(path, Len(path))
        /\ Characters(path, t) \in Nat
    <2>1. UpTo(path, t) \subseteq Begun(path)
      BY DEF UpTo
    <2>2. IsFiniteSet(UpTo(path, t)) /\ Cardinality(UpTo(path, t)) <= Cardinality(Begun(path))
      BY <1>3, <2>1, FS_Subset
    <2>3. Cardinality(UpTo(path, t)) \in Nat
      BY <2>2, FS_CardinalityType
    <2> QED
      BY <1>2, <2>2, <2>3 DEF Characters
  <1>5. ASSUME t = 0 PROVE Characters(path, t) = 0
    <2>1. UpTo(path, t) = {}
      BY <1>1, <1>5 DEF UpTo
    <2> QED
      BY <2>1, FS_EmptySet DEF Characters
  <1>6. ASSUME t # 0
        PROVE  Characters(path, t) = IF Emitted(path, t) THEN Characters(path, t - 1) + 1
                                     ELSE Characters(path, t - 1)
    <2>1. t \in 1..Len(path) /\ t - 1 \in 0..Len(path)
      BY <1>1, <1>6
    <2>2. IsFiniteSet(UpTo(path, t - 1))
      <3>1. UpTo(path, t - 1) \subseteq Begun(path)
        BY DEF UpTo
      <3> QED
        BY <1>3, <3>1, FS_Subset
    <2>3. t \notin UpTo(path, t - 1)
      BY <2>1 DEF UpTo
    <2>4. UpTo(path, t) = IF Emitted(path, t) THEN UpTo(path, t - 1) \cup {t} ELSE UpTo(path, t - 1)
      <3>1. \A s \in Begun(path) : s \in 1..Len(path) /\ (s <= t <=> s <= t - 1 \/ s = t)
        BY <1>1, <2>1
      <3>2. t \in Begun(path) <=> Emitted(path, t)
        BY <1>1, <2>1
      <3>3. Emitted(path, t) => UpTo(path, t) = UpTo(path, t - 1) \cup {t}
        BY <2>1, <3>1, <3>2 DEF UpTo
      <3>4. ~Emitted(path, t) => UpTo(path, t) = UpTo(path, t - 1)
        BY <2>1, <3>1, <3>2 DEF UpTo
      <3> QED
        BY <3>3, <3>4
    <2>5. Cardinality(UpTo(path, t - 1) \cup {t}) = Cardinality(UpTo(path, t - 1)) + 1
      BY <2>2, <2>3, FS_AddElement
    <2> QED
      BY <2>4, <2>5 DEF Characters
  <1> QED
    BY <1>2, <1>4, <1>5, <1>6 DEF Characters

\* The i-th character begins at the i-th start.
LEMMA StartsFacts ==
  ASSUME NEW path \in Seq(Classes)
  PROVE  /\ DOMAIN RunStarts(path) = 1..Characters(path, Len(path))
         /\ \A i \in 1..Characters(path, Len(path)) :
              RunStarts(path)[i] \in Begun(path) /\ Characters(path, RunStarts(path)[i]) = i
         /\ \A t \in Begun(path) : /\ Characters(path, t) \in 1..Characters(path, Len(path))
                                   /\ RunStarts(path)[Characters(path, t)] = t
  <1> DEFINE N == Len(path)
             C(t) == Characters(path, t)
  <1>1. /\ N \in Nat /\ Begun(path) \subseteq 1..N
        /\ \A s \in 1..N : s \in Begun(path) <=> Emitted(path, s)
    BY BegunIsEmitted
  <1>2. \A t \in 0..N :
          /\ IsFiniteSet(UpTo(path, t)) /\ C(t) \in Nat /\ C(t) <= C(N)
          /\ t = 0 => C(t) = 0
          /\ t # 0 => C(t) = IF Emitted(path, t) THEN C(t - 1) + 1 ELSE C(t - 1)
          /\ C(N) = Cardinality(Begun(path))
    BY CharactersCount
  <1>3. ASSUME NEW s \in Begun(path), NEW t \in Begun(path), s < t
        PROVE  C(s) < C(t)
    <2>1. /\ UpTo(path, s) \subseteq UpTo(path, t)
          /\ t \in UpTo(path, t) /\ t \notin UpTo(path, s)
      BY <1>1, <1>3 DEF UpTo
    <2>2. IsFiniteSet(UpTo(path, t)) /\ t \in 0..N /\ s \in 0..N
      BY <1>1, <1>2
    <2>3. Cardinality(UpTo(path, s)) < Cardinality(UpTo(path, t))
      <3>1. UpTo(path, s) # UpTo(path, t)
        BY <2>1
      <3>2. /\ Cardinality(UpTo(path, s)) <= Cardinality(UpTo(path, t))
            /\ Cardinality(UpTo(path, s)) # Cardinality(UpTo(path, t))
        BY <2>1, <2>2, <3>1, FS_Subset
      <3>3. Cardinality(UpTo(path, s)) \in Nat /\ Cardinality(UpTo(path, t)) \in Nat
        BY <1>2, <2>2 DEF Characters
      <3> QED
        BY <3>2, <3>3
    <2> QED
      BY <2>3 DEF Characters
  <1>4. \A s, t \in Begun(path) : C(s) = C(t) => s = t
    <2> TAKE s, t \in Begun(path)
    <2>1. s \in 0..N /\ t \in 0..N /\ C(s) \in Nat /\ C(t) \in Nat
      BY <1>1, <1>2
    <2>2. s < t => C(s) < C(t)
      BY <1>3
    <2>3. t < s => C(t) < C(s)
      BY <1>3
    <2> HIDE DEF C
    <2> QED
      BY <2>1, <2>2, <2>3
  <1>5. \A t \in Begun(path) : C(t) \in 1..C(N)
    <2> TAKE t \in Begun(path)
    <2>1. t \in 0..N /\ t # 0 /\ t - 1 \in 0..N /\ Emitted(path, t)
      BY <1>1
    <2> QED
      BY <1>2, <2>1
  <1>6. \A i \in 1..C(N) : \E t \in Begun(path) : C(t) = i
    <2> DEFINE S == {t \in 0..N : \A i \in 1..C(t) : \E s \in Begun(path) : C(s) = i}
    <2>1. 0 \in S
      BY <1>1, <1>2
    <2>2. ASSUME NEW n \in 1..N, n - 1 \in S PROVE n \in S
      <3>1. n \in 0..N /\ n - 1 \in 0..N /\ n # 0
        BY <1>1
      <3>2. C(n) \in Nat /\ C(n - 1) \in Nat
            /\ C(n) = IF Emitted(path, n) THEN C(n - 1) + 1 ELSE C(n - 1)
        BY <1>2, <3>1
      <3>3. n \in Begun(path) <=> Emitted(path, n)
        BY <1>1
      <3>4. \A i \in 1..C(n - 1) : \E s \in Begun(path) : C(s) = i
        BY <2>2
      <3>5. \A i \in 1..C(n) : i \in 1..C(n - 1) \/ (i = C(n) /\ Emitted(path, n))
        <4> HIDE DEF C
        <4> QED
          BY <3>2
      <3>6. \A i \in 1..C(n) : \E s \in Begun(path) : C(s) = i
        <4> HIDE DEF C
        <4> QED
          BY <3>3, <3>4, <3>5
      <3> QED
        BY <3>1, <3>6
    <2>3. N \in 0..N
      BY <1>1
    <2> HIDE DEF S
    <2>4. \A n \in 0..N : n \in S
      BY <1>1, <2>1, <2>2, Upwards
    <2> QED
      BY <2>3, <2>4 DEF S
  <1>7. C(N) = Cardinality(Begun(path))
    BY <1>1, <1>2
  <1>8. RunStarts(path) = [i \in 1..C(N) |-> CHOOSE t \in Begun(path) : C(t) = i]
    BY <1>7, Zenon DEF RunStarts, Characters, UpTo
  <1>9. ASSUME NEW i \in 1..C(N)
        PROVE  RunStarts(path)[i] \in Begun(path) /\ C(RunStarts(path)[i]) = i
    <2>1. RunStarts(path)[i] = CHOOSE t \in Begun(path) : C(t) = i
      BY <1>8
    <2>2. \E t \in Begun(path) : C(t) = i
      BY <1>6
    <2> HIDE DEF C
    <2> QED
      BY <2>1, <2>2
  <1>10. ASSUME NEW t \in Begun(path)
         PROVE  RunStarts(path)[C(t)] = t
    <2>1. C(t) \in 1..C(N)
      BY <1>5
    <2> HIDE DEF C
    <2> QED
      BY <1>4, <1>9, <2>1
  <1>11. DOMAIN RunStarts(path) = 1..C(N)
    BY <1>8
  <1> HIDE DEF C
  <1> QED
    BY <1>5, <1>9, <1>10, <1>11 DEF C

-----------------------------------------------------------------------------
(* The text of a path *)

\* No byte of a label is a Nul or an untouched one.
Bytes == (Nat \ {0}) \X Nat

\* The characters of a path, one after another.
Labels(path) == [i \in 1..Characters(path, Len(path)) |-> LabelBytes(path[RunStarts(path)[i]])]

First(s, n) == [i \in 1..n |-> s[i]]

\* The text after n characters.
TextOf(path, n) == Ext!FlattenSeq(First(Labels(path), n))

LEMMA LongestLabel ==
  /\ MaxLabelBytes \in Nat \ {0}
  /\ \A i \in DOMAIN LabelLengths : LabelLengths[i] <= MaxLabelBytes
  <1> DEFINE n == Len(LabelLengths)
             lengths == {LabelLengths[i] : i \in DOMAIN LabelLengths} \cup {1}
             S == {k \in 0..n : \E m \in lengths : m >= 1 /\ \A i \in 1..k : m >= LabelLengths[i]}
  <1>1. /\ n \in Nat /\ DOMAIN LabelLengths = 1..n
        /\ \A i \in 1..n : LabelLengths[i] \in Nat
    BY LineReaderAssumption
  <1>2. lengths \subseteq Nat /\ 1 \in lengths /\ \A i \in 1..n : LabelLengths[i] \in lengths
    BY <1>1
  <1>3. \A m \in lengths : m = 1 \/ \E i \in 1..n : m = LabelLengths[i]
    BY <1>1
  <1> HIDE DEF lengths
  <1>4. 0 \in S
    BY <1>1, <1>2
  <1>5. ASSUME NEW k \in 1..n, k - 1 \in S PROVE k \in S
    <2>1. PICK m \in lengths : m >= 1 /\ \A i \in 1..k - 1 : m >= LabelLengths[i]
      BY <1>5
    <2>2. m \in Nat /\ LabelLengths[k] \in lengths /\ LabelLengths[k] \in Nat
      BY <1>1, <1>2
    <2>3. CASE m >= LabelLengths[k]
      <3>1. \A i \in 1..k : m >= LabelLengths[i]
        BY <1>1, <2>1, <2>3
      <3> QED
        BY <1>1, <2>1, <3>1
    <2>4. CASE ~(m >= LabelLengths[k])
      <3>1. \A i \in 1..k : LabelLengths[k] >= LabelLengths[i]
        BY <1>1, <2>1, <2>2, <2>4
      <3>2. LabelLengths[k] >= 1
        BY <2>1, <2>2, <2>4
      <3> QED
        BY <1>1, <2>2, <3>1, <3>2
    <2> QED
      BY <2>3, <2>4
  <1>6. n \in S
    <2> HIDE DEF S
    <2>1. \A k \in 0..n : k \in S
      BY <1>1, <1>4, <1>5, Upwards
    <2> QED
      BY <1>1, <2>1
  <1>7. \E m \in lengths : \A l \in lengths : m >= l
    <2>1. PICK m \in lengths : m >= 1 /\ \A i \in 1..n : m >= LabelLengths[i]
      BY <1>6
    <2>2. \A l \in lengths : m >= l
      BY <1>3, <2>1
    <2> QED
      BY <2>2
  <1>8. MaxLabelBytes = CHOOSE m \in lengths : \A l \in lengths : m >= l
    BY DEF MaxLabelBytes, lengths
  <1>9. MaxLabelBytes \in lengths /\ \A l \in lengths : MaxLabelBytes >= l
    BY <1>7, <1>8
  <1>10. MaxLabelBytes \in Nat \ {0}
    BY <1>2, <1>9
  <1>11. \A i \in DOMAIN LabelLengths : LabelLengths[i] <= MaxLabelBytes
    BY <1>1, <1>2, <1>9, <1>10
  <1> QED
    BY <1>10, <1>11

\* A label may be empty.
LEMMA LabelFacts ==
  ASSUME NEW c \in Classes, c # 0
  PROVE  /\ LabelBytes(c) \in Seq(Bytes)
         /\ Len(LabelBytes(c)) \in Nat /\ Len(LabelBytes(c)) <= MaxLabelBytes
         /\ DOMAIN LabelBytes(c) = 1..Len(LabelBytes(c))
  <1> DEFINE n == IF c = ClassCount - 1 THEN 1 ELSE LabelLengths[c]
  <1>1. /\ Len(LabelLengths) \in Nat /\ DOMAIN LabelLengths = 1..Len(LabelLengths)
        /\ \A i \in 1..Len(LabelLengths) : LabelLengths[i] \in Nat
    BY LineReaderAssumption
  <1>2. c \in Nat /\ (c # ClassCount - 1 => c \in DOMAIN LabelLengths)
    BY <1>1 DEF Classes, ClassCount
  <1>3. n \in Nat /\ n <= MaxLabelBytes
    BY <1>1, <1>2, LongestLabel
  <1> HIDE DEF n
  <1>4. LabelBytes(c) = [k \in 1..n |-> <<c, k>>]
    BY DEF LabelBytes, n
  <1>5. \A k \in 1..n : <<c, k>> \in Bytes
    BY <1>2, <1>3 DEF Bytes
  <1>6. LabelBytes(c) \in Seq(Bytes) /\ Len(LabelBytes(c)) = n
    BY <1>3, <1>4, <1>5
  <1> QED
    BY <1>3, <1>4, <1>6

LEMMA LabelsType ==
  ASSUME NEW path \in Seq(Classes)
  PROVE  /\ Characters(path, Len(path)) \in Nat
         /\ Labels(path) \in [1..Characters(path, Len(path)) -> Seq(Bytes)]
         /\ \A i \in 1..Characters(path, Len(path)) :
              Len(Labels(path)[i]) \in Nat /\ Len(Labels(path)[i]) <= MaxLabelBytes
         /\ \A t \in Begun(path) :
              /\ path[t] \in Classes \ {0}
              /\ Labels(path)[Characters(path, t)] = LabelBytes(path[t])
  <1> DEFINE C == Characters(path, Len(path))
  <1>1. Len(path) \in Nat /\ Begun(path) \subseteq 1..Len(path)
    BY BegunIsEmitted
  <1>2. C \in Nat
    BY <1>1, CharactersCount
  <1>3. \A t \in Begun(path) : path[t] \in Classes \ {0}
    BY <1>1 DEF Begun
  <1>4. \A i \in 1..C : RunStarts(path)[i] \in Begun(path)
    BY StartsFacts
  <1>5. \A t \in Begun(path) : Characters(path, t) \in 1..C /\ RunStarts(path)[Characters(path, t)] = t
    BY StartsFacts
  <1>6. Labels(path) = [i \in 1..C |-> LabelBytes(path[RunStarts(path)[i]])]
    BY DEF Labels
  <1> HIDE DEF C
  <1>7. ASSUME NEW i \in 1..C
        PROVE  /\ Labels(path)[i] \in Seq(Bytes)
               /\ Len(Labels(path)[i]) \in Nat /\ Len(Labels(path)[i]) <= MaxLabelBytes
    <2>1. path[RunStarts(path)[i]] \in Classes /\ path[RunStarts(path)[i]] # 0
      BY <1>3, <1>4
    <2>2. Labels(path)[i] = LabelBytes(path[RunStarts(path)[i]])
      BY <1>6
    <2> QED
      BY <2>1, <2>2, LabelFacts
  <1>8. \A t \in Begun(path) : Labels(path)[Characters(path, t)] = LabelBytes(path[t])
    BY <1>5, <1>6
  <1>9. Labels(path) \in [1..C -> Seq(Bytes)]
    BY <1>6, <1>7
  <1> QED
    BY <1>2, <1>3, <1>7, <1>8, <1>9 DEF C

Concatenates(N, T, G, s) ==
  /\ N \in Nat /\ G \in [0..N -> Seq(T)] /\ s \in [1..N -> Seq(T)]
  /\ G[0] = <<>>
  /\ \A k \in 1..N : G[k] = G[k - 1] \o s[k]

\* FlattenSeq of a prefix is the concatenation so far.
LEMMA FlattenIs ==
  ASSUME NEW N, NEW T, NEW G, NEW s, Concatenates(N, T, G, s), NEW n \in 0..N
  PROVE  Ext!FlattenSeq(First(s, n)) = G[n]
  <1>00. /\ N \in Nat /\ G \in [0..N -> Seq(T)] /\ s \in [1..N -> Seq(T)]
        /\ G[0] = <<>>
        /\ \A k \in 1..N : G[k] = G[k - 1] \o s[k]
    BY DEF Concatenates
  <1>0. /\ n \in Nat
        /\ n # 0 => n \in 1..n
        /\ \A i \in 1..n : i \in 1..N /\ i \in 0..N /\ i - 1 \in 0..N /\ i \in Nat
    BY <1>00
  <1> DEFINE seqs == First(s, n)
             flatten == CHOOSE f : f = [i \in 1..n |-> IF i = 1 THEN seqs[i] ELSE f[i - 1] \o seqs[i]]
             h == [i \in 1..n |-> G[i]]
  <1>1. seqs \in Seq(Seq(T)) /\ Len(seqs) = n /\ \A i \in 1..n : seqs[i] = s[i]
    BY <1>0, <1>00 DEF First
  <1>2. Ext!FlattenSeq(seqs) = IF n = 0 THEN seqs ELSE flatten[n]
    BY <1>1 DEF Ext!FlattenSeq
  <1>3. CASE n = 0
    BY <1>2, <1>3, <1>00 DEF First
  <1>4. CASE n # 0
    <2>1. \A i \in 1..n : /\ i \in 1..N /\ s[i] \in Seq(T) /\ G[i] \in Seq(T)
                           /\ G[i] = IF i = 1 THEN s[i] ELSE G[i - 1] \o s[i]
      <3>1. \A i \in 1..n : i \in 1..N /\ s[i] \in Seq(T) /\ G[i] \in Seq(T) /\ G[i] = G[i - 1] \o s[i]
        BY <1>0, <1>00
      <3>2. \A i \in 1..n : i = 1 => G[i - 1] = <<>> /\ <<>> \o s[i] = s[i]
        BY <1>00, <3>1
      <3> QED
        BY <3>1, <3>2
    <2>2. h = [i \in 1..n |-> IF i = 1 THEN seqs[i] ELSE h[i - 1] \o seqs[i]]
      <3>1. \A i \in 1..n : h[i] = G[i] /\ (i # 1 => h[i - 1] = G[i - 1])
        OBVIOUS
      <3>2. \A i \in 1..n : G[i] = IF i = 1 THEN seqs[i] ELSE h[i - 1] \o seqs[i]
        <4> HIDE DEF h, seqs
        <4>1. ASSUME NEW i \in 1..n
              PROVE  G[i] = IF i = 1 THEN seqs[i] ELSE h[i - 1] \o seqs[i]
          <5>1. seqs[i] = s[i]
            BY <1>1
          <5>2. G[i] = IF i = 1 THEN s[i] ELSE G[i - 1] \o s[i]
            BY <2>1
          <5>3. i # 1 => h[i - 1] = G[i - 1]
            BY <3>1
          <5> QED
            BY <5>1, <5>2, <5>3, Zenon
        <4> QED
          BY <4>1
      <3> QED
        BY <3>2, Zenon
    <2>3. flatten = [i \in 1..n |-> IF i = 1 THEN seqs[i] ELSE flatten[i - 1] \o seqs[i]]
      <3> HIDE DEF h, seqs
      <3> QED
        BY <2>2, Zenon
    <2> DEFINE Bad == {i \in 1..n : flatten[i] # G[i]}
    <2>4. ASSUME Bad # {} PROVE FALSE
      <3>1. Bad \in SUBSET Nat
        <4> HIDE DEF flatten
        <4> QED
          BY <1>0
      <3>2. PICK i \in Bad : \A j \in Bad : i <= j
        <4> HIDE DEF Bad
        <4> QED
          BY <2>4, <3>1, LeastExists
      <3>3. i \in 1..n /\ flatten[i] # G[i]
        OBVIOUS
      <3> HIDE DEF flatten
      <3>4. flatten[i] = IF i = 1 THEN s[i] ELSE flatten[i - 1] \o s[i]
        BY <1>1, <2>3, <3>3
      <3>5. i # 1 => i - 1 \in 1..n /\ i - 1 \notin Bad
        BY <3>2, <3>3
      <3>6. i # 1 => flatten[i - 1] = G[i - 1]
        BY <3>5
      <3> QED
        BY <2>1, <3>3, <3>4, <3>6
    <2>5. flatten[n] = G[n]
      <3> HIDE DEF flatten
      <3> QED
        BY <1>0, <1>4, <2>4
    <2> QED
      BY <1>2, <1>4, <2>5
  <1> QED
    BY <1>3, <1>4

\* One sequence more is appended.
LEMMA FlattenFacts ==
  ASSUME NEW N \in Nat, NEW T, NEW s \in [1..N -> Seq(T)]
  PROVE  /\ Ext!FlattenSeq(First(s, 0)) = <<>>
         /\ \A k \in 0..N : Ext!FlattenSeq(First(s, k)) \in Seq(T)
         /\ \A k \in 1..N :
              Ext!FlattenSeq(First(s, k)) = Ext!FlattenSeq(First(s, k - 1)) \o s[k]
  <1> DEFINE V == Seq(T)
             F == [p \in (1..N) \X V |-> p[2] \o s[p[1]]]
  <1>1. F \in [(1..N) \X V -> V] /\ <<>> \in V
    OBVIOUS
  <1>2. \A k \in 1..N, v \in V : F[<<k, v>>] = v \o s[k]
    OBVIOUS
  <1>3. Steps(N, V, <<>>, F)
    BY <1>1 DEF Steps
  <1> HIDE DEF F
  <1>4. PICK G : Traces(G, N, V, <<>>, F)
    BY <1>3, Recursion
  <1>5. G \in [0..N -> V] /\ G[0] = <<>> /\ \A k \in 1..N : G[k] = F[<<k, G[k - 1]>>]
    BY <1>4 DEF Traces
  <1>6. \A k \in 1..N : G[k - 1] \in V
    BY <1>5
  <1>7. \A k \in 1..N : G[k] = G[k - 1] \o s[k]
    BY <1>2, <1>5, <1>6
  <1>8. Concatenates(N, T, G, s)
    BY <1>5, <1>7 DEF Concatenates
  <1>9. \A k \in 0..N : Ext!FlattenSeq(First(s, k)) = G[k]
    BY <1>8, FlattenIs
  <1>10. 0 \in 0..N /\ \A k \in 1..N : k \in 0..N /\ k - 1 \in 0..N
    OBVIOUS
  <1>11. Ext!FlattenSeq(First(s, 0)) = <<>>
    BY <1>5, <1>9, <1>10
  <1>12. \A k \in 0..N : Ext!FlattenSeq(First(s, k)) \in Seq(T)
    BY <1>5, <1>9
  <1>13. ASSUME NEW k \in 1..N
         PROVE  Ext!FlattenSeq(First(s, k)) = Ext!FlattenSeq(First(s, k - 1)) \o s[k]
    <2>1. /\ Ext!FlattenSeq(First(s, k)) = G[k]
          /\ Ext!FlattenSeq(First(s, k - 1)) = G[k - 1]
      BY <1>9, <1>10
    <2>2. G[k] = G[k - 1] \o s[k]
      BY <1>7
    <2> QED
      BY <2>1, <2>2, Zenon
  <1> QED
    BY <1>11, <1>12, <1>13

\* n times m, and the bound kept when a label is added.
LEMMA OneMore ==
  ASSUME NEW n \in Nat, NEW m \in Nat, NEW a \in Nat, NEW b \in Nat,
         n # 0, a <= (n - 1) * m, b <= m
  PROVE  a + b <= n * m
  <1>1. (n - 1) * m = n * m - m
    BY Z3
  <1>2. n * m \in Int
    BY Z3
  <1> DEFINE p == n * m
             q == (n - 1) * m
  <1>3. q = p - m /\ p \in Int /\ a <= q
    BY <1>1, <1>2
  <1> HIDE DEF p, q
  <1>4. a + b <= p
    BY <1>3
  <1> QED
    BY <1>4 DEF p

LEMMA Multiplied ==
  ASSUME NEW n \in Nat, NEW k \in Nat, NEW m \in Nat, n <= k
  PROVE  n * m <= k * m
  BY Z3

\* The text grows by one label after the other, and no label is longer than the
\* longest.
LEMMA TextGrows ==
  ASSUME NEW path \in Seq(Classes)
  PROVE  LET C == Characters(path, Len(path))
         IN /\ C \in Nat
            /\ TextOf(path, 0) = <<>>
            /\ \A n \in 0..C : /\ TextOf(path, n) \in Seq(Bytes)
                               /\ Len(TextOf(path, n)) \in Nat
                               /\ Len(TextOf(path, n)) <= n * MaxLabelBytes
                               /\ Len(TextOf(path, n)) <= Len(TextOf(path, C))
            /\ \A n \in 1..C : TextOf(path, n) = TextOf(path, n - 1) \o Labels(path)[n]
  <1> DEFINE C == Characters(path, Len(path))
             s == Labels(path)
             L(n) == Len(TextOf(path, n))
  <1>1. C \in Nat /\ s \in [1..C -> Seq(Bytes)]
        /\ \A i \in 1..C : Len(s[i]) \in Nat /\ Len(s[i]) <= MaxLabelBytes
    BY LabelsType
  <1>2. MaxLabelBytes \in Nat
    BY LongestLabel
  <1> HIDE DEF C, s
  <1>3. /\ Ext!FlattenSeq(First(s, 0)) = <<>>
        /\ \A k \in 0..C : Ext!FlattenSeq(First(s, k)) \in Seq(Bytes)
        /\ \A k \in 1..C : Ext!FlattenSeq(First(s, k)) = Ext!FlattenSeq(First(s, k - 1)) \o s[k]
    BY <1>1, FlattenFacts
  <1>4. /\ TextOf(path, 0) = <<>>
        /\ \A k \in 0..C : TextOf(path, k) \in Seq(Bytes)
        /\ \A k \in 1..C : TextOf(path, k) = TextOf(path, k - 1) \o s[k]
    BY <1>3 DEF TextOf, s
  <1>5. \A k \in 0..C : L(k) \in Nat
    BY <1>4
  <1>6. L(0) = 0
    BY <1>4
  <1>7. \A k \in 1..C : L(k) = L(k - 1) + Len(s[k]) /\ k - 1 \in 0..C /\ k \in 0..C
    <2> TAKE k \in 1..C
    <2>1. k - 1 \in 0..C /\ k \in 0..C
      BY <1>1
    <2>2. TextOf(path, k - 1) \in Seq(Bytes) /\ s[k] \in Seq(Bytes)
      BY <1>1, <1>4, <2>1
    <2>3. Len(TextOf(path, k - 1) \o s[k]) = Len(TextOf(path, k - 1)) + Len(s[k])
      BY <2>2
    <2> QED
      BY <1>4, <2>1, <2>3
  <1> HIDE DEF L
  <1>8. \A n \in 0..C : L(n) <= n * MaxLabelBytes
    <2> DEFINE S == {n \in 0..C : L(n) <= n * MaxLabelBytes}
    <2>1. 0 \in S
      <3>1. 0 * MaxLabelBytes = 0
        BY <1>2
      <3> QED
        BY <1>1, <1>6, <3>1
    <2>2. ASSUME NEW n \in 1..C, n - 1 \in S PROVE n \in S
      <3>1. /\ n \in Nat /\ n # 0 /\ n \in 0..C /\ L(n - 1) \in Nat /\ Len(s[n]) \in Nat
            /\ L(n) = L(n - 1) + Len(s[n]) /\ Len(s[n]) <= MaxLabelBytes
        BY <1>1, <1>5, <1>7
      <3>2. L(n - 1) <= (n - 1) * MaxLabelBytes
        BY <2>2
      <3>3. L(n - 1) + Len(s[n]) <= n * MaxLabelBytes
        BY <1>2, <3>1, <3>2, OneMore
      <3> QED
        BY <3>1, <3>3
    <2> HIDE DEF S
    <2>3. \A n \in 0..C : n \in S
      BY <1>1, <2>1, <2>2, Upwards
    <2> QED
      BY <2>3 DEF S
  <1>9. \A n \in 0..C : L(n) <= L(C)
    <2> DEFINE S == {n \in 0..C : \A k \in 0..n : L(k) <= L(n)}
    <2>1. 0 \in S
      BY <1>1, <1>6
    <2>2. ASSUME NEW n \in 1..C, n - 1 \in S PROVE n \in S
      <3>1. /\ n \in 0..C /\ n - 1 \in 0..C /\ L(n - 1) \in Nat /\ L(n) \in Nat /\ Len(s[n]) \in Nat
            /\ L(n) = L(n - 1) + Len(s[n])
        BY <1>1, <1>5, <1>7
      <3>2. \A k \in 0..n - 1 : L(k) <= L(n - 1)
        BY <2>2
      <3>3. ASSUME NEW k \in 0..n PROVE L(k) <= L(n)
        <4>1. k = n \/ k \in 0..n - 1
          BY <3>1
        <4>2. L(k) \in Nat
          BY <1>1, <1>5, <3>1
        <4>3. k \in 0..n - 1 => L(k) <= L(n - 1)
          BY <3>2
        <4>4. L(n - 1) <= L(n) /\ L(n) <= L(n)
          BY <3>1
        <4> QED
          BY <3>1, <4>1, <4>2, <4>3, <4>4
      <3> QED
        BY <3>1, <3>3
    <2> HIDE DEF S
    <2>3. \A n \in 0..C : n \in S
      BY <1>1, <2>1, <2>2, Upwards
    <2>4. C \in S
      BY <1>1, <2>3
    <2> QED
      BY <2>4 DEF S
  <1> QED
    BY <1>1, <1>4, <1>5, <1>8, <1>9 DEF C, s, L

\* The longest text of a line fits info.max_text_capacity.
LEMMA TextFits ==
  ASSUME NEW path \in Seq(Classes), Len(path) <= MaxSteps
  PROVE  LET C == Characters(path, Len(path))
         IN /\ C \in Nat
            /\ TextOf(path, C) \in Seq(Bytes) /\ Len(TextOf(path, C)) \in Nat
            /\ Len(TextOf(path, C)) < MaxTextCapacity
            /\ MaxTextCapacity \in Nat
  <1> DEFINE N == Len(path)
             C == Characters(path, N)
  <1>1. N \in Nat /\ N <= MaxSteps /\ MaxSteps \in Nat
    BY LineReaderAssumption
  <1>2. /\ C \in Nat
        /\ TextOf(path, C) \in Seq(Bytes)
        /\ Len(TextOf(path, C)) \in Nat
        /\ Len(TextOf(path, C)) <= C * MaxLabelBytes
    <2>1. C \in Nat /\ \A n \in 0..C : TextOf(path, n) \in Seq(Bytes) /\ Len(TextOf(path, n)) \in Nat
                                       /\ Len(TextOf(path, n)) <= n * MaxLabelBytes
      BY TextGrows
    <2> QED
      BY <2>1
  <1>3. C <= N
    <2>1. Begun(path) \subseteq 1..N
      BY BegunIsEmitted
    <2>2. 1 \in Int /\ N \in Int
      BY <1>1
    <2>3. IsFiniteSet(1..N) /\ Cardinality(1..N) = IF 1 > N THEN 0 ELSE N - 1 + 1
      BY <2>2, FS_Interval
    <2>4. Cardinality(Begun(path)) <= Cardinality(1..N)
      BY <2>1, <2>3, FS_Subset
    <2>5. N \in 0..N
      BY <1>1
    <2>6. C = Cardinality(Begun(path))
      BY <2>5, CharactersCount
    <2>7. Cardinality(1..N) = N
      BY <1>1, <2>3
    <2> QED
      BY <2>4, <2>6, <2>7
  <1>4. MaxLabelBytes \in Nat
    BY LongestLabel
  <1>5. C * MaxLabelBytes <= MaxSteps * MaxLabelBytes
    <2>1. C <= MaxSteps
      BY <1>1, <1>2, <1>3
    <2> QED
      BY <1>1, <1>2, <1>4, <2>1, Multiplied
  <1> DEFINE p == C * MaxLabelBytes
             q == MaxSteps * MaxLabelBytes
  <1>6. p \in Nat /\ q \in Nat
    BY <1>1, <1>2, <1>4
  <1>7. p <= q /\ Len(TextOf(path, C)) <= p /\ MaxTextCapacity = q + 1
    BY <1>2, <1>5 DEF MaxTextCapacity
  <1> HIDE DEF p, q, C
  <1>8. Len(TextOf(path, C)) < MaxTextCapacity /\ MaxTextCapacity \in Nat
    BY <1>2, <1>6, <1>7
  <1> QED
    BY <1>2, <1>8 DEF C

\* What a line says is the text of its best path.
LEMMA TextIs ==
  ASSUME NEW g, NEW line, LineFits(g, line)
  PROVE  LET path == BestPath(g, line)
         IN Text(g, line) = TextOf(path, Characters(path, Len(path)))
  <1> DEFINE path == BestPath(g, line)
  <1>1. path \in Seq(Classes)
    BY PathType
  <1>2. Text(g, line) = Ext!FlattenSeq([i \in DOMAIN RunStarts(path) |-> LabelBytes(path[RunStarts(path)[i]])])
    BY DEF Text
  <1> HIDE DEF path
  <1>3. Text(g, line) = Ext!FlattenSeq(Labels(path))
    BY <1>1, <1>2, StartsFacts DEF Labels
  <1>4. First(Labels(path), Characters(path, Len(path))) = Labels(path)
    BY DEF First, Labels
  <1> QED
    BY <1>3, <1>4 DEF TextOf, path

-----------------------------------------------------------------------------
(* The text of the first steps of a path *)

Prefix(a, b) == Len(a) <= Len(b) /\ \A i \in 1..Len(a) : b[i] = a[i]

LEMMA CharactersGrow ==
  ASSUME NEW path \in Seq(Classes), NEW t \in 0..Len(path), NEW u \in 0..Len(path), t <= u
  PROVE  Characters(path, t) <= Characters(path, u)
  <1>1. IsFiniteSet(UpTo(path, u))
    BY CharactersCount
  <1>2. UpTo(path, t) \subseteq UpTo(path, u)
    <2>1. Begun(path) \subseteq 1..Len(path) /\ Len(path) \in Nat
      BY BegunIsEmitted
    <2> QED
      BY <2>1 DEF UpTo
  <1> QED
    BY <1>1, <1>2, FS_Subset DEF Characters

\* Characters which follow leave the text before them as it is.
LEMMA TextBegins ==
  ASSUME NEW path \in Seq(Classes), NEW m \in 0..Characters(path, Len(path)), NEW n \in 0..m
  PROVE  Prefix(TextOf(path, n), TextOf(path, m))
  <1> DEFINE C == Characters(path, Len(path))
             T(k) == TextOf(path, k)
             S == {k \in 0..C : \A l \in 0..k : Prefix(T(l), T(k))}
  <1>1. /\ C \in Nat
        /\ \A k \in 0..C : T(k) \in Seq(Bytes)
        /\ \A k \in 1..C : T(k) = T(k - 1) \o Labels(path)[k]
    BY TextGrows
  <1>2. \A k \in 1..C : Labels(path)[k] \in Seq(Bytes)
    BY LabelsType
  <1> HIDE DEF C, T
  <1>3. \A k \in 0..C : Len(T(k)) \in Nat /\ Prefix(T(k), T(k))
    BY <1>1 DEF Prefix
  <1>4. 0 \in S
    BY <1>1, <1>3
  <1>5. ASSUME NEW k \in 1..C, k - 1 \in S PROVE k \in S
    <2>1. k \in 0..C /\ k - 1 \in 0..C /\ T(k - 1) \in Seq(Bytes) /\ Labels(path)[k] \in Seq(Bytes)
      BY <1>1, <1>2
    <2>2. /\ Len(T(k - 1)) \in Nat /\ Len(T(k - 1)) <= Len(T(k)) /\ Len(T(k)) \in Nat
          /\ \A i \in 1..Len(T(k - 1)) : T(k)[i] = T(k - 1)[i]
      <3> DEFINE a == T(k - 1)
                 b == Labels(path)[k]
      <3>1. T(k) = a \o b /\ a \in Seq(Bytes) /\ b \in Seq(Bytes)
        BY <1>1, <2>1
      <3> HIDE DEF a, b
      <3>2. /\ Len(a) \in Nat /\ Len(a) <= Len(a \o b) /\ Len(a \o b) \in Nat
            /\ \A i \in 1..Len(a) : (a \o b)[i] = a[i]
        BY <3>1
      <3> QED
        BY <3>1, <3>2 DEF a
    <2>3. ASSUME NEW l \in 0..k PROVE Prefix(T(l), T(k))
      <3>1. CASE l = k
        BY <1>3, <2>1, <3>1
      <3>2. CASE l # k
        <4>1. l \in 0..k - 1 /\ l \in 0..C
          BY <1>1, <3>2
        <4>2. Prefix(T(l), T(k - 1)) /\ Len(T(l)) \in Nat
          BY <1>3, <1>5, <4>1
        <4>3. \A i \in 1..Len(T(l)) : i \in 1..Len(T(k - 1))
          BY <2>2, <4>2 DEF Prefix
        <4> QED
          BY <2>2, <4>2, <4>3 DEF Prefix
      <3> QED
        BY <3>1, <3>2
    <2> QED
      BY <2>1, <2>3
  <1> HIDE DEF S
  <1>6. \A k \in 0..C : k \in S
    BY <1>1, <1>4, <1>5, Upwards
  <1>7. m \in S
    BY <1>6 DEF C
  <1> QED
    BY <1>7 DEF S, T

\* Paths which begin alike have the same characters there.
LEMMA SameBeginning ==
  ASSUME NEW path \in Seq(Classes), NEW q \in Seq(Classes), Len(q) <= Len(path),
         \A t \in 1..Len(q) : path[t] = q[t]
  PROVE  /\ Characters(path, Len(q)) = Characters(q, Len(q))
         /\ TextOf(path, Characters(q, Len(q))) = TextOf(q, Characters(q, Len(q)))
  <1> DEFINE K == Len(q)
             N == Len(path)
             C == Characters(q, K)
  <1>1. /\ K \in Nat /\ N \in Nat /\ K <= N
        /\ Begun(path) \subseteq 1..N /\ Begun(q) \subseteq 1..K
        /\ \A t \in 1..N : t \in Begun(path) <=> Emitted(path, t)
        /\ \A t \in 1..K : t \in Begun(q) <=> Emitted(q, t)
    BY BegunIsEmitted
  <1>2. ASSUME NEW t \in 1..K PROVE t \in Begun(path) <=> t \in Begun(q)
    <2>1. t = 1 \/ t - 1 \in 1..K
      BY <1>1
    <2>2. Emitted(path, t) <=> Emitted(q, t)
      BY <2>1 DEF Emitted
    <2> QED
      BY <1>1, <2>2
  <1>3. ASSUME NEW t \in 0..K PROVE Characters(path, t) = Characters(q, t)
    <2>1. \A s \in 1..N : s <= t => s \in 1..K
      BY <1>1
    <2>2. \A s \in 1..K : s \in 1..N
      BY <1>1
    <2>3. UpTo(path, t) = UpTo(q, t)
      BY <1>1, <1>2, <2>1, <2>2 DEF UpTo
    <2> QED
      BY <2>3 DEF Characters
  <1>4. K \in 0..K /\ K \in 0..N
    BY <1>1
  <1>5. Characters(path, K) = C
    BY <1>3, <1>4
  <1>6. C \in Nat /\ C <= Characters(path, N) /\ Characters(path, N) \in Nat
    BY <1>1, <1>4, <1>5, CharactersCount
  <1>7. ASSUME NEW i \in 1..C PROVE Labels(path)[i] = Labels(q)[i]
    <2> DEFINE t == RunStarts(q)[i]
    <2>1. t \in Begun(q) /\ Characters(q, t) = i
      BY StartsFacts
    <2> HIDE DEF t
    <2>2. t \in 1..K /\ t \in 0..K /\ t \in Begun(path) /\ path[t] = q[t]
      BY <1>1, <1>2, <2>1
    <2>3. Characters(path, t) = i
      BY <1>3, <2>1, <2>2
    <2>4. Labels(path)[i] = LabelBytes(path[t]) /\ Labels(q)[i] = LabelBytes(q[t])
      BY <2>1, <2>2, <2>3, LabelsType
    <2> QED
      BY <2>2, <2>4
  <1>8. First(Labels(path), C) = First(Labels(q), C)
    BY <1>7 DEF First
  <1> QED
    BY <1>5, <1>8 DEF TextOf

\* The best class of a step depends on its features only.
BestAt(g, features) ==
  CHOOSE c \in Classes : \A d \in Classes :
    LET gap == Product(g, features, c) - Product(g, features, d)
    IN gap > 0 \/ (gap = 0 /\ c <= d)

LEMMA BestPathAt ==
  ASSUME NEW g, NEW line, NEW t \in DOMAIN line
  PROVE  BestPath(g, line)[t] = BestAt(g, line[t])
  BY Zenon DEF BestPath, BestAt

\* A path which is the best one at the steps that are not spoiled begins with the text
\* of the steps before the first spoiled one, whatever follows.
LEMMA CertainFirst ==
  ASSUME NEW g, NEW line, LineFits(g, line), NEW spoiled \in SUBSET DOMAIN line,
         NEW path \in Seq(Classes), Len(path) = Len(line),
         \A t \in DOMAIN line \ spoiled : path[t] = BestPath(g, line)[t],
         NEW m \in 0..Len(line), m = Len(line) \/ m + 1 \in spoiled
  PROVE  /\ Prefix(Text(g, Sound(line, spoiled)), TextOf(path, Characters(path, m)))
         /\ Text(g, Sound(line, spoiled)) \in Seq(Bytes)
  <1> DEFINE N == Len(line)
             steps == {t \in DOMAIN line : \A s \in spoiled : t < s}
             sound == Sound(line, spoiled)
             q == BestPath(g, sound)
  <1>1. DOMAIN line = 1..N /\ N \in Nat
    BY PathType
  <1>2. PICK k \in 0..m : steps = 1..k
    <2>1. CASE spoiled = {}
      <3>1. m = N /\ steps = 1..N
        BY <1>1, <2>1
      <3> QED
        BY <1>1, <3>1
    <2>2. CASE spoiled # {}
      <3>1. spoiled \in SUBSET Nat
        BY <1>1
      <3>2. PICK s \in spoiled : \A u \in spoiled : s <= u
        BY <2>2, <3>1, LeastExists
      <3>3. s \in 1..N /\ s <= m + 1
        BY <1>1, <3>2
      <3>4. s - 1 \in 0..m
        BY <1>1, <3>3
      <3>5. ASSUME NEW t \in 1..N PROVE (\A u \in spoiled : t < u) <=> t \in 1..s - 1
        <4>1. \A u \in spoiled : u \in Nat /\ s <= u
          BY <3>1, <3>2
        <4> QED
          BY <3>2, <3>3, <4>1
      <3>6. 1..s - 1 \subseteq 1..N
        BY <1>1, <3>3
      <3>7. steps = 1..s - 1
        BY <1>1, <3>5, <3>6
      <3> QED
        BY <3>4, <3>7
    <2> QED
      BY <2>1, <2>2
  <1>3. k \in 0..N /\ k <= m /\ 1..k \subseteq 1..N
    BY <1>1
  <1>4. \A t \in 1..k : t \in DOMAIN line \ spoiled
    <2>1. ASSUME NEW t \in 1..k PROVE t \notin spoiled
      <3>1. \A s \in spoiled : t < s
        BY <1>2
      <3>2. t \in Nat /\ ~(t < t)
        OBVIOUS
      <3> QED
        BY <3>1, <3>2
    <2> QED
      BY <1>1, <1>3, <2>1
  <1>5. sound = [t \in 1..k |-> line[t]]
    BY <1>2 DEF Sound
  <1>6. LineFits(g, sound) /\ DOMAIN sound = 1..k /\ Len(sound) = k
    <2>1. line \in Seq(Seq(Int)) /\ Len(line) \in 0..MaxSteps /\ \A t \in DOMAIN line : Fed(g, line[t])
      BY DEF LineFits
    <2>2. \A t \in 1..k : sound[t] = line[t] /\ line[t] \in Seq(Int) /\ Fed(g, line[t])
      <3> TAKE t \in 1..k
      <3>1. t \in DOMAIN line
        BY <1>1, <1>3
      <3>2. Fed(g, line[t])
        BY <2>1, <3>1
      <3>3. line[t] \in Seq(Int)
        <4>1. line \in Seq(Seq(Int))
          BY <2>1
        <4> QED
          BY <3>1, <4>1
      <3> QED
        BY <1>5, <3>2, <3>3
    <2>3. DOMAIN sound = 1..k
      BY <1>5
    <2>4. sound \in Seq(Seq(Int)) /\ Len(sound) = k
      <3>1. sound \in [1..k -> Seq(Int)]
        BY <1>5, <2>2
      <3> HIDE DEF sound
      <3> QED
        BY <1>3, <3>1
    <2>5. MaxSteps \in Nat
      BY LineReaderAssumption
    <2> HIDE DEF sound
    <2> QED
      BY <1>3, <2>1, <2>2, <2>3, <2>4, <2>5 DEF LineFits
  <1> HIDE DEF steps
  <1>7. q \in Seq(Classes) /\ Len(q) = k
    BY <1>6, PathType
  <1>8. ASSUME NEW t \in 1..k PROVE path[t] = q[t]
    <2>1. q[t] = BestPath(g, line)[t]
      <3>1. t \in DOMAIN sound /\ t \in DOMAIN line /\ sound[t] = line[t]
        BY <1>1, <1>3, <1>5, <1>6
      <3> HIDE DEF sound
      <3>2. q[t] = BestAt(g, sound[t]) /\ BestPath(g, line)[t] = BestAt(g, line[t])
        BY <3>1, BestPathAt
      <3> QED
        BY <3>1, <3>2
    <2> QED
      BY <1>4, <2>1
  <1>9. Text(g, sound) = TextOf(q, Characters(q, k))
    BY <1>6, <1>7, TextIs
  <1> HIDE DEF sound, q
  <1>10. Characters(path, k) = Characters(q, k) /\ TextOf(path, Characters(q, k)) = TextOf(q, Characters(q, k))
    BY <1>3, <1>7, <1>8, SameBeginning
  <1>11. Text(g, sound) = TextOf(path, Characters(path, k))
    BY <1>9, <1>10
  <1> DEFINE C == Characters(path, N)
  <1>12. /\ Characters(path, k) \in 0..Characters(path, m) /\ Characters(path, k) \in 0..C
         /\ Characters(path, m) \in 0..C
    <2>1. k \in 0..N /\ m \in 0..N
      BY <1>1, <1>3
    <2>2. Characters(path, k) \in Nat /\ Characters(path, m) \in Nat /\ C \in Nat
          /\ Characters(path, k) <= C /\ Characters(path, m) <= C
      BY <1>1, <2>1, CharactersCount
    <2>3. Characters(path, k) <= Characters(path, m)
      BY <1>1, <1>3, <2>1, CharactersGrow
    <2> QED
      BY <2>2, <2>3
  <1>13. Prefix(Text(g, sound), TextOf(path, Characters(path, m)))
    BY <1>11, <1>12, TextBegins
  <1>14. Text(g, sound) \in Seq(Bytes)
    BY <1>11, <1>12, TextGrows
  <1> QED
    BY <1>13, <1>14 DEF sound

-----------------------------------------------------------------------------
(* decode_pass: what it has written after a step *)

IsRequest(request) ==
  request \in [text : BOOLEAN, capacity : Nat] /\ (request.text = FALSE => request.capacity = 0)

\* A buffer that begins with a text.
Filled(capacity, text) == [i \in 1..capacity |-> IF i <= Len(text) THEN text[i] ELSE Untouched]

PassState(path, value, capacity, t) ==
  [status |-> "OK",
   bytes |-> Len(TextOf(path, Characters(path, t))),
   score |-> [i \in 1..Characters(path, t) |-> value[RunStarts(path)[i]]],
   buffer |-> Filled(capacity, TextOf(path, Characters(path, t)))]

\* The request has room for the text of the path and its end, or only measures it.
HasRoom(path, request) ==
  request.text => request.capacity > Len(TextOf(path, Characters(path, Len(path))))

LEMMA AppendIs ==
  ASSUME NEW n \in Nat, NEW s, s = [i \in 1..n |-> s[i]], NEW e
  PROVE  Append(s, e) = [i \in 1..n + 1 |-> IF i = n + 1 THEN e ELSE s[i]]
  <1> DEFINE T == {s[i] : i \in 1..n} \cup {e}
  <1>1. s \in Seq(T) /\ Len(s) = n /\ e \in T
    OBVIOUS
  <1> HIDE DEF T
  <1> QED
    BY <1>1

\* A label is written behind a text.
LEMMA WrittenBehind ==
  ASSUME NEW capacity \in Nat, NEW text \in Seq(Bytes), NEW label \in Seq(Bytes)
  PROVE  Overwritten(Filled(capacity, text), Len(text), label) = Filled(capacity, text \o label)
  <1> DEFINE buffer == Filled(capacity, text)
  <1>0. buffer = [i \in 1..capacity |-> IF i <= Len(text) THEN text[i] ELSE Untouched]
    BY DEF Filled
  <1> HIDE DEF buffer
  <1>1. /\ DOMAIN buffer = 1..capacity /\ Len(text) \in Nat /\ Len(label) \in Nat
        /\ DOMAIN label = 1..Len(label)
        /\ Len(text \o label) = Len(text) + Len(label)
    BY <1>0
  <1>2. ASSUME NEW i \in 1..capacity
        PROVE  (IF i - Len(text) \in DOMAIN label THEN label[i - Len(text)] ELSE buffer[i])
                 = IF i <= Len(text \o label) THEN (text \o label)[i] ELSE Untouched
    <2>1. buffer[i] = IF i <= Len(text) THEN text[i] ELSE Untouched
      BY <1>0
    <2>2. CASE i <= Len(text)
      <3>1. (text \o label)[i] = text[i]
        BY <2>2
      <3> QED
        BY <1>1, <2>1, <2>2, <3>1
    <2>3. CASE ~(i <= Len(text)) /\ i <= Len(text) + Len(label)
      <3>1. (text \o label)[i] = label[i - Len(text)]
        BY <1>1, <2>3
      <3> QED
        BY <1>1, <2>3, <3>1
    <2>4. CASE ~(i <= Len(text) + Len(label))
      BY <1>1, <2>1, <2>4
    <2> QED
      BY <1>1, <2>2, <2>3, <2>4
  <1>3. Overwritten(buffer, Len(text), label)
          = [i \in 1..capacity |-> IF i - Len(text) \in DOMAIN label THEN label[i - Len(text)] ELSE buffer[i]]
    BY <1>1 DEF Overwritten
  <1> QED
    BY <1>2, <1>3 DEF Filled, buffer

LEMMA PassStep ==
  ASSUME NEW path \in Seq(Classes), NEW value, NEW request, IsRequest(request),
         HasRoom(path, request), NEW t \in 1..Len(path)
  PROVE  LET before == PassState(path, value, request.capacity, t - 1)
         IN (IF Emitted(path, t) THEN Put(before, path[t], value[t], request) ELSE before)
              = PassState(path, value, request.capacity, t)
  <1> DEFINE N == Len(path)
             C(n) == Characters(path, n)
             before == PassState(path, value, request.capacity, t - 1)
  <1>1. /\ N \in Nat /\ N \in 0..N /\ t \in 0..N /\ t - 1 \in 0..N /\ t # 0
        /\ t \in Begun(path) <=> Emitted(path, t)
    BY BegunIsEmitted
  <1>2. /\ C(t) \in Nat /\ C(t - 1) \in Nat
        /\ C(t) = IF Emitted(path, t) THEN C(t - 1) + 1 ELSE C(t - 1)
        /\ C(t) <= C(N) /\ C(N) \in Nat
    BY <1>1, CharactersCount
  <1>3. request.text \in BOOLEAN /\ request.capacity \in Nat
    BY DEF IsRequest
  <1>4. CASE ~Emitted(path, t)
    <2>1. Characters(path, t) = Characters(path, t - 1)
      BY <1>2, <1>4
    <2> QED
      BY <1>4, <2>1 DEF PassState
  <1>5. CASE Emitted(path, t)
    <2> DEFINE k == C(t - 1)
               text == TextOf(path, k)
               label == LabelBytes(path[t])
    <2>1. C(t) = k + 1 /\ k \in Nat /\ k \in 0..C(N) /\ k + 1 \in 1..C(N) /\ k + 1 \in 0..C(N)
      BY <1>2, <1>5
    <2>2. t \in Begun(path)
      BY <1>1, <1>5
    <2>3. /\ path[t] \in Classes /\ path[t] # 0
          /\ Labels(path)[k + 1] = label
      BY <2>1, <2>2, LabelsType
    <2>4. /\ text \in Seq(Bytes)
          /\ TextOf(path, k + 1) = text \o label
          /\ Len(TextOf(path, k + 1)) <= Len(TextOf(path, C(N)))
          /\ Len(TextOf(path, C(N))) \in Nat
      <3> HIDE DEF k
      <3>1. /\ \A n \in 0..C(N) : /\ TextOf(path, n) \in Seq(Bytes)
                                  /\ Len(TextOf(path, n)) \in Nat
                                  /\ Len(TextOf(path, n)) <= Len(TextOf(path, C(N)))
            /\ \A n \in 1..C(N) : TextOf(path, n) = TextOf(path, n - 1) \o Labels(path)[n]
        BY TextGrows
      <3>2. (k + 1) - 1 = k /\ C(N) \in 0..C(N)
        BY <2>1, <1>2
      <3> QED
        BY <2>1, <2>3, <3>1, <3>2
    <2>5. label \in Seq(Bytes) /\ Len(label) \in Nat
      BY <2>3, LabelFacts
    <2>6. Len(text) \in Nat /\ Len(text \o label) = Len(text) + Len(label)
      BY <2>4, <2>5
    <2>7. RunStarts(path)[k + 1] = t
      BY <2>1, <2>2, StartsFacts
    <2> DEFINE score == [i \in 1..k |-> value[RunStarts(path)[i]]]
               buffer == Filled(request.capacity, text)
    <2>8. before = [status |-> "OK", bytes |-> Len(text), score |-> score, buffer |-> buffer]
      BY DEF PassState
    <2> HIDE DEF before
    <2>9. Append(score, value[t]) = [i \in 1..k + 1 |-> value[RunStarts(path)[i]]]
      <3>1. score = [i \in 1..k |-> score[i]]
        OBVIOUS
      <3>2. \A i \in 1..k : score[i] = value[RunStarts(path)[i]]
        OBVIOUS
      <3> HIDE DEF score, k
      <3>3. Append(score, value[t]) = [i \in 1..k + 1 |-> IF i = k + 1 THEN value[t] ELSE score[i]]
        BY <2>1, <3>1, AppendIs
      <3>4. \A i \in 1..k + 1 : i = k + 1 \/ i \in 1..k
        BY <2>1
      <3> QED
        BY <2>7, <3>2, <3>3, <3>4
    <2>10. Overwritten(buffer, Len(text), label) = Filled(request.capacity, text \o label)
      <3> HIDE DEF text, label
      <3> QED
        BY <1>3, <2>4, <2>5, WrittenBehind
    <2>11. ~(request.text /\ Len(label) >= request.capacity - Len(text))
      <3> DEFINE whole == Len(TextOf(path, C(N)))
      <3>1. Len(text \o label) <= whole /\ whole \in Nat
        BY <2>4
      <3>2. request.text => request.capacity > whole
        BY DEF HasRoom
      <3> HIDE DEF whole, text, label
      <3> QED
        BY <1>3, <2>5, <2>6, <3>1, <3>2
    <2> HIDE DEF score, buffer, text
    <2>12. Put(before, path[t], value[t], request)
             = [status |-> "OK", bytes |-> Len(text) + Len(label),
                score |-> Append(score, value[t]), buffer |-> Overwritten(buffer, Len(text), label)]
      BY <2>8, <2>11 DEF Put
    <2>13. PassState(path, value, request.capacity, t)
             = [status |-> "OK", bytes |-> Len(text \o label),
                score |-> [i \in 1..k + 1 |-> value[RunStarts(path)[i]]],
                buffer |-> Filled(request.capacity, text \o label)]
      <3>1. Characters(path, t) = k + 1
        BY <2>1
      <3>2. TextOf(path, Characters(path, t)) = text \o label
        BY <2>4, <3>1
      <3> HIDE DEF k
      <3> QED
        BY <3>1, <3>2 DEF PassState
    <2> HIDE DEF label, k
    <2> QED
      BY <1>5, <2>6, <2>9, <2>10, <2>12, <2>13 DEF before, label
  <1> QED
    BY <1>4, <1>5

\* A buffer that begins with a text and its end.
Ended(capacity, text) ==
  [i \in 1..capacity |-> IF i <= Len(text) THEN text[i]
                         ELSE IF i = Len(text) + 1 THEN Nul ELSE Untouched]

LEMMA EndWritten ==
  ASSUME NEW capacity \in Nat, NEW text \in Seq(Bytes)
  PROVE  Overwritten(Filled(capacity, text), Len(text), <<Nul>>) = Ended(capacity, text)
  <1> DEFINE buffer == Filled(capacity, text)
  <1>1. buffer = [i \in 1..capacity |-> IF i <= Len(text) THEN text[i] ELSE Untouched]
    BY DEF Filled
  <1> HIDE DEF buffer
  <1>2. DOMAIN buffer = 1..capacity /\ Len(text) \in Nat
    BY <1>1
  <1>3. DOMAIN <<Nul>> = {1} /\ <<Nul>>[1] = Nul
    OBVIOUS
  <1>4. Overwritten(buffer, Len(text), <<Nul>>)
          = [i \in 1..capacity |-> IF i - Len(text) \in {1} THEN <<Nul>>[i - Len(text)] ELSE buffer[i]]
    BY <1>2, <1>3 DEF Overwritten
  <1>5. ASSUME NEW i \in 1..capacity
        PROVE  (IF i - Len(text) \in {1} THEN <<Nul>>[i - Len(text)] ELSE buffer[i])
                 = IF i <= Len(text) THEN text[i] ELSE IF i = Len(text) + 1 THEN Nul ELSE Untouched
    <2>1. i - Len(text) \in {1} <=> i = Len(text) + 1
      BY <1>2
    <2>2. i - Len(text) \in {1} => <<Nul>>[i - Len(text)] = Nul
      BY <1>3
    <2>3. buffer[i] = IF i <= Len(text) THEN text[i] ELSE Untouched
      BY <1>1
    <2>4. i = Len(text) + 1 => ~(i <= Len(text))
      BY <1>2
    <2> QED
      BY <2>1, <2>2, <2>3, <2>4, Zenon
  <1> QED
    BY <1>4, <1>5, Zenon DEF Ended, buffer

\* Step m is the last before the first whose values are no numbers.
SoundUpTo(decoded, m) ==
  /\ m \in 0..Len(decoded.best)
  /\ \A t \in 1..m : decoded.finite[t]
  /\ m # Len(decoded.best) => ~decoded.finite[m + 1]

LEMMA SoundExists ==
  ASSUME NEW decoded, Len(decoded.best) \in Nat
  PROVE  \E m : SoundUpTo(decoded, m)
  <1> DEFINE N == Len(decoded.best)
             Bad == {t \in 1..N : ~decoded.finite[t]}
  <1>1. CASE Bad = {}
    <2>1. \A t \in 1..N : decoded.finite[t]
      BY <1>1
    <2> QED
      BY <2>1 DEF SoundUpTo
  <1>2. CASE Bad # {}
    <2>1. Bad \in SUBSET Nat
      OBVIOUS
    <2>2. PICK t \in Bad : \A u \in Bad : t <= u
      <3> HIDE DEF Bad
      <3> QED
        BY <1>2, <2>1, LeastExists
    <2>3. t \in 1..N /\ ~decoded.finite[t] /\ t - 1 \in 0..N /\ (t - 1) + 1 = t
      BY <2>2
    <2>4. \A u \in 1..t - 1 : decoded.finite[u]
      <3> TAKE u \in 1..t - 1
      <3>1. u \in 1..N /\ ~(t <= u)
        BY <2>3
      <3> QED
        BY <2>2, <3>1
    <2> QED
      BY <2>3, <2>4 DEF SoundUpTo
  <1> QED
    BY <1>1, <1>2

\* decode_pass writes the text of the path and its end, if there is room for both or
\* nothing to write to, and finds the probability of every character; or it stops
\* at a step whose values are no numbers, behind the text of the steps before.
LEMMA PassIs ==
  ASSUME NEW decoded, decoded.best \in Seq(Classes), NEW request, IsRequest(request),
         HasRoom(decoded.best, request), NEW m, SoundUpTo(decoded, m)
  PROVE  LET path == decoded.best
             C == Characters(path, Len(path))
             text == TextOf(path, C)
         IN /\ m = Len(path) =>
                 Pass(decoded, request)
                   = [status |-> "OK", bytes |-> Len(text),
                      score |-> [i \in 1..C |-> decoded.value[RunStarts(path)[i]]],
                      buffer |-> Ended(request.capacity, text)]
            /\ m # Len(path) =>
                 /\ Pass(decoded, request).status = "INVALID_ARGUMENT"
                 /\ Pass(decoded, request).buffer = Filled(request.capacity, TextOf(path, Characters(path, m)))
  <1> DEFINE path == decoded.best
             value == decoded.value
             N == Len(path)
             C == Characters(path, N)
             text == TextOf(path, C)
             start == [status |-> "OK", bytes |-> 0, score |-> <<>>,
                       buffer |-> [i \in 1..request.capacity |-> Untouched]]
             Next1(before, t) ==
               IF before.status # "OK" THEN before
               ELSE IF ~decoded.finite[t] THEN [before EXCEPT !.status = "INVALID_ARGUMENT"]
               ELSE IF Emitted(path, t) THEN Put(before, path[t], value[t], request) ELSE before
             passed == CHOOSE f : f = [t \in 0..N |-> IF t = 0 THEN start ELSE Next1(f[t - 1], t)]
             Good(t) == PassState(path, value, request.capacity, t)
             Halted == [Good(m) EXCEPT !.status = "INVALID_ARGUMENT"]
             State(t) == IF t <= m THEN Good(t) ELSE Halted
             h == [t \in 0..N |-> State(t)]
  <1>0. /\ path \in Seq(Classes) /\ m \in 0..N
        /\ \A t \in 1..m : decoded.finite[t]
        /\ m # N => ~decoded.finite[m + 1]
    BY DEF SoundUpTo
  <1>1. N \in Nat /\ N \in 0..N /\ C \in Nat /\ Characters(path, 0) = 0
    <2>1. N \in Nat
      BY BegunIsEmitted
    <2>2. N \in 0..N /\ 0 \in 0..N
      BY <2>1
    <2> QED
      BY <2>1, <2>2, CharactersCount
  <1>2. request.text \in BOOLEAN /\ request.capacity \in Nat /\ (request.text = FALSE => request.capacity = 0)
    BY DEF IsRequest
  <1>3. TextOf(path, 0) = <<>> /\ text \in Seq(Bytes)
    <2>1. C \in 0..C
      BY <1>1
    <2> QED
      BY <2>1, TextGrows
  <1>4. State(0) = start
    <2>1. Len(TextOf(path, 0)) = 0
      BY <1>3
    <2>2. [i \in 1..0 |-> value[RunStarts(path)[i]]] = <<>>
      OBVIOUS
    <2>3. Filled(request.capacity, TextOf(path, 0)) = [i \in 1..request.capacity |-> Untouched]
      <3>1. \A i \in 1..request.capacity : ~(i <= Len(TextOf(path, 0)))
        BY <1>2, <2>1
      <3> QED
        BY <3>1 DEF Filled
    <2>4. Good(0) = start
      BY <1>1, <2>1, <2>2, <2>3 DEF PassState
    <2> HIDE DEF Good, start, Halted
    <2> QED
      BY <1>0, <2>4
  <1>5. \A t \in 0..N : Good(t).status = "OK"
    BY DEF PassState
  <1>6. \A t \in 1..N : t - 1 \in 0..N /\ t \in 0..N /\ t # 0
    BY <1>1
  <1>7. \A t \in 1..N : State(t) = Next1(State(t - 1), t)
    <2> TAKE t \in 1..N
    <2> DEFINE put == Put(Good(t - 1), path[t], value[t], request)
    <2>1. (IF Emitted(path, t) THEN put ELSE Good(t - 1)) = Good(t)
      BY PassStep
    <2>2. Good(t - 1).status = "OK" /\ Halted.status = "INVALID_ARGUMENT"
      BY <1>5, <1>6 DEF PassState
    <2> HIDE DEF put, Good
    <2>3. CASE t <= m
      <3>1. State(t) = Good(t) /\ State(t - 1) = Good(t - 1) /\ decoded.finite[t]
        BY <1>0, <1>1, <2>3
      <3> HIDE DEF State
      <3> QED
        BY <2>1, <2>2, <3>1 DEF put
    <2>4. CASE t = m + 1
      <3>1. ~(t <= m) /\ t - 1 = m /\ m <= m /\ m # N
        BY <1>0, <1>1, <2>4
      <3>2. State(t) = Halted /\ State(t - 1) = Good(m) /\ ~decoded.finite[t]
        BY <1>0, <2>4, <3>1
      <3>3. Good(m).status = "OK"
        BY <2>2, <3>1
      <3>4. Next1(Good(m), t) = Halted
        BY <3>2, <3>3
      <3> HIDE DEF State, Halted, Next1
      <3> QED
        BY <3>2, <3>4
    <2>5. CASE t > m + 1
      <3>1. ~(t <= m) /\ ~(t - 1 <= m)
        BY <1>0, <1>1, <2>5
      <3>2. State(t) = Halted /\ State(t - 1) = Halted
        BY <3>1
      <3> HIDE DEF State, Halted
      <3> QED
        BY <2>2, <3>2
    <2> QED
      BY <1>0, <1>1, <2>3, <2>4, <2>5
  <1> HIDE DEF State, Next1, start
  <1>8. h = [t \in 0..N |-> IF t = 0 THEN start ELSE Next1(h[t - 1], t)]
    <2>1. \A t \in 0..N : h[t] = State(t) /\ (t # 0 => t \in 1..N /\ h[t - 1] = State(t - 1))
      BY <1>1
    <2>2. \A t \in 0..N : State(t) = IF t = 0 THEN start ELSE Next1(h[t - 1], t)
      <3> HIDE DEF h
      <3> QED
        BY <1>4, <1>7, <2>1
    <2> QED
      BY <2>2, Zenon
  <1>9. passed = [t \in 0..N |-> IF t = 0 THEN start ELSE Next1(passed[t - 1], t)]
    <2> HIDE DEF h
    <2> QED
      BY <1>8, Zenon
  <1> HIDE DEF h, passed
  <1>10. passed[N] = State(N)
    <2> DEFINE S == {t \in 0..N : passed[t] = State(t)}
    <2>1. 0 \in S
      <3>1. passed[0] = start
        BY <1>1, <1>9
      <3> QED
        BY <1>1, <1>4, <3>1
    <2>2. ASSUME NEW n \in 1..N, n - 1 \in S PROVE n \in S
      <3>1. passed[n] = Next1(passed[n - 1], n)
        BY <1>6, <1>9
      <3>2. passed[n - 1] = State(n - 1)
        BY <2>2
      <3> QED
        BY <1>6, <1>7, <3>1, <3>2
    <2> HIDE DEF S
    <2>3. \A n \in 0..N : n \in S
      BY <1>1, <2>1, <2>2, Upwards
    <2> QED
      BY <1>1, <2>3 DEF S
  <1>11. Pass(decoded, request)
           = IF request.text /\ passed[N].status = "OK"
             THEN [passed[N] EXCEPT !.buffer = Overwritten(@, passed[N].bytes, <<Nul>>)] ELSE passed[N]
    BY DEF Pass, passed, start, Next1
  <1> DEFINE score == [i \in 1..C |-> value[RunStarts(path)[i]]]
  <1>12. ASSUME m # N
         PROVE  /\ Pass(decoded, request).status = "INVALID_ARGUMENT"
                /\ Pass(decoded, request).buffer = Filled(request.capacity, TextOf(path, Characters(path, m)))
    <2>1. State(N) = Halted
      BY <1>0, <1>1, <1>12 DEF State
    <2>2. /\ Halted.status = "INVALID_ARGUMENT"
          /\ Halted.buffer = Filled(request.capacity, TextOf(path, Characters(path, m)))
      BY DEF PassState
    <2> HIDE DEF Halted
    <2>3. Pass(decoded, request) = Halted
      BY <1>10, <1>11, <2>1, <2>2
    <2> QED
      BY <2>2, <2>3
  <1>13. ASSUME m = N
         PROVE  Pass(decoded, request)
                  = [status |-> "OK", bytes |-> Len(text), score |-> score,
                     buffer |-> Ended(request.capacity, text)]
    <2>1. State(N) = [status |-> "OK", bytes |-> Len(text), score |-> score,
                      buffer |-> Filled(request.capacity, text)]
      <3>1. State(N) = Good(N)
        BY <1>1, <1>13 DEF State
      <3> QED
        BY <3>1 DEF PassState
    <2>2. Overwritten(Filled(request.capacity, text), Len(text), <<Nul>>) = Ended(request.capacity, text)
      <3> HIDE DEF text
      <3> QED
        BY <1>2, <1>3, EndWritten
    <2>3. request.text = FALSE => Filled(request.capacity, text) = Ended(request.capacity, text)
      <3>1. 1..0 = {}
        OBVIOUS
      <3> QED
        BY <1>2, <3>1 DEF Filled, Ended
    <2> HIDE DEF score, text, C
    <2>4. CASE request.text
      <3>1. Pass(decoded, request)
              = [State(N) EXCEPT !.buffer = Overwritten(@, State(N).bytes, <<Nul>>)]
        BY <1>10, <1>11, <2>1, <2>4
      <3>2. Pass(decoded, request)
              = [status |-> "OK", bytes |-> Len(text), score |-> score,
                 buffer |-> Overwritten(Filled(request.capacity, text), Len(text), <<Nul>>)]
        BY <2>1, <3>1
      <3> QED
        BY <2>2, <3>2
    <2>5. CASE request.text = FALSE
      <3>1. Pass(decoded, request) = State(N)
        BY <1>10, <1>11, <2>5
      <3> QED
        BY <2>1, <2>3, <2>5, <3>1
    <2> QED
      BY <1>2, <2>4, <2>5
  <1> QED
    BY <1>12, <1>13

-----------------------------------------------------------------------------
(* The answers of the decoders *)

\* The buffer holds the text and its end, or there is none.
Fitting(request, text) == request.text = FALSE \/ request.capacity > Len(text)

\* info.max_text_capacity is there.
AtOnce(request) == request.text /\ request.capacity >= MaxTextCapacity

\* The answer about a path whose values are numbers: its text and the value of each of
\* its characters, if the buffer suffices.
Along(decoded, request) ==
  LET path == decoded.best
      C == Characters(path, Len(path))
      text == TextOf(path, C)
  IN [status |-> IF Fitting(request, text) THEN "OK" ELSE "OUT_OF_BOUNDS",
      required |-> Len(text) + 1,
      score |-> [i \in 1..C |-> decoded.value[RunStarts(path)[i]]],
      buffer |-> IF Fitting(request, text) THEN Ended(request.capacity, text)
                 ELSE [i \in 1..request.capacity |-> Untouched]]

\* The answer about one whose values after step m are not.
Broken(decoded, request, m) ==
  [status |-> "INVALID_ARGUMENT", required |-> 0, score |-> <<>>,
   buffer |-> IF AtOnce(request)
              THEN Filled(request.capacity, TextOf(decoded.best, Characters(decoded.best, m)))
              ELSE [i \in 1..request.capacity |-> Untouched]]

\* Measuring first and writing at once come to the same answer about numbers; else
\* only a pass that writes at once has left something in the buffer.
LEMMA DecodedIs ==
  ASSUME NEW decoded, decoded.best \in Seq(Classes), Len(decoded.best) <= MaxSteps,
         NEW request, IsRequest(request), NEW m, SoundUpTo(decoded, m)
  PROVE  Decoded(decoded, request)
           = IF m = Len(decoded.best) THEN Along(decoded, request) ELSE Broken(decoded, request, m)
  <1> DEFINE path == decoded.best
             N == Len(path)
             C == Characters(path, N)
             text == TextOf(path, C)
             score == [i \in 1..C |-> decoded.value[RunStarts(path)[i]]]
             nothing == [i \in 1..request.capacity |-> Untouched]
             left == Filled(request.capacity, TextOf(path, Characters(path, m)))
             measure == Pass(decoded, NoBuffer)
             written == Pass(decoded, request)
  <1>1. Len(text) \in Nat /\ Len(text) < MaxTextCapacity /\ MaxTextCapacity \in Nat
    BY TextFits
  <1>2. request.text \in BOOLEAN /\ request.capacity \in Nat /\ (request.text = FALSE => request.capacity = 0)
    BY DEF IsRequest
  <1>3. Fitting(request, text) => HasRoom(path, request)
    BY <1>2 DEF HasRoom, Fitting
  <1>4. AtOnce(request) => Fitting(request, text)
    BY <1>1, <1>2 DEF AtOnce, Fitting
  <1>5. IsRequest(NoBuffer) /\ HasRoom(path, NoBuffer) /\ NoBuffer.capacity = 0
    BY DEF IsRequest, HasRoom, NoBuffer
  <1>6. Decoded(decoded, request)
          = IF AtOnce(request) THEN WrittenAtOnce(decoded, request) ELSE Measured(decoded, request)
    BY DEF Decoded, AtOnce
  <1>7. WrittenAtOnce(decoded, request)
          = IF written.status = "OK" THEN Answered("OK", RequiredCapacity(written.bytes), written)
            ELSE [Untried(written.status, request) EXCEPT !.buffer = written.buffer]
    BY DEF WrittenAtOnce
  <1>8. Measured(decoded, request) =
          IF measure.status # "OK" THEN Untried(measure.status, request)
          ELSE IF ~request.text THEN Answered("OK", RequiredCapacity(measure.bytes), measure)
          ELSE IF request.capacity < RequiredCapacity(measure.bytes)
          THEN [Untried("OUT_OF_BOUNDS", request) EXCEPT !.required = RequiredCapacity(measure.bytes),
                                                         !.score = measure.score]
          ELSE Answered(written.status, RequiredCapacity(measure.bytes),
                        [written EXCEPT !.score = measure.score])
    BY DEF Measured
  <1>9. CASE m # N
    <2>1. measure.status = "INVALID_ARGUMENT"
      BY <1>5, <1>9, PassIs
    <2>2. AtOnce(request) => written.status = "INVALID_ARGUMENT" /\ written.buffer = left
      BY <1>3, <1>4, <1>9, PassIs
    <2> HIDE DEF measure, written, left
    <2>3. Untried("INVALID_ARGUMENT", request)
            = [status |-> "INVALID_ARGUMENT", required |-> 0, score |-> <<>>, buffer |-> nothing]
      BY DEF Untried
    <2> HIDE DEF nothing
    <2>4. Measured(decoded, request) = Untried("INVALID_ARGUMENT", request)
      BY <1>8, <2>1
    <2>5. AtOnce(request) => WrittenAtOnce(decoded, request)
            = [status |-> "INVALID_ARGUMENT", required |-> 0, score |-> <<>>, buffer |-> left]
      BY <1>7, <2>2, <2>3
    <2>6. Broken(decoded, request, m)
            = [status |-> "INVALID_ARGUMENT", required |-> 0, score |-> <<>>,
               buffer |-> IF AtOnce(request) THEN left ELSE nothing]
      BY DEF Broken, left, nothing
    <2> QED
      BY <1>6, <1>9, <2>3, <2>4, <2>5, <2>6
  <1>10. CASE m = N
    <2>1. measure = [status |-> "OK", bytes |-> Len(text), score |-> score, buffer |-> Ended(0, text)]
      BY <1>5, <1>10, PassIs
    <2>2. Fitting(request, text) =>
            written = [status |-> "OK", bytes |-> Len(text), score |-> score,
                       buffer |-> Ended(request.capacity, text)]
      BY <1>3, <1>10, PassIs
    <2> DEFINE required == Len(text) + 1
               answer(status, buffer) ==
                 [status |-> status, required |-> required, score |-> score, buffer |-> buffer]
    <2>3. Along(decoded, request)
            = answer(IF Fitting(request, text) THEN "OK" ELSE "OUT_OF_BOUNDS",
                     IF Fitting(request, text) THEN Ended(request.capacity, text) ELSE nothing)
      BY Zenon DEF Along
    <2>4. Untried("OUT_OF_BOUNDS", request)
            = [status |-> "OUT_OF_BOUNDS", required |-> 0, score |-> <<>>, buffer |-> nothing]
      BY DEF Untried
    <2> HIDE DEF measure, written, score, nothing, text
    <2>5. RequiredCapacity(Len(text)) = required
      BY DEF RequiredCapacity
    <2>6. Fitting(request, text) <=> (~request.text \/ ~(request.capacity < required))
      BY <1>1, <1>2 DEF Fitting
    <2> HIDE DEF required
    <2>7. AtOnce(request) => WrittenAtOnce(decoded, request) = answer("OK", Ended(request.capacity, text))
      BY <1>4, <1>7, <2>2, <2>5 DEF Answered
    <2>8. Measured(decoded, request) = Along(decoded, request)
      <3>1. measure.status = "OK" /\ RequiredCapacity(measure.bytes) = required /\ measure.score = score
        BY <2>1, <2>5
      <3>2. CASE ~request.text
        <4>1. Measured(decoded, request) = Answered("OK", required, measure)
          BY <1>8, <3>1, <3>2
        <4>2. Measured(decoded, request) = answer("OK", Ended(0, text))
          BY <2>1, <4>1 DEF Answered
        <4>3. request.capacity = 0 /\ Fitting(request, text)
          BY <1>2, <2>6, <3>2
        <4> QED
          BY <2>3, <4>2, <4>3
      <3>3. CASE request.text /\ request.capacity < required
        <4>1. Measured(decoded, request)
                = [Untried("OUT_OF_BOUNDS", request) EXCEPT !.required = required, !.score = score]
          BY <1>8, <3>1, <3>3
        <4> DEFINE untried == Untried("OUT_OF_BOUNDS", request)
        <4>2. /\ untried = [status |-> "OUT_OF_BOUNDS", required |-> 0, score |-> <<>>, buffer |-> nothing]
              /\ Measured(decoded, request) = [untried EXCEPT !.required = required, !.score = score]
          BY <2>4, <4>1
        <4> HIDE DEF untried
        <4>3. Measured(decoded, request) = answer("OUT_OF_BOUNDS", nothing)
          BY <4>2
        <4>4. ~Fitting(request, text)
          BY <2>6, <3>3
        <4> QED
          BY <2>3, <4>3, <4>4
      <3>4. CASE request.text /\ ~(request.capacity < required)
        <4>1. Measured(decoded, request) = Answered(written.status, required, [written EXCEPT !.score = score])
          BY <1>8, <3>1, <3>4
        <4>2. Fitting(request, text)
          BY <2>6, <3>4
        <4>3. Measured(decoded, request) = answer("OK", Ended(request.capacity, text))
          BY <2>2, <4>1, <4>2 DEF Answered
        <4> QED
          BY <2>3, <4>2, <4>3
      <3> QED
        BY <3>2, <3>3, <3>4
    <2>9. AtOnce(request) => WrittenAtOnce(decoded, request) = Along(decoded, request)
      BY <1>4, <2>3, <2>7
    <2> QED
      BY <1>6, <1>10, <2>8, <2>9
  <1> QED
    BY <1>9, <1>10

\* A buffer with an unfinished text.
LEMMA FilledHolds ==
  ASSUME NEW capacity \in Nat, NEW text \in Seq(Bytes), Len(text) <= capacity,
         NEW certain \in Seq(Bytes), Prefix(certain, text)
  PROVE  /\ Holds(Filled(capacity, text), Len(text)) /\ Ends(Filled(capacity, text)) = {}
         /\ Begins(Filled(capacity, text), certain)
  <1> DEFINE buffer == Filled(capacity, text)
  <1>1. /\ DOMAIN buffer = 1..capacity
        /\ \A i \in 1..capacity : buffer[i] = IF i <= Len(text) THEN text[i] ELSE Untouched
    BY DEF Filled
  <1>2. /\ Len(text) \in Nat /\ Len(certain) \in Nat /\ DOMAIN certain = 1..Len(certain)
        /\ \A i \in 1..Len(text) : text[i] \in Bytes
    OBVIOUS
  <1>3. \A b \in Bytes : b # Untouched /\ b # Nul
    BY DEF Bytes, Untouched, Nul
  <1>4. Nul # Untouched
    BY DEF Nul, Untouched
  <1> HIDE DEF buffer
  <1>5. \A i \in 1..capacity : /\ buffer[i] # Untouched <=> i \in 1..Len(text)
                               /\ buffer[i] # Nul
    BY <1>1, <1>2, <1>3, <1>4
  <1>6. Holds(buffer, Len(text)) /\ Ends(buffer) = {}
    BY <1>1, <1>2, <1>5 DEF Holds, Ends
  <1>7. Begins(buffer, certain)
    BY <1>1, <1>2 DEF Begins, Prefix
  <1> QED
    BY <1>6, <1>7 DEF buffer

\* A buffer with a text and its end.
LEMMA EndedHolds ==
  ASSUME NEW capacity \in Nat, NEW text \in Seq(Bytes), Len(text) < capacity,
         NEW certain \in Seq(Bytes), Prefix(certain, text)
  PROVE  /\ Holds(Ended(capacity, text), Len(text) + 1)
         /\ Ends(Ended(capacity, text)) = {Len(text) + 1}
         /\ Begins(Ended(capacity, text), certain)
  <1> DEFINE buffer == Ended(capacity, text)
  <1>1. /\ DOMAIN buffer = 1..capacity
        /\ \A i \in 1..capacity : buffer[i] = IF i <= Len(text) THEN text[i]
                                              ELSE IF i = Len(text) + 1 THEN Nul ELSE Untouched
    BY DEF Ended
  <1>2. /\ Len(text) \in Nat /\ Len(certain) \in Nat /\ DOMAIN certain = 1..Len(certain)
        /\ \A i \in 1..Len(text) : text[i] \in Bytes
    OBVIOUS
  <1>3. \A b \in Bytes : b # Untouched /\ b # Nul
    BY DEF Bytes, Untouched, Nul
  <1>4. Nul # Untouched
    BY DEF Nul, Untouched
  <1> HIDE DEF buffer
  <1>5. \A i \in 1..capacity : /\ buffer[i] # Untouched <=> i \in 1..Len(text) + 1
                               /\ buffer[i] = Nul <=> i = Len(text) + 1
    BY <1>1, <1>2, <1>3, <1>4
  <1>6. Len(text) + 1 \in 1..capacity
    BY <1>2
  <1>7. Holds(buffer, Len(text) + 1) /\ Ends(buffer) = {Len(text) + 1}
    BY <1>1, <1>2, <1>5, <1>6 DEF Holds, Ends
  <1>8. Begins(buffer, certain)
    BY <1>1, <1>2 DEF Begins, Prefix
  <1> QED
    BY <1>7, <1>8 DEF buffer

LEMMA UntouchedHolds ==
  ASSUME NEW capacity \in Nat
  PROVE  Holds([i \in 1..capacity |-> Untouched], 0)
  BY DEF Holds

\* What BufferSafe says of an answer.
Safe(certain, spoiled, request, answer) ==
  /\ answer.status = "OK" /\ request.text =>
       /\ Holds(answer.buffer, answer.required) /\ Ends(answer.buffer) = {answer.required}
       /\ Begins(answer.buffer, certain)
  /\ answer.status = "OUT_OF_BOUNDS" =>
       request.text /\ request.capacity < answer.required /\ Holds(answer.buffer, 0)
  /\ answer.status = "FAILED" => Holds(answer.buffer, 0)
  /\ answer.status = "INVALID_ARGUMENT" =>
       /\ spoiled # {} /\ answer.required = 0
       /\ IF AtOnce(request)
          THEN /\ \E n \in 0..MaxTextCapacity - 1 : Holds(answer.buffer, n)
               /\ Ends(answer.buffer) = {} /\ Begins(answer.buffer, certain)
          ELSE Holds(answer.buffer, 0)

\* What PathsAgree says of one.
Agrees(g, line, answer) ==
  LET path == BestPath(g, line)
      starts == RunStarts(path)
  IN /\ answer.required = Len(Text(g, line)) + 1
     /\ Len(answer.score) = Len(starts)
     /\ \A i \in DOMAIN starts :
          LET row == [c \in Classes |-> Product(g, line[starts[i]], c)]
          IN answer.score[i] = Probability(row, path[starts[i]], row[path[starts[i]]])

LEMMA DecodedSafe ==
  ASSUME NEW g, NEW line, LineFits(g, line), NEW spoiled \in SUBSET DOMAIN line,
         NEW decoded, Exact(decoded, g, line, spoiled), NEW request, IsRequest(request)
  PROVE  Safe(Text(g, Sound(line, spoiled)), spoiled, request, Decoded(decoded, request))
  <1> DEFINE path == decoded.best
             N == Len(path)
             C == Characters(path, N)
             text == TextOf(path, C)
             certain == Text(g, Sound(line, spoiled))
             nothing == [i \in 1..request.capacity |-> Untouched]
             answer == Decoded(decoded, request)
  <1> SUFFICES Safe(certain, spoiled, request, answer)
    OBVIOUS
  <1>1. /\ path \in Seq(Classes) /\ N = Len(line) /\ N \in Nat /\ N <= MaxSteps
        /\ DOMAIN line = 1..N
    <2>1. Len(line) \in Nat /\ Len(line) <= MaxSteps /\ DOMAIN line = 1..Len(line)
      BY PathType, LineReaderAssumption DEF LineFits
    <2> QED
      BY <2>1 DEF Exact
  <1>2. \A t \in DOMAIN line \ spoiled : path[t] = BestPath(g, line)[t] /\ decoded.finite[t]
    BY DEF Exact
  <1>3. request.text \in BOOLEAN /\ request.capacity \in Nat
    BY DEF IsRequest
  <1>4. /\ C \in Nat /\ text \in Seq(Bytes) /\ Len(text) \in Nat
        /\ Len(text) < MaxTextCapacity /\ MaxTextCapacity \in Nat
    BY <1>1, TextFits
  <1>5. PICK m : SoundUpTo(decoded, m)
    BY <1>1, SoundExists
  <1>6. answer = IF m = N THEN Along(decoded, request) ELSE Broken(decoded, request, m)
    BY <1>1, <1>5, DecodedIs
  <1>7. m \in 0..N /\ (m = N \/ m + 1 \in spoiled)
    <2>1. m \in 0..N /\ (m # N => ~decoded.finite[m + 1])
      BY <1>5 DEF SoundUpTo
    <2> HIDE DEF N
    <2>2. m # N => m + 1 \in DOMAIN line
      <3>1. DOMAIN line = 1..N /\ N \in Nat /\ m \in 0..N
        BY <1>1, <2>1
      <3> QED
        BY <3>1
    <2> QED
      BY <1>2, <2>1, <2>2
  <1>8. Prefix(certain, TextOf(path, Characters(path, m))) /\ certain \in Seq(Bytes)
    <2>1. \A t \in DOMAIN line \ spoiled : path[t] = BestPath(g, line)[t]
      BY <1>2
    <2>2. /\ path \in Seq(Classes) /\ Len(path) = Len(line)
          /\ m \in 0..Len(line) /\ (m = Len(line) \/ m + 1 \in spoiled)
      <3>1. N = Len(path)
        OBVIOUS
      <3> HIDE DEF N, path
      <3> QED
        BY <1>1, <1>7, <3>1
    <2> HIDE DEF path
    <2> QED
      BY <2>1, <2>2, CertainFirst
  <1>9. Holds(nothing, 0)
    BY <1>3, UntouchedHolds
  <1> HIDE DEF certain, nothing, answer
  <1>10. CASE m = N
    <2>1. /\ answer.status = IF Fitting(request, text) THEN "OK" ELSE "OUT_OF_BOUNDS"
          /\ answer.required = Len(text) + 1
          /\ answer.buffer = IF Fitting(request, text) THEN Ended(request.capacity, text) ELSE nothing
      BY <1>6, <1>10 DEF Along, nothing
    <2>2. Prefix(certain, text)
      BY <1>10, <1>8
    <2> HIDE DEF text
    <2>3. CASE Fitting(request, text)
      <3>1. request.text => /\ Holds(answer.buffer, answer.required)
                            /\ Ends(answer.buffer) = {answer.required} /\ Begins(answer.buffer, certain)
        <4>1. request.text => Len(text) < request.capacity
          BY <1>3, <1>4, <2>3 DEF Fitting
        <4> QED
          BY <1>3, <1>4, <1>8, <2>1, <2>2, <2>3, <4>1, EndedHolds
      <3> QED
        BY <2>1, <2>3, <3>1 DEF Safe
    <2>4. CASE ~Fitting(request, text)
      <3>1. request.text /\ request.capacity < Len(text) + 1
        BY <1>3, <1>4, <2>4 DEF Fitting
      <3> QED
        BY <1>9, <2>1, <2>4, <3>1 DEF Safe
    <2> QED
      BY <2>3, <2>4
  <1>11. CASE m # N
    <2> DEFINE left == TextOf(path, Characters(path, m))
    <2>1. /\ answer.status = "INVALID_ARGUMENT" /\ answer.required = 0
          /\ answer.buffer = IF AtOnce(request) THEN Filled(request.capacity, left) ELSE nothing
      BY <1>6, <1>11 DEF Broken, nothing
    <2>2. left \in Seq(Bytes) /\ Len(left) \in Nat /\ Len(left) <= Len(text)
      <3>1. Characters(path, m) \in 0..C
        <4>1. path \in Seq(Classes) /\ m \in 0..Len(path)
          <5>1. N = Len(path)
            OBVIOUS
          <5> HIDE DEF N, path
          <5> QED
            BY <1>1, <1>7, <5>1
        <4> HIDE DEF path
        <4>2. Characters(path, m) \in Nat /\ Characters(path, m) <= C
          BY <4>1, CharactersCount
        <4> QED
          BY <1>4, <4>2
      <3>2. \A n \in 0..C : /\ TextOf(path, n) \in Seq(Bytes)
                             /\ Len(TextOf(path, n)) \in Nat
                             /\ Len(TextOf(path, n)) <= Len(TextOf(path, C))
        BY <1>1, TextGrows
      <3> QED
        BY <1>1, <1>4, <3>1, <3>2
    <2>3. Prefix(certain, left)
      BY <1>8
    <2> HIDE DEF left, text
    <2>4. CASE AtOnce(request)
      <3>1. Len(left) <= request.capacity /\ Len(left) \in 0..MaxTextCapacity - 1
        BY <1>3, <1>4, <2>2, <2>4 DEF AtOnce
      <3>2. /\ Holds(answer.buffer, Len(left)) /\ Ends(answer.buffer) = {}
            /\ Begins(answer.buffer, certain)
        BY <1>3, <1>8, <2>1, <2>2, <2>3, <2>4, <3>1, FilledHolds
      <3>3. \E n \in 0..MaxTextCapacity - 1 : Holds(answer.buffer, n)
        BY <3>1, <3>2
      <3> QED
        BY <1>7, <1>11, <2>1, <2>4, <3>2, <3>3 DEF Safe
    <2>5. CASE ~AtOnce(request)
      BY <1>7, <1>9, <1>11, <2>1, <2>5 DEF Safe
    <2> QED
      BY <2>4, <2>5
  <1> QED
    BY <1>10, <1>11

LEMMA DecodedAgrees ==
  ASSUME NEW g, NEW line, LineFits(g, line), NEW decoded, Exact(decoded, g, line, {}),
         NEW request, IsRequest(request)
  PROVE  Agrees(g, line, Decoded(decoded, request))
  <1> DEFINE path == BestPath(g, line)
             N == Len(line)
             C == Characters(path, N)
             starts == RunStarts(path)
             score == [i \in 1..C |-> Certain(g, line, starts[i])]
             answer == Decoded(decoded, request)
  <1>1. /\ path \in Seq(Classes) /\ Len(path) = N /\ N \in Nat /\ DOMAIN line = 1..N
        /\ path \in [DOMAIN line -> Classes]
    BY PathType
  <1>2. N <= MaxSteps
    BY LineReaderAssumption DEF LineFits
  <1>3. decoded.best = path
    <2>1. decoded.best \in Seq(Classes) /\ Len(decoded.best) = N
          /\ \A t \in DOMAIN line : decoded.best[t] = path[t]
      BY DEF Exact
    <2> QED
      BY <1>1, <2>1
  <1>4. SoundUpTo(decoded, N)
    <2>1. \A t \in 1..N : decoded.finite[t]
      BY <1>1 DEF Exact
    <2> QED
      BY <1>1, <1>3, <2>1 DEF SoundUpTo
  <1>5. answer = Along(decoded, request)
    BY <1>1, <1>2, <1>3, <1>4, DecodedIs
  <1>6. C \in Nat /\ DOMAIN starts = 1..C
    BY <1>1, LabelsType, StartsFacts
  <1>7. score = [i \in 1..C |-> decoded.value[starts[i]]]
    <2>1. ASSUME NEW i \in 1..C
          PROVE  decoded.value[starts[i]] = Certain(g, line, starts[i])
      <3> DEFINE t == starts[i]
      <3>1. t \in Begun(path)
        BY <1>1, StartsFacts
      <3>2. t \in 1..N /\ Emitted(path, t)
        BY <1>1, <3>1, BegunIsEmitted
      <3> HIDE DEF t
      <3>3. decoded.value[t] = Certain(g, line, t)
        BY <1>1, <1>3, <3>2 DEF Exact
      <3> QED
        BY <3>3 DEF t
    <2> QED
      BY <2>1
  <1>8. answer.required = Len(Text(g, line)) + 1 /\ answer.score = score
    <2>1. Text(g, line) = TextOf(path, C)
      BY <1>1, TextIs
    <2>2. answer.required = Len(TextOf(path, C)) + 1 /\ answer.score = [i \in 1..C |-> decoded.value[starts[i]]]
      BY <1>1, <1>3, <1>5 DEF Along
    <2> QED
      BY <1>7, <2>1, <2>2
  <1>9. Len(score) = C
    BY <1>6
  <1>10. Len(starts) = C
    <2>1. starts = [i \in 1..Cardinality(Begun(path)) |->
                      CHOOSE t \in Begun(path) : Cardinality({s \in Begun(path) : s <= t}) = i]
      BY DEF RunStarts
    <2>2. starts = [i \in 1..C |-> starts[i]]
      BY <1>6, <2>1
    <2> DEFINE T == {starts[i] : i \in 1..C}
    <2> HIDE DEF starts, C
    <2>3. starts \in Seq(T) /\ DOMAIN starts = 1..C
      BY <1>6, <2>2
    <2> QED
      BY <1>6, <2>3
  <1> HIDE DEF answer, starts
  <1>11. ASSUME NEW i \in DOMAIN starts
         PROVE  LET row == [c \in Classes |-> Product(g, line[starts[i]], c)]
                IN answer.score[i] = Probability(row, path[starts[i]], row[path[starts[i]]])
    <2>1. answer.score[i] = Certain(g, line, starts[i])
      BY <1>6, <1>8
    <2> HIDE DEF score, path
    <2> QED
      BY <2>1, Zenon DEF Certain, ReadRow, path
  <1> HIDE DEF score, C
  <1>12. Len(answer.score) = Len(starts)
    BY <1>8, <1>9, <1>10
  <1> QED
    BY <1>8, <1>11, <1>12 DEF Agrees, answer, starts

-----------------------------------------------------------------------------
(* The recognizer *)

\* A call leaves an answer of its own, so that what is promised of the last answer is
\* inductive as it stands.
LineInv == graph \in Graphs /\ level \in LineLevels /\ PathsAgree /\ BufferSafe

AgreesOn(g, call) ==
  call.answer.status \in {"OK", "OUT_OF_BOUNDS"} /\ call.spoiled = {} =>
    Agrees(g, call.line, call.answer)
SafeOn(g, call) ==
  call # NoReading =>
    Safe(Text(g, Sound(call.line, call.spoiled)), call.spoiled, call.request, call.answer)

LEMMA Restated ==
  /\ PathsAgree <=> AgreesOn(graph, reading)
  /\ BufferSafe <=> SafeOn(graph, reading)
  <1>1. PathsAgree <=> AgreesOn(graph, reading)
    BY Zenon DEF PathsAgree, AgreesOn, Agrees, Read
  <1>2. BufferSafe <=> SafeOn(graph, reading)
    BY Zenon DEF BufferSafe, SafeOn, Safe, AtOnce
  <1> QED
    BY <1>1, <1>2

LEMMA NoneSafe == ASSUME NEW g PROVE AgreesOn(g, NoReading) /\ SafeOn(g, NoReading)
  <1>1. NoReading.answer.status = "NONE"
    BY DEF NoReading, Untried
  <1> QED
    BY <1>1 DEF AgreesOn, SafeOn

LEMMA LinesFit ==
  ASSUME NEW g \in Graphs, NEW line \in Lines
  PROVE  LineFits(g, line)
  <1>1. line \in Seq(Seq(Int)) /\ Len(line) \in 1..MaxSteps /\ MaxSteps \in Nat
    BY LineReaderAssumption
  <1>2. IsModel(g)
    BY ModelAssumption
  <1>3. ASSUME NEW t \in DOMAIN line PROVE Fed(g, line[t])
    <2>1. line[t] \in Seq(Int)
      BY <1>1
    <2> QED
      BY <1>2, <2>1 DEF Fed, IsModel
  <1> QED
    BY <1>1, <1>3 DEF LineFits

LEMMA RequestsAre ==
  ASSUME NEW request \in Requests
  PROVE  IsRequest(request)
  <1>1. CASE request = NoBuffer
    BY <1>1 DEF NoBuffer, IsRequest
  <1>2. ASSUME NEW n \in TextCapacities, request = Buffer(n)
        PROVE  IsRequest(request)
    <2>1. n \in Nat
      BY LineReaderAssumption
    <2> QED
      BY <1>2, <2>1 DEF Buffer, IsRequest
  <1> QED
    BY <1>1, <1>2 DEF Requests

LEMMA LineInitInv == LineInit => LineInv
  BY Restated, NoneSafe DEF LineInit, LineInv

LEMMA RecognizedIs ==
  ASSUME NEW line, NEW spoiled, NEW request, LineFits(graph, line), Recognize(line, spoiled, request)
  PROVE  \E decoded : /\ Exact(decoded, graph, line, spoiled)
                      /\ reading' = Reading(line, spoiled, request, Decoded(decoded, request))
  <1> DEFINE logits == Logits(graph, line)
             decoded(outcome) ==
               IF GreedyTail(graph) THEN GreedyClasses(graph, line, logits, outcome)
               ELSE BestOf([t \in DOMAIN line |-> Softmax(logits[t])], outcome)
  <1>1. PICK outcome \in Outcomes(spoiled) :
          reading' = Reading(line, spoiled, request, Decoded(decoded(outcome), request))
    BY Zenon DEF Recognize
  <1>2. Exact(decoded(outcome), graph, line, spoiled)
    <2>1. Exact(GreedyClasses(graph, line, logits, outcome), graph, line, spoiled)
      BY GreedyIsExact
    <2>2. Exact(BestOf([t \in DOMAIN line |-> Softmax(logits[t])], outcome), graph, line, spoiled)
      BY SoftmaxIsExact
    <2> HIDE DEF logits
    <2> QED
      BY <2>1, <2>2
  <1> HIDE DEF decoded
  <1> QED
    BY <1>1, <1>2

LEMMA CallSafe ==
  ASSUME NEW g \in Graphs, NEW line \in Lines, NEW spoiled \in SUBSET DOMAIN line,
         NEW request \in Requests, NEW answer,
         \/ answer = Untried("FAILED", request)
         \/ \E decoded : Exact(decoded, g, line, spoiled) /\ answer = Decoded(decoded, request)
  PROVE  /\ AgreesOn(g, Reading(line, spoiled, request, answer))
         /\ SafeOn(g, Reading(line, spoiled, request, answer))
  <1> DEFINE call == Reading(line, spoiled, request, answer)
  <1>1. LineFits(g, line) /\ IsRequest(request)
    BY LinesFit, RequestsAre
  <1>2. /\ call.line = line /\ call.spoiled = spoiled /\ call.request = request
        /\ call.answer = answer
    BY DEF Reading
  <1> HIDE DEF call
  <1>3. CASE answer = Untried("FAILED", request)
    <2>1. answer.status = "FAILED" /\ answer.buffer = [i \in 1..request.capacity |-> Untouched]
      BY <1>3 DEF Untried
    <2>2. Holds(answer.buffer, 0)
      <3>1. request.capacity \in Nat
        BY <1>1 DEF IsRequest
      <3> QED
        BY <2>1, <3>1, UntouchedHolds
    <2>3. Safe(Text(g, Sound(line, spoiled)), spoiled, request, answer)
      BY <2>1, <2>2 DEF Safe
    <2> QED
      BY <1>2, <2>1, <2>3 DEF AgreesOn, SafeOn, call
  <1>4. ASSUME NEW decoded, Exact(decoded, g, line, spoiled), answer = Decoded(decoded, request)
        PROVE  AgreesOn(g, call) /\ SafeOn(g, call)
    <2>1. Safe(Text(g, Sound(line, spoiled)), spoiled, request, answer)
      BY <1>1, <1>4, DecodedSafe
    <2>2. spoiled = {} => Agrees(g, line, answer)
      BY <1>1, <1>4, DecodedAgrees
    <2> QED
      BY <1>2, <2>1, <2>2 DEF AgreesOn, SafeOn
  <1> QED
    BY <1>3, <1>4 DEF call

LEMMA LineStepInv ==
  ASSUME LineInv, LineNext \/ UNCHANGED lineVars
  PROVE  LineInv'
  <1>0. graph \in Graphs /\ level \in LineLevels /\ AgreesOn(graph, reading) /\ SafeOn(graph, reading)
    BY Restated DEF LineInv
  <1>1. ASSUME graph' = graph, level' = level, AgreesOn(graph, reading'), SafeOn(graph, reading')
        PROVE  LineInv'
    <2>1. (PathsAgree <=> AgreesOn(graph, reading))' /\ (BufferSafe <=> SafeOn(graph, reading))'
      BY Restated, PTL
    <2>2. AgreesOn(graph, reading)' /\ SafeOn(graph, reading)'
      BY <1>1
    <2> QED
      BY <1>0, <1>1, <2>1, <2>2 DEF LineInv
  <1>2. CASE UNCHANGED lineVars
    BY <1>0, <1>1, <1>2 DEF lineVars
  <1>3. CASE NextLine
    BY <1>0, <1>1, <1>3, NoneSafe DEF NextLine
  <1>4. ASSUME NEW line \in Lines, NEW spoiled \in Spoilings, NEW request \in Requests,
               spoiled \subseteq DOMAIN line,
               RecognitionFails(line, spoiled, request) \/ Recognize(line, spoiled, request)
        PROVE  LineInv'
    <2>1. graph' = graph /\ level' = level
      BY <1>4 DEF RecognitionFails, Recognize
    <2>2. LineFits(graph, line)
      BY <1>0, LinesFit
    <2>3. PICK answer :
            /\ reading' = Reading(line, spoiled, request, answer)
            /\ \/ answer = Untried("FAILED", request)
               \/ \E decoded : Exact(decoded, graph, line, spoiled) /\ answer = Decoded(decoded, request)
      <3>1. CASE RecognitionFails(line, spoiled, request)
        BY <3>1 DEF RecognitionFails
      <3>2. CASE Recognize(line, spoiled, request)
        BY <2>2, <3>2, RecognizedIs
      <3> QED
        BY <1>4, <3>1, <3>2
    <2>4. /\ AgreesOn(graph, Reading(line, spoiled, request, answer))
          /\ SafeOn(graph, Reading(line, spoiled, request, answer))
      BY <1>0, <1>4, <2>3, CallSafe
    <2> QED
      BY <1>1, <2>1, <2>3, <2>4
  <1>5. LineNext => NextLine \/ \E line \in Lines, spoiled \in Spoilings, request \in Requests :
                                  /\ spoiled \subseteq DOMAIN line
                                  /\ RecognitionFails(line, spoiled, request) \/ Recognize(line, spoiled, request)
    BY DEF LineNext
  <1> QED
    BY <1>2, <1>3, <1>4, <1>5

LEMMA LineSafe == LineInv => PathsAgree /\ BufferSafe
  BY DEF LineInv

-----------------------------------------------------------------------------
(* Insertion sort *)

\* The values from which on all come after: where the loop of the sort stops.
Stops(k, L, P) == k \in 0..L /\ (k = 0 \/ k \notin P) /\ \A j \in k + 1..L : j \in P

LEMMA StopExists ==
  ASSUME NEW L \in Nat, NEW P
  PROVE  \E k \in 0..L : Stops(k, L, P)
  <1> DEFINE Good == {n \in 0..L : \E k \in 0..n : Stops(k, n, P)}
  <1>1. 0 \in Good
    BY DEF Stops
  <1>2. ASSUME NEW n \in 1..L, n - 1 \in Good PROVE n \in Good
    <2>1. PICK k \in 0..n - 1 : Stops(k, n - 1, P)
      BY <1>2
    <2>2. CASE n \in P
      <3>1. Stops(k, n, P)
        BY <2>1, <2>2 DEF Stops
      <3> QED
        BY <3>1
    <2>3. CASE n \notin P
      <3>1. Stops(n, n, P)
        BY <2>3 DEF Stops
      <3> QED
        BY <3>1
    <2> QED
      BY <2>2, <2>3
  <1>3. L \in Good
    <2> HIDE DEF Good
    <2> QED
      BY <1>1, <1>2, Upwards
  <1> QED
    BY <1>3

\* The value v has been inserted into s behind its first k elements.
Inserted(s, v, k) == [i \in 1..Len(s) + 1 |-> IF i <= k THEN s[i] ELSE IF i = k + 1 THEN v ELSE s[i - 1]]

LEMMA InsertIs ==
  ASSUME NEW V, NEW s \in Seq(V), NEW v \in V, NEW k \in 0..Len(s)
  PROVE  /\ Append(SubSeq(s, 1, k), v) \o SubSeq(s, k + 1, Len(s)) = Inserted(s, v, k)
         /\ Inserted(s, v, k) \in Seq(V)
         /\ Len(Inserted(s, v, k)) = Len(s) + 1
  <1>0. Len(s) \in Nat /\ k \in Nat /\ k <= Len(s)
    OBVIOUS
  <1> DEFINE front == SubSeq(s, 1, k)
             back == SubSeq(s, k + 1, Len(s))
             one == Append(front, v)
             all == one \o back
  <1>1. front \in Seq(V) /\ Len(front) = k /\ \A i \in 1..k : front[i] = s[i]
    BY <1>0
  <1>2. /\ back \in Seq(V) /\ Len(back) = Len(s) - k
        /\ \A i \in 1..Len(s) - k : back[i] = s[k + i]
    BY <1>0
  <1> HIDE DEF front, back
  <1>3. /\ one \in Seq(V) /\ Len(one) = k + 1 /\ one[k + 1] = v
        /\ \A i \in 1..k : one[i] = s[i]
    BY <1>0, <1>1
  <1> HIDE DEF one
  <1>4. /\ all \in Seq(V) /\ Len(all) = Len(s) + 1
        /\ \A i \in 1..k + 1 : all[i] = one[i]
        /\ \A i \in k + 2..Len(s) + 1 : all[i] = back[i - (k + 1)]
    BY <1>0, <1>2, <1>3
  <1> HIDE DEF all
  <1>5. ASSUME NEW i \in 1..Len(s) + 1
        PROVE  all[i] = IF i <= k THEN s[i] ELSE IF i = k + 1 THEN v ELSE s[i - 1]
    <2>1. CASE i <= k
      BY <1>0, <1>3, <1>4, <2>1
    <2>2. CASE i = k + 1
      BY <1>0, <1>3, <1>4, <2>2
    <2>3. CASE i > k + 1
      <3>1. i \in k + 2..Len(s) + 1 /\ i - (k + 1) \in 1..Len(s) - k /\ k + (i - (k + 1)) = i - 1
        BY <1>0, <2>3
      <3>2. all[i] = back[i - (k + 1)]
        BY <1>4, <3>1
      <3>3. back[i - (k + 1)] = s[k + (i - (k + 1))]
        BY <1>2, <3>1
      <3>4. all[i] = s[i - 1] /\ ~(i <= k) /\ i # k + 1
        BY <1>0, <2>3, <3>1, <3>2, <3>3
      <3> QED
        BY <3>4
    <2> QED
      BY <1>0, <2>1, <2>2, <2>3
  <1>6. all = [i \in 1..Len(s) + 1 |-> all[i]]
    BY <1>4
  <1>7. all = Inserted(s, v, k)
    BY <1>5, <1>6 DEF Inserted
  <1> QED
    BY <1>4, <1>7 DEF all, one, front, back

LEMMA InsertedLength ==
  ASSUME NEW s, NEW v, NEW k, Len(s) \in Nat
  PROVE  Len(Inserted(s, v, k)) = Len(s) + 1
  BY DEF Inserted

\* A sort of items by a relation: R has the pairs of which the first comes after.
Sorts(N, V, items, R, g) ==
  /\ N \in Nat /\ items \in [1..N -> V] /\ g \in [0..N -> Seq(V)]
  /\ g[0] = <<>>
  /\ \A n \in 1..N : \E k \in 0..Len(g[n - 1]) :
       /\ Stops(k, Len(g[n - 1]), {j \in 1..Len(g[n - 1]) : <<g[n - 1][j], items[n]>> \in R})
       /\ g[n] = Inserted(g[n - 1], items[n], k)

Arranged(N, items, g) ==
  /\ \A n \in 0..N : Len(g[n]) = n
  /\ \E place \in Arrangements(N) : g[N] = [i \in 1..N |-> items[place[i]]]

\* Every sequence of the sort is an arrangement of the items so far.
LEMMA SortArranges ==
  ASSUME NEW N, NEW V, NEW items, NEW R, NEW g, Sorts(N, V, items, R, g)
  PROVE  Arranged(N, items, g)
  <1>0. /\ N \in Nat /\ items \in [1..N -> V] /\ g \in [0..N -> Seq(V)]
        /\ g[0] = <<>>
        /\ \A n \in 1..N : \E k \in 0..Len(g[n - 1]) :
             g[n] = Inserted(g[n - 1], items[n], k)
    BY DEF Sorts
  <1> DEFINE Is(n, place) == place \in Arrangements(n) /\ g[n] = [i \in 1..n |-> items[place[i]]]
             Good == {n \in 0..N : Len(g[n]) = n /\ \E place : Is(n, place)}
  <1>1. 0 \in Good
    <2>1. [i \in 1..0 |-> i] \in Arrangements(0)
      BY DEF Arrangements
    <2>2. [i \in 1..0 |-> items[[j \in 1..0 |-> j][i]]] = <<>>
      OBVIOUS
    <2>3. Is(0, [i \in 1..0 |-> i])
      BY <1>0, <2>1, <2>2
    <2> HIDE DEF Is
    <2> QED
      BY <1>0, <2>3
  <1>2. ASSUME NEW n \in 1..N, n - 1 \in Good PROVE n \in Good
    <2>1. PICK before : Is(n - 1, before)
      BY <1>2
    <2>2. Len(g[n - 1]) = n - 1 /\ g[n - 1] \in Seq(V) /\ items[n] \in V
      BY <1>0, <1>2
    <2>3. PICK k \in 0..n - 1 : g[n] = Inserted(g[n - 1], items[n], k)
      BY <1>0, <2>2
    <2> DEFINE place == [i \in 1..n |-> IF i <= k THEN before[i]
                                        ELSE IF i = k + 1 THEN n ELSE before[i - 1]]
    <2>4. /\ before \in [1..n - 1 -> 1..n - 1]
          /\ \A i, j \in 1..n - 1 : before[i] = before[j] => i = j
          /\ \A i \in 1..n - 1 : g[n - 1][i] = items[before[i]]
      BY <2>1 DEF Arrangements
    <2>5. /\ \A i \in 1..k : place[i] = before[i] /\ i \in 1..n - 1
          /\ place[k + 1] = n
          /\ \A i \in k + 2..n : place[i] = before[i - 1] /\ i - 1 \in 1..n - 1
          /\ \A i \in 1..n : i \in 1..k \/ i = k + 1 \/ i \in k + 2..n
      <3>1. n \in Nat /\ k \in Nat /\ k <= n - 1
        OBVIOUS
      <3> QED
        BY <3>1
    <2>6. place \in [1..n -> 1..n]
      BY <2>4
    <2> HIDE DEF place
    <2>7. ASSUME NEW i \in 1..n, NEW j \in 1..n, place[i] = place[j] PROVE i = j
      <3>1. \A m \in 1..n - 1 : before[m] # n
        BY <2>4
      <3>2. CASE i = k + 1
        BY <2>5, <2>7, <3>1, <3>2
      <3>3. CASE j = k + 1
        BY <2>5, <2>7, <3>1, <3>3
      <3>4. CASE i \in 1..k /\ j \in 1..k
        BY <2>4, <2>5, <2>7, <3>4
      <3>5. CASE i \in k + 2..n /\ j \in k + 2..n
        <4>1. i - 1 = j - 1
          BY <2>4, <2>5, <2>7, <3>5
        <4> QED
          BY <4>1, <3>5
      <3>6. CASE i \in 1..k /\ j \in k + 2..n
        <4>1. i = j - 1
          BY <2>4, <2>5, <2>7, <3>6
        <4> QED
          BY <4>1, <3>6
      <3>7. CASE i \in k + 2..n /\ j \in 1..k
        <4>1. i - 1 = j
          BY <2>4, <2>5, <2>7, <3>7
        <4> QED
          BY <4>1, <3>7
      <3> QED
        BY <2>5, <3>2, <3>3, <3>4, <3>5, <3>6, <3>7
    <2>8. place \in Arrangements(n)
      BY <2>6, <2>7 DEF Arrangements
    <2>9. ASSUME NEW i \in 1..n
          PROVE  items[place[i]] = IF i <= k THEN g[n - 1][i]
                                   ELSE IF i = k + 1 THEN items[n] ELSE g[n - 1][i - 1]
      <3>1. CASE i \in 1..k
        <4>1. place[i] = before[i] /\ i \in 1..n - 1 /\ i <= k
          BY <2>5, <3>1
        <4>2. g[n - 1][i] = items[before[i]]
          BY <2>4, <4>1
        <4> QED
          BY <4>1, <4>2
      <3>2. CASE i = k + 1
        <4>1. items[place[i]] = items[n] /\ ~(i <= k)
          BY <2>5, <3>2
        <4> QED
          BY <4>1, <3>2
      <3>3. CASE i \in k + 2..n
        <4>1. place[i] = before[i - 1] /\ i - 1 \in 1..n - 1
          BY <2>5, <3>3
        <4>2. g[n - 1][i - 1] = items[before[i - 1]]
          BY <2>4, <4>1
        <4>3. ~(i <= k) /\ i # k + 1
          BY <3>3
        <4> QED
          BY <4>1, <4>2, <4>3
      <3> QED
        BY <2>5, <3>1, <3>2, <3>3
    <2>10. g[n] = [i \in 1..n |-> items[place[i]]]
      <3>1. Len(g[n - 1]) + 1 = n
        BY <2>2
      <3> QED
        BY <2>3, <2>9, <3>1 DEF Inserted
    <2>11. Len(g[n]) = n
      <3>1. Len(Inserted(g[n - 1], items[n], k)) = Len(g[n - 1]) + 1
        <4>1. Len(g[n - 1]) \in Nat
          BY <2>2
        <4> QED
          BY <4>1, InsertedLength
      <3> QED
        BY <2>2, <2>3, <3>1
    <2>12. Is(n, place)
      BY <2>8, <2>10
    <2> HIDE DEF Is
    <2> QED
      BY <2>11, <2>12
  <1>3. \A n \in 0..N : n \in Good
    <2> HIDE DEF Good
    <2> QED
      BY <1>0, <1>1, <1>2, Upwards
  <1>4. PICK place : Is(N, place)
    <2>1. N \in Good
      BY <1>0, <1>3
    <2> QED
      BY <2>1
  <1> QED
    BY <1>3, <1>4 DEF Arranged

\* Who does not come after: the relation is never both ways.
LEMMA SortSettles ==
  ASSUME NEW N, NEW V, NEW items, NEW R, NEW g, Sorts(N, V, items, R, g),
         \A p, q \in V : <<p, q>> \in R => <<q, p>> \notin R
  PROVE  \A i \in 1..N - 1 : <<g[N][i], g[N][i + 1]>> \notin R
  <1>0. /\ N \in Nat /\ items \in [1..N -> V] /\ g \in [0..N -> Seq(V)]
        /\ \A n \in 1..N : \E k \in 0..Len(g[n - 1]) :
             /\ Stops(k, Len(g[n - 1]), {j \in 1..Len(g[n - 1]) : <<g[n - 1][j], items[n]>> \in R})
             /\ g[n] = Inserted(g[n - 1], items[n], k)
    BY DEF Sorts
  <1>1. \A n \in 0..N : Len(g[n]) = n
    BY SortArranges DEF Arranged
  <1> DEFINE Good == {n \in 0..N : \A i \in 1..n - 1 : <<g[n][i], g[n][i + 1]>> \notin R}
  <1>2. 0 \in Good
    BY <1>0
  <1>3. ASSUME NEW n \in 1..N, n - 1 \in Good PROVE n \in Good
    <2> DEFINE s == g[n - 1]
               v == items[n]
    <2>1. s \in Seq(V) /\ Len(s) = n - 1 /\ v \in V /\ n \in Nat
      <3>1. n - 1 \in 0..N /\ n \in Nat
        BY <1>0
      <3> QED
        BY <1>0, <1>1, <3>1
    <2>2. PICK k \in 0..n - 1 : Stops(k, n - 1, {j \in 1..n - 1 : <<s[j], v>> \in R})
                                /\ g[n] = Inserted(s, v, k)
      BY <1>0, <2>1
    <2>3. \A i \in 1..n - 2 : <<s[i], s[i + 1]>> \notin R
      BY <1>3
    <2> HIDE DEF s, v
    <2>4. k # 0 => <<s[k], v>> \notin R
      BY <2>2 DEF Stops
    <2>5. \A j \in k + 1..n - 1 : <<s[j], v>> \in R
      BY <2>2 DEF Stops
    <2>6. ASSUME NEW i \in 1..n
          PROVE  g[n][i] = IF i <= k THEN s[i] ELSE IF i = k + 1 THEN v ELSE s[i - 1]
      BY <2>1, <2>2 DEF Inserted
    <2>7. ASSUME NEW i \in 1..n - 1 PROVE <<g[n][i], g[n][i + 1]>> \notin R
      <3>0. i \in 1..n /\ i + 1 \in 1..n /\ i + 1 - 1 = i
        BY <2>1
      <3>1. CASE i < k
        <4>1. g[n][i] = s[i] /\ g[n][i + 1] = s[i + 1] /\ i \in 1..n - 2
          BY <2>1, <2>6, <3>0, <3>1
        <4> QED
          BY <2>3, <4>1
      <3>2. CASE i = k
        <4>1. g[n][i] = s[k] /\ g[n][i + 1] = v
          BY <2>1, <2>6, <3>0, <3>2
        <4> QED
          BY <2>4, <3>2, <4>1
      <3>3. CASE i = k + 1
        <4>1. g[n][i] = v /\ g[n][i + 1] = s[i]
          BY <2>1, <2>6, <3>0, <3>3
        <4>2. <<s[i], v>> \in R /\ s[i] \in V
          BY <2>1, <2>5, <3>3
        <4> QED
          BY <2>1, <4>1, <4>2
      <3>4. CASE i > k + 1
        <4>1. g[n][i] = s[i - 1] /\ g[n][i + 1] = s[i] /\ i - 1 \in 1..n - 2 /\ (i - 1) + 1 = i
          BY <2>1, <2>6, <3>0, <3>4
        <4>2. <<s[i - 1], s[(i - 1) + 1]>> \notin R
          BY <2>3, <4>1
        <4> QED
          BY <4>1, <4>2
      <3> QED
        BY <2>1, <3>1, <3>2, <3>3, <3>4
    <2> QED
      BY <2>7
  <1>4. N \in Good
    <2> HIDE DEF Good
    <2>1. \A n \in 0..N : n \in Good
      BY <1>0, <1>2, <1>3, Upwards
    <2> QED
      BY <1>0, <2>1
  <1> QED
    BY <1>4

\* Where not to come after is transitive, it holds between any two.
LEMMA SortOrders ==
  ASSUME NEW N, NEW V, NEW items, NEW R, NEW g, Sorts(N, V, items, R, g),
         \A p, q \in V : <<p, q>> \in R => <<q, p>> \notin R,
         \A p, q, r \in V : <<p, q>> \notin R /\ <<q, r>> \notin R => <<p, r>> \notin R
  PROVE  \A i, j \in 1..N : i < j => <<g[N][i], g[N][j]>> \notin R
  <1>0. g \in [0..N -> Seq(V)] /\ N \in Nat /\ Len(g[N]) = N
    <2>1. g \in [0..N -> Seq(V)] /\ N \in Nat
      BY DEF Sorts
    <2> QED
      BY <2>1, SortArranges DEF Arranged
  <1>1. \A i \in 1..N - 1 : <<g[N][i], g[N][i + 1]>> \notin R
    BY SortSettles
  <1>2. \A i \in 1..N : g[N][i] \in V
    BY <1>0
  <1> DEFINE Good == {n \in 0..N : \A i, j \in 1..n : i < j => <<g[N][i], g[N][j]>> \notin R}
  <1>3. 0 \in Good
    BY <1>0
  <1>4. ASSUME NEW n \in 1..N, n - 1 \in Good PROVE n \in Good
    <2>1. \A i, j \in 1..n - 1 : i < j => <<g[N][i], g[N][j]>> \notin R
      BY <1>4
    <2>2. ASSUME NEW i \in 1..n - 1 PROVE <<g[N][i], g[N][n]>> \notin R
      <3>1. n - 1 \in 1..N - 1 /\ (n - 1) + 1 = n /\ n - 1 \in 1..n - 1 /\ n - 1 \in 1..N
            /\ n \in 1..N /\ i \in 1..N
        BY <1>0
      <3>2. <<g[N][n - 1], g[N][n]>> \notin R
        BY <1>1, <3>1
      <3>3. CASE i = n - 1
        BY <3>2, <3>3
      <3>4. CASE i < n - 1
        <4>1. <<g[N][i], g[N][n - 1]>> \notin R
          BY <2>1, <3>1, <3>4
        <4> QED
          BY <1>2, <3>1, <3>2, <4>1
      <3> QED
        BY <3>1, <3>3, <3>4
    <2>3. ASSUME NEW i \in 1..n, NEW j \in 1..n, i < j PROVE <<g[N][i], g[N][j]>> \notin R
      <3>1. CASE j = n
        BY <1>0, <2>2, <2>3, <3>1
      <3>2. CASE j # n
        BY <1>0, <2>1, <2>3, <3>2
      <3> QED
        BY <3>1, <3>2
    <2> QED
      BY <2>3
  <1>5. N \in Good
    <2> HIDE DEF Good
    <2>1. \A n \in 0..N : n \in Good
      BY <1>0, <1>3, <1>4, Upwards
    <2> QED
      BY <1>0, <2>1
  <1> QED
    BY <1>5

\* The places of s that come after v, and where v is put.
Behind(R, s, v) == {j \in 1..Len(s) : <<s[j], v>> \in R}
StopOf(L, P) == CHOOSE k \in 0..L : Stops(k, L, P)

PutAt(V, R, s, v, k) ==
  /\ k \in 0..Len(s) /\ Stops(k, Len(s), Behind(R, s, v))
  /\ Append(SubSeq(s, 1, k), v) \o SubSeq(s, k + 1, Len(s)) = Inserted(s, v, k)
  /\ Inserted(s, v, k) \in Seq(V)

LEMMA PutIs ==
  ASSUME NEW V, NEW R, NEW s \in Seq(V), NEW v \in V
  PROVE  PutAt(V, R, s, v, StopOf(Len(s), Behind(R, s, v)))
  <1> DEFINE k == StopOf(Len(s), Behind(R, s, v))
  <1>1. Len(s) \in Nat
    OBVIOUS
  <1>2. k \in 0..Len(s) /\ Stops(k, Len(s), Behind(R, s, v))
    BY <1>1, StopExists DEF StopOf
  <1> HIDE DEF k
  <1>3. PutAt(V, R, s, v, k)
    BY <1>2, InsertIs DEF PutAt
  <1> QED
    BY <1>3 DEF k

\* legacy_horizontal_sort is such a sort.
LEMMA RowsSorted ==
  ASSUME NEW V, NEW boxes \in Seq(V)
  PROVE  \E g : /\ Sorts(Len(boxes), V, boxes, {p \in (V) \X (V) : ComesAfter(p[1], p[2])}, g)
               /\ legacy_horizontal_sort(boxes) = g[Len(boxes)]
  <1> DEFINE L == Len(boxes)
             R == {p \in (V) \X (V) : ComesAfter(p[1], p[2])}
             Insertion(s, v) == LET k == Place(s, v, ComesAfter)
                          IN Append(SubSeq(s, 1, k), v) \o SubSeq(s, k + 1, Len(s))
             sorted == CHOOSE f : f = [n \in 0..L |-> IF n = 0 THEN <<>> ELSE Insertion(f[n - 1], boxes[n])]
             F == [p \in (1..L) \X Seq(V) |-> Insertion(p[2], boxes[p[1]])]
  <1>0. L \in Nat /\ boxes \in [1..L -> V]
    OBVIOUS
  <1>1. \A p, q \in V : <<p, q>> \in R <=> ComesAfter(p, q)
    OBVIOUS
  <1>2. ASSUME NEW s \in Seq(V), NEW v \in V
        PROVE  \E k \in 0..Len(s) :
                 /\ Stops(k, Len(s), {j \in 1..Len(s) : <<s[j], v>> \in R})
                 /\ Insertion(s, v) = Inserted(s, v, k) /\ Insertion(s, v) \in Seq(V)
    <2> DEFINE P == Behind(R, s, v)
               k == StopOf(Len(s), P)
    <2>1. \A m \in 0..Len(s) : \A j \in m + 1..Len(s) : j \in P <=> ComesAfter(s[j], v)
      <3> HIDE DEF R
      <3>1. \A j \in 1..Len(s) : s[j] \in V
        OBVIOUS
      <3>2. \A j \in 1..Len(s) : j \in P <=> ComesAfter(s[j], v)
        BY <1>1, <3>1 DEF Behind
      <3> HIDE DEF P
      <3> QED
        BY <3>2
    <2>2. \A m \in 0..Len(s) : m # 0 => (m \in P <=> ComesAfter(s[m], v))
      <3>1. \A m \in 0..Len(s) : m # 0 => m - 1 \in 0..Len(s) /\ m \in (m - 1) + 1..Len(s)
        OBVIOUS
      <3> HIDE DEF P
      <3> QED
        BY <2>1, <3>1
    <2>3. Place(s, v, ComesAfter) = k
      <3> HIDE DEF P
      <3>1. \A m \in 0..Len(s) :
               Stops(m, Len(s), P) <=>
                 /\ m = 0 \/ ~ComesAfter(s[m], v)
                 /\ \A j \in m + 1..Len(s) : ComesAfter(s[j], v)
        BY <2>1, <2>2 DEF Stops
      <3> QED
        BY <3>1 DEF Place, StopOf
    <2>4. Insertion(s, v) = Append(SubSeq(s, 1, k), v) \o SubSeq(s, k + 1, Len(s))
      <3> HIDE DEF k
      <3> QED
        BY <2>3
    <2> HIDE DEF R, Insertion
    <2>5. /\ k \in 0..Len(s) /\ Stops(k, Len(s), P)
          /\ Append(SubSeq(s, 1, k), v) \o SubSeq(s, k + 1, Len(s)) = Inserted(s, v, k)
          /\ Inserted(s, v, k) \in Seq(V)
      <3> HIDE DEF k
      <3>1. PutAt(V, R, s, v, k)
        BY PutIs DEF k
      <3> QED
        BY <3>1 DEF PutAt
    <2> HIDE DEF k
    <2> QED
      BY <2>4, <2>5 DEF Behind
  <1>3. legacy_horizontal_sort(boxes) = sorted[L]
    BY DEF InsertionSort, legacy_horizontal_sort
  <1> HIDE DEF R, Insertion
  <1>4. \A n \in 1..L, s \in Seq(V) : F[<<n, s>>] = Insertion(s, boxes[n]) /\ F[<<n, s>>] \in Seq(V)
    BY <1>0, <1>2
  <1>5. F \in [(1..L) \X Seq(V) -> Seq(V)]
    BY <1>0, <1>2
  <1> HIDE DEF F
  <1>6. PICK g : Traces(g, L, Seq(V), <<>>, F)
    <2>1. Steps(L, Seq(V), <<>>, F)
      BY <1>0, <1>5 DEF Steps
    <2> HIDE DEF L
    <2> QED
      BY <2>1, Recursion
  <1> HIDE DEF L
  <1>7. g \in [0..L -> Seq(V)] /\ g[0] = <<>> /\ \A n \in 1..L : g[n] = Insertion(g[n - 1], boxes[n])
    <2>1. g \in [0..L -> Seq(V)] /\ g[0] = <<>> /\ \A n \in 1..L : g[n] = F[<<n, g[n - 1]>>]
      BY <1>6 DEF Traces
    <2>2. \A n \in 1..L : g[n - 1] \in Seq(V)
      BY <1>0, <2>1
    <2> QED
      BY <1>4, <2>1, <2>2
  <1>8. g = [n \in 0..L |-> IF n = 0 THEN <<>> ELSE Insertion(g[n - 1], boxes[n])]
    BY <1>0, <1>7
  <1>9. sorted = [n \in 0..L |-> IF n = 0 THEN <<>> ELSE Insertion(sorted[n - 1], boxes[n])]
    BY <1>8
  <1> HIDE DEF sorted
  <1> DEFINE Good == {n \in 0..L : sorted[n] = g[n]}
  <1>10. L \in Good
    <2>1. 0 \in Good
      BY <1>0, <1>7, <1>9
    <2>2. ASSUME NEW n \in 1..L, n - 1 \in Good PROVE n \in Good
      <3>1. n \in 0..L /\ n # 0
        BY <1>0
      <3>2. sorted[n] = Insertion(sorted[n - 1], boxes[n])
        BY <1>9, <3>1
      <3>3. sorted[n - 1] = g[n - 1]
        BY <2>2
      <3>4. g[n] = Insertion(g[n - 1], boxes[n])
        BY <1>7
      <3> QED
        BY <3>1, <3>2, <3>3, <3>4
    <2> HIDE DEF Good
    <2>3. \A n \in 0..L : n \in Good
      BY <1>0, <2>1, <2>2, Upwards
    <2> QED
      BY <1>0, <2>3
  <1>11. Sorts(L, V, boxes, R, g)
    <2>1. ASSUME NEW n \in 1..L
          PROVE  \E k \in 0..Len(g[n - 1]) :
                   /\ Stops(k, Len(g[n - 1]), {j \in 1..Len(g[n - 1]) : <<g[n - 1][j], boxes[n]>> \in R})
                   /\ g[n] = Inserted(g[n - 1], boxes[n], k)
      <3>1. g[n - 1] \in Seq(V)
        BY <1>0, <1>7, Earlier
      <3>2. boxes[n] \in V /\ g[n] = Insertion(g[n - 1], boxes[n])
        BY <1>0, <1>7
      <3> QED
        BY <1>2, <3>1, <3>2
    <2> QED
      BY <1>0, <1>7, <2>1 DEF Sorts
  <1> QED
    BY <1>3, <1>10, <1>11 DEF L, R

\* So is the sort of the items by their centres.
LEMMA ItemsSorted ==
  ASSUME NEW V, NEW items \in Seq(V)
  PROVE  \E g : /\ Sorts(Len(items), V, items, {p \in (V) \X (V) : item_x_after(p[1], p[2])}, g)
               /\ InsertionSort(items, item_x_after) = g[Len(items)]
  <1> DEFINE L == Len(items)
             R == {p \in (V) \X (V) : item_x_after(p[1], p[2])}
             Insertion(s, v) == LET k == Place(s, v, item_x_after)
                          IN Append(SubSeq(s, 1, k), v) \o SubSeq(s, k + 1, Len(s))
             sorted == CHOOSE f : f = [n \in 0..L |-> IF n = 0 THEN <<>> ELSE Insertion(f[n - 1], items[n])]
             F == [p \in (1..L) \X Seq(V) |-> Insertion(p[2], items[p[1]])]
  <1>0. L \in Nat /\ items \in [1..L -> V]
    OBVIOUS
  <1>1. \A p, q \in V : <<p, q>> \in R <=> item_x_after(p, q)
    OBVIOUS
  <1>2. ASSUME NEW s \in Seq(V), NEW v \in V
        PROVE  \E k \in 0..Len(s) :
                 /\ Stops(k, Len(s), {j \in 1..Len(s) : <<s[j], v>> \in R})
                 /\ Insertion(s, v) = Inserted(s, v, k) /\ Insertion(s, v) \in Seq(V)
    <2> DEFINE P == Behind(R, s, v)
               k == StopOf(Len(s), P)
    <2>1. \A m \in 0..Len(s) : \A j \in m + 1..Len(s) : j \in P <=> item_x_after(s[j], v)
      <3> HIDE DEF R
      <3>1. \A j \in 1..Len(s) : s[j] \in V
        OBVIOUS
      <3>2. \A j \in 1..Len(s) : j \in P <=> item_x_after(s[j], v)
        BY <1>1, <3>1 DEF Behind
      <3> HIDE DEF P
      <3> QED
        BY <3>2
    <2>2. \A m \in 0..Len(s) : m # 0 => (m \in P <=> item_x_after(s[m], v))
      <3>1. \A m \in 0..Len(s) : m # 0 => m - 1 \in 0..Len(s) /\ m \in (m - 1) + 1..Len(s)
        OBVIOUS
      <3> HIDE DEF P
      <3> QED
        BY <2>1, <3>1
    <2>3. Place(s, v, item_x_after) = k
      <3> HIDE DEF P
      <3>1. \A m \in 0..Len(s) :
               Stops(m, Len(s), P) <=>
                 /\ m = 0 \/ ~item_x_after(s[m], v)
                 /\ \A j \in m + 1..Len(s) : item_x_after(s[j], v)
        BY <2>1, <2>2 DEF Stops
      <3> QED
        BY <3>1 DEF Place, StopOf
    <2>4. Insertion(s, v) = Append(SubSeq(s, 1, k), v) \o SubSeq(s, k + 1, Len(s))
      <3> HIDE DEF k
      <3> QED
        BY <2>3
    <2> HIDE DEF R, Insertion
    <2>5. /\ k \in 0..Len(s) /\ Stops(k, Len(s), P)
          /\ Append(SubSeq(s, 1, k), v) \o SubSeq(s, k + 1, Len(s)) = Inserted(s, v, k)
          /\ Inserted(s, v, k) \in Seq(V)
      <3> HIDE DEF k
      <3>1. PutAt(V, R, s, v, k)
        BY PutIs DEF k
      <3> QED
        BY <3>1 DEF PutAt
    <2> HIDE DEF k
    <2> QED
      BY <2>4, <2>5 DEF Behind
  <1>3. InsertionSort(items, item_x_after) = sorted[L]
    BY DEF InsertionSort
  <1> HIDE DEF R, Insertion
  <1>4. \A n \in 1..L, s \in Seq(V) : F[<<n, s>>] = Insertion(s, items[n]) /\ F[<<n, s>>] \in Seq(V)
    BY <1>0, <1>2
  <1>5. F \in [(1..L) \X Seq(V) -> Seq(V)]
    BY <1>0, <1>2
  <1> HIDE DEF F
  <1>6. PICK g : Traces(g, L, Seq(V), <<>>, F)
    <2>1. Steps(L, Seq(V), <<>>, F)
      BY <1>0, <1>5 DEF Steps
    <2> HIDE DEF L
    <2> QED
      BY <2>1, Recursion
  <1> HIDE DEF L
  <1>7. g \in [0..L -> Seq(V)] /\ g[0] = <<>> /\ \A n \in 1..L : g[n] = Insertion(g[n - 1], items[n])
    <2>1. g \in [0..L -> Seq(V)] /\ g[0] = <<>> /\ \A n \in 1..L : g[n] = F[<<n, g[n - 1]>>]
      BY <1>6 DEF Traces
    <2>2. \A n \in 1..L : g[n - 1] \in Seq(V)
      BY <1>0, <2>1
    <2> QED
      BY <1>4, <2>1, <2>2
  <1>8. g = [n \in 0..L |-> IF n = 0 THEN <<>> ELSE Insertion(g[n - 1], items[n])]
    BY <1>0, <1>7
  <1>9. sorted = [n \in 0..L |-> IF n = 0 THEN <<>> ELSE Insertion(sorted[n - 1], items[n])]
    BY <1>8
  <1> HIDE DEF sorted
  <1> DEFINE Good == {n \in 0..L : sorted[n] = g[n]}
  <1>10. L \in Good
    <2>1. 0 \in Good
      BY <1>0, <1>7, <1>9
    <2>2. ASSUME NEW n \in 1..L, n - 1 \in Good PROVE n \in Good
      <3>1. n \in 0..L /\ n # 0
        BY <1>0
      <3>2. sorted[n] = Insertion(sorted[n - 1], items[n])
        BY <1>9, <3>1
      <3>3. sorted[n - 1] = g[n - 1]
        BY <2>2
      <3>4. g[n] = Insertion(g[n - 1], items[n])
        BY <1>7
      <3> QED
        BY <3>1, <3>2, <3>3, <3>4
    <2> HIDE DEF Good
    <2>3. \A n \in 0..L : n \in Good
      BY <1>0, <2>1, <2>2, Upwards
    <2> QED
      BY <1>0, <2>3
  <1>11. Sorts(L, V, items, R, g)
    <2>1. ASSUME NEW n \in 1..L
          PROVE  \E k \in 0..Len(g[n - 1]) :
                   /\ Stops(k, Len(g[n - 1]), {j \in 1..Len(g[n - 1]) : <<g[n - 1][j], items[n]>> \in R})
                   /\ g[n] = Inserted(g[n - 1], items[n], k)
      <3>1. g[n - 1] \in Seq(V)
        BY <1>0, <1>7, Earlier
      <3>2. items[n] \in V /\ g[n] = Insertion(g[n - 1], items[n])
        BY <1>0, <1>7
      <3> QED
        BY <1>2, <3>1, <3>2
    <2> QED
      BY <1>0, <1>7, <2>1 DEF Sorts
  <1> QED
    BY <1>3, <1>10, <1>11 DEF L, R

\* So is the sort of the items by their columns.
\* The items with the numbers of their columns.
CellsOf(items, assigned) ==
  [i \in DOMAIN items |-> [item |-> items[i], column |-> assigned.of[i]]]

\* The pairs of cells which are not in order.
CellOrder(V, assigned, order) ==
  {p \in V \X V : item_before(p[2], p[1], assigned.columns, order = VerticalRtl)}

LEMMA CellsSorted ==
  ASSUME NEW V, NEW items, NEW assigned, NEW order, CellsOf(items, assigned) \in Seq(V)
  PROVE  \E g : /\ Sorts(Len(CellsOf(items, assigned)), V, CellsOf(items, assigned),
                         CellOrder(V, assigned, order), g)
               /\ ColumnSort(items, assigned, order) = g[Len(CellsOf(items, assigned))]
  <1> DEFINE cells == CellsOf(items, assigned)
             columns == assigned.columns
             reverse == (order = VerticalRtl)
             L == Len(cells)
             R == {p \in V \X V : item_before(p[2], p[1], columns, reverse)}
             Insertion(s, v) == LET k == Place(s, v, LAMBDA a, b : item_before(b, a, columns, reverse))
                          IN Append(SubSeq(s, 1, k), v) \o SubSeq(s, k + 1, Len(s))
             sorted == CHOOSE f : f = [n \in 0..L |-> IF n = 0 THEN <<>> ELSE Insertion(f[n - 1], cells[n])]
             F == [p \in (1..L) \X Seq(V) |-> Insertion(p[2], cells[p[1]])]
  <1>s. cells \in Seq(V)
    OBVIOUS
  <1> HIDE DEF cells, columns, reverse
  <1>0. L \in Nat /\ cells \in [1..L -> V]
    BY <1>s
  <1>1. \A p, q \in V : <<p, q>> \in R <=> item_before(q, p, columns, reverse)
    OBVIOUS
  <1>2. ASSUME NEW s \in Seq(V), NEW v \in V
        PROVE  \E k \in 0..Len(s) :
                 /\ Stops(k, Len(s), {j \in 1..Len(s) : <<s[j], v>> \in R})
                 /\ Insertion(s, v) = Inserted(s, v, k) /\ Insertion(s, v) \in Seq(V)
    <2> DEFINE P == Behind(R, s, v)
               k == StopOf(Len(s), P)
    <2>1. \A m \in 0..Len(s) : \A j \in m + 1..Len(s) : j \in P <=> item_before(v, s[j], columns, reverse)
      <3> HIDE DEF R
      <3>1. \A j \in 1..Len(s) : s[j] \in V
        OBVIOUS
      <3>2. \A j \in 1..Len(s) : j \in P <=> item_before(v, s[j], columns, reverse)
        BY <1>1, <3>1 DEF Behind
      <3> HIDE DEF P
      <3> QED
        BY <3>2
    <2>2. \A m \in 0..Len(s) : m # 0 => (m \in P <=> item_before(v, s[m], columns, reverse))
      <3>1. \A m \in 0..Len(s) : m # 0 => m - 1 \in 0..Len(s) /\ m \in (m - 1) + 1..Len(s)
        OBVIOUS
      <3> HIDE DEF P
      <3> QED
        BY <2>1, <3>1
    <2>3. Place(s, v, LAMBDA a, b : item_before(b, a, columns, reverse)) = k
      <3> HIDE DEF P
      <3>1. \A m \in 0..Len(s) :
               Stops(m, Len(s), P) <=>
                 /\ m = 0 \/ ~item_before(v, s[m], columns, reverse)
                 /\ \A j \in m + 1..Len(s) : item_before(v, s[j], columns, reverse)
        BY <2>1, <2>2 DEF Stops
      <3> QED
        BY <3>1 DEF Place, StopOf
    <2>4. Insertion(s, v) = Append(SubSeq(s, 1, k), v) \o SubSeq(s, k + 1, Len(s))
      <3> HIDE DEF k
      <3> QED
        BY <2>3
    <2> HIDE DEF R, Insertion
    <2>5. /\ k \in 0..Len(s) /\ Stops(k, Len(s), P)
          /\ Append(SubSeq(s, 1, k), v) \o SubSeq(s, k + 1, Len(s)) = Inserted(s, v, k)
          /\ Inserted(s, v, k) \in Seq(V)
      <3> HIDE DEF k
      <3>1. PutAt(V, R, s, v, k)
        BY PutIs DEF k
      <3> QED
        BY <3>1 DEF PutAt
    <2> HIDE DEF k
    <2> QED
      BY <2>4, <2>5 DEF Behind
  <1>3. ColumnSort(items, assigned, order) = sorted[L]
    BY DEF ColumnSort, InsertionSort, CellsOf, cells, columns, reverse
  <1> HIDE DEF R, Insertion
  <1>4. \A n \in 1..L, s \in Seq(V) : F[<<n, s>>] = Insertion(s, cells[n]) /\ F[<<n, s>>] \in Seq(V)
    BY <1>0, <1>2
  <1>5. F \in [(1..L) \X Seq(V) -> Seq(V)]
    BY <1>0, <1>2
  <1> HIDE DEF F
  <1>6. PICK g : Traces(g, L, Seq(V), <<>>, F)
    <2>1. Steps(L, Seq(V), <<>>, F)
      BY <1>0, <1>5 DEF Steps
    <2> HIDE DEF L
    <2> QED
      BY <2>1, Recursion
  <1> HIDE DEF L
  <1>7. g \in [0..L -> Seq(V)] /\ g[0] = <<>> /\ \A n \in 1..L : g[n] = Insertion(g[n - 1], cells[n])
    <2>1. g \in [0..L -> Seq(V)] /\ g[0] = <<>> /\ \A n \in 1..L : g[n] = F[<<n, g[n - 1]>>]
      BY <1>6 DEF Traces
    <2>2. \A n \in 1..L : g[n - 1] \in Seq(V)
      BY <1>0, <2>1
    <2> QED
      BY <1>4, <2>1, <2>2
  <1>8. g = [n \in 0..L |-> IF n = 0 THEN <<>> ELSE Insertion(g[n - 1], cells[n])]
    BY <1>0, <1>7
  <1>9. sorted = [n \in 0..L |-> IF n = 0 THEN <<>> ELSE Insertion(sorted[n - 1], cells[n])]
    BY <1>8
  <1> HIDE DEF sorted
  <1> DEFINE Good == {n \in 0..L : sorted[n] = g[n]}
  <1>10. L \in Good
    <2>1. 0 \in Good
      BY <1>0, <1>7, <1>9
    <2>2. ASSUME NEW n \in 1..L, n - 1 \in Good PROVE n \in Good
      <3>1. n \in 0..L /\ n # 0
        BY <1>0
      <3>2. sorted[n] = Insertion(sorted[n - 1], cells[n])
        BY <1>9, <3>1
      <3>3. sorted[n - 1] = g[n - 1]
        BY <2>2
      <3>4. g[n] = Insertion(g[n - 1], cells[n])
        BY <1>7
      <3> QED
        BY <3>1, <3>2, <3>3, <3>4
    <2> HIDE DEF Good
    <2>3. \A n \in 0..L : n \in Good
      BY <1>0, <2>1, <2>2, Upwards
    <2> QED
      BY <1>0, <2>3
  <1>11. Sorts(L, V, cells, R, g)
    <2>1. ASSUME NEW n \in 1..L
          PROVE  \E k \in 0..Len(g[n - 1]) :
                   /\ Stops(k, Len(g[n - 1]), {j \in 1..Len(g[n - 1]) : <<g[n - 1][j], cells[n]>> \in R})
                   /\ g[n] = Inserted(g[n - 1], cells[n], k)
      <3>1. g[n - 1] \in Seq(V)
        BY <1>0, <1>7, Earlier
      <3>2. cells[n] \in V /\ g[n] = Insertion(g[n - 1], cells[n])
        BY <1>0, <1>7
      <3> QED
        BY <1>2, <3>1, <3>2
    <2> QED
      BY <1>0, <1>7, <2>1 DEF Sorts
  <1> QED
    BY <1>3, <1>10, <1>11 DEF L, R, CellOrder, cells, columns, reverse

-----------------------------------------------------------------------------
(* Comparing fractions *)

LEMMA Scaled ==
  ASSUME NEW a \in Int, NEW b \in Int, NEW n \in Nat \ {0}
  PROVE  /\ a <= b <=> n * a <= n * b
         /\ a < b <=> n * a < n * b
  BY Z3

LEMMA Factors ==
  ASSUME NEW a \in Int, NEW b \in Int, NEW c \in Int
  PROVE  a * b \in Int /\ a * b = b * a /\ a * (b * c) = b * (a * c)
  BY Z3

\* To be no larger and to be smaller are transitive for fractions a / x, b / y and c / z.
LEMMA Fractions ==
  ASSUME NEW a \in Int, NEW b \in Int, NEW c \in Int,
         NEW x \in Nat \ {0}, NEW y \in Nat \ {0}, NEW z \in Nat \ {0},
         a * y <= b * x, b * z <= c * y
  PROVE  /\ a * z <= c * x
         /\ a * y < b * x \/ b * z < c * y => a * z < c * x
  <1> DEFINE ay == a * y
             bx == b * x
             bz == b * z
             cy == c * y
             az == a * z
             cx == c * x
  <1>1. {ay, bx, bz, cy, az, cx} \subseteq Int
    BY Factors
  <1>2. z * ay = y * az /\ z * bx = x * bz /\ x * cy = y * cx
    <2>1. z * (a * y) = y * (a * z)
      BY Z3
    <2>2. z * (b * x) = x * (b * z)
      BY Z3
    <2>3. x * (c * y) = y * (c * x)
      BY Z3
    <2> QED
      BY <2>1, <2>2, <2>3
  <1>3. ay <= bx /\ bz <= cy
    OBVIOUS
  <1> HIDE DEF ay, bx, bz, cy, az, cx
  <1>4. z * ay <= z * bx /\ x * bz <= x * cy
    BY <1>1, <1>3, Scaled
  <1>5. ay < bx => z * ay < z * bx
    BY <1>1, Scaled
  <1>6. bz < cy => x * bz < x * cy
    BY <1>1, Scaled
  <1>7. {z * ay, z * bx, x * bz, x * cy, y * az, y * cx} \subseteq Int
    BY <1>1, Factors
  <1>8. y * az <= y * cx /\ (ay < bx \/ bz < cy => y * az < y * cx)
    <2> DEFINE A == z * ay
               B == z * bx
               C == x * cy
    <2>1. A \in Int /\ B \in Int /\ C \in Int /\ A <= B /\ B <= C
          /\ (ay < bx => A < B) /\ (bz < cy => B < C)
      BY <1>2, <1>4, <1>5, <1>6, <1>7
    <2>2. y * az = A /\ y * cx = C
      BY <1>2
    <2> HIDE DEF A, B, C
    <2> QED
      BY <2>1, <2>2
  <1>9. az <= cx /\ (ay < bx \/ bz < cy => az < cx)
    BY <1>1, <1>8, Scaled
  <1> QED
    BY <1>9 DEF ay, bx, bz, cy, az, cx

-----------------------------------------------------------------------------
(* Boxes and their geometry *)

Corner4 == [1..4 -> Int \X Int]

ItemType ==
  [box : Corner4, index : Nat, minX : Int, maxX : Int, centreX : Int, minY : Int,
   centreY : Int, width : Nat \ {0}]

ColumnType == [minX : Int, maxX : Int, sum : Int, count : Nat \ {0}, width : Nat \ {0}]

LEMMA ColumnNumbers ==
  ASSUME NEW c \in ColumnType
  PROVE  /\ c.minX \in Int /\ c.maxX \in Int /\ c.sum \in Int
         /\ c.count \in Int /\ c.width \in Int
  BY DEF ColumnType

LEMMA TwoExtremes ==
  ASSUME NEW a \in Int, NEW b \in Int
  PROVE  /\ Smallest({a, b}) \in {a, b} /\ Smallest({a, b}) <= a /\ Smallest({a, b}) <= b
         /\ Largest({a, b}) \in {a, b} /\ Largest({a, b}) >= a /\ Largest({a, b}) >= b
  <1>1. \E n \in {a, b} : \A m \in {a, b} : n <= m
    OBVIOUS
  <1>2. \E n \in {a, b} : \A m \in {a, b} : n >= m
    OBVIOUS
  <1> QED
    BY <1>1, <1>2 DEF Smallest, Largest

LEMMA FourExtremes ==
  ASSUME NEW f \in [1..4 -> Int], NEW S, S = {f[i] : i \in 1..4}
  PROVE  /\ Smallest(S) \in S /\ Largest(S) \in S /\ Smallest(S) \in Int /\ Largest(S) \in Int
         /\ \A n \in S : Smallest(S) <= n /\ n <= Largest(S)
  <1>1. S = {f[1], f[2], f[3], f[4]} /\ f[1] \in Int /\ f[2] \in Int /\ f[3] \in Int /\ f[4] \in Int
    OBVIOUS
  <1>2. \E n \in S : \A m \in S : n <= m
    BY <1>1
  <1>3. \E n \in S : \A m \in S : n >= m
    BY <1>1
  <1> QED
    BY <1>1, <1>2, <1>3 DEF Smallest, Largest

LEMMA RowsAsymmetric ==
  ASSUME NEW p \in Corner4, NEW q \in Corner4, ComesAfter(p, q)
  PROVE  ~ComesAfter(q, p)
  <1>1. p[1][1] \in Int /\ p[1][2] \in Int /\ q[1][1] \in Int /\ q[1][2] \in Int
    BY DEF Corner4
  <1> QED
    BY <1>1 DEF ComesAfter, Distance, LineTolerance

LEMMA GeometryType ==
  ASSUME NEW box \in Corner4, NEW index \in Nat
  PROVE  item_geometry(box, index) \in ItemType /\ item_geometry(box, index).box = box
  <1> DEFINE fx == [i \in 1..4 |-> box[i][1]]
             fy == [i \in 1..4 |-> box[i][2]]
  <1>1. \A i \in 1..4 : box[i][1] \in Int /\ box[i][2] \in Int
    BY DEF Corner4
  <1>2. fx \in [1..4 -> Int] /\ fy \in [1..4 -> Int]
    BY <1>1
  <1>3. Xs(box) = {fx[i] : i \in 1..4} /\ Ys(box) = {fy[i] : i \in 1..4}
    BY DEF Xs, Ys
  <1>4. Smallest(Xs(box)) \in Int /\ Largest(Xs(box)) \in Int /\ Smallest(Ys(box)) \in Int
    BY <1>2, <1>3, FourExtremes
  <1> QED
    BY <1>1, <1>4 DEF item_geometry, ItemType

-----------------------------------------------------------------------------
(* Columns *)

LEMMA OverlapType ==
  ASSUME NEW item \in ItemType, NEW c \in ColumnType
  PROVE  /\ Overlap(item, c) \in Int /\ WiderOf(item, c) \in Nat \ {0}
         /\ CentreGap(item, c) \in Int
  <1>1. /\ item.maxX \in Int /\ item.minX \in Int /\ item.width \in Nat \ {0} /\ item.centreX \in Int
        /\ c.maxX \in Int /\ c.minX \in Int /\ c.width \in Nat \ {0} /\ c.sum \in Int
        /\ c.count \in Nat \ {0}
    BY DEF ItemType, ColumnType
  <1>2. Smallest({item.maxX, c.maxX}) \in Int /\ Largest({item.minX, c.minX}) \in Int
    BY <1>1, TwoExtremes
  <1>3. Largest({item.width, c.width}) \in Nat \ {0}
    <2>1. item.width \in Int /\ c.width \in Int
      BY <1>1
    <2>2. Largest({item.width, c.width}) \in {item.width, c.width}
      BY <2>1, TwoExtremes
    <2> QED
      BY <1>1, <2>2
  <1>4. item.centreX * c.count \in Int
    BY <1>1, Factors
  <1> QED
    BY <1>1, <1>2, <1>3, <1>4 DEF Overlap, WiderOf, CentreGap, Distance

\* One column suits an item better than another: no circles.
LEMMA BetterTransitive ==
  ASSUME NEW item \in ItemType, NEW c \in ColumnType, NEW d \in ColumnType, NEW e \in ColumnType,
         BetterColumn(item, c, d), BetterColumn(item, d, e)
  PROVE  BetterColumn(item, c, e)
  <1> DEFINE a(k) == Overlap(item, k)
             w(k) == WiderOf(item, k)
             b(k) == CentreGap(item, k)
  <1>1. \A k \in {c, d, e} : a(k) \in Int /\ w(k) \in Nat \ {0} /\ b(k) \in Int
    BY OverlapType
  <1>2. \A k \in {c, d, e} : k.count \in Nat \ {0}
    BY DEF ColumnType
  <1> HIDE DEF a, w, b
  <1>3. /\ a(c) * w(d) > a(d) * w(c) \/ (a(c) * w(d) = a(d) * w(c) /\ b(c) * d.count < b(d) * c.count)
        /\ a(d) * w(e) > a(e) * w(d) \/ (a(d) * w(e) = a(e) * w(d) /\ b(d) * e.count < b(e) * d.count)
    BY DEF BetterColumn, a, w, b
  <1>4. {a(c) * w(d), a(d) * w(c), a(d) * w(e), a(e) * w(d), a(c) * w(e), a(e) * w(c)} \subseteq Int
    BY <1>1, Factors
  <1>5. {b(c) * d.count, b(d) * c.count, b(d) * e.count, b(e) * d.count, b(c) * e.count,
         b(e) * c.count} \subseteq Int
    BY <1>1, <1>2, Factors
  <1>6. /\ a(e) * w(c) <= a(c) * w(e)
        /\ a(e) * w(d) < a(d) * w(e) \/ a(d) * w(c) < a(c) * w(d) => a(e) * w(c) < a(c) * w(e)
    <2>1. a(e) * w(d) <= a(d) * w(e) /\ a(d) * w(c) <= a(c) * w(d)
      BY <1>3, <1>4
    <2> QED
      BY <1>1, <2>1, Fractions
  <1>7. CASE a(e) * w(d) < a(d) * w(e) \/ a(d) * w(c) < a(c) * w(d)
    <2>1. a(c) * w(e) > a(e) * w(c)
      BY <1>4, <1>6, <1>7
    <2> QED
      BY <2>1 DEF BetterColumn, a, w, b
  <1>8. CASE ~(a(e) * w(d) < a(d) * w(e) \/ a(d) * w(c) < a(c) * w(d))
    <2>1. a(c) * w(d) = a(d) * w(c) /\ a(d) * w(e) = a(e) * w(d)
          /\ b(c) * d.count < b(d) * c.count /\ b(d) * e.count < b(e) * d.count
      BY <1>3, <1>4, <1>8
    <2>2. a(c) * w(e) <= a(e) * w(c)
      <3>1. a(c) * w(d) <= a(d) * w(c) /\ a(d) * w(e) <= a(e) * w(d)
        BY <1>4, <2>1
      <3> QED
        BY <1>1, <3>1, Fractions
    <2>3. a(c) * w(e) = a(e) * w(c)
      BY <1>4, <1>6, <2>2
    <2>4. b(c) * e.count < b(e) * c.count
      <3>1. b(c) * d.count <= b(d) * c.count /\ b(d) * e.count <= b(e) * d.count
        BY <1>5, <2>1
      <3> QED
        BY <1>1, <1>2, <2>1, <3>1, Fractions
    <2> QED
      BY <2>3, <2>4 DEF BetterColumn, a, w, b
  <1> QED
    BY <1>7, <1>8

LEMMA BetterIrreflexive ==
  ASSUME NEW item \in ItemType, NEW c \in ColumnType
  PROVE  ~BetterColumn(item, c, c)
  <1>1. Overlap(item, c) * WiderOf(item, c) \in Int /\ CentreGap(item, c) * c.count \in Int
    <2>1. c.count \in Int
      BY DEF ColumnType
    <2> QED
      BY <2>1, OverlapType, Factors
  <1> QED
    BY <1>1 DEF BetterColumn

\* An item goes to a column there is, or to a new one behind them.
LEMMA ColumnIs ==
  ASSUME NEW item \in ItemType, NEW columns \in Seq(ColumnType)
  PROVE  ColumnOf(item, columns) \in 1..Len(columns) + 1
  <1> DEFINE L == Len(columns)
             candidates == {i \in DOMAIN columns : Overlaps(item, columns[i])}
             Better(j, i) == BetterColumn(item, columns[j], columns[i])
             best == {i \in candidates : \A j \in candidates : ~Better(j, i)}
             Front(n) == candidates \cap 1..n
             Good == {n \in 0..L : Front(n) = {} \/ \E i \in Front(n) : \A j \in Front(n) : ~Better(j, i)}
  <1>1. L \in Nat /\ candidates \subseteq 1..L /\ \A i \in 1..L : columns[i] \in ColumnType
    OBVIOUS
  <1>2. \A i \in 1..L : ~Better(i, i)
    BY <1>1, BetterIrreflexive
  <1>3. \A i, j, k \in 1..L : Better(i, j) /\ Better(j, k) => Better(i, k)
    BY <1>1, BetterTransitive
  <1>4. ColumnOf(item, columns) = IF candidates = {} THEN L + 1 ELSE Smallest(best)
    BY DEF ColumnOf
  <1> HIDE DEF candidates, Better, L
  <1>5. 0 \in Good
    BY <1>1
  <1>6. ASSUME NEW n \in 1..L, n - 1 \in Good PROVE n \in Good
    <2>1. Front(n) = IF n \in candidates THEN Front(n - 1) \cup {n} ELSE Front(n - 1)
      BY <1>1
    <2>2. Front(n - 1) = {} \/ \E i \in Front(n - 1) : \A j \in Front(n - 1) : ~Better(j, i)
      BY <1>6
    <2>3. Front(n - 1) \subseteq 1..L
      BY <1>1
    <2> HIDE DEF Front
    <2>4. CASE n \notin candidates
      BY <1>1, <2>1, <2>2, <2>4
    <2>5. CASE n \in candidates /\ Front(n - 1) = {}
      BY <1>1, <1>2, <2>1, <2>5
    <2>6. CASE n \in candidates /\ Front(n - 1) # {}
      <3>1. PICK i \in Front(n - 1) : \A j \in Front(n - 1) : ~Better(j, i)
        BY <2>2, <2>6
      <3>2. i \in 1..L
        BY <2>3, <3>1
      <3>3. CASE Better(n, i)
        <4>1. ASSUME NEW j \in Front(n) PROVE ~Better(j, n)
          <5>1. CASE j = n
            BY <1>2, <5>1
          <5>2. CASE j \in Front(n - 1)
            <6>1. j \in 1..L
              BY <2>3, <5>2
            <6> QED
              BY <1>3, <3>1, <3>2, <3>3, <5>2, <6>1
          <5> QED
            BY <2>1, <2>6, <5>1, <5>2
        <4>2. n \in Front(n)
          BY <2>1, <2>6
        <4> QED
          BY <1>1, <4>1, <4>2
      <3>4. CASE ~Better(n, i)
        <4>1. i \in Front(n) /\ \A j \in Front(n) : ~Better(j, i)
          BY <2>1, <2>6, <3>1, <3>4
        <4> QED
          BY <1>1, <4>1
      <3> QED
        BY <3>3, <3>4
    <2> QED
      BY <2>4, <2>5, <2>6
  <1>7. L \in Good
    <2> HIDE DEF Good
    <2>1. \A n \in 0..L : n \in Good
      BY <1>1, <1>5, <1>6, Upwards
    <2> QED
      BY <1>1, <2>1
  <1>8. candidates # {} => best # {}
    <2>1. Front(L) = candidates
      BY <1>1
    <2> HIDE DEF Front
    <2> QED
      BY <1>7, <2>1
  <1>9. best \subseteq 1..L
    BY <1>1
  <1> HIDE DEF best
  <1>10. candidates # {} => Smallest(best) \in best
    <2>1. best \in SUBSET Nat
      BY <1>1, <1>9
    <2>2. best # {} => \E n \in best : \A m \in best : n <= m
      BY <2>1, LeastExists
    <2> QED
      BY <1>8, <2>2 DEF Smallest
  <1>11. ColumnOf(item, columns) \in 1..L + 1
    <2>1. CASE candidates = {}
      BY <1>1, <1>4, <2>1
    <2>2. CASE candidates # {}
      <3>1. ColumnOf(item, columns) \in 1..L
        BY <1>4, <1>9, <1>10, <2>2
      <3> QED
        BY <1>1, <3>1
    <2> QED
      BY <2>1, <2>2
  <1> QED
    BY <1>11 DEF L

LEMMA JoinedType ==
  ASSUME NEW item \in ItemType, NEW c \in ColumnType
  PROVE  Joined(item, c) \in ColumnType /\ Started(item) \in ColumnType
  <1>1. /\ item.maxX \in Int /\ item.minX \in Int /\ item.width \in Nat \ {0} /\ item.centreX \in Int
        /\ c.maxX \in Int /\ c.minX \in Int /\ c.width \in Nat \ {0} /\ c.sum \in Int
        /\ c.count \in Nat \ {0}
    BY DEF ItemType, ColumnType
  <1>2. Smallest({c.minX, item.minX}) \in Int /\ Largest({c.maxX, item.maxX}) \in Int
    BY <1>1, TwoExtremes
  <1>3. Largest({c.width, item.width}) \in Nat \ {0}
    <2>1. item.width \in Int /\ c.width \in Int
      BY <1>1
    <2>2. Largest({c.width, item.width}) \in {c.width, item.width}
      BY <2>1, TwoExtremes
    <2> QED
      BY <1>1, <2>2
  <1>4. c.count + 1 \in Nat \ {0} /\ c.sum + item.centreX \in Int
    BY <1>1
  <1> QED
    BY <1>1, <1>2, <1>3, <1>4 DEF Joined, Started, ColumnType

\* Every item has been given one of the columns.
Placing(n, state) ==
  /\ state \in [columns : Seq(ColumnType), of : Seq(Nat)]
  /\ Len(state.of) = n
  /\ \A i \in 1..n : state.of[i] \in 1..Len(state.columns)

LEMMA StartedType == ASSUME NEW item \in ItemType PROVE Started(item) \in ColumnType
  <1>1. /\ item.maxX \in Int /\ item.minX \in Int /\ item.width \in Nat \ {0} /\ item.centreX \in Int
    BY DEF ItemType
  <1> QED
    BY <1>1 DEF Started, ColumnType

Assign(state, item) ==
  [columns |-> IF ColumnOf(item, state.columns) > Len(state.columns)
               THEN Append(state.columns, Started(item))
               ELSE [state.columns EXCEPT ![ColumnOf(item, state.columns)] = Joined(item, @)],
   of |-> Append(state.of, ColumnOf(item, state.columns))]

LEMMA AssignStep ==
  ASSUME NEW item \in ItemType, NEW n \in Nat, NEW state, Placing(n, state)
  PROVE  Placing(n + 1, Assign(state, item))
  <1> DEFINE columns == state.columns
             of == state.of
             c == ColumnOf(item, columns)
             grown == IF c > Len(columns) THEN Append(columns, Started(item))
                      ELSE [columns EXCEPT ![c] = Joined(item, @)]
             more == Append(of, c)
  <1>1. /\ columns \in Seq(ColumnType) /\ of \in Seq(Nat) /\ Len(of) = n
        /\ \A i \in 1..n : of[i] \in 1..Len(columns)
    BY DEF Placing
  <1>2. Assign(state, item) = [columns |-> grown, of |-> more]
    BY DEF Assign
  <1> HIDE DEF columns, of
  <1>3. c \in 1..Len(columns) + 1 /\ Len(columns) \in Nat
    BY <1>1, ColumnIs
  <1> HIDE DEF c
  <1>4. /\ grown \in Seq(ColumnType) /\ Len(grown) >= Len(columns) /\ c <= Len(grown)
        /\ Len(grown) \in Nat
    <2>1. CASE c > Len(columns)
      <3>1. grown = Append(columns, Started(item)) /\ Started(item) \in ColumnType
        BY <2>1, StartedType
      <3> QED
        BY <1>1, <1>3, <3>1
    <2>2. CASE ~(c > Len(columns))
      <3>1. c \in 1..Len(columns) /\ columns[c] \in ColumnType
        BY <1>1, <1>3, <2>2
      <3>2. Joined(item, columns[c]) \in ColumnType
        BY <3>1, JoinedType
      <3>3. grown = [columns EXCEPT ![c] = Joined(item, columns[c])]
        BY <2>2
      <3> QED
        BY <1>1, <1>3, <3>1, <3>2, <3>3
    <2> QED
      BY <2>1, <2>2
  <1> HIDE DEF grown
  <1>5. more \in Seq(Nat) /\ Len(more) = n + 1
    BY <1>1, <1>3
  <1>6. ASSUME NEW i \in 1..n + 1 PROVE more[i] \in 1..Len(grown)
    <2>1. CASE i = n + 1
      <3>1. more[i] = c
        BY <1>1, <2>1
      <3> QED
        BY <1>3, <1>4, <3>1
    <2>2. CASE i # n + 1
      <3>1. i \in 1..n /\ more[i] = of[i]
        BY <1>1, <2>2
      <3> QED
        BY <1>1, <1>3, <1>4, <3>1
    <2> QED
      BY <2>1, <2>2
  <1> HIDE DEF more
  <1> QED
    BY <1>2, <1>4, <1>5, <1>6 DEF Placing

LEMMA AssignedIs ==
  ASSUME NEW items \in Seq(ItemType)
  PROVE  Placing(Len(items), Assigned(items))
  <1> DEFINE L == Len(items)
             V == {s \in [columns : Seq(ColumnType), of : Seq(Nat)] : \E n \in Nat : Placing(n, s)}
             none == [columns |-> <<>>, of |-> <<>>]
             F == [p \in (1..L) \X V |-> Assign(p[2], items[p[1]])]
             assigned == CHOOSE f : f = [n \in 0..L |-> IF n = 0 THEN none ELSE Assign(f[n - 1], items[n])]
  <1>0. L \in Nat /\ \A n \in 1..L : items[n] \in ItemType
    OBVIOUS
  <1>1. Placing(0, none) /\ none \in V
    <2>1. none.columns = <<>> /\ none.of = <<>> /\ none \in [columns : Seq(ColumnType), of : Seq(Nat)]
      OBVIOUS
    <2>2. Placing(0, none)
      BY <2>1 DEF Placing
    <2> QED
      BY <2>1, <2>2
  <1>2. \A n \in 1..L, s \in V : Assign(s, items[n]) \in V
    <2>1. ASSUME NEW n \in 1..L, NEW s \in V PROVE Assign(s, items[n]) \in V
      <3>1. PICK m \in Nat : Placing(m, s)
        OBVIOUS
      <3>2. Placing(m + 1, Assign(s, items[n]))
        BY <1>0, <3>1, AssignStep
      <3>3. Assign(s, items[n]) \in [columns : Seq(ColumnType), of : Seq(Nat)] /\ m + 1 \in Nat
        BY <3>2 DEF Placing
      <3> QED
        BY <3>2, <3>3
    <2> QED
      BY <2>1
  <1>3. Assigned(items) = assigned[L]
    BY DEF Assigned, Assign
  <1> HIDE DEF V, none
  <1>4. Steps(L, V, none, F) /\ \A n \in 1..L, s \in V : F[<<n, s>>] = Assign(s, items[n])
    BY <1>0, <1>1, <1>2 DEF Steps
  <1> HIDE DEF F, L
  <1>5. PICK g : Traces(g, L, V, none, F)
    BY <1>4, Recursion
  <1>6. g \in [0..L -> V] /\ g[0] = none /\ \A n \in 1..L : g[n] = Assign(g[n - 1], items[n])
    <2>1. g \in [0..L -> V] /\ g[0] = none /\ \A n \in 1..L : g[n] = F[<<n, g[n - 1]>>]
      BY <1>5 DEF Traces
    <2>2. \A n \in 1..L : g[n - 1] \in V
      BY <1>0, <2>1
    <2> QED
      BY <1>4, <2>1, <2>2
  <1>7. g = [n \in 0..L |-> IF n = 0 THEN none ELSE Assign(g[n - 1], items[n])]
    BY <1>0, <1>6
  <1>8. assigned = [n \in 0..L |-> IF n = 0 THEN none ELSE Assign(assigned[n - 1], items[n])]
    BY <1>7
  <1> HIDE DEF assigned
  <1> DEFINE Good == {n \in 0..L : Placing(n, assigned[n])}
  <1>9. 0 \in Good
    BY <1>0, <1>1, <1>8
  <1>10. ASSUME NEW n \in 1..L, n - 1 \in Good PROVE n \in Good
    <2>1. assigned[n] = Assign(assigned[n - 1], items[n])
      BY <1>0, <1>8
    <2>2. Placing(n - 1, assigned[n - 1]) /\ n - 1 \in Nat /\ (n - 1) + 1 = n
      BY <1>0, <1>10
    <2>3. Placing((n - 1) + 1, Assign(assigned[n - 1], items[n]))
      BY <1>0, <2>2, AssignStep
    <2> QED
      BY <2>1, <2>2, <2>3
  <1>11. L \in Good
    <2> HIDE DEF Good
    <2>1. \A n \in 0..L : n \in Good
      BY <1>0, <1>9, <1>10, Upwards
    <2> QED
      BY <1>0, <2>1
  <1> QED
    BY <1>3, <1>11 DEF L

-----------------------------------------------------------------------------
(* The order of items with columns *)

Cells(C) == [item : ItemType, column : 1..C]

\* The order of two columns: their centres, and then their numbers.
Sooner(c, d, columns, reverse) ==
  LET left == columns[c].sum * columns[d].count
      right == columns[d].sum * columns[c].count
  IN IF left # right THEN (IF reverse THEN left > right ELSE left < right) ELSE c < d

LEMMA SoonerFacts ==
  ASSUME NEW columns \in Seq(ColumnType), NEW reverse \in BOOLEAN,
         NEW c \in 1..Len(columns), NEW d \in 1..Len(columns), NEW e \in 1..Len(columns)
  PROVE  /\ c # d => (Sooner(c, d, columns, reverse) <=> ~Sooner(d, c, columns, reverse))
         /\ ~Sooner(c, c, columns, reverse)
         /\ Sooner(c, d, columns, reverse) /\ Sooner(d, e, columns, reverse)
              => Sooner(c, e, columns, reverse)
  <1> DEFINE s(k) == columns[k].sum
             n(k) == columns[k].count
  <1>1. \A k \in {c, d, e} : s(k) \in Int /\ n(k) \in Nat \ {0} /\ k \in Int
    <2>1. \A k \in {c, d, e} : columns[k] \in ColumnType /\ k \in Int
      OBVIOUS
    <2> QED
      BY <2>1 DEF ColumnType
  <1> HIDE DEF s, n
  <1>2. \A k, m \in {c, d, e} : s(k) * n(m) \in Int
    <2>1. ASSUME NEW k \in {c, d, e}, NEW m \in {c, d, e} PROVE s(k) * n(m) \in Int
      <3>1. s(k) \in Int /\ n(m) \in Int
        BY <1>1
      <3> QED
        BY <3>1, Factors
    <2> QED
      BY <2>1
  <1>3. \A k, m \in {c, d, e} :
          Sooner(k, m, columns, reverse) <=>
            IF s(k) * n(m) # s(m) * n(k)
            THEN (IF reverse THEN s(k) * n(m) > s(m) * n(k) ELSE s(k) * n(m) < s(m) * n(k))
            ELSE k < m
    BY DEF Sooner, s, n
  <1>4. c # d => (Sooner(c, d, columns, reverse) <=> ~Sooner(d, c, columns, reverse))
    <2> DEFINE cd == s(c) * n(d)
               dc == s(d) * n(c)
    <2>1. cd \in Int /\ dc \in Int
      BY <1>2
    <2>2. /\ Sooner(c, d, columns, reverse) <=>
               IF cd # dc THEN (IF reverse THEN cd > dc ELSE cd < dc) ELSE c < d
          /\ Sooner(d, c, columns, reverse) <=>
               IF dc # cd THEN (IF reverse THEN dc > cd ELSE dc < cd) ELSE d < c
      BY <1>3
    <2> HIDE DEF cd, dc
    <2> QED
      BY <1>1, <2>1, <2>2
  <1>5. ~Sooner(c, c, columns, reverse)
    BY <1>1, <1>3
  <1>6. /\ s(c) * n(d) <= s(d) * n(c) /\ s(d) * n(e) <= s(e) * n(d) =>
             /\ s(c) * n(e) <= s(e) * n(c)
             /\ s(c) * n(d) < s(d) * n(c) \/ s(d) * n(e) < s(e) * n(d) => s(c) * n(e) < s(e) * n(c)
        /\ s(e) * n(d) <= s(d) * n(e) /\ s(d) * n(c) <= s(c) * n(d) =>
             /\ s(e) * n(c) <= s(c) * n(e)
             /\ s(e) * n(d) < s(d) * n(e) \/ s(d) * n(c) < s(c) * n(d) => s(e) * n(c) < s(c) * n(e)
    <2>1. ASSUME s(c) * n(d) <= s(d) * n(c), s(d) * n(e) <= s(e) * n(d)
          PROVE  /\ s(c) * n(e) <= s(e) * n(c)
                 /\ s(c) * n(d) < s(d) * n(c) \/ s(d) * n(e) < s(e) * n(d) => s(c) * n(e) < s(e) * n(c)
      BY <1>1, <2>1, Fractions
    <2>2. ASSUME s(e) * n(d) <= s(d) * n(e), s(d) * n(c) <= s(c) * n(d)
          PROVE  /\ s(e) * n(c) <= s(c) * n(e)
                 /\ s(e) * n(d) < s(d) * n(e) \/ s(d) * n(c) < s(c) * n(d) => s(e) * n(c) < s(c) * n(e)
      BY <1>1, <2>2, Fractions
    <2> QED
      BY <2>1, <2>2
  <1>7. ASSUME Sooner(c, d, columns, reverse), Sooner(d, e, columns, reverse)
        PROVE  Sooner(c, e, columns, reverse)
    <2> DEFINE cd == s(c) * n(d)
               dc == s(d) * n(c)
               de == s(d) * n(e)
               ed == s(e) * n(d)
               ce == s(c) * n(e)
               ec == s(e) * n(c)
    <2>1. cd \in Int /\ dc \in Int /\ de \in Int /\ ed \in Int /\ ce \in Int /\ ec \in Int
      BY <1>2
    <2>2. /\ (cd <= dc /\ de <= ed) => (ce <= ec /\ (cd < dc \/ de < ed => ce < ec))
          /\ (ed <= de /\ dc <= cd) => (ec <= ce /\ (ed < de \/ dc < cd => ec < ce))
      BY <1>6
    <2>3. IF cd # dc THEN (IF reverse THEN cd > dc ELSE cd < dc) ELSE c < d
      BY <1>3, <1>7
    <2>4. IF de # ed THEN (IF reverse THEN de > ed ELSE de < ed) ELSE d < e
      BY <1>3, <1>7
    <2>5. Sooner(c, e, columns, reverse) <=>
            IF ce # ec THEN (IF reverse THEN ce > ec ELSE ce < ec) ELSE c < e
      BY <1>3
    <2> HIDE DEF cd, dc, de, ed, ce, ec
    <2>6. CASE reverse
      <3>1. dc <= cd /\ ed <= de
        BY <2>1, <2>3, <2>4, <2>6
      <3>2. ec <= ce /\ (ed < de \/ dc < cd => ec < ce)
        BY <2>2, <3>1
      <3>3. CASE cd # dc \/ de # ed
        <4>1. ec < ce
          BY <2>1, <3>1, <3>2, <3>3
        <4>2. ce # ec /\ ce > ec
          BY <2>1, <4>1
        <4> QED
          BY <2>5, <2>6, <4>2, Zenon
      <3>4. CASE cd = dc /\ de = ed
        <4>1. c < d /\ d < e /\ ce <= ec
          BY <2>1, <2>2, <2>3, <2>4, <3>4
        <4>2. ce = ec /\ c < e
          BY <1>1, <2>1, <3>2, <4>1
        <4> QED
          BY <2>5, <4>2
      <3> QED
        BY <3>3, <3>4
    <2>7. CASE ~reverse
      BY <1>1, <2>1, <2>2, <2>3, <2>4, <2>5, <2>7
    <2> QED
      BY <2>6, <2>7
  <1> QED
    BY <1>4, <1>5, <1>7

\* From top to bottom in one column.
Higher(p, q) ==
  \/ p.minY < q.minY
  \/ /\ p.minY = q.minY
     /\ \/ p.centreY < q.centreY
        \/ p.centreY = q.centreY /\ p.index < q.index

LEMMA HigherFacts ==
  ASSUME NEW p \in ItemType, NEW q \in ItemType, NEW r \in ItemType
  PROVE  /\ Higher(p, q) => ~Higher(q, p)
         /\ ~Higher(p, q) /\ ~Higher(q, r) => ~Higher(p, r)
         /\ ~Higher(q, p) => p.minY <= q.minY
  <1>1. /\ p.minY \in Int /\ q.minY \in Int /\ r.minY \in Int
        /\ p.centreY \in Int /\ q.centreY \in Int /\ r.centreY \in Int
        /\ p.index \in Int /\ q.index \in Int /\ r.index \in Int
    BY DEF ItemType
  <1> QED
    BY <1>1 DEF Higher

LEMMA BeforeIs ==
  ASSUME NEW p, NEW q, NEW columns, NEW reverse
  PROVE  item_before(p, q, columns, reverse) =
           IF p.column # q.column THEN Sooner(p.column, q.column, columns, reverse)
           ELSE Higher(p.item, q.item)
  BY DEF item_before, Sooner, Higher

\* The order is never both ways, and neither is transitive.
LEMMA BeforeFacts ==
  ASSUME NEW columns \in Seq(ColumnType), NEW reverse \in BOOLEAN,
         NEW p \in Cells(Len(columns)), NEW q \in Cells(Len(columns)), NEW r \in Cells(Len(columns))
  PROVE  /\ item_before(q, p, columns, reverse) => ~item_before(p, q, columns, reverse)
         /\ ~item_before(q, p, columns, reverse) /\ ~item_before(r, q, columns, reverse)
              => ~item_before(r, p, columns, reverse)
  <1> DEFINE S(c, d) == Sooner(c, d, columns, reverse)
  <1>1. /\ p.column \in 1..Len(columns) /\ q.column \in 1..Len(columns) /\ r.column \in 1..Len(columns)
        /\ p.item \in ItemType /\ q.item \in ItemType /\ r.item \in ItemType
    BY DEF Cells
  <1>2. \A c, d \in 1..Len(columns) : c # d => (S(c, d) <=> ~S(d, c))
    BY SoonerFacts
  <1>3. \A c, d, e \in 1..Len(columns) : S(c, d) /\ S(d, e) => S(c, e)
    BY SoonerFacts
  <1>4. \A a, b \in {p, q, r} : item_before(a, b, columns, reverse) <=>
          IF a.column # b.column THEN S(a.column, b.column) ELSE Higher(a.item, b.item)
    BY BeforeIs
  <1> HIDE DEF S
  <1>5. item_before(q, p, columns, reverse) => ~item_before(p, q, columns, reverse)
    BY <1>1, <1>2, <1>4, HigherFacts
  <1>6. ASSUME ~item_before(q, p, columns, reverse), ~item_before(r, q, columns, reverse)
        PROVE  ~item_before(r, p, columns, reverse)
    <2>1. CASE p.column = q.column /\ q.column = r.column
      BY <1>1, <1>4, <1>6, <2>1, HigherFacts
    <2>2. CASE p.column = q.column /\ q.column # r.column
      BY <1>1, <1>4, <1>6, <2>2
    <2>3. CASE p.column # q.column /\ q.column = r.column
      BY <1>1, <1>4, <1>6, <2>3
    <2>4. CASE p.column # q.column /\ q.column # r.column
      <3>1. S(p.column, q.column) /\ S(q.column, r.column)
        BY <1>1, <1>2, <1>4, <1>6, <2>4
      <3>2. S(p.column, r.column)
        BY <1>1, <1>3, <3>1
      <3>3. p.column # r.column
        BY <1>1, <1>2, <2>4, <3>1
      <3> QED
        BY <1>1, <1>2, <1>4, <3>2, <3>3
    <2> QED
      BY <2>1, <2>2, <2>3, <2>4
  <1> QED
    BY <1>5, <1>6

-----------------------------------------------------------------------------
(* The answer of lw_sort_detection_boxes *)

\* An arrangement of an arrangement.
LEMMA Rearranged ==
  ASSUME NEW n \in Nat, NEW p \in Arrangements(n), NEW q \in Arrangements(n)
  PROVE  [i \in 1..n |-> p[q[i]]] \in Arrangements(n)
  BY DEF Arrangements

LEMMA RowsSettled ==
  ASSUME NEW found \in Seq(Corner4)
  PROVE  /\ \E place \in Arrangements(Len(found)) :
              legacy_horizontal_sort(found) = [i \in DOMAIN found |-> found[place[i]]]
         /\ LinesInOrder(legacy_horizontal_sort(found))
  <1> DEFINE N == Len(found)
             R == {p \in Corner4 \X Corner4 : ComesAfter(p[1], p[2])}
  <1>1. PICK g : Sorts(N, Corner4, found, R, g) /\ legacy_horizontal_sort(found) = g[N]
    BY RowsSorted
  <1>2. \A p, q \in Corner4 : <<p, q>> \in R <=> ComesAfter(p, q)
    OBVIOUS
  <1>3. \A p, q \in Corner4 : <<p, q>> \in R => <<q, p>> \notin R
    BY <1>2, RowsAsymmetric
  <1>4. N \in Nat /\ DOMAIN found = 1..N
    OBVIOUS
  <1> HIDE DEF N, R
  <1>5. /\ \A n \in 0..N : Len(g[n]) = n
        /\ \E place \in Arrangements(N) : g[N] = [i \in 1..N |-> found[place[i]]]
    <2>1. Arranged(N, found, g)
      BY <1>1, SortArranges
    <2> QED
      BY <2>1 DEF Arranged
  <1>6. \A i \in 1..N - 1 : <<g[N][i], g[N][i + 1]>> \notin R
    BY <1>1, <1>3, SortSettles
  <1>7. g[N] \in Seq(Corner4) /\ Len(g[N]) = N
    <2>1. g \in [0..N -> Seq(Corner4)]
      BY <1>1 DEF Sorts
    <2>2. N \in 0..N
      BY <1>4
    <2>3. g[N] \in Seq(Corner4)
      BY <2>1, <2>2
    <2> QED
      BY <2>2, <2>3, <1>5
  <1>8. ASSUME NEW i \in 1..N - 1 PROVE ~ComesAfter(g[N][i], g[N][i + 1])
    <2>1. g[N][i] \in Corner4 /\ g[N][i + 1] \in Corner4
      BY <1>4, <1>7
    <2> QED
      BY <1>2, <1>6, <2>1
  <1>9. LinesInOrder(g[N])
    BY <1>7, <1>8 DEF LinesInOrder
  <1> QED
    BY <1>1, <1>4, <1>5, <1>9 DEF N

\* The items by their centres are the geometries of the boxes, in some arrangement.
LEMMA ItemsAre ==
  ASSUME NEW found \in Seq(Corner4)
  PROVE  /\ ByX(found) \in Seq(ItemType) /\ Len(ByX(found)) = Len(found)
         /\ \E place \in Arrangements(Len(found)) :
              \A i \in 1..Len(found) : ByX(found)[i].box = found[place[i]]
  <1> DEFINE N == Len(found)
             all == [i \in DOMAIN found |-> item_geometry(found[i], i)]
             R == {p \in ItemType \X ItemType : item_x_after(p[1], p[2])}
  <1>1. N \in Nat /\ DOMAIN found = 1..N
    OBVIOUS
  <1>2. \A i \in 1..N : all[i] \in ItemType /\ all[i].box = found[i]
    <2>1. ASSUME NEW i \in 1..N PROVE all[i] \in ItemType /\ all[i].box = found[i]
      <3>1. found[i] \in Corner4 /\ i \in Nat /\ all[i] = item_geometry(found[i], i)
        BY <1>1
      <3> QED
        BY <3>1, GeometryType
    <2> QED
      BY <2>1
  <1>3. all \in Seq(ItemType) /\ Len(all) = N
    BY <1>1, <1>2
  <1>4. ByX(found) = InsertionSort(all, item_x_after)
    BY DEF ByX
  <1> HIDE DEF all
  <1>5. PICK g : Sorts(Len(all), ItemType, all, R, g)
                 /\ InsertionSort(all, item_x_after) = g[Len(all)]
    BY <1>3, ItemsSorted
  <1> HIDE DEF N, R
  <1>6. Sorts(N, ItemType, all, R, g) /\ ByX(found) = g[N]
    BY <1>3, <1>4, <1>5
  <1>7. /\ \A n \in 0..N : Len(g[n]) = n
        /\ \E place \in Arrangements(N) : g[N] = [i \in 1..N |-> all[place[i]]]
    <2>1. Arranged(N, all, g)
      BY <1>6, SortArranges
    <2> QED
      BY <2>1 DEF Arranged
  <1>8. g[N] \in Seq(ItemType) /\ Len(g[N]) = N
    <2>1. g \in [0..N -> Seq(ItemType)]
      BY <1>6 DEF Sorts
    <2>2. N \in 0..N
      BY <1>1
    <2>3. g[N] \in Seq(ItemType)
      BY <2>1, <2>2
    <2> QED
      BY <2>2, <2>3, <1>7
  <1>9. PICK place \in Arrangements(N) : g[N] = [i \in 1..N |-> all[place[i]]]
    BY <1>7
  <1>10. \A i \in 1..N : place[i] \in 1..N
    BY DEF Arrangements
  <1>11. \A i \in 1..N : g[N][i].box = found[place[i]]
    <2>1. \A i \in 1..N : g[N][i] = all[place[i]]
      BY <1>9
    <2> QED
      BY <1>2, <1>10, <2>1
  <1> QED
    BY <1>6, <1>8, <1>11 DEF N

LEMMA ColumnsSettled ==
  ASSUME NEW items \in Seq(ItemType), NEW order
  PROVE  \E place \in Arrangements(Len(items)) :
           /\ SortedByColumn(items, order) = [i \in DOMAIN items |-> items[place[i]].box]
           /\ InColumns(place, items, Assigned(items), order)
  <1> DEFINE N == Len(items)
             assigned == Assigned(items)
             columns == assigned.columns
             reverse == (order = VerticalRtl)
             cells == CellsOf(items, assigned)
             C == Cells(Len(columns))
             R == CellOrder(C, assigned, order)
  <1>1. N \in Nat /\ DOMAIN items = 1..N /\ \A i \in 1..N : items[i] \in ItemType
    OBVIOUS
  <1>2. /\ columns \in Seq(ColumnType) /\ \A i \in 1..N : assigned.of[i] \in 1..Len(columns)
    BY AssignedIs DEF Placing
  <1>3. reverse \in BOOLEAN
    OBVIOUS
  <1> HIDE DEF assigned
  <1>5. /\ cells \in Seq(C) /\ Len(cells) = N
        /\ \A i \in 1..N : cells[i] = [item |-> items[i], column |-> assigned.of[i]]
    <2>1. \A i \in 1..N : [item |-> items[i], column |-> assigned.of[i]] \in C
      BY <1>1, <1>2 DEF Cells
    <2> QED
      BY <1>1, <2>1 DEF CellsOf
  <1>t. \A i \in 1..N : cells[i].item = items[i] /\ cells[i].column = assigned.of[i]
    <2>1. ASSUME NEW i \in 1..N PROVE cells[i].item = items[i] /\ cells[i].column = assigned.of[i]
      BY <1>1 DEF CellsOf
    <2> QED
      BY <2>1
  <1> HIDE DEF C
  <1>7. \A p, q \in C : <<p, q>> \in R <=> item_before(q, p, columns, reverse)
    BY DEF CellOrder
  <1>6. PICK g : /\ Sorts(Len(cells), C, cells, R, g)
                 /\ ColumnSort(items, assigned, order) = g[Len(cells)]
    BY <1>5, CellsSorted
  <1> HIDE DEF cells, columns, reverse
  <1> HIDE DEF N, R
  <1>8. \A p, q \in C : <<p, q>> \in R => <<q, p>> \notin R
    BY <1>2, <1>3, <1>7, BeforeFacts DEF C
  <1>9. \A p, q, r \in C : <<p, q>> \notin R /\ <<q, r>> \notin R => <<p, r>> \notin R
    BY <1>2, <1>3, <1>7, BeforeFacts DEF C
  <1>10. Sorts(N, C, cells, R, g) /\ ColumnSort(items, assigned, order) = g[N]
    BY <1>5, <1>6
  <1>11. PICK place \in Arrangements(N) : g[N] = [i \in 1..N |-> cells[place[i]]]
    <2>1. \E place \in Arrangements(N) : g[N] = [i \in 1..N |-> cells[place[i]]]
      <3>1. Sorts(N, C, cells, R, g)
        BY <1>10
      <3>2. Arranged(N, cells, g)
        BY <3>1, SortArranges
      <3> QED
        BY <3>2 DEF Arranged
    <2> QED
      BY <2>1
  <1>12. \A i, j \in 1..N : i < j => <<g[N][i], g[N][j]>> \notin R
    BY <1>8, <1>9, <1>10, SortOrders
  <1>13. place \in [1..N -> 1..N]
    BY DEF Arrangements
  <1> DEFINE of == assigned.of
             Col(i) == of[place[i]]
             S(c, d) == Sooner(c, d, columns, reverse)
  <1>14. \A i \in 1..N : /\ g[N][i] = [item |-> items[place[i]], column |-> Col(i)]
                         /\ g[N][i] \in C /\ items[place[i]] \in ItemType
                         /\ Col(i) \in 1..Len(columns)
                         /\ g[N][i].item = items[place[i]] /\ g[N][i].column = Col(i)
    <2>1. \A i \in 1..N : g[N][i] = cells[place[i]] /\ place[i] \in 1..N
      BY <1>11, <1>13
    <2> QED
      BY <1>1, <1>2, <1>5, <1>t, <2>1
  <1>15. SortedByColumn(items, order) = [i \in DOMAIN items |-> items[place[i]].box]
    <2>1. SortedByColumn(items, order) = BoxesIn(g[N])
      BY <1>10 DEF SortedByColumn, assigned
    <2>2. DOMAIN g[N] = 1..N
      BY <1>11
    <2>3. \A i \in 1..N : g[N][i].item.box = items[place[i]].box
      <3>1. \A i \in 1..N : g[N][i].item = items[place[i]]
        BY <1>14
      <3> QED
        BY <3>1
    <2> QED
      BY <1>1, <2>1, <2>2, <2>3 DEF BoxesIn
  <1>16. ASSUME NEW i \in 1..N, NEW j \in 1..N, i < j
         PROVE  /\ Col(i) # Col(j) => S(Col(i), Col(j))
                /\ Col(i) = Col(j) => items[place[i]].minY <= items[place[j]].minY
    <2>1. ~item_before(g[N][j], g[N][i], columns, reverse)
      BY <1>7, <1>12, <1>14, <1>16
    <2>2. item_before(g[N][j], g[N][i], columns, reverse) =
            IF Col(j) # Col(i) THEN S(Col(j), Col(i)) ELSE Higher(items[place[j]], items[place[i]])
      <3>1. /\ g[N][j].column = Col(j) /\ g[N][i].column = Col(i)
            /\ g[N][j].item = items[place[j]] /\ g[N][i].item = items[place[i]]
        BY <1>14
      <3>2. item_before(g[N][j], g[N][i], columns, reverse) =
              IF g[N][j].column # g[N][i].column
              THEN Sooner(g[N][j].column, g[N][i].column, columns, reverse)
              ELSE Higher(g[N][j].item, g[N][i].item)
        BY BeforeIs
      <3> QED
        BY <3>1, <3>2
    <2>3. CASE Col(i) # Col(j)
      <3>1. ~S(Col(j), Col(i))
        BY <2>1, <2>2, <2>3
      <3>2. Col(i) \in 1..Len(columns) /\ Col(j) \in 1..Len(columns)
        BY <1>14
      <3> HIDE DEF Col
      <3>3. S(Col(i), Col(j)) <=> ~S(Col(j), Col(i))
        BY <1>2, <1>3, <2>3, <3>2, SoonerFacts
      <3> QED
        BY <2>3, <3>1, <3>3
    <2>4. CASE Col(i) = Col(j)
      <3>1. ~Higher(items[place[j]], items[place[i]])
        BY <2>1, <2>2, <2>4
      <3> QED
        BY <1>14, <2>4, <3>1, HigherFacts
    <2> QED
      BY <2>3, <2>4
  <1>17. ASSUME NEW i \in 1..N, NEW j \in 1..N, i < j, Col(i) = Col(j), NEW k \in i..j
         PROVE  Col(k) = Col(i)
    <2> SUFFICES ASSUME Col(k) # Col(i) PROVE FALSE
      OBVIOUS
    <2>1. k \in 1..N /\ i < k /\ k < j
      BY <1>1, <1>17
    <2>2. S(Col(i), Col(k)) /\ S(Col(k), Col(i))
      <3>1. S(Col(i), Col(k))
        BY <1>16, <2>1
      <3>2. S(Col(k), Col(j))
        BY <1>16, <1>17, <2>1
      <3> QED
        BY <1>17, <3>1, <3>2
    <2>3. Col(i) \in 1..Len(columns) /\ Col(k) \in 1..Len(columns)
      BY <1>14, <2>1
    <2> HIDE DEF Col
    <2>4. S(Col(i), Col(k)) <=> ~S(Col(k), Col(i))
      BY <1>2, <1>3, <2>3, SoonerFacts
    <2> QED
      BY <2>2, <2>4
  <1>18. ASSUME NEW c \in 1..Len(columns), NEW d \in 1..Len(columns), S(c, d)
         PROVE  IF order = VerticalRtl
                THEN columns[c].sum * columns[d].count >= columns[d].sum * columns[c].count
                ELSE columns[c].sum * columns[d].count <= columns[d].sum * columns[c].count
    <2>1. /\ columns[c].sum \in Int /\ columns[d].sum \in Int
          /\ columns[c].count \in Int /\ columns[d].count \in Int
      <3>1. columns[c] \in ColumnType /\ columns[d] \in ColumnType
        BY <1>2
      <3> QED
        BY <3>1, ColumnNumbers
    <2> DEFINE left == columns[c].sum * columns[d].count
               right == columns[d].sum * columns[c].count
    <2>2. left \in Int /\ right \in Int
      BY <2>1, Factors
    <2>3. IF left # right THEN (IF reverse THEN left > right ELSE left < right) ELSE c < d
      BY <1>18 DEF Sooner
    <2>4. reverse <=> order = VerticalRtl
      BY DEF reverse
    <2> HIDE DEF left, right
    <2>5. IF order = VerticalRtl THEN left >= right ELSE left <= right
      BY <2>2, <2>3, <2>4
    <2> QED
      BY <2>5 DEF left, right
  <1>19. InColumns(place, items, assigned, order)
    <2>1. DOMAIN place = 1..N
      BY <1>13
    <2> QED
      BY <1>14, <1>16, <1>17, <1>18, <2>1 DEF InColumns, columns
  <1> QED
    BY <1>15, <1>19 DEF N, assigned

\* Whatever the order, sorting settles the boxes.
LEMMA SortSettled ==
  ASSUME NEW found \in Seq(Corner4), NEW order
  PROVE  Settled(lw_sort_detection_boxes(found, order), found, order)
  <1> DEFINE N == Len(found)
             boxes == lw_sort_detection_boxes(found, order)
  <1>1. N \in Nat /\ DOMAIN found = 1..N
    OBVIOUS
  <1>2. CASE N >= 2 /\ order = HorizontalLtr
    <2>1. boxes = legacy_horizontal_sort(found)
      BY <1>1, <1>2 DEF lw_sort_detection_boxes
    <2>2. /\ \E place \in Arrangements(Len(found)) : boxes = [i \in DOMAIN found |-> found[place[i]]]
          /\ LinesInOrder(boxes)
      BY <2>1, RowsSettled
    <2> HIDE DEF boxes
    <2>3. Settled(boxes, found, order)
      BY <1>2, <2>2 DEF Settled
    <2> QED
      BY <2>3 DEF boxes
  <1>3. CASE N >= 2 /\ order # HorizontalLtr
    <2> DEFINE items == ByX(found)
    <2>1. boxes = SortedByColumn(items, order)
      BY <1>1, <1>3 DEF lw_sort_detection_boxes, vertical_sort
    <2>2. /\ items \in Seq(ItemType) /\ Len(items) = N
          /\ \E place \in Arrangements(N) : \A i \in 1..N : items[i].box = found[place[i]]
      BY ItemsAre
    <2> HIDE DEF items, N, boxes
    <2>3. PICK p \in Arrangements(N) : \A i \in 1..N : items[i].box = found[p[i]]
      BY <2>2
    <2>4. DOMAIN items = 1..N
      BY <1>1, <2>2
    <2>5. PICK q \in Arrangements(N) :
            /\ boxes = [i \in 1..N |-> items[q[i]].box]
            /\ InColumns(q, items, Assigned(items), order)
      BY <2>1, <2>2, <2>4, ColumnsSettled
    <2>6. ColumnsInOrder(boxes, items, Assigned(items), order)
      BY <2>2, <2>4, <2>5 DEF ColumnsInOrder
    <2> DEFINE place == [i \in 1..N |-> p[q[i]]]
    <2>7. place \in Arrangements(N)
      BY <1>1, Rearranged
    <2>8. \A i \in 1..N : q[i] \in 1..N
      BY DEF Arrangements
    <2>9. boxes = [i \in 1..N |-> found[place[i]]]
      BY <2>3, <2>5, <2>8
    <2> HIDE DEF place
    <2> QED
      BY <1>1, <1>3, <2>6, <2>7, <2>9 DEF Settled, items, N, boxes
  <1>4. CASE N < 2
    <2>1. boxes = found
      BY <1>4 DEF lw_sort_detection_boxes
    <2>2. [i \in 1..N |-> i] \in Arrangements(N) /\ found = [i \in 1..N |-> found[[j \in 1..N |-> j][i]]]
      BY <1>1 DEF Arrangements
    <2>3. LinesInOrder(found)
      BY <1>1, <1>4 DEF LinesInOrder
    <2>4. ASSUME order # HorizontalLtr
          PROVE  ColumnsInOrder(found, ByX(found), Assigned(ByX(found)), order)
      <3> DEFINE items == ByX(found)
      <3>1. /\ items \in Seq(ItemType) /\ Len(items) = N
            /\ \E place \in Arrangements(N) : \A i \in 1..N : items[i].box = found[place[i]]
        BY ItemsAre
      <3> HIDE DEF items
      <3>2. PICK p \in Arrangements(N) : \A i \in 1..N : items[i].box = found[p[i]]
        BY <3>1
      <3>3. p \in [1..N -> 1..N] /\ DOMAIN items = 1..N
        BY <3>1 DEF Arrangements
      <3>4. \A i \in 1..N : p[i] = i
        BY <1>1, <1>4, <3>3
      <3>5. found = [i \in 1..N |-> items[p[i]].box]
        BY <1>1, <3>2, <3>4
      <3>6. InColumns(p, items, Assigned(items), order)
        BY <1>1, <1>4, <3>3 DEF InColumns
      <3>7. ColumnsInOrder(found, items, Assigned(items), order)
        BY <3>1, <3>3, <3>5, <3>6 DEF ColumnsInOrder
      <3> QED
        BY <3>7 DEF items
    <2> QED
      BY <1>1, <2>1, <2>2, <2>3, <2>4 DEF Settled
  <1> QED
    BY <1>1, <1>2, <1>3, <1>4

-----------------------------------------------------------------------------
(* Finite sets of points *)

Points == Int \X Int

\* A relation that is total and transitive on a set.
Ranks(R, S) ==
  /\ \A p, q \in S : p # q => <<p, q>> \in R \/ <<q, p>> \in R
  /\ \A p, q, r \in S : <<p, q>> \in R /\ <<q, r>> \in R => <<p, r>> \in R

\* A relation that is total and transitive on a finite set has a first element there.
LEMMA FirstExists ==
  ASSUME NEW S, IsFiniteSet(S), S # {}, NEW R, Ranks(R, S)
  PROVE  \E p \in S : \A q \in S : q # p => <<p, q>> \in R
  <1>0. PICK N \in Nat : ExistsBijection(1..N, S)
    BY FS_NatBijection
  <1>1. PICK f \in [1..N -> S] : \A q \in S : \E i \in 1..N : f[i] = q
    BY <1>0 DEF ExistsBijection, Bijection, Injection, Surjection
  <1> DEFINE Leads(k, n) == \A j \in 1..n : f[j] # f[k] => <<f[k], f[j]>> \in R
             Good == {n \in 0..N : n = 0 \/ \E k \in 1..n : Leads(k, n)}
  <1>2. 0 \in Good
    OBVIOUS
  <1>3. ASSUME NEW n \in 1..N, n - 1 \in Good PROVE n \in Good
    <2>1. CASE n = 1
      <3>1. Leads(1, n)
        BY <2>1
      <3> QED
        BY <2>1, <3>1
    <2>2. CASE n # 1
      <3>1. PICK k \in 1..n - 1 : Leads(k, n - 1)
        <4>1. n - 1 # 0
          BY <2>2
        <4> HIDE DEF Leads
        <4> QED
          BY <1>3, <4>1
      <3>2. f[k] \in S /\ f[n] \in S /\ \A j \in 1..n : f[j] \in S /\ (j = n \/ j \in 1..n - 1)
        OBVIOUS
      <3>3. CASE f[n] = f[k] \/ <<f[k], f[n]>> \in R
        <4>1. Leads(k, n) /\ k \in 1..n /\ n \in 0..N
          BY <3>1, <3>2, <3>3
        <4> HIDE DEF Leads
        <4> QED
          BY <4>1
      <3>4. CASE f[n] # f[k] /\ <<f[k], f[n]>> \notin R
        <4>1. <<f[n], f[k]>> \in R
          BY <3>2, <3>4 DEF Ranks
        <4>2. Leads(n, n)
          <5>1. ASSUME NEW j \in 1..n, f[j] # f[n] PROVE <<f[n], f[j]>> \in R
            <6>1. f[j] = f[k] \/ <<f[k], f[j]>> \in R
              BY <3>1, <3>2, <5>1
            <6>2. f[j] \in S
              BY <3>2
            <6> QED
              BY <3>2, <4>1, <6>1, <6>2 DEF Ranks
          <5> QED
            BY <5>1
        <4>3. n \in 1..n /\ n \in 0..N
          OBVIOUS
        <4> HIDE DEF Leads
        <4> QED
          BY <4>2, <4>3
      <3> QED
        BY <3>3, <3>4
    <2> QED
      BY <2>1, <2>2
  <1>4. N \in Good
    <2> HIDE DEF Good
    <2>1. \A n \in 0..N : n \in Good
      BY <1>2, <1>3, Upwards
    <2> QED
      BY <2>1
  <1>5. N # 0
    BY <1>1
  <1>6. PICK k \in 1..N : Leads(k, N)
    BY <1>4, <1>5
  <1> QED
    BY <1>1, <1>6

\* A finite set of integers has a least and a greatest element.
LEMMA LeastGreatest ==
  ASSUME NEW S \in SUBSET Int, IsFiniteSet(S), S # {}
  PROVE  /\ Least(S) \in S /\ \A n \in S : Least(S) <= n
         /\ Greatest(S) \in S /\ \A n \in S : n <= Greatest(S)
  <1> DEFINE Up == {p \in Int \X Int : p[1] <= p[2]}
             Down == {p \in Int \X Int : p[1] >= p[2]}
  <1>1. /\ \A m, n \in S : <<m, n>> \in Up <=> m <= n
        /\ \A m, n \in S : <<m, n>> \in Down <=> m >= n
    OBVIOUS
  <1>2. \A m \in S : m \in Int
    OBVIOUS
  <1> HIDE DEF Up, Down
  <1>3. \E m \in S : \A n \in S : n # m => <<m, n>> \in Up
    <2>1. Ranks(Up, S)
      BY <1>1, <1>2 DEF Ranks
    <2> QED
      BY <2>1, FirstExists
  <1>4. \E m \in S : \A n \in S : n # m => <<m, n>> \in Down
    <2>1. Ranks(Down, S)
      BY <1>1, <1>2 DEF Ranks
    <2> QED
      BY <2>1, FirstExists
  <1>5. (\E m \in S : \A n \in S : m <= n) /\ (\E m \in S : \A n \in S : m >= n)
    <2>1. PICK m \in S : \A n \in S : n # m => <<m, n>> \in Up
      BY <1>3
    <2>2. \A n \in S : m <= n
      <3>1. ASSUME NEW n \in S PROVE m <= n
        <4>1. CASE n = m
          BY <1>2, <4>1
        <4>2. CASE n # m
          BY <1>1, <2>1, <4>2
        <4> QED
          BY <4>1, <4>2
      <3> QED
        BY <3>1
    <2>3. PICK k \in S : \A n \in S : n # k => <<k, n>> \in Down
      BY <1>4
    <2>4. \A n \in S : k >= n
      <3>1. ASSUME NEW n \in S PROVE k >= n
        <4>1. CASE n = k
          BY <1>2, <4>1
        <4>2. CASE n # k
          BY <1>1, <2>3, <4>2
        <4> QED
          BY <4>1, <4>2
      <3> QED
        BY <3>1
    <2> QED
      BY <2>2, <2>4
  <1>6. Least(S) \in S /\ \A n \in S : Least(S) <= n
    BY <1>5 DEF Least
  <1>7. Greatest(S) \in S /\ \A n \in S : Greatest(S) >= n
    BY <1>5 DEF Greatest
  <1> QED
    BY <1>2, <1>6, <1>7

LEMMA PointFacts ==
  ASSUME NEW p \in Points, NEW q \in Points, NEW r \in Points
  PROVE  /\ X(p) \in Int /\ Y(p) \in Int /\ p = <<X(p), Y(p)>>
         /\ p = q <=> X(p) = X(q) /\ Y(p) = Y(q)
         /\ p # q => (PointBefore(p, q) <=> ~PointBefore(q, p))
         /\ ~PointBefore(p, p)
         /\ PointBefore(p, q) /\ PointBefore(q, r) => PointBefore(p, r)
  <1>1. /\ X(p) \in Int /\ Y(p) \in Int /\ p = <<X(p), Y(p)>>
        /\ X(q) \in Int /\ Y(q) \in Int /\ q = <<X(q), Y(q)>>
        /\ X(r) \in Int /\ Y(r) \in Int /\ r = <<X(r), Y(r)>>
    BY DEF Points, X, Y
  <1>2. p = q <=> X(p) = X(q) /\ Y(p) = Y(q)
    BY <1>1
  <1> QED
    BY <1>1, <1>2 DEF PointBefore

-----------------------------------------------------------------------------
(* SortedPoints *)

\* A sequence that has every point of a set once, in the order of the scan.
Sorted(s, S) ==
  /\ s \in Seq(S) /\ Len(s) = Cardinality(S)
  /\ \A i, j \in 1..Len(s) : i < j => PointBefore(s[i], s[j])
  /\ \A p \in S : \E i \in 1..Len(s) : s[i] = p

LEMMA SortedIs ==
  ASSUME NEW S \in SUBSET Points, IsFiniteSet(S)
  PROVE  Sorted(SortedPoints(S), S)
  <1> DEFINE N == Cardinality(S)
             rest(s) == S \ {s[i] : i \in DOMAIN s}
             next(s) == CHOOSE p \in rest(s) : \A q \in rest(s) \ {p} : PointBefore(p, q)
             F == [a \in (1..N) \X Seq(S) |-> IF rest(a[2]) = {} THEN a[2] ELSE Append(a[2], next(a[2]))]
             sorted == CHOOSE f : f = [n \in 0..N |-> IF n = 0 THEN <<>> ELSE Append(f[n - 1], next(f[n - 1]))]
  <1>1. N \in Nat
    BY FS_CardinalityType
  <1>2. ASSUME NEW s \in Seq(S), rest(s) # {}
        PROVE  /\ next(s) \in rest(s) /\ \A q \in rest(s) : q # next(s) => PointBefore(next(s), q)
               /\ Append(s, next(s)) \in Seq(S)
    <2> DEFINE T == rest(s)
               Before == {a \in S \X S : PointBefore(a[1], a[2])}
    <2>1. IsFiniteSet(T) /\ T \subseteq S
      BY FS_Subset
    <2>2. T # {}
      BY <1>2
    <2>3. \A p, q \in T : <<p, q>> \in Before <=> PointBefore(p, q)
      BY <2>1
    <2>4. next(s) = CHOOSE p \in T : \A q \in T \ {p} : PointBefore(p, q)
      OBVIOUS
    <2> HIDE DEF T, Before, next
    <2>5. Ranks(Before, T)
      BY <2>1, <2>3, PointFacts DEF Ranks
    <2>6. \E p \in T : \A q \in T : q # p => <<p, q>> \in Before
      BY <2>1, <2>2, <2>5, FirstExists
    <2>7. \E p \in T : \A q \in T \ {p} : PointBefore(p, q)
      BY <2>3, <2>6
    <2>8. next(s) \in T /\ \A q \in T \ {next(s)} : PointBefore(next(s), q)
      BY <2>4, <2>7
    <2>9. Append(s, next(s)) \in Seq(S)
      BY <2>1, <2>8
    <2> QED
      BY <2>8, <2>9 DEF T
  <1> HIDE DEF next
  <1>3. /\ F \in [(1..N) \X Seq(S) -> Seq(S)]
        /\ \A n \in 1..N, s \in Seq(S) : rest(s) # {} => F[<<n, s>>] = Append(s, next(s))
    BY <1>2
  <1> HIDE DEF F
  <1>4. PICK g : Traces(g, N, Seq(S), <<>>, F)
    <2>1. Steps(N, Seq(S), <<>>, F)
      BY <1>1, <1>3 DEF Steps
    <2> HIDE DEF N
    <2> QED
      BY <2>1, Recursion
  <1>5. g \in [0..N -> Seq(S)] /\ g[0] = <<>> /\ \A n \in 1..N : g[n] = F[<<n, g[n - 1]>>]
    BY <1>4 DEF Traces
  <1> DEFINE Ordered(s) == /\ \A i, j \in 1..Len(s) : i < j => PointBefore(s[i], s[j])
                           /\ \A i \in 1..Len(s) : \A q \in rest(s) : PointBefore(s[i], q)
  <1>6. ASSUME NEW s \in Seq(S), Len(s) < N, Ordered(s)
        PROVE  rest(s) # {}
    <2>0. Len(s) \in Nat /\ s \in [1..Len(s) -> S]
      OBVIOUS
    <2> SUFFICES ASSUME rest(s) = {} PROVE FALSE
      OBVIOUS
    <2>1. s \in Surjection(1..Len(s), S)
      <3>1. \A p \in S : \E i \in 1..Len(s) : s[i] = p
        BY <2>0
      <3> QED
        BY <2>0, <3>1 DEF Surjection
    <2>2. IsFiniteSet(1..Len(s)) /\ Cardinality(1..Len(s)) = Len(s)
      <3> DEFINE L == Len(s)
      <3>1. L \in Int /\ 1 \in Int /\ 1 <= L + 1
        BY <2>0
      <3> HIDE DEF L
      <3>2. IsFiniteSet(1..L) /\ Cardinality(1..L) = IF 1 > L THEN 0 ELSE L - 1 + 1
        BY <3>1, FS_Interval
      <3>3. Cardinality(1..L) = L
        BY <3>1, <3>2
      <3> QED
        BY <3>2, <3>3 DEF L
    <2>3. Cardinality(S) <= Cardinality(1..Len(s))
      BY <2>1, <2>2, FS_Surjection DEF ExistsSurjection
    <2> QED
      BY <1>1, <1>6, <2>2, <2>3
  <1>7. ASSUME NEW s \in Seq(S), rest(s) # {}, Ordered(s)
        PROVE  Ordered(Append(s, next(s)))
    <2> DEFINE t == Append(s, next(s))
    <2>1. /\ Len(t) = Len(s) + 1 /\ t[Len(s) + 1] = next(s) /\ \A i \in 1..Len(s) : t[i] = s[i]
          /\ \A i \in 1..Len(t) : i = Len(s) + 1 \/ i \in 1..Len(s)
      OBVIOUS
    <2>2. rest(t) = rest(s) \ {next(s)}
      BY <2>1
    <2> HIDE DEF t
    <2>3. next(s) \in rest(s) /\ \A q \in rest(s) : q # next(s) => PointBefore(next(s), q)
      BY <1>2, <1>7
    <2> HIDE DEF rest
    <2>4. Ordered(t)
      BY <1>7, <2>1, <2>2, <2>3
    <2> QED
      BY <2>4 DEF t
  <1> HIDE DEF rest, N
  <1> DEFINE Good == {n \in 0..N : Len(g[n]) = n /\ Ordered(g[n])}
  <1>8. 0 \in Good
    BY <1>1, <1>5
  <1>9. ASSUME NEW n \in 1..N, n - 1 \in Good PROVE n \in Good /\ g[n] = Append(g[n - 1], next(g[n - 1]))
    <2>1. g[n - 1] \in Seq(S) /\ Len(g[n - 1]) = n - 1 /\ Ordered(g[n - 1]) /\ n - 1 < N /\ n \in 0..N
      BY <1>1, <1>5, <1>9
    <2>2. rest(g[n - 1]) # {}
      BY <1>6, <2>1
    <2>3. g[n] = Append(g[n - 1], next(g[n - 1]))
      BY <1>3, <1>5, <2>1, <2>2
    <2>4. Len(Append(g[n - 1], next(g[n - 1]))) = n
      BY <2>1
    <2>5. Ordered(Append(g[n - 1], next(g[n - 1])))
      BY <1>7, <2>1, <2>2
    <2> HIDE DEF Ordered
    <2> QED
      BY <2>1, <2>3, <2>4, <2>5
  <1>10. \A n \in 0..N : n \in Good
    <2> HIDE DEF Good
    <2> QED
      BY <1>1, <1>8, <1>9, Upwards
  <1>11. g = [n \in 0..N |-> IF n = 0 THEN <<>> ELSE Append(g[n - 1], next(g[n - 1]))]
    <2>1. \A n \in 1..N : g[n] = Append(g[n - 1], next(g[n - 1]))
      <3>1. ASSUME NEW n \in 1..N PROVE g[n] = Append(g[n - 1], next(g[n - 1]))
        <4>1. n - 1 \in 0..N
          BY <1>1
        <4> QED
          BY <1>9, <1>10, <4>1
      <3> QED
        BY <3>1
    <2> DEFINE Grown(s) == Append(s, next(s))
    <2>2. \A n \in 1..N : g[n] = Grown(g[n - 1])
      BY <2>1
    <2> HIDE DEF Grown
    <2>3. g = [n \in 0..N |-> IF n = 0 THEN <<>> ELSE Grown(g[n - 1])]
      BY <1>1, <1>5, <2>2
    <2> QED
      BY <2>3 DEF Grown
  <1>12. sorted = [n \in 0..N |-> IF n = 0 THEN <<>> ELSE Append(sorted[n - 1], next(sorted[n - 1]))]
    BY <1>11
  <1>13. SortedPoints(S) = sorted[N]
    BY DEF SortedPoints, N, next, rest
  <1> HIDE DEF sorted
  <1> DEFINE Same == {n \in 0..N : sorted[n] = g[n]}
  <1>14. N \in Same
    <2>1. 0 \in Same
      BY <1>1, <1>5, <1>12
    <2>2. ASSUME NEW n \in 1..N, n - 1 \in Same PROVE n \in Same
      <3>1. n \in 0..N /\ n # 0
        BY <1>1
      <3> QED
        BY <1>11, <1>12, <2>2, <3>1
    <2> HIDE DEF Same
    <2> QED
      BY <1>1, <2>1, <2>2, Upwards
  <1>15. g[N] \in Seq(S) /\ Len(g[N]) = N /\ Ordered(g[N])
    BY <1>1, <1>5, <1>10
  <1>16. rest(g[N]) = {}
    <2> SUFFICES ASSUME rest(g[N]) # {} PROVE FALSE
      OBVIOUS
    <2>1. PICK q \in rest(g[N]) : TRUE
      OBVIOUS
    <2> DEFINE h == Append(g[N], q)
    <2>2. q \in S
      BY <2>1 DEF rest
    <2>3. h \in Seq(S) /\ Len(h) = N + 1 /\ \A i \in 1..N : h[i] = g[N][i]
      BY <1>15, <2>2
    <2>4. h[N + 1] = q
      BY <1>15, <2>2
    <2> HIDE DEF h
    <2>5. \A i \in 1..N + 1 : i \in 1..N \/ i = N + 1
      BY <1>1
    <2>6. \A i, j \in 1..N + 1 : i < j => PointBefore(h[i], h[j])
      <3>1. \A i \in 1..N : PointBefore(g[N][i], q) /\ i < N + 1
        BY <1>1, <1>15, <2>1
      <3> QED
        BY <1>1, <1>15, <2>3, <2>4, <2>5, <3>1
    <2>7. \A i \in 1..N + 1 : h[i] \in S /\ h[i] \in Points
      BY <2>3
    <2>8. \A i, j \in 1..N + 1 : i # j => h[i] # h[j]
      <3>1. ASSUME NEW i \in 1..N + 1, NEW j \in 1..N + 1, i # j PROVE h[i] # h[j]
        <4>1. i < j \/ j < i
          BY <1>1, <3>1
        <4> QED
          BY <2>6, <2>7, <4>1, PointFacts
      <3> QED
        BY <3>1
    <2>9. h \in Injection(1..N + 1, S)
      <3>1. h \in [1..N + 1 -> S]
        BY <2>3
      <3> QED
        BY <2>8, <3>1 DEF Injection, IsInjective
    <2>10. IsFiniteSet(1..N + 1) /\ Cardinality(1..N + 1) = N + 1
      BY <1>1, FS_Interval
    <2>11. Cardinality(1..N + 1) <= Cardinality(S)
      BY <2>9, FS_Injection DEF ExistsInjection
    <2> QED
      BY <1>1, <2>10, <2>11 DEF N
  <1>17. \A p \in S : \E i \in 1..Len(g[N]) : g[N][i] = p
    BY <1>15, <1>16 DEF rest
  <1>18. SortedPoints(S) = g[N]
    BY <1>13, <1>14
  <1> QED
    BY <1>15, <1>17, <1>18 DEF Sorted, N

-----------------------------------------------------------------------------
(* The halves of the hull *)

\* The point p has been appended to the chain s, after the points which leave no turn
\* to the left were taken off its end.
Grows(s, t, stay, p) ==
  \E k \in 0..Len(s) :
    /\ t = Append(SubSeq(s, 1, k), p)
    /\ IF Len(s) < stay THEN k = Len(s)
       ELSE /\ k >= stay
            /\ \A j \in k + 1..Len(s) : ~(Cross(s[j - 1], s[j], p) > 0)

Chained(g, chain0, stay, points, count) ==
  /\ g \in [0..count -> Seq(Points)] /\ g[0] = chain0
  /\ \A n \in 1..count : Grows(g[n - 1], g[n], stay, points[n])

LEMMA TurnedIs ==
  ASSUME NEW s \in Seq(Points), NEW stay \in Nat \ {0}, stay <= Len(s), NEW p \in Points
  PROVE  /\ Append(Turned(s, stay, p), p) \in Seq(Points)
         /\ Grows(s, Append(Turned(s, stay, p), p), stay, p)
  <1> DEFINE L == Len(s)
             P == {m \in 1..L - stay : ~(Cross(s[stay + m - 1], s[stay + m], p) > 0)}
             Turns(k) == Cross(s[k - 1], s[k], p) > 0
             last == CHOOSE k \in stay..L : /\ k = stay \/ Turns(k)
                                            /\ \A j \in k + 1..L : ~Turns(j)
  <1>1. L \in Nat /\ L - stay \in Nat
    OBVIOUS
  <1>2. PICK m \in 0..L - stay : Stops(m, L - stay, P)
    <2> HIDE DEF L, P
    <2> QED
      BY <1>1, StopExists
  <1>3. \A i \in 1..L - stay : i \in P <=> ~Turns(stay + i)
    OBVIOUS
  <1>4. /\ stay + m \in stay..L
        /\ stay + m = stay \/ Turns(stay + m)
        /\ \A j \in stay + m + 1..L : ~Turns(j)
    <2> HIDE DEF P, L, Turns
    <2>1. m = 0 \/ Turns(stay + m)
      BY <1>1, <1>2, <1>3 DEF Stops
    <2>2. ASSUME NEW j \in stay + m + 1..L PROVE ~Turns(j)
      <3>1. j - stay \in m + 1..L - stay /\ j - stay \in 1..L - stay /\ stay + (j - stay) = j
        BY <1>1
      <3> QED
        BY <1>2, <1>3, <3>1 DEF Stops
    <2> QED
      BY <1>1, <2>1, <2>2
  <1>5. \E k \in stay..L : (k = stay \/ Turns(k)) /\ \A j \in k + 1..L : ~Turns(j)
    <2> HIDE DEF L, Turns
    <2> QED
      BY <1>4
  <1>6. last \in stay..L /\ \A j \in last + 1..L : ~Turns(j)
    <2> HIDE DEF L, Turns
    <2> QED
      BY <1>5
  <1>7. Turned(s, stay, p) = SubSeq(s, 1, last)
    BY DEF Turned
  <1> HIDE DEF last
  <1>8. last \in 0..L /\ last >= stay
    BY <1>1, <1>6
  <1>9. SubSeq(s, 1, last) \in Seq(Points)
    BY <1>8
  <1>10. Append(SubSeq(s, 1, last), p) \in Seq(Points)
    BY <1>9
  <1>11. Grows(s, Append(SubSeq(s, 1, last), p), stay, p)
    BY <1>6, <1>8 DEF Grows
  <1> QED
    BY <1>7, <1>10, <1>11

LEMMA ChainIs ==
  ASSUME NEW chain0 \in Seq(Points), NEW stay \in Nat \ {0}, NEW count \in Nat,
         NEW points \in [1..count -> Points]
  PROVE  \E g : /\ Chained(g, chain0, stay, points, count)
                /\ Chain(chain0, stay, points, count) = g[count]
  <1> DEFINE Next1(s, p) == Append(IF Len(s) < stay THEN s ELSE Turned(s, stay, p), p)
             F == [a \in (1..count) \X Seq(Points) |-> Next1(a[2], points[a[1]])]
             chain == CHOOSE f : f = [n \in 0..count |-> IF n = 0 THEN chain0 ELSE Next1(f[n - 1], points[n])]
  <1>1. ASSUME NEW s \in Seq(Points), NEW p \in Points
        PROVE  Next1(s, p) \in Seq(Points) /\ Grows(s, Next1(s, p), stay, p)
    <2>1. CASE Len(s) < stay
      <3>1. Next1(s, p) = Append(s, p)
        BY <2>1
      <3>2. SubSeq(s, 1, Len(s)) = s /\ Len(s) \in 0..Len(s)
        OBVIOUS
      <3>3. Append(s, p) \in Seq(Points)
        OBVIOUS
      <3>4. Grows(s, Append(s, p), stay, p)
        BY <2>1, <3>2 DEF Grows
      <3> QED
        BY <3>1, <3>3, <3>4
    <2>2. CASE ~(Len(s) < stay)
      <3>1. Next1(s, p) = Append(Turned(s, stay, p), p) /\ stay <= Len(s)
        BY <2>2
      <3> QED
        BY <3>1, TurnedIs
    <2> QED
      BY <2>1, <2>2
  <1>2. Chain(chain0, stay, points, count) = chain[count]
    BY DEF Chain
  <1> HIDE DEF Next1
  <1>3. /\ F \in [(1..count) \X Seq(Points) -> Seq(Points)]
        /\ \A n \in 1..count, s \in Seq(Points) : F[<<n, s>>] = Next1(s, points[n])
    BY <1>1
  <1> HIDE DEF F
  <1>4. PICK g : Traces(g, count, Seq(Points), chain0, F)
    <2>1. Steps(count, Seq(Points), chain0, F)
      BY <1>3 DEF Steps
    <2> QED
      BY <2>1, Recursion
  <1>5. /\ g \in [0..count -> Seq(Points)] /\ g[0] = chain0
        /\ \A n \in 1..count : g[n] = Next1(g[n - 1], points[n])
    <2>1. /\ g \in [0..count -> Seq(Points)] /\ g[0] = chain0
          /\ \A n \in 1..count : g[n] = F[<<n, g[n - 1]>>]
      BY <1>4 DEF Traces
    <2>2. \A n \in 1..count : g[n - 1] \in Seq(Points)
      BY <2>1
    <2> QED
      BY <1>3, <2>1, <2>2
  <1>6. g = [n \in 0..count |-> IF n = 0 THEN chain0 ELSE Next1(g[n - 1], points[n])]
    BY <1>5
  <1>7. chain = [n \in 0..count |-> IF n = 0 THEN chain0 ELSE Next1(chain[n - 1], points[n])]
    BY <1>6
  <1> HIDE DEF chain
  <1> DEFINE Same == {n \in 0..count : chain[n] = g[n]}
  <1>8. count \in Same
    <2>1. 0 \in Same
      BY <1>5, <1>7
    <2>2. ASSUME NEW n \in 1..count, n - 1 \in Same PROVE n \in Same
      <3>1. n \in 0..count /\ n # 0
        OBVIOUS
      <3> QED
        BY <1>5, <1>7, <2>2, <3>1
    <2> HIDE DEF Same
    <2>3. \A n \in 0..count : n \in Same
      BY <2>1, <2>2, Upwards
    <2> QED
      BY <2>3
  <1>9. \A n \in 1..count : Grows(g[n - 1], g[n], stay, points[n])
    <2>1. ASSUME NEW n \in 1..count PROVE Grows(g[n - 1], g[n], stay, points[n])
      <3>1. g[n - 1] \in Seq(Points) /\ points[n] \in Points
        BY <1>5
      <3> QED
        BY <1>1, <1>5, <3>1
    <2> QED
      BY <2>1
  <1>10. Chained(g, chain0, stay, points, count)
    BY <1>5, <1>9 DEF Chained
  <1> QED
    BY <1>2, <1>8, <1>10

\* What a chain keeps when a point is appended.
Kept(s, t, stay, p, k) ==
  /\ k \in 0..Len(s)
  /\ t \in Seq(Points) /\ Len(t) = k + 1 /\ t[k + 1] = p /\ \A i \in 1..k : t[i] = s[i]
  /\ IF Len(s) < stay THEN k = Len(s)
     ELSE k >= stay /\ \A j \in k + 1..Len(s) : ~(Cross(s[j - 1], s[j], p) > 0)

LEMMA GrowsFacts ==
  ASSUME NEW s \in Seq(Points), NEW stay \in Nat \ {0}, NEW p \in Points, NEW t, Grows(s, t, stay, p)
  PROVE  \E k : Kept(s, t, stay, p, k)
  <1>1. PICK k \in 0..Len(s) :
          /\ t = Append(SubSeq(s, 1, k), p)
          /\ IF Len(s) < stay THEN k = Len(s)
             ELSE k >= stay /\ \A j \in k + 1..Len(s) : ~(Cross(s[j - 1], s[j], p) > 0)
    BY DEF Grows
  <1> DEFINE front == SubSeq(s, 1, k)
  <1>2. front \in Seq(Points) /\ Len(front) = k /\ \A i \in 1..k : front[i] = s[i]
    OBVIOUS
  <1> HIDE DEF front
  <1>3. t = Append(front, p)
    BY <1>1 DEF front
  <1>4. t \in Seq(Points) /\ Len(t) = k + 1 /\ t[k + 1] = p /\ \A i \in 1..k : t[i] = s[i]
    BY <1>2, <1>3
  <1>5. Kept(s, t, stay, p, k)
    BY <1>1, <1>4 DEF Kept
  <1> QED
    BY <1>5

Rising(s) == \A i, j \in 1..Len(s) : i < j => PointBefore(s[i], s[j])

\* From the place stay on, a chain goes one way through the order of the points.
Toward(way, p, q) == IF way = 1 THEN PointBefore(p, q) ELSE PointBefore(q, p)
OneWay(s, stay, way) == \A i, j \in stay..Len(s) : i < j => Toward(way, s[i], s[j])

LEMMA GrowsOneWay ==
  ASSUME NEW s \in Seq(Points), NEW stay \in Nat \ {0}, NEW p \in Points, NEW t, Grows(s, t, stay, p),
         NEW way, OneWay(s, stay, way), \A i \in stay..Len(s) : Toward(way, s[i], p)
  PROVE  OneWay(t, stay, way)
  <1>0. PICK k : Kept(s, t, stay, p, k)
    BY GrowsFacts
  <1>1. k \in 0..Len(s) /\ Len(t) = k + 1 /\ t[k + 1] = p /\ \A i \in 1..k : t[i] = s[i]
    BY <1>0 DEF Kept
  <1>2. ASSUME NEW i \in stay..k + 1, NEW j \in stay..k + 1, i < j PROVE Toward(way, t[i], t[j])
    <2>1. i \in stay..Len(s) /\ i \in 1..k /\ t[i] = s[i]
      BY <1>1, <1>2
    <2>2. CASE j = k + 1
      BY <1>1, <2>1, <2>2
    <2>3. CASE j # k + 1
      <3>1. j \in stay..Len(s) /\ j \in 1..k /\ t[j] = s[j]
        BY <1>1, <1>2, <2>3
      <3> QED
        BY <1>2, <2>1, <3>1 DEF OneWay
    <2> QED
      BY <2>2, <2>3
  <1> QED
    BY <1>1, <1>2 DEF OneWay

\* The lower half: it goes way from the first point to the one which came last.
LowerIs(s, c, n) ==
  /\ c \in Seq(Points) /\ Len(c) >= 1 /\ c[1] = s[1] /\ c[Len(c)] = s[n]
  /\ OneWay(c, 1, 1)
  /\ \A i \in 1..Len(c) : \E m \in 1..n : c[i] = s[m]

LEMMA LowerHalf ==
  ASSUME NEW s \in Seq(Points), Len(s) >= 1, Rising(s),
         NEW g, Chained(g, <<>>, 1, s, Len(s))
  PROVE  \A n \in 1..Len(s) : LowerIs(s, g[n], n)
  <1> DEFINE N == Len(s)
             Good == {n \in 0..N : n = 0 \/ LowerIs(s, g[n], n)}
  <1>1. N \in Nat /\ N >= 1 /\ \A i \in 1..N : s[i] \in Points
    OBVIOUS
  <1>2. /\ g \in [0..N -> Seq(Points)] /\ g[0] = <<>>
        /\ \A n \in 1..N : Grows(g[n - 1], g[n], 1, s[n])
    BY DEF Chained
  <1>r. \A i, j \in 1..N : i < j => PointBefore(s[i], s[j])
    BY DEF Rising
  <1>3. 0 \in Good
    BY <1>1
  <1> HIDE DEF N
  <1>4. ASSUME NEW n \in 1..N, n - 1 \in Good PROVE n \in Good
    <2> DEFINE c == g[n - 1]
               t == g[n]
    <2>1. c \in Seq(Points) /\ t \in Seq(Points) /\ Grows(c, t, 1, s[n]) /\ s[n] \in Points /\ n \in 0..N
      BY <1>1, <1>2
    <2>g. PICK k : Kept(c, t, 1, s[n], k)
      <3>1. 1 \in Nat \ {0}
        OBVIOUS
      <3> HIDE DEF c, t
      <3> QED
        BY <2>1, <3>1, GrowsFacts
    <2>2. /\ k \in 0..Len(c)
          /\ Len(t) = k + 1 /\ t[k + 1] = s[n] /\ \A i \in 1..k : t[i] = c[i]
          /\ IF Len(c) < 1 THEN k = Len(c) ELSE k >= 1
      <3> HIDE DEF c, t
      <3> QED
        BY <2>g DEF Kept
    <2>3. CASE n = 1
      <3>1. c = <<>>
        BY <1>2, <2>3
      <3>2. k = 0 /\ Len(t) = 1 /\ t[1] = s[1]
        BY <2>2, <2>3, <3>1
      <3> HIDE DEF t
      <3>3. OneWay(t, 1, 1)
        BY <3>2 DEF OneWay
      <3>5. \A i \in 1..Len(t) : \E m \in 1..n : t[i] = s[m]
        BY <2>3, <3>2
      <3>6. t[Len(t)] = s[n] /\ Len(t) >= 1
        BY <2>3, <3>2
      <3>4. LowerIs(s, t, n)
        BY <2>1, <3>2, <3>3, <3>5, <3>6 DEF LowerIs
      <3> QED
        BY <2>1, <3>4 DEF t
    <2>4. CASE n # 1
      <3>1. n - 1 \in 1..N /\ LowerIs(s, c, n - 1)
        BY <1>1, <1>4, <2>4
      <3>2. Len(c) \in Nat /\ Len(c) >= 1 /\ c[1] = s[1] /\ k >= 1
        BY <2>1, <2>2, <3>1 DEF LowerIs
      <3> HIDE DEF c, t
      <3>3. \A i \in 1..Len(c) : Toward(1, c[i], s[n])
        <4>1. ASSUME NEW i \in 1..Len(c) PROVE Toward(1, c[i], s[n])
          <5>1. PICK m \in 1..n - 1 : c[i] = s[m]
            BY <3>1 DEF LowerIs
          <5>2. m \in 1..N /\ m < n
            BY <1>1
          <5> QED
            BY <1>r, <5>1, <5>2 DEF Toward
        <4> QED
          BY <4>1
      <3>4. OneWay(t, 1, 1)
        <4>1. OneWay(c, 1, 1) /\ 1 \in Nat \ {0}
          BY <3>1 DEF LowerIs
        <4> QED
          BY <2>1, <3>3, <4>1, GrowsOneWay
      <3>5. t[1] = s[1] /\ Len(t) >= 1 /\ t[Len(t)] = s[n]
        BY <2>2, <3>2
      <3>6. \A i \in 1..Len(t) : \E m \in 1..n : t[i] = s[m]
        <4>1. ASSUME NEW i \in 1..Len(t) PROVE \E m \in 1..n : t[i] = s[m]
          <5>1. CASE i = k + 1
            BY <2>2, <5>1
          <5>2. CASE i # k + 1
            <6>1. i \in 1..Len(c) /\ t[i] = c[i]
              BY <2>2, <3>2, <5>2
            <6>2. PICK m \in 1..n - 1 : c[i] = s[m]
              BY <3>1, <6>1 DEF LowerIs
            <6> QED
              BY <6>1, <6>2
          <5> QED
            BY <5>1, <5>2
        <4> QED
          BY <4>1
      <3>7. LowerIs(s, t, n)
        BY <2>1, <3>4, <3>5, <3>6 DEF LowerIs
      <3> QED
        BY <2>1, <3>7 DEF t
    <2> QED
      BY <2>3, <2>4
  <1>5. \A n \in 0..N : n \in Good
    <2> HIDE DEF Good
    <2> QED
      BY <1>1, <1>3, <1>4, Upwards
  <1>6. \A n \in 1..N : LowerIs(s, g[n], n)
    <2>1. ASSUME NEW n \in 1..N PROVE LowerIs(s, g[n], n)
      <3>1. n \in Good /\ n # 0
        BY <1>5
      <3> QED
        BY <3>1
    <2> QED
      BY <2>1
  <1> QED
    BY <1>6 DEF N

\* The upper half: behind the lower one it goes down from the last point.
UpperIs(s, low, c, n) ==
  /\ c \in Seq(Points) /\ Len(c) >= Len(low) /\ (n >= 1 => Len(c) >= Len(low) + 1)
  /\ \A i \in 1..Len(low) : c[i] = low[i]
  /\ c[Len(c)] = s[Len(s) - n]
  /\ OneWay(c, Len(low), -1)
  /\ \A i \in Len(low)..Len(c) : \E m \in Len(s) - n..Len(s) : c[i] = s[m]

Back(s) == [i \in 1..Len(s) - 1 |-> s[Len(s) - i]]

LEMMA UpperHalf ==
  ASSUME NEW s \in Seq(Points), Len(s) >= 2, Rising(s), NEW low, LowerIs(s, low, Len(s)),
         NEW g, Chained(g, low, Len(low), Back(s), Len(s) - 1)
  PROVE  \A n \in 0..Len(s) - 1 : UpperIs(s, low, g[n], n)
  <1> DEFINE N == Len(s)
             L == Len(low)
             Good == {n \in 0..N - 1 : UpperIs(s, low, g[n], n)}
  <1>1. N \in Nat /\ N >= 2 /\ (\A i \in 1..N : s[i] \in Points) /\ N - 1 \in Nat
    OBVIOUS
  <1>2. /\ g \in [0..N - 1 -> Seq(Points)] /\ g[0] = low
        /\ \A n \in 1..N - 1 : Grows(g[n - 1], g[n], L, Back(s)[n])
    BY DEF Chained
  <1>r. \A i, j \in 1..N : i < j => PointBefore(s[i], s[j])
    BY DEF Rising
  <1>b. \A n \in 1..N - 1 : Back(s)[n] = s[N - n] /\ N - n \in 1..N
    BY <1>1 DEF Back
  <1>l. low \in Seq(Points) /\ L \in Nat \ {0} /\ low[L] = s[N]
    BY DEF LowerIs
  <1>3. 0 \in Good
    <2>1. OneWay(low, L, -1)
      BY <1>l DEF OneWay
    <2>2. \A i \in L..L : \E m \in N - 0..N : low[i] = s[m]
      <3>1. N \in N - 0..N /\ \A i \in L..L : i = L
        BY <1>1, <1>l
      <3> QED
        BY <1>l, <3>1
    <2>4. N - 0 = N /\ L >= L
      BY <1>1, <1>l
    <2> HIDE DEF N, L
    <2>3. UpperIs(s, low, low, 0)
      BY <1>l, <2>1, <2>2, <2>4 DEF UpperIs, N, L
    <2> QED
      BY <1>1, <1>2, <2>3
  <1> HIDE DEF N, L
  <1>4. ASSUME NEW n \in 1..N - 1, n - 1 \in Good PROVE n \in Good
    <2> DEFINE c == g[n - 1]
               t == g[n]
               p == s[N - n]
    <2>1. c \in Seq(Points) /\ t \in Seq(Points) /\ Grows(c, t, L, p) /\ p \in Points /\ n \in 0..N - 1
      BY <1>1, <1>2, <1>b
    <2>u. UpperIs(s, low, c, n - 1)
      BY <1>4
    <2> HIDE DEF c, t, p
    <2>2. /\ Len(c) \in Nat /\ Len(c) >= L /\ OneWay(c, L, -1)
          /\ \A i \in 1..L : c[i] = low[i]
          /\ \A i \in L..Len(c) : \E m \in N - (n - 1)..N : c[i] = s[m]
      <3>1. Len(c) \in Nat
        BY <2>1
      <3> QED
        BY <2>u, <3>1 DEF UpperIs, N, L
    <2>g. PICK k : Kept(c, t, L, p, k)
      BY <1>l, <2>1, GrowsFacts
    <2>3. /\ k \in 0..Len(c)
          /\ Len(t) = k + 1 /\ t[k + 1] = p /\ \A i \in 1..k : t[i] = c[i]
          /\ IF Len(c) < L THEN k = Len(c) ELSE k >= L
      BY <2>g DEF Kept
    <2>4. k >= L
      BY <1>l, <2>2, <2>3
    <2>5. \A i \in L..Len(c) : Toward(-1, c[i], p)
      <3>1. ASSUME NEW i \in L..Len(c) PROVE Toward(-1, c[i], p)
        <4>1. PICK m \in N - (n - 1)..N : c[i] = s[m]
          BY <2>2
        <4>2. m \in 1..N /\ N - n \in 1..N /\ N - n < m
          BY <1>1
        <4> QED
          BY <1>r, <4>1, <4>2 DEF Toward, p
      <3> QED
        BY <3>1
    <2>6. OneWay(t, L, -1)
      BY <1>l, <2>1, <2>2, <2>5, GrowsOneWay
    <2>7. Len(t) >= L + 1 /\ t[Len(t)] = p /\ \A i \in 1..L : t[i] = low[i]
      <3>1. L \in Nat /\ k \in Nat
        BY <1>l, <2>2, <2>3
      <3>2. Len(t) = k + 1 /\ t[k + 1] = p
        BY <2>3
      <3>3. t[Len(t)] = p
        BY <3>2
      <3>4. Len(t) >= L + 1
        BY <2>4, <3>1, <3>2
      <3>5. \A i \in 1..L : i \in 1..k
        BY <2>4, <3>1
      <3> QED
        BY <2>2, <2>3, <3>5, <3>3, <3>4
    <2>8. \A i \in L..Len(t) : \E m \in N - n..N : t[i] = s[m]
      <3>1. ASSUME NEW i \in L..Len(t) PROVE \E m \in N - n..N : t[i] = s[m]
        <4>1. CASE i = k + 1
          <5>1. N - n \in N - n..N /\ t[i] = s[N - n]
            BY <1>1, <2>3, <4>1 DEF p
          <5> QED
            BY <5>1
        <4>2. CASE i # k + 1
          <5>0. i \in 1..k /\ k <= Len(c) /\ Len(c) \in Nat /\ L <= i
            <6>1. L \in Nat \ {0} /\ i \in L..k + 1
              BY <1>l, <2>3
            <6>2. k \in Nat /\ k <= Len(c) /\ Len(c) \in Nat
              BY <2>2, <2>3
            <6> QED
              BY <4>2, <6>1, <6>2
          <5>1. i \in L..Len(c) /\ t[i] = c[i]
            BY <1>l, <2>3, <5>0
          <5>2. PICK m \in N - (n - 1)..N : c[i] = s[m]
            BY <2>2, <5>1
          <5>3. m \in N - n..N
            BY <1>1
          <5> QED
            BY <5>1, <5>2, <5>3
        <4> QED
          BY <4>1, <4>2
      <3> QED
        BY <3>1
    <2>10. Len(t) >= L
      BY <1>l, <2>3, <2>4
    <2>9. UpperIs(s, low, t, n)
      BY <2>1, <2>6, <2>7, <2>8, <2>10 DEF UpperIs, p, N, L
    <2> QED
      BY <2>1, <2>9 DEF t
  <1>5. \A n \in 0..N - 1 : n \in Good
    <2> HIDE DEF Good
    <2> QED
      BY <1>1, <1>3, <1>4, Upwards
  <1>6. \A n \in 0..N - 1 : UpperIs(s, low, g[n], n)
    BY <1>5
  <1> QED
    BY <1>6 DEF N

LEMMA SmallRemainder ==
  ASSUME NEW m \in Int, NEW i \in Int, 0 <= i, i < m
  PROVE  i % m = i /\ i + 1 \in 1..m
  OBVIOUS

\* The points of a hull are of the sorted points; no two which follow each other are
\* the same.
IsRound(h, s) ==
  /\ h \in Seq(Points) /\ Len(h) >= 2
  /\ \A i \in 1..Len(h) : h[i] # h[(i % Len(h)) + 1]
  /\ \A i \in 1..Len(h) : \E m \in 1..Len(s) : h[i] = s[m]

\* The two halves of a hull.
HullHalves(s, low, around, lower, upper) ==
  /\ Chained(lower, <<>>, 1, s, Len(s)) /\ low = lower[Len(s)]
  /\ Chained(upper, low, Len(low), Back(s), Len(s) - 1) /\ around = upper[Len(s) - 1]
  /\ HullOf(s) = WithoutLast(around)

LEMMA HullIs ==
  ASSUME NEW s \in Seq(Points), Len(s) >= 3
  PROVE  \E low, around, lower, upper : HullHalves(s, low, around, lower, upper)
  <1>1. Len(s) \in Nat /\ Len(s) - 1 \in Nat /\ s \in [1..Len(s) -> Points]
    OBVIOUS
  <1>2. PICK lower : /\ Chained(lower, <<>>, 1, s, Len(s))
                     /\ Chain(<<>>, 1, s, Len(s)) = lower[Len(s)]
    <2>1. <<>> \in Seq(Points) /\ 1 \in Nat \ {0}
      OBVIOUS
    <2> QED
      BY <1>1, <2>1, ChainIs
  <1> DEFINE low == lower[Len(s)]
  <1>3. low \in Seq(Points) /\ Len(low) \in Nat \ {0}
    <2>1. lower \in [0..Len(s) -> Seq(Points)] /\ Grows(lower[Len(s) - 1], low, 1, s[Len(s)])
      BY <1>1, <1>2 DEF Chained
    <2>2. low \in Seq(Points) /\ lower[Len(s) - 1] \in Seq(Points) /\ s[Len(s)] \in Points
      BY <1>1, <2>1
    <2> HIDE DEF low
    <2> DEFINE before == lower[Len(s) - 1]
    <2>3. PICK k : Kept(before, low, 1, s[Len(s)], k)
      <3>1. 1 \in Nat \ {0} /\ before \in Seq(Points) /\ Grows(before, low, 1, s[Len(s)])
        BY <2>1, <2>2
      <3> HIDE DEF before
      <3> QED
        BY <2>2, <3>1, GrowsFacts
    <2>4. k \in 0..Len(before) /\ Len(low) = k + 1
      <3> HIDE DEF before
      <3> QED
        BY <2>3 DEF Kept
    <2> QED
      BY <2>2, <2>4
  <1>4. Back(s) \in [1..Len(s) - 1 -> Points]
    <2>1. \A i \in 1..Len(s) - 1 : s[Len(s) - i] \in Points
      BY <1>1
    <2> QED
      BY <2>1 DEF Back
  <1>5. PICK upper : /\ Chained(upper, low, Len(low), Back(s), Len(s) - 1)
                     /\ Chain(low, Len(low), Back(s), Len(s) - 1) = upper[Len(s) - 1]
    <2> HIDE DEF low
    <2> QED
      BY <1>1, <1>3, <1>4, ChainIs
  <1>6. HullOf(s) = WithoutLast(upper[Len(s) - 1])
    BY <1>2, <1>5 DEF HullOf, Around, Back
  <1> QED
    BY <1>2, <1>5, <1>6 DEF HullHalves

LEMMA HullIsRound ==
  ASSUME NEW s \in Seq(Points), Len(s) >= 3, Rising(s)
  PROVE  IsRound(HullOf(s), s)
  <1>1. PICK low, around, lower, upper : HullHalves(s, low, around, lower, upper)
    BY HullIs
  <1> DEFINE N == Len(s)
             L == Len(low)
             M == Len(around)
             h == HullOf(s)
  <1>2. N \in Nat /\ N >= 3 /\ \A i \in 1..N : s[i] \in Points
    OBVIOUS
  <1>3. LowerIs(s, low, N)
    <2>1. Chained(lower, <<>>, 1, s, N) /\ low = lower[N] /\ N \in 1..N
      BY <1>1, <1>2 DEF HullHalves
    <2> QED
      BY <1>2, <2>1, LowerHalf
  <1>4. UpperIs(s, low, around, N - 1)
    <2>1. /\ Chained(upper, low, Len(low), Back(s), Len(s) - 1) /\ around = upper[N - 1]
          /\ N - 1 \in 0..N - 1
      BY <1>1, <1>2 DEF HullHalves
    <2> QED
      BY <1>2, <1>3, <2>1, UpperHalf
  <1>5. \A i, j \in 1..N : i < j => PointBefore(s[i], s[j])
    BY DEF Rising
  <1>6. /\ low \in Seq(Points) /\ L \in Nat /\ L >= 1 /\ low[1] = s[1] /\ low[L] = s[N]
        /\ \A i, j \in 1..L : i < j => PointBefore(low[i], low[j])
        /\ \A i \in 1..L : \E m \in 1..N : low[i] = s[m]
    BY <1>3 DEF LowerIs, OneWay, Toward
  <1>7. /\ around \in Seq(Points) /\ M \in Nat /\ M >= L + 1 /\ \A i \in 1..L : around[i] = low[i]
        /\ around[M] = s[1]
        /\ \A i, j \in L..M : i < j => PointBefore(around[j], around[i])
        /\ \A i \in L..M : \E m \in 1..N : around[i] = s[m]
    <2>1. N - (N - 1) = 1 /\ N - 1 >= 1
      BY <1>2
    <2> DEFINE last == N - 1
    <2>u. UpperIs(s, low, around, last)
      BY <1>4
    <2>l. last >= 1 /\ N - last = 1
      BY <2>1
    <2> HIDE DEF last
    <2>2. /\ around \in Seq(Points) /\ M >= L + 1 /\ \A i \in 1..L : around[i] = low[i]
          /\ around[M] = s[1]
          /\ OneWay(around, L, -1)
          /\ \A i \in L..M : \E m \in 1..N : around[i] = s[m]
      BY <2>u, <2>l DEF UpperIs
    <2>3. \A i, j \in L..M : i < j => PointBefore(around[j], around[i])
      BY <2>2 DEF OneWay, Toward
    <2>4. M \in Nat
      BY <2>2
    <2> QED
      BY <2>2, <2>3, <2>4
  <1>8. L >= 2
    <2> HIDE DEF L, N
    <2> SUFFICES ASSUME L = 1 PROVE FALSE
      BY <1>6
    <2>1. s[1] = s[N]
      BY <1>6
    <2>2. PointBefore(s[1], s[N]) /\ s[1] \in Points
      BY <1>2, <1>5
    <2> QED
      BY <2>1, <2>2, PointFacts
  <1>9. /\ h \in Seq(Points) /\ Len(h) = M - 1
        /\ \A i \in 1..M - 1 : h[i] = around[i]
    <2>1. h = SubSeq(around, 1, M - 1)
      BY <1>1 DEF HullHalves, WithoutLast
    <2>2. M - 1 \in 0..M
      BY <1>6, <1>7
    <2> HIDE DEF h
    <2> QED
      BY <1>6, <1>7, <2>1, <2>2
  <1> HIDE DEF N, L, M, h
  <1>10. \A i \in 1..M : around[i] \in Points
    BY <1>7 DEF M
  <1>11. ASSUME NEW i \in 1..M - 1 PROVE around[i] # around[i + 1]
    <2>1. i \in 1..M /\ i + 1 \in 1..M /\ around[i] \in Points /\ around[i + 1] \in Points
      BY <1>7, <1>10
    <2>2. PointBefore(around[i], around[i + 1]) \/ PointBefore(around[i + 1], around[i])
      <3>1. CASE i < L
        <4>1. i \in 1..L /\ i + 1 \in 1..L /\ i < i + 1
          BY <1>6, <3>1
        <4> QED
          BY <1>6, <1>7, <4>1
      <3>2. CASE ~(i < L)
        <4>1. i \in L..M /\ i + 1 \in L..M /\ i < i + 1
          BY <1>6, <1>7, <3>2
        <4> QED
          BY <1>7, <4>1
      <3> QED
        BY <3>1, <3>2
    <2> QED
      BY <2>1, <2>2, PointFacts
  <1>12. ASSUME NEW i \in 1..M - 1 PROVE h[i] # h[(i % (M - 1)) + 1]
    <2>1. CASE i < M - 1
      <3>1. i % (M - 1) = i /\ i + 1 \in 1..M - 1
        <4>1. M - 1 \in Int /\ i \in Int /\ 0 <= i /\ i < M - 1
          BY <1>6, <1>7, <2>1
        <4> QED
          BY <4>1, SmallRemainder
      <3> QED
        BY <1>9, <1>11, <3>1
    <2>2. CASE i = M - 1
      <3>1. i % (M - 1) = 0 /\ 1 \in 1..M - 1 /\ i + 1 = M
        BY <1>6, <1>7, <2>2
      <3>2. h[1] = s[1]
        BY <1>6, <1>7, <1>9, <3>1
      <3> QED
        BY <1>7, <1>9, <1>11, <3>1, <3>2
    <2>3. i < M - 1 \/ i = M - 1
      BY <1>7
    <2> QED
      BY <2>1, <2>2, <2>3
  <1>13. ASSUME NEW i \in 1..M - 1 PROVE \E m \in 1..N : h[i] = s[m]
    <2>1. h[i] = around[i] /\ (i \in 1..L \/ i \in L..M)
      <3>1. L \in Nat /\ M \in Nat
        BY <1>6, <1>7
      <3>2. i \in 1..L \/ i \in L..M
        BY <3>1
      <3>3. h[i] = around[i]
        BY <1>9
      <3> QED
        BY <3>2, <3>3
    <2>2. CASE i \in 1..L
      <3>1. around[i] = low[i] /\ \E m \in 1..N : low[i] = s[m]
        BY <1>6, <1>7, <2>2
      <3> QED
        BY <2>1, <3>1
    <2>3. CASE i \in L..M
      <3>1. \E m \in 1..N : around[i] = s[m]
        BY <1>7, <2>3
      <3> QED
        BY <2>1, <3>1
    <2> QED
      BY <2>1, <2>2, <2>3
  <1>14. Len(h) >= 2
    BY <1>6, <1>7, <1>8, <1>9
  <1> QED
    BY <1>9, <1>12, <1>13, <1>14 DEF IsRound, h, N

-----------------------------------------------------------------------------
(* Directions and rectangles *)

Origin == <<0, 0>>
RectangleType ==
  {r \in [d : Points \ {Origin}, minU : Int, maxU : Int, minV : Int, maxV : Int] :
     r.minU <= r.maxU /\ r.minV <= r.maxV}

LEMMA DividedBy ==
  ASSUME NEW x \in Int, NEW n \in Nat \ {0}, x % n = 0
  PROVE  x \div n \in Int /\ x = n * (x \div n)
  OBVIOUS

\* Two points have a direction, of which their difference is a multiple.
LEMMA DirectionIs ==
  ASSUME NEW p \in Points, NEW q \in Points, p # q
  PROVE  /\ Direction(p, q) \in Points \ {Origin}
         /\ \E n \in Nat \ {0} : /\ X(q) - X(p) = n * X(Direction(p, q))
                                 /\ Y(q) - Y(p) = n * Y(Direction(p, q))
  <1> DEFINE dx == X(q) - X(p)
             dy == Y(q) - Y(p)
             B == Absolute(dx) + Absolute(dy)
             S == {n \in 1..B : dx % n = 0 /\ dy % n = 0}
             n == Greatest(S)
             d == <<dx \div n, dy \div n>>
  <1>1. dx \in Int /\ dy \in Int /\ (dx # 0 \/ dy # 0)
    BY PointFacts
  <1>2. Direction(p, q) = d
    BY DEF Direction
  <1> HIDE DEF dx, dy
  <1>3. B \in Nat /\ B >= 1
    BY <1>1 DEF Absolute
  <1> HIDE DEF B
  <1>4. S \in SUBSET Int /\ IsFiniteSet(S)
    <2>1. S \subseteq 1..B /\ IsFiniteSet(1..B)
      BY <1>3, FS_Interval
    <2>2. S \in SUBSET (1..B) /\ \A m \in S : m \in Int
      BY <2>1
    <2> HIDE DEF S
    <2> QED
      BY <2>1, <2>2, FS_Subset
  <1>5. 1 \in S
    BY <1>1, <1>3
  <1>6. n \in S
    <2> HIDE DEF S
    <2> QED
      BY <1>4, <1>5, LeastGreatest
  <1>7. n \in Nat \ {0} /\ dx % n = 0 /\ dy % n = 0
    BY <1>3, <1>6
  <1> HIDE DEF n
  <1>8. /\ dx \div n \in Int /\ dx = n * (dx \div n)
        /\ dy \div n \in Int /\ dy = n * (dy \div n)
    BY <1>1, <1>7, DividedBy
  <1>9. dx \div n # 0 \/ dy \div n # 0
    BY <1>1, <1>7, <1>8
  <1>10. d \in Points \ {Origin} /\ X(d) = dx \div n /\ Y(d) = dy \div n
    BY <1>8, <1>9 DEF Points, Origin, X, Y
  <1> QED
    BY <1>2, <1>7, <1>8, <1>10 DEF dx, dy

LEMMA Product2 ==
  ASSUME NEW m \in Int, NEW n \in Int
  PROVE  m * n \in Int
  OBVIOUS

LEMMA AlongType ==
  ASSUME NEW d \in Points, NEW p \in Points
  PROVE  AlongU(d, p) \in Int /\ AlongV(d, p) \in Int
  <1>1. X(d) \in Int /\ Y(d) \in Int /\ X(p) \in Int /\ Y(p) \in Int
    BY PointFacts
  <1>2. X(p) * X(d) \in Int /\ Y(p) * Y(d) \in Int /\ Y(p) * X(d) \in Int /\ X(p) * Y(d) \in Int
    BY <1>1, Product2
  <1> QED
    BY <1>2 DEF AlongU, AlongV

LEMMA FiniteImage ==
  ASSUME NEW S, IsFiniteSet(S), NEW T, NEW f \in [S -> T], \A t \in T : \E p \in S : f[p] = t
  PROVE  IsFiniteSet(T)
  <1>1. f \in Surjection(S, T)
    BY DEF Surjection
  <1> QED
    BY <1>1, FS_Surjection

\* The rectangle along a direction encloses the points it was made for, and no smaller
\* bounds do.
LEMMA EnclosingIs ==
  ASSUME NEW d \in Points \ {Origin}, NEW S \in SUBSET Points, IsFiniteSet(S), S # {}
  PROVE  /\ Enclosing(d, S) \in RectangleType /\ Enclosing(d, S).d = d
         /\ Encloses(Enclosing(d, S), S)
  <1> DEFINE us == {AlongU(d, p) : p \in S}
             vs == {AlongV(d, p) : p \in S}
             r == Enclosing(d, S)
  <1>1. d \in Points
    OBVIOUS
  <1>2. us \in SUBSET Int /\ IsFiniteSet(us) /\ us # {}
    <2>1. us \in SUBSET Int /\ us # {}
      BY AlongType
    <2>2. IsFiniteSet(us)
      <3> DEFINE f == [p \in S |-> AlongU(d, p)]
      <3>1. f \in [S -> us] /\ \A n \in us : \E p \in S : f[p] = n
        OBVIOUS
      <3> HIDE DEF f, us
      <3> QED
        BY <3>1, FiniteImage
    <2> QED
      BY <2>1, <2>2
  <1>3. vs \in SUBSET Int /\ IsFiniteSet(vs) /\ vs # {}
    <2>1. vs \in SUBSET Int /\ vs # {}
      BY AlongType
    <2>2. IsFiniteSet(vs)
      <3> DEFINE f == [p \in S |-> AlongV(d, p)]
      <3>1. f \in [S -> vs] /\ \A n \in vs : \E p \in S : f[p] = n
        OBVIOUS
      <3> HIDE DEF f, vs
      <3> QED
        BY <3>1, FiniteImage
    <2> QED
      BY <2>1, <2>2
  <1>4. \A p \in S : AlongU(d, p) \in us /\ AlongV(d, p) \in vs
    OBVIOUS
  <1>5. r = [d |-> d, minU |-> Least(us), maxU |-> Greatest(us),
             minV |-> Least(vs), maxV |-> Greatest(vs)]
    BY DEF Enclosing
  <1> HIDE DEF us, vs, r
  <1>6. /\ Least(us) \in us /\ Greatest(us) \in us /\ \A n \in us : Least(us) <= n /\ n <= Greatest(us)
        /\ Least(vs) \in vs /\ Greatest(vs) \in vs /\ \A n \in vs : Least(vs) <= n /\ n <= Greatest(vs)
    BY <1>2, <1>3, LeastGreatest
  <1>7. Least(us) \in Int /\ Greatest(us) \in Int /\ Least(vs) \in Int /\ Greatest(vs) \in Int
    BY <1>2, <1>3, <1>6
  <1>8. Least(us) <= Greatest(us) /\ Least(vs) <= Greatest(vs)
    BY <1>6
  <1>9. r \in RectangleType
    BY <1>5, <1>7, <1>8 DEF RectangleType
  <1>10. Encloses(r, S)
    <2>1. ASSUME NEW p \in S PROVE Inside(r, p)
      <3>1. AlongU(d, p) \in Int /\ AlongV(d, p) \in Int
        BY AlongType
      <3>2. AlongU(d, p) \in Least(us)..Greatest(us) /\ AlongV(d, p) \in Least(vs)..Greatest(vs)
        BY <1>4, <1>6, <1>7, <3>1
      <3> QED
        BY <1>5, <3>2 DEF Inside
    <2> QED
      BY <2>1 DEF Encloses
  <1>11. r.d = d
    BY <1>5
  <1> QED
    BY <1>9, <1>10, <1>11 DEF r

\* The rectangles along the edges of a hull; the smallest is one of them.
EdgeRectangles(hull) ==
  {Enclosing(Direction(hull[i], hull[(i % Len(hull)) + 1]), {hull[j] : j \in DOMAIN hull}) :
     i \in DOMAIN hull}

LEMMA MinimumIs ==
  ASSUME NEW hull, Len(hull) \in Nat \ {0}, DOMAIN hull = 1..Len(hull)
  PROVE  minimum_rectangle(hull) \in EdgeRectangles(hull)
  <1> DEFINE L == Len(hull)
             points == {hull[j] : j \in DOMAIN hull}
             AtEdgeOf(i) == Enclosing(Direction(hull[i], hull[(i % L) + 1]), points)
             V == EdgeRectangles(hull)
             F == [a \in (1..L - 1) \X V |-> SmallerOf(a[2], AtEdgeOf(a[1] + 1))]
             best == CHOOSE f : f = [i \in 1..L |-> IF i = 1 THEN AtEdgeOf(1)
                                                    ELSE SmallerOf(f[i - 1], AtEdgeOf(i))]
  <1>1. L \in Nat /\ L >= 1 /\ DOMAIN hull = 1..L
    OBVIOUS
  <1>2. \A i \in 1..L : AtEdgeOf(i) \in V
    BY <1>1 DEF EdgeRectangles
  <1>3. minimum_rectangle(hull) = best[L]
    BY <1>1 DEF minimum_rectangle
  <1> HIDE DEF L, AtEdgeOf, V
  <1>4. \A r, t \in V : SmallerOf(r, t) \in V
    BY DEF SmallerOf
  <1>5. /\ F \in [(1..L - 1) \X V -> V]
        /\ \A i \in 1..L - 1, r \in V : F[<<i, r>>] = SmallerOf(r, AtEdgeOf(i + 1))
    <2>1. \A i \in 1..L - 1 : i + 1 \in 1..L
      BY <1>1
    <2> QED
      BY <1>2, <1>4, <2>1
  <1> HIDE DEF F
  <1>6. PICK g : Traces(g, L - 1, V, AtEdgeOf(1), F)
    <2> DEFINE M == L - 1
    <2>1. AtEdgeOf(1) \in V /\ M \in Nat
      BY <1>1, <1>2
    <2> HIDE DEF M
    <2>2. Steps(M, V, AtEdgeOf(1), F)
      BY <1>5, <2>1 DEF Steps, M
    <2>3. \E g : Traces(g, M, V, AtEdgeOf(1), F)
      BY <2>2, Recursion
    <2> QED
      BY <2>3 DEF M
  <1>7. /\ g \in [0..L - 1 -> V] /\ g[0] = AtEdgeOf(1)
        /\ \A i \in 1..L - 1 : g[i] = SmallerOf(g[i - 1], AtEdgeOf(i + 1))
    <2>1. /\ g \in [0..L - 1 -> V] /\ g[0] = AtEdgeOf(1)
          /\ \A i \in 1..L - 1 : g[i] = F[<<i, g[i - 1]>>]
      BY <1>6 DEF Traces
    <2>2. \A i \in 1..L - 1 : g[i - 1] \in V
      BY <1>1, <2>1
    <2> QED
      BY <1>5, <2>1, <2>2
  <1> DEFINE h == [i \in 1..L |-> g[i - 1]]
  <1>8. \A i \in 1..L : h[i] = IF i = 1 THEN AtEdgeOf(1) ELSE SmallerOf(h[i - 1], AtEdgeOf(i))
    <2>1. ASSUME NEW i \in 1..L PROVE h[i] = IF i = 1 THEN AtEdgeOf(1) ELSE SmallerOf(h[i - 1], AtEdgeOf(i))
      <3>1. CASE i = 1
        BY <1>1, <1>7, <3>1
      <3>2. CASE i # 1
        <4>1. i - 1 \in 1..L - 1 /\ i - 1 \in 1..L /\ (i - 1) + 1 = i
          BY <1>1, <3>2
        <4>2. g[i - 1] = SmallerOf(g[(i - 1) - 1], AtEdgeOf(i))
          BY <1>7, <4>1
        <4> QED
          BY <3>2, <4>1, <4>2
      <3> QED
        BY <3>1, <3>2
    <2> QED
      BY <2>1
  <1>9. h[L] \in V /\ DOMAIN h = 1..L /\ h = [i \in 1..L |-> h[i]]
    BY <1>1, <1>7
  <1> HIDE DEF h
  <1>10. h = [i \in 1..L |-> IF i = 1 THEN AtEdgeOf(1) ELSE SmallerOf(h[i - 1], AtEdgeOf(i))]
    BY <1>8, <1>9
  <1>11. best = [i \in 1..L |-> IF i = 1 THEN AtEdgeOf(1) ELSE SmallerOf(best[i - 1], AtEdgeOf(i))]
    BY <1>10
  <1> HIDE DEF best
  <1> DEFINE Same == {n \in 0..L : n = 0 \/ best[n] = h[n]}
  <1>12. \A n \in 0..L : n \in Same
    <2>1. 0 \in Same
      BY <1>1
    <2>2. ASSUME NEW n \in 1..L, n - 1 \in Same PROVE n \in Same
      <3>1. CASE n = 1
        BY <1>1, <1>10, <1>11, <3>1
      <3>2. CASE n # 1
        <4>1. n - 1 # 0 /\ n \in 0..L
          BY <1>1, <3>2
        <4>2. best[n - 1] = h[n - 1]
          BY <2>2, <4>1
        <4>3. best[n] = SmallerOf(best[n - 1], AtEdgeOf(n)) /\ h[n] = SmallerOf(h[n - 1], AtEdgeOf(n))
          BY <1>10, <1>11, <3>2
        <4> QED
          BY <4>1, <4>2, <4>3
      <3> QED
        BY <3>1, <3>2
    <2> HIDE DEF Same
    <2> QED
      BY <1>1, <2>1, <2>2, Upwards
  <1>13. best[L] = h[L]
    <2>1. L \in Same /\ L # 0
      BY <1>1, <1>12
    <2> QED
      BY <2>1
  <1> QED
    BY <1>3, <1>9, <1>13 DEF V

\* The smallest rectangle of a hull is one along two of its points, round all of them.
LEMMA RectangleIs ==
  ASSUME NEW s, NEW hull, IsRound(hull, s)
  PROVE  /\ minimum_rectangle(hull) \in RectangleType
         /\ Encloses(minimum_rectangle(hull), {hull[j] : j \in DOMAIN hull})
  <1> DEFINE L == Len(hull)
             points == {hull[j] : j \in DOMAIN hull}
  <1>1. /\ hull \in Seq(Points) /\ L \in Nat /\ L >= 2 /\ DOMAIN hull = 1..L
        /\ \A i \in 1..L : hull[i] # hull[(i % L) + 1]
    BY DEF IsRound
  <1>2. points \in SUBSET Points /\ IsFiniteSet(points) /\ points # {}
    <2>1. points \in SUBSET Points /\ points # {}
      BY <1>1
    <2>2. IsFiniteSet(1..L) /\ hull \in [1..L -> points]
      BY <1>1, FS_Interval
    <2>3. \A p \in points : \E j \in 1..L : hull[j] = p
      BY <1>1
    <2>4. IsFiniteSet(points)
      <3> HIDE DEF points, L
      <3> QED
        BY <2>2, <2>3, FiniteImage
    <2> QED
      BY <2>1, <2>4
  <1>3. PICK i \in 1..L : minimum_rectangle(hull) = Enclosing(Direction(hull[i], hull[(i % L) + 1]), points)
    <2>1. minimum_rectangle(hull) \in EdgeRectangles(hull)
      BY <1>1, MinimumIs
    <2> QED
      BY <1>1, <2>1 DEF EdgeRectangles
  <1>4. (i % L) + 1 \in 1..L
    <2> HIDE DEF L
    <2> QED
      BY <1>1
  <1>5. hull[i] \in Points /\ hull[(i % L) + 1] \in Points /\ hull[i] # hull[(i % L) + 1]
    BY <1>1, <1>4
  <1>6. Direction(hull[i], hull[(i % L) + 1]) \in Points \ {Origin}
    <2> DEFINE p == hull[i]
               q == hull[(i % L) + 1]
    <2>1. p \in Points /\ q \in Points /\ p # q
      BY <1>5
    <2> HIDE DEF p, q
    <2>2. Direction(p, q) \in Points \ {Origin}
      BY <2>1, DirectionIs
    <2> QED
      BY <2>2 DEF p, q
  <1> HIDE DEF points, L
  <1> QED
    BY <1>2, <1>3, <1>6, EnclosingIs DEF points

-----------------------------------------------------------------------------
(* The corners of a box *)

LEMMA SquaresPositive ==
  ASSUME NEW a \in Int, NEW b \in Int, a # 0 \/ b # 0
  PROVE  a * a + b * b \in Nat \ {0}
  BY Z3

LEMMA ProductPositive ==
  ASSUME NEW a \in Int, NEW b \in Int, a > 0, b > 0
  PROVE  a * b \in Int /\ a * b > 0
  BY Z3

LEMMA ProductOf ==
  ASSUME NEW a \in Nat, NEW b \in Nat
  PROVE  a * b \in Nat /\ (a * b > 0 <=> a > 0 /\ b > 0)
  BY Z3

\* A place along two orthogonal directions is unique.
LEMMA Turned0 ==
  ASSUME NEW e \in Int, NEW f \in Int, NEW x \in Int, NEW y \in Int, x # 0 \/ y # 0,
         e * x = f * y, e * y = -(f * x)
  PROVE  e = 0 /\ f = 0
  <1>1. e * (x * x + y * y) = 0
    <2>1. (e * x) * x = (f * y) * x /\ (e * y) * y = (-(f * x)) * y
      OBVIOUS
    <2>2. (f * y) * x = f * (x * y) /\ (-(f * x)) * y = -(f * (x * y))
      BY Z3
    <2>3. e * (x * x + y * y) = (e * x) * x + (e * y) * y
      BY Z3
    <2>4. f * (x * y) \in Int
      OBVIOUS
    <2> QED
      BY <2>1, <2>2, <2>3, <2>4
  <1>2. x * x + y * y \in Nat \ {0}
    BY SquaresPositive
  <1>3. e = 0
    <2> DEFINE n == x * x + y * y
    <2>1. n \in Nat \ {0} /\ e * n = 0
      BY <1>1, <1>2
    <2> HIDE DEF n
    <2> QED
      BY <2>1, Z3
  <1>4. f * y = 0 /\ f * x = 0
    <2>1. f * x \in Int /\ f * y \in Int
      OBVIOUS
    <2> QED
      BY <1>3, <2>1
  <1>5. f = 0
    BY <1>4, Z3
  <1> QED
    BY <1>3, <1>5

\* A point along a direction and across it.
At(d, u, v) == <<u * X(d) - v * Y(d), u * Y(d) + v * X(d)>>

LEMMA AtIs ==
  ASSUME NEW d \in Points \ {Origin}, NEW u \in Int, NEW v \in Int, NEW w \in Int, NEW z \in Int
  PROVE  /\ At(d, u, v) \in Points
         /\ At(d, u, v) = At(d, w, z) => u = w /\ v = z
  <1>1. X(d) \in Int /\ Y(d) \in Int /\ (X(d) # 0 \/ Y(d) # 0)
    <2>1. d \in Points /\ d # Origin
      OBVIOUS
    <2>2. X(d) \in Int /\ Y(d) \in Int /\ d = <<X(d), Y(d)>>
      BY <2>1, PointFacts
    <2> QED
      BY <2>1, <2>2 DEF Origin
  <1> DEFINE x == X(d)
             y == Y(d)
  <1> HIDE DEF x, y
  <1>2. x \in Int /\ y \in Int /\ (x # 0 \/ y # 0)
    BY <1>1 DEF x, y
  <1>3. u * x \in Int /\ v * y \in Int /\ u * y \in Int /\ v * x \in Int
    BY <1>2
  <1>4. At(d, u, v) \in Points
    BY <1>3 DEF At, Points, x, y
  <1>5. ASSUME At(d, u, v) = At(d, w, z) PROVE u = w /\ v = z
    <2>1. u * x - v * y = w * x - z * y /\ u * y + v * x = w * y + z * x
      BY <1>5 DEF At, x, y
    <2>2. /\ (u - w) * x = u * x - w * x /\ (v - z) * y = v * y - z * y
          /\ (u - w) * y = u * y - w * y /\ (v - z) * x = v * x - z * x
      BY <1>2, Z3
    <2>3. w * x \in Int /\ z * y \in Int /\ w * y \in Int /\ z * x \in Int
      BY <1>2
    <2>4. (u - w) * x = (v - z) * y /\ (u - w) * y = -((v - z) * x)
      BY <1>3, <2>1, <2>2, <2>3
    <2>5. u - w = 0 /\ v - z = 0
      <3> DEFINE e == u - w
                 f == v - z
      <3>1. e \in Int /\ f \in Int
        OBVIOUS
      <3>2. e * x = f * y /\ e * y = -(f * x)
        BY <2>4
      <3> HIDE DEF e, f
      <3>3. e = 0 /\ f = 0
        BY <1>2, <3>1, <3>2, Turned0
      <3> QED
        BY <3>3 DEF e, f
    <2> QED
      BY <2>5
  <1> QED
    BY <1>4, <1>5

\* The numbers of a rectangle which has an area.
LEMMA Positive ==
  ASSUME NEW r \in RectangleType, Area(r) > 0
  PROVE  /\ Width(r) \in Int /\ Width(r) > 0 /\ Height(r) \in Int /\ Height(r) > 0
         /\ Scale(r) \in Int /\ Scale(r) > 0 /\ Expansion(r) \in Int /\ Expansion(r) > 0
         /\ Unit(r) \in Int /\ Unit(r) > 0
  <1>1. /\ r.d \in Points \ {Origin} /\ r.minU \in Int /\ r.maxU \in Int /\ r.minV \in Int /\ r.maxV \in Int
        /\ r.minU <= r.maxU /\ r.minV <= r.maxV
    BY DEF RectangleType
  <1>2. Width(r) \in Nat /\ Height(r) \in Nat
    BY <1>1 DEF Width, Height
  <1>3. Width(r) > 0 /\ Height(r) > 0 /\ Area(r) \in Int
    BY <1>2, ProductOf DEF Area
  <1>4. RatioOver \in Int /\ RatioOver > 0 /\ RatioUnder \in Int /\ RatioUnder > 0
    BY DbPostprocessAssumption
  <1>5. Scale(r) \in Int /\ Scale(r) > 0
    <2>1. 2 * RatioUnder \in Int /\ 2 * RatioUnder > 0 /\ Width(r) + Height(r) \in Int /\ Width(r) + Height(r) > 0
      BY <1>2, <1>3, <1>4
    <2> QED
      BY <2>1, ProductPositive DEF Scale
  <1>6. Expansion(r) \in Int /\ Expansion(r) > 0
    BY <1>3, <1>4, ProductPositive DEF Expansion
  <1>7. SquaredLength(r.d) \in Nat \ {0}
    <2>1. X(r.d) \in Int /\ Y(r.d) \in Int /\ (X(r.d) # 0 \/ Y(r.d) # 0)
      BY <1>1, PointFacts DEF Origin
    <2> QED
      BY <2>1, SquaresPositive DEF SquaredLength
  <1>8. Unit(r) \in Int /\ Unit(r) > 0
    <2>1. SquaredLength(r.d) \in Int /\ SquaredLength(r.d) > 0
      BY <1>7
    <2> QED
      BY <1>5, <2>1, ProductPositive DEF Unit
  <1> QED
    BY <1>2, <1>3, <1>5, <1>6, <1>8

LEMMA Widened ==
  ASSUME NEW low \in Int, NEW high \in Int, low < high, NEW scale \in Int, scale > 0,
         NEW by \in Int, by > 0
  PROVE  /\ low * scale - by \in Int /\ high * scale + by \in Int
         /\ low * scale - by < high * scale + by
  <1>1. low * scale \in Int /\ high * scale \in Int
    OBVIOUS
  <1>2. low * scale < high * scale
    BY Z3
  <1> QED
    BY <1>1, <1>2

\* The corners are four points, along two orthogonal directions.
CornersAt(r, u0, u1, v0, v1) ==
  /\ {u0, u1, v0, v1} \subseteq Int /\ u0 < u1 /\ v0 < v1
  /\ Corners(r) = {At(r.d, u0, v0), At(r.d, u1, v0), At(r.d, u1, v1), At(r.d, u0, v1)}

LEMMA CornersIs ==
  ASSUME NEW r \in RectangleType, Area(r) > 0
  PROVE  \E u0, u1, v0, v1 : CornersAt(r, u0, u1, v0, v1)
  <1>1. /\ r.minU \in Int /\ r.maxU \in Int /\ r.minV \in Int /\ r.maxV \in Int
        /\ r.minU < r.maxU /\ r.minV < r.maxV
        /\ Scale(r) \in Int /\ Scale(r) > 0 /\ Expansion(r) \in Int /\ Expansion(r) > 0
    <2>1. r.minU \in Int /\ r.maxU \in Int /\ r.minV \in Int /\ r.maxV \in Int
      BY DEF RectangleType
    <2>2. Width(r) > 0 /\ Height(r) > 0
      BY Positive
    <2> QED
      BY <2>1, <2>2, Positive DEF Width, Height
  <1> DEFINE u0 == r.minU * Scale(r) - Expansion(r)
             u1 == r.maxU * Scale(r) + Expansion(r)
             v0 == r.minV * Scale(r) - Expansion(r)
             v1 == r.maxV * Scale(r) + Expansion(r)
  <1>2. u0 \in Int /\ u1 \in Int /\ u0 < u1 /\ v0 \in Int /\ v1 \in Int /\ v0 < v1
    BY <1>1, Widened
  <1>3. Corners(r) = {At(r.d, u0, v0), At(r.d, u1, v0), At(r.d, u1, v1), At(r.d, u0, v1)}
    BY DEF Corners, At
  <1> HIDE DEF u0, u1, v0, v1
  <1>4. CornersAt(r, u0, u1, v0, v1)
    BY <1>2, <1>3 DEF CornersAt
  <1> QED
    BY <1>4

LEMMA FourPoints ==
  ASSUME NEW a, NEW b, NEW c, NEW e, a # b, a # c, a # e, b # c, b # e, c # e
  PROVE  IsFiniteSet({a, b, c, e}) /\ Cardinality({a, b, c, e}) = 4
  <1>1. IsFiniteSet({}) /\ Cardinality({}) = 0
    BY FS_EmptySet
  <1>2. IsFiniteSet({} \cup {a}) /\ Cardinality({} \cup {a}) = 1
    BY <1>1, FS_AddElement
  <1>3. IsFiniteSet({a} \cup {b}) /\ Cardinality({a} \cup {b}) = 2
    <2>1. {} \cup {a} = {a} /\ b \notin {a}
      OBVIOUS
    <2> QED
      BY <1>2, <2>1, FS_AddElement
  <1>4. IsFiniteSet({a, b} \cup {c}) /\ Cardinality({a, b} \cup {c}) = 3
    <2>1. {a} \cup {b} = {a, b} /\ c \notin {a, b}
      OBVIOUS
    <2> QED
      BY <1>3, <2>1, FS_AddElement
  <1>5. IsFiniteSet({a, b, c} \cup {e}) /\ Cardinality({a, b, c} \cup {e}) = 4
    <2>1. {a, b} \cup {c} = {a, b, c} /\ e \notin {a, b, c}
      OBVIOUS
    <2> QED
      BY <1>4, <2>1, FS_AddElement
  <1>6. {a, b, c} \cup {e} = {a, b, c, e}
    OBVIOUS
  <1> QED
    BY <1>5, <1>6

LEMMA CornersAreFour ==
  ASSUME NEW r \in RectangleType, Area(r) > 0
  PROVE  /\ Corners(r) \in SUBSET Points /\ IsFiniteSet(Corners(r))
         /\ Cardinality(Corners(r)) = 4
  <1>1. PICK u0, u1, v0, v1 : CornersAt(r, u0, u1, v0, v1)
    BY CornersIs
  <1>2. /\ u0 \in Int /\ u1 \in Int /\ v0 \in Int /\ v1 \in Int /\ u0 # u1 /\ v0 # v1
        /\ Corners(r) = {At(r.d, u0, v0), At(r.d, u1, v0), At(r.d, u1, v1), At(r.d, u0, v1)}
    BY <1>1 DEF CornersAt
  <1>3. r.d \in Points \ {Origin}
    BY DEF RectangleType
  <1>4. \A u, w \in {u0, u1}, v, z \in {v0, v1} :
          /\ At(r.d, u, v) \in Points
          /\ At(r.d, u, v) = At(r.d, w, z) => u = w /\ v = z
    BY <1>2, <1>3, AtIs
  <1> DEFINE a == At(r.d, u0, v0)
             b == At(r.d, u1, v0)
             c == At(r.d, u1, v1)
             e == At(r.d, u0, v1)
  <1>5. /\ a # b /\ a # c /\ a # e /\ b # c /\ b # e /\ c # e
        /\ a \in Points /\ b \in Points /\ c \in Points /\ e \in Points
    BY <1>2, <1>4
  <1>6. Corners(r) = {a, b, c, e}
    BY <1>2
  <1> HIDE DEF a, b, c, e
  <1>7. IsFiniteSet({a, b, c, e}) /\ Cardinality({a, b, c, e}) = 4
    BY <1>5, FourPoints
  <1>8. {a, b, c, e} \in SUBSET Points
    BY <1>5
  <1> QED
    BY <1>6, <1>7, <1>8

Quads == [1..4 -> Points]

LEMMA Members ==
  ASSUME NEW T, NEW s \in Seq(T)
  PROVE  \A i \in 1..Len(s) : s[i] \in T
  OBVIOUS

LEMMA QuadType ==
  ASSUME NEW r \in RectangleType, Area(r) > 0
  PROVE  Clockwise(Corners(r)) \in Quads
  <1> DEFINE s == SortedPoints(Corners(r))
  <1>1. Sorted(s, Corners(r))
    BY CornersAreFour, SortedIs
  <1>2. s[1] \in Points /\ s[2] \in Points /\ s[3] \in Points /\ s[4] \in Points
    <2>1. s \in Seq(Corners(r)) /\ Len(s) = Cardinality(Corners(r))
      BY <1>1 DEF Sorted
    <2>2. Len(s) = 4 /\ Corners(r) \in SUBSET Points
      BY <2>1, CornersAreFour
    <2> HIDE DEF s
    <2>3. \A i \in 1..Len(s) : s[i] \in Corners(r)
      BY <2>1, Members
    <2> QED
      BY <2>2, <2>3
  <1>3. Clockwise(Corners(r)) = FromUpperLeft(s)
    BY DEF Clockwise
  <1> HIDE DEF s
  <1>4. /\ Upper(s[1], s[2]) \in Points /\ Upper(s[3], s[4]) \in Points
        /\ Lower(s[3], s[4]) \in Points /\ Lower(s[1], s[2]) \in Points
    BY <1>2 DEF Upper, Lower
  <1>5. FromUpperLeft(s) \in Quads
    BY <1>4 DEF FromUpperLeft, Quads
  <1> QED
    BY <1>3, <1>5

LEMMA ClampIs ==
  ASSUME NEW n \in Int, NEW top \in Nat
  PROVE  Clamp(n, top) \in 0..top
  BY DEF Clamp

\* The last pixel of the source, in units.
LEMMA LastPixel ==
  ASSUME NEW size \in Nat \ {0}, NEW zoom \in Nat \ {0}, NEW unit \in Int, unit > 0
  PROVE  (size * zoom - 1) * unit \in Nat
  <1>1. size * zoom \in Int /\ size * zoom > 0
    BY ProductPositive
  <1>2. size * zoom - 1 \in Nat /\ unit \in Nat
    BY <1>1
  <1> DEFINE n == size * zoom - 1
  <1> HIDE DEF n
  <1>3. n * unit \in Nat
    <2>1. n \in Nat /\ unit \in Nat
      BY <1>2 DEF n
    <2> QED
      BY <2>1, ProductOf
  <1> QED
    BY <1>3 DEF n

\* The box of a rectangle lies in the source, and its corners are of numbers.
LEMMA RestoredIs ==
  ASSUME NEW map, IsMap(map), NEW r \in RectangleType, Area(r) > 0, NEW quad \in Quads
  PROVE  /\ Restored(map, r, quad) \in Quads
         /\ \A i \in 1..4 :
              /\ X(Restored(map, r, quad)[i]) \in 0..(map.width * map.zoom - 1) * Unit(r)
              /\ Y(Restored(map, r, quad)[i]) \in 0..(map.height * map.zoom - 1) * Unit(r)
  <1>1. map.width \in Nat \ {0} /\ map.height \in Nat \ {0} /\ map.zoom \in Nat \ {0}
    BY DEF IsMap
  <1> DEFINE right == (map.width * map.zoom - 1) * Unit(r)
             bottom == (map.height * map.zoom - 1) * Unit(r)
             box == Restored(map, r, quad)
  <1>2. right \in Nat /\ bottom \in Nat
    BY <1>1, Positive, LastPixel
  <1>3. box = [i \in 1..4 |-> <<Clamp(X(quad[i]) * map.zoom, right), Clamp(Y(quad[i]) * map.zoom, bottom)>>]
    BY DEF Restored
  <1> HIDE DEF right, bottom, box
  <1>4. ASSUME NEW i \in 1..4
        PROVE  /\ box[i] \in Points /\ X(box[i]) \in 0..right /\ Y(box[i]) \in 0..bottom
    <2>1. X(quad[i]) \in Int /\ Y(quad[i]) \in Int
      BY PointFacts DEF Quads
    <2>2. X(quad[i]) * map.zoom \in Int /\ Y(quad[i]) * map.zoom \in Int
      BY <1>1, <2>1, Product2
    <2>3. /\ Clamp(X(quad[i]) * map.zoom, right) \in 0..right
          /\ Clamp(Y(quad[i]) * map.zoom, bottom) \in 0..bottom
      BY <1>2, <2>2, ClampIs
    <2>4. box[i] = <<Clamp(X(quad[i]) * map.zoom, right), Clamp(Y(quad[i]) * map.zoom, bottom)>>
      BY <1>3
    <2>5. /\ Clamp(X(quad[i]) * map.zoom, right) \in Int
          /\ Clamp(Y(quad[i]) * map.zoom, bottom) \in Int
      BY <1>2, <2>3
    <2> QED
      BY <2>3, <2>4, <2>5 DEF Points, X, Y
  <1>5. box \in Quads
    BY <1>3, <1>4 DEF Quads
  <1> QED
    BY <1>4, <1>5 DEF box, right, bottom

-----------------------------------------------------------------------------
(* The components of a bitmap *)

LEMMA TouchingBack ==
  ASSUME NEW p \in Points, NEW q \in Points
  PROVE  Touching(p, q) <=> Touching(q, p)
  <1>1. X(p) \in Int /\ Y(p) \in Int /\ X(q) \in Int /\ Y(q) \in Int
    BY PointFacts
  <1> QED
    BY <1>1 DEF Touching

\* No pixel of the bitmap outside the set touches it.
Closed(bitmap, T) == T \subseteq bitmap /\ \A p \in bitmap, q \in T : Touching(p, q) => p \in T

Spread(bitmap, T) == T \cup {p \in bitmap \ T : \E q \in T : Touching(p, q)}

\* The flood fill is the least closed set with its pixel.
LEMMA FloodIs ==
  ASSUME NEW bitmap, IsFiniteSet(bitmap), NEW start \in bitmap
  PROVE  /\ start \in Flood(bitmap, start) /\ Closed(bitmap, Flood(bitmap, start))
         /\ \A T : start \in T /\ Closed(bitmap, T) => Flood(bitmap, start) \subseteq T
  <1> DEFINE N == Cardinality(bitmap)
             V == SUBSET bitmap
             F == [a \in (1..N) \X V |-> Spread(bitmap, a[2])]
             filled == CHOOSE f : f = [n \in 0..N |-> IF n = 0 THEN {start} ELSE Spread(bitmap, f[n - 1])]
  <1>1. N \in Nat
    BY FS_CardinalityType
  <1>2. Flood(bitmap, start) = filled[N]
    BY DEF Flood, Spread
  <1>3. /\ F \in [(1..N) \X V -> V]
        /\ \A n \in 1..N, T \in V : F[<<n, T>>] = Spread(bitmap, T)
    BY DEF Spread
  <1> HIDE DEF F
  <1>4. PICK g : Traces(g, N, V, {start}, F)
    <2>1. Steps(N, V, {start}, F)
      BY <1>1, <1>3 DEF Steps
    <2> HIDE DEF N, V
    <2> QED
      BY <2>1, Recursion
  <1> HIDE DEF N
  <1>5. /\ g \in [0..N -> V] /\ g[0] = {start}
        /\ \A n \in 1..N : g[n] = Spread(bitmap, g[n - 1])
    <2>1. /\ g \in [0..N -> V] /\ g[0] = {start}
          /\ \A n \in 1..N : g[n] = F[<<n, g[n - 1]>>]
      BY <1>4 DEF Traces
    <2>2. \A n \in 1..N : g[n - 1] \in V
      BY <1>1, <2>1
    <2> HIDE DEF V
    <2> QED
      BY <1>3, <2>1, <2>2
  <1>6. g = [n \in 0..N |-> IF n = 0 THEN {start} ELSE Spread(bitmap, g[n - 1])]
    <2> HIDE DEF V
    <2> QED
      BY <1>1, <1>5
  <1>7. filled = [n \in 0..N |-> IF n = 0 THEN {start} ELSE Spread(bitmap, filled[n - 1])]
    BY <1>6
  <1> HIDE DEF filled
  <1> DEFINE Same == {n \in 0..N : filled[n] = g[n]}
  <1>8. N \in Same
    <2>1. 0 \in Same
      BY <1>1, <1>5, <1>7
    <2>2. ASSUME NEW n \in 1..N, n - 1 \in Same PROVE n \in Same
      <3>1. n \in 0..N /\ n # 0
        BY <1>1
      <3> QED
        BY <1>5, <1>7, <2>2, <3>1
    <2> HIDE DEF Same
    <2> QED
      BY <1>1, <2>1, <2>2, Upwards
  <1>9. ASSUME NEW T, start \in T, Closed(bitmap, T)
        PROVE  g[N] \subseteq T
    <2> DEFINE Good == {n \in 0..N : g[n] \subseteq T}
    <2>1. 0 \in Good
      BY <1>1, <1>5, <1>9
    <2>2. ASSUME NEW n \in 1..N, n - 1 \in Good PROVE n \in Good
      <3>1. n \in 0..N /\ g[n] = Spread(bitmap, g[n - 1]) /\ g[n - 1] \subseteq T
        BY <1>1, <1>5, <2>2
      <3>2. Spread(bitmap, g[n - 1]) \subseteq T
        BY <1>9, <3>1 DEF Spread, Closed
      <3> QED
        BY <3>1, <3>2
    <2> HIDE DEF Good
    <2>3. N \in Good
      BY <1>1, <2>1, <2>2, Upwards
    <2> QED
      BY <2>3 DEF Good
  <1> DEFINE Far == {n \in 0..N : Closed(bitmap, g[n]) \/ Cardinality(g[n]) >= n + 1}
  <1>10. N \in Far
    <2>1. 0 \in Far
      <3>1. Cardinality(g[0]) = 1
        BY <1>5, FS_Singleton
      <3> QED
        BY <1>1, <3>1
    <2>2. ASSUME NEW n \in 1..N, n - 1 \in Far PROVE n \in Far
      <3> DEFINE B == g[n - 1]
                 A == g[n]
      <3>1. n \in 0..N /\ A = Spread(bitmap, B) /\ B \subseteq bitmap /\ A \subseteq bitmap
        BY <1>1, <1>5
      <3>2. Closed(bitmap, B) \/ Cardinality(B) >= n
        BY <1>1, <2>2
      <3>3. IsFiniteSet(A) /\ IsFiniteSet(B) /\ Cardinality(A) \in Nat /\ Cardinality(B) \in Nat
        <4> HIDE DEF A, B
        <4> QED
          BY <3>1, FS_Subset, FS_CardinalityType
      <3> HIDE DEF A, B
      <3>4. CASE Closed(bitmap, B)
        <4>1. A = B
          BY <3>1, <3>4 DEF Closed, Spread
        <4> QED
          BY <3>1, <3>4, <4>1 DEF A
      <3>5. CASE ~Closed(bitmap, B)
        <4>1. PICK p \in bitmap : p \notin B /\ \E q \in B : Touching(p, q)
          BY <3>1, <3>5 DEF Closed
        <4>2. B \cup {p} \in SUBSET A
          BY <3>1, <4>1 DEF Spread
        <4>3. Cardinality(B \cup {p}) = Cardinality(B) + 1
          BY <3>3, <4>1, FS_AddElement
        <4>4. Cardinality(B \cup {p}) <= Cardinality(A)
          BY <3>3, <4>2, FS_Subset
        <4>5. Cardinality(A) >= n + 1
          BY <1>1, <3>2, <3>3, <3>5, <4>3, <4>4
        <4> QED
          BY <3>1, <4>5 DEF A
      <3> QED
        BY <3>4, <3>5
    <2> HIDE DEF Far
    <2> QED
      BY <1>1, <2>1, <2>2, Upwards
  <1>11. g[N] \subseteq bitmap
    BY <1>1, <1>5
  <1>12. Closed(bitmap, g[N])
    <2> SUFFICES ASSUME ~Closed(bitmap, g[N]) PROVE FALSE
      OBVIOUS
    <2>1. Cardinality(g[N]) >= N + 1
      BY <1>10
    <2>2. Cardinality(g[N]) <= N
      BY <1>11, FS_Subset DEF N
    <2>3. Cardinality(g[N]) \in Nat
      BY <1>11, FS_Subset, FS_CardinalityType
    <2> QED
      BY <1>1, <2>1, <2>2, <2>3
  <1>13. start \in g[N]
    <2> DEFINE Good == {n \in 0..N : start \in g[n]}
    <2>1. 0 \in Good
      BY <1>1, <1>5
    <2>2. ASSUME NEW n \in 1..N, n - 1 \in Good PROVE n \in Good
      BY <1>1, <1>5, <2>2 DEF Spread
    <2> HIDE DEF Good
    <2>3. N \in Good
      BY <1>1, <2>1, <2>2, Upwards
    <2> QED
      BY <2>3 DEF Good
  <1>14. Flood(bitmap, start) = g[N]
    BY <1>2, <1>8
  <1> QED
    BY <1>9, <1>12, <1>13, <1>14

\* The rest of the bitmap outside a closed set is closed as well.
LEMMA RestClosed ==
  ASSUME NEW bitmap \in SUBSET Points, NEW T, Closed(bitmap, T), NEW U, Closed(bitmap, U)
  PROVE  Closed(bitmap, U \ T)
  <1>1. \A p \in bitmap, q \in bitmap : Touching(p, q) <=> Touching(q, p)
    BY TouchingBack
  <1> QED
    BY <1>1 DEF Closed

\* What a flood fill finds is a component.
LEMMA FloodIsComponent ==
  ASSUME NEW bitmap \in SUBSET Points, IsFiniteSet(bitmap), NEW start \in bitmap
  PROVE  IsComponent(bitmap, Flood(bitmap, start))
  <1> DEFINE region == Flood(bitmap, start)
  <1>1. /\ start \in region /\ Closed(bitmap, region)
        /\ \A T : start \in T /\ Closed(bitmap, T) => region \subseteq T
    BY FloodIs
  <1> HIDE DEF region
  <1>2. region \subseteq bitmap /\ region \in SUBSET Points /\ IsFiniteSet(region)
    <2>1. region \in SUBSET bitmap
      BY <1>1 DEF Closed
    <2> QED
      BY <2>1, FS_Subset
  <1>3. \A p \in bitmap \ region : \A q \in region : ~Touching(p, q)
    BY <1>1 DEF Closed
  <1>4. ASSUME NEW p \in region PROVE Flood(region, p) = region
    <2> DEFINE T == Flood(region, p)
    <2>1. p \in T /\ Closed(region, T)
      BY <1>2, FloodIs
    <2> HIDE DEF T
    <2>2. Closed(bitmap, T)
      BY <1>1, <2>1 DEF Closed
    <2>3. start \in T
      <3> SUFFICES ASSUME start \notin T PROVE FALSE
        OBVIOUS
      <3>1. Closed(bitmap, region \ T)
        BY <1>1, <2>2, RestClosed
      <3>2. region \subseteq region \ T
        BY <1>1, <3>1
      <3> QED
        BY <2>1, <3>2
    <2>4. region \subseteq T
      BY <1>1, <2>2, <2>3
    <2> QED
      BY <2>1, <2>4 DEF T, Closed
  <1>5. IsComponent(bitmap, region)
    BY <1>2, <1>3, <1>4 DEF IsComponent
  <1> QED
    BY <1>5 DEF region

LEMMA FirstInRasterIs ==
  ASSUME NEW S \in SUBSET Points, IsFiniteSet(S), S # {}
  PROVE  FirstInRaster(S) \in S
  <1> DEFINE Before(p, q) == Y(p) < Y(q) \/ (Y(p) = Y(q) /\ X(p) <= X(q))
             R == {a \in Points \X Points : Before(a[1], a[2])}
  <1>1. \A p, q \in S : <<p, q>> \in R <=> Before(p, q)
    OBVIOUS
  <1> HIDE DEF R
  <1>2. \A p \in S : X(p) \in Int /\ Y(p) \in Int
    BY PointFacts
  <1>3. Ranks(R, S)
    BY <1>1, <1>2 DEF Ranks
  <1>4. PICK p \in S : \A q \in S : q # p => <<p, q>> \in R
    BY <1>3, FirstExists
  <1>5. \A q \in S : Before(p, q)
    <2>1. ASSUME NEW q \in S PROVE Before(p, q)
      <3>1. CASE q = p
        BY <1>2, <3>1
      <3>2. CASE q # p
        BY <1>1, <1>4, <3>2
      <3> QED
        BY <3>1, <3>2
    <2> QED
      BY <2>1
  <1> QED
    BY <1>5 DEF FirstInRaster

\* Regions of a bitmap, each filled from a pixel of its own, no two with a common one.
Regions(bitmap, s) ==
  /\ s \in Seq(SUBSET bitmap)
  /\ \A i \in 1..Len(s) : \E p \in bitmap : s[i] = Flood(bitmap, p)
  /\ \A i, j \in 1..Len(s) : i # j => s[i] \cap s[j] = {}

Unseen(bitmap, s) == bitmap \ UNION {s[i] : i \in DOMAIN s}

LEMMA RegionFound ==
  ASSUME NEW bitmap \in SUBSET Points, IsFiniteSet(bitmap), NEW s, Regions(bitmap, s),
         Unseen(bitmap, s) # {}
  PROVE  Regions(bitmap, Append(s, Flood(bitmap, FirstInRaster(Unseen(bitmap, s)))))
  <1> DEFINE unseen == Unseen(bitmap, s)
             p == FirstInRaster(unseen)
             region == Flood(bitmap, p)
             t == Append(s, region)
  <1>1. unseen \in SUBSET bitmap /\ unseen \in SUBSET Points /\ IsFiniteSet(unseen)
    <2>1. unseen \in SUBSET bitmap
      BY DEF Unseen
    <2> HIDE DEF unseen
    <2> QED
      BY <2>1, FS_Subset
  <1>2. p \in unseen /\ p \in bitmap
    <2> HIDE DEF unseen
    <2> QED
      BY <1>1, FirstInRasterIs DEF unseen
  <1>3. s \in Seq(SUBSET bitmap) /\ Len(s) \in Nat /\ DOMAIN s = 1..Len(s)
    BY DEF Regions
  <1>4. \A i \in 1..Len(s) : Closed(bitmap, s[i])
    BY FloodIs DEF Regions
  <1>5. Closed(bitmap, unseen)
    <2>1. \A a \in bitmap, b \in bitmap : Touching(a, b) <=> Touching(b, a)
      BY TouchingBack
    <2>2. ASSUME NEW a \in bitmap, NEW b \in unseen, Touching(a, b) PROVE a \in unseen
      <3>1. b \in bitmap /\ \A i \in 1..Len(s) : b \notin s[i]
        BY <1>3 DEF Unseen
      <3>2. \A i \in 1..Len(s) : a \notin s[i]
        BY <1>4, <2>1, <2>2, <3>1 DEF Closed
      <3> QED
        BY <1>3, <3>2 DEF Unseen
    <2> HIDE DEF unseen
    <2> QED
      BY <1>1, <2>2 DEF Closed
  <1> HIDE DEF unseen, p
  <1>6. region \subseteq unseen /\ region \subseteq bitmap
    BY <1>1, <1>2, <1>5, FloodIs
  <1>7. \A i \in 1..Len(s) : s[i] \cap region = {}
    BY <1>3, <1>6 DEF unseen, Unseen
  <1>8. \E a \in bitmap : region = Flood(bitmap, a)
    BY <1>2
  <1> HIDE DEF region
  <1>9. /\ t \in Seq(SUBSET bitmap) /\ Len(t) = Len(s) + 1 /\ t[Len(s) + 1] = region
        /\ \A i \in 1..Len(s) : t[i] = s[i]
    BY <1>3, <1>6
  <1>10. \A i \in 1..Len(t) : i = Len(s) + 1 \/ i \in 1..Len(s)
    BY <1>3, <1>9
  <1> HIDE DEF t
  <1>11. \A i \in 1..Len(t) : \E a \in bitmap : t[i] = Flood(bitmap, a)
    BY <1>8, <1>9, <1>10 DEF Regions
  <1>12. \A i, j \in 1..Len(t) : i # j => t[i] \cap t[j] = {}
    <2>1. ASSUME NEW i \in 1..Len(t), NEW j \in 1..Len(t), i # j PROVE t[i] \cap t[j] = {}
      <3>1. CASE i \in 1..Len(s) /\ j \in 1..Len(s)
        BY <1>9, <2>1, <3>1 DEF Regions
      <3>2. CASE i = Len(s) + 1 /\ j \in 1..Len(s)
        BY <1>7, <1>9, <3>2
      <3>3. CASE i \in 1..Len(s) /\ j = Len(s) + 1
        BY <1>7, <1>9, <3>3
      <3> QED
        BY <1>10, <2>1, <3>1, <3>2, <3>3
    <2> QED
      BY <2>1
  <1>13. Regions(bitmap, t)
    BY <1>9, <1>11, <1>12 DEF Regions
  <1> QED
    BY <1>13 DEF t, region, p, unseen

LEMMA ComponentsAre ==
  ASSUME NEW bitmap \in SUBSET Points, IsFiniteSet(bitmap)
  PROVE  Regions(bitmap, Components(bitmap))
  <1> DEFINE M == MaxCandidates
             V == {s \in Seq(SUBSET bitmap) : Regions(bitmap, s)}
             Next2(s) == IF Unseen(bitmap, s) = {} THEN s
                         ELSE Append(s, Flood(bitmap, FirstInRaster(Unseen(bitmap, s))))
             F == [a \in (1..M) \X V |-> Next2(a[2])]
             found == CHOOSE f : f = [n \in 0..M |-> IF n = 0 THEN <<>> ELSE Next2(f[n - 1])]
  <1>1. M \in Nat
    BY DbPostprocessAssumption
  <1>2. Components(bitmap) = found[M]
    BY DEF Components, Unseen
  <1>3. \A s \in V : Next2(s) \in V
    <2>1. ASSUME NEW s \in V PROVE Next2(s) \in V
      <3>1. Regions(bitmap, s) /\ \A t : Regions(bitmap, t) => t \in V
        BY DEF Regions
      <3>2. CASE Unseen(bitmap, s) = {}
        BY <3>2
      <3>3. CASE Unseen(bitmap, s) # {}
        <4>1. Regions(bitmap, Append(s, Flood(bitmap, FirstInRaster(Unseen(bitmap, s)))))
          BY <3>1, <3>3, RegionFound
        <4> HIDE DEF V
        <4> QED
          BY <3>1, <3>3, <4>1
      <3> QED
        BY <3>2, <3>3
    <2> QED
      BY <2>1
  <1>4. <<>> \in V
    BY DEF Regions
  <1> HIDE DEF V, Next2, M
  <1>5. F \in [(1..M) \X V -> V] /\ \A n \in 1..M, s \in V : F[<<n, s>>] = Next2(s)
    BY <1>3
  <1> HIDE DEF F
  <1>6. PICK g : Traces(g, M, V, <<>>, F)
    <2>1. Steps(M, V, <<>>, F)
      BY <1>1, <1>4, <1>5 DEF Steps
    <2> QED
      BY <2>1, Recursion
  <1>7. g \in [0..M -> V] /\ g[0] = <<>> /\ \A n \in 1..M : g[n] = Next2(g[n - 1])
    <2>1. g \in [0..M -> V] /\ g[0] = <<>> /\ \A n \in 1..M : g[n] = F[<<n, g[n - 1]>>]
      BY <1>6 DEF Traces
    <2>2. \A n \in 1..M : g[n - 1] \in V
      BY <1>1, <2>1
    <2> QED
      BY <1>5, <2>1, <2>2
  <1>8. g = [n \in 0..M |-> IF n = 0 THEN <<>> ELSE Next2(g[n - 1])]
    BY <1>1, <1>7
  <1>9. found = [n \in 0..M |-> IF n = 0 THEN <<>> ELSE Next2(found[n - 1])]
    BY <1>8
  <1> HIDE DEF found
  <1> DEFINE Same == {n \in 0..M : found[n] = g[n]}
  <1>10. M \in Same
    <2>1. 0 \in Same
      BY <1>1, <1>7, <1>9
    <2>2. ASSUME NEW n \in 1..M, n - 1 \in Same PROVE n \in Same
      <3>1. n \in 0..M /\ n # 0
        BY <1>1
      <3> QED
        BY <1>7, <1>9, <2>2, <3>1
    <2> HIDE DEF Same
    <2> QED
      BY <1>1, <2>1, <2>2, Upwards
  <1>11. g[M] \in V
    BY <1>1, <1>7
  <1> QED
    BY <1>2, <1>10, <1>11 DEF V

-----------------------------------------------------------------------------
(* The boxes *)

LEMMA BitmapType ==
  ASSUME NEW map, IsMap(map)
  PROVE  /\ Pixels(map) \in SUBSET Points /\ IsFiniteSet(Pixels(map))
         /\ Bitmap(map) \in SUBSET Pixels(map) /\ Bitmap(map) \in SUBSET Points
         /\ IsFiniteSet(Bitmap(map))
  <1>1. map.width \in Nat /\ map.height \in Nat
    BY DEF IsMap
  <1>2. Pixels(map) = (0..map.width - 1) \X (0..map.height - 1)
    BY DEF Pixels
  <1>3. IsFiniteSet(Pixels(map))
    <2> DEFINE A == 0..map.width - 1
               B == 0..map.height - 1
    <2>1. IsFiniteSet(A) /\ IsFiniteSet(B)
      <3>1. map.width - 1 \in Int /\ map.height - 1 \in Int /\ 0 \in Int
        BY <1>1
      <3> QED
        BY <3>1, FS_Interval
    <2> HIDE DEF A, B
    <2>2. IsFiniteSet(A \X B)
      BY <2>1, FS_Product
    <2> QED
      BY <1>2, <2>2 DEF A, B
  <1>4. Pixels(map) \in SUBSET Points
    BY <1>1, <1>2 DEF Points
  <1>5. Bitmap(map) \in SUBSET Pixels(map)
    BY DEF Bitmap, Dilated, Foreground
  <1>6. IsFiniteSet(Bitmap(map))
    BY <1>3, <1>5, FS_Subset
  <1> QED
    BY <1>3, <1>4, <1>5, <1>6

\* The box of a region: its rectangle is the smallest of the hull of its boundary.
Kernel(map, bitmap, region) == SortedPoints(Boundary(map, bitmap, region))

BoxFor(map, bitmap, region, box) ==
  LET s == Kernel(map, bitmap, region)
      r == minimum_rectangle(HullOf(s))
      quad == Clockwise(Corners(r))
  IN /\ Sorted(s, Boundary(map, bitmap, region)) /\ Len(s) >= 3 /\ IsRound(HullOf(s), s)
     /\ r \in RectangleType /\ Area(r) > 0 /\ quad \in Quads
     /\ box = [region |-> region, rectangle |-> r, quad |-> quad, corners |-> Restored(map, r, quad)]

LEMMA SortedRises ==
  ASSUME NEW S \in SUBSET Points, NEW s, Sorted(s, S)
  PROVE  s \in Seq(Points) /\ Rising(s)
  <1>1. s \in Seq(S) /\ \A i, j \in 1..Len(s) : i < j => PointBefore(s[i], s[j])
    BY DEF Sorted
  <1>2. s \in Seq(Points)
    BY <1>1
  <1> QED
    BY <1>1, <1>2 DEF Rising

LEMMA BoxOfIs ==
  ASSUME NEW map, IsMap(map), NEW bitmap, NEW region \in SUBSET Points, IsFiniteSet(region)
  PROVE  \/ BoxOf(map, bitmap, region) = <<>>
         \/ \E box : BoxOf(map, bitmap, region) = <<box>> /\ BoxFor(map, bitmap, region, box)
  <1> DEFINE B == Boundary(map, bitmap, region)
             s == Kernel(map, bitmap, region)
             hull == HullOf(s)
             r == minimum_rectangle(hull)
             quad == Clockwise(Corners(r))
             corners == Restored(map, r, quad)
             box == [region |-> region, rectangle |-> r, quad |-> quad, corners |-> corners]
  <1>1. B \in SUBSET Points /\ IsFiniteSet(B)
    <2>1. B \in SUBSET region
      BY DEF Boundary
    <2> HIDE DEF B
    <2> QED
      BY <2>1, FS_Subset
  <1>2. Sorted(s, B)
    <2> HIDE DEF B
    <2>1. Sorted(SortedPoints(B), B)
      BY <1>1, SortedIs
    <2> QED
      BY <2>1 DEF Kernel, B
  <1>3. BoxOf(map, bitmap, region) =
          IF Len(hull) < 3 THEN <<>>
          ELSE IF Area(r) > 0 /\ BigEnough(r) /\ ScoreSuffices(map, r)
               THEN QuadBox(region, r, quad, corners) ELSE <<>>
    BY DEF BoxOf, HullBox, RectangleBox, convex_hull, Kernel
  <1>4. QuadBox(region, r, quad, corners) = <<box>> \/ QuadBox(region, r, quad, corners) = <<>>
    BY DEF QuadBox
  <1>5. CASE Len(hull) < 3 \/ ~(Area(r) > 0)
    BY <1>3, <1>5
  <1>6. CASE ~(Len(hull) < 3) /\ Area(r) > 0
    <2>1. Len(s) >= 3
      <3> SUFFICES ASSUME Len(s) < 3 PROVE FALSE
        <4>1. Len(s) \in Nat
          BY <1>2 DEF Sorted
        <4> QED
          BY <4>1
      <3>1. HullOf(s) = <<>>
        BY DEF HullOf
      <3> QED
        BY <1>6, <3>1
    <2>2. IsRound(HullOf(s), s)
      BY <1>1, <1>2, <2>1, SortedRises, HullIsRound
    <2>3. r \in RectangleType
      BY <2>2, RectangleIs
    <2>4. quad \in Quads
      BY <1>6, <2>3, QuadType
    <2>5. BoxFor(map, bitmap, region, box)
      BY <1>2, <1>6, <2>1, <2>2, <2>3, <2>4 DEF BoxFor
    <2> HIDE DEF box, r, quad, corners, hull
    <2> QED
      BY <1>3, <1>4, <2>5
  <1> QED
    BY <1>5, <1>6

\* The boxes of the first n regions of a list.
BoxList(map, bitmap, c, n, s) ==
  /\ Len(s) \in Nat /\ DOMAIN s = 1..Len(s)
  /\ \A i \in 1..Len(s) : \E k \in 1..n : BoxFor(map, bitmap, c[k], s[i])
  /\ \A i, j \in 1..Len(s) : s[i].region = s[j].region => i = j

LEMMA BoxListGrows ==
  ASSUME NEW map, NEW bitmap, NEW c, NEW n \in Nat, NEW V, NEW s \in Seq(V), NEW box \in V,
         BoxList(map, bitmap, c, n, s), BoxFor(map, bitmap, c[n + 1], box),
         \A k \in 1..n : c[k] # c[n + 1]
  PROVE  BoxList(map, bitmap, c, n + 1, s \o <<box>>)
  <1> DEFINE t == s \o <<box>>
  <1>1. /\ Len(s) \in Nat /\ Len(t) = Len(s) + 1 /\ DOMAIN t = 1..Len(t) /\ t[Len(s) + 1] = box
        /\ \A i \in 1..Len(s) : t[i] = s[i]
    OBVIOUS
  <1>2. \A i \in 1..Len(t) : i = Len(s) + 1 \/ i \in 1..Len(s)
    BY <1>1
  <1> HIDE DEF t
  <1>3. \A k, region, b : BoxFor(map, bitmap, region, b) => b.region = region
    BY DEF BoxFor
  <1>4. \A i \in 1..Len(t) : \E k \in 1..n + 1 : BoxFor(map, bitmap, c[k], t[i])
    <2>1. ASSUME NEW i \in 1..Len(t) PROVE \E k \in 1..n + 1 : BoxFor(map, bitmap, c[k], t[i])
      <3>1. CASE i = Len(s) + 1
        <4>1. n + 1 \in 1..n + 1
          OBVIOUS
        <4> QED
          BY <1>1, <3>1, <4>1
      <3>2. CASE i \in 1..Len(s)
        <4>1. PICK k \in 1..n : BoxFor(map, bitmap, c[k], s[i])
          BY <3>2 DEF BoxList
        <4>2. k \in 1..n + 1
          OBVIOUS
        <4> QED
          BY <1>1, <3>2, <4>1, <4>2
      <3> QED
        BY <1>2, <3>1, <3>2
    <2> QED
      BY <2>1
  <1>5. box.region = c[n + 1] /\ \A i \in 1..Len(s) : s[i].region # c[n + 1]
    BY <1>3 DEF BoxList
  <1>6. \A i, j \in 1..Len(t) : t[i].region = t[j].region => i = j
    <2>1. ASSUME NEW i \in 1..Len(t), NEW j \in 1..Len(t), t[i].region = t[j].region PROVE i = j
      <3>1. CASE i \in 1..Len(s) /\ j \in 1..Len(s)
        BY <1>1, <2>1, <3>1 DEF BoxList
      <3>2. CASE i = Len(s) + 1 /\ j \in 1..Len(s)
        BY <1>1, <1>5, <2>1, <3>2
      <3>3. CASE i \in 1..Len(s) /\ j = Len(s) + 1
        BY <1>1, <1>5, <2>1, <3>3
      <3> QED
        BY <1>2, <3>1, <3>2, <3>3
    <2> QED
      BY <2>1
  <1>7. BoxList(map, bitmap, c, n + 1, t)
    BY <1>1, <1>4, <1>6 DEF BoxList
  <1> QED
    BY <1>7 DEF t

\* Every box is that of a region, and no region has two.
LEMMA BoxesAre ==
  ASSUME NEW map, IsMap(map)
  PROVE  LET c == Components(Bitmap(map))
         IN  BoxList(map, Bitmap(map), c, Len(c), lw_db_postprocess_f32(map))
  <1> DEFINE bitmap == Bitmap(map)
             c == Components(bitmap)
             N == Len(c)
             One(n) == BoxOf(map, bitmap, c[n])
             B == {One(n)[1] : n \in 1..N}
             V == Seq(B)
             F == [a \in (1..N) \X V |-> a[2] \o One(a[1])]
             boxes == CHOOSE f : f = [n \in 0..N |-> IF n = 0 THEN <<>> ELSE f[n - 1] \o One(n)]
  <1>1. bitmap \in SUBSET Points /\ IsFiniteSet(bitmap)
    BY BitmapType
  <1>2. Regions(bitmap, c)
    <2> HIDE DEF bitmap
    <2> QED
      BY <1>1, ComponentsAre
  <1>3. N \in Nat /\ c \in Seq(SUBSET bitmap)
    BY <1>2 DEF Regions
  <1>4. lw_db_postprocess_f32(map) = boxes[N]
    BY DEF lw_db_postprocess_f32, BoxesOf
  <1> HIDE DEF bitmap, c
  <1>5. ASSUME NEW n \in 1..N
        PROVE  \/ One(n) = <<>>
               \/ \E box \in B : One(n) = <<box>> /\ BoxFor(map, bitmap, c[n], box)
    <2>1. c[n] \in SUBSET bitmap
      BY <1>3
    <2>2. c[n] \in SUBSET Points /\ IsFiniteSet(c[n])
      BY <1>1, <2>1, FS_Subset
    <2>3. CASE One(n) = <<>>
      BY <2>3
    <2>4. CASE One(n) # <<>>
      <3>1. PICK box : One(n) = <<box>> /\ BoxFor(map, bitmap, c[n], box)
        BY <2>2, <2>4, BoxOfIs
      <3>2. One(n)[1] = box
        BY <3>1
      <3>3. box \in B
        BY <3>2
      <3> QED
        BY <3>1, <3>3
    <2> QED
      BY <2>3, <2>4
  <1>6. \A i, j \in 1..N : i # j => c[i] # c[j]
    <2>1. \A i \in 1..N : c[i] # {}
      BY <1>1, <1>2, FloodIs DEF Regions
    <2> QED
      BY <1>2, <2>1 DEF Regions
  <1> HIDE DEF N, One, B
  <1>7. <<>> \in V /\ \A n \in 1..N, s \in V : s \o One(n) \in V
    <2>1. ASSUME NEW n \in 1..N, NEW s \in V PROVE s \o One(n) \in V
      <3>1. CASE One(n) = <<>>
        BY <3>1
      <3>2. CASE One(n) # <<>>
        <4>1. PICK box \in B : One(n) = <<box>>
          BY <1>5, <3>2
        <4>2. One(n) \in Seq(B)
          BY <4>1
        <4> QED
          BY <4>2
      <3> QED
        BY <3>1, <3>2
    <2> QED
      BY <2>1
  <1>8. F \in [(1..N) \X V -> V] /\ \A n \in 1..N, s \in V : F[<<n, s>>] = s \o One(n)
    BY <1>7
  <1> HIDE DEF F
  <1>9. PICK g : Traces(g, N, V, <<>>, F)
    <2>1. Steps(N, V, <<>>, F)
      BY <1>3, <1>7, <1>8 DEF Steps, N
    <2> HIDE DEF V
    <2> QED
      BY <2>1, Recursion
  <1>10. g \in [0..N -> V] /\ g[0] = <<>> /\ \A n \in 1..N : g[n] = g[n - 1] \o One(n)
    <2>1. g \in [0..N -> V] /\ g[0] = <<>> /\ \A n \in 1..N : g[n] = F[<<n, g[n - 1]>>]
      BY <1>9 DEF Traces
    <2>2. N \in Nat
      BY <1>3 DEF N
    <2>3. \A n \in 1..N : g[n - 1] \in V
      BY <2>1, <2>2
    <2> QED
      BY <1>8, <2>1, <2>3
  <1>11. N \in Nat
    BY <1>3 DEF N
  <1>12. g = [n \in 0..N |-> IF n = 0 THEN <<>> ELSE g[n - 1] \o One(n)]
    <2> DEFINE With(s, n) == s \o One(n)
    <2>1. \A n \in 1..N : g[n] = With(g[n - 1], n)
      BY <1>10
    <2> HIDE DEF With, V
    <2>2. g = [n \in 0..N |-> IF n = 0 THEN <<>> ELSE With(g[n - 1], n)]
      BY <1>10, <1>11, <2>1
    <2> QED
      BY <2>2 DEF With
  <1>13. boxes = [n \in 0..N |-> IF n = 0 THEN <<>> ELSE boxes[n - 1] \o One(n)]
    BY <1>12
  <1> HIDE DEF boxes
  <1> DEFINE Same == {n \in 0..N : boxes[n] = g[n]}
  <1>14. N \in Same
    <2>1. 0 \in Same
      BY <1>10, <1>11, <1>13
    <2>2. ASSUME NEW n \in 1..N, n - 1 \in Same PROVE n \in Same
      <3>1. n \in 0..N /\ n # 0
        BY <1>11
      <3> QED
        BY <1>10, <1>13, <2>2, <3>1
    <2> HIDE DEF Same
    <2> QED
      BY <1>11, <2>1, <2>2, Upwards
  <1> DEFINE Good == {n \in 0..N : BoxList(map, bitmap, c, n, g[n])}
  <1>15. N \in Good
    <2>1. 0 \in Good
      BY <1>10, <1>11 DEF BoxList
    <2>2. ASSUME NEW n \in 1..N, n - 1 \in Good PROVE n \in Good
      <3> DEFINE s == g[n - 1]
                 m == n - 1
      <3>1. m \in Nat /\ m + 1 = n /\ n \in 0..N /\ s \in Seq(B) /\ g[n] = s \o One(n)
            /\ BoxList(map, bitmap, c, m, s)
        <4>1. n - 1 \in 0..N /\ n - 1 \in Nat /\ n - 1 + 1 = n
          BY <1>11
        <4>2. g[n - 1] \in Seq(B) /\ g[n] = g[n - 1] \o One(n)
          BY <1>10, <4>1
        <4>3. BoxList(map, bitmap, c, n - 1, g[n - 1])
          BY <2>2
        <4> QED
          BY <4>1, <4>2, <4>3
      <3> HIDE DEF s, m
      <3>2. CASE One(n) = <<>>
        <4>1. g[n] = s
          BY <3>1, <3>2
        <4>2. \A k \in 1..m : k \in 1..n
          BY <3>1
        <4>3. BoxList(map, bitmap, c, n, s)
          BY <3>1, <4>2 DEF BoxList
        <4> QED
          BY <3>1, <4>1, <4>3
      <3>3. CASE One(n) # <<>>
        <4>1. PICK box \in B : One(n) = <<box>> /\ BoxFor(map, bitmap, c[n], box)
          BY <1>5, <3>3
        <4>2. \A k \in 1..m : c[k] # c[n]
          <5>1. \A k \in 1..m : k \in 1..N /\ k # n
            BY <1>11, <3>1
          <5> QED
            BY <1>6, <5>1
        <4>3. BoxList(map, bitmap, c, m + 1, s \o <<box>>)
          BY <3>1, <4>1, <4>2, BoxListGrows
        <4> QED
          BY <3>1, <4>1, <4>3
      <3> QED
        BY <3>2, <3>3
    <2> HIDE DEF Good
    <2> QED
      BY <1>11, <2>1, <2>2, Upwards
  <1>16. BoxList(map, bitmap, c, N, g[N])
    BY <1>15
  <1>17. lw_db_postprocess_f32(map) = g[N]
    BY <1>4, <1>14
  <1> QED
    BY <1>16, <1>17 DEF N, c, bitmap

-----------------------------------------------------------------------------
(* What the detector finds *)

LEMMA PixelsType ==
  ASSUME NEW corners \in Quads, NEW unit, unit \in Int, unit > 0
  PROVE  [j \in 1..4 |-> <<Pixel(X(corners[j]), unit), Pixel(Y(corners[j]), unit)>>] \in Quads
  <1>1. ASSUME NEW j \in 1..4
        PROVE  <<Pixel(X(corners[j]), unit), Pixel(Y(corners[j]), unit)>> \in Points
    <2>1. corners[j] \in Points
      BY DEF Quads
    <2>2. X(corners[j]) \in Int /\ Y(corners[j]) \in Int
      BY <2>1, PointFacts
    <2> QED
      BY <2>2 DEF Pixel, Points
  <1> QED
    BY <1>1 DEF Quads

LEMMA WholeType ==
  ASSUME NEW map, IsMap(map)
  PROVE  AllWhole(lw_db_postprocess_f32(map)) \in Seq(Quads)
  <1> DEFINE boxes == lw_db_postprocess_f32(map)
             c == Components(Bitmap(map))
  <1>1. BoxList(map, Bitmap(map), c, Len(c), boxes)
    BY BoxesAre
  <1> HIDE DEF boxes, c
  <1>2. Len(boxes) \in Nat /\ DOMAIN boxes = 1..Len(boxes)
    BY <1>1 DEF BoxList
  <1>3. ASSUME NEW i \in 1..Len(boxes) PROVE WholePixels(boxes[i]) \in Quads
    <2>1. PICK k : BoxFor(map, Bitmap(map), c[k], boxes[i])
      BY <1>1 DEF BoxList
    <2>2. PICK r, quad : /\ r \in RectangleType /\ Area(r) > 0 /\ quad \in Quads
                         /\ boxes[i].rectangle = r /\ boxes[i].corners = Restored(map, r, quad)
      BY <2>1 DEF BoxFor
    <2>3. boxes[i].corners \in Quads
      <3>1. Restored(map, r, quad) \in Quads
        BY <2>2, RestoredIs
      <3> QED
        BY <2>2, <3>1
    <2>4. Unit(r) \in Int /\ Unit(r) > 0
      BY <2>2, Positive
    <2> QED
      BY <2>2, <2>3, <2>4, PixelsType DEF WholePixels
  <1> DEFINE whole == AllWhole(boxes)
  <1>4. whole = [i \in 1..Len(boxes) |-> WholePixels(boxes[i])]
    BY <1>2 DEF AllWhole
  <1> HIDE DEF whole
  <1>5. whole \in [1..Len(boxes) -> Quads]
    BY <1>3, <1>4
  <1>6. whole \in Seq(Quads)
    BY <1>2, <1>5
  <1> QED
    BY <1>6 DEF whole, boxes

LEMMA FoundType ==
  ASSUME NEW image \in Images
  PROVE  Found[image] \in Seq(Quads)
  <1>1. IsImage(image)
    BY DetectorAssumption
  <1>2. Found[image] = IF "map" \in DOMAIN image THEN AllWhole(lw_db_postprocess_f32(image.map))
                       ELSE image.boxes
    BY DEF Found
  <1>3. CASE "map" \in DOMAIN image
    BY <1>1, <1>2, <1>3, WholeType DEF IsImage
  <1>4. CASE "map" \notin DOMAIN image
    BY <1>1, <1>2, <1>4 DEF IsImage, Quads, Points
  <1> QED
    BY <1>3, <1>4

-----------------------------------------------------------------------------
(* The hull reaches as far as the points, in every direction *)

\* How far a point lies in the direction of a and b.
Reach(a, b, p) == a * X(p) + b * Y(p)

LEMMA ReachType ==
  ASSUME NEW a \in Int, NEW b \in Int, NEW p \in Points
  PROVE  Reach(a, b, p) \in Int
  <1>1. a * X(p) \in Int /\ b * Y(p) \in Int
    BY PointFacts, Product2
  <1> QED
    BY <1>1 DEF Reach

LEMMA Between ==
  ASSUME NEW u \in Int, NEW v \in Int, NEW x \in Int, NEW y \in Int, NEW a \in Int, NEW b \in Int,
         0 <= u, u <= x, u = 0 => v > 0, u * y - v * x <= 0, b <= 0
  PROVE  a * u + b * v <= 0 \/ a * u + b * v <= a * x + b * y
  <1> DEFINE e == a * u + b * v
             g == a * x + b * y - e
             w == v * x - u * y
  <1>1. e \in Int /\ g \in Int
    <2>1. a * u \in Int /\ b * v \in Int /\ a * x \in Int /\ b * y \in Int
      OBVIOUS
    <2> QED
      BY <2>1
  <1>2. w \in Int /\ w >= 0
    <2>1. v * x \in Int /\ u * y \in Int
      OBVIOUS
    <2> QED
      BY <2>1
  <1>3. b * w <= 0 /\ b * w \in Int
    <2> HIDE DEF w
    <2> QED
      BY <1>2, Z3
  <1>4. (x - u) * e - u * g = b * w
    BY Z3
  <1> SUFFICES ASSUME e > 0, g < 0 PROVE FALSE
    <2>1. e <= 0 \/ g >= 0
      BY <1>1
    <2> HIDE DEF e, g
    <2>2. e <= 0 \/ e <= g + e
      BY <1>1, <2>1
    <2>3. g + e = a * x + b * y
      <3>1. a * x \in Int /\ b * y \in Int /\ a * u \in Int /\ b * v \in Int
        OBVIOUS
      <3> QED
        BY <3>1 DEF g, e
    <2> QED
      BY <2>2, <2>3 DEF e
  <1>5. CASE x = 0
    <2>1. u = 0 /\ v > 0
      BY <1>5
    <2>2. e = b * v
      BY <2>1
    <2>3. b * v <= 0
      BY <2>1, Z3
    <2> HIDE DEF e
    <2>4. b * v \in Int
      OBVIOUS
    <2> QED
      BY <1>1, <2>2, <2>3, <2>4
  <1>6. CASE x > 0
    <2> HIDE DEF e, g, w
    <2>1. (x - u) * e \in Int /\ u * g \in Int
      BY <1>1
    <2>2. (x - u) * e >= 0 /\ u * g <= 0
      <3>1. x - u \in Nat /\ u \in Nat
        OBVIOUS
      <3> QED
        BY <1>1, <3>1, Z3
    <2>3. CASE u = 0
      <3>1. (x - u) * e > 0
        BY <1>1, <1>6, <2>3, Z3
      <3> QED
        BY <1>3, <1>4, <2>1, <2>2, <3>1
    <2>4. CASE u > 0
      <3>1. u * g < 0
        BY <1>1, <2>4, Z3
      <3> QED
        BY <1>3, <1>4, <2>1, <2>2, <3>1
    <2> QED
      BY <2>3, <2>4
  <1> QED
    BY <1>5, <1>6

\* The directions in which a half of the hull reaches far.
Faces(b, way) == (way = 1 /\ b <= 0) \/ (way = -1 /\ b >= 0)

\* A point that is taken off leaves no turn to the left: one of its neighbours reaches
\* as far.
LEMMA TakenOff ==
  ASSUME NEW a \in Int, NEW b \in Int, NEW way, Faces(b, way),
         NEW p \in Points, NEW q \in Points, NEW r \in Points,
         Toward(way, p, q), Toward(way, q, r), ~(Cross(p, q, r) > 0)
  PROVE  Reach(a, b, q) <= Reach(a, b, p) \/ Reach(a, b, q) <= Reach(a, b, r)
  <1> DEFINE u == X(q) - X(p)
             v == Y(q) - Y(p)
             x == X(r) - X(p)
             y == Y(r) - Y(p)
  <1>1. /\ X(p) \in Int /\ Y(p) \in Int /\ X(q) \in Int /\ Y(q) \in Int
        /\ X(r) \in Int /\ Y(r) \in Int
    BY PointFacts
  <1>2. u \in Int /\ v \in Int /\ x \in Int /\ y \in Int
    BY <1>1
  <1>3. /\ a * u + b * v = Reach(a, b, q) - Reach(a, b, p)
        /\ a * x + b * y = Reach(a, b, r) - Reach(a, b, p)
    <2>1. /\ a * u = a * X(q) - a * X(p) /\ b * v = b * Y(q) - b * Y(p)
          /\ a * x = a * X(r) - a * X(p) /\ b * y = b * Y(r) - b * Y(p)
      BY <1>1, Z3
    <2>2. /\ a * X(q) \in Int /\ a * X(p) \in Int /\ b * Y(q) \in Int /\ b * Y(p) \in Int
          /\ a * X(r) \in Int /\ b * Y(r) \in Int
      BY <1>1
    <2> HIDE DEF u, v, x, y
    <2> QED
      BY <2>1, <2>2 DEF Reach
  <1>4. Reach(a, b, p) \in Int /\ Reach(a, b, q) \in Int /\ Reach(a, b, r) \in Int
    BY ReachType
  <1>5. u * y - v * x <= 0
    <2>1. Cross(p, q, r) = u * y - v * x
      BY DEF Cross
    <2>2. u * y \in Int /\ v * x \in Int
      BY <1>2
    <2> HIDE DEF u, v, x, y
    <2> QED
      BY <2>1, <2>2
  <1>6. CASE way = 1 /\ b <= 0
    <2>1. PointBefore(p, q) /\ PointBefore(q, r)
      BY <1>6 DEF Toward
    <2>2. 0 <= u /\ u <= x /\ (u = 0 => v > 0)
      BY <1>1, <2>1 DEF PointBefore
    <2> HIDE DEF u, v, x, y
    <2>3. a * u + b * v <= 0 \/ a * u + b * v <= a * x + b * y
      BY <1>2, <1>5, <1>6, <2>2, Between
    <2> QED
      BY <1>3, <1>4, <2>3
  <1>7. CASE way = -1 /\ b >= 0
    <2>1. PointBefore(q, p) /\ PointBefore(r, q)
      BY <1>7 DEF Toward
    <2> DEFINE u1 == -u
               v1 == -v
               x1 == -x
               y1 == -y
               a1 == -a
               b1 == -b
    <2>2. 0 <= u1 /\ u1 <= x1 /\ (u1 = 0 => v1 > 0) /\ b1 <= 0
      BY <1>1, <1>7, <2>1 DEF PointBefore
    <2> HIDE DEF u, v, x, y
    <2>3. u1 \in Int /\ v1 \in Int /\ x1 \in Int /\ y1 \in Int /\ a1 \in Int /\ b1 \in Int
      BY <1>2
    <2>4. u1 * y1 = u * y /\ v1 * x1 = v * x /\ a1 * u1 = a * u /\ b1 * v1 = b * v
          /\ a1 * x1 = a * x /\ b1 * y1 = b * y
      BY <1>2, Z3
    <2>5. u1 * y1 - v1 * x1 <= 0
      BY <1>5, <2>4
    <2> HIDE DEF u1, v1, x1, y1, a1, b1
    <2>6. a1 * u1 + b1 * v1 <= 0 \/ a1 * u1 + b1 * v1 <= a1 * x1 + b1 * y1
      BY <2>2, <2>3, <2>5, Between
    <2>7. a * u + b * v <= 0 \/ a * u + b * v <= a * x + b * y
      BY <2>4, <2>6
    <2> QED
      BY <1>3, <1>4, <2>7
  <1> QED
    BY <1>6, <1>7 DEF Faces

\* A sequence of points reaches as far as a point.
Covered(a, b, q, s) == \E j \in 1..Len(s) : Reach(a, b, q) <= Reach(a, b, s[j])

LEMMA GrowsCovers ==
  ASSUME NEW a \in Int, NEW b \in Int, NEW way, Faces(b, way),
         NEW s \in Seq(Points), NEW stay \in Nat \ {0}, NEW p \in Points, NEW t, Grows(s, t, stay, p),
         OneWay(s, stay, way), \A i \in stay..Len(s) : Toward(way, s[i], p)
  PROVE  /\ Covered(a, b, p, t)
         /\ \A i \in 1..Len(s) : Covered(a, b, s[i], t)
         /\ \A q \in Points : Covered(a, b, q, s) => Covered(a, b, q, t)
  <1>0. PICK k : Kept(s, t, stay, p, k)
    BY GrowsFacts
  <1>1. /\ k \in 0..Len(s) /\ t \in Seq(Points) /\ Len(t) = k + 1 /\ t[k + 1] = p
        /\ \A i \in 1..k : t[i] = s[i]
        /\ IF Len(s) < stay THEN k = Len(s)
           ELSE k >= stay /\ \A j \in k + 1..Len(s) : ~(Cross(s[j - 1], s[j], p) > 0)
    BY <1>0 DEF Kept
  <1>2. Len(s) \in Nat /\ k \in Nat /\ k <= Len(s) /\ \A i \in 1..Len(s) : s[i] \in Points
    BY <1>1
  <1>3. \A q \in Points : Reach(a, b, q) \in Int
    BY ReachType
  <1>4. Covered(a, b, p, t)
    <2>1. k + 1 \in 1..Len(t) /\ Reach(a, b, p) <= Reach(a, b, t[k + 1])
      BY <1>1, <1>2, <1>3
    <2> QED
      BY <2>1 DEF Covered
  <1> DEFINE Good == {i \in 0..Len(s) : i = 0 \/ Covered(a, b, s[i], t)}
  <1>5. ASSUME NEW i \in 1..Len(s), i - 1 \in Good PROVE i \in Good
    <2>1. CASE i <= k
      <3>1. i \in 1..Len(t) /\ t[i] = s[i] /\ Reach(a, b, s[i]) <= Reach(a, b, t[i])
        BY <1>1, <1>2, <1>3, <2>1
      <3> QED
        BY <3>1 DEF Covered
    <2>2. CASE i > k
      <3>1. k >= stay /\ i \in k + 1..Len(s) /\ ~(Cross(s[i - 1], s[i], p) > 0)
        BY <1>1, <1>2, <2>2
      <3>2. i - 1 \in stay..Len(s) /\ i \in stay..Len(s) /\ i - 1 < i /\ i - 1 \in 1..Len(s)
        BY <1>2, <3>1
      <3> DEFINE o == s[i - 1]
                 q == s[i]
      <3>3. o \in Points /\ q \in Points /\ Toward(way, o, q) /\ Toward(way, q, p)
        BY <1>2, <3>2 DEF OneWay
      <3>4. ~(Cross(o, q, p) > 0)
        BY <3>1
      <3> HIDE DEF o, q
      <3>5. Reach(a, b, q) <= Reach(a, b, o) \/ Reach(a, b, q) <= Reach(a, b, p)
        BY <3>3, <3>4, TakenOff
      <3>6. CASE Reach(a, b, q) <= Reach(a, b, o)
        <4>1. Covered(a, b, o, t)
          BY <1>5, <3>2 DEF o
        <4>2. PICK j \in 1..Len(t) : Reach(a, b, o) <= Reach(a, b, t[j])
          BY <4>1 DEF Covered
        <4>3. t[j] \in Points
          BY <1>1
        <4>4. Reach(a, b, q) <= Reach(a, b, t[j])
          BY <1>3, <3>3, <3>6, <4>2, <4>3
        <4> QED
          BY <4>4 DEF Covered, q
      <3>7. CASE Reach(a, b, q) <= Reach(a, b, p)
        <4>1. k + 1 \in 1..Len(t) /\ t[k + 1] = p
          BY <1>1, <1>2
        <4>2. Covered(a, b, q, t)
          BY <3>7, <4>1 DEF Covered
        <4> QED
          BY <4>2 DEF q
      <3> QED
        BY <3>5, <3>6, <3>7
    <2> QED
      BY <1>2, <2>1, <2>2
  <1>6. \A i \in 0..Len(s) : i \in Good
    <2>1. 0 \in Good
      BY <1>2
    <2> HIDE DEF Good
    <2> QED
      BY <1>2, <1>5, <2>1, Upwards
  <1>7. \A i \in 1..Len(s) : Covered(a, b, s[i], t)
    <2>1. ASSUME NEW i \in 1..Len(s) PROVE Covered(a, b, s[i], t)
      <3>1. i \in Good /\ i # 0
        BY <1>6
      <3> QED
        BY <3>1
    <2> QED
      BY <2>1
  <1>8. ASSUME NEW q \in Points, Covered(a, b, q, s) PROVE Covered(a, b, q, t)
    <2>1. PICK i \in 1..Len(s) : Reach(a, b, q) <= Reach(a, b, s[i])
      BY <1>8 DEF Covered
    <2>2. PICK j \in 1..Len(t) : Reach(a, b, s[i]) <= Reach(a, b, t[j])
      BY <1>7 DEF Covered
    <2>3. s[i] \in Points /\ t[j] \in Points
      BY <1>1, <1>2
    <2>4. Reach(a, b, q) <= Reach(a, b, t[j])
      BY <1>3, <2>1, <2>2, <2>3
    <2> QED
      BY <2>4 DEF Covered
  <1> QED
    BY <1>4, <1>7, <1>8

LEMMA LowerCovers ==
  ASSUME NEW a \in Int, NEW b \in Int, b <= 0,
         NEW s \in Seq(Points), Len(s) >= 1, Rising(s), NEW g, Chained(g, <<>>, 1, s, Len(s))
  PROVE  \A m \in 1..Len(s) : Covered(a, b, s[m], g[Len(s)])
  <1> DEFINE N == Len(s)
             Good == {n \in 0..N : \A m \in 1..n : Covered(a, b, s[m], g[n])}
  <1>1. N \in Nat /\ N >= 1 /\ \A i \in 1..N : s[i] \in Points
    OBVIOUS
  <1>2. /\ g \in [0..N -> Seq(Points)] /\ g[0] = <<>>
        /\ \A n \in 1..N : Grows(g[n - 1], g[n], 1, s[n])
    BY DEF Chained
  <1>r. \A i, j \in 1..N : i < j => PointBefore(s[i], s[j])
    BY DEF Rising
  <1>3. \A n \in 1..N : LowerIs(s, g[n], n)
    BY LowerHalf
  <1>4. 0 \in Good
    BY <1>1
  <1> HIDE DEF N
  <1>5. ASSUME NEW n \in 1..N, n - 1 \in Good PROVE n \in Good
    <2> DEFINE c == g[n - 1]
               t == g[n]
               p == s[n]
    <2>1. c \in Seq(Points) /\ t \in Seq(Points) /\ Grows(c, t, 1, p) /\ p \in Points /\ n \in 0..N
          /\ 1 \in Nat \ {0}
      BY <1>1, <1>2
    <2>c. n = 1 => c = <<>>
      BY <1>2
    <2>l. n # 1 => n - 1 \in 1..N /\ LowerIs(s, c, n - 1)
      BY <1>1, <1>3
    <2>g. \A m \in 1..n - 1 : Covered(a, b, s[m], c)
      BY <1>5
    <2> HIDE DEF c, t, p
    <2>2. OneWay(c, 1, 1) /\ \A i \in 1..Len(c) : Toward(1, c[i], p)
      <3>1. CASE n = 1
        <4>1. Len(c) = 0
          BY <2>c, <3>1
        <4> QED
          BY <4>1 DEF OneWay
      <3>2. CASE n # 1
        <4>1. LowerIs(s, c, n - 1)
          BY <2>l, <3>2
        <4>2. ASSUME NEW i \in 1..Len(c) PROVE Toward(1, c[i], p)
          <5>1. PICK m \in 1..n - 1 : c[i] = s[m]
            BY <4>1 DEF LowerIs
          <5>2. m \in 1..N /\ m < n
            BY <1>1
          <5> QED
            BY <1>r, <5>1, <5>2 DEF Toward, p
        <4> QED
          BY <4>1, <4>2 DEF LowerIs
      <3> QED
        BY <3>1, <3>2
    <2>3. Faces(b, 1)
      BY DEF Faces
    <2>4. Covered(a, b, p, t) /\ \A q \in Points : Covered(a, b, q, c) => Covered(a, b, q, t)
      BY <2>1, <2>2, <2>3, GrowsCovers
    <2>5. ASSUME NEW m \in 1..n PROVE Covered(a, b, s[m], t)
      <3>1. CASE m = n
        BY <2>4, <3>1 DEF p
      <3>2. CASE m # n
        <4>1. m \in 1..n - 1 /\ s[m] \in Points
          BY <1>1, <3>2
        <4> QED
          BY <2>g, <2>4, <4>1
      <3> QED
        BY <3>1, <3>2
    <2> QED
      BY <2>1, <2>5 DEF t
  <1>6. \A n \in 1..N : n - 1 \in Good => n \in Good
    BY <1>5
  <1>7. N \in Good
    <2> HIDE DEF Good
    <2>1. \A n \in 0..N : n \in Good
      BY <1>1, <1>4, <1>6, Upwards
    <2> QED
      BY <1>1, <2>1
  <1> QED
    BY <1>7 DEF N

LEMMA UpperCovers ==
  ASSUME NEW a \in Int, NEW b \in Int, b >= 0,
         NEW s \in Seq(Points), Len(s) >= 2, Rising(s), NEW low, LowerIs(s, low, Len(s)),
         NEW g, Chained(g, low, Len(low), Back(s), Len(s) - 1)
  PROVE  \A m \in 1..Len(s) : Covered(a, b, s[m], g[Len(s) - 1])
  <1> DEFINE N == Len(s)
             L == Len(low)
             Good == {n \in 0..N - 1 : \A m \in N - n..N : Covered(a, b, s[m], g[n])}
  <1>1. N \in Nat /\ N >= 2 /\ (\A i \in 1..N : s[i] \in Points) /\ N - 1 \in Nat
    OBVIOUS
  <1>2. /\ g \in [0..N - 1 -> Seq(Points)] /\ g[0] = low
        /\ \A n \in 1..N - 1 : Grows(g[n - 1], g[n], L, Back(s)[n])
    BY DEF Chained
  <1>r. \A i, j \in 1..N : i < j => PointBefore(s[i], s[j])
    BY DEF Rising
  <1>b. \A n \in 1..N - 1 : Back(s)[n] = s[N - n] /\ N - n \in 1..N
    BY <1>1 DEF Back
  <1>l. low \in Seq(Points) /\ L \in Nat \ {0} /\ low[L] = s[N]
    BY DEF LowerIs
  <1>3. \A n \in 0..N - 1 : UpperIs(s, low, g[n], n)
    BY UpperHalf
  <1> HIDE DEF N, L
  <1>4. 0 \in Good
    <2>1. \A m \in N - 0..N : m = N
      BY <1>1
    <2>2. s[N] \in Points /\ Reach(a, b, s[N]) <= Reach(a, b, low[L])
      <3>1. s[N] \in Points
        BY <1>1
      <3>2. Reach(a, b, s[N]) \in Int
        BY <3>1, ReachType
      <3> QED
        BY <1>l, <3>1, <3>2
    <2>3. Covered(a, b, s[N], low)
      BY <1>l, <2>2 DEF Covered, L
    <2>4. \A m \in N - 0..N : Covered(a, b, s[m], g[0])
      BY <1>2, <2>1, <2>3
    <2> QED
      BY <1>1, <2>4
  <1>5. ASSUME NEW n \in 1..N - 1, n - 1 \in Good PROVE n \in Good
    <2> DEFINE c == g[n - 1]
               t == g[n]
               p == s[N - n]
    <2>1. c \in Seq(Points) /\ t \in Seq(Points) /\ Grows(c, t, L, p) /\ p \in Points
          /\ n \in 0..N - 1 /\ n - 1 \in 0..N - 1
      BY <1>1, <1>2, <1>b
    <2>u. UpperIs(s, low, c, n - 1)
      BY <1>3, <2>1
    <2>g. \A m \in N - (n - 1)..N : Covered(a, b, s[m], c)
      BY <1>5
    <2> HIDE DEF c, t, p
    <2>2. /\ OneWay(c, L, -1)
          /\ \A i \in L..Len(c) : \E m \in N - (n - 1)..N : c[i] = s[m]
      BY <2>u DEF UpperIs, N, L
    <2>3. \A i \in L..Len(c) : Toward(-1, c[i], p)
      <3>1. ASSUME NEW i \in L..Len(c) PROVE Toward(-1, c[i], p)
        <4>1. PICK m \in N - (n - 1)..N : c[i] = s[m]
          BY <2>2
        <4>2. m \in 1..N /\ N - n \in 1..N /\ N - n < m
          BY <1>1
        <4> QED
          BY <1>r, <4>1, <4>2 DEF Toward, p
      <3> QED
        BY <3>1
    <2>4. Faces(b, -1)
      BY DEF Faces
    <2>5. Covered(a, b, p, t) /\ \A q \in Points : Covered(a, b, q, c) => Covered(a, b, q, t)
      BY <1>l, <2>1, <2>2, <2>3, <2>4, GrowsCovers
    <2>6. ASSUME NEW m \in N - n..N PROVE Covered(a, b, s[m], t)
      <3>1. CASE m = N - n
        BY <2>5, <3>1 DEF p
      <3>2. CASE m # N - n
        <4>1. m \in N - (n - 1)..N /\ m \in 1..N
          BY <1>1, <3>2
        <4> QED
          BY <1>1, <2>g, <2>5, <4>1
      <3> QED
        BY <3>1, <3>2
    <2> QED
      BY <2>1, <2>6 DEF t
  <1>6. N - 1 \in Good
    <2> DEFINE M == N - 1
    <2>1. M \in Nat
      BY <1>1
    <2>2. 0 \in Good /\ \A n \in 1..M : n - 1 \in Good => n \in Good
      BY <1>4, <1>5
    <2> HIDE DEF Good, M
    <2>3. \A n \in 0..M : n \in Good
      BY <2>1, <2>2, Upwards
    <2>4. M \in 0..M
      BY <2>1
    <2> QED
      BY <2>3, <2>4 DEF M
  <1>7. \A m \in 1..N : m \in N - (N - 1)..N
    BY <1>1
  <1> QED
    BY <1>6, <1>7 DEF N

LEMMA HullCovers ==
  ASSUME NEW a \in Int, NEW b \in Int, NEW s \in Seq(Points), Len(s) >= 3, Rising(s)
  PROVE  \A m \in 1..Len(s) : Covered(a, b, s[m], HullOf(s))
  <1>1. PICK low, around, lower, upper : HullHalves(s, low, around, lower, upper)
    BY HullIs
  <1> DEFINE N == Len(s)
             L == Len(low)
             M == Len(around)
             h == HullOf(s)
  <1>2. N \in Nat /\ N >= 3 /\ \A i \in 1..N : s[i] \in Points
    OBVIOUS
  <1>3. LowerIs(s, low, N)
    <2>1. Chained(lower, <<>>, 1, s, N) /\ low = lower[N] /\ N \in 1..N
      BY <1>1, <1>2 DEF HullHalves
    <2> QED
      BY <1>2, <2>1, LowerHalf
  <1>4. UpperIs(s, low, around, N - 1)
    <2>1. /\ Chained(upper, low, Len(low), Back(s), Len(s) - 1) /\ around = upper[N - 1]
          /\ N - 1 \in 0..N - 1
      BY <1>1, <1>2 DEF HullHalves
    <2> QED
      BY <1>2, <1>3, <2>1, UpperHalf
  <1>6. low \in Seq(Points) /\ L \in Nat /\ L >= 1 /\ low[1] = s[1]
    BY <1>3 DEF LowerIs
  <1>7. /\ around \in Seq(Points) /\ M \in Nat /\ M >= L + 1 /\ \A i \in 1..L : around[i] = low[i]
        /\ around[M] = s[1]
    <2> DEFINE last == N - 1
    <2>u. UpperIs(s, low, around, last)
      BY <1>4
    <2>l. last >= 1 /\ N - last = 1
      BY <1>2
    <2> HIDE DEF last
    <2>2. /\ around \in Seq(Points) /\ M >= L + 1 /\ \A i \in 1..L : around[i] = low[i]
          /\ around[M] = s[1]
      BY <2>u, <2>l DEF UpperIs
    <2> QED
      BY <2>2
  <1>9. /\ h \in Seq(Points) /\ Len(h) = M - 1
        /\ \A i \in 1..M - 1 : h[i] = around[i]
    <2>1. h = SubSeq(around, 1, M - 1)
      BY <1>1 DEF HullHalves, WithoutLast
    <2>2. M - 1 \in 0..M
      BY <1>6, <1>7
    <2> HIDE DEF h
    <2> QED
      BY <1>6, <1>7, <2>1, <2>2
  <1>10. CASE b <= 0
    <2>1. ASSUME NEW m \in 1..N PROVE Covered(a, b, s[m], h)
      <3>1. Covered(a, b, s[m], low)
        <4>1. Chained(lower, <<>>, 1, s, Len(s)) /\ low = lower[Len(s)]
          BY <1>1 DEF HullHalves
        <4> QED
          BY <1>2, <1>10, <4>1, LowerCovers
      <3> HIDE DEF h
      <3>2. PICK j \in 1..L : Reach(a, b, s[m]) <= Reach(a, b, low[j])
        BY <3>1 DEF Covered
      <3>3. j \in 1..Len(h) /\ h[j] = low[j]
        BY <1>6, <1>7, <1>9
      <3> QED
        BY <3>2, <3>3 DEF Covered
    <2> QED
      BY <2>1
  <1>11. CASE b >= 0
    <2>1. ASSUME NEW m \in 1..N PROVE Covered(a, b, s[m], h)
      <3>1. Covered(a, b, s[m], around)
        <4>1. /\ Chained(upper, low, Len(low), Back(s), Len(s) - 1) /\ around = upper[Len(s) - 1]
              /\ Len(s) >= 2
          BY <1>1, <1>2 DEF HullHalves
        <4> QED
          BY <1>2, <1>3, <1>11, <4>1, UpperCovers
      <3> HIDE DEF h
      <3>2. PICK j \in 1..M : Reach(a, b, s[m]) <= Reach(a, b, around[j])
        BY <3>1 DEF Covered
      <3>3. CASE j = M
        <4>1. 1 \in 1..Len(h) /\ h[1] = around[M]
          BY <1>6, <1>7, <1>9
        <4> QED
          BY <3>2, <3>3, <4>1 DEF Covered
      <3>4. CASE j # M
        <4>1. j \in 1..Len(h) /\ h[j] = around[j]
          BY <1>6, <1>7, <1>9, <3>4
        <4> QED
          BY <3>2, <4>1 DEF Covered
      <3> QED
        BY <3>3, <3>4
    <2> QED
      BY <2>1
  <1> QED
    BY <1>10, <1>11

-----------------------------------------------------------------------------
(* The boundary of a region reaches as far as the region *)

LEMMA FarthestIs ==
  ASSUME NEW S \in SUBSET Points, IsFiniteSet(S), S # {}, NEW a \in Int, NEW b \in Int
  PROVE  \E p \in S : \A q \in S : Reach(a, b, q) <= Reach(a, b, p)
  <1> DEFINE R == {c \in Points \X Points : Reach(a, b, c[2]) <= Reach(a, b, c[1])}
  <1>1. \A p, q \in S : <<p, q>> \in R <=> Reach(a, b, q) <= Reach(a, b, p)
    OBVIOUS
  <1> HIDE DEF R
  <1>2. \A p \in S : Reach(a, b, p) \in Int
    BY ReachType
  <1>3. Ranks(R, S)
    BY <1>1, <1>2 DEF Ranks
  <1>4. PICK p \in S : \A q \in S : q # p => <<p, q>> \in R
    BY <1>3, FirstExists
  <1>5. ASSUME NEW q \in S PROVE Reach(a, b, q) <= Reach(a, b, p)
    <2>1. CASE q = p
      BY <1>2, <2>1
    <2>2. CASE q # p
      BY <1>1, <1>4, <2>2
    <2> QED
      BY <2>1, <2>2
  <1> QED
    BY <1>5

\* One step to a side.
Sides == {<<1, 0>>, <<-1, 0>>, <<0, 1>>, <<0, -1>>}

\* The neighbours of a pixel that is not a boundary pixel are in the same region.
LEMMA InnerPixel ==
  ASSUME NEW map, IsMap(map), NEW region, Closed(Bitmap(map), region),
         NEW p \in region, p \notin Boundary(map, Bitmap(map), region), NEW d \in Sides
  PROVE  <<X(p) + X(d), Y(p) + Y(d)>> \in region
  <1> DEFINE bitmap == Bitmap(map)
             q == <<X(p) + X(d), Y(p) + Y(d)>>
  <1>1. /\ map.width \in Nat /\ map.height \in Nat
        /\ Pixels(map) = (0..map.width - 1) \X (0..map.height - 1)
    BY DEF IsMap, Pixels
  <1>2. p \in bitmap /\ p \in Pixels(map)
    BY BitmapType DEF Closed
  <1>3. X(p) \in 0..map.width - 1 /\ Y(p) \in 0..map.height - 1
    BY <1>1, <1>2 DEF X, Y
  <1>4. /\ X(p) # 0 /\ X(p) # map.width - 1 /\ Y(p) # 0 /\ Y(p) # map.height - 1
        /\ ~NextToBackground(map, bitmap, p)
    BY DEF Boundary, AtEdge
  <1>5. X(d) \in -1..1 /\ Y(d) \in -1..1 /\ ((X(d) = 0 /\ Y(d) \in {-1, 1}) \/ (Y(d) = 0 /\ X(d) \in {-1, 1}))
    BY DEF Sides, X, Y
  <1>6. X(q) = X(p) + X(d) /\ Y(q) = Y(p) + Y(d)
    BY DEF X, Y
  <1>7. q \in Pixels(map)
    <2>1. X(p) + X(d) \in 0..map.width - 1 /\ Y(p) + Y(d) \in 0..map.height - 1
      BY <1>1, <1>3, <1>4, <1>5
    <2> QED
      BY <1>1, <2>1
  <1> HIDE DEF q, bitmap
  <1>8. q \in bitmap
    <2> SUFFICES ASSUME q \notin bitmap PROVE FALSE
      OBVIOUS
    <2>1. \/ X(p) = X(q) /\ Y(p) - Y(q) \in {-1, 1}
          \/ Y(p) = Y(q) /\ X(p) - X(q) \in {-1, 1}
      BY <1>1, <1>3, <1>5, <1>6
    <2>2. NextToBackground(map, bitmap, p)
      BY <1>7, <2>1 DEF NextToBackground
    <2> QED
      BY <1>4, <2>2
  <1>9. Touching(q, p)
    BY <1>1, <1>3, <1>5, <1>6 DEF Touching
  <1>10. q \in region
    BY <1>8, <1>9 DEF Closed, bitmap
  <1> QED
    BY <1>10 DEF q

\* A pixel of a region that lies farthest in some direction is a boundary pixel.
LEMMA BoundaryFar ==
  ASSUME NEW map, IsMap(map), NEW region, Closed(Bitmap(map), region), region # {},
         NEW a \in Int, NEW b \in Int, a # 0 \/ b # 0
  PROVE  \E p \in Boundary(map, Bitmap(map), region) :
           \A q \in region : Reach(a, b, q) <= Reach(a, b, p)
  <1>1. region \in SUBSET Points /\ IsFiniteSet(region)
    <2>1. region \in SUBSET Bitmap(map)
      BY DEF Closed
    <2> QED
      BY <2>1, BitmapType, FS_Subset
  <1>2. PICK p \in region : \A q \in region : Reach(a, b, q) <= Reach(a, b, p)
    BY <1>1, FarthestIs
  <1>3. ASSUME p \notin Boundary(map, Bitmap(map), region) PROVE FALSE
    <2>1. PICK d \in Sides : a * X(d) + b * Y(d) > 0
      <3>1. /\ X(<<1, 0>>) = 1 /\ Y(<<1, 0>>) = 0 /\ X(<<-1, 0>>) = -1 /\ Y(<<-1, 0>>) = 0
            /\ X(<<0, 1>>) = 0 /\ Y(<<0, 1>>) = 1 /\ X(<<0, -1>>) = 0 /\ Y(<<0, -1>>) = -1
        BY DEF X, Y
      <3>2. CASE a > 0
        <4>1. a * X(<<1, 0>>) + b * Y(<<1, 0>>) > 0
          BY <3>1, <3>2
        <4> QED
          BY <4>1 DEF Sides
      <3>3. CASE a < 0
        <4>1. a * X(<<-1, 0>>) + b * Y(<<-1, 0>>) > 0
          BY <3>1, <3>3
        <4> QED
          BY <4>1 DEF Sides
      <3>4. CASE b > 0
        <4>1. a * X(<<0, 1>>) + b * Y(<<0, 1>>) > 0
          BY <3>1, <3>4
        <4> QED
          BY <4>1 DEF Sides
      <3>5. CASE b < 0
        <4>1. a * X(<<0, -1>>) + b * Y(<<0, -1>>) > 0
          BY <3>1, <3>5
        <4> QED
          BY <4>1 DEF Sides
      <3> QED
        BY <3>2, <3>3, <3>4, <3>5
    <2> DEFINE q == <<X(p) + X(d), Y(p) + Y(d)>>
    <2>2. q \in region
      BY <1>3, InnerPixel
    <2>3. X(q) = X(p) + X(d) /\ Y(q) = Y(p) + Y(d)
      BY DEF X, Y
    <2> HIDE DEF q
    <2>4. X(p) \in Int /\ Y(p) \in Int /\ X(d) \in Int /\ Y(d) \in Int
      <3>1. p \in Points /\ d \in Points
        BY <1>1 DEF Sides, Points
      <3> QED
        BY <3>1, PointFacts
    <2>5. Reach(a, b, q) = Reach(a, b, p) + (a * X(d) + b * Y(d))
      <3>1. a * X(q) = a * X(p) + a * X(d) /\ b * Y(q) = b * Y(p) + b * Y(d)
        BY <2>3, <2>4, Z3
      <3>2. a * X(p) \in Int /\ a * X(d) \in Int /\ b * Y(p) \in Int /\ b * Y(d) \in Int
        BY <2>4, Product2
      <3> QED
        BY <3>1, <3>2 DEF Reach
    <2>6. Reach(a, b, p) \in Int /\ a * X(d) \in Int /\ b * Y(d) \in Int
      BY <1>1, <2>4, ReachType, Product2
    <2>7. Reach(a, b, q) <= Reach(a, b, p)
      BY <1>2, <2>2
    <2> QED
      BY <2>1, <2>5, <2>6, <2>7
  <1> QED
    BY <1>2, <1>3

\* The hull of the boundary reaches as far as the region, in every direction.
LEMMA RegionCovered ==
  ASSUME NEW map, IsMap(map), NEW region, Closed(Bitmap(map), region),
         NEW s, Sorted(s, Boundary(map, Bitmap(map), region)), Len(s) >= 3,
         NEW a \in Int, NEW b \in Int, a # 0 \/ b # 0, NEW p \in region, HullOf(s) \in Seq(Points)
  PROVE  Covered(a, b, p, HullOf(s))
  <1> DEFINE B == Boundary(map, Bitmap(map), region)
             h == HullOf(s)
  <1>1. region \in SUBSET Points /\ B \in SUBSET region
    BY BitmapType DEF Closed, Boundary
  <1>2. s \in Seq(Points) /\ Rising(s)
    <2>1. B \in SUBSET Points
      BY <1>1
    <2> QED
      BY <2>1, SortedRises
  <1>3. PICK q \in B : Reach(a, b, p) <= Reach(a, b, q)
    BY BoundaryFar
  <1>4. PICK m \in 1..Len(s) : s[m] = q
    BY DEF Sorted
  <1>5. Covered(a, b, q, h)
    <2>1. Covered(a, b, s[m], h)
      BY <1>2, HullCovers
    <2> QED
      BY <1>4, <2>1
  <1> HIDE DEF B, h
  <1>6. PICK j \in 1..Len(h) : Reach(a, b, q) <= Reach(a, b, h[j])
    BY <1>5 DEF Covered
  <1>7. p \in Points /\ q \in Points /\ h[j] \in Points
    BY <1>1, <1>6 DEF h
  <1>8. Reach(a, b, p) \in Int /\ Reach(a, b, q) \in Int /\ Reach(a, b, h[j]) \in Int
    BY <1>7, ReachType
  <1>9. Reach(a, b, p) <= Reach(a, b, h[j])
    BY <1>3, <1>6, <1>8
  <1> QED
    BY <1>9 DEF Covered, h

\* The lengths along and across a direction are reaches.
LEMMA AlongReach ==
  ASSUME NEW d \in Points, NEW p \in Points
  PROVE  /\ Reach(X(d), Y(d), p) = AlongU(d, p) /\ Reach(-X(d), -Y(d), p) = -AlongU(d, p)
         /\ Reach(-Y(d), X(d), p) = AlongV(d, p) /\ Reach(Y(d), -X(d), p) = -AlongV(d, p)
  <1> DEFINE x == X(d)
             y == Y(d)
             m == X(p)
             n == Y(p)
  <1>1. x \in Int /\ y \in Int /\ m \in Int /\ n \in Int
    BY PointFacts
  <1> HIDE DEF x, y, m, n
  <1>2. /\ x * m + y * n = m * x + n * y /\ (-x) * m + (-y) * n = -(m * x + n * y)
        /\ (-y) * m + x * n = n * x - m * y /\ y * m + (-x) * n = -(n * x - m * y)
    BY <1>1, Z3
  <1> QED
    BY <1>2 DEF Reach, AlongU, AlongV, x, y, m, n

\* The rectangle of a region, made for the hull of its boundary, encloses the region.
LEMMA RegionEnclosed ==
  ASSUME NEW map, IsMap(map), NEW region, Closed(Bitmap(map), region),
         NEW box, BoxFor(map, Bitmap(map), region, box)
  PROVE  Encloses(box.rectangle, region)
  <1> DEFINE s == Kernel(map, Bitmap(map), region)
             h == HullOf(s)
             r == box.rectangle
             d == r.d
  <1>1. /\ Sorted(s, Boundary(map, Bitmap(map), region)) /\ Len(s) >= 3 /\ IsRound(h, s)
        /\ r = minimum_rectangle(h)
    BY DEF BoxFor
  <1>2. r \in RectangleType /\ Encloses(r, {h[j] : j \in DOMAIN h})
    BY <1>1, RectangleIs
  <1>3. h \in Seq(Points)
    BY <1>1 DEF IsRound
  <1> HIDE DEF s, h, r
  <1>4. d \in Points /\ d # Origin /\ {r.minU, r.maxU, r.minV, r.maxV} \subseteq Int
    BY <1>2 DEF RectangleType
  <1>5. X(d) \in Int /\ Y(d) \in Int /\ (X(d) # 0 \/ Y(d) # 0)
    <2>1. X(d) \in Int /\ Y(d) \in Int /\ d = <<X(d), Y(d)>>
      BY <1>4, PointFacts
    <2> QED
      BY <1>4, <2>1 DEF Origin
  <1>6. ASSUME NEW j \in 1..Len(h)
        PROVE  /\ h[j] \in Points
               /\ r.minU <= AlongU(d, h[j]) /\ AlongU(d, h[j]) <= r.maxU
               /\ r.minV <= AlongV(d, h[j]) /\ AlongV(d, h[j]) <= r.maxV
    <2>1. h[j] \in Points /\ j \in DOMAIN h
      BY <1>3
    <2>2. Inside(r, h[j])
      BY <1>2, <2>1 DEF Encloses
    <2> QED
      BY <1>4, <2>1, <2>2, AlongType DEF Inside
  <1>7. ASSUME NEW p \in region PROVE Inside(r, p)
    <2>1. p \in Points
      BY BitmapType DEF Closed
    <2> HIDE DEF d
    <2>2. \A a, b \in Int : a # 0 \/ b # 0 => Covered(a, b, p, h)
      BY <1>1, <1>3, RegionCovered DEF h
    <2>3. /\ Covered(X(d), Y(d), p, h) /\ Covered(-X(d), -Y(d), p, h)
          /\ Covered(-Y(d), X(d), p, h) /\ Covered(Y(d), -X(d), p, h)
      <3>1. -X(d) \in Int /\ -Y(d) \in Int /\ (-X(d) # 0 \/ -Y(d) # 0)
        BY <1>5
      <3> QED
        BY <1>5, <2>2, <3>1
    <2>4. AlongU(d, p) \in Int /\ AlongV(d, p) \in Int
      BY <1>4, <2>1, AlongType DEF d
    <2>5. \A j \in 1..Len(h) : AlongU(d, h[j]) \in Int /\ AlongV(d, h[j]) \in Int
      BY <1>4, <1>6, AlongType DEF d
    <2>d. d \in Points
      BY <1>4 DEF d
    <2>6. AlongU(d, p) <= r.maxU
      <3>1. PICK j \in 1..Len(h) : Reach(X(d), Y(d), p) <= Reach(X(d), Y(d), h[j])
        BY <2>3 DEF Covered
      <3>2. AlongU(d, p) <= AlongU(d, h[j])
        BY <1>6, <2>1, <2>d, <3>1, AlongReach
      <3>3. AlongU(d, h[j]) <= r.maxU
        BY <1>6 DEF d
      <3> QED
        BY <1>4, <2>4, <2>5, <3>2, <3>3
    <2>7. r.minU <= AlongU(d, p)
      <3>1. PICK j \in 1..Len(h) : Reach(-X(d), -Y(d), p) <= Reach(-X(d), -Y(d), h[j])
        BY <2>3 DEF Covered
      <3>2. -AlongU(d, p) <= -AlongU(d, h[j])
        BY <1>6, <2>1, <2>d, <3>1, AlongReach
      <3>3. r.minU <= AlongU(d, h[j])
        BY <1>6 DEF d
      <3> QED
        BY <1>4, <2>4, <2>5, <3>2, <3>3
    <2>8. AlongV(d, p) <= r.maxV
      <3>1. PICK j \in 1..Len(h) : Reach(-Y(d), X(d), p) <= Reach(-Y(d), X(d), h[j])
        BY <2>3 DEF Covered
      <3>2. AlongV(d, p) <= AlongV(d, h[j])
        BY <1>6, <2>1, <2>d, <3>1, AlongReach
      <3>3. AlongV(d, h[j]) <= r.maxV
        BY <1>6 DEF d
      <3> QED
        BY <1>4, <2>4, <2>5, <3>2, <3>3
    <2>9. r.minV <= AlongV(d, p)
      <3>1. PICK j \in 1..Len(h) : Reach(Y(d), -X(d), p) <= Reach(Y(d), -X(d), h[j])
        BY <2>3 DEF Covered
      <3>2. -AlongV(d, p) <= -AlongV(d, h[j])
        BY <1>6, <2>1, <2>d, <3>1, AlongReach
      <3>3. r.minV <= AlongV(d, h[j])
        BY <1>6 DEF d
      <3> QED
        BY <1>4, <2>4, <2>5, <3>2, <3>3
    <2> QED
      BY <1>4, <2>4, <2>6, <2>7, <2>8, <2>9 DEF Inside, d
  <1>8. Encloses(r, region)
    BY <1>7 DEF Encloses
  <1> QED
    BY <1>8 DEF r

-----------------------------------------------------------------------------
(* The corners of a box are named clockwise *)

\* Four points, each of which is reached by a turn to the right.
Turning(a, b, c, e) == Cross(a, b, c) > 0 /\ Cross(b, c, e) > 0 /\ Cross(c, e, a) > 0 /\ Cross(e, a, b) > 0

LEMMA TurningRound ==
  ASSUME NEW a, NEW b, NEW c, NEW e, Turning(a, b, c, e)
  PROVE  GoesRound(<<a, b, c, e>>)
  <1> DEFINE quad == <<a, b, c, e>>
  <1>1. quad[1] = a /\ quad[2] = b /\ quad[3] = c /\ quad[4] = e
    OBVIOUS
  <1>2. /\ (1 % 4) + 1 = 2 /\ (2 % 4) + 1 = 3 /\ (3 % 4) + 1 = 4 /\ (4 % 4) + 1 = 1
        /\ ((1 + 1) % 4) + 1 = 3 /\ ((2 + 1) % 4) + 1 = 4
        /\ ((3 + 1) % 4) + 1 = 1 /\ ((4 + 1) % 4) + 1 = 2
    OBVIOUS
  <1> HIDE DEF quad
  <1>3. ASSUME NEW i \in 1..4
        PROVE  Cross(quad[i], quad[(i % 4) + 1], quad[((i + 1) % 4) + 1]) > 0
    <2>1. i = 1 \/ i = 2 \/ i = 3 \/ i = 4
      OBVIOUS
    <2>2. CASE i = 1
      BY <1>1, <1>2, <2>2 DEF Turning
    <2>3. CASE i = 2
      BY <1>1, <1>2, <2>3 DEF Turning
    <2>4. CASE i = 3
      BY <1>1, <1>2, <2>4 DEF Turning
    <2>5. CASE i = 4
      BY <1>1, <1>2, <2>5 DEF Turning
    <2> QED
      BY <2>1, <2>2, <2>3, <2>4, <2>5
  <1>4. GoesRound(quad)
    BY <1>3 DEF GoesRound
  <1> QED
    BY <1>4 DEF quad

\* The corners a, b, c and e of a rectangle: b lies P and Q from a, e lies -S and R.
Framed(a, b, c, e, P, Q, R, S) ==
  /\ {P, Q, R, S} \subseteq Int /\ {a, b, c, e} \subseteq Points
  /\ X(b) = X(a) + P /\ Y(b) = Y(a) + Q
  /\ X(c) = X(a) + P - S /\ Y(c) = Y(a) + Q + R
  /\ X(e) = X(a) - S /\ Y(e) = Y(a) + R
  /\ P * R + Q * S > 0

LEMMA FramedTurns ==
  ASSUME NEW a, NEW b, NEW c, NEW e, NEW P, NEW Q, NEW R, NEW S, Framed(a, b, c, e, P, Q, R, S)
  PROVE  Turning(a, b, c, e)
  <1>1. P \in Int /\ Q \in Int /\ R \in Int /\ S \in Int /\ X(a) \in Int /\ Y(a) \in Int
    BY PointFacts DEF Framed
  <1>2. /\ X(b) - X(a) = P /\ Y(b) - Y(a) = Q /\ X(c) - X(a) = P - S /\ Y(c) - Y(a) = Q + R
        /\ X(c) - X(b) = -S /\ Y(c) - Y(b) = R /\ X(e) - X(b) = -S - P /\ Y(e) - Y(b) = R - Q
        /\ X(e) - X(c) = -P /\ Y(e) - Y(c) = -Q /\ X(a) - X(c) = S - P /\ Y(a) - Y(c) = -Q - R
        /\ X(a) - X(e) = S /\ Y(a) - Y(e) = -R /\ X(b) - X(e) = S + P /\ Y(b) - Y(e) = Q - R
    BY <1>1 DEF Framed
  <1>3. /\ P * (Q + R) - Q * (P - S) = P * R + Q * S
        /\ (-S) * (R - Q) - R * (-S - P) = P * R + Q * S
        /\ (-P) * (-Q - R) - (-Q) * (S - P) = P * R + Q * S
        /\ S * (Q - R) - (-R) * (S + P) = P * R + Q * S
    BY <1>1, Z3
  <1>4. P * R + Q * S > 0
    BY DEF Framed
  <1> QED
    BY <1>2, <1>3, <1>4 DEF Turning, Cross

\* A sequence of four points which come one before the other.
InTurn(s, p1, p2, p3, p4) == s[1] = p1 /\ s[2] = p2 /\ s[3] = p3 /\ s[4] = p4

LEMMA SortedFour ==
  ASSUME NEW T \in SUBSET Points, NEW s, Sorted(s, T), Len(s) = 4,
         NEW p1 \in T, NEW p2 \in T, NEW p3 \in T, NEW p4 \in T,
         PointBefore(p1, p2), PointBefore(p2, p3), PointBefore(p3, p4)
  PROVE  InTurn(s, p1, p2, p3, p4)
  <1>1. /\ \A i, j \in 1..4 : i < j => PointBefore(s[i], s[j])
        /\ \A p \in T : \E i \in 1..4 : s[i] = p
        /\ \A i \in 1..4 : s[i] \in Points
    <2>1. \A i \in 1..4 : s[i] \in T
      <3>1. s \in Seq(T)
        BY DEF Sorted
      <3> QED
        BY <3>1, Members
    <2>2. /\ \A i, j \in 1..4 : i < j => PointBefore(s[i], s[j])
          /\ \A p \in T : \E i \in 1..4 : s[i] = p
      BY DEF Sorted
    <2> QED
      BY <2>1, <2>2
  <1>2. ASSUME NEW i \in 1..4, NEW j \in 1..4, PointBefore(s[i], s[j]) PROVE i < j
    <2>1. s[i] \in Points /\ s[j] \in Points
      BY <1>1
    <2>2. CASE i = j
      <3>1. ~PointBefore(s[i], s[i])
        BY <2>1, PointFacts
      <3> QED
        BY <1>2, <2>2, <3>1
    <2>3. CASE j < i
      <3>1. PointBefore(s[j], s[i]) /\ s[i] # s[j]
        BY <1>1, <1>2, <2>1, <2>3, PointFacts
      <3> QED
        BY <1>2, <2>1, <3>1, PointFacts
    <2> QED
      BY <2>2, <2>3
  <1>3. PICK i \in 1..4 : s[i] = p1
    BY <1>1
  <1>4. PICK j \in 1..4 : s[j] = p2
    BY <1>1
  <1>5. PICK k \in 1..4 : s[k] = p3
    BY <1>1
  <1>6. PICK l \in 1..4 : s[l] = p4
    BY <1>1
  <1>7. i < j /\ j < k /\ k < l
    BY <1>2, <1>3, <1>4, <1>5, <1>6
  <1>8. i = 1 /\ j = 2 /\ k = 3 /\ l = 4
    BY <1>7
  <1> QED
    BY <1>3, <1>4, <1>5, <1>6, <1>8 DEF InTurn

\* With the edge from a to b to the right and not up, the naming starts at a or at e.
LEMMA ClockwiseFrom ==
  ASSUME NEW a, NEW b, NEW c, NEW e, NEW P, NEW Q, NEW R, NEW S, Framed(a, b, c, e, P, Q, R, S),
         P > 0, R > 0, Q >= 0, S >= 0, Q = 0 <=> S = 0,
         NEW s, Sorted(s, {a, b, c, e}), Len(s) = 4
  PROVE  GoesRound(FromUpperLeft(s))
  <1> DEFINE T == {a, b, c, e}
  <1>1. P \in Int /\ Q \in Int /\ R \in Int /\ S \in Int /\ X(a) \in Int /\ Y(a) \in Int
    BY PointFacts DEF Framed
  <1>2. /\ X(b) = X(a) + P /\ Y(b) = Y(a) + Q
        /\ X(c) = X(a) + P - S /\ Y(c) = Y(a) + Q + R
        /\ X(e) = X(a) - S /\ Y(e) = Y(a) + R
    BY DEF Framed
  <1>3. T \in SUBSET Points /\ a \in T /\ b \in T /\ c \in T /\ e \in T
    BY DEF Framed
  <1>4. Sorted(s, T)
    OBVIOUS
  <1>5. Turning(a, b, c, e)
    BY FramedTurns
  <1> HIDE DEF T
  <1>6. CASE Q = 0
    <2>1. PointBefore(a, e) /\ PointBefore(e, b) /\ PointBefore(b, c)
      BY <1>1, <1>2, <1>6 DEF PointBefore
    <2>2. InTurn(s, a, e, b, c)
      BY <1>3, <1>4, <2>1, SortedFour
    <2>3. Upper(a, e) = a /\ Lower(a, e) = e /\ Upper(b, c) = b /\ Lower(b, c) = c
      BY <1>1, <1>2 DEF Upper, Lower
    <2>4. FromUpperLeft(s) = <<a, b, c, e>>
      BY <2>2, <2>3 DEF FromUpperLeft, InTurn
    <2> QED
      BY <1>5, <2>4, TurningRound
  <1>7. CASE Q # 0 /\ P >= S
    <2>1. PointBefore(e, a) /\ PointBefore(a, c) /\ PointBefore(c, b)
      BY <1>1, <1>2, <1>7 DEF PointBefore
    <2>2. InTurn(s, e, a, c, b)
      BY <1>3, <1>4, <2>1, SortedFour
    <2>3. Upper(e, a) = a /\ Lower(e, a) = e /\ Upper(c, b) = b /\ Lower(c, b) = c
      BY <1>1, <1>2 DEF Upper, Lower
    <2>4. FromUpperLeft(s) = <<a, b, c, e>>
      BY <2>2, <2>3 DEF FromUpperLeft, InTurn
    <2> QED
      BY <1>5, <2>4, TurningRound
  <1>8. CASE Q # 0 /\ P < S
    <2>1. PointBefore(e, c) /\ PointBefore(c, a) /\ PointBefore(a, b)
      BY <1>1, <1>2, <1>8 DEF PointBefore
    <2>2. InTurn(s, e, c, a, b)
      BY <1>3, <1>4, <2>1, SortedFour
    <2>3. Upper(e, c) = e /\ Lower(e, c) = c /\ Upper(a, b) = a /\ Lower(a, b) = b
      BY <1>1, <1>2, <1>8 DEF Upper, Lower
    <2>4. FromUpperLeft(s) = <<e, a, b, c>>
      BY <2>2, <2>3 DEF FromUpperLeft, InTurn
    <2>5. Turning(e, a, b, c)
      BY <1>5 DEF Turning
    <2> QED
      BY <2>4, <2>5, TurningRound
  <1> QED
    BY <1>1, <1>6, <1>7, <1>8

\* In each of the four quarters of the plane the direction lies in, one corner takes
\* the place of a.
LEMMA FramedRound ==
  ASSUME NEW a, NEW b, NEW c, NEW e, NEW P, NEW Q, NEW R, NEW S, Framed(a, b, c, e, P, Q, R, S),
         P > 0 <=> R > 0, P < 0 <=> R < 0, Q > 0 <=> S > 0, Q < 0 <=> S < 0,
         NEW s, Sorted(s, {a, b, c, e}), Len(s) = 4
  PROVE  GoesRound(FromUpperLeft(s))
  <1>1. /\ P \in Int /\ Q \in Int /\ R \in Int /\ S \in Int
        /\ {a, b, c, e} \subseteq Points /\ X(a) \in Int /\ Y(a) \in Int
    BY PointFacts DEF Framed
  <1>2. /\ X(b) = X(a) + P /\ Y(b) = Y(a) + Q
        /\ X(c) = X(a) + P - S /\ Y(c) = Y(a) + Q + R
        /\ X(e) = X(a) - S /\ Y(e) = Y(a) + R
    BY DEF Framed
  <1>3. P * R + Q * S > 0
    BY DEF Framed
  <1>4. P # 0 \/ Q # 0
    BY <1>1, <1>3
  <1>n. /\ (-P) * (-R) + (-Q) * (-S) = P * R + Q * S
        /\ S * Q + (-R) * (-P) = P * R + Q * S
        /\ (-S) * (-Q) + R * P = P * R + Q * S
    BY <1>1, Z3
  <1>5. CASE P > 0 /\ Q >= 0
    <2>1. R > 0 /\ S >= 0 /\ (Q = 0 <=> S = 0)
      BY <1>1, <1>5
    <2> QED
      BY <1>5, <2>1, ClockwiseFrom
  <1>6. CASE P <= 0 /\ Q > 0
    <2> DEFINE P1 == S
               Q1 == -R
               R1 == Q
               S1 == -P
    <2>1. P1 > 0 /\ R1 > 0 /\ Q1 >= 0 /\ S1 >= 0 /\ (Q1 = 0 <=> S1 = 0)
      BY <1>1, <1>6
    <2>2. /\ X(a) = X(e) + P1 /\ Y(a) = Y(e) + Q1
          /\ X(b) = X(e) + P1 - S1 /\ Y(b) = Y(e) + Q1 + R1
          /\ X(c) = X(e) - S1 /\ Y(c) = Y(e) + R1 /\ {P1, Q1, R1, S1} \subseteq Int
      BY <1>1, <1>2
    <2>3. P1 * R1 + Q1 * S1 > 0 /\ {e, a, b, c} \subseteq Points /\ {e, a, b, c} = {a, b, c, e}
      BY <1>1, <1>3, <1>n
    <2> HIDE DEF P1, Q1, R1, S1
    <2>4. Framed(e, a, b, c, P1, Q1, R1, S1)
      BY <2>2, <2>3 DEF Framed
    <2>5. Sorted(s, {e, a, b, c})
      BY <2>3
    <2> QED
      BY <2>1, <2>4, <2>5, ClockwiseFrom
  <1>7. CASE P < 0 /\ Q <= 0
    <2> DEFINE P1 == -P
               Q1 == -Q
               R1 == -R
               S1 == -S
    <2>1. P1 > 0 /\ R1 > 0 /\ Q1 >= 0 /\ S1 >= 0 /\ (Q1 = 0 <=> S1 = 0)
      BY <1>1, <1>7
    <2>2. /\ X(e) = X(c) + P1 /\ Y(e) = Y(c) + Q1
          /\ X(a) = X(c) + P1 - S1 /\ Y(a) = Y(c) + Q1 + R1
          /\ X(b) = X(c) - S1 /\ Y(b) = Y(c) + R1 /\ {P1, Q1, R1, S1} \subseteq Int
      BY <1>1, <1>2
    <2>3. P1 * R1 + Q1 * S1 > 0 /\ {c, e, a, b} \subseteq Points /\ {c, e, a, b} = {a, b, c, e}
      BY <1>1, <1>3, <1>n
    <2> HIDE DEF P1, Q1, R1, S1
    <2>4. Framed(c, e, a, b, P1, Q1, R1, S1)
      BY <2>2, <2>3 DEF Framed
    <2>5. Sorted(s, {c, e, a, b})
      BY <2>3
    <2> QED
      BY <2>1, <2>4, <2>5, ClockwiseFrom
  <1>8. CASE P >= 0 /\ Q < 0
    <2> DEFINE P1 == -S
               Q1 == R
               R1 == -Q
               S1 == P
    <2>1. P1 > 0 /\ R1 > 0 /\ Q1 >= 0 /\ S1 >= 0 /\ (Q1 = 0 <=> S1 = 0)
      BY <1>1, <1>8
    <2>2. /\ X(c) = X(b) + P1 /\ Y(c) = Y(b) + Q1
          /\ X(e) = X(b) + P1 - S1 /\ Y(e) = Y(b) + Q1 + R1
          /\ X(a) = X(b) - S1 /\ Y(a) = Y(b) + R1 /\ {P1, Q1, R1, S1} \subseteq Int
      BY <1>1, <1>2
    <2>3. P1 * R1 + Q1 * S1 > 0 /\ {b, c, e, a} \subseteq Points /\ {b, c, e, a} = {a, b, c, e}
      BY <1>1, <1>3, <1>n
    <2> HIDE DEF P1, Q1, R1, S1
    <2>4. Framed(b, c, e, a, P1, Q1, R1, S1)
      BY <2>2, <2>3 DEF Framed
    <2>5. Sorted(s, {b, c, e, a})
      BY <2>3
    <2> QED
      BY <2>1, <2>4, <2>5, ClockwiseFrom
  <1> QED
    BY <1>1, <1>4, <1>5, <1>6, <1>7, <1>8

\* A product with a positive number has the sign of the other.
LEMMA SignOf ==
  ASSUME NEW m \in Int, m > 0, NEW n \in Int
  PROVE  m * n \in Int /\ (m * n > 0 <=> n > 0) /\ (m * n < 0 <=> n < 0)
  BY Z3

LEMMA CornersFramed ==
  ASSUME NEW d \in Points \ {Origin}, NEW u0 \in Int, NEW u1 \in Int, NEW v0 \in Int, NEW v1 \in Int,
         u0 < u1, v0 < v1
  PROVE  Framed(At(d, u0, v0), At(d, u1, v0), At(d, u1, v1), At(d, u0, v1),
                (u1 - u0) * X(d), (u1 - u0) * Y(d), (v1 - v0) * X(d), (v1 - v0) * Y(d))
  <1> DEFINE x == X(d)
             y == Y(d)
             m == u1 - u0
             n == v1 - v0
             a == At(d, u0, v0)
             b == At(d, u1, v0)
             c == At(d, u1, v1)
             e == At(d, u0, v1)
  <1>1. x \in Int /\ y \in Int /\ (x # 0 \/ y # 0)
    <2>1. d \in Points /\ d # Origin
      OBVIOUS
    <2>2. X(d) \in Int /\ Y(d) \in Int /\ d = <<X(d), Y(d)>>
      BY <2>1, PointFacts
    <2> QED
      BY <2>1, <2>2 DEF Origin
  <1>2. {a, b, c, e} \subseteq Points
    BY AtIs
  <1>3. /\ X(a) = u0 * x - v0 * y /\ Y(a) = u0 * y + v0 * x
        /\ X(b) = u1 * x - v0 * y /\ Y(b) = u1 * y + v0 * x
        /\ X(c) = u1 * x - v1 * y /\ Y(c) = u1 * y + v1 * x
        /\ X(e) = u0 * x - v1 * y /\ Y(e) = u0 * y + v1 * x
    BY DEF At, X, Y
  <1> HIDE DEF a, b, c, e, x, y
  <1>4. /\ m * x = u1 * x - u0 * x /\ m * y = u1 * y - u0 * y
        /\ n * x = v1 * x - v0 * x /\ n * y = v1 * y - v0 * y
    BY <1>1, Z3
  <1>5. /\ u0 * x \in Int /\ u0 * y \in Int /\ u1 * x \in Int /\ u1 * y \in Int
        /\ v0 * x \in Int /\ v0 * y \in Int /\ v1 * x \in Int /\ v1 * y \in Int
    BY <1>1, Product2
  <1>6. /\ X(b) = X(a) + m * x /\ Y(b) = Y(a) + m * y
        /\ X(c) = X(a) + m * x - n * y /\ Y(c) = Y(a) + m * y + n * x
        /\ X(e) = X(a) - n * y /\ Y(e) = Y(a) + n * x
    BY <1>3, <1>4, <1>5
  <1>7. m \in Int /\ m > 0 /\ n \in Int /\ n > 0
    OBVIOUS
  <1> HIDE DEF m, n
  <1>8. (m * x) * (n * x) + (m * y) * (n * y) > 0
    <2>1. (m * x) * (n * x) + (m * y) * (n * y) = (m * n) * (x * x + y * y)
      BY <1>1, <1>7, Z3
    <2>2. m * n \in Int /\ m * n > 0
      BY <1>7, ProductPositive
    <2>3. x * x + y * y \in Nat \ {0}
      BY <1>1, SquaresPositive
    <2>4. x * x + y * y \in Int /\ x * x + y * y > 0
      BY <2>3
    <2> QED
      BY <2>1, <2>2, <2>4, ProductPositive
  <1>9. {m * x, m * y, n * x, n * y} \subseteq Int
    BY <1>1, <1>7, Product2
  <1>10. Framed(a, b, c, e, m * x, m * y, n * x, n * y)
    BY <1>2, <1>6, <1>8, <1>9 DEF Framed
  <1> QED
    BY <1>10 DEF a, b, c, e, m, n, x, y

LEMMA ClockwiseRound ==
  ASSUME NEW r \in RectangleType, Area(r) > 0
  PROVE  GoesRound(Clockwise(Corners(r)))
  <1>1. PICK u0, u1, v0, v1 : CornersAt(r, u0, u1, v0, v1)
    BY CornersIs
  <1> DEFINE d == r.d
             m == u1 - u0
             n == v1 - v0
             s == SortedPoints(Corners(r))
             a == At(d, u0, v0)
             b == At(d, u1, v0)
             c == At(d, u1, v1)
             e == At(d, u0, v1)
  <1>2. /\ u0 \in Int /\ u1 \in Int /\ v0 \in Int /\ v1 \in Int /\ u0 < u1 /\ v0 < v1
        /\ Corners(r) = {a, b, c, e}
    BY <1>1 DEF CornersAt
  <1>3. d \in Points \ {Origin}
    BY DEF RectangleType
  <1>4. Sorted(s, Corners(r)) /\ Len(s) = 4
    BY CornersAreFour, SortedIs DEF Sorted
  <1>5. Framed(a, b, c, e, m * X(d), m * Y(d), n * X(d), n * Y(d))
    <2> HIDE DEF d
    <2> QED
      BY <1>2, <1>3, CornersFramed
  <1>6. m \in Int /\ m > 0 /\ n \in Int /\ n > 0 /\ X(d) \in Int /\ Y(d) \in Int
    BY <1>2, <1>3, PointFacts
  <1>7. Clockwise(Corners(r)) = FromUpperLeft(s)
    BY DEF Clockwise
  <1>8. Sorted(s, {a, b, c, e})
    BY <1>2, <1>4
  <1> HIDE DEF s, a, b, c, e, d, m, n
  <1> DEFINE P == m * X(d)
             Q == m * Y(d)
             R == n * X(d)
             S == n * Y(d)
  <1>9. /\ (P > 0 <=> R > 0) /\ (P < 0 <=> R < 0) /\ (Q > 0 <=> S > 0) /\ (Q < 0 <=> S < 0)
    BY <1>6, SignOf
  <1>10. Framed(a, b, c, e, P, Q, R, S)
    BY <1>5
  <1> HIDE DEF P, Q, R, S
  <1> QED
    BY <1>4, <1>7, <1>8, <1>9, <1>10, FramedRound

-----------------------------------------------------------------------------
(* Boxes are regions *)

LEMMA BoxIsARegion ==
  ASSUME NEW map, IsMap(map), NEW start \in Bitmap(map), NEW region,
         region = Flood(Bitmap(map), start), NEW box, BoxFor(map, Bitmap(map), region, box)
  PROVE  BoxIsRegion(map, Bitmap(map), box)
  <1> DEFINE bitmap == Bitmap(map)
             r == box.rectangle
             quad == box.quad
  <1>1. bitmap \in SUBSET Points /\ IsFiniteSet(bitmap)
    BY BitmapType
  <1>2. Closed(bitmap, region)
    <2> HIDE DEF bitmap
    <2>1. Closed(bitmap, Flood(bitmap, start))
      BY <1>1, FloodIs DEF bitmap
    <2> QED
      BY <2>1 DEF bitmap
  <1>3. IsComponent(bitmap, region)
    <2>1. IsComponent(bitmap, Flood(bitmap, start))
      BY <1>1, FloodIsComponent
    <2> QED
      BY <2>1
  <1>4. Encloses(r, region)
    BY <1>2, RegionEnclosed
  <1>5. /\ box.region = region /\ r \in RectangleType /\ Area(r) > 0 /\ quad \in Quads
        /\ quad = Clockwise(Corners(r)) /\ box.corners = Restored(map, r, quad)
    BY DEF BoxFor
  <1> HIDE DEF bitmap, r, quad
  <1>6. GoesRound(quad)
    BY <1>5, ClockwiseRound
  <1>7. InSource(map, box)
    BY <1>5, RestoredIs DEF InSource, r
  <1> QED
    BY <1>3, <1>4, <1>5, <1>6, <1>7 DEF BoxIsRegion, bitmap, r, quad

LEMMA MapAreRegions ==
  ASSUME NEW map, IsMap(map)
  PROVE  AreRegions(map, lw_db_postprocess_f32(map), Len(lw_db_postprocess_f32(map)))
  <1> DEFINE bitmap == Bitmap(map)
             boxes == lw_db_postprocess_f32(map)
             c == Components(bitmap)
  <1>1. BoxList(map, bitmap, c, Len(c), boxes)
    BY BoxesAre
  <1>2. Regions(bitmap, c)
    <2>1. bitmap \in SUBSET Points /\ IsFiniteSet(bitmap)
      BY BitmapType
    <2> HIDE DEF bitmap
    <2> QED
      BY <2>1, ComponentsAre
  <1> HIDE DEF c, boxes
  <1>3. ASSUME NEW i \in DOMAIN boxes PROVE BoxIsRegion(map, bitmap, boxes[i])
    <2>1. PICK k \in 1..Len(c) : BoxFor(map, bitmap, c[k], boxes[i])
      BY <1>1 DEF BoxList
    <2>2. PICK start \in bitmap : c[k] = Flood(bitmap, start)
      BY <1>2 DEF Regions
    <2> QED
      BY <2>1, <2>2, BoxIsARegion
  <1>4. \A i, j \in DOMAIN boxes : boxes[i].region = boxes[j].region => i = j
    BY <1>1 DEF BoxList
  <1> HIDE DEF bitmap
  <1>5. AreRegions(map, boxes, Len(boxes))
    BY <1>3, <1>4 DEF AreRegions, bitmap
  <1> QED
    BY <1>5 DEF boxes

-----------------------------------------------------------------------------
(* The detector's objects *)

Objects(kind) == {kind} \X Nat

\* There is always an object that is not allocated.
LEMMA AllocatedIsFresh ==
  ASSUME NEW objects, IsFiniteSet(objects), NEW kind
  PROVE  Allocated(kind, objects) \in Objects(kind) /\ Allocated(kind, objects) \notin objects
  <1> DEFINE c == Cardinality(objects)
             free == {n \in 0..c : <<kind, n>> \notin objects}
             FirstFree(n) == <<kind, n>> \notin objects /\ \A m \in 0..n - 1 : <<kind, m>> \in objects
  <1>1. c \in Nat
    BY FS_CardinalityType
  <1>2. ASSUME free = {} PROVE FALSE
    <2> DEFINE f == [n \in 0..c |-> <<kind, n>>]
    <2>1. f \in [0..c -> objects]
      BY <1>2
    <2>2. \A n, m \in 0..c : f[n] = f[m] => n = m
      OBVIOUS
    <2>3. 0 \in Int /\ c \in Int
      BY <1>1
    <2> HIDE DEF f
    <2>4. IsFiniteSet(0..c) /\ Cardinality(0..c) = IF 0 > c THEN 0 ELSE c - 0 + 1
      <3> HIDE DEF c
      <3> QED
        BY <2>3, FS_Interval
    <2>5. Cardinality(objects) < Cardinality(0..c)
      BY <1>1, <2>4
    <2>6. \E n, m \in 0..c : n # m /\ f[n] = f[m]
      BY <2>1, <2>4, <2>5, FS_PigeonHole
    <2> QED
      BY <2>2, <2>6
  <1>3. PICK n \in free : \A m \in free : n <= m
    <2>1. free \in SUBSET Nat
      BY <1>1
    <2> HIDE DEF free
    <2> QED
      BY <1>2, <2>1, LeastExists
  <1>4. n \in 0..c /\ FirstFree(n)
    <2>1. n \in 0..c /\ n \in Nat /\ <<kind, n>> \notin objects
      BY <1>1, <1>3
    <2>2. ASSUME NEW m \in 0..n - 1 PROVE <<kind, m>> \in objects
      <3>1. m \in 0..c /\ ~(n <= m)
        BY <1>1, <2>1
      <3>2. m \notin free
        BY <1>3, <3>1
      <3> QED
        BY <3>1, <3>2
    <2> QED
      BY <2>1, <2>2
  <1> DEFINE chosen == CHOOSE k \in 0..c : FirstFree(k)
  <1>5. chosen \in 0..c /\ FirstFree(chosen)
    <2> HIDE DEF FirstFree
    <2> QED
      BY <1>4
  <1>6. Allocated(kind, objects) = <<kind, chosen>>
    BY DEF Allocated
  <1> HIDE DEF chosen
  <1>7. chosen \in Nat
    BY <1>1, <1>5
  <1> QED
    BY <1>5, <1>6, <1>7 DEF Objects

Sizes == {FirstSize} \cup {image.size : image \in Images}

\* A handle with a session and its tensors.
Handles ==
  [handle : Objects("handle"), model : Objects("model"), session : Objects("session"),
   sessionSize : Sizes, sessionThreads : Nat, input : Objects("input"),
   probabilities : Objects("probabilities"), inputCount : {3 * size[1] * size[2] : size \in Sizes},
   probabilityCount : {size[1] * size[2] : size \in Sizes}, size : Sizes, threads : Nat,
   order : Orders]

\* The handle's parts are of their kinds and belong together, and they are what is
\* allocated.
Coherent(d, objects) ==
  /\ d \in Handles
  /\ objects = ObjectsOf(d)
  /\ d.sessionSize = d.size
  /\ d.inputCount = 3 * d.size[1] * d.size[2]
  /\ d.probabilityCount = d.size[1] * d.size[2]
  /\ d.sessionThreads = d.threads

\* Inductive: the kinds of the objects make them distinct.
DetectorInv == IF detector = NoDetector THEN heap = {} ELSE Coherent(detector, heap)

LEMMA KindsDiffer ==
  /\ \A x \in Objects("handle") : x \notin Objects("model") \cup Objects("session")
                                       \cup Objects("input") \cup Objects("probabilities") \cup {NoObject}
  /\ \A x \in Objects("model") : x \notin Objects("session") \cup Objects("input")
                                            \cup Objects("probabilities") \cup {NoObject}
  /\ \A x \in Objects("session") : x \notin Objects("input") \cup Objects("probabilities") \cup {NoObject}
  /\ \A x \in Objects("input") : x \notin Objects("probabilities") \cup {NoObject}
  /\ \A x \in Objects("probabilities") : x # NoObject
  BY DEF Objects, NoObject

LEMMA CoherentParts ==
  ASSUME NEW d, NEW objects, Coherent(d, objects)
  PROVE  /\ d # NoDetector /\ NoObject \notin objects /\ IsFiniteSet(objects)
         /\ d.handle \in Objects("handle") /\ d.model \in Objects("model")
         /\ d.session \in Objects("session") /\ d.input \in Objects("input")
         /\ d.probabilities \in Objects("probabilities")
         /\ d.session # NoObject /\ d.input # NoObject /\ d.probabilities # NoObject
  <1>1. d \in Handles /\ objects = {d.handle, d.model, d.session, d.input, d.probabilities}
    BY DEF Coherent, ObjectsOf
  <1>2. /\ d.handle \in Objects("handle") /\ d.model \in Objects("model")
        /\ d.session \in Objects("session") /\ d.input \in Objects("input")
        /\ d.probabilities \in Objects("probabilities")
    BY <1>1 DEF Handles
  <1>3. d # NoDetector
    <2>1. "model" \in DOMAIN d
      BY <1>1 DEF Handles
    <2>2. "model" \notin DOMAIN NoDetector
      BY DEF NoDetector
    <2> QED
      BY <2>1, <2>2
  <1>4. IsFiniteSet(objects)
    <2>1. IsFiniteSet({})
      BY FS_EmptySet
    <2>2. IsFiniteSet({} \cup {d.handle})
      BY <2>1, FS_AddElement
    <2>3. IsFiniteSet(({} \cup {d.handle}) \cup {d.model})
      BY <2>2, FS_AddElement
    <2>4. IsFiniteSet((({} \cup {d.handle}) \cup {d.model}) \cup {d.session})
      BY <2>3, FS_AddElement
    <2>5. IsFiniteSet(((({} \cup {d.handle}) \cup {d.model}) \cup {d.session}) \cup {d.input})
      BY <2>4, FS_AddElement
    <2>6. IsFiniteSet((((({} \cup {d.handle}) \cup {d.model}) \cup {d.session}) \cup {d.input})
                        \cup {d.probabilities})
      BY <2>5, FS_AddElement
    <2>7. objects = (((({} \cup {d.handle}) \cup {d.model}) \cup {d.session}) \cup {d.input})
                      \cup {d.probabilities}
      BY <1>1
    <2> QED
      BY <2>6, <2>7
  <1> QED
    BY <1>1, <1>2, <1>3, <1>4, KindsDiffer

\* A handle before its first session and after it.
Shells ==
  [handle : Objects("handle"), model : Objects("model"), session : Objects("session") \cup {NoObject},
   sessionSize : Sizes \cup {<<0, 0>>}, sessionThreads : Nat,
   input : Objects("input") \cup {NoObject},
   probabilities : Objects("probabilities") \cup {NoObject},
   inputCount : {3 * size[1] * size[2] : size \in Sizes} \cup {0},
   probabilityCount : {size[1] * size[2] : size \in Sizes} \cup {0},
   size : Sizes \cup {<<0, 0>>}, threads : Nat, order : Orders]

\* What was built for a size replaces what there was.
LEMMA RebuiltIsCoherent ==
  ASSUME NEW d \in Shells, NEW objects, IsFiniteSet(objects), objects = ObjectsOf(d) \ {NoObject},
         NEW size \in Sizes
  PROVE  LET session == Allocated("session", objects)
             input == Allocated("input", objects)
             probabilities == Allocated("probabilities", objects)
         IN Coherent(Rebuilt(d, size, session, input, probabilities),
                     (objects \cup {session, input, probabilities})
                       \ {d.probabilities, d.input, d.session})
  <1> DEFINE session == Allocated("session", objects)
             input == Allocated("input", objects)
             probabilities == Allocated("probabilities", objects)
             new == Rebuilt(d, size, session, input, probabilities)
             left == (objects \cup {session, input, probabilities})
                       \ {d.probabilities, d.input, d.session}
  <1>1. /\ session \in Objects("session") /\ session \notin objects
        /\ input \in Objects("input") /\ input \notin objects
        /\ probabilities \in Objects("probabilities") /\ probabilities \notin objects
    BY AllocatedIsFresh
  <1> HIDE DEF session, input, probabilities
  <1>2. /\ d.handle \in Objects("handle") /\ d.model \in Objects("model")
        /\ d.session \in Objects("session") \cup {NoObject}
        /\ d.input \in Objects("input") \cup {NoObject}
        /\ d.probabilities \in Objects("probabilities") \cup {NoObject}
        /\ d.threads \in Nat /\ d.order \in Orders
    BY DEF Shells
  <1>3. new = [d EXCEPT !.session = session, !.sessionSize = size, !.sessionThreads = d.threads,
                        !.input = input, !.probabilities = probabilities,
                        !.inputCount = 3 * size[1] * size[2],
                        !.probabilityCount = size[1] * size[2], !.size = size]
    BY DEF Rebuilt, SessionThreads
  <1>4. /\ new \in Handles
        /\ new.handle = d.handle /\ new.model = d.model /\ new.session = session
        /\ new.input = input /\ new.probabilities = probabilities
        /\ new.sessionSize = size /\ new.size = size /\ new.inputCount = 3 * size[1] * size[2]
        /\ new.probabilityCount = size[1] * size[2] /\ new.sessionThreads = d.threads
        /\ new.threads = d.threads
    <2> DEFINE three == 3 * size[1] * size[2]
               one == size[1] * size[2]
    <2>1. three \in {3 * k[1] * k[2] : k \in Sizes} /\ one \in {k[1] * k[2] : k \in Sizes}
      OBVIOUS
    <2> HIDE DEF three, one, new
    <2>2. new = [d EXCEPT !.session = session, !.sessionSize = size, !.sessionThreads = d.threads,
                          !.input = input, !.probabilities = probabilities,
                          !.inputCount = three, !.probabilityCount = one, !.size = size]
      BY <1>3 DEF three, one
    <2>3. /\ new.handle = d.handle /\ new.model = d.model /\ new.session = session
          /\ new.input = input /\ new.probabilities = probabilities
          /\ new.sessionSize = size /\ new.size = size /\ new.inputCount = three
          /\ new.probabilityCount = one /\ new.sessionThreads = d.threads
          /\ new.threads = d.threads /\ new.order = d.order
      BY <2>2 DEF Shells
    <2>4. new = [handle |-> new.handle, model |-> new.model, session |-> new.session,
                 sessionSize |-> new.sessionSize, sessionThreads |-> new.sessionThreads,
                 input |-> new.input, probabilities |-> new.probabilities,
                 inputCount |-> new.inputCount, probabilityCount |-> new.probabilityCount,
                 size |-> new.size, threads |-> new.threads, order |-> new.order]
      BY <2>2 DEF Shells
    <2>5. new \in Handles
      BY <1>1, <1>2, <2>1, <2>3, <2>4 DEF Handles
    <2> QED
      BY <2>3, <2>5 DEF three, one
  <1> HIDE DEF new
  <1>5. ObjectsOf(new) = {d.handle, d.model, session, input, probabilities}
    BY <1>4 DEF ObjectsOf
  <1>6. ObjectsOf(d) = {d.handle, d.model, d.session, d.input, d.probabilities}
    BY DEF ObjectsOf
  <1>7. left = {d.handle, d.model, session, input, probabilities}
    <2>1. /\ d.handle \notin {NoObject, d.session, d.input, d.probabilities}
          /\ d.model \notin {NoObject, d.session, d.input, d.probabilities}
      BY <1>2, KindsDiffer
    <2>2. /\ session # d.session /\ session # d.input /\ session # d.probabilities
          /\ input # d.session /\ input # d.input /\ input # d.probabilities
          /\ probabilities # d.session /\ probabilities # d.input /\ probabilities # d.probabilities
      <3>1. {session, input, probabilities} \cap {NoObject} = {}
        BY <1>1, KindsDiffer
      <3>2. \A x \in {d.session, d.input, d.probabilities} : x = NoObject \/ x \in objects
        BY <1>6
      <3> QED
        BY <1>1, <3>1, <3>2
    <2> QED
      BY <1>6, <2>1, <2>2
  <1> HIDE DEF left
  <1>8. Coherent(new, left)
    BY <1>4, <1>5, <1>7 DEF Coherent
  <1> QED
    BY <1>8 DEF new, left, session, input, probabilities

\* A handle that is complete or has its model only, and what is allocated for it.
Owner(d, objects) ==
  \/ Coherent(d, objects)
  \/ \E handle \in Objects("handle"), model \in Objects("model") :
       d = EmptyHandle(handle, model) /\ objects = {handle, model}

LEMMA OwnerIsShell ==
  ASSUME NEW d, NEW objects, Owner(d, objects)
  PROVE  d \in Shells /\ IsFiniteSet(objects) /\ objects = ObjectsOf(d) \ {NoObject}
  <1>1. CASE Coherent(d, objects)
    <2>1. IsFiniteSet(objects) /\ NoObject \notin objects
      BY <1>1, CoherentParts
    <2>2. d \in Handles /\ objects = ObjectsOf(d)
      BY <1>1 DEF Coherent
    <2>3. d \in Shells
      BY <2>2 DEF Handles, Shells
    <2> QED
      BY <2>1, <2>2, <2>3
  <1>2. ASSUME NEW handle \in Objects("handle"), NEW model \in Objects("model"),
               d = EmptyHandle(handle, model), objects = {handle, model}
        PROVE  d \in Shells /\ IsFiniteSet(objects) /\ objects = ObjectsOf(d) \ {NoObject}
    <2>1. IsFiniteSet(objects)
      <3>1. IsFiniteSet({})
        BY FS_EmptySet
      <3>2. IsFiniteSet({} \cup {handle})
        BY <3>1, FS_AddElement
      <3>3. IsFiniteSet(({} \cup {handle}) \cup {model})
        BY <3>2, FS_AddElement
      <3>4. objects = ({} \cup {handle}) \cup {model}
        BY <1>2
      <3> QED
        BY <3>3, <3>4
    <2>2. d \in Shells
      <3>1. HorizontalLtr \in Orders
        BY DEF Orders
      <3> QED
        BY <1>2, <3>1 DEF EmptyHandle, Shells
    <2>3. objects = ObjectsOf(d) \ {NoObject}
      <3>1. ObjectsOf(d) = {handle, model, NoObject}
        BY <1>2 DEF EmptyHandle, ObjectsOf
      <3>2. handle # NoObject /\ model # NoObject
        BY KindsDiffer
      <3> QED
        BY <1>2, <3>1, <3>2
    <2> QED
      BY <2>1, <2>2, <2>3
  <1> QED
    BY <1>1, <1>2 DEF Owner

\* ensure_session leaves the handle as it was or complete for the size.
LEMMA EnsuredIs ==
  ASSUME NEW d, NEW objects, Owner(d, objects), NEW size \in Sizes,
         NEW made \in Ensured(d, objects, size)
  PROVE  \/ made.status = "OK" /\ Coherent(made.detector, made.heap)
         \/ made.status = "FAILED" /\ made.detector = d /\ made.heap = objects
  <1> DEFINE session == Allocated("session", objects)
             input == Allocated("input", objects)
             probabilities == Allocated("probabilities", objects)
             Failed(built) == [detector |-> d, heap |-> (objects \cup built) \ built, status |-> "FAILED"]
             new == Rebuilt(d, size, session, input, probabilities)
             left == (objects \cup {session, input, probabilities})
                       \ {d.probabilities, d.input, d.session}
  <1>1. d \in Shells /\ IsFiniteSet(objects) /\ objects = ObjectsOf(d) \ {NoObject}
    BY OwnerIsShell
  <1>2. session \notin objects /\ input \notin objects /\ probabilities \notin objects
    BY <1>1, AllocatedIsFresh
  <1>3. Coherent(new, left)
    BY <1>1, RebuiltIsCoherent
  <1>4. Ensured(d, objects, size)
          = IF Fits(d, size) THEN {[detector |-> d, heap |-> objects, status |-> "OK"]}
            ELSE {Failed(built) : built \in {{}, {session}, {session, input}, {session, probabilities}}}
                 \cup {[detector |-> new, heap |-> left, status |-> "OK"]}
    BY Zenon DEF Ensured
  <1> HIDE DEF session, input, probabilities, new, left
  <1>5. CASE Fits(d, size)
    <2>1. made = [detector |-> d, heap |-> objects, status |-> "OK"]
      BY <1>4, <1>5
    <2>2. d.session # NoObject
      BY <1>5 DEF Fits
    <2>3. Coherent(d, objects)
      BY <2>2 DEF Owner, EmptyHandle
    <2> QED
      BY <2>1, <2>3
  <1>6. CASE ~Fits(d, size)
    <2>1. \/ \E built \in {{}, {session}, {session, input}, {session, probabilities}} : made = Failed(built)
          \/ made = [detector |-> new, heap |-> left, status |-> "OK"]
      BY <1>4, <1>6
    <2>2. ASSUME NEW built \in {{}, {session}, {session, input}, {session, probabilities}},
                 made = Failed(built)
          PROVE  made.status = "FAILED" /\ made.detector = d /\ made.heap = objects
      <3>1. (objects \cup built) \ built = objects
        BY <1>2
      <3> QED
        BY <2>2, <3>1
    <2>3. ASSUME made = [detector |-> new, heap |-> left, status |-> "OK"]
          PROVE  made.status = "OK" /\ Coherent(made.detector, made.heap)
      BY <1>3, <2>3
    <2> QED
      BY <2>1, <2>2, <2>3
  <1> QED
    BY <1>5, <1>6

LEMMA CreateInv ==
  ASSUME detector = NoDetector, DetectorInv, Create
  PROVE  DetectorInv'
  <1>1. heap = {}
    BY DEF DetectorInv
  <1> DEFINE handle == Allocated("handle", heap)
             Parts(model) == heap \cup ({handle, model} \ {NoObject})
             Made(model) ==
               IF model = NoObject
               THEN {[detector |-> EmptyHandle(handle, model), heap |-> Parts(model), status |-> "FAILED"]}
               ELSE Ensured(EmptyHandle(handle, model), Parts(model), FirstSize)
  <1>2. handle \in Objects("handle") /\ Allocated("model", heap) \in Objects("model")
    <2>1. IsFiniteSet(heap)
      BY <1>1, FS_EmptySet
    <2> QED
      BY <2>1, AllocatedIsFresh
  <1>3. \E model \in {NoObject, Allocated("model", heap)} : \E made \in Made(model) :
          IF made.status = "OK" THEN detector' = made.detector /\ heap' = made.heap
          ELSE detector' = NoDetector /\ heap' = made.heap \ ObjectsOf(made.detector)
    BY Zenon DEF Create
  <1> HIDE DEF Made, handle
  <1>4. PICK model \in {NoObject, Allocated("model", heap)} :
           \E made \in Made(model) :
             IF made.status = "OK" THEN detector' = made.detector /\ heap' = made.heap
             ELSE detector' = NoDetector /\ heap' = made.heap \ ObjectsOf(made.detector)
    BY <1>3
  <1>5. PICK made \in Made(model) :
          IF made.status = "OK" THEN detector' = made.detector /\ heap' = made.heap
          ELSE detector' = NoDetector /\ heap' = made.heap \ ObjectsOf(made.detector)
    BY <1>4
  <1> DEFINE empty == EmptyHandle(handle, model)
  <1>6. ObjectsOf(empty) = {handle, model, NoObject}
    BY DEF ObjectsOf, EmptyHandle
  <1> HIDE DEF empty
  <1>7. CASE model = NoObject
    <2>1. made = [detector |-> empty, heap |-> Parts(model), status |-> "FAILED"]
      BY <1>5, <1>7 DEF Made, empty
    <2>2. detector' = NoDetector /\ heap' = Parts(model) \ ObjectsOf(empty)
      BY <1>5, <2>1
    <2>3. heap' = {}
      BY <1>1, <1>6, <2>2
    <2> QED
      BY <2>2, <2>3 DEF DetectorInv
  <1>8. CASE model # NoObject
    <2>1. model \in Objects("model")
      BY <1>2, <1>4, <1>8
    <2>2. Parts(model) = {handle, model}
      <3>1. handle # NoObject
        BY <1>2, KindsDiffer
      <3> QED
        BY <1>1, <1>8, <3>1
    <2> HIDE DEF Parts
    <2>3. Owner(empty, Parts(model))
      BY <1>2, <2>1, <2>2 DEF Owner, empty
    <2>4. made \in Ensured(empty, Parts(model), FirstSize) /\ FirstSize \in Sizes
      BY <1>5, <1>8 DEF Made, Sizes, empty
    <2>5. \/ made.status = "OK" /\ Coherent(made.detector, made.heap)
          \/ made.status = "FAILED" /\ made.detector = empty /\ made.heap = Parts(model)
      BY <2>3, <2>4, EnsuredIs
    <2>6. CASE made.status = "OK" /\ Coherent(made.detector, made.heap)
      <3>1. detector' = made.detector /\ heap' = made.heap
        BY <1>5, <2>6
      <3>2. made.detector # NoDetector
        BY <2>6, CoherentParts
      <3> QED
        BY <2>6, <3>1, <3>2 DEF DetectorInv
    <2>7. CASE made.status = "FAILED" /\ made.detector = empty /\ made.heap = Parts(model)
      <3>1. detector' = NoDetector /\ heap' = Parts(model) \ ObjectsOf(empty)
        BY <1>5, <2>7
      <3>2. heap' = {}
        BY <1>6, <2>2, <3>1
      <3> QED
        BY <3>1, <3>2 DEF DetectorInv
    <2> QED
      BY <2>5, <2>6, <2>7
  <1> QED
    BY <1>7, <1>8

\* The setters change what they set.
LEMMA SettersInv ==
  ASSUME detector # NoDetector, DetectorInv
  PROVE  /\ \A n \in IntraThreads : SetIntraOpThreadCount(n) => DetectorInv'
         /\ \A order \in Orders : SetReadingOrder(order) => DetectorInv'
  <1>1. Coherent(detector, heap)
    BY DEF DetectorInv
  <1>2. detector \in Handles
    BY <1>1 DEF Coherent
  <1>3. ASSUME NEW n \in IntraThreads, SetIntraOpThreadCount(n)
        PROVE  DetectorInv'
    <2> DEFINE count == IF n = 0 THEN 1 ELSE n
    <2>1. count \in Nat
      BY DetectorAssumption
    <2>2. /\ detector' = [detector EXCEPT !.threads = count, !.sessionThreads = count]
          /\ heap' = heap
      BY <1>3 DEF SetIntraOpThreadCount
    <2> HIDE DEF count
    <2>3. detector' \in Handles
      BY <1>2, <2>1, <2>2 DEF Handles
    <2>4. Coherent(detector', heap')
      BY <1>1, <1>2, <2>2, <2>3 DEF Coherent, ObjectsOf, Handles
    <2>5. detector' # NoDetector
      BY <2>4, CoherentParts
    <2> QED
      BY <2>4, <2>5 DEF DetectorInv
  <1>4. ASSUME NEW order \in Orders, SetReadingOrder(order)
        PROVE  DetectorInv'
    <2>1. detector' = [detector EXCEPT !.order = order] /\ heap' = heap
      BY <1>4 DEF SetReadingOrder
    <2>2. detector' \in Handles
      BY <1>2, <2>1 DEF Handles
    <2>3. Coherent(detector', heap')
      BY <1>1, <1>2, <2>1, <2>2 DEF Coherent, ObjectsOf, Handles
    <2>4. detector' # NoDetector
      BY <2>3, CoherentParts
    <2> QED
      BY <2>3, <2>4 DEF DetectorInv
  <1> QED
    BY <1>3, <1>4

LEMMA DetectInv ==
  ASSUME detector # NoDetector, DetectorInv,
         NEW image \in Images, NEW capacity, NEW wanted, Detect(image, capacity, wanted)
  PROVE  DetectorInv'
  <1>1. Coherent(detector, heap)
    BY DEF DetectorInv
  <1>2. PICK made \in Ensured(detector, heap, image.size) : detector' = made.detector /\ heap' = made.heap
    BY DEF Detect
  <1>3. image.size \in Sizes /\ Owner(detector, heap)
    BY <1>1 DEF Sizes, Owner
  <1>4. Coherent(made.detector, made.heap)
    <2>1. \/ made.status = "OK" /\ Coherent(made.detector, made.heap)
          \/ made.status = "FAILED" /\ made.detector = detector /\ made.heap = heap
      BY <1>3, EnsuredIs
    <2> QED
      BY <1>1, <2>1
  <1>5. made.detector # NoDetector
    BY <1>4, CoherentParts
  <1> QED
    BY <1>2, <1>4, <1>5 DEF DetectorInv

LEMMA DetectorStepInv ==
  ASSUME DetectorInv, DetectorNext \/ UNCHANGED detectorVars
  PROVE  DetectorInv'
  <1>1. ASSUME detector' = detector, heap' = heap
        PROVE  DetectorInv'
    BY <1>1 DEF DetectorInv
  <1>2. CASE UNCHANGED detectorVars
    BY <1>1, <1>2 DEF detectorVars
  <1>3. CASE NextImage
    BY <1>1, <1>3 DEF NextImage
  <1>4. CASE detector = NoDetector /\ Create
    BY <1>4, CreateInv
  <1>5. CASE detector # NoDetector /\ DetectorCalled
    <2>1. CASE Free
      <3>1. heap = ObjectsOf(detector)
        BY <1>5 DEF DetectorInv, Coherent
      <3>2. detector' = NoDetector /\ heap' = {}
        BY <2>1, <3>1 DEF Free
      <3> QED
        BY <3>2 DEF DetectorInv
    <2>2. CASE \E n \in IntraThreads : SetIntraOpThreadCount(n)
      BY <1>5, <2>2, SettersInv
    <2>3. CASE \E order \in Orders : SetReadingOrder(order)
      BY <1>5, <2>3, SettersInv
    <2>4. CASE \E image \in Images, wanted \in BOOLEAN : TooLarge(image, wanted)
      BY <1>1, <2>4 DEF TooLarge
    <2>5. CASE \E image \in Images, capacity \in Capacities, wanted \in BOOLEAN :
                 (wanted \/ capacity = 0) /\ Detect(image, capacity, wanted)
      BY <1>5, <2>5, DetectInv
    <2> QED
      BY <1>5, <2>1, <2>2, <2>3, <2>4, <2>5 DEF DetectorCalled
  <1> QED
    BY <1>2, <1>3, <1>4, <1>5 DEF DetectorNext

LEMMA DetectorInvCoherent == DetectorInv => DetectorCoherent
  <1>1. ASSUME DetectorInv, detector # NoDetector
        PROVE  Coherent(detector, heap) /\ NoObject \notin heap
    BY <1>1, CoherentParts DEF DetectorInv
  <1> QED
    BY <1>1 DEF DetectorInv, DetectorCoherent, Coherent

-----------------------------------------------------------------------------
(* The detector's answers *)

\* What is known of an answer, by its status.
Given(answer, image, order, wanted) ==
  /\ answer.image = image /\ answer.order = order /\ answer.wanted = wanted
  /\ answer.status = "OK" =>
       /\ answer.count = Len(Found[image])
       /\ wanted => answer.boxes = lw_sort_detection_boxes(Found[image], order)

\* The answer is one for its image, in the order the handle had.
DetectedInv ==
  \/ detected = NoAnswer
  \/ detected.image \in Images /\ Given(detected, detected.image, detected.order, detected.wanted)

LEMMA RefusedIs ==
  ASSUME NEW image, NEW order, NEW wanted
  PROVE  Given(Refused(image, order, wanted), image, order, wanted)
  BY DEF Given, Refused

LEMMA AnswersAre ==
  ASSUME NEW image, NEW order, NEW capacity, NEW wanted,
         NEW answer \in Answers(image, Found[image], order, capacity, wanted)
  PROVE  Given(answer, image, order, wanted)
  <1> DEFINE found == Found[image]
             sorted == lw_sort_detection_boxes(found, order)
             Answer(status, count, boxes) ==
               [status |-> status, image |-> image, count |-> count, boxes |-> boxes,
                wanted |-> wanted, order |-> order]
  <1>1. \/ answer = Answer("FAILED", 0, NoBoxes)
        \/ ~wanted /\ answer = Answer("OK", Len(found), NoBoxes)
        \/ answer = Answer("OUT_OF_BOUNDS", Len(found), NoBoxes)
        \/ answer = Answer("OK", Len(found), sorted)
        \/ answer = Answer("UNSORTED", Len(found), found)
    <2> HIDE DEF found, sorted
    <2>1. answer \in Answers(image, found, order, capacity, wanted)
      BY DEF found
    <2>2. lw_sort_detection_boxes(found, order) = sorted
      BY DEF sorted
    <2> QED
      BY <2>1, <2>2, Zenon DEF Answers
  <1> HIDE DEF found, sorted
  <1>2. /\ answer.image = image /\ answer.order = order /\ answer.wanted = wanted
        /\ answer.status = "OK" => answer.count = Len(found) /\ (wanted => answer.boxes = sorted)
    BY <1>1
  <1> QED
    BY <1>2 DEF Given, found, sorted

LEMMA DetectedStepInv ==
  ASSUME DetectedInv, DetectorNext \/ UNCHANGED detectorVars
  PROVE  DetectedInv'
  <1>1. ASSUME detected' = detected PROVE DetectedInv'
    BY <1>1 DEF DetectedInv
  <1>g. ASSUME NEW image \in Images, NEW order, NEW wanted, Given(detected', image, order, wanted)
        PROVE  DetectedInv'
    <2>1. detected'.image = image /\ detected'.order = order /\ detected'.wanted = wanted
      BY <1>g DEF Given
    <2> QED
      BY <1>g, <2>1 DEF DetectedInv
  <1>2. CASE UNCHANGED detectorVars
    BY <1>1, <1>2 DEF detectorVars
  <1>3. CASE NextImage
    BY <1>3 DEF NextImage, DetectedInv
  <1>4. CASE Create
    BY <1>1, <1>4 DEF Create
  <1>5. CASE DetectorCalled
    <2>1. CASE Free
      BY <1>1, <2>1 DEF Free
    <2>2. CASE \E n \in IntraThreads : SetIntraOpThreadCount(n)
      BY <1>1, <2>2 DEF SetIntraOpThreadCount
    <2>3. CASE \E order \in Orders : SetReadingOrder(order)
      BY <1>1, <2>3 DEF SetReadingOrder
    <2>4. CASE \E image \in Images, wanted \in BOOLEAN : TooLarge(image, wanted)
      <3>1. PICK image \in Images, wanted \in BOOLEAN :
                   detected' = Refused(image, detector.order, wanted)
        BY <2>4 DEF TooLarge
      <3> QED
        BY <1>g, <3>1, RefusedIs
    <2>5. CASE \E image \in Images, capacity \in Capacities, wanted \in BOOLEAN :
                 (wanted \/ capacity = 0) /\ Detect(image, capacity, wanted)
      <3>1. PICK image \in Images, capacity \in Capacities, wanted \in BOOLEAN :
                   Detect(image, capacity, wanted)
        BY <2>5
      <3>2. \/ detected' = Refused(image, detector.order, wanted)
            \/ detected' \in Answers(image, Found[image], detector.order, capacity, wanted)
        BY <3>1 DEF Detect
      <3> QED
        BY <1>g, <3>2, RefusedIs, AnswersAre
    <2> QED
      BY <1>5, <2>1, <2>2, <2>3, <2>4, <2>5 DEF DetectorCalled
  <1> QED
    BY <1>2, <1>3, <1>4, <1>5 DEF DetectorNext

LEMMA AnswersSettled == DetectedInv => OrderSettled
  <1> SUFFICES ASSUME DetectedInv, detected.status = "OK", detected.wanted
               PROVE  Settled(detected.boxes, Found[detected.image], detected.order)
    BY DEF OrderSettled
  <1>1. /\ detected.image \in Images
        /\ detected.boxes = lw_sort_detection_boxes(Found[detected.image], detected.order)
    BY DEF DetectedInv, Given, NoAnswer
  <1>2. Found[detected.image] \in Seq(Corner4)
    <2>1. Found[detected.image] \in Seq(Quads)
      BY <1>1, FoundType
    <2>2. Quads = Corner4
      BY DEF Quads, Corner4, Points
    <2> QED
      BY <2>1, <2>2
  <1> QED
    BY <1>1, <1>2, SortSettled

LEMMA AnswersAreRegions == DetectedInv => BoxesAreRegions
  <1> SUFFICES ASSUME DetectedInv, detected.status = "OK", "map" \in DOMAIN detected.image
               PROVE  AreRegions(detected.image.map, lw_db_postprocess_f32(detected.image.map),
                                 detected.count)
    BY DEF BoxesAreRegions
  <1> DEFINE image == detected.image
             map == image.map
             boxes == lw_db_postprocess_f32(map)
  <1>1. image \in Images /\ detected.count = Len(Found[image])
    BY DEF DetectedInv, Given, NoAnswer
  <1>2. IsImage(image) /\ IsMap(map)
    BY <1>1, DetectorAssumption DEF IsImage
  <1>3. AreRegions(map, boxes, Len(boxes)) /\ DOMAIN boxes = 1..Len(boxes) /\ Len(boxes) \in Nat
    BY <1>2, MapAreRegions, BoxesAre DEF BoxList
  <1>4. Found[image] = AllWhole(boxes)
    BY <1>1 DEF Found
  <1> HIDE DEF boxes, image
  <1>5. Len(AllWhole(boxes)) = Len(boxes)
    BY <1>3 DEF AllWhole
  <1> QED
    BY <1>1, <1>3, <1>4, <1>5 DEF boxes, image

-----------------------------------------------------------------------------
(* The theorems *)

\* The inductive invariant of both handles.
IInv == DetectorInv /\ DetectedInv /\ LineInv

LEMMA InitInv == Init => IInv
  <1>1. DetectorInit => DetectorInv /\ DetectedInv
    BY DEF DetectorInit, DetectorInv, DetectedInv
  <1> QED
    BY <1>1, LineInitInv DEF Init, IInv

LEMMA StepInv == IInv /\ [Next]_vars => IInv'
  <1> SUFFICES ASSUME IInv, [Next]_vars PROVE IInv'
    OBVIOUS
  <1>1. DetectorInv /\ DetectedInv /\ LineInv
    BY DEF IInv
  <1>2. DetectorNext \/ UNCHANGED detectorVars
    BY DEF Next, DetectorStep, LineStep, vars
  <1>3. LineNext \/ UNCHANGED lineVars
    BY DEF Next, DetectorStep, LineStep, vars
  <1>4. DetectorInv' /\ DetectedInv'
    BY <1>1, <1>2, DetectorStepInv, DetectedStepInv
  <1>5. LineInv'
    BY <1>1, <1>3, LineStepInv
  <1> QED
    BY <1>4, <1>5 DEF IInv

LEMMA SpecInv == Spec => []IInv
  BY InitInv, StepInv, PTL DEF Spec

\* The detector's handle stays usable and owns what is allocated: for images of any
\* sizes, and for any thread counts, ensure_session replaces the session and its
\* tensors together or leaves them all, with the counts that belong to them, and
\* lw_detector_free leaves nothing behind.
THEOREM DetectorIsCoherent == Spec => []DetectorCoherent
  <1>1. IInv => DetectorCoherent
    BY DetectorInvCoherent DEF IInv
  <1> QED
    BY <1>1, SpecInv, PTL

\* For every dictionary lw_rec_dictionary_load accepts, with or without empty
\* labels, every recognizer model and every line without spoiled steps: the plain, the
\* tiled, the packed and the fused projection, the full Softmax and the one at the
\* emitted steps, and both ways to fill the buffer find the characters of the best
\* path, each with the probability its row gives it.
THEOREM EveryPathAgrees == Spec => []PathsAgree
  <1>1. IInv => PathsAgree
    BY LineSafe DEF IInv
  <1> QED
    BY <1>1, SpecInv, PTL

\* For every buffer and every line, whatever its spoiled steps make of the classes and
\* of the Softmax: a success leaves the text and its end and nothing behind them; the
\* longest text of the longest line fits info.max_text_capacity, so that the pass
\* which measures may be left out; a buffer that is too small is left alone, and so is
\* every buffer when the graph fails or the measuring pass does.  Only where that pass
\* was left out a spoiled line leaves an unfinished text, without an end and shorter
\* than the longest one.  Up to the first spoiled step each text is that of the line.
THEOREM BuffersAreSafe == Spec => []BufferSafe
  <1>1. IInv => BufferSafe
    BY LineSafe DEF IInv
  <1> QED
    BY <1>1, SpecInv, PTL

\* Every map, of any size and any probabilities, every threshold and every limit of
\* candidates: the boxes lw_db_postprocess_f32 finds stand for different connected
\* regions of the bitmap, each rectangle encloses the whole of its region although it
\* was made for the hull of the boundary pixels, the corners go round clockwise, and
\* the box lies in the source image.
THEOREM BoxesStandForRegions == Spec => []BoxesAreRegions
  <1>1. IInv => BoxesAreRegions
    BY AnswersAreRegions DEF IInv
  <1> QED
    BY <1>1, SpecInv, PTL

\* Any number of boxes, of any corners: lw_sort_detection_boxes returns each of them
\* once; in a horizontal page no neighbours are left which the comparison would
\* exchange, though it is not transitive; in a vertical page every column is
\* together, from top to bottom, and the columns follow each other by their means.
THEOREM OrderIsSettled == Spec => []OrderSettled
  <1>1. IInv => OrderSettled
    BY AnswersSettled DEF IInv
  <1> QED
    BY <1>1, SpecInv, PTL
=============================================================================
