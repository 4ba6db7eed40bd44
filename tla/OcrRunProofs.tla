---------------------------- MODULE OcrRunProofs -----------------------------
(***************************************************************************)
(* Proofs about OcrRun, for every number of workers, every image, every    *)
(* buffer and every interleaving of the threads: its four invariants, and  *)
(* that it does nothing which OcrService does not allow.                   *)
(*                                                                         *)
(* The inductive invariant follows a request: what the caller has asked    *)
(* (RequestShape), which threads are alive (ThreadShape), who holds which  *)
(* line (Holders), what a recognized line has left in its slots            *)
(* (SlotsWritten) and how far the compaction has come (Compacted).         *)
(***************************************************************************)
EXTENDS OcrRun, FiniteSetTheorems, TLAPS

Running == {"spawn", "inline", "join"}

Crop == [box : 1..MaxLines, width : Nat]
Character == (1..MaxLines) \X Nat

Requests == [open : {TRUE}, image : Images, capacity : Capacities]

RequestShape ==
  /\ pc = "idle" => request = NoRequest
  /\ pc # "idle" => request \in Requests
  /\ pc = "prepare" => scratchLines = NoLines
  /\ pc \in Running \cup {"compact"} =>
       /\ crops = Croppable(request.image)
       /\ \A b \in DOMAIN request.image : request.image[b].kind # "huge"
  /\ pc \in Running => textUsed = 0

\* Before the loop reaches a worker, it is off; behind the loop, either it has a
\* thread or the caller has run its task to the end.
ThreadShape ==
  /\ LineCount <= MaxLines
  /\ pc \notin Running => \A w \in Workers : wpc[w] = "off" /\ initial[w] = 0
  /\ pc \in Running =>
       /\ LineCount > 0
       /\ \A w \in Workers \ ActiveWorkers : wpc[w] = "off" /\ initial[w] = 0
       /\ \A w \in Workers : wpc[w] \in {"process", "ended"} => initial[w] = 0
  /\ pc \in {"spawn", "inline"} =>
       /\ at \in 1..Cardinality(ActiveWorkers)
       /\ started \subseteq 1..(at - 1)
       /\ wpc[0] = "off"
       /\ \A w \in ActiveWorkers : w > at => wpc[w] = "off"
       /\ \A w \in 1..(at - 1) : wpc[w] # "off" /\ (w \in started \/ wpc[w] = "ended")
  /\ pc = "spawn" /\ at \in ActiveWorkers => wpc[at] = "off"
  /\ pc = "inline" => at \in ActiveWorkers /\ wpc[at] # "off"
  /\ pc = "join" =>
       /\ started \subseteq ActiveWorkers
       /\ \A w \in ActiveWorkers : wpc[w] # "off"
       /\ \A w \in ActiveWorkers \ {0} : w \in started \/ wpc[w] = "ended"

Takes(w, k) == initial[w] = k \/ (wpc[w] = "process" /\ slot[w] = k)
Recognized(k) == scratchLines[Schedule(crops)[k]] # NoLine

\* Who holds which schedule slot, and what is left when a worker has ended.
Holders ==
  pc \in Running =>
    /\ nextSlot > Cardinality(ActiveWorkers)
    /\ \A w \in Workers : initial[w] < nextSlot /\ initial[w] <= LineCount
    /\ \A w \in Workers : wpc[w] = "process" => slot[w] \in 1..LineCount /\ slot[w] < nextSlot
    /\ \A w \in Workers : \A v \in Workers : \A k \in 1..LineCount :
         Takes(w, k) /\ Takes(v, k) => w = v
    /\ \A w \in Workers : \A k \in 1..LineCount : Takes(w, k) => ~Recognized(k)
    /\ \A k \in 1..LineCount : k >= nextSlot => ~Recognized(k)
    /\ \A k \in 1..LineCount : k < nextSlot => \/ Recognized(k)
                                               \/ \E w \in Workers : Takes(w, k)
                                               \/ \E w \in ActiveWorkers : failed[w]
    /\ \A w \in ActiveWorkers : wpc[w] = "ended" => failed[w] \/ nextSlot > LineCount

\* What Process leaves behind for crop i.
Written(i) ==
  LET box == crops[i].box
      length == request.image[box].length
  IN /\ scratchLines[i] = [box |-> box, offset |-> SlotStart(i), length |-> length]
     /\ \A k \in 1..length : scratchText[SlotStart(i) + k - 1] = <<box, k>>

SlotsWritten ==
  pc \in Running => \A i \in 1..LineCount : scratchLines[i] = NoLine \/ Written(i)

\* What has been moved are the promised lines and text; the rest is as written.
Compacted ==
  pc = "compact" =>
    /\ at \in 1..(LineCount + 1)
    /\ textUsed \in 0..SlotStart(at)
    /\ \A i \in at..LineCount : Written(i)
    /\ \A i \in 1..(at - 1) : scratchLines[i] = Promise!Lines(request)[i]
    /\ textUsed = Len(Promise!TextUpTo(request, at - 1))
    /\ \A k \in 1..textUsed : scratchText[k - 1] = Promise!TextUpTo(request, at - 1)[k]

IInv ==
  /\ TypeOK
  /\ RequestShape
  /\ ThreadShape
  /\ Holders
  /\ SlotsWritten
  /\ Compacted

-----------------------------------------------------------------------------
(* The orders of the model: the schedule and the boxes *)

LEMMA Counting ==
  ASSUME NEW n \in Nat
  PROVE  IsFiniteSet(1..n) /\ Cardinality(1..n) = n
  <1>1. 1 \in Int /\ n \in Int
    OBVIOUS
  <1> QED
    BY <1>1, FS_Interval

Below(D, R, i) == {j \in D : <<j, i>> \in R}

StrictOrder(D, R) ==
  /\ IsFiniteSet(D) /\ R \in SUBSET (D \X D)
  /\ \A i \in D : <<i, i>> \notin R
  /\ \A i, j, k \in D : <<i, j>> \in R /\ <<j, k>> \in R => <<i, k>> \in R
  /\ \A i, j \in D : i = j \/ <<i, j>> \in R \/ <<j, i>> \in R

\* In a finite set under a strict total order, the number of elements before an
\* element is its rank: a different one for each, and every one is taken.
LEMMA Ranks ==
  ASSUME NEW D, NEW R, StrictOrder(D, R)
  PROVE  /\ \A i \in D : Cardinality(Below(D, R, i)) \in 0..(Cardinality(D) - 1)
         /\ \A i, k \in D : Cardinality(Below(D, R, i)) = Cardinality(Below(D, R, k)) => i = k
         /\ \A n \in 1..Cardinality(D) : \E i \in D : Cardinality(Below(D, R, i)) = n - 1
  <1> DEFINE rank == [i \in D |-> Cardinality(Below(D, R, i))]
  <1>0. /\ IsFiniteSet(D)
        /\ \A i \in D : <<i, i>> \notin R
        /\ \A i, j, k \in D : <<i, j>> \in R /\ <<j, k>> \in R => <<i, k>> \in R
        /\ \A i, j \in D : i = j \/ <<i, j>> \in R \/ <<j, i>> \in R
    BY DEF StrictOrder
  <1>1. Cardinality(D) \in Nat
    BY <1>0, FS_CardinalityType
  <1>2. ASSUME NEW i \in D
        PROVE  IsFiniteSet(Below(D, R, i)) /\ Cardinality(Below(D, R, i)) \in 0..(Cardinality(D) - 1)
    <2>1. Below(D, R, i) \in SUBSET D /\ Below(D, R, i) # D
      BY <1>0 DEF Below
    <2>2. IsFiniteSet(Below(D, R, i)) /\ Cardinality(Below(D, R, i)) <= Cardinality(D)
          /\ Cardinality(Below(D, R, i)) # Cardinality(D)
      BY <1>0, <2>1, FS_Subset
    <2>3. Cardinality(Below(D, R, i)) \in Nat
      BY <2>2, FS_CardinalityType
    <2> QED
      BY <1>1, <2>2, <2>3
  <1>3. ASSUME NEW i \in D, NEW k \in D, <<i, k>> \in R
        PROVE  Cardinality(Below(D, R, i)) # Cardinality(Below(D, R, k))
    <2>1. Below(D, R, i) \in SUBSET Below(D, R, k) /\ Below(D, R, i) # Below(D, R, k)
      BY <1>0, <1>3 DEF Below
    <2>2. IsFiniteSet(Below(D, R, k))
      BY <1>2
    <2> QED
      BY <2>1, <2>2, FS_Subset
  <1>4. ASSUME NEW i \in D, NEW k \in D, Cardinality(Below(D, R, i)) = Cardinality(Below(D, R, k))
        PROVE  i = k
    <2>1. <<i, k>> \notin R /\ <<k, i>> \notin R
      BY <1>3, <1>4
    <2> QED
      BY <1>0, <2>1
  <1>5. rank \in Injection(D, 0..(Cardinality(D) - 1))
    <2>1. rank \in [D -> 0..(Cardinality(D) - 1)]
      BY <1>2
    <2>2. \A i, k \in D : rank[i] = rank[k] => i = k
      BY <1>4
    <2> HIDE DEF rank
    <2> QED
      BY <2>1, <2>2 DEF Injection, IsInjective
  <1>6. IsFiniteSet(0..(Cardinality(D) - 1)) /\ Cardinality(0..(Cardinality(D) - 1)) = Cardinality(D)
    <2>1. 0 \in Int /\ Cardinality(D) - 1 \in Int
      BY <1>1
    <2> QED
      BY <1>1, <2>1, FS_Interval
  <1>7. rank \in Surjection(D, 0..(Cardinality(D) - 1))
    <2> HIDE DEF rank
    <2> QED
      BY <1>0, <1>5, <1>6, FS_Injection
  <1>8. ASSUME NEW n \in 1..Cardinality(D) PROVE \E i \in D : Cardinality(Below(D, R, i)) = n - 1
    <2>1. n - 1 \in 0..(Cardinality(D) - 1)
      BY <1>1
    <2>2. PICK i \in D : rank[i] = n - 1
      <3> HIDE DEF rank
      <3> QED
        BY <1>7, <2>1 DEF Surjection
    <2> QED
      BY <2>2
  <1> QED
    BY <1>2, <1>4, <1>8

\* crop_schedule is a permutation of the crops.
LEMMA ScheduleFacts ==
  ASSUME NEW list \in Seq(Crop)
  PROVE  /\ Schedule(list) \in [1..Len(list) -> 1..Len(list)]
         /\ \A k, m \in 1..Len(list) : Schedule(list)[k] = Schedule(list)[m] => k = m
         /\ \A i \in 1..Len(list) : \E k \in 1..Len(list) : Schedule(list)[k] = i
  <1> DEFINE D == DOMAIN list
             Before(i, j) == \/ list[i].width > list[j].width
                             \/ list[i].width = list[j].width /\ i < j
             R == {p \in D \X D : Before(p[1], p[2])}
             rank(i) == Cardinality({j \in D : Before(j, i)})
  <1>1. D = 1..Len(list) /\ Len(list) \in Nat /\ \A i \in D : list[i].width \in Nat
    <2>1. D = 1..Len(list) /\ Len(list) \in Nat /\ \A i \in D : list[i] \in Crop
      OBVIOUS
    <2> QED
      BY <2>1 DEF Crop
  <1>2. IsFiniteSet(D) /\ Cardinality(D) = Len(list)
    BY <1>1, Counting
  <1>3. R \in SUBSET (D \X D) /\ \A i, j \in D : <<i, j>> \in R <=> Before(i, j)
    OBVIOUS
  <1> HIDE DEF R
  <1>4. \A i \in D : <<i, i>> \notin R
    BY <1>1, <1>3
  <1>5. \A i, j, k \in D : <<i, j>> \in R /\ <<j, k>> \in R => <<i, k>> \in R
    <2>1. \A i, j, k \in D : Before(i, j) /\ Before(j, k) => Before(i, k)
      BY <1>1
    <2> HIDE DEF Before
    <2> QED
      BY <1>3, <2>1
  <1>6. \A i, j \in D : i = j \/ <<i, j>> \in R \/ <<j, i>> \in R
    <2>1. \A i, j \in D : i = j \/ Before(i, j) \/ Before(j, i)
      BY <1>1
    <2> HIDE DEF Before
    <2> QED
      BY <1>3, <2>1
  <1>7. /\ \A i \in D : rank(i) \in 0..(Len(list) - 1)
        /\ \A i, k \in D : rank(i) = rank(k) => i = k
        /\ \A n \in 1..Len(list) : \E i \in D : rank(i) = n - 1
    <2>1. /\ \A i \in D : Cardinality(Below(D, R, i)) \in 0..(Cardinality(D) - 1)
          /\ \A i, k \in D : Cardinality(Below(D, R, i)) = Cardinality(Below(D, R, k)) => i = k
          /\ \A n \in 1..Cardinality(D) : \E i \in D : Cardinality(Below(D, R, i)) = n - 1
      <3>1. StrictOrder(D, R)
        BY <1>2, <1>3, <1>4, <1>5, <1>6 DEF StrictOrder
      <3> HIDE DEF D, Before
      <3> QED
        BY <3>1, Ranks
    <2>2. \A i \in D : {j \in D : Before(j, i)} = Below(D, R, i)
      BY <1>3 DEF Below
    <2> HIDE DEF D, Before
    <2> QED
      BY <1>2, <2>1, <2>2
  <1>8. Schedule(list) = [k \in D |-> CHOOSE i \in D : rank(i) = k - 1]
    BY DEF Schedule
  <1> HIDE DEF rank
  <1>10. \A k \in D : Schedule(list)[k] \in D /\ rank(Schedule(list)[k]) = k - 1
    BY <1>1, <1>7, <1>8
  <1>11. \A i \in D : rank(i) + 1 \in D /\ Schedule(list)[rank(i) + 1] = i
    BY <1>1, <1>7, <1>10
  <1>12. Schedule(list) \in [1..Len(list) -> 1..Len(list)]
    BY <1>1, <1>8, <1>10
  <1>13. \A k, m \in D : Schedule(list)[k] = Schedule(list)[m] => k = m
    BY <1>1, <1>10
  <1> QED
    BY <1>1, <1>11, <1>12, <1>13

\* OcrService counts as this module does.
LEMMA SameCount == ASSUME NEW S PROVE Promise!Cardinality(S) = Cardinality(S)
  BY DEF Promise!Cardinality, Cardinality

\* The boxes that are kept come in the detector's order, and the crops are theirs.
LEMMA CroppableFacts ==
  ASSUME NEW image \in Images
  PROVE  /\ Croppable(image) \in Seq(Crop) /\ Len(Croppable(image)) <= MaxLines
         /\ DOMAIN Promise!LineBoxes(image) = 1..Len(Croppable(image))
         /\ Len(Promise!LineBoxes(image)) = Len(Croppable(image))
         /\ \A i \in 1..Len(Croppable(image)) :
              /\ Croppable(image)[i].box = Promise!LineBoxes(image)[i]
              /\ Croppable(image)[i].box \in DOMAIN image
              /\ Croppable(image)[i].box \in 1..MaxLines
              /\ image[Croppable(image)[i].box].length \in 1..TextCapacity
  <1> DEFINE kept == {b \in DOMAIN image : image[b].kind # "degenerate"}
             R == {p \in kept \X kept : p[1] < p[2]}
             rank(i) == Cardinality({j \in kept : j < i})
             box(i) == CHOOSE b \in kept : rank(b) = i - 1
  <1> DEFINE Box == [kind : {"line", "degenerate", "huge"}, width : Nat \ {0},
                     length : 1..TextCapacity]
  <1>0. image \in Seq(Box) /\ Len(image) <= MaxLines /\ MaxLines \in Nat
    BY OcrRunAssumption
  <1>1. /\ Len(image) \in Nat /\ DOMAIN image = 1..Len(image) /\ Len(image) <= MaxLines
        /\ MaxLines \in Nat
        /\ \A b \in DOMAIN image : image[b].width \in Nat /\ image[b].length \in 1..TextCapacity
    <2> HIDE DEF Box
    <2>1. /\ Len(image) \in Nat /\ DOMAIN image = 1..Len(image)
          /\ \A b \in DOMAIN image : image[b] \in Box
      BY <1>0
    <2> QED
      BY <1>0, <2>1 DEF Box
  <1>2. IsFiniteSet(1..Len(image)) /\ Cardinality(1..Len(image)) = Len(image)
    BY <1>1, Counting
  <1>3. kept \in SUBSET (1..Len(image))
    BY <1>1
  <1> HIDE DEF kept
  <1>4. IsFiniteSet(kept) /\ Cardinality(kept) <= Len(image) /\ Cardinality(kept) \in Nat
    BY <1>2, <1>3, FS_Subset, FS_CardinalityType
  <1>5. R \in SUBSET (kept \X kept) /\ \A i, j \in kept : <<i, j>> \in R <=> i < j
    OBVIOUS
  <1>6. \A i \in kept : Below(kept, R, i) = {j \in kept : j < i}
    BY <1>5 DEF Below
  <1>7. /\ \A i \in kept : <<i, i>> \notin R
        /\ \A i, j, k \in kept : <<i, j>> \in R /\ <<j, k>> \in R => <<i, k>> \in R
        /\ \A i, j \in kept : i = j \/ <<i, j>> \in R \/ <<j, i>> \in R
    BY <1>3, <1>5
  <1>8. /\ \A n \in 1..Cardinality(kept) : \E i \in kept : Cardinality(Below(kept, R, i)) = n - 1
        /\ \A i, k \in kept : Cardinality(Below(kept, R, i)) = Cardinality(Below(kept, R, k)) => i = k
    <2> HIDE DEF R
    <2>1. StrictOrder(kept, R)
      BY <1>4, <1>5, <1>7 DEF StrictOrder
    <2> QED
      BY <2>1, Ranks
  <1>9. \A i \in 1..Cardinality(kept) : box(i) \in kept /\ rank(box(i)) = i - 1
    <2>1. \A n \in 1..Cardinality(kept) : \E i \in kept : rank(i) = n - 1
      BY <1>6, <1>8
    <2> HIDE DEF rank
    <2> QED
      BY <2>1
  <1>10. Croppable(image) = [i \in 1..Cardinality(kept) |->
                               [box |-> box(i), width |-> image[box(i)].width]]
    BY DEF Croppable, kept
  <1>11. Promise!LineBoxes(image) = [i \in 1..Cardinality(kept) |-> box(i)]
    <2> DEFINE rankThere(b) == Promise!Cardinality({c \in kept : c < b})
               boxThere(i) == CHOOSE b \in kept : rankThere(b) = i - 1
    <2>1. \A b \in kept : rankThere(b) = rank(b)
      BY SameCount
    <2>2. Promise!LineBoxes(image) = [i \in 1..Cardinality(kept) |-> boxThere(i)]
      BY SameCount DEF Promise!LineBoxes, kept
    <2>3. \A i, k \in kept : rank(i) = rank(k) => i = k
      BY <1>6, <1>8
    <2> HIDE DEF rank, rankThere, box
    <2>4. \A i \in 1..Cardinality(kept) : boxThere(i) \in kept /\ rank(boxThere(i)) = i - 1
      BY <1>9, <2>1
    <2> HIDE DEF boxThere
    <2>5. \A i \in 1..Cardinality(kept) : boxThere(i) = box(i)
      BY <1>9, <2>3, <2>4
    <2> QED
      BY <2>2, <2>5
  <1> HIDE DEF box, rank
  <1>12. \A i \in 1..Cardinality(kept) : box(i) \in DOMAIN image /\ box(i) \in 1..MaxLines
    <2>1. ASSUME NEW i \in 1..Cardinality(kept)
          PROVE  box(i) \in DOMAIN image /\ box(i) \in 1..MaxLines
      <3>1. box(i) \in 1..Len(image)
        BY <1>3, <1>9
      <3> QED
        BY <1>1, <3>1
    <2> QED
      BY <2>1
  <1>13. Croppable(image) \in Seq(Crop) /\ Len(Croppable(image)) = Cardinality(kept)
    <2>1. \A i \in 1..Cardinality(kept) : [box |-> box(i), width |-> image[box(i)].width] \in Crop
      BY <1>1, <1>12 DEF Crop
    <2> QED
      BY <1>4, <1>10, <2>1
  <1> QED
    BY <1>1, <1>4, <1>10, <1>11, <1>12, <1>13

-----------------------------------------------------------------------------
(* Recursive functions: the reservation and the promised text *)

\* A nonempty set of natural numbers has a least element.
LEMMA LeastExists ==
  ASSUME NEW S \in SUBSET Nat, S # {}
  PROVE  \E n \in S : \A m \in S : n <= m
  <1> DEFINE Smaller == OpToRel(<, Nat)
  <1>1. IsWellFoundedOn(Smaller, Nat)
    BY NatLessThanWellFounded
  <1>2. \A n, m \in Nat : n < m => <<n, m>> \in Smaller
    BY DEF OpToRel
  <1> HIDE DEF Smaller
  <1>3. PICK n \in S : \A m \in S : ~(<<m, n>> \in Smaller)
    BY <1>1, WFMin
  <1>4. \A m \in S : ~(m < n)
    BY <1>2, <1>3
  <1> QED
    BY <1>4

Steps(n, V, base, F) == n \in Nat /\ base \in V /\ F \in [(1..n) \X V -> V]

Traces(g, n, V, base, F) ==
  g \in [0..n -> V] /\ g[0] = base /\ \A k \in 1..n : g[k] = F[<<k, g[k - 1]>>]

\* A value can be taken through n steps of a function.
LEMMA Iteration ==
  ASSUME NEW n, NEW V, NEW base, NEW F, Steps(n, V, base, F)
  PROVE  \E g : Traces(g, n, V, base, F)
  <1>0. n \in Nat /\ base \in V /\ F \in [(1..n) \X V -> V]
    BY DEF Steps
  <1> DEFINE Follows(g, m) == g[0] = base /\ \A k \in 1..m : g[k] = F[<<k, g[k - 1]>>]
             Bad == {m \in 0..n : ~ \E g \in [0..m -> V] : Follows(g, m)}
  <1> SUFFICES \E g \in [0..n -> V] : Follows(g, n)
    BY DEF Traces
  <1>1. CASE Bad = {}
    <2>1. n \in 0..n
      BY <1>0
    <2>2. n \notin Bad
      <3> HIDE DEF Bad
      <3> QED
        BY <1>1
    <2> QED
      BY <2>1, <2>2
  <1>2. CASE Bad # {}
    <2>1. Bad \in SUBSET Nat
      BY <1>0
    <2>2. PICK m \in Bad : \A l \in Bad : m <= l
      <3> HIDE DEF Bad
      <3> QED
        BY <1>2, <2>1, LeastExists
    <2>3. CASE m = 0
      <3>1. [k \in 0..0 |-> base] \in [0..0 -> V] /\ Follows([k \in 0..0 |-> base], 0)
        BY <1>0
      <3> QED
        BY <2>3, <3>1
    <2>4. CASE m # 0
      <3>1. m \in 1..n /\ m - 1 \in 0..n /\ m - 1 \notin Bad
        BY <1>0, <2>2, <2>4
      <3>2. PICK g \in [0..(m - 1) -> V] : Follows(g, m - 1)
        BY <3>1
      <3> DEFINE h == [k \in 0..m |-> IF k = m THEN F[<<m, g[m - 1]>>] ELSE g[k]]
      <3>3. h \in [0..m -> V]
        BY <1>0, <3>1
      <3>4. h[0] = base
        BY <3>1, <3>2
      <3>5. \A k \in 1..m : h[k] = F[<<k, h[k - 1]>>]
        <4>1. \A k \in 1..m : k # m => h[k] = g[k] /\ h[k - 1] = g[k - 1] /\ k \in 1..(m - 1)
          BY <3>1
        <4>2. h[m] = F[<<m, h[m - 1]>>]
          <5>1. m \in 0..m /\ m - 1 \in 0..m /\ m - 1 # m
            BY <3>1
          <5> QED
            BY <5>1
        <4> HIDE DEF h
        <4> QED
          BY <3>2, <4>1, <4>2
      <3> HIDE DEF h
      <3> QED
        BY <3>3, <3>4, <3>5
    <2> QED
      BY <2>3, <2>4
  <1> QED
    BY <1>1, <1>2

First(s, n) == [i \in 1..n |-> s[i]]

Concatenates(N, T, G, s) ==
  /\ N \in Nat /\ G \in [0..N -> Seq(T)] /\ s \in [1..N -> Seq(T)]
  /\ G[0] = <<>>
  /\ \A k \in 1..N : G[k] = G[k - 1] \o s[k]

\* FlattenSeq of a prefix is the concatenation so far.
LEMMA FlattenIs ==
  ASSUME NEW N, NEW T, NEW G, NEW s, Concatenates(N, T, G, s), NEW n \in 0..N
  PROVE  Promise!FlattenSeq(First(s, n)) = G[n]
  <1>00. /\ N \in Nat /\ G \in [0..N -> Seq(T)] /\ s \in [1..N -> Seq(T)]
        /\ G[0] = <<>>
        /\ \A k \in 1..N : G[k] = G[k - 1] \o s[k]
    BY DEF Concatenates
  <1>0. /\ n \in Nat
        /\ n # 0 => n \in 1..n
        /\ \A i \in 1..n : i \in 1..N /\ i \in 0..N /\ i - 1 \in 0..N /\ i \in Nat
    BY <1>00
  <1> DEFINE seqs == First(s, n)
             flatten == CHOOSE f : f = [i \in 1..n |-> IF i = 1 THEN seqs[i] ELSE f[i - 1] \o seqs[i]]
             h == [i \in 1..n |-> G[i]]
  <1>1. seqs \in Seq(Seq(T)) /\ Len(seqs) = n /\ \A i \in 1..n : seqs[i] = s[i]
    BY <1>0, <1>00 DEF First
  <1>2. Promise!FlattenSeq(seqs) = IF n = 0 THEN seqs ELSE flatten[n]
    BY <1>1 DEF Promise!FlattenSeq
  <1>3. CASE n = 0
    BY <1>2, <1>3, <1>00 DEF First
  <1>4. CASE n # 0
    <2>1. \A i \in 1..n : /\ i \in 1..N /\ s[i] \in Seq(T) /\ G[i] \in Seq(T)
                           /\ G[i] = IF i = 1 THEN s[i] ELSE G[i - 1] \o s[i]
      <3>1. \A i \in 1..n : i \in 1..N /\ s[i] \in Seq(T) /\ G[i] \in Seq(T) /\ G[i] = G[i - 1] \o s[i]
        BY <1>0, <1>00
      <3>2. \A i \in 1..n : i = 1 => G[i - 1] = <<>> /\ <<>> \o s[i] = s[i]
        BY <1>00, <3>1
      <3> QED
        BY <3>1, <3>2
    <2>2. h = [i \in 1..n |-> IF i = 1 THEN seqs[i] ELSE h[i - 1] \o seqs[i]]
      <3>1. \A i \in 1..n : h[i] = G[i] /\ (i # 1 => h[i - 1] = G[i - 1])
        OBVIOUS
      <3>2. \A i \in 1..n : G[i] = IF i = 1 THEN seqs[i] ELSE h[i - 1] \o seqs[i]
        <4> HIDE DEF h, seqs
        <4> QED
          BY <1>1, <2>1, <3>1
      <3> QED
        BY <3>2, Zenon
    <2>3. flatten = [i \in 1..n |-> IF i = 1 THEN seqs[i] ELSE flatten[i - 1] \o seqs[i]]
      BY <2>2
    <2> DEFINE Bad == {i \in 1..n : flatten[i] # G[i]}
    <2>4. ASSUME Bad # {} PROVE FALSE
      <3>1. Bad \in SUBSET Nat
        <4> HIDE DEF flatten
        <4> QED
          BY <1>0
      <3>2. PICK i \in Bad : \A j \in Bad : i <= j
        <4> HIDE DEF Bad
        <4> QED
          BY <2>4, <3>1, LeastExists
      <3>3. i \in 1..n /\ flatten[i] # G[i]
        OBVIOUS
      <3> HIDE DEF flatten
      <3>4. flatten[i] = IF i = 1 THEN s[i] ELSE flatten[i - 1] \o s[i]
        BY <1>1, <2>3, <3>3
      <3>5. i # 1 => i - 1 \in 1..n /\ i - 1 \notin Bad
        BY <3>2, <3>3
      <3>6. i # 1 => flatten[i - 1] = G[i - 1]
        BY <3>5
      <3> QED
        BY <2>1, <3>3, <3>4, <3>6
    <2>5. flatten[n] = G[n]
      <3> HIDE DEF flatten
      <3> QED
        BY <1>0, <1>4, <2>4
    <2> QED
      BY <1>2, <1>4, <2>5
  <1> QED
    BY <1>3, <1>4

\* The promised text grows line by line.
LEMMA TextFacts ==
  ASSUME NEW r, r.image \in Images
  PROVE  LET L == Promise!LineBoxes(r.image)
             N == Len(Croppable(r.image))
         IN /\ Promise!TextUpTo(r, 0) = <<>>
            /\ \A n \in 0..N : Promise!TextUpTo(r, n) \in Seq(Character)
            /\ \A n \in 1..N :
                 Promise!TextUpTo(r, n) = Promise!TextUpTo(r, n - 1) \o Promise!TextOf(r, L[n])
  <1> DEFINE L == Promise!LineBoxes(r.image)
             N == Len(Croppable(r.image))
             s == [i \in 1..N |-> Promise!TextOf(r, L[i])]
             F == [p \in (1..N) \X Seq(Character) |-> p[2] \o s[p[1]]]
  <1>1. N \in Nat /\ \A i \in 1..N : L[i] \in 1..MaxLines /\ r.image[L[i]].length \in 1..TextCapacity
    <2>1. N \in Nat
      BY CroppableFacts
    <2> QED
      BY <2>1, CroppableFacts
  <1>2. TextCapacity \in Nat /\ MaxLines \in Nat
    BY OcrRunAssumption
  <1> HIDE DEF L, N
  <1>3. s \in [1..N -> Seq(Character)]
    <2>1. ASSUME NEW i \in 1..N PROVE Promise!TextOf(r, L[i]) \in Seq(Character)
      <3>1. r.image[L[i]].length \in Nat
        BY <1>1, <1>2
      <3>2. \A k \in 1..r.image[L[i]].length : <<L[i], k>> \in Character
        BY <1>1, <3>1 DEF Character
      <3> HIDE DEF Character
      <3> QED
        BY <3>1, <3>2 DEF Promise!TextOf
    <2> QED
      BY <2>1
  <1>4. F \in [(1..N) \X Seq(Character) -> Seq(Character)]
    <2> HIDE DEF s
    <2> QED
      BY <1>3
  <1>5. <<>> \in Seq(Character)
    OBVIOUS
  <1>6. PICK G : /\ G \in [0..N -> Seq(Character)]
                 /\ G[0] = <<>> /\ \A k \in 1..N : G[k] = F[<<k, G[k - 1]>>]
    <2>1. Steps(N, Seq(Character), <<>>, F)
      BY <1>1, <1>4, <1>5 DEF Steps
    <2> HIDE DEF F
    <2>2. \E G : Traces(G, N, Seq(Character), <<>>, F)
      BY <2>1, Iteration
    <2> QED
      BY <2>2 DEF Traces
  <1>7. \A k \in 1..N : k - 1 \in 0..N /\ G[k] = G[k - 1] \o s[k]
    <2>1. \A k \in 1..N : k - 1 \in 0..N /\ G[k - 1] \in Seq(Character)
      BY <1>1, <1>6
    <2> HIDE DEF s
    <2> QED
      BY <1>6, <2>1
  <1>8. Concatenates(N, Character, G, s)
    <2> HIDE DEF s
    <2> QED
      BY <1>1, <1>3, <1>6, <1>7 DEF Concatenates
  <1>9. \A n \in 0..N : Promise!FlattenSeq(First(s, n)) = G[n]
    <2> HIDE DEF s
    <2> QED
      BY <1>8, FlattenIs
  <1>10. ASSUME NEW n \in 0..N PROVE Promise!TextUpTo(r, n) = G[n]
    <2>1. \A i \in 1..n : s[i] = Promise!TextOf(r, L[i])
      BY <1>1
    <2>2. [i \in 1..n |-> Promise!TextOf(r, Promise!LineBoxes(r.image)[i])] = First(s, n)
      <3> HIDE DEF s
      <3> QED
        BY <2>1 DEF L, First
    <2> QED
      BY <1>9, <2>2 DEF Promise!TextUpTo
  <1> SUFFICES /\ Promise!TextUpTo(r, 0) = <<>>
               /\ \A n \in 0..N : Promise!TextUpTo(r, n) \in Seq(Character)
               /\ \A n \in 1..N :
                    Promise!TextUpTo(r, n) = Promise!TextUpTo(r, n - 1) \o Promise!TextOf(r, L[n])
    BY DEF L, N
  <1>11. 0 \in 0..N
    BY <1>1
  <1>12. \A n \in 1..N : n \in 0..N /\ s[n] = Promise!TextOf(r, L[n])
    BY <1>1
  <1> HIDE DEF s
  <1> QED
    BY <1>6, <1>7, <1>10, <1>11, <1>12

LEMMA MinIsMember ==
  ASSUME NEW S \in SUBSET Nat, S # {}
  PROVE  Min(S) \in S
  BY LeastExists DEF Min

\* A sequence shorter than K leaves one of K workers out.
LEMMA OneIsFree ==
  ASSUME NEW K \in Nat, NEW s \in Seq(0..(K - 1)), Len(s) < K
  PROVE  (0..(K - 1)) \ Range(s) # {}
  <1>1. Len(s) \in Nat /\ DOMAIN s = 1..Len(s) /\ \A i \in 1..Len(s) : s[i] \in 0..(K - 1)
    OBVIOUS
  <1>2. IsFiniteSet(1..Len(s)) /\ Cardinality(1..Len(s)) = Len(s)
    BY <1>1, Counting
  <1>3. 0 \in Int /\ K - 1 \in Int
    OBVIOUS
  <1>4. IsFiniteSet(0..(K - 1)) /\ Cardinality(0..(K - 1)) = K
    BY <1>3, FS_Interval
  <1>5. ASSUME (0..(K - 1)) \ Range(s) = {} PROVE s \in Surjection(1..Len(s), 0..(K - 1))
    <2>1. s \in [1..Len(s) -> 0..(K - 1)]
      BY <1>1
    <2>2. \A w \in 0..(K - 1) : \E i \in 1..Len(s) : s[i] = w
      BY <1>1, <1>5 DEF Range
    <2> QED
      BY <2>1, <2>2 DEF Surjection
  <1>6. s \in Surjection(1..Len(s), 0..(K - 1)) => Cardinality(0..(K - 1)) <= Cardinality(1..Len(s))
    BY <1>2, FS_Surjection
  <1> QED
    BY <1>1, <1>2, <1>4, <1>5, <1>6

\* Every worker but the last ones is given the slot that nobody else is given.
LEMMA ReserveFacts ==
  ASSUME NEW list, NEW K \in Nat
  PROVE  /\ Reserve(list, 0..(K - 1)) \in Seq(0..(K - 1))
         /\ Len(Reserve(list, 0..(K - 1))) = K
         /\ \A i, j \in 1..K : Reserve(list, 0..(K - 1))[i] = Reserve(list, 0..(K - 1))[j] => i = j
  <1> DEFINE workers == 0..(K - 1)
             same(k) == {w \in workers : recWidth[w] = list[Schedule(list)[k]].width}
             free(s) == workers \ Range(s)
             Pick(k, s) == Min(IF same(k) \cap free(s) # {} THEN same(k) \cap free(s) ELSE free(s))
             reserve == CHOOSE f : f = [k \in 0..Cardinality(workers) |->
                                          IF k = 0 THEN <<>> ELSE Append(f[k - 1], Pick(k, f[k - 1]))]
             Candidates == workers \cup {Min({})}
             Values == Seq(Candidates)
             F == [p \in (1..K) \X Values |-> Append(p[2], Pick(p[1], p[2]))]
  <1>1. Cardinality(workers) = K
    <2>1. 0 \in Int /\ K - 1 \in Int
      OBVIOUS
    <2> QED
      BY <2>1, FS_Interval
  <1>2. Reserve(list, workers) = reserve[K]
    BY <1>1 DEF Reserve
  <1>3. ASSUME NEW k, NEW s PROVE /\ free(s) # {} => Pick(k, s) \in free(s)
                                  /\ Pick(k, s) \in Candidates
    <2> DEFINE X == IF same(k) \cap free(s) # {} THEN same(k) \cap free(s) ELSE free(s)
    <2>1. X \in SUBSET free(s) /\ (free(s) # {} => X # {}) /\ X \in SUBSET Nat
      OBVIOUS
    <2>2. X # {} => Min(X) \in X
      <3> HIDE DEF X
      <3> QED
        BY <2>1, MinIsMember
    <2> HIDE DEF X, same, free
    <2>3. X = {} \/ Min(X) \in workers
      <3>1. free(s) \subseteq workers
        BY DEF free
      <3> QED
        BY <2>1, <2>2, <3>1
    <2> QED
      BY <2>1, <2>2, <2>3 DEF X
  <1>4. Steps(K, Values, <<>>, F)
    <2>1. \A k, s : s \in Seq(Candidates) => Append(s, Pick(k, s)) \in Seq(Candidates)
      <3> HIDE DEF Pick, Candidates
      <3> QED
        BY <1>3
    <2>2. <<>> \in Seq(Candidates)
      OBVIOUS
    <2> HIDE DEF Pick, Candidates
    <2>3. F \in [(1..K) \X Seq(Candidates) -> Seq(Candidates)]
      BY <2>1
    <2> QED
      BY <2>2, <2>3 DEF Steps
  <1>5. PICK g \in [0..K -> Values] : g[0] = <<>> /\ \A k \in 1..K : g[k] = F[<<k, g[k - 1]>>]
    <2> HIDE DEF F, Values
    <2>1. \E g : Traces(g, K, Values, <<>>, F)
      BY <1>4, Iteration
    <2> QED
      BY <2>1 DEF Traces
  <1>6. g = [k \in 0..Cardinality(workers) |-> IF k = 0 THEN <<>> ELSE Append(g[k - 1], Pick(k, g[k - 1]))]
    <2>1. \A k \in 0..K : g[k] = IF k = 0 THEN <<>> ELSE Append(g[k - 1], Pick(k, g[k - 1]))
      <3>1. \A k \in 1..K : k - 1 \in 0..K /\ g[k - 1] \in Seq(Candidates)
        <4> HIDE DEF Candidates
        <4> QED
          OBVIOUS
      <3>2. \A k \in 1..K : F[<<k, g[k - 1]>>] = Append(g[k - 1], Pick(k, g[k - 1]))
        <4> HIDE DEF Candidates, Pick
        <4> QED
          BY <3>1
      <3>3. \A k \in 0..K : k = 0 \/ k \in 1..K
        OBVIOUS
      <3> HIDE DEF F, Pick, Candidates
      <3> QED
        BY <1>5, <3>2, <3>3, Zenon
    <2> HIDE DEF Pick, Candidates, workers
    <2> QED
      BY <1>1, <2>1
  <1>7. reserve = [k \in 0..Cardinality(workers) |->
                     IF k = 0 THEN <<>> ELSE Append(reserve[k - 1], Pick(k, reserve[k - 1]))]
    <2> HIDE DEF Pick, workers, Candidates
    <2> QED
      BY <1>6
  <1> HIDE DEF reserve
  <1>8. \A k \in 0..K : reserve[k] = IF k = 0 THEN <<>> ELSE Append(reserve[k - 1], Pick(k, reserve[k - 1]))
    <2> HIDE DEF Pick, workers
    <2> QED
      BY <1>1, <1>7
  <1> DEFINE Good(k) == /\ reserve[k] \in Seq(workers) /\ Len(reserve[k]) = k
                        /\ \A i, j \in 1..k : reserve[k][i] = reserve[k][j] => i = j
             Bad == {k \in 0..K : ~Good(k)}
  <1>9. ASSUME NEW k \in 1..K, Good(k - 1) PROVE Good(k)
    <2> DEFINE s == reserve[k - 1]
               w == Pick(k, s)
    <2>1. s \in Seq(workers) /\ Len(s) = k - 1 /\ \A i, j \in 1..(k - 1) : s[i] = s[j] => i = j
      BY <1>9
    <2>2. free(s) # {}
      <3>1. k - 1 < K
        OBVIOUS
      <3> HIDE DEF s
      <3> QED
        BY <2>1, <3>1, OneIsFree
    <2>3. w \in free(s)
      <3> HIDE DEF s, Pick, free
      <3> QED
        BY <1>3, <2>2
    <2>4. reserve[k] = Append(s, w)
      <3>1. k \in 0..K /\ k # 0
        OBVIOUS
      <3> HIDE DEF Pick
      <3> QED
        BY <1>8, <3>1
    <2> HIDE DEF s, w
    <2>5. w \in workers /\ \A i \in 1..(k - 1) : s[i] # w
      <3>1. DOMAIN s = 1..(k - 1)
        BY <2>1
      <3> QED
        BY <2>3, <3>1 DEF Range
    <2>6. reserve[k] \in Seq(workers) /\ Len(reserve[k]) = k
      <3> HIDE DEF workers
      <3> QED
        BY <2>1, <2>4, <2>5
    <2>7. \A i \in 1..k : reserve[k][i] = IF i = k THEN w ELSE s[i]
      <3> HIDE DEF workers
      <3> QED
        BY <2>1, <2>4, <2>5
    <2>8. \A i, j \in 1..k : reserve[k][i] = reserve[k][j] => i = j
      <3>1. \A i \in 1..k : i = k \/ i \in 1..(k - 1)
        OBVIOUS
      <3> HIDE DEF workers
      <3> QED
        BY <2>1, <2>5, <2>7, <3>1, Zenon
    <2> QED
      BY <2>6, <2>8
  <1>10. Good(0)
    <2>1. reserve[0] = <<>>
      <3>1. 0 \in 0..K
        OBVIOUS
      <3> HIDE DEF Pick
      <3> QED
        BY <1>8, <3>1
    <2> QED
      BY <2>1
  <1> HIDE DEF Good
  <1>11. ASSUME Bad # {} PROVE FALSE
    <2>1. Bad \in SUBSET Nat
      OBVIOUS
    <2>2. PICK k \in Bad : \A m \in Bad : k <= m
      <3> HIDE DEF Bad
      <3> QED
        BY <1>11, <2>1, LeastExists
    <2>3. k \in 0..K /\ k # 0
      BY <1>10, <2>2
    <2>4. k \in 1..K /\ k - 1 \in 0..K /\ k - 1 \notin Bad
      BY <2>2, <2>3
    <2> QED
      BY <1>9, <2>4
  <1>12. Good(K)
    <2>1. K \in 0..K
      OBVIOUS
    <2> QED
      BY <1>11, <2>1
  <1> QED
    BY <1>2, <1>12 DEF Good

-----------------------------------------------------------------------------
(* Slots, workers and requests *)

LEMMA SlotFacts ==
  /\ MaxLines \in Nat \ {0} /\ TextCapacity \in Nat \ {0} /\ MaxLines * TextCapacity \in Nat
  /\ SlotStart(1) = 0
  /\ \A i \in 1..(MaxLines + 1) : SlotStart(i) \in 0..(MaxLines * TextCapacity)
  /\ \A i \in 1..MaxLines : SlotStart(i + 1) = SlotStart(i) + TextCapacity
  /\ \A i, j \in 1..(MaxLines + 1) : i < j => SlotStart(i) + TextCapacity <= SlotStart(j)
  <1>1. MaxLines \in Nat \ {0} /\ TextCapacity \in Nat \ {0}
    BY OcrRunAssumption
  <1>2. SlotStart(1) = 0
    BY <1>1 DEF SlotStart
  <1>3. ASSUME NEW a \in Nat, NEW b \in Nat, NEW t \in Nat, a < b
        PROVE  a * t \in Nat /\ (a + 1) * t = a * t + t /\ a * t + t <= b * t /\ b * t \in Nat
    <2>1. (a + 1) * t = a * t + t
      OBVIOUS
    <2>2. (a + 1) * t <= b * t
      BY <1>3
    <2>3. a * t \in Nat /\ b * t \in Nat
      OBVIOUS
    <2> QED
      BY <2>1, <2>2, <2>3
  <1>4. ASSUME NEW i \in 1..MaxLines
        PROVE  SlotStart(i + 1) = SlotStart(i) + TextCapacity /\ SlotStart(i) \in Nat
    <2> DEFINE a == i - 1
    <2>1. a \in Nat /\ a + 1 \in Nat /\ a < a + 1 /\ (i + 1) - 1 = a + 1
      BY <1>1
    <2>2. (a + 1) * TextCapacity = a * TextCapacity + TextCapacity /\ a * TextCapacity \in Nat
      <3> HIDE DEF a
      <3> QED
        BY <1>1, <1>3, <2>1, Zenon
    <2> QED
      BY <2>1, <2>2 DEF SlotStart
  <1>5. ASSUME NEW i \in 1..(MaxLines + 1), NEW j \in 1..(MaxLines + 1), i < j
        PROVE  SlotStart(i) + TextCapacity <= SlotStart(j)
    <2> DEFINE a == i - 1
               b == j - 1
    <2>1. a \in Nat /\ b \in Nat /\ a < b
      BY <1>1, <1>5
    <2>2. a * TextCapacity + TextCapacity <= b * TextCapacity
      <3> HIDE DEF a, b
      <3> QED
        BY <1>1, <1>3, <2>1, Zenon
    <2> QED
      BY <2>2 DEF SlotStart
  <1>6. SlotStart(MaxLines + 1) = MaxLines * TextCapacity
    BY <1>1 DEF SlotStart
  <1>7. SlotStart(MaxLines + 1) \in Nat
    <2>1. MaxLines \in 1..MaxLines
      BY <1>1
    <2>2. SlotStart(MaxLines + 1) = SlotStart(MaxLines) + TextCapacity /\ SlotStart(MaxLines) \in Nat
      BY <1>4, <2>1
    <2> QED
      BY <1>1, <2>2
  <1>8. ASSUME NEW i \in 1..(MaxLines + 1) PROVE SlotStart(i) \in 0..(MaxLines * TextCapacity)
    <2>1. CASE i = MaxLines + 1
      BY <1>6, <1>7, <2>1
    <2>2. CASE i # MaxLines + 1
      <3>1. i \in 1..MaxLines /\ i < MaxLines + 1 /\ MaxLines + 1 \in 1..(MaxLines + 1)
        BY <1>1, <2>2
      <3>2. SlotStart(i) \in Nat /\ SlotStart(i) + TextCapacity <= SlotStart(MaxLines + 1)
        BY <1>4, <1>5, <3>1
      <3> QED
        BY <1>1, <1>6, <1>7, <3>2
    <2> QED
      BY <2>1, <2>2
  <1>9. MaxLines * TextCapacity \in Nat
    BY <1>6, <1>7
  <1> QED
    BY <1>1, <1>2, <1>4, <1>5, <1>8, <1>9

\* There are as many active workers as lines, but no more than workers.
LEMMA MinFacts ==
  ASSUME NEW n \in Nat
  PROVE  /\ Min({n, WorkerCount}) \in 0..n /\ Min({n, WorkerCount}) <= WorkerCount
         /\ n > 0 => Min({n, WorkerCount}) > 0
         /\ Cardinality(0..(Min({n, WorkerCount}) - 1)) = Min({n, WorkerCount})
         /\ 0..(Min({n, WorkerCount}) - 1) \subseteq Workers
         /\ WorkerCount \in Nat \ {0}
  <1> DEFINE m == Min({n, WorkerCount})
  <1>1. WorkerCount \in Nat \ {0}
    BY OcrRunAssumption
  <1>2. m \in {n, WorkerCount} /\ m <= n /\ m <= WorkerCount
    BY <1>1 DEF Min
  <1> HIDE DEF m
  <1>3. m \in 0..n /\ m <= WorkerCount /\ (n > 0 => m > 0) /\ 0 \in Int /\ m - 1 \in Int /\ m \in Nat
    BY <1>1, <1>2
  <1>4. Cardinality(0..(m - 1)) = m
    BY <1>3, FS_Interval
  <1>5. 0..(m - 1) \subseteq Workers
    BY <1>1, <1>3 DEF Workers
  <1> QED
    BY <1>1, <1>3, <1>4, <1>5 DEF m

\* The same of a number that is known to be the minimum.
LEMMA ActiveFacts ==
  ASSUME NEW n \in Nat, NEW m, m = Min({n, WorkerCount})
  PROVE  /\ m \in 0..n /\ m \in Nat /\ m <= WorkerCount /\ (n > 0 => m > 0)
         /\ Cardinality(0..(m - 1)) = m /\ 0..(m - 1) \subseteq Workers
         /\ WorkerCount \in Nat \ {0}
  <1>1. /\ m \in 0..n /\ m <= WorkerCount /\ (n > 0 => m > 0)
        /\ Cardinality(0..(m - 1)) = m /\ 0..(m - 1) \subseteq Workers
        /\ WorkerCount \in Nat \ {0}
    BY MinFacts
  <1>2. m \in 0..n
    BY <1>1
  <1>3. m \in Nat
    BY <1>2
  <1> QED
    BY <1>1, <1>3

Active == Cardinality(ActiveWorkers)

\* What holds while the workers run.
LEMMA RunningFacts ==
  ASSUME IInv, pc \in Running
  PROVE  /\ request \in Requests /\ request.image \in Images
         /\ crops = Croppable(request.image) /\ crops \in Seq(Crop)
         /\ LineCount \in 1..MaxLines /\ LineCount \in Nat /\ DOMAIN crops = 1..LineCount
         /\ MaxLines \in Nat /\ 1..LineCount \subseteq CropIds
         /\ Active \in Nat /\ 0 < Active /\ Active <= LineCount /\ Active <= WorkerCount
         /\ ActiveWorkers = 0..(Active - 1) /\ ActiveWorkers \subseteq Workers
         /\ 0 \in ActiveWorkers /\ WorkerCount \in Nat \ {0}
         /\ \A k \in 1..LineCount : Schedule(crops)[k] \in 1..LineCount
         /\ \A k, l \in 1..LineCount : Schedule(crops)[k] = Schedule(crops)[l] => k = l
         /\ \A i \in 1..LineCount : \E k \in 1..LineCount : Schedule(crops)[k] = i
         /\ \A i \in 1..LineCount : /\ crops[i].box \in 1..MaxLines /\ crops[i].width \in Nat
                                   /\ request.image[crops[i].box].length \in 1..TextCapacity
  <1>1. pc # "idle"
    BY DEF Running
  <1>2. request \in Requests /\ crops = Croppable(request.image) /\ LineCount > 0
    BY <1>1 DEF IInv, RequestShape, ThreadShape
  <1>3. request.image \in Images
    BY <1>2 DEF Requests
  <1>4. crops \in Seq(Crop) /\ LineCount <= MaxLines
    BY <1>2, <1>3, CroppableFacts DEF LineCount
  <1>5. /\ LineCount \in Nat /\ DOMAIN crops = 1..LineCount
        /\ \A i \in 1..LineCount : crops[i] \in Crop
    BY <1>4 DEF LineCount
  <1>6. MaxLines \in Nat
    BY SlotFacts
  <1>7. /\ Active = Min({LineCount, WorkerCount}) /\ Active \in 0..LineCount /\ Active <= WorkerCount
        /\ Active > 0 /\ WorkerCount \in Nat \ {0} /\ 0..(Active - 1) \subseteq Workers
    BY <1>2, <1>5, MinFacts DEF Active, ActiveWorkers
  <1>8. ActiveWorkers = 0..(Active - 1)
    BY <1>7 DEF ActiveWorkers
  <1>9. 0 \in ActiveWorkers /\ LineCount \in 1..MaxLines /\ 1..LineCount \subseteq CropIds
    BY <1>2, <1>4, <1>5, <1>6, <1>7, <1>8 DEF CropIds
  <1>10. \A i \in 1..LineCount : /\ crops[i].box \in 1..MaxLines
                                 /\ request.image[crops[i].box].length \in 1..TextCapacity
    BY <1>2, <1>3, CroppableFacts DEF LineCount
  <1>11. \A i \in 1..LineCount : crops[i].width \in Nat
    BY <1>5 DEF Crop
  <1>12. /\ \A k \in 1..LineCount : Schedule(crops)[k] \in 1..LineCount
         /\ \A k, l \in 1..LineCount : Schedule(crops)[k] = Schedule(crops)[l] => k = l
         /\ \A i \in 1..LineCount : \E k \in 1..LineCount : Schedule(crops)[k] = i
    BY <1>4, ScheduleFacts DEF LineCount
  <1>13. Active \in Nat /\ 0 < Active /\ Active <= LineCount
    BY <1>5, <1>7
  <1>14. ActiveWorkers \subseteq Workers
    BY <1>7, <1>8
  <1> QED
    BY <1>2, <1>3, <1>4, <1>5, <1>6, <1>7, <1>8, <1>9, <1>10, <1>11, <1>12, <1>13, <1>14, Zenon

-----------------------------------------------------------------------------
(* The invariant holds initially, and the caller's thread keeps it while the *)
(* workers run                                                               *)

LEMMA WorkerFacts == 0 \in Workers /\ WorkerCount \in Nat \ {0} /\ StartWidth \in Nat
  BY OcrRunAssumption DEF Workers

LEMMA InitInvariant == Init => IInv
  <1> SUFFICES ASSUME Init PROVE IInv
    OBVIOUS
  <1>1. MaxLines \in Nat \ {0} /\ MaxLines * TextCapacity \in Nat /\ TextCapacity \in Nat
    BY SlotFacts
  <1>2. crops \in Seq([box : 1..MaxLines, width : Nat]) /\ LineCount = 0
    BY DEF Init, LineCount
  <1>3. scratchLines \in [CropIds -> [box : 0..MaxLines, offset : {0} \cup Cells, length : 0..TextCapacity]]
    <2>1. NoLine \in [box : 0..MaxLines, offset : {0} \cup Cells, length : 0..TextCapacity]
      BY <1>1 DEF NoLine
    <2> QED
      BY <2>1 DEF Init, NoLines
  <1>4. TypeOK
    BY <1>1, <1>2, <1>3, WorkerFacts DEF Init, TypeOK
  <1>5. pc = "idle"
    BY DEF Init
  <1>6. RequestShape
    BY <1>5 DEF Init, RequestShape, Running
  <1>7. ThreadShape
    BY <1>1, <1>2, <1>5 DEF Init, ThreadShape, Running
  <1>8. Holders /\ SlotsWritten /\ Compacted
    BY <1>5 DEF Holders, SlotsWritten, Compacted, Running
  <1> QED
    BY <1>4, <1>6, <1>7, <1>8 DEF IInv

\* Starting a worker, or the caller's own progress, does not touch a line.
LEMMA ControlFrame ==
  ASSUME IInv, pc \in Running, pc' \in Running,
         UNCHANGED <<request, crops, nextSlot, scratchLines, scratchText, initial, failed, slot,
                     textUsed>>,
         \A w \in Workers : /\ wpc'[w] = "process" <=> wpc[w] = "process"
                            /\ wpc'[w] = "ended" => wpc[w] = "ended"
  PROVE  RequestShape' /\ Holders' /\ SlotsWritten' /\ Compacted'
  <1>1. RequestShape'
    BY DEF IInv, RequestShape, Running
  <1>2. /\ LineCount' = LineCount /\ ActiveWorkers' = ActiveWorkers
        /\ ActiveWorkers \subseteq Workers
    BY RunningFacts DEF LineCount, ActiveWorkers
  <1>3. \A w \in Workers, k \in 1..LineCount : Takes(w, k)' <=> Takes(w, k)
    BY DEF Takes
  <1>4. \A k \in 1..LineCount : Recognized(k)' <=> Recognized(k)
    BY DEF Recognized
  <1>5. Holders'
    <2> SUFFICES ASSUME pc' \in Running
                 PROVE  /\ (nextSlot > Cardinality(ActiveWorkers))'
                        /\ (\A w \in Workers : initial[w] < nextSlot /\ initial[w] <= LineCount)'
                        /\ (\A w \in Workers : wpc[w] = "process" => slot[w] \in 1..LineCount /\ slot[w] < nextSlot)'
                        /\ (\A w \in Workers : \A v \in Workers : \A k \in 1..LineCount :
                              Takes(w, k) /\ Takes(v, k) => w = v)'
                        /\ (\A w \in Workers : \A k \in 1..LineCount : Takes(w, k) => ~Recognized(k))'
                        /\ (\A k \in 1..LineCount : k >= nextSlot => ~Recognized(k))'
                        /\ (\A k \in 1..LineCount : k < nextSlot =>
                              \/ Recognized(k)
                              \/ \E w \in Workers : Takes(w, k)
                              \/ \E w \in ActiveWorkers : failed[w])'
                        /\ (\A w \in ActiveWorkers : wpc[w] = "ended" => failed[w] \/ nextSlot > LineCount)'
      BY DEF Holders
    <2>1. Holders
      BY DEF IInv
    <2>2. nextSlot > Cardinality(ActiveWorkers)
      BY <2>1 DEF Holders
    <2>3. /\ (\A w \in Workers : initial[w] < nextSlot /\ initial[w] <= LineCount)'
          /\ (\A w \in Workers : wpc[w] = "process" => slot[w] \in 1..LineCount /\ slot[w] < nextSlot)'
      BY <1>2, <2>1 DEF Holders
    <2>4. (\A w \in Workers : \A v \in Workers : \A k \in 1..LineCount :
             Takes(w, k) /\ Takes(v, k) => w = v)'
      BY <1>2, <1>3, <2>1 DEF Holders
    <2>5. /\ (\A w \in Workers : \A k \in 1..LineCount : Takes(w, k) => ~Recognized(k))'
          /\ (\A k \in 1..LineCount : k >= nextSlot => ~Recognized(k))'
      BY <1>2, <1>3, <1>4, <2>1 DEF Holders
    <2>6. (\A k \in 1..LineCount : k < nextSlot =>
             \/ Recognized(k)
             \/ \E w \in Workers : Takes(w, k)
             \/ \E w \in ActiveWorkers : failed[w])'
      BY <1>2, <1>3, <1>4, <2>1 DEF Holders
    <2>7. (\A w \in ActiveWorkers : wpc[w] = "ended" => failed[w] \/ nextSlot > LineCount)'
      BY <1>2, <2>1 DEF Holders
    <2> QED
      BY <1>2, <2>2, <2>3, <2>4, <2>5, <2>6, <2>7
  <1>6. SlotsWritten'
    BY <1>2 DEF IInv, SlotsWritten, Written
  <1>7. Compacted'
    BY DEF Compacted, Running
  <1> QED
    BY <1>1, <1>5, <1>6, <1>7

LEMMA TypeFrame ==
  ASSUME IInv, UNCHANGED <<crops, nextSlot, scratchLines, initial, failed, slot, recWidth, textUsed>>,
         pc' \in {"idle", "prepare", "spawn", "inline", "join", "compact"},
         started' \in SUBSET (Workers \ {0}),
         wpc' \in [Workers -> {"off", "claim", "process", "ended"}],
         at' \in 1..(MaxLines + WorkerCount) \cup {0}
  PROVE  TypeOK'
  BY DEF IInv, TypeOK

LEMMA SpawnThreadStep ==
  ASSUME IInv, SpawnThread
  PROVE  IInv'
  <1>1. pc = "spawn" /\ pc' = "spawn" /\ pc \in Running /\ pc' \in Running
    BY DEF SpawnThread, Running
  <1>2. /\ at \in 1..(Active - 1) /\ at \in Workers \ {0} /\ at' = at + 1 /\ at' \in 1..Active
        /\ at \in ActiveWorkers /\ Active <= WorkerCount /\ 0 \in ActiveWorkers
        /\ ActiveWorkers = 0..(Active - 1) /\ ActiveWorkers \subseteq Workers /\ Active \in Nat
        /\ LineCount' = LineCount /\ ActiveWorkers' = ActiveWorkers /\ MaxLines \in Nat
        /\ WorkerCount \in Nat /\ Active' = Active
    <2>1. at \in ActiveWorkers /\ at' = at + 1 /\ crops' = crops /\ at \in 1..Active
      BY <1>1 DEF SpawnThread, IInv, ThreadShape, Active
    <2>2. /\ ActiveWorkers = 0..(Active - 1) /\ Active \in Nat /\ ActiveWorkers \subseteq Workers
          /\ 0 \in ActiveWorkers /\ Active <= WorkerCount /\ WorkerCount \in Nat /\ MaxLines \in Nat
      BY <1>1, RunningFacts
    <2>3. at \in 1..(Active - 1) /\ at' \in 1..Active /\ at \in Workers \ {0}
      BY <2>1, <2>2
    <2>4. LineCount' = LineCount /\ ActiveWorkers' = ActiveWorkers /\ Active' = Active
      BY <2>1 DEF LineCount, ActiveWorkers, Active
    <2> QED
      BY <2>1, <2>2, <2>3, <2>4
  <1>3. /\ wpc' = [wpc EXCEPT ![at] = "claim"] /\ started' = started \cup {at}
        /\ UNCHANGED <<request, crops, nextSlot, scratchLines, scratchText, initial, failed, slot,
                       recWidth, textUsed>>
    BY DEF SpawnThread, Start, requestVars, scratchVars
  <1>4. wpc \in [Workers -> {"off", "claim", "process", "ended"}] /\ wpc[at] = "off" /\ wpc'[at] = "claim"
        /\ \A w \in Workers \ {at} : wpc'[w] = wpc[w]
    BY <1>1, <1>2, <1>3 DEF IInv, TypeOK, ThreadShape
  <1>5. TypeOK'
    <2>1. started \subseteq 1..(at - 1) /\ 1..at \subseteq Workers \ {0}
      BY <1>1, <1>2 DEF IInv, ThreadShape, Workers
    <2>2. wpc' \in [Workers -> {"off", "claim", "process", "ended"}]
      BY <1>3, <1>4
    <2>3. started' \in SUBSET (Workers \ {0})
      BY <1>2, <1>3, <2>1
    <2>4. at' \in 1..(MaxLines + WorkerCount) \cup {0}
      BY <1>2
    <2>5. pc' \in {"idle", "prepare", "spawn", "inline", "join", "compact"}
      BY <1>1
    <2> QED
      BY <1>3, <2>2, <2>3, <2>4, <2>5, TypeFrame
  <1>6. ThreadShape'
    <2>1. ThreadShape
      BY DEF IInv
    <2>2. /\ LineCount <= MaxLines /\ LineCount > 0
          /\ \A w \in Workers \ ActiveWorkers : wpc'[w] = "off" /\ initial'[w] = 0
          /\ \A w \in Workers : wpc'[w] \in {"process", "ended"} => initial'[w] = 0
      BY <1>1, <1>2, <1>3, <1>4, <2>1 DEF ThreadShape
    <2>3. started' \subseteq 1..(at' - 1) /\ wpc'[0] = "off"
      BY <1>1, <1>2, <1>3, <1>4, <2>1, WorkerFacts DEF ThreadShape
    <2>4. /\ \A w \in ActiveWorkers : w > at' => wpc'[w] = "off"
          /\ \A w \in 1..(at' - 1) : wpc'[w] # "off" /\ (w \in started' \/ wpc'[w] = "ended")
          /\ at' \in ActiveWorkers => wpc'[at'] = "off"
      BY <1>1, <1>2, <1>3, <1>4, <2>1 DEF ThreadShape
    <2> QED
      BY <1>1, <1>2, <2>2, <2>3, <2>4 DEF ThreadShape, Active, Running
  <1>7. RequestShape' /\ Holders' /\ SlotsWritten' /\ Compacted'
    BY <1>1, <1>3, <1>4, ControlFrame
  <1> QED
    BY <1>5, <1>6, <1>7 DEF IInv

\* What the spawn loop's actions have in common.
LEMMA SpawnFacts ==
  ASSUME IInv, pc \in {"spawn", "inline"}, UNCHANGED crops
  PROVE  /\ at \in 1..Active /\ at \in Nat /\ started \in SUBSET (Workers \ {0})
         /\ started \subseteq 1..(at - 1) /\ pc \in Running
         /\ ActiveWorkers = 0..(Active - 1) /\ ActiveWorkers \subseteq Workers
         /\ Active \in Nat /\ Active <= WorkerCount /\ 0 \in ActiveWorkers
         /\ WorkerCount \in Nat /\ MaxLines \in Nat /\ LineCount > 0 /\ LineCount <= MaxLines
         /\ LineCount' = LineCount /\ ActiveWorkers' = ActiveWorkers /\ Active' = Active
         /\ wpc \in [Workers -> {"off", "claim", "process", "ended"}]
         /\ 1..Active \subseteq 1..(MaxLines + WorkerCount)
  <1>1. pc \in Running
    BY DEF Running
  <1>2. /\ at \in 1..Active /\ started \subseteq 1..(at - 1) /\ LineCount > 0 /\ LineCount <= MaxLines
        /\ started \in SUBSET (Workers \ {0})
        /\ wpc \in [Workers -> {"off", "claim", "process", "ended"}]
    BY <1>1 DEF IInv, ThreadShape, Active, TypeOK
  <1>3. /\ ActiveWorkers = 0..(Active - 1) /\ Active \in Nat /\ ActiveWorkers \subseteq Workers
        /\ 0 \in ActiveWorkers /\ Active <= WorkerCount /\ WorkerCount \in Nat /\ MaxLines \in Nat
    BY <1>1, RunningFacts
  <1>4. LineCount' = LineCount /\ ActiveWorkers' = ActiveWorkers /\ Active' = Active
    BY DEF LineCount, ActiveWorkers, Active
  <1>5. at \in Nat /\ 1..Active \subseteq 1..(MaxLines + WorkerCount)
    BY <1>2, <1>3
  <1> QED
    BY <1>1, <1>2, <1>3, <1>4, <1>5

LEMMA SpawnFailsStep ==
  ASSUME IInv, SpawnFails
  PROVE  IInv'
  <1>1. /\ pc = "spawn" /\ pc' = "inline" /\ pc' \in Running /\ at \in ActiveWorkers
        /\ wpc' = [wpc EXCEPT ![at] = "claim"]
        /\ UNCHANGED <<request, crops, nextSlot, scratchLines, scratchText, initial, failed, started,
                       slot, recWidth, at, textUsed>>
    BY DEF SpawnFails, Running, Start, requestVars, scratchVars, taskVars
  <1>2. /\ at \in 1..Active /\ at \in Nat /\ started \in SUBSET (Workers \ {0})
        /\ started \subseteq 1..(at - 1) /\ pc \in Running
        /\ ActiveWorkers = 0..(Active - 1) /\ ActiveWorkers \subseteq Workers
        /\ LineCount > 0 /\ LineCount <= MaxLines
        /\ LineCount' = LineCount /\ ActiveWorkers' = ActiveWorkers /\ Active' = Active
        /\ wpc \in [Workers -> {"off", "claim", "process", "ended"}]
        /\ 1..Active \subseteq 1..(MaxLines + WorkerCount)
    BY <1>1, SpawnFacts
  <1>3. ThreadShape /\ wpc[at] = "off" /\ wpc'[at] = "claim" /\ \A w \in Workers \ {at} : wpc'[w] = wpc[w]
    BY <1>1, <1>2 DEF IInv, ThreadShape
  <1>4. wpc' \in [Workers -> {"off", "claim", "process", "ended"}]
    BY <1>1, <1>2
  <1>5. TypeOK'
    BY <1>1, <1>2, <1>4, TypeFrame
  <1>6. ThreadShape'
    <2>1. /\ \A w \in Workers \ ActiveWorkers : wpc'[w] = "off" /\ initial'[w] = 0
          /\ \A w \in Workers : wpc'[w] \in {"process", "ended"} => initial'[w] = 0
      BY <1>1, <1>2, <1>3 DEF ThreadShape
    <2>2. /\ wpc'[0] = "off" /\ \A w \in ActiveWorkers : w > at => wpc'[w] = "off"
          /\ \A w \in 1..(at - 1) : wpc'[w] # "off" /\ (w \in started \/ wpc'[w] = "ended")
      BY <1>1, <1>2, <1>3, WorkerFacts DEF ThreadShape
    <2> QED
      BY <1>1, <1>2, <1>3, <2>1, <2>2 DEF ThreadShape, Active, Running
  <1>7. RequestShape' /\ Holders' /\ SlotsWritten' /\ Compacted'
    BY <1>1, <1>2, <1>3, ControlFrame
  <1> QED
    BY <1>5, <1>6, <1>7 DEF IInv

LEMMA InlineReturnsStep ==
  ASSUME IInv, InlineReturns
  PROVE  IInv'
  <1>1. /\ pc = "inline" /\ pc' = "spawn" /\ pc' \in Running /\ at' = at + 1
        /\ wpc[at] = "ended"
        /\ UNCHANGED <<request, crops, nextSlot, scratchLines, scratchText, initial, failed, started,
                       wpc, slot, recWidth, textUsed>>
    BY DEF InlineReturns, Running, requestVars, scratchVars, taskVars, workerVars
  <1>2. /\ at \in 1..Active /\ at \in Nat /\ started \in SUBSET (Workers \ {0})
        /\ started \subseteq 1..(at - 1) /\ pc \in Running
        /\ ActiveWorkers = 0..(Active - 1) /\ ActiveWorkers \subseteq Workers
        /\ LineCount > 0 /\ LineCount <= MaxLines /\ Active \in Nat
        /\ LineCount' = LineCount /\ ActiveWorkers' = ActiveWorkers /\ Active' = Active
        /\ wpc \in [Workers -> {"off", "claim", "process", "ended"}]
        /\ 1..Active \subseteq 1..(MaxLines + WorkerCount)
    BY <1>1, SpawnFacts
  <1>3. ThreadShape /\ at \in ActiveWorkers
    BY <1>1 DEF IInv, ThreadShape
  <1>4. at' \in 1..Active
    BY <1>1, <1>2, <1>3
  <1>5. TypeOK'
    BY <1>1, <1>2, <1>4, TypeFrame
  <1>6. ThreadShape'
    <2>1. started' \subseteq 1..(at' - 1)
      BY <1>1, <1>2
    <2>2. /\ \A w \in ActiveWorkers : w > at' => wpc'[w] = "off"
          /\ at' \in ActiveWorkers => wpc'[at'] = "off"
          /\ \A w \in 1..(at' - 1) : wpc'[w] # "off" /\ (w \in started \/ wpc'[w] = "ended")
      BY <1>1, <1>2, <1>3 DEF ThreadShape
    <2> QED
      BY <1>1, <1>2, <1>3, <1>4, <2>1, <2>2 DEF ThreadShape, Active, Running
  <1>7. RequestShape' /\ Holders' /\ SlotsWritten' /\ Compacted'
    BY <1>1, <1>2, ControlFrame
  <1> QED
    BY <1>5, <1>6, <1>7 DEF IInv

LEMMA RunWorkerZeroStep ==
  ASSUME IInv, RunWorkerZero
  PROVE  IInv'
  <1>1. /\ pc = "spawn" /\ pc' = "join" /\ pc' \in Running /\ at \notin ActiveWorkers
        /\ wpc' = [wpc EXCEPT ![0] = "claim"]
        /\ UNCHANGED <<request, crops, nextSlot, scratchLines, scratchText, initial, failed, started,
                       slot, recWidth, at, textUsed>>
    BY DEF RunWorkerZero, Running, Start, requestVars, scratchVars, taskVars
  <1>2. /\ at \in 1..Active /\ at \in Nat /\ started \in SUBSET (Workers \ {0})
        /\ started \subseteq 1..(at - 1) /\ pc \in Running /\ Active \in Nat
        /\ ActiveWorkers = 0..(Active - 1) /\ ActiveWorkers \subseteq Workers /\ 0 \in ActiveWorkers
        /\ LineCount > 0 /\ LineCount <= MaxLines
        /\ LineCount' = LineCount /\ ActiveWorkers' = ActiveWorkers /\ Active' = Active
        /\ wpc \in [Workers -> {"off", "claim", "process", "ended"}]
        /\ 1..Active \subseteq 1..(MaxLines + WorkerCount)
    BY <1>1, SpawnFacts
  <1>3. ThreadShape /\ wpc[0] = "off" /\ wpc'[0] = "claim" /\ \A w \in Workers \ {0} : wpc'[w] = wpc[w]
    BY <1>1, <1>2, WorkerFacts DEF IInv, ThreadShape
  <1>4. wpc' \in [Workers -> {"off", "claim", "process", "ended"}]
    BY <1>1, <1>2
  <1>5. TypeOK'
    BY <1>1, <1>2, <1>4, TypeFrame
  <1>6. ThreadShape'
    <2>1. /\ \A w \in Workers \ ActiveWorkers : wpc'[w] = "off" /\ initial'[w] = 0
          /\ \A w \in Workers : wpc'[w] \in {"process", "ended"} => initial'[w] = 0
      BY <1>1, <1>2, <1>3 DEF ThreadShape
    <2>2. at = Active /\ ActiveWorkers \ {0} = 1..(at - 1)
      BY <1>1, <1>2
    <2>3. \A w \in 1..(at - 1) : (w \in started \/ wpc[w] = "ended") /\ wpc'[w] = wpc[w]
      BY <1>1, <1>2, <1>3, <2>2 DEF ThreadShape
    <2>4. \A w \in 1..(at - 1) : wpc[w] # "off"
      BY <1>1, <1>2, <1>3, <2>2 DEF ThreadShape
    <2> QED
      BY <1>1, <1>2, <1>3, <2>1, <2>2, <2>3, <2>4 DEF ThreadShape, Running
  <1>7. RequestShape' /\ Holders' /\ SlotsWritten' /\ Compacted'
    BY <1>1, <1>2, <1>3, ControlFrame
  <1> QED
    BY <1>5, <1>6, <1>7 DEF IInv

-----------------------------------------------------------------------------
(* A request begins and its workers are prepared and joined *)

LEMMA CallStep ==
  ASSUME IInv, NEW image \in Images, NEW capacity \in Capacities, Call(image, capacity)
  PROVE  IInv'
  <1>1. /\ pc = "idle" /\ pc' = "prepare"
        /\ request' = [open |-> TRUE, image |-> image, capacity |-> capacity]
        /\ scratchLines' = NoLines /\ scratchText' = NoText
        /\ UNCHANGED <<crops, nextSlot, initial, failed, started, wpc, slot, recWidth, at, textUsed>>
    BY DEF Call, taskVars, workerVars
  <1>2. scratchLines' \in [CropIds -> [box : 0..MaxLines, offset : {0} \cup Cells, length : 0..TextCapacity]]
    <2>1. NoLine \in [box : 0..MaxLines, offset : {0} \cup Cells, length : 0..TextCapacity]
      BY SlotFacts DEF NoLine
    <2> QED
      BY <1>1, <2>1 DEF NoLines
  <1>3. TypeOK'
    BY <1>1, <1>2 DEF IInv, TypeOK
  <1>4. RequestShape'
    BY <1>1 DEF RequestShape, Requests, Running
  <1>5. ThreadShape'
    BY <1>1 DEF IInv, ThreadShape, Running, LineCount
  <1>6. Holders' /\ SlotsWritten' /\ Compacted'
    BY <1>1 DEF Holders, SlotsWritten, Compacted, Running
  <1> QED
    BY <1>3, <1>4, <1>5, <1>6 DEF IInv

LEMMA PrepareFailsStep ==
  ASSUME IInv, PrepareFails
  PROVE  IInv'
  <1>1. /\ pc = "prepare" /\ pc' = "idle" /\ request' = NoRequest
        /\ UNCHANGED <<crops, nextSlot, scratchLines, initial, failed, started, wpc, slot, recWidth,
                       at, textUsed>>
    BY DEF PrepareFails, Answer, taskVars, workerVars, scratchVars
  <1>2. TypeOK'
    BY <1>1 DEF IInv, TypeOK
  <1>3. RequestShape'
    BY <1>1 DEF RequestShape, Running
  <1>4. ThreadShape'
    BY <1>1 DEF IInv, ThreadShape, Running, LineCount
  <1>5. Holders' /\ SlotsWritten' /\ Compacted'
    BY <1>1 DEF Holders, SlotsWritten, Compacted, Running
  <1> QED
    BY <1>2, <1>3, <1>4, <1>5 DEF IInv

\* What the reservation leaves in initial: every slot up to the number of active
\* workers with one of them, and nothing with any other.
LEMMA ReservationFacts ==
  ASSUME IInv, Prepare
  PROVE  LET list == Croppable(request.image)
             m == Min({Len(list), WorkerCount})
         IN /\ initial' \in [Workers -> 0..m]
            /\ \A w \in Workers : w \notin 0..(m - 1) => initial'[w] = 0
            /\ \A w, v \in Workers : initial'[w] = initial'[v] /\ initial'[w] # 0 => w = v
            /\ \A k \in 1..m : \E w \in Workers : initial'[w] = k
  <1> DEFINE list == Croppable(request.image)
             m == Min({Len(list), WorkerCount})
             workers == 0..(m - 1)
             reserved == Reserve(list, workers)
  <1>1. pc = "prepare" /\ \A w \in Workers : initial[w] = 0
    BY DEF Prepare, IInv, ThreadShape, Running
  <1>2. request.image \in Images
    BY <1>1 DEF IInv, RequestShape, Requests
  <1>3. Len(list) \in Nat
    BY <1>2, CroppableFacts
  <1>4. m \in Nat /\ workers \subseteq Workers
    <2> HIDE DEF list
    <2>1. m = Min({Len(list), WorkerCount})
      OBVIOUS
    <2> HIDE DEF m
    <2> QED
      BY <1>3, <2>1, ActiveFacts
  <1>5. initial' = [w \in Workers |->
             IF w \in Range(reserved) THEN CHOOSE k \in DOMAIN reserved : reserved[k] = w
             ELSE initial[w]]
    BY DEF Prepare
  <1> HIDE DEF list, m
  <1>6. /\ reserved \in Seq(workers) /\ Len(reserved) = m
        /\ \A i, j \in 1..m : reserved[i] = reserved[j] => i = j
    BY <1>4, ReserveFacts
  <1> HIDE DEF reserved, workers
  <1>7. DOMAIN reserved = 1..m /\ \A k \in 1..m : reserved[k] \in workers
    BY <1>6
  <1>8. Range(reserved) \subseteq workers /\ \A w : w \in Range(reserved) <=> \E k \in 1..m : reserved[k] = w
    BY <1>7 DEF Range
  <1>9. \A w \in Workers : IF w \in Range(reserved)
                           THEN initial'[w] \in 1..m /\ reserved[initial'[w]] = w
                           ELSE initial'[w] = 0
    BY <1>1, <1>5, <1>7, <1>8
  <1>10. initial' \in [Workers -> 0..m]
    <2>1. \A w \in Workers : initial'[w] \in 0..m
      BY <1>4, <1>9
    <2> QED
      BY <1>5, <2>1
  <1>11. \A w \in Workers : w \notin 0..(m - 1) => initial'[w] = 0
    BY <1>8, <1>9 DEF workers
  <1>12. \A w, v \in Workers : initial'[w] = initial'[v] /\ initial'[w] # 0 => w = v
    BY <1>9
  <1>13. ASSUME NEW k \in 1..m PROVE \E w \in Workers : initial'[w] = k
    <2>1. reserved[k] \in Workers /\ reserved[k] \in Range(reserved)
      BY <1>4, <1>7, <1>8
    <2>2. initial'[reserved[k]] = k
      BY <1>6, <1>9, <2>1
    <2> QED
      BY <2>1, <2>2
  <1> QED
    BY <1>10, <1>11, <1>12, <1>13 DEF list, m

LEMMA PrepareStep ==
  ASSUME IInv, Prepare
  PROVE  IInv'
  <1> DEFINE list == Croppable(request.image)
             n == Len(list)
             m == Min({n, WorkerCount})
             workers == 0..(m - 1)
  <1>1. /\ pc = "prepare" /\ \A w \in Workers : wpc[w] = "off"
        /\ request \in Requests /\ scratchLines = NoLines
    BY DEF Prepare, IInv, ThreadShape, RequestShape, Running
  <1>2. request.image \in Images
    BY <1>1 DEF Requests
  <1>3. list \in Seq(Crop) /\ n \in 0..MaxLines /\ n \in Nat /\ MaxLines \in Nat /\ (list = <<>> <=> n = 0)
    <2>1. list \in Seq(Crop) /\ n <= MaxLines /\ MaxLines \in Nat
      BY <1>2, CroppableFacts, SlotFacts
    <2> HIDE DEF list
    <2> QED
      BY <2>1
  <1>4. /\ m \in 0..n /\ m \in Nat /\ m <= WorkerCount /\ (n > 0 => m > 0) /\ Cardinality(workers) = m
        /\ workers \subseteq Workers /\ WorkerCount \in Nat \ {0}
    <2>1. n \in Nat /\ m = Min({n, WorkerCount})
      BY <1>3
    <2> HIDE DEF n, m
    <2> QED
      BY <2>1, ActiveFacts
  <1>5. /\ initial' \in [Workers -> 0..m]
        /\ \A w \in Workers : w \notin workers => initial'[w] = 0
        /\ \A w, v \in Workers : initial'[w] = initial'[v] /\ initial'[w] # 0 => w = v
        /\ \A k \in 1..m : \E w \in Workers : initial'[w] = k
    BY ReservationFacts
  <1>6. /\ crops' = list /\ LineCount' = n /\ ActiveWorkers' = workers
        /\ nextSlot' = IF list = <<>> THEN nextSlot ELSE m + 1
        /\ started' = IF list = <<>> THEN started ELSE {}
        /\ failed' = [w \in Workers |-> failed[w] /\ w \notin workers]
        /\ pc' = IF list = <<>> THEN "compact" ELSE "spawn"
        /\ at' = 1 /\ textUsed' = 0
        /\ UNCHANGED <<request, scratchLines, scratchText, wpc, slot, recWidth>>
        /\ \A b \in DOMAIN request.image : request.image[b].kind # "huge"
    BY <1>4 DEF Prepare, requestVars, scratchVars, workerVars, LineCount, ActiveWorkers
  <1>7. RequestShape'
    BY <1>1, <1>6 DEF RequestShape, Running
  <1> HIDE DEF list, n, m, workers
  <1>8. TypeOK'
    <2>1. TypeOK
      BY DEF IInv
    <2>2. crops' \in Seq([box : 1..MaxLines, width : Nat]) /\ nextSlot' \in Nat
      BY <1>3, <1>4, <1>6, <2>1 DEF TypeOK, Crop
    <2>3. initial' \in [Workers -> 0..MaxLines]
      BY <1>3, <1>4, <1>5
    <2>4. failed' \in [Workers -> BOOLEAN]
      <3>1. \A w \in Workers : (failed[w] /\ w \notin workers) \in BOOLEAN
        OBVIOUS
      <3> QED
        BY <1>6, <3>1, Zenon
    <2>5. at' \in 1..(MaxLines + WorkerCount) \cup {0} /\ textUsed' \in 0..(MaxLines * TextCapacity)
      BY <1>3, <1>4, <1>6, SlotFacts
    <2>6. started' \in SUBSET (Workers \ {0}) /\ pc' \in {"idle", "prepare", "spawn", "inline", "join", "compact"}
      BY <1>6, <2>1 DEF TypeOK
    <2> QED
      BY <1>6, <2>1, <2>2, <2>3, <2>4, <2>5, <2>6 DEF TypeOK
  <1>9. CASE n = 0
    <2>1. pc' = "compact"
      BY <1>3, <1>6, <1>9
    <2>2. m = 0 /\ \A w \in Workers : initial'[w] = 0
      BY <1>4, <1>5, <1>9
    <2>3. ThreadShape'
      BY <1>1, <1>3, <1>6, <2>1, <2>2 DEF ThreadShape, Running
    <2>4. Holders' /\ SlotsWritten'
      BY <2>1 DEF Holders, SlotsWritten, Running
    <2>5. Promise!TextUpTo(request, 0)' = <<>>
      <3>1. request'.image \in Images
        BY <1>2, <1>6
      <3>2. Promise!TextUpTo(request', 0) = <<>>
        BY <3>1, TextFacts
      <3> QED
        BY <3>2
    <2>6. Compacted'
      <3>1. SlotStart(1) = 0
        BY SlotFacts
      <3> QED
        BY <1>6, <1>9, <2>1, <2>5, <3>1 DEF Compacted
    <2> QED
      BY <1>7, <1>8, <2>3, <2>4, <2>6 DEF IInv
  <1>10. CASE n # 0
    <2>1. pc' = "spawn" /\ started' = {} /\ nextSlot' = m + 1
      BY <1>3, <1>6, <1>10
    <2>2. m \in 1..n /\ 0 \in workers /\ workers = 0..(m - 1) /\ n > 0
      BY <1>3, <1>4, <1>10 DEF workers
    <2>3. ThreadShape'
      <3>1. at' \in 1..Cardinality(ActiveWorkers')
        BY <1>4, <1>6, <2>2
      <3>2. 0 \in Workers
        BY WorkerFacts
      <3>3. \A w \in Workers : wpc'[w] = "off"
        BY <1>1, <1>6
      <3> QED
        BY <1>3, <1>4, <1>5, <1>6, <2>1, <2>2, <3>1, <3>2, <3>3 DEF ThreadShape, Running
    <2>4. \A k \in 1..n : ~Recognized(k)'
      <3>1. Schedule(list) \in [1..n -> 1..n]
        BY <1>3, ScheduleFacts DEF n
      <3>2. 1..n \subseteq CropIds
        BY <1>3 DEF CropIds
      <3>3. \A k \in 1..n : Schedule(list)[k] \in CropIds
        BY <3>1, <3>2
      <3> QED
        BY <1>1, <1>6, <3>3 DEF Recognized, NoLines
    <2>5. \A w \in Workers, k \in 1..n : Takes(w, k)' <=> initial'[w] = k
      BY <1>1, <1>6 DEF Takes
    <2>6. Holders'
      <3>1. \A w \in Workers : /\ initial'[w] < nextSlot' /\ initial'[w] <= n
                               /\ wpc'[w] # "process" /\ wpc'[w] # "ended"
        BY <1>1, <1>3, <1>4, <1>5, <1>6, <2>1
      <3>2. \A w, v \in Workers, k \in 1..n : Takes(w, k)' /\ Takes(v, k)' => w = v
        BY <1>5, <2>5
      <3>3. \A k \in 1..n : k < nextSlot' => \E w \in Workers : Takes(w, k)'
        <4>1. \A k \in 1..n : k < nextSlot' => k \in 1..m
          BY <1>3, <1>4, <2>1
        <4> QED
          BY <1>5, <2>5, <4>1
      <3>4. nextSlot' > Cardinality(ActiveWorkers')
        BY <1>4, <1>6, <2>1
      <3> QED
        BY <1>4, <1>6, <2>4, <3>1, <3>2, <3>3, <3>4 DEF Holders
    <2>7. SlotsWritten'
      <3>1. \A i \in 1..n : scratchLines'[i] = NoLine
        BY <1>1, <1>3, <1>6 DEF NoLines, CropIds
      <3> QED
        BY <1>6, <3>1 DEF SlotsWritten
    <2>8. Compacted'
      BY <2>1 DEF Compacted
    <2> QED
      BY <1>7, <1>8, <2>3, <2>6, <2>7, <2>8 DEF IInv
  <1> QED
    BY <1>9, <1>10

LEMMA JoinWorkersStep ==
  ASSUME IInv, JoinWorkers
  PROVE  IInv'
  <1>1. /\ pc = "join" /\ pc \in Running /\ at' = 1
        /\ \A w \in started \cup {0} : wpc[w] = "ended"
        /\ wpc' = [w \in Workers |-> IF wpc[w] = "ended" THEN "off" ELSE wpc[w]]
        /\ UNCHANGED <<crops, nextSlot, scratchLines, scratchText, initial, failed, started, slot,
                       recWidth, textUsed>>
    BY DEF JoinWorkers, Joined, Running, scratchVars, taskVars
  <1>2. \A w \in ActiveWorkers : wpc[w] = "ended"
    BY <1>1 DEF IInv, ThreadShape
  <1>3. \A w \in Workers : wpc'[w] = "off" /\ initial[w] = 0
    BY <1>1, <1>2 DEF IInv, ThreadShape
  <1>4. LineCount' = LineCount
    BY <1>1 DEF LineCount
  <1>5. ASSUME pc' \in {"idle", "compact"} PROVE TypeOK'
    <2>1. wpc' \in [Workers -> {"off", "claim", "process", "ended"}]
      BY <1>1, <1>3
    <2>2. at' \in 1..(MaxLines + WorkerCount) \cup {0}
      BY <1>1, SlotFacts, WorkerFacts
    <2> QED
      BY <1>1, <1>5, <2>1, <2>2, TypeFrame DEF IInv, TypeOK
  <1>6. ASSUME pc' \in {"idle", "compact"} PROVE ThreadShape' /\ Holders' /\ SlotsWritten'
    <2>1. ThreadShape'
      BY <1>1, <1>3, <1>4, <1>6 DEF IInv, ThreadShape, Running
    <2> QED
      BY <1>6, <2>1 DEF Holders, SlotsWritten, Running
  <1>7. CASE AnyFailed
    <2>1. pc' = "idle" /\ request' = NoRequest
      BY <1>7 DEF JoinWorkers, Answer
    <2>2. RequestShape' /\ Compacted'
      BY <2>1 DEF RequestShape, Compacted, Running
    <2> QED
      BY <1>5, <1>6, <2>1, <2>2 DEF IInv
  <1>8. CASE ~AnyFailed
    <2>1. pc' = "compact" /\ request' = request
      BY <1>8 DEF JoinWorkers
    <2>2. RequestShape'
      BY <1>1, <2>1 DEF IInv, RequestShape, Running
    <2>3. \A k \in 1..LineCount : Recognized(k)
      <3>1. 0 \in ActiveWorkers /\ LineCount \in Nat /\ nextSlot \in Nat
        BY <1>1, RunningFacts DEF IInv, TypeOK
      <3>2. nextSlot > LineCount
        BY <1>1, <1>2, <1>8, <3>1 DEF IInv, Holders, AnyFailed
      <3>3. \A w \in Workers, k \in 1..LineCount : ~Takes(w, k)
        BY <1>1, <1>2, <1>3 DEF Takes, IInv, ThreadShape
      <3> QED
        BY <1>1, <1>8, <3>1, <3>2, <3>3 DEF IInv, Holders, AnyFailed
    <2>4. \A i \in 1..LineCount : Written(i)
      <3>1. \A i \in 1..LineCount : scratchLines[i] # NoLine
        BY <1>1, <2>3, RunningFacts DEF Recognized
      <3> QED
        BY <1>1, <3>1 DEF IInv, SlotsWritten
    <2>5. Promise!TextUpTo(request', 0) = <<>>
      BY <1>1, <2>1, RunningFacts, TextFacts
    <2>6. Compacted'
      <3>1. SlotStart(1) = 0 /\ LineCount \in Nat
        BY <1>1, SlotFacts, RunningFacts
      <3>2. textUsed = 0
        BY <1>1 DEF IInv, RequestShape
      <3>3. \A i \in 1..LineCount : Written(i)'
        BY <1>1, <2>1, <2>4 DEF Written
      <3> QED
        BY <1>1, <1>4, <2>5, <3>1, <3>2, <3>3 DEF Compacted
    <2> QED
      BY <1>5, <1>6, <2>1, <2>2, <2>6 DEF IInv
  <1> QED
    BY <1>7, <1>8

-----------------------------------------------------------------------------
(* A worker's steps keep the invariant *)

\* What a worker may do to the threads: it stays alive, and it has used up its
\* reservation once it holds a line or has ended.
LEMMA WorkerFrame ==
  ASSUME IInv, NEW w \in Workers, wpc[w] \in {"claim", "process"},
         wpc' = [wpc EXCEPT ![w] = wpc'[w]], wpc'[w] \in {"claim", "process", "ended"},
         initial'[w] = 0, \A v \in Workers \ {w} : initial'[v] = initial[v],
         UNCHANGED <<pc, request, crops, started, at, textUsed>>
  PROVE  /\ pc \in Running /\ w \in ActiveWorkers
         /\ \A v \in Workers \ {w} : wpc'[v] = wpc[v]
         /\ LineCount' = LineCount /\ ActiveWorkers' = ActiveWorkers
         /\ wpc' \in [Workers -> {"off", "claim", "process", "ended"}]
         /\ RequestShape' /\ ThreadShape' /\ Compacted'
  <1>1. ThreadShape /\ wpc \in [Workers -> {"off", "claim", "process", "ended"}]
    BY DEF IInv, TypeOK
  <1>2. pc \in Running /\ w \in ActiveWorkers
    BY <1>1 DEF ThreadShape
  <1>3. \A v \in Workers \ {w} : wpc'[v] = wpc[v]
    BY <1>1
  <1>4. LineCount' = LineCount /\ ActiveWorkers' = ActiveWorkers
    BY DEF LineCount, ActiveWorkers
  <1>5. wpc' \in [Workers -> {"off", "claim", "process", "ended"}]
    BY <1>1
  <1>6. RequestShape' /\ Compacted'
    BY <1>2 DEF IInv, RequestShape, Compacted, Running
  <1>7. ThreadShape'
    <2>1. /\ ActiveWorkers = 0..(Active - 1) /\ ActiveWorkers \subseteq Workers /\ 0 \in ActiveWorkers
          /\ Active \in Nat
      BY <1>2, RunningFacts
    <2>2. /\ \A v \in Workers \ ActiveWorkers : wpc'[v] = "off" /\ initial'[v] = 0
          /\ \A v \in Workers : wpc'[v] \in {"process", "ended"} => initial'[v] = 0
      BY <1>1, <1>2, <1>3 DEF ThreadShape
    <2>3. ASSUME pc \in {"spawn", "inline"}
          PROVE  /\ wpc'[0] = "off"
                 /\ \A v \in ActiveWorkers : v > at => wpc'[v] = "off"
                 /\ \A v \in 1..(at - 1) : wpc'[v] # "off" /\ (v \in started \/ wpc'[v] = "ended")
                 /\ pc = "spawn" /\ at \in ActiveWorkers => wpc'[at] = "off"
                 /\ pc = "inline" => at \in ActiveWorkers /\ wpc'[at] # "off"
      <3>1. /\ wpc[0] = "off"
            /\ \A v \in ActiveWorkers : v > at => wpc[v] = "off"
            /\ \A v \in 1..(at - 1) : wpc[v] # "off" /\ (v \in started \/ wpc[v] = "ended")
            /\ pc = "spawn" /\ at \in ActiveWorkers => wpc[at] = "off"
            /\ pc = "inline" => at \in ActiveWorkers /\ wpc[at] # "off"
            /\ at \in 1..Active
        BY <1>1, <2>3 DEF ThreadShape, Active
      <3>2. \A v \in 1..(at - 1) : v \in Workers
        BY <2>1, <3>1
      <3>3. 0 \in Workers
        BY WorkerFacts
      <3> QED
        BY <1>2, <1>3, <2>1, <3>1, <3>2, <3>3
    <2>4. ASSUME pc = "join"
          PROVE  /\ started \subseteq ActiveWorkers
                 /\ \A v \in ActiveWorkers : wpc'[v] # "off"
                 /\ \A v \in ActiveWorkers \ {0} : v \in started \/ wpc'[v] = "ended"
      BY <1>1, <1>3, <2>1, <2>4 DEF ThreadShape
    <2> QED
      BY <1>1, <1>2, <1>4, <2>2, <2>3, <2>4 DEF ThreadShape
  <1> QED
    BY <1>2, <1>3, <1>4, <1>5, <1>6, <1>7

LEMMA ClaimStep ==
  ASSUME IInv, NEW w \in Workers, Claim(w)
  PROVE  IInv'
  <1>1. /\ wpc[w] = "claim" /\ initial' = [initial EXCEPT ![w] = 0]
        /\ nextSlot' = IF initial[w] # 0 THEN nextSlot ELSE nextSlot + 1
        /\ UNCHANGED <<pc, request, crops, scratchLines, scratchText, failed, started, recWidth,
                       at, textUsed>>
    BY DEF Claim, requestVars, scratchVars
  <1>2. /\ initial \in [Workers -> 0..MaxLines] /\ slot \in [Workers -> 0..MaxLines]
        /\ wpc \in [Workers -> {"off", "claim", "process", "ended"}] /\ nextSlot \in Nat
        /\ MaxLines \in Nat
    BY SlotFacts DEF IInv, TypeOK
  <1>3. /\ wpc' = [wpc EXCEPT ![w] = wpc'[w]] /\ wpc'[w] \in {"claim", "process", "ended"}
        /\ initial'[w] = 0 /\ \A v \in Workers \ {w} : initial'[v] = initial[v]
    BY <1>1, <1>2 DEF Claim
  <1>4. /\ pc \in Running /\ w \in ActiveWorkers
        /\ \A v \in Workers \ {w} : wpc'[v] = wpc[v]
        /\ LineCount' = LineCount /\ ActiveWorkers' = ActiveWorkers
        /\ wpc' \in [Workers -> {"off", "claim", "process", "ended"}]
        /\ RequestShape' /\ ThreadShape' /\ Compacted'
    BY <1>1, <1>3, WorkerFrame
  <1>5. LineCount \in 1..MaxLines /\ Active \in Nat /\ ActiveWorkers \subseteq Workers
    BY <1>4, RunningFacts
  <1>6. Holders
    BY DEF IInv
  <1>7. \A v \in Workers \ {w} : slot'[v] = slot[v]
    BY <1>2 DEF Claim
  <1>8. \A v \in Workers \ {w}, k \in 1..LineCount : Takes(v, k)' <=> Takes(v, k)
    BY <1>3, <1>4, <1>7 DEF Takes
  <1>9. \A k \in 1..LineCount : Takes(w, k) <=> initial[w] = k
    BY <1>1 DEF Takes
  <1>10. \A k \in 1..LineCount : Recognized(k)' <=> Recognized(k)
    BY <1>1 DEF Recognized
  <1>13. SlotsWritten'
    BY <1>1, <1>4 DEF IInv, SlotsWritten, Written
  \* The line that w holds afterwards was its own or was nobody's.
  <1>11. CASE Claimed(w) <= LineCount
    <2>1. wpc'[w] = "process" /\ slot' = [slot EXCEPT ![w] = Claimed(w)] /\ slot'[w] = Claimed(w)
      BY <1>1, <1>2, <1>5, <1>11 DEF Claim, Claimed
    <2>2. /\ Claimed(w) \in 1..LineCount /\ Claimed(w) < nextSlot'
          /\ nextSlot' \in Nat /\ nextSlot' >= nextSlot
      BY <1>1, <1>2, <1>4, <1>5, <1>6, <1>11 DEF Claimed, Holders, Active
    <2>3. \A k \in 1..LineCount : Takes(w, k)' <=> k = Claimed(w)
      BY <1>3, <2>1 DEF Takes
    <2>4. /\ ~Recognized(Claimed(w))
          /\ \A v \in Workers \ {w} : ~Takes(v, Claimed(w))
      <3>1. CASE initial[w] # 0
        <4>1. Claimed(w) = initial[w] /\ Takes(w, Claimed(w))
          BY <1>9, <2>2, <3>1 DEF Claimed
        <4> QED
          BY <1>4, <1>6, <2>2, <4>1 DEF Holders
      <3>2. CASE initial[w] = 0
        <4>1. Claimed(w) = nextSlot
          BY <3>2 DEF Claimed
        <4>2. \A v \in Workers : initial[v] \in Nat /\ initial[v] < nextSlot
          BY <1>2, <1>4, <1>6 DEF Holders
        <4>3. \A v \in Workers : wpc[v] = "process" => slot[v] \in Nat /\ slot[v] < nextSlot
          BY <1>2, <1>4, <1>6 DEF Holders
        <4>4. \A v \in Workers : ~Takes(v, nextSlot)
          BY <1>2, <4>2, <4>3 DEF Takes
        <4>5. ~Recognized(nextSlot)
          BY <1>2, <1>4, <1>6, <2>2, <4>1 DEF Holders
        <4> QED
          BY <4>1, <4>4, <4>5
      <3> QED
        BY <3>1, <3>2
    <2>5. \A k \in 1..LineCount : k < nextSlot' => k < nextSlot \/ k = Claimed(w)
      BY <1>1, <1>2, <1>5 DEF Claimed
    <2>6. \A k \in 1..LineCount : Takes(w, k) => Takes(w, k)'
      BY <1>9, <2>2, <2>3 DEF Claimed
    <2>7. /\ nextSlot' > Active
          /\ \A v \in Workers : initial'[v] < nextSlot' /\ initial'[v] <= LineCount
          /\ \A v \in Workers : wpc'[v] = "process" => slot'[v] \in 1..LineCount /\ slot'[v] < nextSlot'
      <3>1. /\ nextSlot > Active
            /\ \A v \in Workers : initial[v] < nextSlot /\ initial[v] <= LineCount
            /\ \A v \in Workers : wpc[v] = "process" => slot[v] \in 1..LineCount /\ slot[v] < nextSlot
        BY <1>4, <1>6 DEF Holders, Active
      <3>2. nextSlot' > Active
        BY <1>2, <1>5, <2>2, <3>1
      <3>3. \A v \in Workers : initial'[v] < nextSlot' /\ initial'[v] <= LineCount
        BY <1>2, <1>3, <1>5, <2>2, <3>1
      <3>4. \A v \in Workers : wpc'[v] = "process" => slot'[v] \in 1..LineCount /\ slot'[v] < nextSlot'
        BY <1>2, <1>4, <1>5, <1>7, <2>1, <2>2, <3>1
      <3> QED
        BY <3>2, <3>3, <3>4
    <2>8. \A v, u \in Workers, k \in 1..LineCount : Takes(v, k)' /\ Takes(u, k)' => v = u
      <3>1. \A v, u \in Workers, k \in 1..LineCount : Takes(v, k) /\ Takes(u, k) => v = u
        BY <1>4, <1>6 DEF Holders
      <3> QED
        BY <1>8, <2>3, <2>4, <3>1
    <2>9. /\ \A v \in Workers, k \in 1..LineCount : Takes(v, k)' => ~Recognized(k)
          /\ \A k \in 1..LineCount : k >= nextSlot' => ~Recognized(k)
      <3>1. /\ \A v \in Workers, k \in 1..LineCount : Takes(v, k) => ~Recognized(k)
            /\ \A k \in 1..LineCount : k >= nextSlot => ~Recognized(k)
        BY <1>4, <1>6 DEF Holders
      <3>2. \A k \in 1..LineCount : k >= nextSlot' => k >= nextSlot
        BY <1>2, <1>5, <2>2
      <3> QED
        BY <1>8, <2>3, <2>4, <3>1, <3>2
    <2>10. \A k \in 1..LineCount : k < nextSlot' => \/ Recognized(k)
                                                    \/ \E v \in Workers : Takes(v, k)'
                                                    \/ \E v \in ActiveWorkers : failed[v]
      <3>1. \A k \in 1..LineCount : k < nextSlot => \/ Recognized(k)
                                                    \/ \E v \in Workers : Takes(v, k)
                                                    \/ \E v \in ActiveWorkers : failed[v]
        BY <1>4, <1>6 DEF Holders
      <3>2. \A v \in Workers, k \in 1..LineCount : Takes(v, k) => Takes(v, k)'
        BY <1>8, <2>6
      <3>3. \A k \in 1..LineCount : k = Claimed(w) => Takes(w, k)'
        BY <2>3
      <3> QED
        BY <2>5, <3>1, <3>2, <3>3
    <2>11. \A v \in ActiveWorkers : wpc'[v] = "ended" => failed[v] \/ nextSlot' > LineCount
      <3>1. \A v \in ActiveWorkers : wpc[v] = "ended" => failed[v] \/ nextSlot > LineCount
        BY <1>4, <1>6 DEF Holders
      <3> QED
        BY <1>2, <1>4, <1>5, <2>1, <2>2, <3>1
    <2>12. Holders'
      BY <1>1, <1>4, <1>10, <2>7, <2>8, <2>9, <2>10, <2>11 DEF Holders, Active
    <2>13. initial' \in [Workers -> 0..MaxLines] /\ slot' \in [Workers -> 0..MaxLines]
      BY <1>1, <1>2, <1>5, <2>1, <2>2
    <2>14. TypeOK'
      BY <1>1, <1>4, <2>2, <2>13 DEF IInv, TypeOK
    <2> QED
      BY <1>4, <1>13, <2>12, <2>14 DEF IInv
  \* Nothing is left for w, which ends.
  <1>12. CASE ~(Claimed(w) <= LineCount)
    <2>1. initial[w] = 0 /\ nextSlot > LineCount /\ nextSlot' = nextSlot + 1
      BY <1>1, <1>2, <1>4, <1>5, <1>6, <1>12 DEF Claimed, Holders
    <2>2. wpc'[w] = "ended" /\ slot' = slot
      BY <1>1, <1>2, <1>5, <2>1 DEF Claim, Claimed
    <2>3. \A v \in Workers, k \in 1..LineCount : Takes(v, k)' <=> Takes(v, k)
      BY <1>1, <1>3, <1>8, <2>1, <2>2 DEF Takes
    <2>4. /\ nextSlot' > Active
          /\ \A v \in Workers : initial'[v] < nextSlot' /\ initial'[v] <= LineCount
          /\ \A v \in Workers : wpc'[v] = "process" => slot'[v] \in 1..LineCount /\ slot'[v] < nextSlot'
      <3>1. /\ nextSlot > Active
            /\ \A v \in Workers : initial[v] < nextSlot /\ initial[v] <= LineCount
            /\ \A v \in Workers : wpc[v] = "process" => slot[v] \in 1..LineCount /\ slot[v] < nextSlot
        BY <1>4, <1>6 DEF Holders, Active
      <3>2. nextSlot' > Active
        BY <1>2, <1>5, <2>1, <3>1
      <3>3. \A v \in Workers : initial'[v] < nextSlot' /\ initial'[v] <= LineCount
        BY <1>2, <1>3, <1>5, <2>1, <3>1
      <3>4. \A v \in Workers : wpc'[v] = "process" => slot'[v] \in 1..LineCount /\ slot'[v] < nextSlot'
        BY <1>2, <1>4, <1>5, <2>1, <2>2, <3>1
      <3> QED
        BY <3>2, <3>3, <3>4
    <2>5. /\ \A k \in 1..LineCount : k >= nextSlot' => ~Recognized(k)
          /\ \A k \in 1..LineCount : k < nextSlot
          /\ \A v \in ActiveWorkers : wpc'[v] = "ended" => nextSlot' > LineCount
      BY <1>2, <1>5, <2>1
    <2>6. Holders'
      BY <1>1, <1>4, <1>6, <1>10, <2>3, <2>4, <2>5 DEF Holders, Active
    <2>7. initial' \in [Workers -> 0..MaxLines] /\ nextSlot' \in Nat
      BY <1>1, <1>2, <2>1
    <2>8. TypeOK'
      BY <1>1, <1>4, <2>2, <2>7 DEF IInv, TypeOK
    <2> QED
      BY <1>4, <1>13, <2>6, <2>8 DEF IInv
  <1> QED
    BY <1>11, <1>12

\* The cells of a crop's slot are its own.
LEMMA CellFacts ==
  ASSUME NEW i \in 1..MaxLines, NEW k \in 1..TextCapacity
  PROVE  /\ SlotStart(i) \in Nat /\ SlotStart(i) \in Cells
         /\ SlotStart(i) + k - 1 \in Cells
         /\ \A j \in 1..MaxLines, l \in 1..TextCapacity :
              i # j => SlotStart(i) + k - 1 # SlotStart(j) + l - 1
  <1>1. /\ MaxLines \in Nat \ {0} /\ TextCapacity \in Nat \ {0} /\ MaxLines * TextCapacity \in Nat
        /\ \A j \in 1..(MaxLines + 1) : SlotStart(j) \in 0..(MaxLines * TextCapacity)
        /\ \A a, b \in 1..(MaxLines + 1) : a < b => SlotStart(a) + TextCapacity <= SlotStart(b)
    BY SlotFacts
  <1> DEFINE size == MaxLines * TextCapacity
  <1> HIDE DEF size
  <1>2. \A j \in 1..MaxLines : j \in 1..(MaxLines + 1) /\ j < MaxLines + 1 /\ j \in Nat
    BY <1>1
  <1>3. MaxLines + 1 \in 1..(MaxLines + 1) /\ size \in Nat
    BY <1>1 DEF size
  <1>4. \A j \in 1..MaxLines : SlotStart(j) \in Nat /\ SlotStart(j) + TextCapacity <= size
    BY <1>1, <1>2, <1>3 DEF size
  <1>5. SlotStart(i) \in 0..(size - 1) /\ SlotStart(i) + k - 1 \in 0..(size - 1)
    BY <1>1, <1>3, <1>4
  <1>6. \A j \in 1..MaxLines : i # j => \/ SlotStart(i) + TextCapacity <= SlotStart(j)
                                        \/ SlotStart(j) + TextCapacity <= SlotStart(i)
    <2>1. \A j \in 1..MaxLines : i # j => i < j \/ j < i
      BY <1>2
    <2> QED
      BY <1>1, <1>2, <2>1
  <1>7. ASSUME NEW j \in 1..MaxLines, NEW l \in 1..TextCapacity, i # j
        PROVE  SlotStart(i) + k - 1 # SlotStart(j) + l - 1
    <2>1. SlotStart(i) \in Nat /\ SlotStart(j) \in Nat /\ TextCapacity \in Nat
      BY <1>1, <1>4
    <2>2. k \in Nat /\ l \in Nat /\ 1 <= k /\ 1 <= l /\ k <= TextCapacity /\ l <= TextCapacity
      BY <1>1
    <2> QED
      BY <1>6, <1>7, <2>1, <2>2
  <1> QED
    BY <1>4, <1>5, <1>7 DEF Cells, size

\* What is stored in one slot leaves the texts of the other slots.
LEMMA StoredApart ==
  ASSUME NEW i \in 1..MaxLines, NEW box, NEW length \in 0..TextCapacity,
         NEW j \in 1..MaxLines, NEW k \in 1..TextCapacity, j # i
  PROVE  Stored(i, box, length)[SlotStart(j) + k - 1] = scratchText[SlotStart(j) + k - 1]
  <1>1. /\ SlotStart(j) + k - 1 \in Cells
        /\ \A l \in 1..TextCapacity : SlotStart(j) + k - 1 # SlotStart(i) + l - 1
    BY CellFacts
  <1>2. SlotStart(i) \in Nat /\ TextCapacity \in Nat
    BY CellFacts, SlotFacts
  <1>3. ASSUME NEW c \in SlotStart(i)..(SlotStart(i) + length - 1)
        PROVE  c - SlotStart(i) + 1 \in 1..TextCapacity /\ c = SlotStart(i) + (c - SlotStart(i) + 1) - 1
    BY <1>2
  <1>4. SlotStart(j) + k - 1 \notin SlotStart(i)..(SlotStart(i) + length - 1)
    BY <1>1, <1>3
  <1> QED
    BY <1>1, <1>4 DEF Stored

LEMMA ProcessStep ==
  ASSUME IInv, NEW w \in Workers, Process(w)
  PROVE  IInv'
  <1>0. PICK i : i = Schedule(crops)[slot[w]]
    OBVIOUS
  <1> DEFINE box == crops[i].box
             length == request.image[box].length
  <1>1. /\ wpc[w] = "process" /\ wpc' = [wpc EXCEPT ![w] = "claim"] /\ slot' = [slot EXCEPT ![w] = 0]
        /\ scratchText' = Stored(i, box, length)
        /\ scratchLines' = [scratchLines EXCEPT ![i] =
             [box |-> box, offset |-> SlotStart(i), length |-> length]]
        /\ recWidth' = [recWidth EXCEPT ![w] = crops[i].width]
        /\ UNCHANGED <<pc, request, crops, nextSlot, initial, failed, started, at, textUsed>>
    BY <1>0 DEF Process, requestVars, taskVars
  <1>2. /\ initial \in [Workers -> 0..MaxLines] /\ slot \in [Workers -> 0..MaxLines]
        /\ wpc \in [Workers -> {"off", "claim", "process", "ended"}] /\ nextSlot \in Nat
        /\ scratchLines \in [CropIds -> [box : 0..MaxLines, offset : {0} \cup Cells,
                                        length : 0..TextCapacity]]
        /\ recWidth \in [Workers -> Nat]
    BY DEF IInv, TypeOK
  <1>3. initial[w] = 0 /\ wpc'[w] = "claim" /\ slot'[w] = 0
    BY <1>1, <1>2 DEF IInv, ThreadShape
  <1>4. /\ pc \in Running /\ w \in ActiveWorkers
        /\ \A v \in Workers \ {w} : wpc'[v] = wpc[v]
        /\ LineCount' = LineCount /\ ActiveWorkers' = ActiveWorkers
        /\ wpc' \in [Workers -> {"off", "claim", "process", "ended"}]
        /\ RequestShape' /\ ThreadShape' /\ Compacted'
    BY <1>1, <1>3, WorkerFrame
  <1>5. /\ LineCount \in 1..MaxLines /\ 1..LineCount \subseteq CropIds /\ CropIds = 1..MaxLines
        /\ \A k \in 1..LineCount : Schedule(crops)[k] \in 1..LineCount
        /\ \A k, l \in 1..LineCount : Schedule(crops)[k] = Schedule(crops)[l] => k = l
        /\ \A j \in 1..LineCount : /\ crops[j].box \in 1..MaxLines /\ crops[j].width \in Nat
                                  /\ request.image[crops[j].box].length \in 1..TextCapacity
    BY <1>4, RunningFacts DEF CropIds
  <1>6. Holders /\ SlotsWritten
    BY DEF IInv
  <1>7. slot[w] \in 1..LineCount /\ slot[w] < nextSlot /\ Takes(w, slot[w])
    BY <1>1, <1>4, <1>6 DEF Holders, Takes
  <1>8. /\ i \in 1..LineCount /\ i \in CropIds /\ i \in 1..MaxLines
        /\ box \in 1..MaxLines /\ length \in 1..TextCapacity /\ crops[i].width \in Nat
    BY <1>0, <1>5, <1>7
  <1>9. MaxLines \in Nat /\ TextCapacity \in Nat
    BY SlotFacts
  <1>10. \A k \in 1..LineCount : Schedule(crops)[k] = i <=> k = slot[w]
    BY <1>0, <1>5, <1>7
  <1> HIDE DEF box, length
  <1>11. SlotStart(i) \in Cells /\ SlotStart(i) \in Nat
    <2>1. 1 \in 1..TextCapacity
      BY <1>8, <1>9
    <2> QED
      BY <1>8, <2>1, CellFacts
  <1>12. /\ scratchLines'[i] = [box |-> box, offset |-> SlotStart(i), length |-> length]
         /\ scratchLines'[i] # NoLine
         /\ \A j \in CropIds \ {i} : scratchLines'[j] = scratchLines[j]
    BY <1>1, <1>2, <1>8 DEF NoLine
  <1>13. TypeOK'
    <2>1. [box |-> box, offset |-> SlotStart(i), length |-> length]
            \in [box : 0..MaxLines, offset : {0} \cup Cells, length : 0..TextCapacity]
      BY <1>8, <1>9, <1>11
    <2>2. scratchLines' \in [CropIds -> [box : 0..MaxLines, offset : {0} \cup Cells,
                                        length : 0..TextCapacity]]
      BY <1>1, <1>2, <1>8, <2>1
    <2>3. slot' \in [Workers -> 0..MaxLines] /\ recWidth' \in [Workers -> Nat]
      BY <1>1, <1>2, <1>8, <1>9
    <2> QED
      BY <1>1, <1>4, <2>2, <2>3 DEF IInv, TypeOK
  <1>14. \A k \in 1..LineCount : Recognized(k)' <=> k = slot[w] \/ Recognized(k)
    <2>1. \A k \in 1..LineCount : Recognized(k)' <=> scratchLines'[Schedule(crops)[k]] # NoLine
      BY <1>1 DEF Recognized
    <2>2. \A k \in 1..LineCount : k # slot[w] => Schedule(crops)[k] \in CropIds \ {i}
      BY <1>5, <1>10
    <2>3. Schedule(crops)[slot[w]] = i
      BY <1>0
    <2> QED
      BY <1>12, <2>1, <2>2, <2>3 DEF Recognized
  <1>15. /\ \A v \in Workers \ {w}, k \in 1..LineCount : Takes(v, k)' <=> Takes(v, k)
         /\ \A k \in 1..LineCount : ~Takes(w, k)'
         /\ \A k \in 1..LineCount : Takes(w, k) <=> k = slot[w]
    <2>1. \A v \in Workers \ {w} : slot'[v] = slot[v]
      BY <1>1, <1>2
    <2> QED
      BY <1>1, <1>3, <1>4, <2>1 DEF Takes
  <1>16. Holders'
    <2>1. /\ nextSlot > Cardinality(ActiveWorkers)
          /\ \A v \in Workers : initial[v] < nextSlot /\ initial[v] <= LineCount
          /\ \A v \in Workers : wpc[v] = "process" => slot[v] \in 1..LineCount /\ slot[v] < nextSlot
          /\ \A v \in ActiveWorkers : wpc[v] = "ended" => failed[v] \/ nextSlot > LineCount
      BY <1>4, <1>6 DEF Holders
    <2>2. \A v, u \in Workers, k \in 1..LineCount : Takes(v, k) /\ Takes(u, k) => v = u
      BY <1>4, <1>6 DEF Holders
    <2>3. /\ \A v \in Workers, k \in 1..LineCount : Takes(v, k) => ~Recognized(k)
          /\ \A k \in 1..LineCount : k >= nextSlot => ~Recognized(k)
      BY <1>4, <1>6 DEF Holders
    <2>4. \A k \in 1..LineCount : k < nextSlot => \/ Recognized(k)
                                                  \/ \E v \in Workers : Takes(v, k)
                                                  \/ \E v \in ActiveWorkers : failed[v]
      BY <1>4, <1>6 DEF Holders
    <2>5. \A v \in Workers : wpc'[v] = "process" => slot'[v] \in 1..LineCount /\ slot'[v] < nextSlot
      BY <1>1, <1>2, <1>3, <1>4, <2>1
    <2>6. \A v \in ActiveWorkers : wpc'[v] = "ended" => failed[v] \/ nextSlot > LineCount
      <3>1. ActiveWorkers \subseteq Workers
        BY <1>4, RunningFacts
      <3> QED
        BY <1>3, <1>4, <2>1, <3>1
    <2>7. \A v, u \in Workers, k \in 1..LineCount : Takes(v, k)' /\ Takes(u, k)' => v = u
      BY <1>15, <2>2
    <2>8. \A v \in Workers, k \in 1..LineCount : Takes(v, k)' => ~Recognized(k)'
      BY <1>7, <1>14, <1>15, <2>2, <2>3
    <2>9. \A k \in 1..LineCount : k >= nextSlot => ~Recognized(k)'
      <3>1. \A k \in 1..LineCount : k >= nextSlot => k # slot[w]
        BY <1>2, <1>5, <1>7
      <3> QED
        BY <1>14, <2>3, <3>1
    <2>10. \A k \in 1..LineCount : k < nextSlot => \/ Recognized(k)'
                                                   \/ \E v \in Workers : Takes(v, k)'
                                                   \/ \E v \in ActiveWorkers : failed[v]
      BY <1>14, <1>15, <2>4
    <2> QED
      BY <1>1, <1>4, <2>1, <2>5, <2>6, <2>7, <2>8, <2>9, <2>10 DEF Holders
  <1>17. Written(i)'
    <2>1. ASSUME NEW k \in 1..length PROVE scratchText'[SlotStart(i) + k - 1] = <<box, k>>
      <3>1. k \in 1..TextCapacity /\ k \in Nat /\ length \in Nat
        BY <1>8, <1>9
      <3>2. SlotStart(i) + k - 1 \in Cells
        BY <1>8, <3>1, CellFacts
      <3>3. /\ SlotStart(i) + k - 1 \in SlotStart(i)..(SlotStart(i) + length - 1)
            /\ (SlotStart(i) + k - 1) - SlotStart(i) + 1 = k
        BY <1>11, <3>1
      <3> QED
        BY <1>1, <3>2, <3>3 DEF Stored
    <2> QED
      BY <1>1, <1>12, <2>1 DEF Written, box, length
  <1>18. ASSUME NEW j \in 1..LineCount, j # i, Written(j) PROVE Written(j)'
    <2>1. j \in 1..MaxLines /\ j \in CropIds \ {i}
      BY <1>5, <1>18
    <2> DEFINE there == request.image[crops[j].box].length
    <2>2. there \in 1..TextCapacity
      BY <1>5
    <2>3. ASSUME NEW k \in 1..there
          PROVE  scratchText'[SlotStart(j) + k - 1] = scratchText[SlotStart(j) + k - 1]
      <3>1. k \in 1..TextCapacity /\ length \in 0..TextCapacity
        BY <1>8, <1>9, <2>2
      <3> QED
        BY <1>1, <1>8, <1>18, <2>1, <3>1, StoredApart
    <2> HIDE DEF there
    <2> QED
      BY <1>1, <1>12, <1>18, <2>1, <2>3 DEF Written, there
  <1>19. SlotsWritten'
    <2>1. ASSUME NEW j \in 1..LineCount PROVE scratchLines'[j] = NoLine \/ Written(j)'
      <3>1. CASE j = i
        BY <1>17, <3>1
      <3>2. CASE j # i
        <4>1. j \in CropIds \ {i}
          BY <1>5, <3>2
        <4>2. scratchLines[j] = NoLine \/ Written(j)
          BY <1>4, <1>6 DEF SlotsWritten
        <4> QED
          BY <1>12, <1>18, <3>2, <4>1, <4>2
      <3> QED
        BY <3>1, <3>2
    <2> QED
      BY <1>4, <2>1 DEF SlotsWritten
  <1> QED
    BY <1>4, <1>13, <1>16, <1>19 DEF IInv

LEMMA ProcessFailsStep ==
  ASSUME IInv, NEW w \in Workers, ProcessFails(w)
  PROVE  IInv'
  <1>1. /\ wpc[w] = "process" /\ wpc' = [wpc EXCEPT ![w] = "ended"] /\ slot' = [slot EXCEPT ![w] = 0]
        /\ failed' = [failed EXCEPT ![w] = TRUE]
        /\ \E width \in {recWidth[w], crops[Schedule(crops)[slot[w]]].width} :
             recWidth' = [recWidth EXCEPT ![w] = width]
        /\ UNCHANGED <<pc, request, crops, nextSlot, scratchLines, initial, started, at, textUsed>>
    BY DEF ProcessFails, requestVars
  <1>2. /\ initial \in [Workers -> 0..MaxLines] /\ slot \in [Workers -> 0..MaxLines]
        /\ wpc \in [Workers -> {"off", "claim", "process", "ended"}] /\ nextSlot \in Nat
        /\ failed \in [Workers -> BOOLEAN] /\ recWidth \in [Workers -> Nat]
    BY DEF IInv, TypeOK
  <1>3. initial[w] = 0 /\ wpc'[w] = "ended" /\ slot'[w] = 0
    BY <1>1, <1>2 DEF IInv, ThreadShape
  <1>4. /\ pc \in Running /\ w \in ActiveWorkers
        /\ \A v \in Workers \ {w} : wpc'[v] = wpc[v]
        /\ LineCount' = LineCount /\ ActiveWorkers' = ActiveWorkers
        /\ wpc' \in [Workers -> {"off", "claim", "process", "ended"}]
        /\ RequestShape' /\ ThreadShape' /\ Compacted'
    BY <1>1, <1>3, WorkerFrame
  <1>5. /\ LineCount \in 1..MaxLines /\ ActiveWorkers \subseteq Workers
        /\ \A k \in 1..LineCount : Schedule(crops)[k] \in 1..LineCount
        /\ \A j \in 1..LineCount : /\ crops[j].width \in Nat
                                  /\ request.image[crops[j].box].length \in 1..TextCapacity
        /\ 1..LineCount \subseteq 1..MaxLines
    BY <1>4, RunningFacts DEF CropIds
  <1>6. Holders
    BY DEF IInv
  <1>7. slot[w] \in 1..LineCount /\ Takes(w, slot[w]) /\ ~Recognized(slot[w])
    BY <1>1, <1>4, <1>6 DEF Holders, Takes
  <1>8. failed'[w] = TRUE /\ \A v \in Workers \ {w} : failed'[v] = failed[v]
    BY <1>1, <1>2
  <1>9. \A v \in Workers : failed[v] => failed'[v]
    BY <1>8
  <1>10. TypeOK'
    <2>1. crops[Schedule(crops)[slot[w]]].width \in Nat
      BY <1>5, <1>7
    <2>2. recWidth' \in [Workers -> Nat]
      BY <1>1, <1>2, <2>1
    <2>3. slot' \in [Workers -> 0..MaxLines]
      BY <1>1, <1>2, SlotFacts
    <2>4. failed' \in [Workers -> BOOLEAN]
      BY <1>1, <1>2
    <2> QED
      BY <1>1, <1>4, <2>2, <2>3, <2>4 DEF IInv, TypeOK
  <1>11. \A k \in 1..LineCount : Recognized(k)' <=> Recognized(k)
    BY <1>1 DEF Recognized
  <1>12. /\ \A v \in Workers \ {w}, k \in 1..LineCount : Takes(v, k)' <=> Takes(v, k)
         /\ \A k \in 1..LineCount : ~Takes(w, k)'
    <2>1. \A v \in Workers \ {w} : slot'[v] = slot[v]
      BY <1>1, <1>2
    <2> QED
      BY <1>1, <1>3, <1>4, <2>1 DEF Takes
  <1>13. Holders'
    <2>1. /\ nextSlot > Cardinality(ActiveWorkers)
          /\ \A v \in Workers : initial[v] < nextSlot /\ initial[v] <= LineCount
          /\ \A v \in Workers : wpc[v] = "process" => slot[v] \in 1..LineCount /\ slot[v] < nextSlot
          /\ \A v \in ActiveWorkers : wpc[v] = "ended" => failed[v] \/ nextSlot > LineCount
      BY <1>4, <1>6 DEF Holders
    <2>2. /\ \A v, u \in Workers, k \in 1..LineCount : Takes(v, k) /\ Takes(u, k) => v = u
          /\ \A v \in Workers, k \in 1..LineCount : Takes(v, k) => ~Recognized(k)
          /\ \A k \in 1..LineCount : k >= nextSlot => ~Recognized(k)
      BY <1>4, <1>6 DEF Holders
    <2>3. \A v \in Workers : wpc'[v] = "process" => slot'[v] \in 1..LineCount /\ slot'[v] < nextSlot
      BY <1>1, <1>2, <1>3, <1>4, <2>1
    <2>4. \A v \in ActiveWorkers : wpc'[v] = "ended" => failed'[v] \/ nextSlot > LineCount
      BY <1>4, <1>5, <1>8, <2>1
    <2>5. \A v, u \in Workers, k \in 1..LineCount : Takes(v, k)' /\ Takes(u, k)' => v = u
      BY <1>12, <2>2
    <2>6. \A v \in Workers, k \in 1..LineCount : Takes(v, k)' => ~Recognized(k)
      BY <1>12, <2>2
    <2>7. \E v \in ActiveWorkers : failed'[v]
      BY <1>4, <1>8
    <2> QED
      BY <1>1, <1>4, <1>11, <2>1, <2>2, <2>3, <2>4, <2>5, <2>6, <2>7 DEF Holders
  <1>14. ASSUME NEW j \in 1..LineCount, Written(j), scratchLines[j] # NoLine
         PROVE  Written(j)'
    <2>1. PICK i : i = Schedule(crops)[slot[w]]
      OBVIOUS
    <2>2. i \in 1..LineCount /\ j # i
      BY <1>5, <1>7, <1>14, <2>1 DEF Recognized
    <2>3. \/ scratchText' = scratchText
          \/ \E n \in 0..TextCapacity - 1 : scratchText' = Stored(i, crops[i].box, n)
      BY <2>1 DEF ProcessFails
    <2> DEFINE there == request.image[crops[j].box].length
    <2>4. ASSUME NEW k \in 1..there
          PROVE  scratchText'[SlotStart(j) + k - 1] = scratchText[SlotStart(j) + k - 1]
      <3>1. /\ k \in 1..TextCapacity /\ i \in 1..MaxLines /\ j \in 1..MaxLines
            /\ 0..TextCapacity - 1 \subseteq 0..TextCapacity
        BY <1>5, <2>2, SlotFacts
      <3> QED
        BY <2>2, <2>3, <3>1, StoredApart
    <2> HIDE DEF there
    <2> QED
      BY <1>1, <1>14, <2>4 DEF Written, there
  <1>15. SlotsWritten'
    BY <1>1, <1>4, <1>14 DEF IInv, SlotsWritten
  <1> QED
    BY <1>4, <1>10, <1>13, <1>15 DEF IInv

-----------------------------------------------------------------------------
(* Compaction and publication keep the invariant *)

\* What holds while the caller's thread compacts.
LEMMA CompactFacts ==
  ASSUME IInv, pc = "compact"
  PROVE  /\ request \in Requests /\ request.image \in Images /\ crops = Croppable(request.image)
         /\ LineCount \in 0..MaxLines /\ LineCount \in Nat /\ MaxLines \in Nat
         /\ TextCapacity \in Nat /\ at \in 1..(LineCount + 1) /\ at \in Nat
         /\ textUsed \in Nat /\ textUsed <= SlotStart(at)
         /\ LineCount = Len(Promise!LineBoxes(request.image))
         /\ \A i \in 1..LineCount : /\ crops[i].box \in 1..MaxLines
                                   /\ crops[i].box = Promise!LineBoxes(request.image)[i]
                                   /\ request.image[crops[i].box].length \in 1..TextCapacity
  <1>1. request \in Requests /\ crops = Croppable(request.image) /\ LineCount <= MaxLines
    BY DEF IInv, RequestShape, ThreadShape
  <1>2. request.image \in Images
    BY <1>1 DEF Requests
  <1>3. crops \in Seq(Crop)
    BY <1>1, <1>2, CroppableFacts
  <1>4. LineCount \in Nat
    BY <1>3 DEF LineCount
  <1>5. MaxLines \in Nat /\ TextCapacity \in Nat
    BY SlotFacts
  <1>6. at \in 1..(LineCount + 1) /\ textUsed \in 0..SlotStart(at)
    BY DEF IInv, Compacted
  <1>7. SlotStart(at) \in Nat
    <2>1. at \in 1..(MaxLines + 1)
      BY <1>1, <1>4, <1>5, <1>6
    <2> QED
      BY <2>1, SlotFacts
  <1>8. /\ LineCount = Len(Promise!LineBoxes(request.image))
        /\ \A i \in 1..LineCount : /\ crops[i].box \in 1..MaxLines
                                  /\ crops[i].box = Promise!LineBoxes(request.image)[i]
                                  /\ request.image[crops[i].box].length \in 1..TextCapacity
    BY <1>1, <1>2, CroppableFacts DEF LineCount
  <1>9. LineCount \in 0..MaxLines /\ at \in Nat /\ textUsed \in Nat /\ textUsed <= SlotStart(at)
    BY <1>1, <1>4, <1>5, <1>6, <1>7
  <1> QED
    BY <1>1, <1>2, <1>4, <1>5, <1>6, <1>8, <1>9

LEMMA PublishStep ==
  ASSUME IInv, Publish
  PROVE  IInv'
  <1>1. /\ pc = "compact" /\ pc' = "idle" /\ request' = NoRequest
        /\ UNCHANGED <<crops, nextSlot, scratchLines, initial, failed, started, wpc, slot, recWidth,
                       at, textUsed>>
    BY DEF Publish, Answer, taskVars, workerVars, scratchVars
  <1>2. TypeOK'
    BY <1>1 DEF IInv, TypeOK
  <1>3. RequestShape'
    BY <1>1 DEF RequestShape, Running
  <1>4. ThreadShape'
    BY <1>1 DEF IInv, ThreadShape, Running, LineCount
  <1>5. Holders' /\ SlotsWritten' /\ Compacted'
    BY <1>1 DEF Holders, SlotsWritten, Compacted, Running
  <1> QED
    BY <1>2, <1>3, <1>4, <1>5 DEF IInv

LEMMA CompactLineStep ==
  ASSUME IInv, CompactLine
  PROVE  IInv'
  <1> DEFINE box == crops[at].box
             length == request.image[box].length
             from == SlotStart(at)
             before == Promise!TextUpTo(request, at - 1)
             new == Promise!TextOf(request, box)
             after == Promise!TextUpTo(request, at)
  <1>1. /\ pc = "compact" /\ pc' = "compact" /\ at <= LineCount /\ at' = at + 1
        /\ scratchText' = Moved(scratchLines[at].offset, textUsed, scratchLines[at].length)
        /\ scratchLines' = [scratchLines EXCEPT ![at].offset = textUsed]
        /\ textUsed' = textUsed + scratchLines[at].length
        /\ UNCHANGED <<request, crops, nextSlot, initial, failed, started, wpc, slot, recWidth>>
    BY DEF CompactLine, requestVars, taskVars, workerVars
  <1>2. /\ request.image \in Images /\ crops = Croppable(request.image)
        /\ LineCount \in 0..MaxLines /\ LineCount \in Nat /\ MaxLines \in Nat
        /\ TextCapacity \in Nat /\ at \in Nat /\ at \in 1..LineCount
        /\ textUsed \in Nat /\ textUsed <= from
        /\ LineCount = Len(Promise!LineBoxes(request.image))
        /\ \A i \in 1..LineCount : /\ crops[i].box \in 1..MaxLines
                                  /\ crops[i].box = Promise!LineBoxes(request.image)[i]
                                  /\ request.image[crops[i].box].length \in 1..TextCapacity
    BY <1>1, CompactFacts
  <1>3. /\ box \in 1..MaxLines /\ length \in 1..TextCapacity /\ length \in Nat
        /\ at \in 1..MaxLines /\ box = Promise!LineBoxes(request.image)[at]
    BY <1>2
  <1>4. LineCount' = LineCount
    BY <1>1 DEF LineCount
  <1>5. /\ \A i \in at..LineCount : Written(i)
        /\ \A i \in 1..(at - 1) : scratchLines[i] = Promise!Lines(request)[i]
        /\ textUsed = Len(before)
        /\ \A k \in 1..textUsed : scratchText[k - 1] = before[k]
    BY <1>1 DEF IInv, Compacted
  <1>6. /\ scratchLines[at] = [box |-> box, offset |-> from, length |-> length]
        /\ \A k \in 1..length : scratchText[from + k - 1] = <<box, k>>
    <2>1. Written(at)
      BY <1>2, <1>5
    <2> QED
      BY <2>1 DEF Written
  <1>7. /\ before \in Seq(Character) /\ after = before \o new
        /\ new = [k \in 1..length |-> <<box, k>>]
    <2>1. /\ at \in 1..Len(Croppable(request.image))
          /\ at - 1 \in 0..Len(Croppable(request.image))
      BY <1>2 DEF LineCount
    <2>2. before \in Seq(Character)
      BY <1>2, <2>1, TextFacts
    <2>3. after = before \o Promise!TextOf(request, Promise!LineBoxes(request.image)[at])
      BY <1>2, <2>1, TextFacts
    <2>4. new = [k \in 1..length |-> <<box, k>>]
      BY DEF Promise!TextOf
    <2> HIDE DEF before, after, box
    <2> QED
      BY <1>3, <2>2, <2>3, <2>4
  <1>8. /\ from \in Nat /\ from \in Cells /\ SlotStart(at + 1) = from + TextCapacity
        /\ SlotStart(at + 1) \in 0..(MaxLines * TextCapacity)
        /\ MaxLines * TextCapacity \in Nat
    <2>1. 1 \in 1..TextCapacity /\ at + 1 \in 1..(MaxLines + 1)
      BY <1>2, <1>3
    <2> QED
      BY <1>3, <2>1, SlotFacts, CellFacts
  <1>9. /\ scratchText' = [c \in Cells |-> IF c \in textUsed..(textUsed + length - 1)
                                          THEN scratchText[from + (c - textUsed)] ELSE scratchText[c]]
        /\ textUsed' = textUsed + length
        /\ scratchLines' = [scratchLines EXCEPT ![at].offset = textUsed]
    BY <1>1, <1>6 DEF Moved
  <1>10. /\ scratchLines \in [CropIds -> [box : 0..MaxLines, offset : {0} \cup Cells,
                                         length : 0..TextCapacity]]
         /\ at \in CropIds /\ CropIds = 1..MaxLines
    BY <1>3 DEF IInv, TypeOK, CropIds
  <1>11. /\ scratchLines'[at] = [box |-> box, offset |-> textUsed, length |-> length]
         /\ \A i \in CropIds \ {at} : scratchLines'[i] = scratchLines[i]
    BY <1>6, <1>9, <1>10
  <1> HIDE DEF box, length, from, before, new, after
  <1>12. textUsed' \in Nat /\ textUsed' <= SlotStart(at + 1) /\ textUsed \in Cells
    <2>1. textUsed' \in Nat /\ textUsed' <= SlotStart(at + 1)
      <3>1. /\ textUsed' = textUsed + length /\ textUsed \in Nat /\ textUsed <= from
            /\ SlotStart(at + 1) = from + TextCapacity
        BY <1>2, <1>8, <1>9 DEF from
      <3>2. from \in Nat /\ length \in Nat /\ length <= TextCapacity /\ TextCapacity \in Nat
        BY <1>2, <1>3, <1>8
      <3> QED
        BY <3>1, <3>2
    <2>2. textUsed \in Cells
      BY <1>2, <1>8 DEF Cells
    <2> QED
      BY <2>1, <2>2
  <1>13. TypeOK'
    <2>1. [box |-> box, offset |-> textUsed, length |-> length]
            \in [box : 0..MaxLines, offset : {0} \cup Cells, length : 0..TextCapacity]
      BY <1>2, <1>3, <1>12
    <2>2. scratchLines' \in [CropIds -> [box : 0..MaxLines, offset : {0} \cup Cells,
                                        length : 0..TextCapacity]]
      BY <1>9, <1>10, <1>11, <2>1
    <2>3. at' \in 1..(MaxLines + WorkerCount) \cup {0}
      BY <1>1, <1>2, <1>3, WorkerFacts
    <2>4. textUsed' \in 0..(MaxLines * TextCapacity)
      BY <1>8, <1>12
    <2> QED
      BY <1>1, <2>2, <2>3, <2>4 DEF IInv, TypeOK
  <1>14. RequestShape'
    BY <1>1 DEF IInv, RequestShape, Running
  <1>15. ThreadShape'
    BY <1>1, <1>4 DEF IInv, ThreadShape, Running
  <1>16. ASSUME NEW i \in (at + 1)..LineCount PROVE Written(i)'
    <2>1. i \in 1..MaxLines /\ i \in CropIds \ {at} /\ i \in 1..LineCount /\ i \in at..LineCount /\ at < i
      BY <1>2, <1>10
    <2> DEFINE there == request.image[crops[i].box].length
    <2>2. there \in 1..TextCapacity
      BY <1>2, <2>1
    <2>3. ASSUME NEW k \in 1..there
          PROVE  scratchText'[SlotStart(i) + k - 1] = scratchText[SlotStart(i) + k - 1]
      <3>1. k \in 1..TextCapacity /\ k \in Nat /\ k >= 1
        <4> HIDE DEF there
        <4> QED
          BY <1>2, <2>2
      <3>2. SlotStart(i) + k - 1 \in Cells /\ SlotStart(i) \in Nat
        BY <2>1, <3>1, CellFacts
      <3>3. from + TextCapacity <= SlotStart(i)
        <4>1. at \in 1..(MaxLines + 1) /\ i \in 1..(MaxLines + 1)
          BY <1>2, <1>3, <2>1
        <4> QED
          BY <2>1, <4>1, SlotFacts DEF from
      <3>4. SlotStart(i) + k - 1 \notin textUsed..(textUsed + length - 1)
        <4>1. length <= TextCapacity /\ textUsed <= from
          BY <1>2, <1>3 DEF from
        <4> QED
          BY <1>2, <1>3, <1>8, <3>1, <3>2, <3>3, <4>1
      <3> QED
        BY <1>9, <3>2, <3>4
    <2>4. Written(i)
      BY <1>5, <2>1
    <2> HIDE DEF there
    <2> QED
      BY <1>1, <1>11, <2>1, <2>3, <2>4 DEF Written, there
  <1>17. scratchLines'[at] = Promise!Lines(request)[at]
    <2>1. Promise!Lines(request)[at] = [box |-> box, offset |-> Len(before), length |-> length]
      BY <1>2, <1>3 DEF Promise!Lines, before, length
    <2> QED
      BY <1>5, <1>11, <2>1
  <1>18. \A i \in 1..(at' - 1) : scratchLines'[i] = Promise!Lines(request)[i]
    <2>1. \A i \in 1..(at' - 1) : i = at \/ i \in 1..(at - 1)
      BY <1>1, <1>2
    <2>2. \A i \in 1..(at - 1) : i \in CropIds \ {at}
      BY <1>2, <1>3, <1>10
    <2> QED
      BY <1>5, <1>11, <1>17, <2>1, <2>2
  <1>19. /\ Len(after) = textUsed'
         /\ \A k \in 1..textUsed : after[k] = before[k]
         /\ \A k \in 1..length : after[textUsed + k] = <<box, k>>
    <2>1. new \in Seq(Character) /\ Len(new) = length /\ \A k \in 1..length : new[k] = <<box, k>>
      <3>1. \A k \in 1..length : <<box, k>> \in Character
        BY <1>3 DEF Character
      <3> QED
        BY <1>3, <1>7, <3>1
    <2>2. before \in Seq(Character) /\ Len(before) = textUsed /\ after = before \o new
      BY <1>5, <1>7
    <2> HIDE DEF Character
    <2>3. Len(after) = textUsed + length
      <3>1. \A r, t \in Seq(Character) : Len(r \o t) = Len(r) + Len(t)
        OBVIOUS
      <3>2. Len(before \o new) = Len(before) + Len(new)
        BY <2>1, <2>2, <3>1
      <3> QED
        BY <2>1, <2>2, <3>2
    <2>4. \A k \in 1..textUsed : after[k] = before[k]
      BY <1>2, <2>1, <2>2
    <2>5. ASSUME NEW k \in 1..length PROVE after[textUsed + k] = new[k]
      <3>1. textUsed + k \in 1..(Len(before) + Len(new)) /\ textUsed + k > Len(before)
            /\ (textUsed + k) - Len(before) = k
        BY <1>2, <1>3, <2>1, <2>2
      <3> QED
        BY <2>1, <2>2, <3>1
    <2> QED
      BY <1>9, <2>1, <2>3, <2>4, <2>5
  <1>20. ASSUME NEW k \in 1..textUsed' PROVE scratchText'[k - 1] = after[k]
    <2>1. k \in Nat /\ k >= 1 /\ k <= textUsed' /\ k - 1 \in Cells
      BY <1>8, <1>12 DEF Cells
    <2>2. CASE k <= textUsed
      <3>1. k \in 1..textUsed /\ k - 1 \notin textUsed..(textUsed + length - 1)
        BY <1>2, <1>3, <2>1, <2>2
      <3> QED
        BY <1>5, <1>9, <1>19, <2>1, <3>1
    <2>3. CASE k > textUsed
      <3> DEFINE l == k - textUsed
      <3>0. textUsed \in Nat /\ length \in Nat /\ from \in Nat /\ k <= textUsed + length
        BY <1>2, <1>3, <1>8, <1>9, <2>1
      <3>1. /\ l \in 1..length /\ k - 1 \in textUsed..(textUsed + length - 1)
            /\ from + ((k - 1) - textUsed) = from + l - 1 /\ textUsed + l = k
        BY <2>1, <2>3, <3>0
      <3>2. scratchText'[k - 1] = scratchText[from + ((k - 1) - textUsed)]
        BY <1>9, <2>1, <3>1
      <3> HIDE DEF l
      <3> QED
        BY <1>6, <1>19, <3>1, <3>2
    <2> QED
      BY <1>2, <2>1, <2>2, <2>3
  <1>21. Compacted'
    <2>1. at' \in 1..(LineCount + 1) /\ at' - 1 = at /\ at' = at + 1
      BY <1>1, <1>2
    <2>2. textUsed' \in 0..SlotStart(at')
      BY <1>8, <1>12, <2>1
    <2>3. \A i \in at'..LineCount : Written(i)'
      BY <1>16, <2>1
    <2>4. Promise!TextUpTo(request', at' - 1) = after /\ request' = request
      BY <1>1, <2>1 DEF after
    <2>5. SlotStart(at)' = SlotStart(at')
      BY DEF SlotStart
    <2> QED
      BY <1>4, <1>18, <1>19, <1>20, <2>1, <2>2, <2>3, <2>4, <2>5 DEF Compacted
  <1> QED
    BY <1>1, <1>13, <1>14, <1>15, <1>21 DEF IInv, Holders, SlotsWritten, Running

-----------------------------------------------------------------------------
(* The theorems *)

LEMMA StepInvariant == IInv /\ [Next]_vars => IInv'
  <1> SUFFICES ASSUME IInv, [Next]_vars PROVE IInv'
    OBVIOUS
  <1>1. ASSUME NEW image \in Images, NEW capacity \in Capacities, Call(image, capacity)
        PROVE  IInv'
    BY <1>1, CallStep
  <1>2. CASE PrepareFails
    BY <1>2, PrepareFailsStep
  <1>3. CASE Prepare
    BY <1>3, PrepareStep
  <1>4. CASE SpawnThread
    BY <1>4, SpawnThreadStep
  <1>5. CASE SpawnFails
    BY <1>5, SpawnFailsStep
  <1>6. CASE InlineReturns
    BY <1>6, InlineReturnsStep
  <1>7. CASE RunWorkerZero
    BY <1>7, RunWorkerZeroStep
  <1>8. CASE JoinWorkers
    BY <1>8, JoinWorkersStep
  <1>9. CASE CompactLine
    BY <1>9, CompactLineStep
  <1>10. CASE Publish
    BY <1>10, PublishStep
  <1>11. ASSUME NEW w \in Workers, Worker(w) PROVE IInv'
    BY <1>11, ClaimStep, ProcessStep, ProcessFailsStep DEF Worker
  <1>12. CASE UNCHANGED vars
    <2>1. TypeOK' /\ RequestShape'
      BY <1>12 DEF vars, IInv, TypeOK, RequestShape
    <2>2. ThreadShape'
      BY <1>12 DEF vars, IInv, ThreadShape, LineCount, ActiveWorkers
    <2>3. Holders'
      BY <1>12 DEF vars, IInv, Holders, LineCount, ActiveWorkers, Takes, Recognized
    <2>4. SlotsWritten' /\ Compacted'
      BY <1>12 DEF vars, IInv, SlotsWritten, Compacted, LineCount, Written
    <2> QED
      BY <2>1, <2>2, <2>3, <2>4 DEF IInv
  <1> QED
    BY <1>1, <1>2, <1>3, <1>4, <1>5, <1>6, <1>7, <1>8, <1>9, <1>10, <1>11, <1>12 DEF Next, Caller

LEMMA Invariant == Spec => []IInv
  BY InitInvariant, StepInvariant, PTL DEF Spec

\* Whatever is submitted and whichever threads start, every field of the handle
\* and of its tasks keeps its range: no counter, offset or slot leaves it.
THEOREM TypeCorrect == Spec => []TypeOK
  <1>1. IInv => TypeOK
    BY DEF IInv
  <1> QED
    BY <1>1, Invariant, PTL

\* A set that has no two elements has at most one.
LEMMA AtMostOne ==
  ASSUME NEW S, \A x, y \in S : x = y
  PROVE  Cardinality(S) <= 1
  <1>1. CASE S = {}
    BY <1>1, FS_EmptySet
  <1>2. CASE S # {}
    <2>1. PICK x : x \in S
      BY <1>2
    <2>2. S = {x}
      BY <2>1
    <2> QED
      BY <2>2, FS_Singleton
  <1> QED
    BY <1>1, <1>2

\* No line is lost and none is recognized twice, whatever the order in which the
\* workers take their reservations and the counter's slots.
THEOREM EveryLineOnce == Spec => []EachLineOnce
  <1>1. IInv => EachLineOnce
    <2> SUFFICES ASSUME IInv, pc \in Running, NEW k \in 1..LineCount
                 PROVE  LET recognized == scratchLines[Schedule(crops)[k]] # NoLine
                            takers == {w \in Workers : initial[w] = k}
                                      \cup {w \in Processing : slot[w] = k}
                        IN /\ Cardinality(takers) <= 1
                           /\ takers # {} => ~recognized /\ (k < nextSlot)
                           /\ k >= nextSlot => ~recognized
                           /\ k < nextSlot /\ takers = {} /\ ~recognized => \E w \in Workers : failed[w]
      BY DEF EachLineOnce, Running
    <2> DEFINE takers == {w \in Workers : initial[w] = k} \cup {w \in Processing : slot[w] = k}
    <2>1. \A w : w \in takers <=> w \in Workers /\ Takes(w, k)
      BY DEF Processing, Takes
    <2>2. Holders
      BY DEF IInv
    <2>3. Cardinality(takers) <= 1
      <3>1. \A w, v \in takers : w = v
        BY <2>1, <2>2 DEF Holders
      <3> HIDE DEF takers
      <3> QED
        BY <3>1, AtMostOne
    <2>4. \A w \in Workers : Takes(w, k) => ~Recognized(k) /\ k < nextSlot
      <3>1. \A w \in Workers : Takes(w, k) => k < nextSlot
        BY <2>2 DEF Holders, Takes
      <3> QED
        BY <2>2, <3>1 DEF Holders
    <2>5. k >= nextSlot => ~Recognized(k)
      BY <2>2 DEF Holders
    <2>6. k < nextSlot => \/ Recognized(k)
                          \/ \E w \in Workers : Takes(w, k)
                          \/ \E w \in ActiveWorkers : failed[w]
      BY <2>2 DEF Holders
    <2>7. ActiveWorkers \subseteq Workers
      BY RunningFacts
    <2> HIDE DEF takers
    <2>8. takers # {} => ~Recognized(k) /\ k < nextSlot
      BY <2>1, <2>4
    <2>9. k < nextSlot /\ takers = {} /\ ~Recognized(k) => \E w \in Workers : failed[w]
      BY <2>1, <2>6, <2>7
    <2> QED
      BY <2>3, <2>5, <2>8, <2>9 DEF takers, Recognized
  <1> QED
    BY <1>1, Invariant, PTL

\* Outside run_worker_tasks no worker thread is alive, whichever creations fail:
\* neither the next request nor the release of the handle meets one.
THEOREM NoWorkerOutlives == Spec => []WorkersContained
  <1>1. IInv => WorkersContained
    BY DEF IInv, ThreadShape, WorkersContained, Running
  <1> QED
    BY <1>1, Invariant, PTL

\* The compaction never reaches a slot that it has still to move.
THEOREM CompactionIsSafe == Spec => []SlotsIntact
  <1>1. IInv => SlotsIntact
    <2> SUFFICES ASSUME IInv, pc = "compact", NEW i \in at..LineCount
                 PROVE  /\ scratchLines[i].box = crops[i].box
                        /\ textUsed <= scratchLines[i].offset
                        /\ \A k \in 1..scratchLines[i].length :
                             scratchText[scratchLines[i].offset + k - 1] = <<scratchLines[i].box, k>>
      BY DEF SlotsIntact
    <2>1. /\ LineCount \in 0..MaxLines /\ MaxLines \in Nat /\ at \in Nat /\ at >= 1
          /\ textUsed \in Nat /\ textUsed <= SlotStart(at) /\ TextCapacity \in Nat
      BY CompactFacts
    <2>2. Written(i)
      BY DEF IInv, Compacted
    <2>3. SlotStart(at) <= SlotStart(i) /\ SlotStart(at) \in Nat /\ SlotStart(i) \in Nat
      <3>1. at \in 1..(MaxLines + 1) /\ i \in 1..(MaxLines + 1) /\ (at = i \/ at < i)
        BY <2>1
      <3>2. SlotStart(at) \in Nat /\ SlotStart(i) \in Nat
        BY <3>1, SlotFacts
      <3>3. at < i => SlotStart(at) + TextCapacity <= SlotStart(i)
        BY <3>1, SlotFacts
      <3> QED
        BY <2>1, <3>1, <3>2, <3>3
    <2> QED
      BY <2>1, <2>2, <2>3 DEF Written
  <1> QED
    BY <1>1, Invariant, PTL

-----------------------------------------------------------------------------
(* The handle does what OcrService promises, step by step *)

LEMMA InitRefines == Init => Promise!Init
  BY DEF Init, Promise!Init, Promise!NoRequest, Promise!NoResponse, Promise!Untouched,
         Promise!NoBuffers, NoRequest, NoBuffers, Untouched

LEMMA OpenRequest == \A r \in Requests : r # Promise!NoRequest
  <1>1. \A r \in Requests : r.open = TRUE
    BY DEF Requests
  <1>2. Promise!NoRequest.open = FALSE
    BY DEF Promise!NoRequest
  <1> QED
    BY <1>1, <1>2

LEMMA FailRefines ==
  ASSUME IInv, pc # "idle", Answer("error", 0, 0), UNCHANGED buffers
  PROVE  Promise!Fail
  <1>1. request # Promise!NoRequest
    BY OpenRequest DEF IInv, RequestShape
  <1> QED
    BY <1>1 DEF Answer, Promise!Fail, Promise!Failure, Promise!NoRequest, Promise!NoBuffers,
                NoRequest, NoBuffers

LEMMA PublishRefines ==
  ASSUME IInv, Publish
  PROVE  Promise!Succeed
  <1>1. pc = "compact" /\ at > LineCount
    BY DEF Publish
  <1>2. /\ request \in Requests /\ LineCount \in Nat /\ at \in 1..(LineCount + 1) /\ at \in Nat
        /\ LineCount = Len(Promise!LineBoxes(request.image)) /\ request.image \in Images
        /\ LineCount = Len(Croppable(request.image))
    BY <1>1, CompactFacts DEF LineCount
  <1>3. at - 1 = LineCount /\ at = LineCount + 1
    BY <1>1, <1>2
  <1>4. /\ \A i \in 1..LineCount : scratchLines[i] = Promise!Lines(request)[i]
        /\ textUsed = Len(Promise!Text(request))
        /\ \A k \in 1..textUsed : scratchText[k - 1] = Promise!Text(request)[k]
    BY <1>1, <1>2, <1>3 DEF IInv, Compacted, Promise!Text
  <1>5. Promise!Text(request) \in Seq(Character)
    <2>1. LineCount \in 0..Len(Croppable(request.image))
      BY <1>2
    <2> QED
      BY <1>2, <2>1, TextFacts DEF Promise!Text
  <1>6. [k \in 1..textUsed |-> scratchText[k - 1]] = Promise!Text(request)
    BY <1>4, <1>5
  <1>7. Len(Promise!Lines(request)) = LineCount /\ DOMAIN Promise!Lines(request) = 1..LineCount
    BY <1>2 DEF Promise!Lines
  <1>8. [i \in 1..LineCount |-> scratchLines[i]] = Promise!Lines(request)
    <2>1. Promise!Lines(request) = [i \in 1..LineCount |-> Promise!Lines(request)[i]]
      BY <1>2 DEF Promise!Lines
    <2> QED
      BY <1>4, <2>1
  <1>9. /\ request # Promise!NoRequest
        /\ \A b \in DOMAIN request.image : request.image[b].kind # "huge"
    BY <1>1, <1>2, OpenRequest DEF IInv, RequestShape, Running
  <1> DEFINE query == request.capacity = NoBuffers
             fits == LineCount <= request.capacity.lines /\ textUsed <= request.capacity.text
  <1>10. Promise!Fits(request) <=> fits
    BY <1>4, <1>7 DEF Promise!Fits
  <1>11. /\ request' = NoRequest
         /\ response' = [status |-> IF query \/ fits THEN "ok" ELSE "short",
                         lines |-> LineCount, text |-> textUsed]
         /\ buffers' = IF query \/ ~fits THEN buffers
                       ELSE [lines |-> [i \in 1..LineCount |-> scratchLines[i]],
                             text |-> [k \in 1..textUsed |-> scratchText[k - 1]]]
    BY DEF Publish, Answer
  <1>12. NoRequest = Promise!NoRequest /\ NoBuffers = Promise!NoBuffers
    BY DEF NoRequest, NoBuffers, Promise!NoRequest, Promise!NoBuffers
  <1>13. response' = [status |-> IF request.capacity = Promise!NoBuffers \/ Promise!Fits(request)
                                 THEN "ok" ELSE "short",
                      lines |-> Len(Promise!Lines(request)), text |-> Len(Promise!Text(request))]
    BY <1>4, <1>7, <1>10, <1>11, <1>12, Zenon
  <1>14. buffers' = IF request.capacity # Promise!NoBuffers /\ Promise!Fits(request)
                    THEN [lines |-> Promise!Lines(request), text |-> Promise!Text(request)]
                    ELSE buffers
    BY <1>6, <1>8, <1>10, <1>11, <1>12, Zenon
  <1> QED
    BY <1>9, <1>11, <1>12, <1>13, <1>14 DEF Promise!Succeed

LEMMA StepRefines == IInv /\ [Next]_vars => [Promise!Next]_Promise!vars
  <1> SUFFICES ASSUME IInv, [Next]_vars PROVE [Promise!Next]_Promise!vars
    OBVIOUS
  <1>1. ASSUME NEW image \in Images, NEW capacity \in Capacities, Call(image, capacity)
        PROVE  Promise!Next
    <2>1. request = Promise!NoRequest
      BY <1>1 DEF Call, IInv, RequestShape, NoRequest, NoBuffers, Promise!NoRequest, Promise!NoBuffers
    <2>2. Promise!Call(image, capacity)
      BY <1>1, <2>1 DEF Call, Promise!Call, Promise!NoResponse, Promise!Untouched, Untouched
    <2> QED
      BY <2>2 DEF Promise!Next
  <1>2. CASE PrepareFails
    BY <1>2, FailRefines DEF PrepareFails, Promise!Next
  <1>3. CASE JoinWorkers
    <2>1. CASE AnyFailed
      BY <1>3, <2>1, FailRefines DEF JoinWorkers, Promise!Next
    <2>2. CASE ~AnyFailed
      BY <1>3, <2>2 DEF JoinWorkers, Promise!vars
    <2> QED
      BY <2>1, <2>2
  <1>4. CASE Publish
    BY <1>4, PublishRefines DEF Promise!Next
  <1>5. CASE Prepare \/ SpawnThread \/ SpawnFails \/ InlineReturns \/ RunWorkerZero \/ CompactLine
    BY <1>5 DEF Prepare, SpawnThread, SpawnFails, InlineReturns, RunWorkerZero, CompactLine,
                requestVars, Promise!vars
  <1>6. ASSUME NEW w \in Workers, Worker(w) PROVE UNCHANGED Promise!vars
    BY <1>6 DEF Worker, Claim, Process, ProcessFails, requestVars, Promise!vars
  <1>7. CASE UNCHANGED vars
    BY <1>7 DEF vars, Promise!vars
  <1> QED
    BY <1>1, <1>2, <1>3, <1>4, <1>5, <1>6, <1>7 DEF Next, Caller

\* The handle implements OcrService: what a caller gets is the whole and exact
\* answer to its own image, or an error with untouched buffers, however the
\* threads ran.  (That every call returns is left to TLC.)
THEOREM AnswersAreExact == Spec => Promise!Safety
  BY InitRefines, Invariant, StepRefines, PTL DEF Spec, Promise!Safety
==============================================================================
