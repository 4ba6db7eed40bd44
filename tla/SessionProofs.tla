---------------------------- MODULE SessionProofs ----------------------------
(***************************************************************************)
(* Proofs about a session: WorkspacePlanner, then GraphExecutor, which     *)
(* runs in the workspace that was planned, then ConvNode, one of its nodes *)
(* on several threads.                                                     *)
(*                                                                         *)
(* The planner's inductive invariant, for every graph, alignment, word     *)
(* size and limit, says three things: which tensors have been placed so    *)
(* far (Placement), that any two tensors which are needed at one node lie  *)
(* apart (PairsApart), and that live tensors and free blocks tile the      *)
(* workspace (Tiling).                                                     *)
(*                                                                         *)
(* The executor's, for every graph in execution order, every plan for it,  *)
(* every length of vectors and every sequence of executions, says which    *)
(* tensors still hold their values (NodesRight), also in the middle of the *)
(* fused kernel, which overwrites its own source (GeluRight).              *)
(*                                                                         *)
(* The convolution node's, for every convolution, vector level and number  *)
(* of threads, says that an output channel has been stored by the workers  *)
(* which have run and whose slice it is in (NodeInv); the slices partition *)
(* the channels (SlicesPartition).                                         *)
(***************************************************************************)
EXTENDS GraphExecutor, ConvNode, FiniteSetTheorems, TLAPS

-----------------------------------------------------------------------------
(* The workspace planner *)

Blocks == [offset : Nat, size : Nat \ {0}]
EndOf(b) == b.offset + b.size
BlocksApart(b, c) == EndOf(b) <= c.offset \/ EndOf(c) <= b.offset
In(x, start, size) == start <= x /\ x < start + size

PlanShape ==
  /\ graph \in GraphSet /\ limit \in Limits
  /\ pc \in {"lifetimes", "release", "allocate", "done", "failed"}
  /\ node \in Nat \ {0} /\ at \in Nat \ {0}
  /\ pc \in {"release", "allocate"} => node \in 1..NodeCount
  /\ offset \in [DOMAIN offset -> Nat]
  /\ DOMAIN offset \subseteq Tensors
  /\ live \subseteq DOMAIN offset
  /\ free \in SUBSET Blocks
  /\ end \in 0..MaxWord

\* The tensors that the nodes before n produce.
Before(n) == {t \in Tensors : \E m \in 1..(n - 1) : t \in Produced(m)}

\* Until the plan is done, what has been placed are the outputs so far, and of these
\* all that are still needed are live.
Placement ==
  /\ pc = "lifetimes" => DOMAIN offset = {} /\ free = {} /\ end = 0 /\ node = 1
  /\ pc \in {"release", "allocate", "done"} => ~ProducedTwice
  /\ pc = "release" => DOMAIN offset = Before(node)
  /\ pc = "allocate" =>
       /\ at <= Len(graph.outputs[node]) + 1
       /\ DOMAIN offset = Before(node) \cup {graph.outputs[node][j] : j \in 1..(at - 1)}
  /\ pc = "done" => DOMAIN offset = Before(NodeCount + 1)
  /\ pc \in {"release", "allocate"} => \A t \in DOMAIN offset : ~Expired(t) => t \in live

\* Two placed tensors which are needed at one node, whichever it is, lie apart.
PairsApart ==
  \A t, u \in DOMAIN offset : \A n \in 1..NodeCount :
    t # u /\ Needed(t, n) /\ Needed(u, n) => Disjoint(offset[t], Size(t), offset[u], Size(u))

PlacedWithin ==
  \A t \in DOMAIN offset : offset[t] % Alignment = 0 /\ offset[t] + Size(t) <= end

FreeBlocksApart ==
  /\ \A b \in free : b.offset % Alignment = 0 /\ b.size % Alignment = 0 /\ EndOf(b) <= end
  /\ \A b, c \in free : b = c \/ BlocksApart(b, c)
  /\ \A b, c \in free : EndOf(b) # c.offset

\* Live tensors and free blocks have every byte of the workspace once.
Tiling ==
  /\ end <= limit /\ end % Alignment = 0
  /\ FreeBlocksApart
  /\ \A b \in free, t \in live : Disjoint(b.offset, b.size, offset[t], Size(t))
  /\ \A x \in 0..(end - 1) : \/ \E t \in live : In(x, offset[t], Size(t))
                             \/ \E b \in free : In(x, b.offset, b.size)

PlanIInv ==
  /\ PlanShape
  /\ Placement
  /\ PairsApart
  /\ PlacedWithin
  /\ NoOverlap
  /\ pc # "failed" => Tiling

-----------------------------------------------------------------------------
(* Multiples of the alignment *)

LEMMA Quotient ==
  ASSUME NEW x \in Int
  PROVE  /\ x = (x \div Alignment) * Alignment + (x % Alignment)
         /\ x \div Alignment \in Int
         /\ x % Alignment \in 0..(Alignment - 1)
  BY Z3, WorkspacePlannerAssumption

LEMMA Product ==
  ASSUME NEW k \in Int
  PROVE  k * Alignment \in Int /\ (k * Alignment) % Alignment = 0
  BY Z3, WorkspacePlannerAssumption

LEMMA MultiplesAdd ==
  ASSUME NEW x \in Int, NEW y \in Int, x % Alignment = 0, y % Alignment = 0
  PROVE  (x + y) % Alignment = 0 /\ (x - y) % Alignment = 0
  <1> DEFINE k == x \div Alignment
             l == y \div Alignment
  <1>1. k \in Int /\ l \in Int /\ x = k * Alignment /\ y = l * Alignment
    BY Quotient, WorkspacePlannerAssumption
  <1> HIDE DEF k, l
  <1>2. x + y = (k + l) * Alignment /\ x - y = (k - l) * Alignment
    BY <1>1, Z3, WorkspacePlannerAssumption
  <1> QED
    BY <1>1, <1>2, Product

\* align_workspace: the least multiple that is not less.
LEMMA AlignedFacts ==
  ASSUME NEW n \in Nat
  PROVE  /\ Aligned(n) \in Nat /\ Aligned(n) % Alignment = 0
         /\ n <= Aligned(n) /\ Aligned(n) <= n + (Alignment - 1)
  <1> DEFINE m == n + (Alignment - 1)
             q == m \div Alignment
             r == m % Alignment
  <1>1. m \in Int
    BY WorkspacePlannerAssumption
  <1>2. q \in Int /\ r \in 0..(Alignment - 1) /\ m = q * Alignment + r
    BY <1>1, Quotient
  <1>3. q * Alignment \in Int /\ (q * Alignment) % Alignment = 0
    BY <1>2, Product
  <1>4. Aligned(n) = q * Alignment
    BY DEF Aligned
  <1> HIDE DEF q, r
  <1> QED
    BY <1>2, <1>3, <1>4, WorkspacePlannerAssumption

LEMMA SizeFacts ==
  ASSUME graph \in GraphSet, NEW t \in Tensors
  PROVE  /\ Size(t) \in Nat \ {0} /\ Size(t) % Alignment = 0
         /\ graph.bytes[t] <= MaxWord - (Alignment - 1) => Size(t) <= MaxWord
         /\ t \in Nat
  <1>1. graph.bytes[t] \in Nat /\ graph.bytes[t] >= 1 /\ t \in Nat
    BY WorkspacePlannerAssumption DEF IsGraph, Tensors
  <1>2. Size(t) \in Nat /\ Size(t) % Alignment = 0
    BY <1>1, AlignedFacts DEF Size
  <1>3. graph.bytes[t] <= Size(t) /\ Size(t) <= graph.bytes[t] + (Alignment - 1)
    BY <1>1, AlignedFacts DEF Size
  <1> QED
    BY <1>1, <1>2, <1>3, WorkspacePlannerAssumption

\* What the graph's sequences are.
LEMMA PlanGraphFacts ==
  ASSUME graph \in GraphSet
  PROVE  /\ NodeCount \in Nat /\ DOMAIN graph.outputs = 1..NodeCount
         /\ \A n \in 1..NodeCount :
              /\ Len(graph.outputs[n]) \in Nat
              /\ DOMAIN graph.outputs[n] = 1..Len(graph.outputs[n])
              /\ \A j \in DOMAIN graph.outputs[n] : graph.outputs[n][j] \in Tensors
  <1>1. graph.outputs \in Seq(Seq(Tensors))
    BY WorkspacePlannerAssumption DEF IsGraph, Tensors
  <1> QED
    BY <1>1 DEF NodeCount

\* A nonempty set of natural numbers has a least element.
LEMMA LeastExists ==
  ASSUME NEW S \in SUBSET Nat, S # {}
  PROVE  \E n \in S : \A m \in S : n <= m
  <1> DEFINE Smaller == OpToRel(<, Nat)
  <1>1. IsWellFoundedOn(Smaller, Nat)
    BY NatLessThanWellFounded
  <1>2. \A n, m \in Nat : n < m => <<n, m>> \in Smaller
    BY DEF OpToRel
  <1> HIDE DEF Smaller
  <1>3. PICK n \in S : \A m \in S : ~(<<m, n>> \in Smaller)
    BY <1>1, WFMin
  <1>4. \A m \in S : ~(m < n)
    BY <1>2, <1>3
  <1> QED
    BY <1>4

-----------------------------------------------------------------------------
(* add_free_block *)

\* The side of a block on which at most one free block touches it.
LEMMA OneNeighbour ==
  ASSUME NEW S \in SUBSET Blocks,
         \A b, c \in S : b = c
  PROVE  S = {} \/ \E b \in S : S = {b} /\ (CHOOSE c \in S : TRUE) = b
  OBVIOUS

\* The block and the blocks in gone become the block whole, which touches no other.
Merges(block, gone, whole) ==
  /\ whole.offset % Alignment = 0 /\ whole.size % Alignment = 0
  /\ EndOf(whole) = EndOf(block) \/ \E b \in gone : EndOf(whole) = EndOf(b)
  /\ \A x \in Nat : In(x, whole.offset, whole.size) <=>
       \/ In(x, block.offset, block.size)
       \/ \E b \in gone : In(x, b.offset, b.size)
  /\ \A b \in free \ gone : EndOf(b) < whole.offset \/ EndOf(whole) < b.offset

\* The block that is returned merges with the free blocks which touch it.
LEMMA FreedFacts ==
  ASSUME free \in SUBSET Blocks, FreeBlocksApart,
         NEW block \in Blocks, block.offset % Alignment = 0, block.size % Alignment = 0,
         \A b \in free : BlocksApart(b, block)
  PROVE  \E gone \in SUBSET free, whole \in Blocks :
           Freed(block) = (free \ gone) \cup {whole} /\ Merges(block, gone, whole)
  <1> DEFINE left == {b \in free : b.offset + b.size = block.offset}
             right == {b \in free : b.offset = block.offset + block.size}
             sizeOf(side) == IF side = {} THEN 0 ELSE (CHOOSE b \in side : TRUE).size
             whole == [offset |-> block.offset - sizeOf(left),
                       size |-> sizeOf(left) + block.size + sizeOf(right)]
  <1>1. left \in SUBSET Blocks /\ right \in SUBSET Blocks
    OBVIOUS
  <1>2. \A b, c \in left : b = c
    BY DEF FreeBlocksApart, BlocksApart, EndOf, Blocks
  <1>3. \A b, c \in right : b = c
    BY DEF FreeBlocksApart, BlocksApart, EndOf, Blocks
  <1>4. Freed(block) = (free \ (left \cup right)) \cup {whole}
    BY DEF Freed
  <1>5. left = {} \/ \E l \in left : left = {l} /\ sizeOf(left) = l.size
    BY <1>1, <1>2, OneNeighbour
  <1>6. right = {} \/ \E r \in right : right = {r} /\ sizeOf(right) = r.size
    BY <1>1, <1>3, OneNeighbour
  <1>7. /\ sizeOf(left) \in Nat /\ sizeOf(left) <= block.offset
        /\ sizeOf(left) % Alignment = 0
        /\ left # {} => \E l \in left : l.offset = block.offset - sizeOf(left)
                                        /\ l.size = sizeOf(left)
    <2>1. CASE left = {}
      BY <2>1, WorkspacePlannerAssumption DEF Blocks
    <2>2. CASE left # {}
      <3>1. PICK l \in left : sizeOf(left) = l.size
        BY <2>2, <1>5
      <3>2. /\ l \in Blocks /\ l.size % Alignment = 0
            /\ l.offset + l.size = block.offset
        BY DEF FreeBlocksApart
      <3> HIDE DEF left, sizeOf
      <3> QED
        BY <2>2, <3>1, <3>2 DEF Blocks
    <2> QED
      BY <2>1, <2>2
  <1>8. /\ sizeOf(right) \in Nat
        /\ sizeOf(right) % Alignment = 0
        /\ right # {} => \E r \in right : r.offset = block.offset + block.size
                                          /\ r.size = sizeOf(right)
    <2>1. CASE right = {}
      BY <2>1, WorkspacePlannerAssumption DEF Blocks
    <2>2. CASE right # {}
      <3>1. PICK r \in right : sizeOf(right) = r.size
        BY <2>2, <1>6
      <3>2. /\ r \in Blocks /\ r.size % Alignment = 0
            /\ r.offset = block.offset + block.size
        BY DEF FreeBlocksApart
      <3> HIDE DEF right, sizeOf
      <3> QED
        BY <2>2, <3>1, <3>2 DEF Blocks
    <2> QED
      BY <2>1, <2>2
  <1>9. (left = {} => sizeOf(left) = 0) /\ (right = {} => sizeOf(right) = 0)
    OBVIOUS
  <1>10. ASSUME NEW b \in free
         PROVE  /\ b \in Blocks
                /\ b \in left <=> EndOf(b) = block.offset
                /\ b \in right <=> b.offset = EndOf(block)
    BY DEF EndOf
  <1>11. /\ whole.offset = block.offset - sizeOf(left)
         /\ whole.size = sizeOf(left) + block.size + sizeOf(right)
    OBVIOUS
  <1>12. left \subseteq free /\ right \subseteq free
    OBVIOUS
  <1> HIDE DEF left, right, sizeOf, whole
  <1>13. whole \in Blocks
    <2>1. /\ block.offset - sizeOf(left) \in Nat
          /\ sizeOf(left) + block.size + sizeOf(right) \in Nat \ {0}
      BY <1>7, <1>8 DEF Blocks
    <2> QED
      BY <2>1 DEF Blocks, whole
  <1>14. whole.offset % Alignment = 0 /\ whole.size % Alignment = 0
    <2>1. /\ block.offset \in Int /\ block.size \in Int
          /\ sizeOf(left) \in Int /\ sizeOf(right) \in Int
      BY <1>7, <1>8 DEF Blocks
    <2>2. /\ sizeOf(left) % Alignment = 0 /\ sizeOf(right) % Alignment = 0
          /\ block.offset % Alignment = 0 /\ block.size % Alignment = 0
      BY <1>7, <1>8
    <2>3. (block.offset - sizeOf(left)) % Alignment = 0
      BY <2>1, <2>2, MultiplesAdd, Zenon
    <2>4. (sizeOf(left) + block.size) % Alignment = 0
      BY <2>1, <2>2, MultiplesAdd, Zenon
    <2>5. sizeOf(left) + block.size \in Int
      BY <2>1
    <2>6. (sizeOf(left) + block.size + sizeOf(right)) % Alignment = 0
      BY <2>1, <2>2, <2>4, <2>5, MultiplesAdd, Zenon
    <2> QED
      BY <1>11, <2>3, <2>6
  <1>15. EndOf(whole) = EndOf(block) + sizeOf(right)
    BY <1>7, <1>8, <1>11 DEF EndOf, Blocks
  <1>16. EndOf(whole) = EndOf(block) \/ \E b \in left \cup right : EndOf(whole) = EndOf(b)
    <2>1. CASE right = {}
      BY <1>9, <1>15, <2>1 DEF EndOf, Blocks
    <2>2. CASE right # {}
      BY <1>8, <1>15, <2>2 DEF EndOf, Blocks
    <2> QED
      BY <2>1, <2>2
  <1>17. ASSUME NEW x \in Nat
         PROVE  In(x, whole.offset, whole.size) <=>
                  \/ In(x, block.offset, block.size)
                  \/ \E b \in left \cup right : In(x, b.offset, b.size)
    <2>1. (\E b \in left : In(x, b.offset, b.size)) <=>
            block.offset - sizeOf(left) <= x /\ x < block.offset
      <3>1. CASE left = {}
        BY <1>9, <3>1 DEF Blocks
      <3>2. CASE left # {}
        <4>1. PICK l \in left : l.offset = block.offset - sizeOf(left) /\ l.size = sizeOf(left)
          BY <1>7, <3>2
        <4>2. l.offset + l.size = block.offset
          BY <1>10, <1>12, <4>1 DEF EndOf
        <4>3. \A b \in left : b = l
          BY <1>2
        <4> QED
          BY <4>1, <4>2, <4>3 DEF In
      <3> QED
        BY <3>1, <3>2
    <2>2. (\E b \in right : In(x, b.offset, b.size)) <=>
            EndOf(block) <= x /\ x < EndOf(block) + sizeOf(right)
      <3>1. CASE right = {}
        BY <1>9, <3>1 DEF Blocks, EndOf
      <3>2. CASE right # {}
        <4>1. PICK k \in right : k.offset = EndOf(block) /\ k.size = sizeOf(right)
          BY <1>8, <3>2 DEF EndOf
        <4>2. \A b \in right : b = k
          BY <1>3
        <4> QED
          BY <4>1, <4>2 DEF In
      <3> QED
        BY <3>1, <3>2
    <2>3. block.offset \in Nat /\ block.size \in Nat \ {0} /\ EndOf(block) = block.offset + block.size
      BY DEF Blocks, EndOf
    <2>4. In(x, whole.offset, whole.size) <=>
            block.offset - sizeOf(left) <= x /\ x < EndOf(block) + sizeOf(right)
      BY <1>7, <1>8, <1>11, <2>3 DEF In
    <2>5. In(x, block.offset, block.size) <=> block.offset <= x /\ x < EndOf(block)
      BY <2>3 DEF In
    <2> QED
      BY <1>7, <1>8, <2>1, <2>2, <2>3, <2>4, <2>5
  <1>18. ASSUME NEW b \in free \ (left \cup right)
         PROVE  EndOf(b) < whole.offset \/ EndOf(whole) < b.offset
    <2>1. /\ b.offset \in Nat /\ b.size \in Nat \ {0} /\ EndOf(b) = b.offset + b.size
          /\ block.offset \in Nat /\ block.size \in Nat \ {0}
          /\ EndOf(block) = block.offset + block.size
      BY <1>10 DEF Blocks, EndOf
    <2>2. EndOf(b) < block.offset \/ EndOf(block) < b.offset
      BY <1>10, <2>1 DEF BlocksApart
    <2>3. EndOf(b) < block.offset => EndOf(b) < whole.offset
      <3>1. CASE left = {}
        BY <1>9, <1>11, <2>1, <3>1
      <3>2. CASE left # {}
        <4>1. PICK l \in left : l.offset = block.offset - sizeOf(left) /\ l.size = sizeOf(left)
          BY <1>7, <3>2
        <4>2. l \in free /\ l # b /\ EndOf(l) = block.offset /\ l \in Blocks
          BY <1>10, <1>12, <4>1
        <4>3. (EndOf(b) <= l.offset \/ EndOf(l) <= b.offset) /\ EndOf(b) # l.offset
          BY <4>2 DEF FreeBlocksApart, BlocksApart
        <4>4. l.offset \in Nat /\ whole.offset = l.offset
          BY <1>11, <4>1, <4>2 DEF Blocks
        <4> QED
          BY <2>1, <4>2, <4>3, <4>4
      <3> QED
        BY <3>1, <3>2
    <2>4. EndOf(block) < b.offset => EndOf(whole) < b.offset
      <3>1. CASE right = {}
        BY <1>9, <1>15, <2>1, <3>1
      <3>2. CASE right # {}
        <4>1. PICK k \in right : k.offset = EndOf(block) /\ k.size = sizeOf(right)
          BY <1>8, <3>2 DEF EndOf
        <4>2. k \in free /\ k # b /\ k \in Blocks
          BY <1>10, <1>12, <4>1
        <4>3. (EndOf(b) <= k.offset \/ EndOf(k) <= b.offset) /\ EndOf(k) # b.offset
          BY <4>2 DEF FreeBlocksApart, BlocksApart
        <4>4. EndOf(k) = EndOf(whole)
          BY <1>15, <4>1 DEF EndOf
        <4>5. EndOf(k) \in Nat
          BY <4>2 DEF EndOf, Blocks
        <4> QED
          BY <2>1, <4>1, <4>3, <4>4, <4>5
      <3> QED
        BY <3>1, <3>2
    <2> QED
      BY <2>2, <2>3, <2>4
  <1>19. left \cup right \in SUBSET free
    BY <1>12
  <1>20. Merges(block, left \cup right, whole)
    BY <1>14, <1>16, <1>17, <1>18 DEF Merges
  <1> QED
    BY <1>4, <1>13, <1>19, <1>20, Zenon

-----------------------------------------------------------------------------
(* The graph stays the same *)

LEMMA PlanGraphFrame ==
  ASSUME graph' = graph
  PROVE  /\ Tensors' = Tensors /\ NodeCount' = NodeCount
         /\ ProducedTwice' <=> ProducedTwice
         /\ \A t \in Tensors : Size(t)' = Size(t)
         /\ \A n \in Nat : Before(n)' = Before(n)
         /\ \A t \in Tensors, n \in Nat : Needed(t, n)' <=> Needed(t, n)
  BY DEF Tensors, NodeCount, ProducedTwice, Size, Before, Produced, Needed, Uses

\* Steps that move no tensor, no block and no end.
LEMMA MapFrame ==
  ASSUME PlanIInv, UNCHANGED <<parameters, offset, live, free, end>>
  PROVE  /\ PairsApart' /\ PlacedWithin' /\ NoOverlap'
         /\ pc # "failed" => Tiling'
  <1>1. graph' = graph /\ limit' = limit
    BY DEF parameters
  <1>2. PairsApart' /\ PlacedWithin' /\ NoOverlap'
    BY <1>1 DEF PlanIInv, PairsApart, PlacedWithin, NoOverlap, Disjoint, Needed, Uses, Produced,
                NodeCount, Size
  <1>3. pc # "failed" => Tiling'
    BY <1>1 DEF PlanIInv, Tiling, FreeBlocksApart, BlocksApart, EndOf, Disjoint, In, Size
  <1> QED
    BY <1>2, <1>3

LEMMA PlanInitInvariant == PlannerInit => PlanIInv
  <1> SUFFICES ASSUME PlannerInit PROVE PlanIInv
    OBVIOUS
  <1> USE DEF PlannerInit
  <1>1. DOMAIN offset = {}
    OBVIOUS
  <1>2. PlanShape
    BY <1>1, WorkspacePlannerAssumption DEF PlanShape
  <1>3. Placement /\ PairsApart /\ PlacedWithin /\ NoOverlap
    BY <1>1 DEF Placement, PairsApart, PlacedWithin, NoOverlap
  <1>4. 0 % Alignment = 0
    BY Z3, WorkspacePlannerAssumption
  <1>5. Tiling
    BY <1>4, WorkspacePlannerAssumption DEF Tiling, FreeBlocksApart
  <1> QED
    BY <1>2, <1>3, <1>5 DEF PlanIInv

LEMMA LifetimesStep ==
  ASSUME PlanIInv, Lifetimes
  PROVE  PlanIInv'
  <1> USE DEF PlanIInv, Lifetimes, parameters
  <1>1. graph \in GraphSet /\ graph' = graph /\ limit' = limit
    BY DEF PlanShape
  <1>2. NodeCount \in Nat
    BY <1>1, PlanGraphFacts
  <1>3. DOMAIN offset = {} /\ node = 1
    BY DEF Placement
  <1>4. PlanShape'
    BY <1>1, <1>2, <1>3 DEF PlanShape, Tensors, NodeCount
  <1>5. Before(1)' = {} /\ Before(0 + 1)' = {}
    BY DEF Before
  <1>6. Placement'
    BY <1>1, <1>2, <1>3, <1>5, PlanGraphFrame DEF Placement, PlanShape
  <1> QED
    BY <1>4, <1>6, MapFrame

LEMMA ReleaseDoneStep ==
  ASSUME PlanIInv, ReleaseDone
  PROVE  PlanIInv'
  <1> USE DEF PlanIInv, ReleaseDone, parameters
  <1>1. graph \in GraphSet /\ graph' = graph /\ limit' = limit /\ node \in 1..NodeCount
        /\ node \in Nat
    BY DEF PlanShape
  <1>2. PlanShape'
    BY <1>1 DEF PlanShape, Tensors, NodeCount
  <1>3. Len(graph.outputs[node]) \in Nat
    BY <1>1, PlanGraphFacts
  <1>4. Placement'
    <2>1. DOMAIN offset = Before(node) /\ ~ProducedTwice /\ \A t \in DOMAIN offset : ~Expired(t) => t \in live
      BY DEF Placement
    <2>2. \A t \in DOMAIN offset : Expired(t)' <=> Expired(t)
      BY <1>1 DEF Expired, NodeCount, Uses, Produced
    <2>3. Before(node)' = Before(node) /\ ~ProducedTwice'
      BY <1>1, <2>1 DEF Before, Tensors, Produced, ProducedTwice, NodeCount
    <2>4. {graph.outputs[node][j] : j \in 1..(at - 1)}' = {}
      OBVIOUS
    <2> QED
      BY <1>1, <1>3, <2>1, <2>2, <2>3, <2>4 DEF Placement
  <1> QED
    BY <1>2, <1>4, MapFrame

LEMMA OverflowStep ==
  ASSUME PlanIInv, NEW t \in Tensors, Overflow(t)
  PROVE  PlanIInv'
  <1> USE DEF PlanIInv, Overflow, parameters
  <1>1. PlanShape' /\ Placement'
    BY DEF PlanShape, Placement, Tensors, NodeCount
  <1> QED
    BY <1>1, MapFrame

LEMMA NextNodeStep ==
  ASSUME PlanIInv, NextNode
  PROVE  PlanIInv'
  <1> USE DEF PlanIInv, NextNode, parameters
  <1>1. graph \in GraphSet /\ graph' = graph /\ limit' = limit /\ node \in 1..NodeCount
        /\ node \in Nat /\ at \in Nat
    BY DEF PlanShape
  <1>2. NodeCount \in Nat /\ NodeCount' = NodeCount
    BY <1>1, PlanGraphFacts DEF NodeCount
  <1>3. PlanShape'
    BY <1>1, <1>2 DEF PlanShape, Tensors
  <1>4. DOMAIN offset = Before(node + 1)
    <2>1. Len(graph.outputs[node]) \in Nat /\ DOMAIN graph.outputs[node] = 1..Len(graph.outputs[node])
          /\ \A j \in DOMAIN graph.outputs[node] : graph.outputs[node][j] \in Tensors
      BY <1>1, PlanGraphFacts
    <2>2. DOMAIN offset = Before(node) \cup {graph.outputs[node][j] : j \in 1..(at - 1)}
          /\ at = Len(graph.outputs[node]) + 1
      BY <1>1, <2>1 DEF Placement
    <2>3. {graph.outputs[node][j] : j \in 1..(at - 1)} = Produced(node)
      BY <2>1, <2>2 DEF Produced
    <2>4. Produced(node) \subseteq Tensors
      BY <2>1 DEF Produced
    <2>5. Before(node + 1) = Before(node) \cup Produced(node)
      <3>1. \A m \in Int : m \in 1..(node + 1 - 1) <=> m \in 1..(node - 1) \/ m = node
        BY <1>1
      <3> QED
        BY <1>1, <2>4, <3>1 DEF Before
    <2> QED
      BY <2>2, <2>3, <2>5
  <1>5. \A t \in DOMAIN offset : ~Expired(t)' => ~Expired(t)
    BY <1>1, <1>2 DEF Expired, Uses, Produced
  <1>6. Placement'
    <2>1. ~ProducedTwice' /\ \A n \in Nat : Before(n)' = Before(n)
      BY <1>1, PlanGraphFrame DEF Placement
    <2>2. \A t \in DOMAIN offset : ~Expired(t) => t \in live
      BY DEF Placement
    <2>3. CASE node = NodeCount
      BY <1>1, <1>2, <1>4, <2>1, <2>3 DEF Placement
    <2>4. CASE node # NodeCount
      BY <1>1, <1>2, <1>4, <1>5, <2>1, <2>2, <2>4 DEF Placement
    <2> QED
      BY <2>3, <2>4
  <1> QED
    BY <1>3, <1>6, MapFrame

-----------------------------------------------------------------------------
(* Release *)

\* The range of the released tensor merges with the free blocks next to it.
LEMMA ReleaseMerges ==
  ASSUME PlanIInv, NEW t \in Tensors, Release(t)
  PROVE  \E gone \in SUBSET free, whole \in Blocks :
           /\ free' = (free \ gone) \cup {whole}
           /\ Merges([offset |-> offset[t], size |-> Size(t)], gone, whole)
  <1> USE DEF PlanIInv, Release, parameters
  <1>1. /\ graph \in GraphSet /\ graph' = graph /\ limit' = limit /\ end' = end
        /\ offset' = offset /\ pc = "release" /\ pc' = pc /\ node' = node /\ at' = at
        /\ live' = live \ {t} /\ t \in live /\ live \subseteq DOMAIN offset
        /\ free \in SUBSET Blocks /\ end \in Nat
    BY DEF PlanShape
  <1> DEFINE block == [offset |-> offset[t], size |-> Size(t)]
  <1>2. /\ \A u \in live : offset[u] \in Nat /\ Size(u) \in Nat \ {0} /\ Size(u)' = Size(u)
        /\ \A u \in live : offset[u] % Alignment = 0 /\ Size(u) % Alignment = 0
                           /\ offset[u] + Size(u) <= end
    <2>1. \A u \in live : u \in Tensors /\ offset[u] \in Nat
      BY DEF PlanShape
    <2>2. \A u \in live : /\ Size(u) \in Nat \ {0} /\ Size(u)' = Size(u)
                          /\ Size(u) % Alignment = 0
      BY <1>1, <2>1, SizeFacts, PlanGraphFrame
    <2> QED
      BY <1>1, <2>1, <2>2 DEF PlacedWithin
  <1>3. Tiling
    BY <1>1
  <1>4. block \in Blocks /\ block.offset = offset[t] /\ block.size = Size(t)
    BY <1>1, <1>2 DEF Blocks
  <1>5. /\ block.offset % Alignment = 0 /\ block.size % Alignment = 0
        /\ \A b \in free : BlocksApart(b, block)
    BY <1>1, <1>2, <1>3, <1>4 DEF Tiling, Disjoint, BlocksApart, EndOf
  <1>6. free' = Freed(block)
    OBVIOUS
  <1> HIDE DEF block
  <1>7. FreeBlocksApart
    BY <1>3 DEF Tiling
  <1>8. \E gone \in SUBSET free, whole \in Blocks :
          Freed(block) = (free \ gone) \cup {whole} /\ Merges(block, gone, whole)
    BY <1>1, <1>4, <1>5, <1>7, FreedFacts, Zenon
  <1>9. \E gone \in SUBSET free, whole \in Blocks :
          free' = (free \ gone) \cup {whole} /\ Merges(block, gone, whole)
    BY <1>6, <1>8, Zenon
  <1> QED
    BY <1>9 DEF block

LEMMA ReleaseStep ==
  ASSUME PlanIInv, NEW t \in Tensors, Release(t)
  PROVE  PlanIInv'
  <1> USE DEF PlanIInv, Release, parameters
  <1>1. /\ graph \in GraphSet /\ graph' = graph /\ limit' = limit /\ end' = end
        /\ offset' = offset /\ pc = "release" /\ pc' = pc /\ node' = node /\ at' = at
        /\ live' = live \ {t} /\ t \in live /\ live \subseteq DOMAIN offset
        /\ free \in SUBSET Blocks /\ end \in Nat
    BY DEF PlanShape
  <1> DEFINE block == [offset |-> offset[t], size |-> Size(t)]
  <1>2. /\ \A u \in live : offset[u] \in Nat /\ Size(u) \in Nat \ {0} /\ Size(u)' = Size(u)
        /\ \A u \in live : offset[u] % Alignment = 0 /\ Size(u) % Alignment = 0
                           /\ offset[u] + Size(u) <= end
    <2>1. \A u \in live : u \in Tensors /\ offset[u] \in Nat
      BY DEF PlanShape
    <2>2. \A u \in live : /\ Size(u) \in Nat \ {0} /\ Size(u)' = Size(u)
                          /\ Size(u) % Alignment = 0
      BY <1>1, <2>1, SizeFacts, PlanGraphFrame
    <2> QED
      BY <1>1, <2>1, <2>2 DEF PlacedWithin
  <1>3. Tiling
    BY <1>1
  <1>4. block \in Blocks /\ block.offset = offset[t] /\ block.size = Size(t)
    BY <1>1, <1>2 DEF Blocks
  <1> HIDE DEF block
  <1>7. PICK gone \in SUBSET free, whole \in Blocks :
          free' = (free \ gone) \cup {whole} /\ Merges(block, gone, whole)
    BY ReleaseMerges, Zenon DEF block
  <1> USE DEF Merges
  <1>8. PlanShape'
    BY <1>1, <1>7 DEF PlanShape, Tensors, NodeCount
  <1>9. Placement'
    BY <1>1 DEF Placement, Before, Expired, Uses, Produced, Tensors, NodeCount, ProducedTwice
  <1>10. PairsApart' /\ PlacedWithin'
    <2> HIDE DEF Release
    <2>1. PairsApart'
      BY <1>1 DEF PairsApart, Disjoint, Needed, Uses, Produced, NodeCount, Size
    <2>2. PlacedWithin'
      BY <1>1 DEF PlacedWithin, Size
    <2> QED
      BY <2>1, <2>2
  <1>11. NoOverlap'
    BY <1>1 DEF NoOverlap, Disjoint, Size
  <1>12. EndOf(whole) <= end
    BY <1>1, <1>2, <1>3, <1>4, <1>7 DEF Tiling, FreeBlocksApart, EndOf
  <1>13. FreeBlocksApart'
    <2>1. \A b \in free' : b.offset % Alignment = 0 /\ b.size % Alignment = 0 /\ EndOf(b) <= end'
      BY <1>1, <1>3, <1>7, <1>12 DEF Tiling, FreeBlocksApart
    <2>2. ASSUME NEW b \in free', NEW c \in free'
          PROVE  (b = c \/ BlocksApart(b, c)) /\ EndOf(b) # c.offset
      <3>1. CASE b \in free /\ c \in free
        BY <1>3, <3>1 DEF Tiling, FreeBlocksApart
      <3>2. whole.offset \in Nat /\ EndOf(whole) \in Nat /\ EndOf(whole) > whole.offset
        BY DEF EndOf, Blocks
      <3>3. \A d \in free : d.offset \in Nat /\ EndOf(d) \in Nat /\ EndOf(d) > d.offset
        BY <1>1 DEF EndOf, Blocks
      <3>4. CASE b = whole /\ c = whole
        BY <3>2, <3>4
      <3>5. CASE b = whole /\ c \in free \ gone
        BY <1>7, <3>2, <3>3, <3>5 DEF BlocksApart
      <3>6. CASE c = whole /\ b \in free \ gone
        BY <1>7, <3>2, <3>3, <3>6 DEF BlocksApart
      <3> QED
        BY <1>7, <3>1, <3>4, <3>5, <3>6
    <2> QED
      BY <2>1, <2>2 DEF FreeBlocksApart, BlocksApart, EndOf
  <1>14. ASSUME NEW b \in free', NEW u \in live'
         PROVE  Disjoint(b.offset, b.size, offset[u], Size(u))
    <2>1. u \in live /\ u # t
      BY <1>1
    <2>2. CASE b \in free
      BY <1>3, <2>1, <2>2 DEF Tiling
    <2>3. CASE b = whole
      <3>1. /\ offset[u] \in Nat /\ Size(u) \in Nat \ {0}
            /\ offset[u] + Size(u) - 1 \in Nat
        BY <1>2, <2>1
      <3>2. ASSUME NEW x \in Nat, In(x, whole.offset, whole.size)
            PROVE  ~In(x, offset[u], Size(u))
        <4>1. CASE In(x, block.offset, block.size)
          <5>1. Disjoint(offset[t], Size(t), offset[u], Size(u))
            BY <1>1, <2>1 DEF NoOverlap
          <5> QED
            BY <1>1, <1>2, <1>4, <2>1, <4>1, <5>1 DEF In, Disjoint
        <4>2. ASSUME NEW d \in gone, In(x, d.offset, d.size)
              PROVE  ~In(x, offset[u], Size(u))
          <5>1. Disjoint(d.offset, d.size, offset[u], Size(u)) /\ d \in Blocks
            BY <1>1, <1>3, <2>1 DEF Tiling
          <5> QED
            BY <3>1, <4>2, <5>1 DEF In, Disjoint, Blocks
        <4> QED
          BY <1>7, <3>2, <4>1, <4>2
      <3>3. whole.offset \in Nat /\ whole.size \in Nat \ {0}
        BY DEF Blocks
      <3>4. \/ whole.offset + whole.size <= offset[u] \/ offset[u] + Size(u) <= whole.offset
            \/ In(whole.offset, whole.offset, whole.size) /\ In(whole.offset, offset[u], Size(u))
            \/ In(offset[u], whole.offset, whole.size) /\ In(offset[u], offset[u], Size(u))
        BY <3>1, <3>3 DEF In
      <3> QED
        BY <2>3, <3>1, <3>2, <3>3, <3>4 DEF Disjoint
    <2> QED
      BY <1>7, <2>2, <2>3
  <1>15. ASSUME NEW x \in 0..(end - 1)
         PROVE  \/ \E u \in live' : In(x, offset[u], Size(u))
                \/ \E b \in free' : In(x, b.offset, b.size)
    <2>1. x \in Nat
      BY <1>1
    <2>2. CASE In(x, whole.offset, whole.size)
      BY <1>7, <2>2
    <2>3. CASE ~In(x, whole.offset, whole.size)
      <3>1. ~In(x, offset[t], Size(t)) /\ \A b \in gone : ~In(x, b.offset, b.size)
        BY <1>4, <1>7, <2>1, <2>3
      <3>2. \/ \E u \in live : In(x, offset[u], Size(u))
            \/ \E b \in free : In(x, b.offset, b.size)
        BY <1>3 DEF Tiling
      <3> QED
        BY <1>1, <1>7, <3>1, <3>2
    <2> QED
      BY <2>2, <2>3
  <1>16. Tiling'
    <2>1. end' <= limit' /\ end' % Alignment = 0
      BY <1>1, <1>3 DEF Tiling
    <2>2. \A b \in free', u \in live' : Disjoint(b.offset, b.size, offset[u], Size(u))'
      BY <1>1, <1>2, <1>14 DEF Disjoint
    <2>3. \A x \in 0..(end' - 1) : \/ \E u \in live' : In(x, offset[u], Size(u))'
                                   \/ \E b \in free' : In(x, b.offset, b.size)'
      BY <1>1, <1>2, <1>15 DEF In
    <2> QED
      BY <1>13, <2>1, <2>2, <2>3 DEF Tiling
  <1> QED
    BY <1>8, <1>9, <1>10, <1>11, <1>16

-----------------------------------------------------------------------------
(* Allocate *)

\* What holds of the output t whose turn it is.
TurnOf(t) ==
  /\ pc = "allocate" /\ at <= Len(graph.outputs[node])
  /\ t = graph.outputs[node][at]

\* No other node, and no earlier output of this node, is t.
LEMMA TurnFacts ==
  ASSUME PlanIInv, NEW t \in Tensors, TurnOf(t)
  PROVE  /\ t \notin DOMAIN offset
         /\ t \in Produced(node)
         /\ \A m \in 1..NodeCount : t \in Produced(m) => m = node
         /\ \A u \in DOMAIN offset : ~Expired(u) => u \in live
  <1>1. graph \in GraphSet /\ node \in 1..NodeCount /\ at \in Nat \ {0}
    BY DEF PlanIInv, PlanShape, TurnOf
  <1>2. /\ NodeCount \in Nat
        /\ Len(graph.outputs[node]) \in Nat
        /\ DOMAIN graph.outputs[node] = 1..Len(graph.outputs[node])
    BY <1>1, PlanGraphFacts
  <1>3. at \in DOMAIN graph.outputs[node]
    BY <1>1, <1>2 DEF TurnOf
  <1>4. ASSUME NEW m \in 1..NodeCount, NEW k \in DOMAIN graph.outputs[m],
               graph.outputs[m][k] = t
        PROVE  m = node /\ k = at
    <2>1. ~ProducedTwice
      BY DEF PlanIInv, Placement, TurnOf
    <2> QED
      BY <1>1, <1>3, <1>4, <2>1 DEF ProducedTwice, TurnOf
  <1>5. \A m \in 1..NodeCount : t \in Produced(m) => m = node
    BY <1>4 DEF Produced
  <1>6. t \in Produced(node)
    BY <1>3 DEF Produced, TurnOf
  <1>7. t \notin Before(node)
    <2>1. \A m \in 1..(node - 1) : m \in 1..NodeCount /\ m # node
      BY <1>1, <1>2
    <2> QED
      BY <1>5, <2>1 DEF Before
  <1>8. t \notin {graph.outputs[node][j] : j \in 1..(at - 1)}
    <2>1. \A j \in 1..(at - 1) : j \in DOMAIN graph.outputs[node] /\ j # at
      BY <1>1, <1>2, <1>3
    <2> QED
      BY <1>1, <1>4, <2>1
  <1> QED
    BY <1>5, <1>6, <1>7, <1>8 DEF PlanIInv, Placement, TurnOf

\* The tensor is placed where nothing live is: all that does not speak of free blocks.
LEMMA PlaceFacts ==
  ASSUME PlanIInv, NEW t \in Tensors, TurnOf(t), parameters' = parameters, node' = node,
         pc' = pc, at' = at + 1, live' = live \cup {t},
         NEW p \in Nat, p % Alignment = 0,
         offset' = [u \in DOMAIN offset \cup {t} |-> IF u = t THEN p ELSE offset[u]],
         free' \in SUBSET Blocks, end' \in end..MaxWord, p + Size(t) <= end',
         \A u \in live : Disjoint(p, Size(t), offset[u], Size(u))
  PROVE  PlanShape' /\ Placement' /\ PairsApart' /\ PlacedWithin' /\ NoOverlap'
  <1>1. /\ graph \in GraphSet /\ graph' = graph /\ limit' = limit
        /\ node \in 1..NodeCount /\ node \in Nat /\ at \in Nat \ {0}
        /\ offset \in [DOMAIN offset -> Nat] /\ DOMAIN offset \subseteq Tensors
        /\ live \subseteq DOMAIN offset /\ end \in Nat /\ end' \in Nat
        /\ pc = "allocate"
    BY DEF PlanIInv, PlanShape, parameters, TurnOf
  <1>2. /\ t \notin DOMAIN offset /\ t \in Produced(node)
        /\ \A m \in 1..NodeCount : t \in Produced(m) => m = node
        /\ \A u \in DOMAIN offset : ~Expired(u) => u \in live
    BY TurnFacts
  <1>3. /\ NodeCount \in Nat /\ Len(graph.outputs[node]) \in Nat
        /\ NodeCount' = NodeCount /\ Tensors' = Tensors
        /\ \A u \in Tensors : Size(u) \in Nat \ {0} /\ Size(u)' = Size(u)
    BY <1>1, PlanGraphFacts, PlanGraphFrame, SizeFacts
  <1>4. /\ DOMAIN offset' = DOMAIN offset \cup {t} /\ offset'[t] = p
        /\ \A u \in DOMAIN offset : offset'[u] = offset[u]
    BY <1>2
  <1>5. PlanShape'
    <2>1. offset' \in [DOMAIN offset' -> Nat]
      BY <1>1
    <2> QED
      BY <1>1, <1>3, <1>4, <2>1 DEF PlanIInv, PlanShape
  <1>6. Placement'
    <2>1. ~ProducedTwice' /\ Before(node)' = Before(node)
      BY <1>1, PlanGraphFrame DEF PlanIInv, Placement
    <2>2. /\ at <= Len(graph.outputs[node])
          /\ DOMAIN offset = Before(node) \cup {graph.outputs[node][j] : j \in 1..(at - 1)}
          /\ t = graph.outputs[node][at]
      BY <1>1 DEF PlanIInv, Placement, TurnOf
    <2>3. {graph.outputs[node][j] : j \in 1..(at' - 1)}
            = {graph.outputs[node][j] : j \in 1..(at - 1)} \cup {t}
      <3>1. /\ \A j \in 1..(at' - 1) : j \in 1..(at - 1) \/ j = at
            /\ \A j \in 1..(at - 1) : j \in 1..(at' - 1)
            /\ at \in 1..(at' - 1)
        BY <1>1
      <3> QED
        BY <2>2, <3>1, Zenon
    <2>4. \A u \in DOMAIN offset : Expired(u)' <=> Expired(u)
      BY <1>1 DEF Expired, NodeCount, Uses, Produced
    <2>5. \A u \in DOMAIN offset' : ~Expired(u)' => u \in live'
      BY <1>2, <1>4, <2>4
    <2>6. DOMAIN offset' = Before(node)' \cup {graph'.outputs[node'][j] : j \in 1..(at' - 1)}
      <3>1. /\ DOMAIN offset' = DOMAIN offset \cup {t}
            /\ graph'.outputs[node'] = graph.outputs[node]
            /\ Before(node') = Before(node)
            /\ Before(node)' = Before(node)
        BY <1>1, <1>4, <2>1
      <3>2. DOMAIN offset' = Before(node) \cup {graph.outputs[node][j] : j \in 1..(at' - 1)}
        BY <2>2, <2>3, <3>1, Zenon
      <3>3. Before(node)' = Before(node) /\ node' = node
        BY <3>1
      <3> QED
        BY <3>1, <3>2, <3>3
    <2>7. at' <= Len(graph'.outputs[node']) + 1
      BY <1>1, <1>3, <2>2
    <2> QED
      BY <1>1, <2>1, <2>5, <2>6, <2>7 DEF Placement
  <1>7. \A u \in live : u # t /\ offset[u] \in Nat /\ Size(u) \in Nat /\ u \in Tensors
    BY <1>1, <1>2, <1>3
  <1>8. ASSUME NEW u \in DOMAIN offset, NEW n \in 1..NodeCount, Needed(t, n), Needed(u, n)
        PROVE  u \in live
    <2>1. n >= node /\ n \in Nat
      <3>1. t \in Produced(node) /\ node \in Nat /\ n \in Nat
        BY <1>1, <1>2, <1>3
      <3>2. \E m \in 1..n : t \in Produced(m)
        BY <1>8 DEF Needed
      <3> QED
        BY <1>2, <1>3, <3>1, <3>2
    <2>2. \A m \in n..NodeCount : m \in node..NodeCount
      BY <1>1, <1>3, <2>1
    <2>3. ~Expired(u)
      BY <1>8, <2>2 DEF Needed, Expired
    <2> QED
      BY <1>2, <2>3
  <1>9. PairsApart'
    <2>1. ASSUME NEW u \in DOMAIN offset', NEW v \in DOMAIN offset', NEW n \in 1..NodeCount,
                 u # v, Needed(u, n), Needed(v, n)
          PROVE  Disjoint(offset'[u], Size(u), offset'[v], Size(v))
      <3>1. CASE u \in DOMAIN offset /\ v \in DOMAIN offset
        BY <1>4, <2>1, <3>1 DEF PlanIInv, PairsApart
      <3>2. CASE u = t /\ v \in DOMAIN offset
        BY <1>4, <1>8, <2>1, <3>2
      <3>3. CASE v = t /\ u \in DOMAIN offset
        <4>1. u \in live /\ Disjoint(p, Size(t), offset[u], Size(u))
          BY <1>8, <2>1, <3>3
        <4> QED
          BY <1>4, <3>3, <4>1 DEF Disjoint
      <3> QED
        BY <1>4, <2>1, <3>1, <3>2, <3>3
    <2>2. \A u \in Tensors, n \in Nat : Needed(u, n)' <=> Needed(u, n)
      BY <1>1, PlanGraphFrame
    <2>3. DOMAIN offset' \subseteq Tensors /\ \A n \in 1..NodeCount : n \in Nat
      BY <1>1, <1>3, <1>4
    <2>4. ASSUME NEW u \in DOMAIN offset', NEW v \in DOMAIN offset', NEW n \in 1..NodeCount'
          PROVE  (u # v /\ Needed(u, n) /\ Needed(v, n)
                  => Disjoint(offset[u], Size(u), offset[v], Size(v)))'
      BY <1>3, <2>1, <2>2, <2>3 DEF Disjoint
    <2> QED
      BY <2>4 DEF PairsApart
  <1>10. PlacedWithin'
    <2>1. ASSUME NEW u \in DOMAIN offset'
          PROVE  offset'[u] % Alignment = 0 /\ offset'[u] + Size(u) <= end'
      <3>1. CASE u \in DOMAIN offset
        <4>1. /\ offset[u] % Alignment = 0 /\ offset[u] + Size(u) <= end
              /\ offset[u] \in Nat /\ Size(u) \in Nat
          BY <1>1, <1>3, <3>1 DEF PlanIInv, PlacedWithin
        <4> QED
          BY <1>1, <1>4, <3>1, <4>1
      <3>2. CASE u = t
        BY <1>4, <3>2
      <3> QED
        BY <1>4, <3>1, <3>2
    <2> QED
      BY <1>1, <1>3, <1>4, <2>1 DEF PlacedWithin
  <1>11. NoOverlap'
    <2>1. ASSUME NEW u \in live', NEW v \in live', u # v
          PROVE  Disjoint(offset'[u], Size(u), offset'[v], Size(v))
      <3>1. CASE u \in live /\ v \in live
        BY <1>1, <1>4, <2>1, <3>1 DEF PlanIInv, NoOverlap
      <3>2. CASE u = t /\ v \in live
        BY <1>1, <1>4, <3>2
      <3>3. CASE v = t /\ u \in live
        <4>1. Disjoint(p, Size(t), offset[u], Size(u)) /\ offset'[u] = offset[u]
          BY <1>1, <1>4, <3>3
        <4> QED
          BY <1>4, <3>3, <4>1 DEF Disjoint
      <3> QED
        BY <2>1, <3>1, <3>2, <3>3
    <2>2. \A u \in live' : Size(u)' = Size(u)
      BY <1>1, <1>3
    <2> QED
      BY <2>1, <2>2 DEF NoOverlap, Disjoint
  <1> QED
    BY <1>5, <1>6, <1>9, <1>10, <1>11

\* There is a first block that fits.
LEMMA ChosenFits ==
  ASSUME free \in SUBSET Blocks, NEW size, Fitting(size) # {}
  PROVE  (CHOOSE b \in Fitting(size) : \A c \in Fitting(size) : b.offset <= c.offset)
           \in Fitting(size)
  <1> DEFINE starts == {b.offset : b \in Fitting(size)}
  <1>1. starts \in SUBSET Nat /\ starts # {}
    BY DEF Fitting, Blocks
  <1>2. \E n \in starts : \A m \in starts : n <= m
    <2> HIDE DEF starts
    <2> QED
      BY <1>1, LeastExists, Zenon
  <1>3. \E b \in Fitting(size) : \A c \in Fitting(size) : b.offset <= c.offset
    BY <1>2
  <1> QED
    BY <1>3

\* t takes the head of a free block.
LEMMA AllocateInBlock ==
  ASSUME PlanIInv, NEW t \in Tensors, Allocate(t), Fitting(Size(t)) # {}
  PROVE  PlanIInv'
  <1>1. /\ graph \in GraphSet /\ parameters' = parameters /\ graph' = graph /\ limit' = limit
        /\ node' = node /\ end' = end /\ end \in 0..MaxWord /\ end \in Nat /\ MaxWord \in Nat
        /\ free \in SUBSET Blocks /\ live \subseteq DOMAIN offset /\ DOMAIN offset \subseteq Tensors
        /\ offset \in [DOMAIN offset -> Nat]
        /\ TurnOf(t)
    BY WorkspacePlannerAssumption DEF PlanIInv, PlanShape, Allocate, parameters, TurnOf
  <1>2. Tiling /\ FreeBlocksApart
    BY <1>1 DEF PlanIInv, Tiling, TurnOf
  <1>3. /\ t \notin DOMAIN offset
        /\ \A u \in Tensors : /\ Size(u) \in Nat \ {0} /\ Size(u)' = Size(u)
                              /\ Size(u) % Alignment = 0
    BY <1>1, TurnFacts, SizeFacts, PlanGraphFrame
  <1> DEFINE block == CHOOSE b \in Fitting(Size(t)) :
                        \A c \in Fitting(Size(t)) : b.offset <= c.offset
             rest == [offset |-> block.offset + Size(t), size |-> block.size - Size(t)]
  <1>4. block \in free /\ block.size >= Size(t)
    <2>1. block \in Fitting(Size(t))
      BY <1>1, ChosenFits, Zenon
    <2> QED
      BY <2>1 DEF Fitting
  <1>5. /\ Place(t, block.offset, end)
        /\ free' = (free \ {block}) \cup {b \in {rest} : b.size > 0}
    BY DEF Allocate, Remainder
  <1>6. rest.offset = block.offset + Size(t) /\ rest.size = block.size - Size(t)
    OBVIOUS
  <1>7. block.offset \in Nat /\ block.size \in Nat \ {0} /\ EndOf(block) = block.offset + block.size
        /\ EndOf(block) <= end /\ block.offset % Alignment = 0 /\ block.size % Alignment = 0
    BY <1>1, <1>2, <1>4 DEF FreeBlocksApart, Blocks, EndOf
  <1>8. rest.size > 0 => rest \in Blocks
    BY <1>3, <1>4, <1>7 DEF Blocks
  <1> HIDE DEF block, rest
  <1>9. /\ pc' = pc /\ at' = at + 1 /\ live' = live \cup {t}
        /\ offset' = [u \in DOMAIN offset \cup {t} |-> IF u = t THEN block.offset ELSE offset[u]]
    <2>1. ~(end > limit)
      BY <1>1, <1>2, WorkspacePlannerAssumption DEF Tiling, PlanIInv, PlanShape
    <2> QED
      BY <1>5, <2>1 DEF Place
  <1>10. \A b \in free' : \/ b \in free \ {block}
                          \/ b = rest /\ rest.size > 0
    BY <1>5
  <1>11. \A u \in live : /\ Disjoint(block.offset, Size(t), offset[u], Size(u))
                         /\ Disjoint(block.offset, block.size, offset[u], Size(u))
                         /\ offset[u] \in Nat /\ Size(u) \in Nat \ {0} /\ u # t
    BY <1>1, <1>2, <1>3, <1>4, <1>7 DEF Tiling, Disjoint
  <1>12. block.offset + Size(t) <= end' /\ end' \in end..MaxWord /\ free' \in SUBSET Blocks
    BY <1>1, <1>3, <1>4, <1>7, <1>8, <1>10
  <1>13. PlanShape' /\ Placement' /\ PairsApart' /\ PlacedWithin' /\ NoOverlap'
    BY <1>1, <1>7, <1>9, <1>11, <1>12, PlaceFacts, Zenon
  <1>14. FreeBlocksApart'
    <2>1. rest.size > 0 => /\ rest.offset \in Nat /\ EndOf(rest) = EndOf(block)
                           /\ rest.offset > block.offset /\ rest.offset < EndOf(block)
      BY <1>3, <1>4, <1>6, <1>7 DEF EndOf
    <2>2. rest.offset % Alignment = 0 /\ rest.size % Alignment = 0
      <3>1. block.offset \in Int /\ block.size \in Int /\ Size(t) \in Int /\ Size(t) % Alignment = 0
        BY <1>3, <1>7
      <3>2. (block.offset + Size(t)) % Alignment = 0
        BY <1>7, <3>1, MultiplesAdd, Zenon
      <3>3. (block.size - Size(t)) % Alignment = 0
        BY <1>7, <3>1, MultiplesAdd, Zenon
      <3> QED
        BY <1>6, <3>2, <3>3
    <2>3. \A b \in free : /\ b.offset \in Nat /\ EndOf(b) \in Nat /\ b.offset < EndOf(b)
                          /\ b.offset % Alignment = 0 /\ b.size % Alignment = 0 /\ EndOf(b) <= end
      BY <1>1, <1>2 DEF FreeBlocksApart, EndOf, Blocks
    <2>4. \A b \in free' : b.offset % Alignment = 0 /\ b.size % Alignment = 0 /\ EndOf(b) <= end'
      BY <1>1, <1>7, <1>10, <2>1, <2>2, <2>3
    <2>5. ASSUME NEW b \in free', NEW c \in free'
          PROVE  (b = c \/ BlocksApart(b, c)) /\ EndOf(b) # c.offset
      <3>1. CASE b \in free \ {block} /\ c \in free \ {block}
        BY <1>2, <3>1 DEF FreeBlocksApart
      <3>2. CASE b = rest /\ rest.size > 0 /\ c \in free \ {block}
        <4>1. BlocksApart(block, c) /\ EndOf(block) # c.offset
          BY <1>2, <1>4, <3>2 DEF FreeBlocksApart
        <4> QED
          BY <1>7, <2>1, <2>3, <3>2, <4>1 DEF BlocksApart
      <3>3. CASE c = rest /\ rest.size > 0 /\ b \in free \ {block}
        <4>1. BlocksApart(b, block)
          BY <1>2, <1>4, <3>3 DEF FreeBlocksApart
        <4> QED
          BY <1>4, <1>7, <2>1, <2>3, <3>3, <4>1 DEF BlocksApart
      <3>4. CASE b = rest /\ c = rest /\ rest.size > 0
        BY <1>7, <2>1, <3>4
      <3> QED
        BY <1>10, <3>1, <3>2, <3>3, <3>4
    <2> QED
      BY <2>4, <2>5 DEF FreeBlocksApart, BlocksApart, EndOf
  <1>15. /\ \A u \in live : offset'[u] = offset[u]
         /\ offset'[t] = block.offset
    BY <1>1, <1>9, <1>11
  <1>16. ASSUME NEW b \in free', NEW u \in live'
         PROVE  Disjoint(b.offset, b.size, offset'[u], Size(u))
    <2>1. CASE u \in live /\ b \in free
      BY <1>2, <1>15, <2>1 DEF Tiling
    <2>2. CASE u \in live /\ b = rest /\ rest.size > 0
      BY <1>3, <1>4, <1>6, <1>7, <1>11, <1>15, <2>2 DEF Disjoint
    <2>3. CASE u = t /\ b \in free \ {block}
      <3>1. BlocksApart(b, block) /\ b \in Blocks
        BY <1>1, <1>2, <1>4, <2>3 DEF FreeBlocksApart
      <3> QED
        BY <1>3, <1>4, <1>7, <1>15, <2>3, <3>1 DEF BlocksApart, EndOf, Disjoint, Blocks
    <2>4. CASE u = t /\ b = rest
      BY <1>3, <1>6, <1>7, <1>15, <2>4 DEF Disjoint
    <2> QED
      BY <1>9, <1>10, <2>1, <2>2, <2>3, <2>4
  <1>17. ASSUME NEW x \in 0..(end - 1)
         PROVE  \/ \E u \in live' : In(x, offset'[u], Size(u))
                \/ \E b \in free' : In(x, b.offset, b.size)
    <2>1. x \in Nat
      BY <1>1
    <2>2. CASE \E u \in live : In(x, offset[u], Size(u))
      BY <1>9, <1>15, <2>2
    <2>3. CASE \E b \in free \ {block} : In(x, b.offset, b.size)
      BY <1>5, <2>3
    <2>4. CASE In(x, block.offset, block.size)
      <3>1. CASE x < block.offset + Size(t)
        BY <1>9, <1>15, <2>4, <3>1 DEF In
      <3>2. CASE ~(x < block.offset + Size(t))
        <4>1. In(x, rest.offset, rest.size) /\ rest.size > 0
          BY <1>3, <1>6, <1>7, <2>1, <2>4, <3>2 DEF In
        <4> QED
          BY <1>5, <4>1
      <3> QED
        BY <3>1, <3>2
    <2> QED
      BY <1>2, <2>2, <2>3, <2>4 DEF Tiling
  <1>18. Tiling'
    <2>1. end' <= limit' /\ end' % Alignment = 0
      BY <1>1, <1>2 DEF Tiling
    <2>2. \A u \in live' : Size(u)' = Size(u)
      BY <1>1, <1>3, <1>9
    <2>3. \A b \in free', u \in live' : Disjoint(b.offset, b.size, offset[u], Size(u))'
      BY <1>16, <2>2 DEF Disjoint
    <2>4. \A x \in 0..(end' - 1) : \/ \E u \in live' : In(x, offset[u], Size(u))'
                                   \/ \E b \in free' : In(x, b.offset, b.size)'
      BY <1>1, <1>17, <2>2 DEF In
    <2> QED
      BY <1>14, <2>1, <2>3, <2>4 DEF Tiling
  <1> QED
    BY <1>13, <1>18 DEF PlanIInv

\* The workspace grows by t, or more than it may.
LEMMA AllocateAtEnd ==
  ASSUME PlanIInv, NEW t \in Tensors, Allocate(t), Fitting(Size(t)) = {}
  PROVE  PlanIInv'
  <1>1. /\ graph \in GraphSet /\ parameters' = parameters /\ graph' = graph /\ limit' = limit
        /\ node' = node /\ end \in Nat /\ MaxWord \in Nat /\ free' = free
        /\ free \in SUBSET Blocks /\ live \subseteq DOMAIN offset /\ DOMAIN offset \subseteq Tensors
        /\ offset \in [DOMAIN offset -> Nat] /\ node \in Nat \ {0} /\ at \in Nat \ {0}
        /\ TurnOf(t)
    BY WorkspacePlannerAssumption DEF PlanIInv, PlanShape, Allocate, parameters, TurnOf
  <1>2. Tiling
    BY <1>1 DEF PlanIInv, TurnOf
  <1>3. /\ t \notin DOMAIN offset
        /\ \A u \in Tensors : /\ Size(u) \in Nat \ {0} /\ Size(u)' = Size(u)
                              /\ Size(u) % Alignment = 0
    BY <1>1, TurnFacts, SizeFacts, PlanGraphFrame
  <1>4. /\ end' = end + Size(t) /\ end' \in 0..MaxWord /\ end' > end /\ end' \in Nat
        /\ Place(t, end, end + Size(t))
    BY <1>1, <1>3 DEF Allocate, Growable
  <1>5. CASE end' > limit
    <2>1. pc' = "failed" /\ UNCHANGED <<at, offset, live>>
      BY <1>4, <1>5 DEF Place
    <2>2. PlanShape' /\ Placement'
      BY <1>1, <1>4, <2>1 DEF PlanIInv, PlanShape, Placement, Tensors, NodeCount
    <2>3. PairsApart'
      <3>1. /\ \A u \in Tensors, n \in Nat : Needed(u, n)' <=> Needed(u, n)
            /\ NodeCount' = NodeCount /\ \A n \in 1..NodeCount : n \in Nat
        BY <1>1, PlanGraphFrame
      <3>2. \A u \in DOMAIN offset : Size(u)' = Size(u)
        BY <1>1, <1>3
      <3> QED
        BY <1>1, <2>1, <3>1, <3>2 DEF PlanIInv, PairsApart, Disjoint
    <2>6. NoOverlap'
      BY <1>1, <2>1 DEF PlanIInv, NoOverlap, Disjoint, Size
    <2>4. \A u \in DOMAIN offset : offset[u] \in Nat /\ Size(u) \in Nat /\ Size(u)' = Size(u)
      BY <1>1, <1>3
    <2>5. PlacedWithin'
      BY <1>1, <1>4, <2>1, <2>4 DEF PlanIInv, PlacedWithin
    <2> QED
      BY <2>1, <2>2, <2>3, <2>5, <2>6 DEF PlanIInv
  <1>6. CASE ~(end' > limit)
    <2>1. /\ pc' = pc /\ at' = at + 1 /\ live' = live \cup {t}
          /\ offset' = [u \in DOMAIN offset \cup {t} |-> IF u = t THEN end ELSE offset[u]]
      BY <1>4, <1>6 DEF Place
    <2>2. \A u \in live : /\ offset[u] \in Nat /\ Size(u) \in Nat \ {0} /\ u # t
                          /\ offset[u] + Size(u) <= end
      BY <1>1, <1>3 DEF PlanIInv, PlacedWithin
    <2>3. \A u \in live : Disjoint(end, Size(t), offset[u], Size(u))
      BY <2>2 DEF Disjoint
    <2>4. end % Alignment = 0 /\ free' \in SUBSET Blocks /\ end' \in end..MaxWord
          /\ end + Size(t) <= end'
      BY <1>1, <1>2, <1>3, <1>4 DEF Tiling
    <2>5. PlanShape' /\ Placement' /\ PairsApart' /\ PlacedWithin' /\ NoOverlap'
      BY <1>1, <2>1, <2>3, <2>4, PlaceFacts, Zenon
    <2>6. /\ \A u \in live : offset'[u] = offset[u]
          /\ offset'[t] = end
      BY <1>1, <2>1, <2>2
    <2>7. \A b \in free : b.offset \in Nat /\ b.size \in Nat \ {0} /\ EndOf(b) <= end
                          /\ EndOf(b) = b.offset + b.size
      BY <1>1, <1>2 DEF Tiling, FreeBlocksApart, EndOf, Blocks
    <2>8. FreeBlocksApart'
      <3>1. \A b \in free : EndOf(b) <= end'
        BY <1>1, <1>4, <2>7
      <3> QED
        BY <1>1, <1>2, <3>1 DEF Tiling, FreeBlocksApart, BlocksApart, EndOf
    <2>9. ASSUME NEW b \in free', NEW u \in live'
          PROVE  Disjoint(b.offset, b.size, offset'[u], Size(u))
      <3>1. CASE u \in live
        BY <1>1, <1>2, <2>6, <3>1 DEF Tiling
      <3>2. CASE u = t
        BY <1>1, <2>6, <2>7, <3>2 DEF Disjoint
      <3> QED
        BY <2>1, <3>1, <3>2
    <2>10. ASSUME NEW x \in 0..(end' - 1)
           PROVE  \/ \E u \in live' : In(x, offset'[u], Size(u))
                  \/ \E b \in free' : In(x, b.offset, b.size)
      <3>1. CASE x < end
        <4>1. x \in 0..(end - 1)
          BY <1>1, <1>4, <3>1
        <4> QED
          BY <1>1, <1>2, <2>1, <2>6, <4>1 DEF Tiling
      <3>2. CASE ~(x < end)
        BY <1>1, <1>4, <2>1, <2>6, <3>2 DEF In
      <3> QED
        BY <3>1, <3>2
    <2>11. Tiling'
      <3>1. end' <= limit' /\ end' % Alignment = 0
        <4>1. end \in Int /\ Size(t) \in Int /\ Size(t) % Alignment = 0
          BY <1>1, <1>3
        <4>2. (end + Size(t)) % Alignment = 0
          BY <2>4, <4>1, MultiplesAdd, Zenon
        <4> QED
          BY <1>1, <1>4, <1>6, <4>2, WorkspacePlannerAssumption DEF PlanIInv, PlanShape
      <3>2. \A u \in live' : Size(u)' = Size(u)
        BY <1>1, <1>3, <2>1
      <3>3. \A b \in free', u \in live' : Disjoint(b.offset, b.size, offset[u], Size(u))'
        BY <2>9, <3>2 DEF Disjoint
      <3>4. \A x \in 0..(end' - 1) : \/ \E u \in live' : In(x, offset[u], Size(u))'
                                     \/ \E b \in free' : In(x, b.offset, b.size)'
        BY <2>10, <3>2 DEF In
      <3> QED
        BY <2>8, <3>1, <3>3, <3>4 DEF Tiling
    <2> QED
      BY <2>5, <2>11 DEF PlanIInv
  <1> QED
    BY <1>5, <1>6

LEMMA PlanStepInvariant == PlanIInv /\ [PlannerNext]_plannerVars => PlanIInv'
  <1> SUFFICES ASSUME PlanIInv, [PlannerNext]_plannerVars PROVE PlanIInv'
    OBVIOUS
  <1>1. CASE UNCHANGED plannerVars
    <2>1. PlanShape' /\ Placement'
      BY <1>1 DEF plannerVars, parameters, PlanIInv, PlanShape, Placement, Tensors, NodeCount, Before,
                  Produced, Expired, Uses, ProducedTwice
    <2>2. UNCHANGED <<parameters, offset, live, free, end>> /\ pc' = pc
      BY <1>1 DEF plannerVars, parameters
    <2> QED
      BY <2>1, <2>2, MapFrame DEF PlanIInv
  <1>2. CASE PlannerNext
    BY <1>2, LifetimesStep, ReleaseDoneStep, NextNodeStep, ReleaseStep, AllocateInBlock,
       AllocateAtEnd, OverflowStep DEF PlannerNext
  <1> QED
    BY <1>1, <1>2

LEMMA PlanInvariant == PlannerSpec => []PlanIInv
  BY PlanInitInvariant, PlanStepInvariant, PTL DEF PlannerSpec

-----------------------------------------------------------------------------
(* First fit *)

\* Until the node's first output is placed, the range of a tensor which the node
\* before used last lies in one free block.
JustFreed ==
  pc = "release" \/ (pc = "allocate" /\ at = 1) =>
    \A t \in DOMAIN offset \ live : Uses(t, node - 1) =>
      \E b \in free : b.offset <= offset[t] /\ offset[t] + Size(t) <= EndOf(b)

\* The first output u of node m may take the place of a tensor t which the node before
\* m still used; but then it starts at or before it.
StartsBefore(u, t, m) ==
  u = graph.outputs[m][1] /\ u \in Produced(m) /\ t \in Before(m) /\ Uses(t, m - 1)
    => Disjoint(offset[u], Size(u), offset[t], Size(t)) \/ offset[u] <= offset[t]

FirstFit == \A u, t \in DOMAIN offset : \A m \in 1..NodeCount : StartsBefore(u, t, m)

LEMMA OneProducer ==
  ASSUME graph \in GraphSet, ~ProducedTwice,
         NEW n \in 1..NodeCount, NEW m \in 1..NodeCount, NEW t, t \in Produced(n), t \in Produced(m)
  PROVE  n = m
  BY DEF ProducedTwice, Produced

LEMMA FitFrame ==
  ASSUME PlanIInv, graph' = graph, offset' = offset, FirstFit
  PROVE  FirstFit'
  <1>1. /\ Tensors' = Tensors /\ NodeCount' = NodeCount
        /\ \A n \in Nat : Before(n)' = Before(n)
        /\ \A t \in DOMAIN offset : Size(t)' = Size(t)
    BY PlanGraphFrame DEF PlanIInv, PlanShape
  <1>2. ASSUME NEW u \in DOMAIN offset, NEW t \in DOMAIN offset, NEW m \in 1..NodeCount
        PROVE  StartsBefore(u, t, m)'
    <2>1. m \in Nat
      BY <1>1
    <2>2. StartsBefore(u, t, m)
      BY DEF FirstFit
    <2> QED
      BY <1>1, <2>1, <2>2 DEF StartsBefore, Disjoint, Produced, Uses
  <1> QED
    BY <1>1, <1>2 DEF FirstFit

\* Returning a range to the list only enlarges the blocks.
LEMMA FreedStays ==
  ASSUME PlanIInv, JustFreed, NEW t \in Tensors, Release(t)
  PROVE  JustFreed'
  <1>1. /\ graph \in GraphSet /\ graph' = graph /\ offset' = offset /\ node' = node
        /\ pc = "release" /\ live' = live \ {t} /\ t \in live
        /\ live \subseteq DOMAIN offset /\ DOMAIN offset \subseteq Tensors
        /\ free \in SUBSET Blocks
        /\ \A u \in DOMAIN offset : offset[u] \in Nat
    BY DEF Release, parameters, PlanIInv, PlanShape
  <1>2. \A u \in DOMAIN offset : Size(u)' = Size(u) /\ Size(u) \in Nat \ {0}
    BY <1>1, PlanGraphFrame, SizeFacts
  <1>3. PICK gone \in SUBSET free, whole \in Blocks :
          /\ free' = (free \ gone) \cup {whole}
          /\ Merges([offset |-> offset[t], size |-> Size(t)], gone, whole)
    BY ReleaseMerges, Zenon
  <1> DEFINE Within(start, size, b) == b.offset <= start /\ start + size <= EndOf(b)
  <1>4. ASSUME NEW start \in Nat, NEW size \in Nat \ {0},
               \A x \in Nat : In(x, start, size) => In(x, whole.offset, whole.size)
        PROVE  Within(start, size, whole)
    <2>1. In(start, start, size) /\ In(start + size - 1, start, size) /\ start + size - 1 \in Nat
      BY DEF In
    <2>2. In(start, whole.offset, whole.size) /\ In(start + size - 1, whole.offset, whole.size)
      BY <1>4, <2>1
    <2> QED
      BY <2>2 DEF In, EndOf, Blocks
  <1>5. Within(offset[t], Size(t), whole)
    BY <1>1, <1>2, <1>3, <1>4 DEF Merges
  <1>6. ASSUME NEW b \in gone
        PROVE  Within(b.offset, b.size, whole)
    <2>1. b.offset \in Nat /\ b.size \in Nat \ {0}
      BY <1>1 DEF Blocks
    <2>2. \A x \in Nat : In(x, b.offset, b.size) => In(x, whole.offset, whole.size)
      BY <1>3 DEF Merges
    <2> QED
      BY <1>4, <2>1, <2>2
  <1>7. ASSUME NEW u \in DOMAIN offset \ live', Uses(u, node - 1)
        PROVE  \E b \in free' : Within(offset[u], Size(u), b)
    <2>1. CASE u = t
      BY <1>3, <1>5, <2>1
    <2>2. CASE u # t
      <3>1. PICK b \in free : Within(offset[u], Size(u), b)
        BY <1>1, <1>7, <2>2 DEF JustFreed
      <3>2. CASE b \in gone
        <4>1. Within(b.offset, b.size, whole) /\ b \in Blocks
          BY <1>1, <1>6, <3>2
        <4>2. Within(offset[u], Size(u), whole)
          BY <1>1, <1>2, <3>1, <4>1 DEF EndOf, Blocks
        <4> QED
          BY <1>3, <4>2
      <3> QED
        BY <1>3, <3>1, <3>2
    <2> QED
      BY <2>1, <2>2
  <1>8. \A u \in Tensors : Uses(u, node - 1)' <=> Uses(u, node - 1)
    BY <1>1 DEF Uses, Produced
  <1> QED
    BY <1>1, <1>2, <1>7, <1>8 DEF JustFreed, EndOf

\* The node's first output lands at the start of a free block: before what was freed
\* into that block, and apart from what lies in another one.
LEMMA PlacedFirstFit ==
  ASSUME PlanIInv, JustFreed, NEW t \in Tensors, Allocate(t), pc' # "failed",
         at = 1, NEW v \in DOMAIN offset, Uses(v, node - 1)
  PROVE  Disjoint(offset'[t], Size(t), offset[v], Size(v)) \/ offset'[t] <= offset[v]
  <1>1. /\ graph \in GraphSet /\ TurnOf(t) /\ pc = "allocate"
        /\ free \in SUBSET Blocks /\ live \subseteq DOMAIN offset
        /\ DOMAIN offset \subseteq Tensors /\ end \in Nat
        /\ \A u \in DOMAIN offset : offset[u] \in Nat
    BY DEF Allocate, TurnOf, PlanIInv, PlanShape
  <1>2. Tiling /\ FreeBlocksApart /\ PlacedWithin
    BY <1>1 DEF PlanIInv, Tiling
  <1>3. Size(t) \in Nat \ {0} /\ Size(v) \in Nat \ {0} /\ offset[v] \in Nat
    BY <1>1, SizeFacts
  <1>4. CASE Fitting(Size(t)) # {}
    <2> DEFINE block == CHOOSE b \in Fitting(Size(t)) :
                          \A c \in Fitting(Size(t)) : b.offset <= c.offset
    <2>1. Place(t, block.offset, end)
      BY <1>4 DEF Allocate
    <2>2. block \in Fitting(Size(t))
      BY <1>1, <1>4, ChosenFits, Zenon
    <2> HIDE DEF block
    <2>3. offset'[t] = block.offset
      BY <2>1 DEF Place
    <2>4. block \in free /\ block \in Blocks /\ block.size >= Size(t)
      BY <1>1, <2>2 DEF Fitting
    <2>5. CASE v \in live
      BY <1>2, <1>3, <2>3, <2>4, <2>5 DEF Tiling, Disjoint, Blocks
    <2>6. CASE v \notin live
      <3>1. PICK b \in free : b.offset <= offset[v] /\ offset[v] + Size(v) <= EndOf(b)
        BY <1>1, <2>6 DEF JustFreed
      <3>2. CASE b = block
        BY <2>3, <3>1, <3>2
      <3>3. CASE b # block
        <4>1. BlocksApart(b, block) /\ b \in Blocks
          BY <1>1, <1>2, <2>4, <3>3 DEF FreeBlocksApart
        <4> QED
          BY <1>3, <2>3, <2>4, <3>1, <4>1 DEF BlocksApart, EndOf, Disjoint, Blocks
      <3> QED
        BY <3>2, <3>3
    <2> QED
      BY <2>5, <2>6
  <1>5. CASE Fitting(Size(t)) = {}
    <2>1. Place(t, end, end + Size(t))
      BY <1>5 DEF Allocate
    <2>2. offset'[t] = end
      BY <2>1 DEF Place
    <2> QED
      BY <1>1, <1>2, <1>3, <2>2 DEF PlacedWithin, Disjoint
  <1> QED
    BY <1>4, <1>5

LEMMA PlacementFits ==
  ASSUME PlanIInv, JustFreed, FirstFit, NEW t \in Tensors, Allocate(t)
  PROVE  FirstFit'
  <1>1. /\ graph \in GraphSet /\ graph' = graph /\ node' = node
        /\ TurnOf(t) /\ pc = "allocate" /\ ~ProducedTwice
        /\ node \in 1..NodeCount /\ DOMAIN offset \subseteq Tensors
    BY DEF Allocate, parameters, TurnOf, PlanIInv, PlanShape, Placement
  <1>2. CASE offset' = offset
    BY <1>1, <1>2, FitFrame
  <1>3. CASE offset' # offset
    <2>1. pc' # "failed"
          /\ \E p : offset' = [u \in DOMAIN offset \cup {t} |-> IF u = t THEN p ELSE offset[u]]
      BY <1>1, <1>3 DEF Allocate, Place
    <2>2. /\ t \notin DOMAIN offset /\ t \in Produced(node)
          /\ \A m \in 1..NodeCount : t \in Produced(m) => m = node
      BY <1>1, TurnFacts
    <2>3. /\ DOMAIN offset' = DOMAIN offset \cup {t}
          /\ \A u \in DOMAIN offset : offset'[u] = offset[u]
      BY <2>1, <2>2
    <2>4. /\ NodeCount \in Nat /\ NodeCount' = NodeCount
          /\ \A n \in Nat : Before(n)' = Before(n)
          /\ \A u \in Tensors : Size(u)' = Size(u)
      BY <1>1, PlanGraphFrame, PlanGraphFacts
    <2>5. t = graph.outputs[node][at] /\ at \in 1..Len(graph.outputs[node])
          /\ DOMAIN graph.outputs[node] = 1..Len(graph.outputs[node])
          /\ Len(graph.outputs[node]) \in Nat
          /\ DOMAIN offset = Before(node) \cup {graph.outputs[node][j] : j \in 1..(at - 1)}
      <3>1. Len(graph.outputs[node]) \in Nat /\ at \in Nat \ {0} /\ at <= Len(graph.outputs[node])
        BY <1>1, PlanGraphFacts DEF TurnOf, PlanIInv, PlanShape
      <3> QED
        BY <1>1, <3>1, PlanGraphFacts DEF TurnOf, PlanIInv, Placement
    <2>6. \A u \in DOMAIN offset : \A m \in 1..NodeCount : u \in Produced(m) => m <= node
      <3>1. ASSUME NEW u \in DOMAIN offset, NEW m \in 1..NodeCount, u \in Produced(m)
            PROVE  m <= node
        <4>1. \E k \in 1..node : u \in Produced(k)
          <5>1. CASE u \in Before(node)
            BY <1>1, <2>4, <5>1 DEF Before
          <5>2. CASE u \notin Before(node)
            <6>1. PICK j \in 1..(at - 1) : u = graph.outputs[node][j]
              BY <2>5, <5>2
            <6>2. j \in DOMAIN graph.outputs[node]
              BY <2>5
            <6> QED
              BY <1>1, <6>1, <6>2 DEF Produced
          <5> QED
            BY <5>1, <5>2
        <4>2. PICK k \in 1..node : u \in Produced(k)
          BY <4>1
        <4>3. k \in 1..NodeCount
          BY <1>1, <2>4
        <4>4. k = m
          BY <1>1, <3>1, <4>2, <4>3, OneProducer
        <4> QED
          BY <4>4
      <3> QED
        BY <3>1
    <2>7. ASSUME NEW u \in DOMAIN offset', NEW v \in DOMAIN offset', NEW m \in 1..NodeCount,
                 u = graph.outputs[m][1], u \in Produced(m), v \in Before(m), Uses(v, m - 1)
          PROVE  Disjoint(offset'[u], Size(u), offset'[v], Size(v)) \/ offset'[u] <= offset'[v]
      <3>1. m <= node
        BY <1>1, <2>2, <2>3, <2>6, <2>7
      <3>2. v # t
        <4>1. ASSUME v = t PROVE FALSE
          <5>1. PICK k \in 1..(m - 1) : t \in Produced(k)
            BY <2>7, <4>1 DEF Before
          <5>2. k \in 1..NodeCount /\ k # node
            BY <1>1, <2>4, <3>1
          <5> QED
            BY <2>2, <5>1, <5>2
        <4> QED
          BY <4>1
      <3>3. v \in DOMAIN offset /\ offset'[v] = offset[v]
        BY <2>3, <3>2
      <3>4. CASE u \in DOMAIN offset
        <4>1. StartsBefore(u, v, m)
          BY <3>3, <3>4 DEF FirstFit
        <4> QED
          BY <2>3, <2>7, <3>3, <3>4, <4>1 DEF StartsBefore
      <3>5. CASE u = t
        <4>1. m = node
          BY <2>2, <2>7, <3>5
        <4>2. at = 1
          <5>1. 1 \in DOMAIN graph.outputs[node] /\ at \in DOMAIN graph.outputs[node]
            BY <2>5
          <5> QED
            BY <1>1, <2>5, <2>7, <3>5, <4>1, <5>1 DEF ProducedTwice
        <4> QED
          BY <2>1, <2>7, <3>3, <3>5, <4>1, <4>2, PlacedFirstFit
      <3> QED
        BY <2>3, <3>4, <3>5
    <2>8. ASSUME NEW u \in DOMAIN offset', NEW v \in DOMAIN offset', NEW m \in 1..NodeCount
          PROVE  StartsBefore(u, v, m)'
      <3>1. m \in Nat /\ u \in Tensors /\ v \in Tensors
        BY <1>1, <2>3, <2>4
      <3> QED
        BY <1>1, <2>4, <2>7, <3>1 DEF StartsBefore, Disjoint, Produced, Uses
    <2> QED
      BY <2>4, <2>8 DEF FirstFit
  <1> QED
    BY <1>2, <1>3

LEMMA ReuseInit == PlannerInit => JustFreed /\ FirstFit
  BY DEF PlannerInit, JustFreed, FirstFit

LEMMA ReuseStep == PlanIInv /\ JustFreed /\ FirstFit /\ [PlannerNext]_plannerVars => JustFreed' /\ FirstFit'
  <1> SUFFICES ASSUME PlanIInv, JustFreed, FirstFit, [PlannerNext]_plannerVars PROVE JustFreed' /\ FirstFit'
    OBVIOUS
  <1>1. CASE UNCHANGED plannerVars
    <2>1. JustFreed'
      BY <1>1 DEF plannerVars, parameters, JustFreed, Uses, Produced, Size, EndOf
    <2> QED
      BY <1>1, <2>1, FitFrame DEF plannerVars, parameters
  <1>2. CASE Lifetimes
    <2>1. DOMAIN offset = {} /\ offset' = offset /\ graph' = graph
      BY <1>2 DEF Lifetimes, parameters, PlanIInv, Placement
    <2> QED
      BY <2>1, FitFrame DEF JustFreed
  <1>3. CASE ReleaseDone
    <2>1. JustFreed'
      BY <1>3 DEF ReleaseDone, parameters, JustFreed, Uses, Produced, Size, EndOf
    <2> QED
      BY <1>3, <2>1, FitFrame DEF ReleaseDone, parameters
  <1>4. CASE NextNode
    <2>1. /\ graph' = graph /\ offset' = offset /\ live' = live /\ pc = "allocate"
          /\ node \in 1..NodeCount /\ NodeCount \in Nat
          /\ pc' = "done" \/ (pc' = "release" /\ node' = node + 1)
          /\ DOMAIN offset \subseteq Tensors
      BY <1>4, PlanGraphFacts DEF NextNode, parameters, PlanIInv, PlanShape
    <2>2. ASSUME NEW t \in DOMAIN offset \ live PROVE ~Uses(t, node)
      <3>1. Expired(t)
        BY <2>1 DEF PlanIInv, Placement
      <3> QED
        BY <2>1, <3>1 DEF Expired
    <2>3. JustFreed'
      <3>1. CASE pc' = "done"
        BY <3>1 DEF JustFreed
      <3>2. CASE node' = node + 1
        <4>1. node' - 1 = node
          BY <2>1, <3>2
        <4> QED
          BY <2>1, <2>2, <4>1 DEF JustFreed, Uses, Produced
      <3> QED
        BY <2>1, <3>1, <3>2
    <2> QED
      BY <2>1, <2>3, FitFrame
  <1>5. ASSUME NEW t \in Tensors, Release(t) PROVE JustFreed' /\ FirstFit'
    BY <1>5, FreedStays, FitFrame DEF Release, parameters
  <1>6. ASSUME NEW t \in Tensors, Allocate(t) PROVE JustFreed' /\ FirstFit'
    <2>1. pc' = "failed" \/ (pc' = "allocate" /\ at' # 1)
      BY <1>6 DEF Allocate, Place, PlanIInv, PlanShape
    <2> QED
      BY <1>6, <2>1, PlacementFits DEF JustFreed
  <1>7. ASSUME NEW t \in Tensors, Overflow(t) PROVE JustFreed' /\ FirstFit'
    BY <1>7, FitFrame DEF Overflow, parameters, JustFreed
  <1> QED
    BY <1>1, <1>2, <1>3, <1>4, <1>5, <1>6, <1>7 DEF PlannerNext

-----------------------------------------------------------------------------
(* What the invariant says of the planner *)

\* Two tensors that are live at once share no byte of the workspace, whichever free
\* blocks the planner found for them (allocate_block, add_free_block).
THEOREM LiveTensorsApart == PlannerSpec => []NoOverlap
  BY PlanInvariant, PTL DEF PlanIInv

\* When build_workspace_plan succeeds, every tensor that a node reads or writes, or
\* that the caller reads, has an aligned place inside the reported workspace, apart
\* from that of every other tensor which is needed at the same node.
THEOREM FinishedPlanIsSound == PlannerSpec => []PlanSound
  <1>1. ASSUME PlanIInv PROVE PlanSound
    <2>1. graph \in GraphSet /\ end \in 0..MaxWord
      BY <1>1 DEF PlanIInv, PlanShape
    <2>2. ASSUME pc = "done" PROVE end <= limit
      BY <1>1, <2>2 DEF PlanIInv, Tiling
    <2>3. ASSUME pc = "done", NEW n \in 1..NodeCount, NEW t \in Tensors, Needed(t, n)
          PROVE  t \in DOMAIN offset
      <3>1. PICK m \in 1..n : t \in Produced(m)
        BY <2>3 DEF Needed
      <3>2. m \in 1..((NodeCount + 1) - 1)
        BY <2>1, PlanGraphFacts
      <3>3. t \in Before(NodeCount + 1)
        BY <3>1, <3>2 DEF Before
      <3> QED
        BY <1>1, <2>3, <3>3 DEF PlanIInv, Placement
    <2>4. ASSUME pc = "done", NEW n \in 1..NodeCount, NEW t \in Tensors, Needed(t, n)
          PROVE  /\ t \in DOMAIN offset
                 /\ offset[t] % Alignment = 0 /\ offset[t] + Size(t) <= end
                 /\ \A u \in {v \in Tensors : Needed(v, n)} \ {t} :
                      Disjoint(offset[t], Size(t), offset[u], Size(u))
      BY <1>1, <2>3, <2>4 DEF PlanIInv, PlacedWithin, PairsApart
    <2> QED
      BY <2>1, <2>2, <2>4 DEF PlanSound
  <1> QED
    BY <1>1, PlanInvariant, PTL

\* The free list and the live tensors partition the bytes of the workspace, and no
\* two free blocks touch: add_free_block merges whatever can be merged.
THEOREM FreeListTilesWorkspace == PlannerSpec => []FreeListSound
  <1>1. ASSUME PlanIInv PROVE FreeListSound
    <2> DEFINE Bytes(start, size) == start..(start + size - 1)
               taken == UNION {Bytes(offset[t], Size(t)) : t \in live}
               spare == UNION {Bytes(b.offset, b.size) : b \in free}
    <2> SUFFICES ASSUME pc # "failed"
                 PROVE  /\ \A b \in free : b.offset + b.size \notin {c.offset : c \in free}
                        /\ \A b, c \in free : b = c \/ Disjoint(b.offset, b.size, c.offset, c.size)
                        /\ taken \cap spare = {}
                        /\ taken \cup spare = 0..(end - 1)
      BY DEF FreeListSound
    <2>1. /\ Tiling /\ FreeBlocksApart /\ PlacedWithin /\ graph \in GraphSet /\ end \in Nat
          /\ free \in SUBSET Blocks /\ live \subseteq Tensors /\ live \subseteq DOMAIN offset
          /\ \A t \in live : offset[t] \in Nat
      BY <1>1 DEF PlanIInv, PlanShape, Tiling
    <2>2. /\ \A t \in live : /\ offset[t] \in Nat /\ Size(t) \in Nat /\ offset[t] + Size(t) <= end
          /\ \A b \in free : b.offset \in Nat /\ b.size \in Nat /\ b.offset + b.size <= end
      BY <2>1, SizeFacts DEF PlacedWithin, FreeBlocksApart, EndOf, Blocks
    <2>3. \A x : x \in taken <=> x \in Nat /\ \E t \in live : In(x, offset[t], Size(t))
      <3>1. \A t \in live : \A x : x \in Bytes(offset[t], Size(t)) <=>
                                x \in Nat /\ In(x, offset[t], Size(t))
        BY <2>2 DEF In
      <3> QED
        BY <3>1
    <2>4. \A x : x \in spare <=> x \in Nat /\ \E b \in free : In(x, b.offset, b.size)
      <3>1. \A b \in free : \A x : x \in Bytes(b.offset, b.size) <=>
                                x \in Nat /\ In(x, b.offset, b.size)
        BY <2>2 DEF In
      <3> QED
        BY <3>1
    <2> HIDE DEF taken, spare, Bytes
    <2>5. \A b \in free : b.offset + b.size \notin {c.offset : c \in free}
      BY <2>1 DEF FreeBlocksApart, EndOf
    <2>6. \A b, c \in free : b = c \/ Disjoint(b.offset, b.size, c.offset, c.size)
      BY <2>1 DEF FreeBlocksApart, BlocksApart, EndOf, Disjoint
    <2>7. ASSUME NEW x \in taken, x \in spare PROVE FALSE
      <3>1. PICK t \in live : In(x, offset[t], Size(t))
        BY <2>3
      <3>2. PICK b \in free : In(x, b.offset, b.size)
        BY <2>4, <2>7
      <3>3. Disjoint(b.offset, b.size, offset[t], Size(t)) /\ x \in Nat
        BY <2>1, <2>3 DEF Tiling
      <3> QED
        BY <2>2, <3>1, <3>2, <3>3 DEF In, Disjoint
    <2>8. ASSUME NEW x \in taken \cup spare PROVE x \in 0..(end - 1)
      BY <2>1, <2>2, <2>3, <2>4 DEF In
    <2>9. ASSUME NEW x \in 0..(end - 1) PROVE x \in taken \cup spare
      BY <2>1, <2>3, <2>4 DEF Tiling
    <2> QED
      BY <2>5, <2>6, <2>7, <2>8, <2>9
  <1> QED
    BY <1>1, PlanInvariant, PTL

\* The array of tensor_count + 1 free blocks never overflows: every free block but
\* one that reaches the end of the workspace lies just before a live tensor.
THEOREM FreeListNeverOverflows == PlannerSpec => []FreeListFits
  <1>1. ASSUME PlanIInv PROVE FreeListFits
    <2> SUFFICES ASSUME pc # "failed" PROVE Cardinality(free) <= Cardinality(live) + 1
      BY DEF FreeListFits
    <2>1. /\ Tiling /\ FreeBlocksApart /\ graph \in GraphSet /\ end \in Nat
          /\ free \in SUBSET Blocks /\ live \subseteq Tensors
          /\ \A t \in live : offset[t] \in Nat
      BY <1>1 DEF PlanIInv, PlanShape, Tiling
    <2>2. IsFiniteSet(live)
      BY <2>1, FS_Subset, WorkspacePlannerAssumption DEF IsGraph, Tensors
    <2>3. \A b \in free : /\ b.offset \in Nat /\ EndOf(b) = b.offset + b.size /\ EndOf(b) \in Nat
                           /\ b.offset < EndOf(b) /\ EndOf(b) <= end
      BY <2>1 DEF FreeBlocksApart, EndOf, Blocks
    <2>4. \A b, c \in free : EndOf(b) = EndOf(c) => b = c
      BY <2>1, <2>3 DEF FreeBlocksApart, BlocksApart
    <2> DEFINE inner == {b \in free : EndOf(b) < end}
               after == [b \in inner |-> CHOOSE t \in live : offset[t] = EndOf(b)]
    <2>5. ASSUME NEW b \in inner PROVE after[b] \in live /\ offset[after[b]] = EndOf(b)
      <3>1. EndOf(b) \in 0..(end - 1)
        BY <2>1, <2>3
      <3>2. ASSUME NEW c \in free, In(EndOf(b), c.offset, c.size) PROVE FALSE
        <4>1. c.offset <= EndOf(b) /\ EndOf(b) < EndOf(c)
          BY <3>2, <2>3 DEF In
        <4>2. BlocksApart(b, c) /\ EndOf(b) # c.offset
          BY <2>1, <4>1, <2>3 DEF FreeBlocksApart
        <4> QED
          BY <2>3, <4>1, <4>2 DEF BlocksApart
      <3>3. PICK t \in live : In(EndOf(b), offset[t], Size(t))
        BY <2>1, <3>1, <3>2 DEF Tiling
      <3>4. Disjoint(b.offset, b.size, offset[t], Size(t)) /\ offset[t] \in Nat /\ Size(t) \in Nat
        BY <2>1, SizeFacts DEF Tiling
      <3>5. offset[t] = EndOf(b)
        BY <2>3, <3>3, <3>4 DEF Disjoint, In
      <3> QED
        BY <3>5
    <2>6. after \in Injection(inner, live)
      <3>1. after \in [inner -> live]
        BY <2>5
      <3>2. \A b, c \in inner : after[b] = after[c] => b = c
        BY <2>4, <2>5
      <3> HIDE DEF after, inner
      <3> QED
        BY <3>1, <3>2 DEF Injection, IsInjective
    <2>7. IsFiniteSet(inner) /\ Cardinality(inner) <= Cardinality(live)
      <3> HIDE DEF after, inner
      <3> QED
        BY <2>2, <2>6, FS_Injection
    <2>8. Cardinality(live) \in Nat /\ Cardinality(inner) \in Nat
      BY <2>2, <2>7, FS_CardinalityType
    <2>9. CASE free = inner
      BY <2>7, <2>8, <2>9
    <2>10. CASE free # inner
      <3>1. PICK last \in free : EndOf(last) = end
        BY <2>1, <2>3, <2>10
      <3>2. free \subseteq inner \cup {last}
        BY <2>1, <2>3, <2>4, <3>1
      <3> HIDE DEF inner
      <3>3. /\ IsFiniteSet(inner \cup {last})
            /\ Cardinality(inner \cup {last}) <= Cardinality(inner) + 1
        BY <2>7, <2>8, FS_AddElement
      <3>4. Cardinality(free) <= Cardinality(inner \cup {last})
        BY <3>2, <3>3, FS_Subset
      <3>5. IsFiniteSet(free) /\ Cardinality(free) \in Nat /\ Cardinality(inner \cup {last}) \in Nat
        BY <3>2, <3>3, FS_Subset, FS_CardinalityType
      <3> QED
        BY <2>7, <2>8, <3>3, <3>4, <3>5
    <2> QED
      BY <2>9, <2>10
  <1> QED
    BY <1>1, PlanInvariant, PTL

-----------------------------------------------------------------------------
(* The graph executor *)

Apart(t, u) == Disjoint(offset[t], graph.bytes[t], offset[u], graph.bytes[u])
Earlier(t, n) == \E m \in 1..(n - 1) : t \in Produced(m)
StillRead(t, n) == t \in graph.results \/ \E m \in n..NodeCount : Uses(t, m)

\* What a finished plan gives to the executor.
SoundPlan ==
  /\ graph \in GraphSet
  /\ \A t \in DOMAIN offset :
       /\ t \in Tensors /\ offset[t] \in Nat
       /\ offset[t] + graph.bytes[t] <= MaxWord
  /\ \A t : t \in DOMAIN offset <=> \E n \in 1..NodeCount : t \in Produced(n)
  /\ \A n, m \in 1..NodeCount : \A t : t \in Produced(n) /\ t \in Produced(m) => n = m
  /\ \A n \in 1..NodeCount : \A t, u \in DOMAIN offset :
       t # u /\ Needed(t, n) /\ Needed(u, n) => Apart(t, u)
  /\ \A n \in 1..NodeCount : \A t \in DOMAIN offset :
       Out(n) \in Produced(n) /\ Earlier(t, n) /\ Uses(t, n - 1)
         => Apart(Out(n), t) \/ offset[Out(n)] <= offset[t]

\* Between two nodes, what an earlier node computed and a later one or the caller
\* reads is in its place.
NodesRight(n) ==
  \A t \in DOMAIN offset : Earlier(t, n) /\ StillRead(t, n) => Intact(memory, t)

\* Inside the fused kernel: what nodes after the chain read, the rest of the source
\* and the elements written so far.
GeluRight ==
  LET source == Source(current)
      out == Out(current + 4)
  IN /\ current <= NodeLimit /\ Fusible(current)
     /\ lane \in 1..(graph.bytes[source] + 1)
     /\ \A t \in DOMAIN offset :
          Earlier(t, current) /\ StillRead(t, current + 5) => Intact(memory, t)
     /\ \A i \in lane..graph.bytes[source] : ValueIn(memory, source, i) = <<source, i>>
     /\ \A i \in 1..(lane - 1) : memory[offset[out] + i - 1] = <<out, i>>

PlanRight == PlanIInv /\ JustFreed /\ FirstFit

Phase ==
  /\ xpc \in {"idle", "nodes", "gelu"} /\ entry \in {"full", "greedy"}
  /\ xpc # "idle" =>
       /\ pc = "done"
       /\ entry = "greedy" => HasTail
       /\ current \in 1..(NodeLimit + 1)

IInv ==
  /\ PlanRight
  /\ Phase
  /\ xpc = "nodes" => NodesRight(current)
  /\ xpc = "gelu" => GeluRight
  /\ ResultExact

-----------------------------------------------------------------------------
(* The plan *)

\* Nothing follows a finished plan.
LEMMA PlanStep ==
  PlanRight /\ (PlannerNext \/ UNCHANGED plannerVars) => PlanRight'
  <1>1. PlannerNext \/ UNCHANGED plannerVars => [PlannerNext]_(plannerVars)
    BY DEF plannerVars
  <1> QED
    BY <1>1, WorkspacePlannerAssumption, PlanStepInvariant, ReuseStep DEF PlanRight

LEMMA PlanIsFinal == pc = "done" => ~PlannerNext
  BY DEF PlannerNext, Lifetimes, ReleaseDone, NextNode, Release, Allocate, Overflow

\* What the graph's sequences are.
LEMMA GraphFacts ==
  ASSUME graph \in GraphSet
  PROVE  /\ NodeCount \in Nat /\ MaxWord \in Nat
         /\ graph.outputs \in Seq(Seq(Tensors))
         /\ DOMAIN graph.outputs = 1..NodeCount
         /\ \A n \in 1..NodeCount :
              /\ Len(graph.outputs[n]) \in Nat
              /\ DOMAIN graph.outputs[n] = 1..Len(graph.outputs[n])
              /\ graph.inputs[n] \subseteq Tensors
              /\ \A m \in n..NodeCount : graph.inputs[n] \cap Produced(m) = {}
         /\ graph.results \subseteq Tensors
         /\ \A t \in Tensors : graph.bytes[t] \in Nat /\ graph.bytes[t] >= 1
         /\ graph.ops \in Seq(STRING) /\ Len(graph.ops) = NodeCount
         /\ graph.results = {Result}
  <1>1. /\ IsGraph(graph) /\ MaxWord \in Nat
        /\ \A n \in DOMAIN graph.inputs : \A m \in n..Len(graph.outputs) :
             \A j \in DOMAIN graph.outputs[m] : graph.outputs[m][j] \notin graph.inputs[n]
    BY WorkspacePlannerAssumption, ExecutionOrder DEF WorkspacePlannerAssumption
  <1>2. /\ graph.outputs \in Seq(Seq(Tensors)) /\ DOMAIN graph.inputs = DOMAIN graph.outputs
        /\ \A n \in DOMAIN graph.inputs : graph.inputs[n] \subseteq Tensors
        /\ graph.results \subseteq Tensors /\ IsFiniteSet(Tensors)
        /\ \A t \in Tensors : graph.bytes[t] \in (0..MaxWord) \ {0}
    <2>1. /\ graph.outputs \in Seq(Seq(DOMAIN graph.bytes))
          /\ DOMAIN graph.inputs = DOMAIN graph.outputs
      BY <1>1 DEF IsGraph
    <2>2. IsFiniteSet(DOMAIN graph.bytes)
      BY <1>1 DEF IsGraph, IsFiniteSet
    <2>3. /\ \A n \in DOMAIN graph.inputs : graph.inputs[n] \subseteq DOMAIN graph.bytes
          /\ graph.results \subseteq DOMAIN graph.bytes
          /\ \A t \in DOMAIN graph.bytes : graph.bytes[t] \in (0..MaxWord) \ {0}
      BY <1>1 DEF IsGraph
    <2> QED
      BY <2>1, <2>2, <2>3 DEF Tensors
  <1>3. /\ NodeCount \in Nat /\ DOMAIN graph.outputs = 1..NodeCount
        /\ \A n \in 1..NodeCount : graph.outputs[n] \in Seq(Tensors)
    BY <1>2 DEF NodeCount
  <1>4. \A n \in 1..NodeCount :
          /\ Len(graph.outputs[n]) \in Nat
          /\ DOMAIN graph.outputs[n] = 1..Len(graph.outputs[n])
    BY <1>3
  <1>5. ASSUME NEW n \in 1..NodeCount, NEW m \in n..NodeCount
        PROVE  graph.inputs[n] \cap Produced(m) = {}
    <2>1. n \in DOMAIN graph.inputs /\ m \in n..Len(graph.outputs)
      BY <1>2, <1>3 DEF NodeCount
    <2>2. \A j \in DOMAIN graph.outputs[m] : graph.outputs[m][j] \notin graph.inputs[n]
      BY <1>1, <2>1
    <2> QED
      BY <2>2 DEF Produced
  <1>6. graph.ops \in Seq(STRING) /\ Len(graph.ops) = NodeCount /\ Cardinality(graph.results) = 1
    BY GraphExecutorAssumption DEF NodeCount
  <1>7. graph.results = {Result}
    <2>1. IsFiniteSet(graph.results)
      BY <1>2, FS_Subset
    <2>2. PICK t : graph.results = {t}
      BY <1>6, <2>1, FS_Singleton
    <2> QED
      BY <2>2 DEF Result
  <1> QED
    BY <1>1, <1>2, <1>3, <1>4, <1>5, <1>6, <1>7

\* A tensor needs no more bytes than it has been given.
LEMMA SizeCovers ==
  ASSUME graph \in GraphSet, NEW t \in Tensors
  PROVE  Size(t) \in Nat /\ graph.bytes[t] <= Size(t)
  <1>1. graph.bytes[t] \in Nat
    BY GraphFacts
  <1> QED
    BY <1>1, WorkspacePlannerAssumption, AlignedFacts DEF Size

LEMMA PlanGives ==
  ASSUME PlanRight, pc = "done"
  PROVE  SoundPlan
  <1>1. PlanShape /\ Placement /\ PairsApart /\ PlacedWithin
        /\ FirstFit
    BY DEF PlanRight, PlanIInv
  <1>2. /\ graph \in GraphSet /\ DOMAIN offset \subseteq Tensors
        /\ \A t \in DOMAIN offset : offset[t] \in Nat
        /\ end \in 0..MaxWord /\ ~ProducedTwice
        /\ DOMAIN offset = Before(NodeCount + 1)
    BY <1>1 DEF PlanShape, Placement
  <1>3. /\ NodeCount \in Nat /\ MaxWord \in Nat
        /\ \A n \in 1..NodeCount : Produced(n) \subseteq Tensors
    <2>1. \A n \in 1..NodeCount : graph.outputs[n] \in Seq(Tensors)
      BY <1>2, GraphFacts
    <2> QED
      BY <1>2, <2>1, GraphFacts DEF Produced
  <1>4. \A t \in DOMAIN offset :
          /\ t \in Tensors /\ offset[t] \in Nat
          /\ graph.bytes[t] \in Nat /\ Size(t) \in Nat /\ graph.bytes[t] <= Size(t)
          /\ offset[t] + Size(t) <= end
    BY <1>1, <1>2, SizeCovers, GraphFacts DEF PlacedWithin
  <1>5. \A t \in DOMAIN offset : offset[t] + graph.bytes[t] <= MaxWord
    BY <1>2, <1>3, <1>4
  <1>6. ASSUME NEW t
        PROVE  t \in DOMAIN offset <=> \E n \in 1..NodeCount : t \in Produced(n)
    <2>1. NodeCount + 1 - 1 = NodeCount
      BY <1>3
    <2>2. t \in Before(NodeCount + 1)
            <=> t \in Tensors /\ \E n \in 1..NodeCount : t \in Produced(n)
      <3>1. t \in Before(NodeCount + 1)
              <=> t \in Tensors /\ \E n \in 1..(NodeCount + 1 - 1) : t \in Produced(n)
        BY <1>3 DEF Before
      <3>2. Tensors = Tensors /\ \A n : Produced(n) = Produced(n)
        OBVIOUS
      <3> QED
        BY <2>1, <3>1, <3>2
    <2> QED
      BY <1>2, <1>3, <2>2
  <1>7. ASSUME NEW n \in 1..NodeCount, NEW m \in 1..NodeCount, NEW t,
               t \in Produced(n), t \in Produced(m)
        PROVE  n = m
    BY <1>2, <1>7, WorkspacePlannerAssumption, OneProducer
  <1>8. ASSUME NEW t \in DOMAIN offset, NEW u \in DOMAIN offset,
               Disjoint(offset[t], Size(t), offset[u], Size(u))
        PROVE  Apart(t, u)
    BY <1>4, <1>8 DEF Apart, Disjoint
  <1>9. ASSUME NEW n \in 1..NodeCount, NEW t \in DOMAIN offset, NEW u \in DOMAIN offset,
               t # u, Needed(t, n), Needed(u, n)
        PROVE  Apart(t, u)
    <2>1. Needed(t, n) /\ Needed(u, n) /\ n \in 1..NodeCount
      BY <1>9
    <2>2. Disjoint(offset[t], Size(t), offset[u], Size(u))
      BY <1>1, <1>9, <2>1 DEF PairsApart
    <2> QED
      BY <1>8, <2>2
  <1>10. ASSUME NEW n \in 1..NodeCount, NEW t \in DOMAIN offset,
                Out(n) \in Produced(n), Earlier(t, n), Uses(t, n - 1)
         PROVE  Apart(Out(n), t) \/ offset[Out(n)] <= offset[t]
    <2>1. Out(n) \in DOMAIN offset
      BY <1>6, <1>10
    <2>2. t \in Before(n) /\ Uses(t, n - 1) /\ n \in 1..NodeCount
          /\ Out(n) \in Produced(n) /\ Out(n) = graph.outputs[n][1]
      BY <1>2, <1>10 DEF Before, Earlier, Out
    <2>3. StartsBefore(Out(n), t, n)
      BY <1>1, <2>1, <2>2 DEF FirstFit
    <2>4. \/ Disjoint(offset[Out(n)], Size(Out(n)), offset[t], Size(t))
          \/ offset[Out(n)] <= offset[t]
      BY <2>2, <2>3 DEF StartsBefore
    <2> QED
      BY <1>8, <2>1, <2>4
  <1> QED
    BY <1>2, <1>4, <1>5, <1>6, <1>7, <1>9, <1>10 DEF SoundPlan

-----------------------------------------------------------------------------
(* The fused chain *)

\* After its last use a tensor is not read.
LEMMA LastUseFacts ==
  ASSUME graph \in GraphSet, NEW t, NEW m \in 1..NodeCount, Uses(t, m),
         NEW k \in 1..NodeCount, LastUse(t) = k
  PROVE  ~StillRead(t, k + 1)
  <1>1. NodeCount \in Nat
    BY GraphFacts
  <1>2. t \notin graph.results
    <2>1. t \in graph.results => LastUse(t) = NodeCount + 1
      BY DEF LastUse
    <2> QED
      BY <1>1, <2>1
  <1> DEFINE LastUser(n) == Uses(t, n) /\ \A j \in (n + 1)..NodeCount : ~Uses(t, j)
             left == {d \in 0..NodeCount : NodeCount - d \in 1..NodeCount
                                           /\ Uses(t, NodeCount - d)}
  <1>3. \E n \in 1..NodeCount : LastUser(n)
    <2>1. NodeCount - m \in left
      <3>1. NodeCount - (NodeCount - m) = m /\ NodeCount - m \in 0..NodeCount
        BY <1>1
      <3> QED
        BY <3>1
    <2>2. \A d \in left : d \in Nat
      BY <1>1
    <2> HIDE DEF left
    <2>3. PICK d \in left : \A e \in left : d <= e
      <3>1. left \in SUBSET Nat /\ left # {}
        BY <2>1, <2>2
      <3> QED
        BY <3>1, WorkspacePlannerAssumption, LeastExists
    <2> USE DEF left
    <2>4. d \in Nat /\ NodeCount - d \in 1..NodeCount /\ Uses(t, NodeCount - d)
      BY <1>1, <2>3
    <2>5. ASSUME NEW j \in (NodeCount - d + 1)..NodeCount, Uses(t, j) PROVE FALSE
      <3>1. NodeCount - (NodeCount - j) = j /\ NodeCount - j \in 0..NodeCount
            /\ NodeCount - j < d /\ j \in 1..NodeCount
        BY <1>1, <2>4
      <3>2. NodeCount - j \in left
        BY <2>5, <3>1
      <3> HIDE DEF left
      <3> QED
        BY <1>1, <2>3, <2>4, <3>1, <3>2
    <2> QED
      BY <2>4, <2>5
  <1>4. LastUse(t) = CHOOSE n \in 1..NodeCount : LastUser(n)
    BY <1>2 DEF LastUse
  <1> HIDE DEF LastUser
  <1>5. LastUser(k)
    BY <1>3, <1>4
  <1> QED
    BY <1>2, <1>5 DEF LastUser, StillRead

LEMMA PartAt ==
  ASSUME NEW s, NEW m \in Int, NEW k \in Int, NEW i \in 1..(k - m + 1)
  PROVE  SubSeq(s, m, k)[i] = s[m + i - 1]
  OBVIOUS

\* The operators of a chain are none of the tail's, so a chain is never cut by it.
LEMMA ChainBeforeTail ==
  ASSUME graph \in GraphSet, NEW n \in 1..NodeLimit, IsChain(n),
         entry = "greedy" => HasTail, entry \in {"full", "greedy"}
  PROVE  n \in Nat /\ n + 4 <= NodeLimit /\ NodeLimit \in Nat /\ NodeLimit <= NodeCount
  <1>1. NodeCount \in Nat /\ graph.ops \in Seq(STRING) /\ Len(graph.ops) = NodeCount
    BY GraphFacts
  <1>2. NodeLimit \in Int /\ n \in Nat /\ n + 4 <= NodeCount /\ NodeLimit <= NodeCount
    BY <1>1 DEF NodeLimit, IsChain
  <1>3. \A j \in n..(n + 4) : graph.ops[j] # "MatMul" /\ graph.ops[j] # "Softmax"
    <2> DEFINE chain == <<"Div", "Erf", "Add", "Mul", "Mul">>
    <2>1. SubSeq(graph.ops, n, n + 4) = chain
      BY DEF IsChain
    <2>2. ASSUME NEW i \in 1..5
          PROVE  SubSeq(graph.ops, n, n + 4)[i] = graph.ops[n + i - 1]
      <3>1. n \in Int /\ n + 4 \in Int /\ i \in 1..(n + 4 - n + 1)
        BY <1>2
      <3> QED
        BY <3>1, PartAt
    <2>3. \A i \in 1..5 : chain[i] # "MatMul" /\ chain[i] # "Softmax"
      OBVIOUS
    <2>4. \A i \in 1..5 : graph.ops[n + i - 1] # "MatMul" /\ graph.ops[n + i - 1] # "Softmax"
      BY <2>1, <2>2, <2>3
    <2>5. ASSUME NEW j \in n..(n + 4)
          PROVE  graph.ops[j] # "MatMul" /\ graph.ops[j] # "Softmax"
      <3>1. j - n + 1 \in 1..5 /\ n + (j - n + 1) - 1 = j
        BY <1>2
      <3> QED
        BY <2>4, <3>1
    <2> QED
      BY <2>5
  <1>4. CASE entry = "full"
    BY <1>1, <1>2, <1>4 DEF NodeLimit
  <1>5. CASE entry = "greedy" /\ HasProjection
    <2>1. NodeLimit = NodeCount - 3 /\ graph.ops[NodeCount - 2] = "MatMul"
      BY <1>5 DEF NodeLimit, HasProjection
    <2>2. NodeCount - 2 \notin n..(n + 4)
      BY <1>3, <2>1
    <2> QED
      BY <1>1, <1>2, <2>1, <2>2
  <1>6. CASE entry = "greedy" /\ ~HasProjection
    <2>1. NodeLimit = NodeCount - 1 /\ graph.ops[NodeCount] = "Softmax"
      BY <1>6 DEF NodeLimit, HasTail
    <2>2. NodeCount \notin n..(n + 4)
      BY <1>3, <2>1
    <2> QED
      BY <1>1, <1>2, <2>1, <2>2
  <1> QED
    BY <1>4, <1>5, <1>6

\* A node of one output produces that output, and it has been placed.
LEMMA OneOutput ==
  ASSUME SoundPlan, NEW n \in 1..NodeCount, Len(graph.outputs[n]) = 1
  PROVE  /\ Produced(n) = {Out(n)} /\ Out(n) \in DOMAIN offset
         /\ Uses(Out(n), n)
  <1>1. DOMAIN graph.outputs[n] = {1}
    BY GraphFacts DEF SoundPlan
  <1>2. Produced(n) = {Out(n)}
    BY <1>1 DEF Produced, Out
  <1> QED
    BY <1>2 DEF SoundPlan, Uses, Produced

\* A tensor that a node reads was produced before, if it was produced at all.
LEMMA InputsEarlier ==
  ASSUME SoundPlan, NEW n \in 1..NodeCount, NEW t \in graph.inputs[n], t \in DOMAIN offset
  PROVE  Earlier(t, n) /\ Uses(t, n) /\ StillRead(t, n)
  <1>1. PICK m \in 1..NodeCount : t \in Produced(m)
    BY DEF SoundPlan
  <1>2. NodeCount \in Nat /\ m \notin n..NodeCount
    BY <1>1, GraphFacts DEF SoundPlan
  <1>3. m \in 1..(n - 1) /\ n \in n..NodeCount
    BY <1>2
  <1> QED
    BY <1>1, <1>3 DEF Earlier, StillRead, Uses

\* What a fused chain is made of.
LEMMA ChainFacts ==
  ASSUME SoundPlan, NEW n \in 1..NodeLimit, Fusible(n),
         entry = "greedy" => HasTail, entry \in {"full", "greedy"}
  PROVE  /\ n \in Nat /\ n + 4 <= NodeLimit /\ n + 4 <= NodeCount
         /\ NodeCount \in Nat /\ NodeLimit \in Nat
         /\ Source(n) \in graph.inputs[n] /\ Source(n) \in graph.inputs[n + 3]
         /\ Source(n) \in Tensors
         /\ graph.bytes[Out(n + 4)] = graph.bytes[Source(n)]
         /\ graph.bytes[Source(n)] \in Nat
         /\ \A k \in 0..4 : /\ Produced(n + k) = {Out(n + k)} /\ Out(n + k) \in DOMAIN offset
                            /\ Uses(Out(n + k), n + k)
         /\ \A k \in 0..3 : ~StillRead(Out(n + k), n + 5)
  <1>1. /\ n \in Nat /\ n + 4 <= NodeLimit /\ NodeLimit \in Nat /\ NodeLimit <= NodeCount
        /\ NodeCount \in Nat
    BY ChainBeforeTail, GraphFacts DEF SoundPlan, Fusible
  <1>2. \A k \in 0..4 : n + k \in 1..NodeCount
    BY <1>1
  <1>3. /\ \A k \in 0..4 : Len(graph.outputs[n + k]) = 1
        /\ \A k \in 0..4 : graph.bytes[Out(n + k)] = graph.bytes[Source(n)]
        /\ graph.inputs[n] \ graph.scalars = {Source(n)}
        /\ graph.inputs[n + 3] = {Source(n), Out(n + 2)}
    BY DEF Fusible, IsChain
  <1>4. Source(n) \in Tensors /\ Source(n) \in graph.inputs[n] /\ graph.bytes[Source(n)] \in Nat
    <2>1. Source(n) \in graph.inputs[n]
      BY <1>3
    <2>2. graph.inputs[n] \subseteq Tensors /\ \A t \in Tensors : graph.bytes[t] \in Nat
      BY <1>1, GraphFacts DEF SoundPlan
    <2> QED
      BY <2>1, <2>2
  <1>5. \A k \in 0..4 : /\ Produced(n + k) = {Out(n + k)} /\ Out(n + k) \in DOMAIN offset
                        /\ Uses(Out(n + k), n + k)
    BY <1>2, <1>3, OneOutput
  <1>6. ASSUME NEW k \in 0..3
        PROVE  ~StillRead(Out(n + k), n + 5)
    <2>1. LastUse(Out(n + k)) = n + k + 1
      BY <1>6 DEF Fusible, Private
    <2>2. n + k \in 1..NodeCount /\ n + k + 1 \in 1..NodeCount /\ Uses(Out(n + k), n + k)
      BY <1>1, <1>5
    <2>3. ~StillRead(Out(n + k), n + k + 1 + 1)
      <3> DEFINE t == Out(n + k)
                 m == n + k
      <3>1. graph \in GraphSet /\ m \in 1..NodeCount /\ m + 1 \in 1..NodeCount
            /\ Uses(t, m) /\ LastUse(t) = m + 1
        BY <2>1, <2>2 DEF SoundPlan
      <3> HIDE DEF t, m
      <3>2. ~StillRead(t, m + 1 + 1)
        BY <3>1, LastUseFacts
      <3> QED
        BY <3>2 DEF t, m
    <2>4. \A j \in (n + 5)..NodeCount : j \in (n + k + 1 + 1)..NodeCount
      BY <1>1
    <2> QED
      BY <2>3, <2>4 DEF StillRead
  <1>7. Source(n) \in graph.inputs[n + 3] /\ graph.bytes[Out(n + 4)] = graph.bytes[Source(n)]
    BY <1>3
  <1> QED
    BY <1>1, <1>4, <1>5, <1>6, <1>7

\* Where the plan has put the result of the chain.
LEMMA GeluSafe ==
  ASSUME SoundPlan, NEW n \in 1..NodeLimit, Fusible(n),
         entry = "greedy" => HasTail, entry \in {"full", "greedy"}
  PROVE  /\ \A t \in DOMAIN offset :
              Earlier(t, n) /\ StillRead(t, n + 5) => t # Out(n + 4) /\ Apart(Out(n + 4), t)
         /\ Source(n) \in DOMAIN offset =>
              \/ Apart(Out(n + 4), Source(n))
              \/ offset[Out(n + 4)] <= offset[Source(n)]
  <1> DEFINE out == Out(n + 4)
  <1>1. /\ n \in Nat /\ n + 4 \in 1..NodeCount /\ n + 3 \in 1..NodeCount /\ NodeCount \in Nat
        /\ n \in 1..NodeCount
        /\ Source(n) \in graph.inputs[n + 3] /\ Source(n) \in graph.inputs[n]
        /\ Produced(n + 4) = {out} /\ out \in DOMAIN offset /\ Uses(out, n + 4)
    <2>1. 4 \in 0..4
      OBVIOUS
    <2>2. /\ n \in Nat /\ n + 4 <= NodeCount /\ NodeCount \in Nat
          /\ Source(n) \in graph.inputs[n + 3] /\ Source(n) \in graph.inputs[n]
      BY ChainFacts
    <2>3. Produced(n + 4) = {out} /\ out \in DOMAIN offset /\ Uses(out, n + 4)
      BY <2>1, ChainFacts
    <2> QED
      BY <2>2, <2>3
  <1> HIDE DEF out
  <1>2. ASSUME NEW t \in DOMAIN offset, Earlier(t, n), StillRead(t, n + 5)
        PROVE  t # out /\ Apart(out, t)
    <2>1. PICK m \in 1..(n - 1) : t \in Produced(m)
      BY <1>2 DEF Earlier
    <2>2. t # out
      <3>1. m \in 1..NodeCount /\ m # n + 4 /\ out \in Produced(n + 4)
        BY <1>1
      <3> QED
        BY <1>1, <2>1, <3>1 DEF SoundPlan
    <2>3. Needed(t, n + 4)
      <3>1. m \in 1..(n + 4) /\ \A j \in (n + 5)..NodeCount : j \in (n + 4)..NodeCount
        BY <1>1
      <3> QED
        BY <1>2, <2>1, <3>1 DEF Needed, StillRead
    <2>4. Needed(out, n + 4)
      <3>1. n + 4 \in 1..(n + 4) /\ n + 4 \in (n + 4)..NodeCount /\ out \in Produced(n + 4)
        BY <1>1
      <3> QED
        BY <1>1, <3>1 DEF Needed
    <2> QED
      BY <1>1, <2>2, <2>3, <2>4 DEF SoundPlan
  <1>3. ASSUME Source(n) \in DOMAIN offset
        PROVE  Apart(out, Source(n)) \/ offset[out] <= offset[Source(n)]
    <2>1. Earlier(Source(n), n)
      BY <1>1, <1>3, InputsEarlier
    <2>2. Earlier(Source(n), n + 4)
      <3>1. \A m \in 1..(n - 1) : m \in 1..(n + 4 - 1)
        BY <1>1
      <3> QED
        BY <2>1, <3>1 DEF Earlier
    <2>3. Uses(Source(n), n + 4 - 1)
      <3>1. n + 4 - 1 = n + 3
        BY <1>1
      <3> QED
        BY <1>1, <1>3, <3>1, InputsEarlier
    <2> QED
      BY <1>1, <1>3, <2>2, <2>3 DEF SoundPlan, out
  <1> QED
    BY <1>2, <1>3 DEF out

-----------------------------------------------------------------------------
(* Writing *)

\* The cells of a placed tensor are cells of the workspace.
LEMMA CellFacts ==
  ASSUME SoundPlan, NEW t \in DOMAIN offset
  PROVE  /\ offset[t] \in Nat /\ graph.bytes[t] \in Nat /\ MaxWord \in Nat
         /\ \A i \in Elements(t) : /\ i \in Nat /\ offset[t] + i - 1 \in Cells
                                   /\ offset[t] + i - 1 \in offset[t]..(offset[t] + graph.bytes[t] - 1)
                                   /\ offset[t] + i - 1 - offset[t] + 1 = i
  <1>1. offset[t] \in Nat /\ graph.bytes[t] \in Nat /\ MaxWord \in Nat
        /\ offset[t] + graph.bytes[t] <= MaxWord
    BY GraphFacts DEF SoundPlan
  <1> QED
    BY <1>1 DEF Elements, Cells

LEMMA WriteRight ==
  ASSUME SoundPlan, NEW t \in DOMAIN offset
  PROVE  Intact(Written(t, TRUE), t)
  BY CellFacts DEF Intact, ValueIn, Written

LEMMA WriteKeeps ==
  ASSUME SoundPlan, NEW t \in DOMAIN offset, NEW u, u \in DOMAIN offset => Apart(t, u),
         Intact(memory, u)
  PROVE  Intact(Written(t, TRUE), u)
  <1>1. CASE u \notin DOMAIN offset
    BY <1>1 DEF Intact, ValueIn
  <1>2. CASE u \in DOMAIN offset
    <2>1. ASSUME NEW i \in Elements(u)
          PROVE  offset[u] + i - 1 \notin offset[t]..(offset[t] + graph.bytes[t] - 1)
      <3>1. offset[t] \in Nat /\ offset[u] \in Nat /\ graph.bytes[t] \in Nat
            /\ graph.bytes[u] \in Nat /\ i \in 1..graph.bytes[u]
        BY <1>2, CellFacts DEF Elements
      <3> QED
        BY <1>2, <3>1 DEF Apart, Disjoint
    <2> QED
      BY <1>2, <2>1, CellFacts DEF Intact, ValueIn, Written
  <1> QED
    BY <1>1, <1>2

\* A node whose inputs are in their places computes its output, which takes the place
\* of nothing that is still read.
LEMMA NodeRight ==
  ASSUME SoundPlan, NEW n \in 1..NodeCount, Len(graph.outputs[n]) = 1, NodesRight(n)
  PROVE  /\ Computed(Out(n), graph.inputs[n]) = Written(Out(n), TRUE)
         /\ Intact(Written(Out(n), TRUE), Out(n))
         /\ \A t \in DOMAIN offset :
              Earlier(t, n + 1) /\ StillRead(t, n + 1) => Intact(Written(Out(n), TRUE), t)
  <1> DEFINE out == Out(n)
  <1>1. /\ Produced(n) = {out} /\ out \in DOMAIN offset /\ Uses(out, n)
        /\ NodeCount \in Nat /\ n \in Nat
    <2>1. Produced(n) = {out} /\ out \in DOMAIN offset /\ Uses(out, n)
      BY OneOutput
    <2>2. NodeCount \in Nat
      BY GraphFacts DEF SoundPlan
    <2> QED
      BY <2>1, <2>2
  <1>2. Intact(Written(out, TRUE), out)
    BY <1>1, WriteRight
  <1>3. ASSUME NEW t \in DOMAIN offset, Earlier(t, n), StillRead(t, n)
        PROVE  Apart(out, t) /\ t # out /\ Intact(Written(out, TRUE), t)
    <2>1. PICK m \in 1..(n - 1) : t \in Produced(m)
      BY <1>3 DEF Earlier
    <2>2. t # out
      <3>1. m \in 1..NodeCount /\ m # n /\ out \in Produced(n)
        BY <1>1
      <3> QED
        BY <2>1, <3>1 DEF SoundPlan
    <2>3. Needed(t, n) /\ Needed(out, n)
      <3>1. m \in 1..n /\ n \in 1..n /\ n \in n..NodeCount /\ out \in Produced(n)
        BY <1>1
      <3> QED
        BY <1>1, <1>3, <2>1, <3>1 DEF Needed, StillRead
    <2>4. Apart(out, t)
      BY <1>1, <2>2, <2>3 DEF SoundPlan
    <2>5. Intact(memory, t)
      BY <1>3 DEF NodesRight
    <2> QED
      BY <1>1, <2>2, <2>4, <2>5, WriteKeeps
  <1>4. ASSUME NEW u \in graph.inputs[n]
        PROVE  Intact(Written(out, TRUE), u)
    <2>1. CASE u \in DOMAIN offset
      BY <1>3, <1>4, <2>1, InputsEarlier
    <2>2. CASE u \notin DOMAIN offset
      BY <2>2 DEF Intact, ValueIn
    <2> QED
      BY <2>1, <2>2
  <1>5. Computed(out, graph.inputs[n]) = Written(out, TRUE)
    BY <1>4 DEF Computed, Written
  <1>6. ASSUME NEW t \in DOMAIN offset, Earlier(t, n + 1), StillRead(t, n + 1)
        PROVE  Intact(Written(out, TRUE), t)
    <2>1. PICK m \in 1..(n + 1 - 1) : t \in Produced(m)
      BY <1>6 DEF Earlier
    <2>2. CASE m = n
      <3>1. t = out
        BY <1>1, <2>1, <2>2
      <3> QED
        BY <1>2, <3>1
    <2>3. CASE m # n
      <3>1. m \in 1..(n - 1) /\ \A j \in (n + 1)..NodeCount : j \in n..NodeCount
        BY <1>1, <2>1, <2>3
      <3>2. Earlier(t, n) /\ StillRead(t, n)
        BY <1>6, <2>1, <3>1 DEF Earlier, StillRead
      <3> QED
        BY <1>3, <3>2
    <2> QED
      BY <2>2, <2>3
  <1> QED
    BY <1>2, <1>5, <1>6

-----------------------------------------------------------------------------
(* The steps *)

\* While the session executes, its plan and what is matched in its graph stay.
LEMMA GraphFrame ==
  ASSUME UNCHANGED plannerVars, UNCHANGED avx2
  PROVE  /\ NodeCount' = NodeCount /\ Result' = Result
         /\ HasTail' <=> HasTail
         /\ entry' = entry => NodeLimit' = NodeLimit
         /\ \A n : /\ Source(n)' = Source(n) /\ Out(n)' = Out(n)
                   /\ Fusible(n)' <=> Fusible(n)
         /\ \A t, n : /\ Earlier(t, n)' <=> Earlier(t, n)
                      /\ StillRead(t, n)' <=> StillRead(t, n)
         /\ \A t : Intact(memory, t)' <=> Intact(memory', t)
         /\ \A t, i : ValueIn(memory, t, i)' = ValueIn(memory', t, i)
  <1> USE DEF plannerVars
  <1>1. NodeCount' = NodeCount /\ \A n : Source(n)' = Source(n) /\ Out(n)' = Out(n)
    BY DEF NodeCount, Source, Out
  <1>2. Result' = Result /\ Scores' = Scores
    BY <1>1 DEF Result, Scores
  <1>3. \A t, n : Uses(t, n)' <=> Uses(t, n)
    BY DEF Uses, Produced
  <1>4. \A t, n : /\ Earlier(t, n)' <=> Earlier(t, n)
                  /\ StillRead(t, n)' <=> StillRead(t, n)
    BY <1>1, <1>3 DEF Earlier, StillRead, Produced
  <1>5. \A t : LastUse(t)' = LastUse(t)
    BY DEF LastUse, NodeCount, Uses, Produced
  <1>6. HasTail' <=> HasTail
    BY DEF HasTail, Result, LastUse, NodeCount, Uses, Produced
  <1>7. HasProjection' <=> HasProjection
    BY DEF HasProjection, Scores, Out, NodeCount
  <1>8. \A n : IsChain(n)' <=> IsChain(n)
    BY DEF IsChain, Source, Out, NodeCount
  <1>9. \A n : Private(n)' <=> Private(n)
    <2>1. \A n : LastUse(Out(n))' = LastUse(Out(n))
      BY DEF Out, LastUse, NodeCount, Uses, Produced
    <2> QED
      BY <2>1 DEF Private
  <1>10. entry' = entry => NodeLimit' = NodeLimit
    BY <1>1, <1>7 DEF NodeLimit
  <1>11. /\ \A t : Intact(memory, t)' <=> Intact(memory', t)
         /\ \A t, i : ValueIn(memory, t, i)' = ValueIn(memory', t, i)
    BY DEF Intact, ValueIn, Elements
  <1> QED
    BY <1>1, <1>2, <1>4, <1>6, <1>8, <1>9, <1>10, <1>11 DEF Fusible

\* What every step of an execution starts from.
LEMMA Executing ==
  ASSUME IInv, xpc # "idle"
  PROVE  /\ SoundPlan /\ NodeCount \in Nat /\ NodeLimit \in 0..NodeCount
         /\ current \in 1..(NodeLimit + 1) /\ current \in Nat
         /\ entry \in {"full", "greedy"} /\ (entry = "greedy" => HasTail)
  <1>1. /\ pc = "done" /\ current \in 1..(NodeLimit + 1)
        /\ entry \in {"full", "greedy"} /\ (entry = "greedy" => HasTail)
    BY DEF IInv, Phase
  <1>2. SoundPlan
    BY <1>1, PlanGives DEF IInv
  <1>3. NodeCount \in Nat
    BY <1>2, GraphFacts DEF SoundPlan
  <1>4. NodeLimit \in 0..NodeCount
    BY <1>1, <1>3 DEF NodeLimit, HasTail, HasProjection
  <1> QED
    BY <1>1, <1>2, <1>3, <1>4

LEMMA PlanningStep ==
  ASSUME IInv, Plan
  PROVE  IInv'
  <1>1. pc # "done" /\ PlannerNext /\ UNCHANGED execVars
    BY PlanIsFinal DEF Plan
  <1>2. xpc = "idle" /\ xpc' = xpc /\ result' = result /\ entry' = entry
    BY <1>1 DEF IInv, Phase, execVars
  <1>3. PlanRight'
    BY <1>1, PlanStep DEF IInv
  <1> QED
    BY <1>2, <1>3 DEF IInv, Phase, ResultExact

\* An execution starts with nothing in its place, and nothing is expected.
LEMMA ExecuteStep ==
  ASSUME IInv, NEW how \in {"full", "greedy"}, Execute(how)
  PROVE  IInv'
  <1>1. /\ UNCHANGED plannerVars /\ UNCHANGED avx2 /\ pc = "done" /\ pc' = pc
        /\ entry' = how /\ (how = "greedy" => HasTail)
        /\ xpc' = "nodes" /\ current' = 1 /\ result' = "none"
    BY DEF Execute, plannerVars
  <1>2. PlanRight'
    BY <1>1, PlanStep DEF IInv
  <1>3. NodeCount \in Nat
    BY <1>1, PlanGives, GraphFacts DEF IInv, SoundPlan
  <1>4. (NodeLimit \in Nat)'
    <2>1. HasTail' <=> HasTail
      BY <1>1, GraphFrame
    <2>2. NodeCount' \in Nat
      BY <1>1, <1>3, GraphFrame
    <2>3. (entry = "greedy" => HasTail)' /\ entry' \in {"full", "greedy"}
      BY <1>1, <2>1
    <2> QED
      BY <2>2, <2>3 DEF NodeLimit, HasTail, HasProjection
  <1>5. Phase'
    <2>1. (current \in 1..(NodeLimit + 1))'
      <3>1. PICK l \in Nat : NodeLimit' = l
        BY <1>4
      <3>2. 1 \in 1..(l + 1)
        OBVIOUS
      <3> QED
        BY <1>1, <3>1, <3>2
    <2>2. (entry = "greedy" => HasTail)'
      BY <1>1, GraphFrame
    <2> QED
      BY <1>1, <2>1, <2>2 DEF Phase
  <1>6. NodesRight(current)'
    BY <1>1 DEF NodesRight, Earlier
  <1> QED
    BY <1>1, <1>2, <1>5, <1>6 DEF IInv, ResultExact

LEMMA RunNodeStep ==
  ASSUME IInv, RunNode
  PROVE  IInv'
  <1>1. /\ UNCHANGED plannerVars /\ UNCHANGED avx2 /\ pc' = pc /\ entry' = entry
        /\ xpc = "nodes" /\ xpc' = xpc /\ result' = result /\ current <= NodeLimit
        /\ Len(graph.outputs[current]) = 1 /\ current' = current + 1
        /\ memory' = Computed(Out(current), graph.inputs[current])
    BY DEF RunNode, plannerVars
  <1>2. /\ SoundPlan /\ NodeCount \in Nat /\ NodeLimit \in 0..NodeCount
        /\ current \in 1..NodeCount /\ current \in Nat
    BY <1>1, Executing
  <1>3. NodesRight(current)
    BY <1>1 DEF IInv
  <1>4. \A t \in DOMAIN offset :
          Earlier(t, current + 1) /\ StillRead(t, current + 1) => Intact(memory', t)
    BY <1>1, <1>2, <1>3, NodeRight
  <1>5. NodesRight(current)'
    <2>1. offset' = offset
      BY <1>1 DEF plannerVars
    <2> QED
      BY <1>1, <1>4, <2>1, GraphFrame DEF NodesRight
  <1>6. Phase'
    BY <1>1, <1>2, GraphFrame DEF IInv, Phase
  <1>7. PlanRight'
    BY <1>1, PlanStep DEF IInv
  <1> QED
    BY <1>1, <1>5, <1>6, <1>7 DEF IInv, ResultExact

LEMMA StartGeluStep ==
  ASSUME IInv, StartGelu
  PROVE  IInv'
  <1>1. /\ UNCHANGED plannerVars /\ UNCHANGED avx2 /\ pc' = pc /\ entry' = entry
        /\ xpc = "nodes" /\ xpc' = "gelu" /\ result' = result /\ current <= NodeLimit
        /\ current' = current /\ memory' = memory /\ lane' = 1 /\ Fusible(current)
    BY DEF StartGelu, plannerVars
  <1>2. /\ SoundPlan /\ NodeCount \in Nat /\ NodeLimit \in 0..NodeCount
        /\ current \in 1..NodeLimit /\ current \in 1..NodeCount /\ current \in Nat
        /\ entry \in {"full", "greedy"} /\ (entry = "greedy" => HasTail)
    BY <1>1, Executing
  <1> DEFINE source == Source(current)
             out == Out(current + 4)
  <1>3. /\ source \in graph.inputs[current] /\ graph.bytes[source] \in Nat
    BY <1>1, <1>2, ChainFacts
  <1>4. NodesRight(current)
    BY <1>1 DEF IInv
  <1>5. \A i \in 1..graph.bytes[source] : ValueIn(memory, source, i) = <<source, i>>
    <2>1. CASE source \in DOMAIN offset
      BY <1>2, <1>3, <1>4, <2>1, InputsEarlier DEF NodesRight, Intact, Elements
    <2>2. CASE source \notin DOMAIN offset
      BY <2>2 DEF ValueIn
    <2> QED
      BY <2>1, <2>2
  <1>6. ASSUME NEW t \in DOMAIN offset, Earlier(t, current), StillRead(t, current + 5)
        PROVE  Intact(memory, t)
    <2>1. \A j \in (current + 5)..NodeCount : j \in current..NodeCount
      BY <1>2
    <2> QED
      BY <1>4, <1>6, <2>1 DEF NodesRight, StillRead
  <1>7. GeluRight'
    <2>1. offset' = offset /\ graph' = graph
      BY <1>1 DEF plannerVars
    <2>2. /\ Source(current') = source /\ Source(current)' = source
          /\ NodeLimit' = NodeLimit /\ Fusible(current)'
          /\ \A t : /\ Earlier(t, current)' <=> Earlier(t, current)
                    /\ StillRead(t, current + 5)' <=> StillRead(t, current + 5)
                    /\ Intact(memory, t)' <=> Intact(memory, t)
          /\ \A t, i : ValueIn(memory, t, i)' = ValueIn(memory, t, i)
      BY <1>1, GraphFrame
    <2>3. (lane \in 1..(graph.bytes[Source(current)] + 1))'
      BY <1>1, <1>3, <2>1, <2>2
    <2>4. (\A t \in DOMAIN offset :
             Earlier(t, current) /\ StillRead(t, current + 5) => Intact(memory, t))'
      BY <1>1, <1>6, <2>1, <2>2
    <2>5. (\A i \in lane..graph.bytes[Source(current)] :
             ValueIn(memory, Source(current), i) = <<Source(current), i>>)'
      BY <1>1, <1>5, <2>1, <2>2
    <2>6. (\A i \in 1..(lane - 1) :
             memory[offset[Out(current + 4)] + i - 1] = <<Out(current + 4), i>>)'
      BY <1>1
    <2>7. (current <= NodeLimit)'
      BY <1>1, <2>2
    <2> QED
      BY <2>2, <2>3, <2>4, <2>5, <2>6, <2>7 DEF GeluRight
  <1>8. Phase'
    BY <1>1, <1>2, GraphFrame DEF IInv, Phase
  <1>9. PlanRight'
    BY <1>1, PlanStep DEF IInv
  <1> QED
    BY <1>1, <1>7, <1>8, <1>9 DEF IInv, ResultExact

\* A round takes the next elements, all of them within the tensor.
LEMMA RoundFacts ==
  ASSUME NEW count \in Nat, lane \in 1..count
  PROVE  \E last \in lane..count : Round(count) = lane..last /\ Cardinality(Round(count)) = last - lane + 1
  <1>1. \E last \in lane..count : Round(count) = lane..last
    <2>1. CASE lane + Lanes - 1 <= count
      <3>1. Lanes \in Nat /\ Lanes >= 1
        BY GraphExecutorAssumption
      <3>2. lane + Lanes - 1 \in lane..count
        BY <2>1, <3>1
      <3>3. Round(count) = lane..(lane + Lanes - 1)
        BY <2>1 DEF Round
      <3> QED
        BY <3>2, <3>3
    <2>2. CASE ~(lane + Lanes - 1 <= count)
      <3>1. Round(count) = lane..lane /\ lane \in lane..count
        BY <2>2 DEF Round
      <3> QED
        BY <3>1
    <2> QED
      BY <2>1, <2>2
  <1>2. PICK last \in lane..count : Round(count) = lane..last
    BY <1>1
  <1>3. Cardinality(lane..last) = last - lane + 1
    BY FS_Interval
  <1> QED
    BY <1>2, <1>3

\* A round overwrites nothing that is read later: not what other nodes read, and of the
\* source only elements that have been loaded.
LEMMA GeluRoundStep ==
  ASSUME IInv, GeluRound
  PROVE  IInv'
  <1> DEFINE source == Source(current)
             out == Out(current + 4)
             count == graph.bytes[source]
  <1>1. /\ UNCHANGED plannerVars /\ UNCHANGED avx2 /\ pc' = pc /\ entry' = entry
        /\ xpc = "gelu" /\ xpc' = xpc /\ result' = result /\ current' = current
        /\ lane <= count
        /\ lane' = lane + Cardinality(Round(count))
        /\ memory' = [c \in Cells |->
             IF c >= offset[out] /\ c + 1 - offset[out] \in Round(count)
             THEN IF ValueIn(memory, source, c + 1 - offset[out]) = <<source, c + 1 - offset[out]>>
                  THEN <<out, c + 1 - offset[out]>> ELSE Junk
             ELSE memory[c]]
    BY DEF GeluRound, plannerVars
  <1>2. /\ SoundPlan /\ NodeCount \in Nat /\ NodeLimit \in 0..NodeCount
        /\ current \in Nat
        /\ entry \in {"full", "greedy"} /\ (entry = "greedy" => HasTail)
    BY <1>1, Executing
  <1>3. /\ current \in 1..NodeLimit /\ Fusible(current)
        /\ lane \in 1..(count + 1)
        /\ \A t \in DOMAIN offset :
             Earlier(t, current) /\ StillRead(t, current + 5) => Intact(memory, t)
        /\ \A i \in lane..count : ValueIn(memory, source, i) = <<source, i>>
        /\ \A i \in 1..(lane - 1) : memory[offset[out] + i - 1] = <<out, i>>
    <2>1. GeluRight /\ current \in 1..(NodeLimit + 1)
      BY <1>1, <1>2, Executing DEF IInv
    <2>2. current \in 1..NodeLimit
      BY <1>2, <2>1 DEF GeluRight
    <2> QED
      BY <2>1, <2>2 DEF GeluRight
  <1>4. /\ graph.bytes[out] = count /\ count \in Nat
        /\ out \in DOMAIN offset
    <2>1. 4 \in 0..4
      OBVIOUS
    <2>2. graph.bytes[out] = count /\ count \in Nat
      BY <1>2, <1>3, ChainFacts
    <2> QED
      BY <1>2, <1>3, <2>1, <2>2, ChainFacts
  <1>5. /\ \A t \in DOMAIN offset :
             Earlier(t, current) /\ StillRead(t, current + 5) => Apart(out, t)
        /\ source \in DOMAIN offset => Apart(out, source) \/ offset[out] <= offset[source]
    BY <1>2, <1>3, GeluSafe
  <1>6. PICK last \in lane..count : Round(count) = lane..last /\ lane' = last + 1
    <2>1. lane \in 1..count
      BY <1>1, <1>3, <1>4
    <2>2. PICK l \in lane..count :
            Round(count) = lane..l /\ Cardinality(Round(count)) = l - lane + 1
      BY <1>4, <2>1, RoundFacts
    <2> QED
      BY <1>1, <1>4, <2>1, <2>2
  <1> HIDE DEF source, out, count
  <1>7. /\ lane \in Nat /\ last \in Nat /\ lane <= last /\ last <= count /\ 1 <= lane
        /\ offset[out] \in Nat
        /\ \A c \in Cells : c \in Nat
        /\ \A i \in 1..count : offset[out] + i - 1 \in Cells
    <2>1. lane \in Nat /\ last \in Nat /\ lane <= last /\ last <= count /\ 1 <= lane
      <3>1. lane \in 1..(count + 1) /\ count \in Nat /\ last \in lane..count
        BY <1>3, <1>4, <1>6
      <3> QED
        BY <3>1
    <2>2. offset[out] \in Nat /\ MaxWord \in Nat
      BY <1>2, <1>4, CellFacts
    <2>3. \A i \in 1..count : offset[out] + i - 1 \in Cells
      BY <1>2, <1>4, CellFacts DEF Elements
    <2>4. \A c \in Cells : c \in Nat
      BY <2>2 DEF Cells
    <2> QED
      BY <2>1, <2>2, <2>3, <2>4
  <1>8. ASSUME NEW c \in Cells, \A i \in lane..last : c # offset[out] + i - 1
        PROVE  memory'[c] = memory[c]
    <2>1. ~(c >= offset[out] /\ c + 1 - offset[out] \in lane..last)
      <3>1. c = offset[out] + (c + 1 - offset[out]) - 1
        BY <1>7
      <3> QED
        BY <1>8, <3>1
    <2> QED
      BY <1>1, <1>6, <2>1
  <1>9. ASSUME NEW i \in lane..last
        PROVE  memory'[offset[out] + i - 1] = <<out, i>>
    <2>1. /\ i \in 1..count /\ i \in lane..count /\ i \in Nat
          /\ offset[out] + i - 1 \in Cells /\ offset[out] + i - 1 >= offset[out]
          /\ (offset[out] + i - 1) + 1 - offset[out] = i
      BY <1>4, <1>7
    <2>2. ValueIn(memory, source, i) = <<source, i>>
      BY <1>3, <2>1
    <2> QED
      BY <1>1, <1>6, <2>1, <2>2
  <1>10. ASSUME NEW t \in DOMAIN offset, Apart(out, t), NEW i \in Elements(t)
         PROVE  ValueIn(memory', t, i) = ValueIn(memory, t, i)
    <2>1. /\ offset[t] \in Nat /\ graph.bytes[t] \in Nat /\ i \in 1..graph.bytes[t]
          /\ offset[t] + i - 1 \in Cells
      BY <1>2, CellFacts DEF Elements
    <2>2. \A j \in lane..last : offset[t] + i - 1 # offset[out] + j - 1
      BY <1>4, <1>7, <1>10, <2>1 DEF Apart, Disjoint
    <2> QED
      BY <1>8, <2>1, <2>2 DEF ValueIn
  <1>11. ASSUME NEW t \in DOMAIN offset, Earlier(t, current), StillRead(t, current + 5)
         PROVE  Intact(memory', t)
    BY <1>3, <1>5, <1>10, <1>11 DEF Intact
  <1>12. ASSUME NEW i \in (last + 1)..count
         PROVE  ValueIn(memory', source, i) = <<source, i>>
    <2>1. i \in lane..count /\ i \in Elements(source) /\ i \in Nat /\ i > last
      BY <1>4, <1>7 DEF Elements, count
    <2>2. ValueIn(memory, source, i) = <<source, i>>
      BY <1>3, <2>1
    <2>3. CASE source \notin DOMAIN offset
      BY <2>3 DEF ValueIn
    <2>4. CASE source \in DOMAIN offset /\ Apart(out, source)
      BY <1>10, <2>1, <2>2, <2>4
    <2>5. CASE source \in DOMAIN offset /\ offset[out] <= offset[source]
      <3>1. offset[source] \in Nat /\ offset[source] + i - 1 \in Cells
        BY <1>2, <2>1, <2>5, CellFacts
      <3>2. \A j \in lane..last : offset[source] + i - 1 # offset[out] + j - 1
        BY <1>7, <2>1, <2>5, <3>1
      <3> QED
        BY <1>8, <2>2, <2>5, <3>1, <3>2 DEF ValueIn
    <2> QED
      BY <1>5, <2>3, <2>4, <2>5
  <1>13. ASSUME NEW i \in 1..last
         PROVE  memory'[offset[out] + i - 1] = <<out, i>>
    <2>1. CASE i >= lane
      <3>1. i \in lane..last
        BY <1>7, <2>1
      <3> QED
        BY <1>9, <3>1
    <2>2. CASE i < lane
      <3>1. i \in 1..(lane - 1) /\ offset[out] + i - 1 \in Cells
            /\ \A j \in lane..last : offset[out] + i - 1 # offset[out] + j - 1
        BY <1>4, <1>7, <2>2
      <3> QED
        BY <1>3, <1>8, <3>1
    <2> QED
      BY <1>7, <2>1, <2>2
  <1>14. GeluRight'
    <2>1. offset' = offset /\ graph' = graph /\ lane' = last + 1
      BY <1>1, <1>6 DEF plannerVars
    <2>2. /\ Source(current)' = source /\ Out(current + 4)' = out
          /\ NodeLimit' = NodeLimit /\ Fusible(current)'
          /\ \A t : /\ Earlier(t, current)' <=> Earlier(t, current)
                    /\ StillRead(t, current + 5)' <=> StillRead(t, current + 5)
                    /\ Intact(memory, t)' <=> Intact(memory', t)
          /\ \A t, i : ValueIn(memory, t, i)' = ValueIn(memory', t, i)
      BY <1>1, <1>3, GraphFrame DEF source, out
    <2>3. (lane \in 1..(graph.bytes[Source(current)] + 1))'
      BY <1>4, <1>7, <2>1, <2>2 DEF count
    <2>4. (\A t \in DOMAIN offset :
             Earlier(t, current) /\ StillRead(t, current + 5) => Intact(memory, t))'
      BY <1>1, <1>11, <2>1, <2>2
    <2>5. (\A i \in lane..graph.bytes[Source(current)] :
             ValueIn(memory, Source(current), i) = <<Source(current), i>>)'
      BY <1>12, <2>1, <2>2 DEF count
    <2>6. (\A i \in 1..(lane - 1) :
             memory[offset[Out(current + 4)] + i - 1] = <<Out(current + 4), i>>)'
      <3>1. lane' - 1 = last
        BY <1>7, <2>1
      <3>2. \A i \in 1..(lane' - 1) : memory'[offset'[out] + i - 1] = <<out, i>>
        BY <1>13, <2>1, <3>1
      <3>3. Out(current + 4)' = out
        BY <2>2
      <3> QED
        BY <3>2, <3>3
    <2>7. (current <= NodeLimit)'
      BY <1>1, <1>3, <2>2
    <2> QED
      BY <2>2, <2>3, <2>4, <2>5, <2>6, <2>7 DEF GeluRight
  <1>15. Phase'
    BY <1>1, <1>2, GraphFrame DEF IInv, Phase
  <1>16. PlanRight'
    BY <1>1, PlanStep DEF IInv
  <1> QED
    BY <1>1, <1>14, <1>15, <1>16 DEF IInv, ResultExact

\* What came before the node that follows a chain.
LEMMA EarlierThanNext ==
  ASSUME NEW n \in Nat, NEW t, Earlier(t, n + 5)
  PROVE  \E m \in 1..(n + 4) : t \in Produced(m)
  <1>1. n + 5 - 1 = n + 4
    OBVIOUS
  <1> QED
    BY <1>1 DEF Earlier

\* After the kernel the chain's result is computed, and what it skipped is not read.
LEMMA EndGeluStep ==
  ASSUME IInv, EndGelu
  PROVE  IInv'
  <1> DEFINE n == current
             out == Out(n + 4)
             count == graph.bytes[Source(n)]
  <1>1. /\ UNCHANGED plannerVars /\ UNCHANGED avx2 /\ pc' = pc /\ entry' = entry
        /\ xpc = "gelu" /\ xpc' = "nodes" /\ result' = result /\ current' = n + 5
        /\ memory' = memory /\ lane > count
    BY DEF EndGelu, After, plannerVars
  <1>2. /\ SoundPlan /\ entry \in {"full", "greedy"} /\ (entry = "greedy" => HasTail)
        /\ n \in 1..(NodeLimit + 1) /\ NodeLimit \in Nat
    <2>1. /\ SoundPlan /\ entry \in {"full", "greedy"} /\ (entry = "greedy" => HasTail)
          /\ n \in 1..(NodeLimit + 1) /\ NodeLimit \in 0..NodeCount /\ NodeCount \in Nat
      BY <1>1, Executing
    <2> QED
      BY <2>1
  <1>3. /\ n \in 1..NodeLimit /\ Fusible(n) /\ lane \in 1..(count + 1)
        /\ \A t \in DOMAIN offset :
             Earlier(t, n) /\ StillRead(t, n + 5) => Intact(memory, t)
        /\ \A i \in 1..(lane - 1) : memory[offset[out] + i - 1] = <<out, i>>
    <2>1. GeluRight
      BY <1>1 DEF IInv
    <2>2. n \in 1..NodeLimit
      BY <1>2, <2>1 DEF GeluRight
    <2> QED
      BY <2>1, <2>2 DEF GeluRight
  <1>4. /\ n \in Nat /\ n + 4 <= NodeLimit /\ count \in Nat /\ graph.bytes[out] = count
        /\ \A k \in 0..3 : ~StillRead(Out(n + k), n + 5)
    BY <1>2, <1>3, ChainFacts
  <1>5. /\ \A k \in 0..4 : Produced(n + k) = {Out(n + k)}
        /\ out \in DOMAIN offset
    <2>1. 4 \in 0..4
      OBVIOUS
    <2>2. \A k \in 0..4 : Produced(n + k) = {Out(n + k)} /\ Out(n + k) \in DOMAIN offset
      BY <1>2, <1>3, ChainFacts
    <2> QED
      BY <2>1, <2>2
  <1>6. Intact(memory, out)
    <2>1. lane = count + 1 /\ lane - 1 = count
      BY <1>1, <1>3, <1>4
    <2>2. \A i \in 1..count : memory[offset[out] + i - 1] = <<out, i>>
      BY <1>3, <2>1
    <2> QED
      BY <1>4, <1>5, <2>2 DEF Intact, ValueIn, Elements
  <1>7. ASSUME NEW t \in DOMAIN offset, Earlier(t, n + 5), StillRead(t, n + 5)
        PROVE  Intact(memory, t)
    <2>1. PICK m \in 1..(n + 4) : t \in Produced(m)
      BY <1>4, <1>7, EarlierThanNext
    <2>2. CASE m < n
      <3>1. m \in 1..(n - 1)
        BY <1>4, <2>1, <2>2
      <3> QED
        BY <1>3, <1>7, <2>1, <3>1 DEF Earlier
    <2>3. CASE m >= n
      <3>1. PICK k \in 0..4 : m = n + k
        <4>1. m - n \in 0..4 /\ m = n + (m - n)
          BY <1>4, <2>1, <2>3
        <4> QED
          BY <4>1
      <3>2. t = Out(n + k)
        BY <1>5, <2>1, <3>1
      <3>3. k \notin 0..3
        BY <1>4, <1>7, <3>2
      <3>4. k = 4
        BY <3>1, <3>3
      <3> QED
        BY <1>6, <3>2, <3>4
    <2> QED
      BY <1>4, <2>1, <2>2, <2>3
  <1>8. NodesRight(current)'
    <2>1. offset' = offset
      BY <1>1 DEF plannerVars
    <2> QED
      BY <1>1, <1>7, <2>1, GraphFrame DEF NodesRight
  <1>9. Phase'
    <2>1. n + 5 \in 1..(NodeLimit + 1)
      BY <1>2, <1>4
    <2> QED
      BY <1>1, <2>1, GraphFrame DEF IInv, Phase
  <1>10. PlanRight'
    BY <1>1, PlanStep DEF IInv
  <1> QED
    BY <1>1, <1>8, <1>9, <1>10 DEF IInv, ResultExact

\* An execution ends without a wrong answer.
LEMMA StopStep ==
  ASSUME IInv, UNCHANGED plannerVars, xpc' = "idle", entry' = entry, result' # "corrupt"
  PROVE  IInv'
  <1>1. PlanRight'
    BY PlanStep DEF IInv
  <1> QED
    BY <1>1 DEF IInv, Phase, ResultExact

\* The caller's result is the output of a node, or nothing was computed for it.
LEMMA FinishFullStep ==
  ASSUME IInv, FinishFull
  PROVE  IInv'
  <1>1. /\ UNCHANGED plannerVars /\ xpc = "nodes" /\ xpc' = "idle" /\ entry' = entry
        /\ entry = "full" /\ current > NodeLimit
        /\ result' = IF Intact(memory, Result) THEN "exact" ELSE "corrupt"
    BY DEF FinishFull, Answer
  <1>2. SoundPlan /\ NodeCount \in Nat /\ NodeLimit = NodeCount /\ current = NodeCount + 1
    <2>1. SoundPlan /\ NodeCount \in Nat /\ current \in 1..(NodeLimit + 1)
      BY <1>1, Executing
    <2>2. NodeLimit = NodeCount
      BY <1>1 DEF NodeLimit
    <2> QED
      BY <1>1, <2>1, <2>2
  <1>3. Intact(memory, Result)
    <2>1. CASE Result \in DOMAIN offset
      <3>1. NodesRight(NodeCount + 1)
        BY <1>1, <1>2 DEF IInv
      <3>2. NodeCount + 1 - 1 = NodeCount
        BY <1>2
      <3>3. Earlier(Result, NodeCount + 1)
        BY <1>2, <2>1, <3>2 DEF SoundPlan, Earlier
      <3>4. StillRead(Result, NodeCount + 1)
        BY <1>2, GraphFacts DEF SoundPlan, StillRead
      <3> QED
        BY <2>1, <3>1, <3>3, <3>4 DEF NodesRight
    <2>2. CASE Result \notin DOMAIN offset
      BY <2>2 DEF Intact, ValueIn
    <2> QED
      BY <2>1, <2>2
  <1> QED
    BY <1>1, <1>3, StopStep

\* The scores are the input of the terminal Softmax, which has not run.
LEMMA FinishScoresStep ==
  ASSUME IInv, FinishScores
  PROVE  IInv'
  <1>1. /\ UNCHANGED plannerVars /\ xpc = "nodes" /\ xpc' = "idle" /\ entry' = entry
        /\ entry = "greedy" /\ current > NodeLimit /\ ~HasProjection
        /\ result' = IF Intact(memory, Scores) THEN "exact" ELSE "corrupt"
    BY DEF FinishScores, Answer
  <1>2. /\ SoundPlan /\ NodeCount \in 1..NodeCount /\ HasTail /\ current = NodeCount
    <2>1. /\ SoundPlan /\ NodeCount \in Nat /\ HasTail
          /\ current \in 1..(NodeLimit + 1)
      BY <1>1, Executing
    <2>2. NodeLimit = NodeCount - 1 /\ NodeCount > 0
      BY <1>1, <2>1 DEF NodeLimit, HasTail
    <2> QED
      BY <1>1, <2>1, <2>2
  <1>3. Scores \in graph.inputs[NodeCount]
    <2>1. graph.inputs[NodeCount] # {}
      BY <1>2, FS_EmptySet DEF HasTail
    <2> QED
      BY <2>1 DEF Scores
  <1>4. Intact(memory, Scores)
    <2>1. CASE Scores \in DOMAIN offset
      <3>1. Earlier(Scores, NodeCount) /\ StillRead(Scores, NodeCount)
        BY <1>2, <1>3, <2>1, InputsEarlier
      <3> QED
        BY <1>1, <1>2, <2>1, <3>1 DEF IInv, NodesRight
    <2>2. CASE Scores \notin DOMAIN offset
      BY <2>2 DEF Intact, ValueIn
    <2> QED
      BY <2>1, <2>2
  <1> QED
    BY <1>1, <1>4, StopStep

\* The fused projection is the product's node run by another kernel.
LEMMA FinishProjectionStep ==
  ASSUME IInv, FinishProjection
  PROVE  IInv'
  <1> DEFINE n == NodeCount - 2
  <1>1. /\ UNCHANGED plannerVars /\ xpc = "nodes" /\ xpc' = "idle" /\ entry' = entry
        /\ entry = "greedy" /\ current > NodeLimit /\ HasProjection
        /\ memory' = Computed(Out(n), graph.inputs[n])
        /\ result' = IF Intact(memory', Out(n)) THEN "exact" ELSE "corrupt"
    BY DEF FinishProjection, Answer
  <1>2. /\ SoundPlan /\ n \in 1..NodeCount /\ current = n /\ Len(graph.outputs[n]) = 1
    <2>1. SoundPlan /\ NodeCount \in Nat /\ current \in 1..(NodeLimit + 1)
      BY <1>1, Executing
    <2>2. NodeLimit = NodeCount - 3 /\ NodeCount >= 3 /\ Len(graph.outputs[n]) = 1
      BY <1>1 DEF NodeLimit, HasProjection
    <2> QED
      BY <1>1, <2>1, <2>2
  <1>3. NodesRight(n)
    BY <1>1, <1>2 DEF IInv
  <1> HIDE DEF n
  <1>4. Intact(memory', Out(n))
    BY <1>1, <1>2, <1>3, NodeRight
  <1> QED
    BY <1>1, <1>4, StopStep

LEMMA StepInvariant ==
  IInv /\ [Next]_vars => IInv'
  <1> SUFFICES ASSUME IInv, [Next]_vars PROVE IInv'
    OBVIOUS
  <1>1. CASE Plan
    BY <1>1, PlanningStep
  <1>2. CASE \E how \in {"full", "greedy"} : Execute(how)
    BY <1>2, ExecuteStep
  <1>3. CASE RunNode
    BY <1>3, RunNodeStep
  <1>4. CASE NodeFails
    <2>1. UNCHANGED plannerVars /\ xpc' = "idle" /\ entry' = entry /\ result' = "error"
      BY <1>4 DEF NodeFails
    <2> QED
      BY <2>1, StopStep
  <1>5. CASE StartGelu
    BY <1>5, StartGeluStep
  <1>6. CASE GeluRound
    BY <1>6, GeluRoundStep
  <1>7. CASE EndGelu
    BY <1>7, EndGeluStep
  <1>8. CASE FinishFull
    BY <1>8, FinishFullStep
  <1>9. CASE FinishScores
    BY <1>9, FinishScoresStep
  <1>10. CASE FinishProjection
    BY <1>10, FinishProjectionStep
  <1>11. CASE FinishFails
    <2>1. UNCHANGED plannerVars /\ xpc' = "idle" /\ entry' = entry /\ result' = "error"
      BY <1>11 DEF FinishFails
    <2> QED
      BY <2>1, StopStep
  <1>12. CASE UNCHANGED vars
    <2>1. UNCHANGED plannerVars /\ UNCHANGED avx2
          /\ memory' = memory /\ entry' = entry /\ xpc' = xpc /\ current' = current
          /\ lane' = lane /\ result' = result /\ pc' = pc /\ offset' = offset
          /\ graph' = graph
      BY <1>12 DEF vars, plannerVars, execVars
    <2>2. PlanRight'
      BY <2>1, PlanStep DEF IInv
    <2>3. Phase'
      BY <2>1, GraphFrame DEF IInv, Phase
    <2>4. xpc' = "nodes" => NodesRight(current)'
      BY <2>1, GraphFrame DEF IInv, NodesRight
    <2>5. xpc' = "gelu" => GeluRight'
      BY <2>1, GraphFrame DEF IInv, GeluRight
    <2> QED
      BY <2>1, <2>2, <2>3, <2>4, <2>5 DEF IInv, ResultExact
  <1> QED
    BY <1>1, <1>2, <1>3, <1>4, <1>5, <1>6, <1>7, <1>8, <1>9, <1>10, <1>11, <1>12 DEF Next

LEMMA InitInvariant == Init => IInv
  <1> SUFFICES ASSUME Init PROVE IInv
    OBVIOUS
  <1>1. PlannerInit
    BY DEF Init
  <1>2. PlanRight
    BY <1>1, WorkspacePlannerAssumption, PlanInitInvariant, ReuseInit DEF PlanRight
  <1> QED
    BY <1>2 DEF Init, IInv, Phase, ResultExact

LEMMA Invariant == Spec => []IInv
  BY InitInvariant, StepInvariant, PTL DEF Spec

-----------------------------------------------------------------------------
(* What an execution promises *)

\* Whatever is fused, and wherever the planner put the tensors, an execution that
\* succeeds delivers what the nodes compute one by one (lw_execute_session_f32).
THEOREM FusionsAreExact == Spec => []ResultExact
  <1>1. IInv => ResultExact
    BY DEF IInv
  <1> QED
    BY <1>1, Invariant, PTL

\* While the fused GELU runs, its output's place belongs to nothing that a later node
\* reads, and overlaps its source at most from below (match_avx2_gelu, lw_avx2_gelu_f32).
THEOREM FusedWritesAreSafe == Spec => []FusedWriteSafe
  <1>1. IInv => FusedWriteSafe
    <2> SUFFICES ASSUME IInv, xpc = "gelu"
                 PROVE  FusedWriteSafe
      BY DEF FusedWriteSafe
    <2> DEFINE n == current
               out == Out(n + 4)
    <2>1. /\ SoundPlan /\ entry \in {"full", "greedy"} /\ (entry = "greedy" => HasTail)
          /\ n \in 1..NodeLimit /\ Fusible(n)
      <3>1. /\ SoundPlan /\ entry \in {"full", "greedy"} /\ (entry = "greedy" => HasTail)
            /\ NodeLimit \in 0..NodeCount /\ NodeCount \in Nat /\ n \in 1..(NodeLimit + 1)
        BY Executing
      <3>2. n <= NodeLimit /\ Fusible(n)
        BY DEF IInv, GeluRight
      <3> QED
        BY <3>1, <3>2
    <2>2. ASSUME NEW t \in DOMAIN offset, Needed(t, n + 5),
                 \E m \in 1..(n - 1) : t \in Produced(m)
          PROVE  Apart(out, t)
      <3>1. Earlier(t, n)
        BY <2>2 DEF Earlier, Produced
      <3>2. StillRead(t, n + 5)
        BY <2>2 DEF Needed, StillRead
      <3> QED
        BY <2>1, <3>1, <3>2, GeluSafe
    <2>3. Source(n) \in DOMAIN offset =>
            Apart(out, Source(n)) \/ offset[out] <= offset[Source(n)]
      BY <2>1, GeluSafe
    <2> QED
      BY <2>2, <2>3 DEF FusedWriteSafe, Apart
  <1> QED
    BY <1>1, Invariant, PTL

-----------------------------------------------------------------------------
(* The convolution node *)

\* The convolution of worker w, and the output channels it stores.
SliceOf(w) == Slice(conv, PreparedKind(conv, level), w, workers)
ChannelsOf(w) == SliceOf(w).output..(SliceOf(w).output + SliceOf(w).oc - 1)
CallOf(w) == [kernel |-> Kernel, conv |-> SliceOf(w)]

\* The workers that have stored channel o: their slices have been run.
Writers(o) == {w \in (0..(workers - 1)) \ pending : o \in ChannelsOf(w)}

\* A node is cut only where its channels are whole blocks of the packed weights.
CutWhole == workers > 1 /\ conv.oc % ItemSize(PreparedKind(conv, level)) = 0

NodeInv ==
  /\ conv \in Convs /\ threads \in ThreadCounts /\ workers \in Nat
  /\ phase \in {"ready", "parallel", "serial", "done"}
  /\ pending \subseteq 0..(workers - 1)
  /\ stores = [o \in 0..(conv.oc - 1) |-> stores[o]]
  /\ phase \in {"ready", "serial"} => \A o \in DOMAIN stores : stores[o] = {}
  /\ phase = "parallel" => CutWhole
  /\ phase = "parallel" => \A o \in DOMAIN stores : stores[o] = {CallOf(w) : w \in Writers(o)}
  /\ phase = "done" => \A o \in DOMAIN stores : \E call \in stores[o] : stores[o] = {call}

LEMMA DivMonotone ==
  ASSUME NEW a \in Nat, NEW b \in Nat, NEW n \in Nat \ {0}, a <= b
  PROVE a \div n <= b \div n
<1>1. /\ a \div n \in Int /\ n * (a \div n) <= a
      /\ b \div n \in Int /\ b < n * (b \div n) + n
  BY Z3
<1>2. SUFFICES ASSUME b \div n + 1 <= a \div n PROVE FALSE
  BY <1>1
<1>3. n * (b \div n + 1) <= n * (a \div n)
  BY <1>1, <1>2, Z3
<1> QED BY <1>1, <1>3, Z3

LEMMA TimesMonotone ==
  ASSUME NEW a \in Nat, NEW b \in Nat, NEW n \in Nat, a <= b
  PROVE a * n <= b * n
BY Z3

\* The cuts of m * item channels into n slices are in order, from 0 to the last channel.
Cut(m, item, n, w) == ((m * w) \div n) * item

LEMMA CutsAreInOrder ==
  ASSUME NEW m \in Nat, NEW item \in Nat \ {0}, NEW n \in Nat \ {0}
  PROVE  /\ \A w \in 0..n : Cut(m, item, n, w) \in Nat
         /\ \A v, w \in 0..n : v <= w => Cut(m, item, n, v) <= Cut(m, item, n, w)
         /\ Cut(m, item, n, 0) = 0
         /\ Cut(m, item, n, n) = m * item
<1>1. ASSUME NEW w \in 0..n PROVE (m * w) \div n \in Nat /\ Cut(m, item, n, w) \in Nat
  <2>1. m * w \in Nat BY Z3
  <2>2. (m * w) \div n \in Nat BY <2>1, Z3
  <2> QED BY <2>2, Z3 DEF Cut
<1>2. ASSUME NEW v \in 0..n, NEW w \in 0..n, v <= w
      PROVE  Cut(m, item, n, v) <= Cut(m, item, n, w)
  <2>1. m * v \in Nat /\ m * w \in Nat BY Z3
  <2>2. v * m <= w * m BY <1>2, TimesMonotone
  <2>3. m * v = v * m /\ m * w = w * m BY Z3
  <2>4. m * v <= m * w BY <2>2, <2>3
  <2>5. (m * v) \div n <= (m * w) \div n BY <2>1, <2>4, DivMonotone
  <2> QED BY <1>1, <2>5, TimesMonotone DEF Cut
<1>3. Cut(m, item, n, 0) = 0
  <2>1. (m * 0) \div n = 0 BY Z3
  <2> QED BY <2>1, Z3 DEF Cut
<1>4. Cut(m, item, n, n) = m * item
  <2>1. (m * n) \div n = m BY Z3
  <2> QED BY <2>1 DEF Cut
<1> QED BY <1>1, <1>2, <1>3, <1>4

\* Every channel lies between two cuts which follow one another.
LEMMA BetweenCuts ==
  ASSUME NEW m \in Nat, NEW item \in Nat \ {0}, NEW n \in Nat \ {0}, NEW o \in 0..(m * item - 1)
  PROVE  \E w \in 0..(n - 1) : Cut(m, item, n, w) <= o /\ o < Cut(m, item, n, w + 1)
<1> DEFINE C(w) == Cut(m, item, n, w)
           Behind == {w \in 0..n : o < C(w)}
<1>1. m * item \in Nat BY Z3
<1>2. /\ \A w \in 0..n : C(w) \in Nat
      /\ C(0) = 0
      /\ C(n) = m * item
  BY CutsAreInOrder
<1>3. n \in Behind
  BY <1>1, <1>2
<1> HIDE DEF C
<1>4. PICK w \in Behind : \A v \in Behind : w <= v
  <2>1. Behind \subseteq Nat /\ Behind # {} BY <1>3
  <2> QED BY <2>1, LeastExists
<1>5. w # 0
  BY <1>2
<1>6. w - 1 \in 0..(n - 1) /\ w - 1 \in 0..n /\ w - 1 \notin Behind /\ (w - 1) + 1 = w
  BY <1>4, <1>5
<1>7. C(w - 1) <= o /\ o < C((w - 1) + 1)
  BY <1>1, <1>2, <1>4, <1>6
<1> QED BY <1>6, <1>7 DEF C

-----------------------------------------------------------------------------
(* What the definitions of the node come to *)

LEMMA ItemIsPositive ==
  ASSUME NEW p PROVE ItemSize(p) \in Nat \ {0}
BY ConvKernelsAssumption DEF ItemSize

LEMMA NodeFields ==
  ASSUME NEW c, IsNode(c)
  PROVE  /\ c.oc \in Nat \ {0} /\ c.output = 0
         /\ c = [transposed |-> c.transposed, ic |-> c.ic, oc |-> c.oc, groups |-> c.groups,
                 in |-> c.in, out |-> c.out, k |-> c.k, s |-> c.s, d |-> c.d, pads |-> c.pads,
                 weights |-> c.weights, input |-> c.input, bias |-> c.bias,
                 output |-> c.output]
BY DEF IsNode

LEMMA SliceIsBetweenCuts ==
  ASSUME NEW c, IsNode(c), NEW p, NEW w, NEW n
  PROVE  LET m == c.oc \div ItemSize(p)
             begin == Cut(m, ItemSize(p), n, w)
             stop == Cut(m, ItemSize(p), n, w + 1)
         IN Slice(c, p, w, n).output = begin /\ Slice(c, p, w, n).oc = stop - begin
<1> DEFINE begin == Cut(c.oc \div ItemSize(p), ItemSize(p), n, w)
           count == Cut(c.oc \div ItemSize(p), ItemSize(p), n, w + 1) - begin
           own == [c EXCEPT !.oc = count, !.bias = begin, !.output = begin]
           dense == [own EXCEPT !.weights = begin * c.ic * c.k[1] * c.k[2]]
           deep == [own EXCEPT !.weights = begin * c.k[1] * c.k[2], !.input = begin,
                               !.ic = count, !.groups = count]
<1>1. Slice(c, p, w, n) = IF c.groups = 1 THEN dense ELSE deep
  BY DEF Slice, Cut
<1> HIDE DEF begin, count
<1>2. /\ dense.output = begin /\ dense.oc = count
      /\ deep.output = begin /\ deep.oc = count
  BY NodeFields
<1>3. Slice(c, p, w, n).output = begin /\ Slice(c, p, w, n).oc = count
  BY <1>1, <1>2
<1> QED BY <1>3 DEF begin, count

\* The workers of a node that is cut: more than one, and whole blocks.
LEMMA WorkersOf ==
  ASSUME NEW c, IsNode(c), NEW p, NEW count \in Nat \ {0}
  PROVE  LET n == parallel_conv_worker_count(c, p, count)
         IN n \in Nat \ {0} /\ (n > 1 => c.oc % ItemSize(p) = 0)
<1> DEFINE m == c.oc \div ItemSize(p)
           most == Min({m, count})
<1>1. m \in Nat
  BY NodeFields, ItemIsPositive, Z3
<1>2. most \in Nat
  <2>1. (m <= count => most = m) /\ (count < m => most = count)
    BY <1>1 DEF Min
  <2> QED BY <1>1, <2>1
<1> HIDE DEF most
<1>3. ~(most < 2) => most > 1
  BY <1>2
<1> QED BY <1>2, <1>3 DEF parallel_conv_worker_count, most, m

-----------------------------------------------------------------------------
\* Slices have no channel in common, and leave none out.
LEMMA SlicesPartition ==
  ASSUME NodeInv, CutWhole, ConvNodeAssumption
  PROVE  /\ \A o \in DOMAIN stores : \E w \in 0..(workers - 1) : o \in ChannelsOf(w)
         /\ \A v, w \in 0..(workers - 1) : \A o :
              o \in ChannelsOf(v) /\ o \in ChannelsOf(w) => v = w
<1> DEFINE item == ItemSize(PreparedKind(conv, level))
           m == conv.oc \div item
           n == workers
<1>1. IsNode(conv) /\ conv.oc \in Nat \ {0}
  BY NodeFields DEF NodeInv, ConvNodeAssumption
<1>2. item \in Nat \ {0}
  BY ItemIsPositive
<1>3. n \in Nat \ {0} /\ conv.oc % item = 0
  BY DEF CutWhole, NodeInv
<1>4. DOMAIN stores = 0..(conv.oc - 1)
  BY DEF NodeInv
<1> HIDE DEF item
<1>5. m \in Nat /\ m * item = conv.oc
  <2>1. conv.oc \in Nat BY <1>1
  <2> QED BY <2>1, <1>2, <1>3, Z3
<1>6. ASSUME NEW w \in 0..(n - 1)
      PROVE  ChannelsOf(w) = Cut(m, item, n, w)..(Cut(m, item, n, w + 1) - 1)
  <2>1. SliceOf(w).output = Cut(m, item, n, w)
        /\ SliceOf(w).oc = Cut(m, item, n, w + 1) - Cut(m, item, n, w)
    BY <1>1, SliceIsBetweenCuts DEF SliceOf, item
  <2>2. w \in 0..n /\ w + 1 \in 0..n
    BY <1>3
  <2>3. Cut(m, item, n, w) \in Nat /\ Cut(m, item, n, w + 1) \in Nat
    BY <1>2, <1>3, <1>5, <2>2, CutsAreInOrder
  <2> QED BY <2>1, <2>3 DEF ChannelsOf
<1> HIDE DEF m, n
<1>7. ASSUME NEW o \in DOMAIN stores PROVE \E w \in 0..(n - 1) : o \in ChannelsOf(w)
  <2>1. o \in 0..(m * item - 1)
    BY <1>4, <1>5
  <2>2. PICK w \in 0..(n - 1) : Cut(m, item, n, w) <= o /\ o < Cut(m, item, n, w + 1)
    BY <1>2, <1>3, <1>5, <2>1, BetweenCuts
  <2>3. w \in 0..n /\ w + 1 \in 0..n
    BY <1>3
  <2>4. Cut(m, item, n, w) \in Nat /\ Cut(m, item, n, w + 1) \in Nat
    BY <1>2, <1>3, <1>5, <2>3, CutsAreInOrder
  <2> QED BY <1>6, <2>1, <2>2, <2>4
<1>8. ASSUME NEW v \in 0..(n - 1), NEW w \in 0..(n - 1), NEW o,
             o \in ChannelsOf(v), o \in ChannelsOf(w), v < w
      PROVE  FALSE
  <2>1. v + 1 \in 0..n /\ v + 1 <= w /\ w \in 0..n /\ v \in 0..n /\ w + 1 \in 0..n
    BY <1>3, <1>8
  <2>2. Cut(m, item, n, v + 1) <= Cut(m, item, n, w)
    BY <1>2, <1>3, <1>5, <2>1, CutsAreInOrder
  <2>3. /\ Cut(m, item, n, v) \in Nat /\ Cut(m, item, n, v + 1) \in Nat
        /\ Cut(m, item, n, w) \in Nat /\ Cut(m, item, n, w + 1) \in Nat
    BY <1>2, <1>3, <1>5, <2>1, CutsAreInOrder
  <2> QED BY <1>6, <1>8, <2>2, <2>3
<1>9. ASSUME NEW v \in 0..(n - 1), NEW w \in 0..(n - 1), NEW o,
             o \in ChannelsOf(v), o \in ChannelsOf(w)
      PROVE  v = w
  BY <1>3, <1>8, <1>9
<1> QED BY <1>7, <1>9 DEF n

\* A set made of the values of f at the members of a set that has one member at most.
LEMMA WritersOfOne ==
  ASSUME NodeInv, phase = "parallel", ConvNodeAssumption, NEW o \in DOMAIN stores
  PROVE  /\ stores[o] = {} \/ \E call \in stores[o] : stores[o] = {call}
         /\ pending = {} => \E call \in stores[o] : stores[o] = {call}
<1>1. CutWhole /\ stores[o] = {CallOf(w) : w \in Writers(o)}
  BY DEF NodeInv
<1>2. \A v, w \in Writers(o) : v = w
  BY <1>1, SlicesPartition DEF Writers
<1>3. stores[o] = {} \/ \E call \in stores[o] : stores[o] = {call}
  <2>1. CASE Writers(o) = {}
    BY <1>1, <2>1
  <2>2. ASSUME NEW w \in Writers(o) PROVE stores[o] = {CallOf(w)}
    BY <1>1, <1>2, <2>2
  <2> QED BY <2>1, <2>2
<1>4. ASSUME pending = {} PROVE stores[o] # {}
  <2>1. PICK w \in 0..(workers - 1) : o \in ChannelsOf(w)
    BY <1>1, SlicesPartition
  <2>2. w \in Writers(o)
    BY <1>4, <2>1 DEF Writers
  <2> QED BY <1>1, <2>2
<1> QED BY <1>3, <1>4

-----------------------------------------------------------------------------
LEMMA NodeInitInv ==
  ASSUME NodeInit, ConvNodeAssumption PROVE NodeInv
BY DEF NodeInit, NodeInv

LEMMA NodeStepInv ==
  ASSUME NodeInv, [NodeNext]_nodeVars, ConvNodeAssumption PROVE NodeInv'
<1>1. CASE UNCHANGED nodeVars
  <2>1. /\ UNCHANGED <<conv, level, threads, phase, workers, pending, stores>>
        /\ \A w : SliceOf(w)' = SliceOf(w) /\ ChannelsOf(w)' = ChannelsOf(w)
                 /\ CallOf(w)' = CallOf(w)
        /\ CutWhole' = CutWhole
    BY <1>1 DEF nodeVars, SliceOf, ChannelsOf, CallOf, Kernel, CutWhole
  <2>2. \A o : Writers(o)' = Writers(o)
    BY <2>1 DEF Writers
  <2>3. ASSUME NEW o PROVE {CallOf(w)' : w \in Writers(o)'} = {CallOf(w) : w \in Writers(o)}
    BY <2>1, <2>2
  <2> QED BY <2>1, <2>3 DEF NodeInv
<1>2. CASE Dispatch
  <2> DEFINE p == PreparedKind(conv, level)
             n == IF conv.transposed THEN 1 ELSE parallel_conv_worker_count(conv, p, threads)
  <2>1. conv \in Convs /\ threads \in Nat \ {0} /\ IsNode(conv)
    BY DEF NodeInv, ConvNodeAssumption
  <2>2. n \in Nat \ {0} /\ (n > 1 => conv.oc % ItemSize(p) = 0)
    BY <2>1, WorkersOf
  <2>3. /\ phase = "ready"
        /\ phase' = IF n > 1 THEN "parallel" ELSE "serial"
        /\ workers' = n
        /\ pending' = IF n > 1 THEN 0..(n - 1) ELSE {}
        /\ UNCHANGED <<conv, level, threads, stores>>
    BY <1>2 DEF Dispatch
  <2>4. p' = p
    BY <2>3 DEF PreparedKind, Shape
  <2> HIDE DEF n, p
  <2>5. n > 1 => CutWhole'
    BY <2>2, <2>3, <2>4 DEF CutWhole, p
  <2>6. n > 1 => \A o : Writers(o)' = {}
    BY <2>3 DEF Writers
  <2> QED BY <2>2, <2>3, <2>5, <2>6 DEF NodeInv
<1>3. ASSUME NEW w \in pending, RunSlice(w) PROVE NodeInv'
  <2>1. /\ phase = "parallel" /\ w \in 0..(workers - 1)
        /\ stores' = Stored(Kernel, SliceOf(w))
        /\ pending' = pending \ {w}
        /\ UNCHANGED <<conv, level, threads, phase, workers>>
    BY <1>3 DEF RunSlice, NodeInv, SliceOf
  <2>2. /\ \A v : SliceOf(v)' = SliceOf(v) /\ ChannelsOf(v)' = ChannelsOf(v)
                  /\ CallOf(v)' = CallOf(v)
        /\ CutWhole' = CutWhole
    BY <2>1 DEF SliceOf, ChannelsOf, CallOf, Kernel, CutWhole
  <2>3. ASSUME NEW o
        PROVE  Writers(o)' = Writers(o) \union {v \in {w} : o \in ChannelsOf(w)}
    BY <2>1, <2>2 DEF Writers
  <2>4. DOMAIN stores' = DOMAIN stores /\ stores' = [o \in DOMAIN stores |-> stores'[o]]
    BY <2>1 DEF Stored
  <2>5. ASSUME NEW o \in DOMAIN stores
        PROVE  stores'[o] = stores[o] \union {CallOf(v) : v \in {v \in {w} : o \in ChannelsOf(w)}}
    BY <2>1 DEF Stored, ChannelsOf, CallOf
  <2>6. ASSUME NEW o \in DOMAIN stores
        PROVE  stores'[o] = {CallOf(v) : v \in Writers(o)'}
    <3>1. stores[o] = {CallOf(v) : v \in Writers(o)}
      BY <2>1 DEF NodeInv
    <3> QED BY <2>3, <2>5, <3>1
  <2>7. \A o \in DOMAIN stores' : stores'[o] = {CallOf(v)' : v \in Writers(o)'}
    BY <2>2, <2>4, <2>6
  <2> QED BY <2>1, <2>2, <2>4, <2>7 DEF NodeInv
<1>4. CASE Join
  BY <1>4, WritersOfOne DEF Join, NodeInv
<1>5. CASE RunSerial
  <2>1. /\ phase = "serial" /\ phase' = "done"
        /\ stores' = Stored(Kernel, conv)
        /\ UNCHANGED <<conv, level, threads, workers, pending>>
    BY <1>5 DEF RunSerial
  <2>2. IsNode(conv) /\ conv.oc \in Nat \ {0} /\ conv.output = 0
    BY NodeFields DEF NodeInv, ConvNodeAssumption
  <2>3. DOMAIN stores = 0..(conv.oc - 1)
    BY DEF NodeInv
  <2>4. stores' = [o \in DOMAIN stores |-> stores'[o]] /\ DOMAIN stores' = DOMAIN stores
    BY <2>1 DEF Stored
  <2>5. ASSUME NEW o \in DOMAIN stores PROVE stores'[o] = {[kernel |-> Kernel, conv |-> conv]}
    <3>1. stores[o] = {} BY <2>1 DEF NodeInv
    <3>2. o \in conv.output..(conv.output + conv.oc - 1) BY <2>2, <2>3
    <3> QED BY <2>1, <3>1, <3>2 DEF Stored
  <2> QED BY <2>1, <2>3, <2>4, <2>5 DEF NodeInv
<1>6. CASE Done
  BY <1>1, <1>6 DEF Done
<1> QED BY <1>1, <1>2, <1>3, <1>4, <1>5, <1>6 DEF NodeNext

LEMMA NodeInvariant == NodeSpec => []NodeInv
BY NodeInitInv, NodeStepInv, ConvNodeAssumption, PTL DEF NodeSpec

\* For every convolution and every number of threads, no output channel is stored by two
\* workers, whatever their order, and none is left out when the node is done: the cuts
\* of parallel_conv_worker_count and execute_parallel_conv_slice are a partition.
THEOREM SlicesAreAPartition == NodeSpec => []ChannelHasOneWorker
<1>1. ASSUME NodeInv PROVE ChannelHasOneWorker
  <2> SUFFICES ASSUME NEW o \in DOMAIN stores
               PROVE  Cardinality(stores[o]) <= 1 /\ (phase = "done" => stores[o] # {})
    BY DEF ChannelHasOneWorker
  <2>1. stores[o] = {} \/ \E call \in stores[o] : stores[o] = {call}
    BY <1>1, ConvNodeAssumption, WritersOfOne DEF NodeInv
  <2>2. phase = "done" => stores[o] # {}
    BY <1>1 DEF NodeInv
  <2>3. Cardinality(stores[o]) \in {0, 1}
    BY <2>1, FS_EmptySet, FS_Singleton
  <2> QED BY <2>2, <2>3
<1> QED BY <1>1, NodeInvariant, PTL
==============================================================================
