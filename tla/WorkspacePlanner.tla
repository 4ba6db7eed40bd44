--------------------------- MODULE WorkspacePlanner --------------------------
(***************************************************************************)
(* The workspace planner of a session (runtime/memory.c): it walks the     *)
(* graph's nodes in execution order, returns the byte ranges of tensors    *)
(* whose last consumer has run to a free list, and gives every output of   *)
(* the node the first free range that is large enough, or grows the        *)
(* workspace.                                                              *)
(*                                                                         *)
(* The free list, an array sorted by offset, is the set of its blocks.     *)
(* Nodes are numbered from 1; the graph's results live until after the     *)
(* last node.  A graph is a record:                                        *)
(*   inputs[n]  the tensors that node n reads                              *)
(*   outputs[n] the tensors that node n produces, in order                 *)
(*   bytes[t]   the byte size of tensor t                                  *)
(*   results    the graph's outputs                                        *)
(***************************************************************************)
EXTENDS Naturals, Sequences, FiniteSets

CONSTANTS
  GraphSet,    \* the graphs that sessions are created for
  Limits,      \* the values of max_workspace_size
  Alignment,   \* LW_WORKSPACE_ALIGNMENT
  MaxWord      \* UINT64_MAX

IsGraph(g) ==
  /\ {"inputs", "outputs", "bytes", "results"} \subseteq DOMAIN g
  /\ IsFiniteSet(DOMAIN g.bytes)
  /\ DOMAIN g.bytes \subseteq Nat
  /\ \A t \in DOMAIN g.bytes : g.bytes[t] \in (0..MaxWord) \ {0}
  /\ g.results \subseteq DOMAIN g.bytes
  /\ g.outputs \in Seq(Seq(DOMAIN g.bytes))
  /\ DOMAIN g.inputs = DOMAIN g.outputs
  /\ \A n \in DOMAIN g.inputs : g.inputs[n] \subseteq DOMAIN g.bytes

ASSUME WorkspacePlannerAssumption ==
  /\ Alignment \in Nat \ {0}
  /\ MaxWord \in Nat /\ Alignment <= MaxWord
  /\ Limits \subseteq 0..MaxWord
  /\ \A g \in GraphSet : IsGraph(g)

VARIABLES
  graph, limit,  \* the parameters
  pc,            \* "lifetimes", "release", "allocate", "done" or "failed"
  node,          \* i, the node in turn
  at,            \* j, the next output of the node
  offset,        \* workspace_offset of the tensors placed so far
  live,          \* the tensors with workspace_live set
  free,          \* the free blocks
  end            \* workspace_end; workspace_bytes when done

parameters == <<graph, limit>>
plannerVars == <<graph, limit, pc, node, at, offset, live, free, end>>

Tensors == DOMAIN graph.bytes
NodeCount == Len(graph.outputs)
Produced(n) == {graph.outputs[n][j] : j \in DOMAIN graph.outputs[n]}

PlannerInit ==
  /\ graph \in GraphSet /\ limit \in Limits
  /\ pc = "lifetimes" /\ node = 1 /\ at = 1
  /\ offset = [t \in {} |-> 0]
  /\ live = {} /\ free = {} /\ end = 0

Uses(t, n) == t \in Produced(n) \/ t \in graph.inputs[n]

\* Mutant of Expired: last_use_node <= i, the node's own inputs are released.
ExpiredEarly(t) ==
  t \notin graph.results /\ \A n \in (node + 1)..NodeCount : ~Uses(t, n)

\* Mutant of Expired: only the first consumer sets last_use_node.
ExpiredAfterFirst(t) ==
  t \notin graph.results /\ \E n \in 1..(node - 1) : t \in graph.inputs[n]

\* last_use_node < i: no node from i on uses t, and the caller does not read it.
Expired(t) ==
  t \notin graph.results /\ \A n \in node..NodeCount : ~Uses(t, n)

\* align_workspace
Aligned(size) == ((size + (Alignment - 1)) \div Alignment) * Alignment

Size(t) == Aligned(graph.bytes[t])

\* The first pass refuses a graph in which a tensor is produced twice.
ProducedTwice ==
  \E n, m \in 1..NodeCount :
    \E j \in DOMAIN graph.outputs[n], k \in DOMAIN graph.outputs[m] :
      <<n, j>> # <<m, k>> /\ graph.outputs[n][j] = graph.outputs[m][k]

Lifetimes ==
  /\ pc = "lifetimes"
  /\ pc' = IF ProducedTwice THEN "failed" ELSE IF NodeCount = 0 THEN "done" ELSE "release"
  /\ UNCHANGED <<parameters, node, at, offset, live, free, end>>

\* Mutant of Freed: the block is not merged with the one before it.
MergeRightOnly(block) ==
  LET right == {b \in free : b.offset = block.offset + block.size}
  IN (free \ right) \cup
       {[offset |-> block.offset,
         size |-> block.size + (IF right = {} THEN 0 ELSE (CHOOSE b \in right : TRUE).size)]}

\* add_free_block: the block is merged with its neighbours when they touch.
Freed(block) ==
  LET left == {b \in free : b.offset + b.size = block.offset}
      right == {b \in free : b.offset = block.offset + block.size}
      sizeOf(side) == IF side = {} THEN 0 ELSE (CHOOSE b \in side : TRUE).size
  IN (free \ (left \cup right)) \cup
       {[offset |-> block.offset - sizeOf(left),
         size |-> sizeOf(left) + block.size + sizeOf(right)]}

\* Expired tensors are released in the order of their indices.
Release(t) ==
  /\ pc = "release"
  /\ t \in live /\ Expired(t)
  /\ \A u \in live : Expired(u) => t <= u
  /\ free' = Freed([offset |-> offset[t], size |-> Size(t)])
  /\ live' = live \ {t}
  /\ UNCHANGED <<parameters, pc, node, at, offset, end>>

ReleaseDone ==
  /\ pc = "release"
  /\ \A t \in live : ~Expired(t)
  /\ pc' = "allocate" /\ at' = 1
  /\ UNCHANGED <<parameters, node, offset, live, free, end>>

Fitting(size) == {b \in free : b.size >= size}

\* Mutant of Remainder: the block that was used stays in the list.
WholeBlock(block, size) == free

\* allocate_block: the used block loses its head, or goes if nothing is left.
Remainder(block, size) ==
  (free \ {block}) \cup
    {b \in {[offset |-> block.offset + size, size |-> block.size - size]} : b.size > 0}

\* workspace_end + size does not wrap around.
Growable(size) == end <= MaxWord - size

\* Places t at an offset, unless the workspace is now larger than allowed.
Place(t, position, newEnd) ==
  IF newEnd > limit
  THEN pc' = "failed" /\ UNCHANGED <<at, offset, live>>
  ELSE /\ offset' = [u \in DOMAIN offset \cup {t} |-> IF u = t THEN position ELSE offset[u]]
       /\ live' = live \cup {t}
       /\ at' = at + 1
       /\ UNCHANGED pc

\* The next output of the node, in a free block or at the end.
Allocate(t) ==
  /\ pc = "allocate" /\ at <= Len(graph.outputs[node])
  /\ t = graph.outputs[node][at]
  /\ graph.bytes[t] <= MaxWord - (Alignment - 1)
  /\ \/ /\ Fitting(Size(t)) # {}
        /\ LET block == CHOOSE b \in Fitting(Size(t)) :
                          \A c \in Fitting(Size(t)) : b.offset <= c.offset
           IN Place(t, block.offset, end) /\ free' = Remainder(block, Size(t))
        /\ UNCHANGED end
     \/ /\ Fitting(Size(t)) = {} /\ Growable(Size(t))
        /\ Place(t, end, end + Size(t))
        /\ end' = end + Size(t)
        /\ UNCHANGED free
  /\ UNCHANGED <<parameters, node>>

\* The aligned size or the workspace size would not fit into 64 bits.
Overflow(t) ==
  /\ pc = "allocate" /\ at <= Len(graph.outputs[node])
  /\ t = graph.outputs[node][at]
  /\ \/ graph.bytes[t] > MaxWord - (Alignment - 1)
     \/ Fitting(Size(t)) = {} /\ ~Growable(Size(t))
  /\ pc' = "failed"
  /\ UNCHANGED <<parameters, node, at, offset, live, free, end>>

NextNode ==
  /\ pc = "allocate" /\ at > Len(graph.outputs[node])
  /\ pc' = IF node = NodeCount THEN "done" ELSE "release"
  /\ node' = IF node = NodeCount THEN node ELSE node + 1
  /\ UNCHANGED <<parameters, at, offset, live, free, end>>

PlannerNext ==
  \/ Lifetimes \/ ReleaseDone \/ NextNode
  \/ \E t \in Tensors : Release(t) \/ Allocate(t) \/ Overflow(t)

PlannerSpec == PlannerInit /\ [][PlannerNext]_plannerVars

-----------------------------------------------------------------------------
(* Properties *)

Disjoint(start1, size1, start2, size2) ==
  start1 + size1 <= start2 \/ start2 + size2 <= start1

\* No tensor is placed over one that some node has still to read.
NoOverlap ==
  \A t, u \in live : t # u => Disjoint(offset[t], Size(t), offset[u], Size(u))

\* When node n runs, t holds a value that n or a later node, or the caller, reads.
Needed(t, n) ==
  /\ \E m \in 1..n : t \in Produced(m)
  /\ t \in graph.results \/ \E m \in n..NodeCount : Uses(t, m)

\* No sum of offsets and sizes leaves the word, and in the finished plan, which
\* every later execution follows, all tensors needed at one node have aligned,
\* disjoint ranges within the reported workspace.
PlanSound ==
  /\ end <= MaxWord
  /\ pc = "done" =>
    /\ end <= limit
    /\ \A n \in 1..NodeCount :
         LET needed == {t \in Tensors : Needed(t, n)}
         IN \A t \in needed :
              /\ t \in DOMAIN offset
              /\ offset[t] % Alignment = 0
              /\ offset[t] + Size(t) <= end
              /\ \A u \in needed \ {t} :
                   Disjoint(offset[t], Size(t), offset[u], Size(u))

\* Merging leaves no two blocks that touch, and blocks and live tensors tile the
\* workspace: no byte is handed out twice and none is lost.
FreeListSound ==
  LET Bytes(start, size) == start..(start + size - 1)
      taken == UNION {Bytes(offset[t], Size(t)) : t \in live}
      spare == UNION {Bytes(b.offset, b.size) : b \in free}
  IN pc # "failed" =>
       /\ \A b \in free : b.offset + b.size \notin {c.offset : c \in free}
       /\ \A b, c \in free : b = c \/ Disjoint(b.offset, b.size, c.offset, c.size)
       /\ taken \cap spare = {}
       /\ taken \cup spare = 0..(end - 1)

\* The free list never holds more blocks than there are gaps between the live
\* tensors, so the array of tensor_count + 1 blocks never overflows and the
\* planner's "free-list capacity exceeded" cannot occur.
FreeListFits == pc # "failed" => Cardinality(free) <= Cardinality(live) + 1
==============================================================================
