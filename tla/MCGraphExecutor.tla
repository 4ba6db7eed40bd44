--------------------------- MODULE MCGraphExecutor ---------------------------
(* Model-checking instance of GraphExecutor: two nodes, the GELU chain, a node *)
(* that reads its output and possibly one tensor more (the source, an earlier *)
(* tensor, or a temporary of the chain), and a recognizer's tail, with sizes  *)
(* that make the planner place the GELU's output over, before or beside its   *)
(* source; and graphs that end with the chain or read the input directly.     *)
EXTENDS GraphExecutor

MCAlignment == 2
MCMaxWord == 40
MCLimits == {39}
MCLanes == 2

\* Tensors: 0 the input, 1 to 11 the outputs of nodes 1 to 11, 12 and 13 constants.
Ops == <<"Conv", "Conv", "Div", "Erf", "Add", "Mul", "Mul", "Conv",
         "MatMul", "Add", "Softmax">>

Reads(source, extra) ==
  <<{0}, {1}, {source, 12}, {3}, {4, 12}, {source, 5}, {6, 12}, {7} \cup extra,
    {8, 13}, {9, 13}, {10}>>

Graph(count, first, size, source, extra, packed) ==
  [inputs |-> SubSeq(Reads(source, extra), 1, count),
   outputs |-> [n \in 1..count |-> <<n>>],
   ops |-> SubSeq(Ops, 1, count),
   bytes |-> [t \in 0..13 |-> IF t = 1 THEN first
                              ELSE IF t = 0 \/ t \in 2..7 THEN size
                              ELSE IF t \in {12, 13} THEN 1 ELSE 2],
   results |-> {count}, scalars |-> {12}, constants |-> {12, 13}, packed |-> packed]

MCGraphSet ==
  {Graph(11, first, size, 2, extra, packed) :
     first \in {1, 4, 6}, size \in {3, 4, 5},
     extra \in {{}, {1}, {2}, {3}, {4}}, packed \in {{}, {9}}}
  \cup {Graph(count, 2, 3, source, {}, {}) : count \in {7, 8}, source \in {0, 1, 2}}
==============================================================================
