------------------------- MODULE MCWorkspacePlanner --------------------------
(* Model-checking instance of WorkspacePlanner: every graph of four nodes in  *)
(* which a node reads one or two earlier tensors, node 3 has two outputs and  *)
(* tensor 0 is the graph's input, with sizes 2 and 3 (4 when aligned to 2);   *)
(* a graph that produces a tensor twice, one with a tensor too large for a    *)
(* word and one without nodes.                                                *)
EXTENDS WorkspacePlanner

MCAlignment == 2
MCMaxWord == 15
MCLimits == {6, 15}

Reads(n) == {S \in SUBSET (0..(n - 1)) : Cardinality(S) \in 1..2}
Outputs == << <<1>>, <<2>>, <<3, 4>>, <<5>> >>

Graph(reads, sizes, results) ==
  [inputs |-> reads, outputs |-> Outputs, results |-> results,
   bytes |-> [t \in 0..5 |-> IF t = 0 THEN 1 ELSE sizes[t]]]

MCGraphSet ==
  {Graph(<<{0}, r2, r3, r4>>, sizes, results) :
     r2 \in Reads(2), r3 \in Reads(3), r4 \in Reads(5),
     sizes \in [1..5 -> {2, 3}], results \in {{5}, {2, 5}}}
  \cup
  {[inputs |-> <<{0}, {1}>>, outputs |-> << <<1>>, <<1>> >>, results |-> {1},
    bytes |-> [t \in 0..1 |-> 1]],
   [inputs |-> <<{0}, {1}>>, outputs |-> << <<1>>, <<2>> >>, results |-> {2},
    bytes |-> [t \in 0..2 |-> IF t = 2 THEN 15 ELSE 1]],
   [inputs |-> <<>>, outputs |-> <<>>, results |-> {0}, bytes |-> [t \in {0} |-> 1]]}
==============================================================================
