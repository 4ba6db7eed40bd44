---------------------------- MODULE GraphExecutor ----------------------------
(***************************************************************************)
(* A session executes its graph (runtime/executor.c) in the workspace that *)
(* the planner laid out for it (WorkspacePlanner, runtime/memory.c).       *)
(*                                                                         *)
(* The plan is made for nodes that run one after the other.  The executor  *)
(* runs some of them together: with AVX2 a chain of five nodes is one GELU *)
(* kernel, which reads its source and writes the last node's output when   *)
(* the first one is due; and a recognizer consumes the scores of the last  *)
(* nodes directly (CTC greedy), with the projection before them fused in.  *)
(*                                                                         *)
(* What a cell of the workspace holds is <<t, i>>, the correct i-th element *)
(* of tensor t, or Junk: anything else, in particular the values that an   *)
(* earlier execution left there.  Besides the planner's fields a graph has *)
(*   ops[n]    the operator of node n, as far as the fusions ask for it    *)
(*   scalars   the constant tensors that hold the GELU's factors           *)
(*   constants all constant tensors                                        *)
(*   packed    the MatMul nodes with prepared, packed weights              *)
(***************************************************************************)
EXTENDS WorkspacePlanner

CONSTANT Lanes  \* floats per vector of the kernel

ASSUME GraphExecutorAssumption ==
  /\ Lanes \in Nat \ {0}
  /\ \A g \in GraphSet :
       /\ {"ops", "scalars", "constants", "packed"} \subseteq DOMAIN g
       /\ g.ops \in Seq(STRING) /\ Len(g.ops) = Len(g.outputs)
       /\ g.scalars \subseteq g.constants
       /\ Cardinality(g.results) = 1

VARIABLES
  avx2,     \* the processor has AVX2; never changes
  memory,   \* the workspace
  entry,    \* which function executes: "full" or "greedy"
  xpc,      \* "idle", "nodes", "gelu" or "tail"
  current,  \* node_index
  lane,     \* the next element of the GELU kernel
  result    \* of the last execution: "none", "error", "exact" or "corrupt"

execVars == <<avx2, memory, entry, xpc, current, lane, result>>
vars == <<plannerVars, execVars>>

\* The nodes are in execution order: none reads what it or a later one produces.  The
\* runtime relies on it; the converter keeps the order of a graph that was checked.
ASSUME ExecutionOrder ==
  \A g \in GraphSet : \A n \in DOMAIN g.inputs : \A m \in n..Len(g.outputs) :
    \A j \in DOMAIN g.outputs[m] : g.outputs[m][j] \notin g.inputs[n]

Cells == 0..(MaxWord - 1)
Junk == <<0, 0>>
Elements(t) == 1..graph.bytes[t]
Result == CHOOSE t \in graph.results : TRUE

Init ==
  /\ PlannerInit
  /\ avx2 \in BOOLEAN
  /\ memory = [c \in Cells |-> Junk]
  /\ entry = "full" /\ xpc = "idle" /\ current = 1 /\ lane = 1
  /\ result = "none"

\* lw_session_create plans the workspace once.
Plan == PlannerNext /\ UNCHANGED execVars

-----------------------------------------------------------------------------
(* Reading and writing tensors *)

\* tensor_input_data: the caller's input and the constants are not in the
\* workspace, and nothing writes them.
ValueIn(m, t, i) ==
  IF t \in DOMAIN offset THEN m[offset[t] + i - 1] ELSE <<t, i>>

Intact(m, t) == \A i \in Elements(t) : ValueIn(m, t, i) = <<t, i>>

\* Memory with every element of t written: correctly, or with junk.
Written(t, good) ==
  [c \in Cells |->
     IF c \in offset[t]..(offset[t] + graph.bytes[t] - 1)
     THEN IF good THEN <<t, c - offset[t] + 1>> ELSE Junk
     ELSE memory[c]]

\* A kernel may read an input at any time while it writes its output t: the
\* output is correct only if the inputs are, and survive the writing.
Computed(t, inputs) ==
  Written(t, \A u \in inputs : Intact(Written(t, TRUE), u))

-----------------------------------------------------------------------------
(* match_avx2_gelu *)

Out(n) == graph.outputs[n][1]
Source(n) == CHOOSE t \in graph.inputs[n] : t \notin graph.scalars

LastUse(t) ==
  IF t \in graph.results THEN NodeCount + 1
  ELSE CHOOSE n \in 1..NodeCount :
         Uses(t, n) /\ \A m \in (n + 1)..NodeCount : ~Uses(t, m)

\* Div by sqrt 2, Erf, Add 1, Mul with the source, Mul by 0.5.
IsChain(n) ==
  /\ n + 4 <= NodeCount
  /\ SubSeq(graph.ops, n, n + 4) = <<"Div", "Erf", "Add", "Mul", "Mul">>
  /\ \A k \in 0..4 : Len(graph.outputs[n + k]) = 1
  /\ \A k \in {0, 2, 4} : Cardinality(graph.inputs[n + k] \cap graph.scalars) = 1
  /\ graph.inputs[n] \ graph.scalars = {Source(n)}
  /\ graph.inputs[n + 1] = {Out(n)}
  /\ graph.inputs[n + 2] \ graph.scalars = {Out(n + 1)}
  /\ graph.inputs[n + 3] = {Source(n), Out(n + 2)}
  /\ graph.inputs[n + 4] \ graph.scalars = {Out(n + 3)}
  /\ \A k \in 0..4 : graph.bytes[Out(n + k)] = graph.bytes[Source(n)]

\* Mutant of Private: temporaries that other nodes read are skipped as well.
NotPrivate(n) == TRUE

\* Each skipped temporary is read by the next node of the chain and no later one.
Private(n) == \A k \in 0..3 : LastUse(Out(n + k)) = n + k + 1

Fusible(n) == avx2 /\ IsChain(n) /\ Private(n)

-----------------------------------------------------------------------------
(* The terminal Softmax and the projection before it *)

\* ctc_greedy_tail: the last node is a Softmax over scores only it reads.
HasTail ==
  /\ NodeCount > 0 /\ graph.ops[NodeCount] = "Softmax"
  /\ graph.outputs[NodeCount] = <<Result>>
  /\ Cardinality(graph.inputs[NodeCount]) = 1
  /\ \A t \in graph.inputs[NodeCount] : LastUse(t) = NodeCount

Scores == CHOOSE t \in graph.inputs[NodeCount] : TRUE

\* match_packed_ctc_projection: MatMul with packed weights, then Add of a bias.
HasProjection ==
  /\ avx2 /\ NodeCount >= 3 /\ NodeCount - 2 \in graph.packed
  /\ graph.ops[NodeCount - 2] = "MatMul" /\ graph.ops[NodeCount - 1] = "Add"
  /\ Len(graph.outputs[NodeCount - 2]) = 1
  /\ graph.outputs[NodeCount - 1] = <<Scores>>
  /\ Out(NodeCount - 2) \in graph.inputs[NodeCount - 1]
  /\ graph.inputs[NodeCount - 1] \ {Out(NodeCount - 2)} \subseteq graph.constants

\* node_limit: the nodes that are executed one by one.
NodeLimit ==
  IF entry = "full" THEN NodeCount
  ELSE IF HasProjection THEN NodeCount - 3 ELSE NodeCount - 1

-----------------------------------------------------------------------------
(* Executions *)

\* lw_execute_session_f32, or its variant with greedy classes as the result.
Execute(how) ==
  /\ pc = "done" /\ xpc = "idle"
  /\ how = "greedy" => HasTail
  /\ entry' = how
  /\ xpc' = "nodes" /\ current' = 1
  /\ memory' = [c \in Cells |-> Junk]
  /\ result' = "none"
  /\ UNCHANGED <<plannerVars, avx2, lane>>

\* dispatch_node
RunNode ==
  /\ xpc = "nodes" /\ current <= NodeLimit
  /\ ~Fusible(current)
  /\ Len(graph.outputs[current]) = 1
  /\ memory' = Computed(Out(current), graph.inputs[current])
  /\ current' = current + 1
  /\ UNCHANGED <<plannerVars, avx2, entry, xpc, lane, result>>

\* The kernel refuses its operands, or the node has several outputs.
NodeFails ==
  /\ xpc = "nodes" /\ current <= NodeLimit
  /\ ~Fusible(current)
  /\ xpc' = "idle" /\ result' = "error"
  /\ UNCHANGED <<plannerVars, avx2, memory, entry, current, lane>>

StartGelu ==
  /\ xpc = "nodes" /\ current <= NodeLimit
  /\ Fusible(current)
  /\ xpc' = "gelu" /\ lane' = 1
  /\ UNCHANGED <<plannerVars, avx2, memory, entry, current, result>>

\* The elements of the kernel's next round: a vector, or one of the last few.
Round(count) ==
  IF lane + Lanes - 1 <= count THEN lane..(lane + Lanes - 1) ELSE lane..lane

\* The node after the chain.
After(n) == n + 5

\* One round of lw_avx2_gelu_f32: the elements are loaded, then stored.
GeluRound ==
  LET source == Source(current)
      out == Out(current + 4)
      round == Round(graph.bytes[source])
  IN /\ xpc = "gelu"
     /\ lane <= graph.bytes[source]
     /\ memory' = [c \in Cells |->
          LET i == c + 1 - offset[out]
          IN IF c >= offset[out] /\ i \in round
             THEN IF ValueIn(memory, source, i) = <<source, i>> THEN <<out, i>> ELSE Junk
             ELSE memory[c]]
     /\ lane' = lane + Cardinality(round)
     /\ UNCHANGED <<plannerVars, avx2, entry, xpc, current, result>>

EndGelu ==
  /\ xpc = "gelu"
  /\ lane > graph.bytes[Source(current)]
  /\ xpc' = "nodes" /\ current' = After(current)
  /\ UNCHANGED <<plannerVars, avx2, memory, entry, lane, result>>

Answer(exact) ==
  /\ xpc' = "idle"
  /\ result' = IF exact THEN "exact" ELSE "corrupt"
  /\ UNCHANGED <<plannerVars, avx2, entry, current, lane>>

\* The graph's result is copied to the caller.
FinishFull ==
  /\ xpc = "nodes" /\ current > NodeLimit /\ entry = "full"
  /\ Answer(Intact(memory, Result))
  /\ UNCHANGED memory

\* The classes are taken from the scores, ...
FinishScores ==
  /\ xpc = "nodes" /\ current > NodeLimit /\ entry = "greedy" /\ ~HasProjection
  /\ Answer(Intact(memory, Scores))
  /\ UNCHANGED memory

\* ... which the fused projection leaves in the place of the product.
FinishProjection ==
  LET product == Out(NodeCount - 2)
  IN /\ xpc = "nodes" /\ current > NodeLimit /\ entry = "greedy" /\ HasProjection
     /\ memory' = Computed(product, graph.inputs[NodeCount - 2])
     /\ Answer(Intact(memory', product))

\* The scores are not numbers.
FinishFails ==
  /\ xpc = "nodes" /\ current > NodeLimit /\ entry = "greedy"
  /\ xpc' = "idle" /\ result' = "error"
  /\ UNCHANGED <<plannerVars, avx2, memory, entry, current, lane>>

Next ==
  \/ Plan
  \/ \E how \in {"full", "greedy"} : Execute(how)
  \/ RunNode \/ NodeFails
  \/ StartGelu \/ GeluRound \/ EndGelu
  \/ FinishFull \/ FinishScores \/ FinishProjection \/ FinishFails

Spec == Init /\ [][Next]_vars

-----------------------------------------------------------------------------
(* Properties *)

\* Whatever is fused, and wherever the planner put the tensors, an execution
\* that succeeds delivers what the nodes compute one by one: no value is read
\* that was overwritten, left from an earlier execution or never written.
ResultExact == result # "corrupt"

\* Why the GELU may write its output four nodes before the plan expects it: in
\* the plan that place belongs to nothing that a later node reads, and if it
\* overlaps the source it starts at or before it, so that the kernel, walking
\* forward, has read what it overwrites.
FusedWriteSafe ==
  xpc = "gelu" =>
    LET out == Out(current + 4)
        source == Source(current)
        apart(t) == Disjoint(offset[out], graph.bytes[out], offset[t], graph.bytes[t])
    IN /\ \A t \in DOMAIN offset \ {out} :
            Needed(t, current + 5) /\ (\E n \in 1..(current - 1) : t \in Produced(n))
              => apart(t)
       /\ source \in DOMAIN offset => apart(source) \/ offset[out] <= offset[source]
==============================================================================
