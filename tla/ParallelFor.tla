----------------------------- MODULE ParallelFor -----------------------------
(***************************************************************************)
(* What lw_thread_pool_run promises its caller (runtime/parallel.c): the   *)
(* call splits the work into a number of slices, the callback is invoked   *)
(* exactly once for every slice index below that number, in any order, and *)
(* the call returns only after every invocation has returned.              *)
(***************************************************************************)
EXTENDS Naturals

CONSTANT MaxWorkers     \* LW_PARALLEL_MAX_WORKERS, the most slices of a run

VARIABLES
  running,  \* the caller is inside lw_thread_pool_run
  width,    \* number of slices of the current (or the last) run
  calls     \* calls[i]: completed callback invocations for slice i

vars == <<running, width, calls>>

Slices == 0..(MaxWorkers - 1)

Init == running = FALSE /\ width = 0 /\ calls = [i \in Slices |-> 0]

Begin(n) ==
  /\ ~running
  /\ running' = TRUE
  /\ width' = n
  /\ calls' = [i \in Slices |-> 0]

Slice(i) ==
  /\ running
  /\ i < width
  /\ calls[i] = 0
  /\ calls' = [calls EXCEPT ![i] = 1]
  /\ UNCHANGED <<running, width>>

Return ==
  /\ running
  /\ \A i \in Slices : i < width => calls[i] = 1
  /\ running' = FALSE
  /\ UNCHANGED <<width, calls>>

Next ==
  \/ \E n \in 1..MaxWorkers : Begin(n)
  \/ \E i \in Slices : Slice(i)
  \/ Return

Safety == Init /\ [][Next]_vars

\* The caller decides when to start a run; a run that has started completes.
Fairness ==
  /\ \A i \in Slices : WF_vars(Slice(i))
  /\ WF_vars(Return)

Spec == Safety /\ Fairness
==============================================================================
