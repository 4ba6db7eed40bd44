----------------------------- MODULE ThreadPool ------------------------------
(***************************************************************************)
(* The intra-op thread pool of the runtime (src/runtime/parallel.c).       *)
(*                                                                         *)
(* One caller thread (index 0, the owner of the inference session) creates *)
(* the pool, runs callbacks over it and frees it; up to MaxWorkers - 1     *)
(* pool threads execute worker_loop.  All fields of the pool are guarded   *)
(* by one mutex and a critical section never blocks except in a condition  *)
(* wait, which releases the mutex: so every critical section, up to a wait *)
(* or the unlock, is one action here, and what a thread does between two   *)
(* critical sections is another.  A thread inside a condition wait is in   *)
(* state "asleep"; a broadcast, a signal or a spurious wakeup makes it     *)
(* re-evaluate the condition of its while loop under the mutex.            *)
(***************************************************************************)
EXTENDS Naturals, FiniteSets

CONSTANTS
  MaxWorkers,   \* LW_PARALLEL_MAX_WORKERS: the caller and the pool threads
  MaxRuns       \* bound: pooled runs over the lifetime of one pool

ASSUME ThreadPoolAssumption ==
  /\ MaxWorkers \in Nat \ {0}
  /\ MaxRuns \in Nat

Threads == 0..(MaxWorkers - 1)
Workers == 1..(MaxWorkers - 1)

VARIABLES
  \* the caller
  cpc,          \* where the caller is; "idle" is outside every pool call
  live,         \* the caller holds a pool (the handle is not NULL)
  target,       \* create: the requested worker count after the cap
  width,        \* run: its parameter worker_count after the cap
  \* the fields of struct lw_thread_pool
  workerCount, active, pending, generation, stopping, context,
  \* worker_loop, one instance per pool thread
  wpc,          \* where the thread is
  observed,     \* its local observed_generation
  job,          \* its copies of context and active_worker_count
  \* history
  calls         \* callback invocations made for the current (or last) run

callerVars == <<cpc, live, target, width>>
poolVars == <<workerCount, active, pending, generation, stopping, context>>
workerVars == <<wpc, observed, job>>
vars == <<cpc, live, target, width, workerCount, active, pending, generation,
          stopping, context, wpc, observed, job, calls>>

Zero == [t \in Threads |-> 0]
NoJob == [context |-> 0, active |-> 0]

Init ==
  /\ cpc = "idle" /\ live = FALSE /\ target = 0 /\ width = 0
  /\ workerCount = 0 /\ active = 0 /\ pending = 0 /\ generation = 0
  /\ stopping = FALSE /\ context = 0
  /\ wpc = [w \in Workers |-> "none"]
  /\ observed = [w \in Workers |-> 0]
  /\ job = [w \in Workers |-> NoJob]
  /\ calls = Zero

\* Mutant: the flags are set but nobody is woken.
WakeNobody == wpc

\* Broadcast on work_condition: every sleeping worker re-evaluates its loop.
WakeWorkers == [w \in Workers |-> IF wpc[w] = "asleep" THEN "ready" ELSE wpc[w]]

Capped(n) == IF n > MaxWorkers THEN MaxWorkers ELSE n

-----------------------------------------------------------------------------
(* lw_thread_pool_create *)

\* Returns NULL for fewer than two workers or when an allocation fails (no
\* state changes); otherwise a zeroed pool with the caller as its only worker.
CreateAllocate(requested) ==
  /\ cpc = "idle" /\ ~live
  /\ requested >= 2
  /\ target' = Capped(requested)
  /\ workerCount' = 1
  /\ active' = 0 /\ pending' = 0 /\ generation' = 0
  /\ stopping' = FALSE /\ context' = 0
  /\ cpc' = "spawn"
  /\ UNCHANGED <<live, width, wpc, observed, job, calls>>

\* One round of the thread creation loop; the new thread runs at once.
SpawnWorker ==
  /\ cpc = "spawn"
  /\ workerCount < target
  /\ wpc' = [wpc EXCEPT ![workerCount] = "ready"]
  /\ observed' = [observed EXCEPT ![workerCount] = 0]
  /\ workerCount' = workerCount + 1
  /\ UNCHANGED <<callerVars, active, pending, generation, stopping, context,
                 job, calls>>

\* The loop is over, or pthread_create failed and breaks out of it.
CreateReturn ==
  /\ cpc = "spawn"
  /\ workerCount >= 2
  /\ cpc' = "idle"
  /\ live' = TRUE
  /\ UNCHANGED <<target, width, poolVars, workerVars, calls>>

-----------------------------------------------------------------------------
(* lw_thread_pool_free *)

\* Called by the owner, and by create when not even one thread started.
Stop ==
  /\ \/ cpc = "idle" /\ live
     \/ cpc = "spawn" /\ workerCount < 2
  /\ stopping' = TRUE
  /\ generation' = generation + 1
  /\ wpc' = WakeWorkers
  /\ cpc' = "join"
  /\ UNCHANGED <<live, target, width, workerCount, active, pending, context,
                 observed, job, calls>>

\* Mutant: the join loop stops one thread short.
JoinedButLast == {w \in Workers : w + 1 < workerCount}

Joined == {w \in Workers : w < workerCount}

\* All joins have returned: the mutex and the pool are destroyed.
Join ==
  /\ cpc = "join"
  /\ \A w \in Joined : wpc[w] = "exited"
  /\ wpc' = [w \in Workers |-> IF w \in Joined THEN "none" ELSE wpc[w]]
  /\ workerCount' = 0
  /\ live' = FALSE
  /\ cpc' = "idle"
  /\ UNCHANGED <<target, width, active, pending, generation, stopping, context,
                 observed, job, calls>>

-----------------------------------------------------------------------------
(* lw_thread_pool_run; its callback argument is never NULL *)

\* No pool, or one slice: the callback runs on the caller alone.
RunSerial(requested) ==
  /\ cpc = "idle"
  /\ ~live \/ requested < 2
  /\ width' = 1
  /\ calls' = Zero
  /\ cpc' = "serial"
  /\ UNCHANGED <<live, target, poolVars, workerVars>>

SerialCallback ==
  /\ cpc = "serial"
  /\ calls' = [calls EXCEPT ![0] = @ + 1]
  /\ cpc' = "serial_return"
  /\ UNCHANGED <<live, target, width, poolVars, workerVars>>

SerialReturn ==
  /\ cpc = "serial_return"
  /\ cpc' = "idle"
  /\ UNCHANGED <<live, target, width, poolVars, workerVars, calls>>

\* The first critical section posts the run and wakes every worker.  The
\* context lives in the caller's frame: it is identified with the run.
Post(requested) ==
  /\ cpc = "idle" /\ live
  /\ requested >= 2
  /\ generation < MaxRuns
  /\ LET n == IF requested > workerCount THEN workerCount ELSE requested
     IN /\ width' = n
        /\ active' = n
        /\ pending' = n - 1
  /\ context' = generation + 1
  /\ generation' = generation + 1
  /\ wpc' = WakeWorkers
  /\ calls' = Zero
  /\ cpc' = "callback"
  /\ UNCHANGED <<live, target, workerCount, stopping, observed, job>>

CallerCallback ==
  /\ cpc = "callback"
  /\ calls' = [calls EXCEPT ![0] = @ + 1]
  /\ cpc' = "collect"
  /\ UNCHANGED <<live, target, width, poolVars, workerVars>>

\* Mutant: the caller leaves its wait one report early.
OneReportMissing == pending <= 1

AllReported == pending = 0

\* while (pending_worker_count != 0) wait_for_done: sleep ...
CallerSleep ==
  /\ cpc = "collect"
  /\ ~AllReported
  /\ cpc' = "asleep"
  /\ UNCHANGED <<live, target, width, poolVars, workerVars, calls>>

\* ... or leave the loop and return.
RunReturn ==
  /\ cpc = "collect"
  /\ AllReported
  /\ cpc' = "idle"
  /\ UNCHANGED <<live, target, width, poolVars, workerVars, calls>>

CallerSpuriousWakeup ==
  /\ cpc = "asleep"
  /\ cpc' = "collect"
  /\ UNCHANGED <<live, target, width, poolVars, workerVars, calls>>

-----------------------------------------------------------------------------
(* worker_loop *)

WorkerSleep(w) ==
  /\ wpc[w] = "ready"
  /\ ~stopping
  /\ generation = observed[w]
  /\ wpc' = [wpc EXCEPT ![w] = "asleep"]
  /\ UNCHANGED <<callerVars, poolVars, observed, job, calls>>

WorkerSpuriousWakeup(w) ==
  /\ wpc[w] = "asleep"
  /\ wpc' = [wpc EXCEPT ![w] = "ready"]
  /\ UNCHANGED <<callerVars, poolVars, observed, job, calls>>

WorkerExit(w) ==
  /\ wpc[w] = "ready"
  /\ stopping
  /\ wpc' = [wpc EXCEPT ![w] = "exited"]
  /\ UNCHANGED <<callerVars, poolVars, observed, job, calls>>

\* Mutants: one worker too many, and one too few, take part in a run.
OneTooMany(w) == w <= active
OneTooFew(w) == w + 1 < active

TakesPart(w) == w < active

\* Mutant: a worker that does not note which generation it has seen.
ForgetObserved(w) == observed

NoteObserved(w) == [observed EXCEPT ![w] = generation]

\* Copies the posted run; a worker outside it goes back to the loop's head.
WorkerTake(w) ==
  /\ wpc[w] = "ready"
  /\ ~stopping
  /\ generation # observed[w]
  /\ observed' = NoteObserved(w)
  /\ job' = [job EXCEPT ![w] = [context |-> context, active |-> active]]
  /\ wpc' = [wpc EXCEPT ![w] = IF TakesPart(w) THEN "callback" ELSE "ready"]
  /\ UNCHANGED <<callerVars, poolVars, calls>>

\* callback(context, worker_index, active_worker_count), outside the mutex.
WorkerCallback(w) ==
  /\ wpc[w] = "callback"
  /\ calls' = [calls EXCEPT ![w] = @ + 1]
  /\ wpc' = [wpc EXCEPT ![w] = "report"]
  /\ UNCHANGED <<callerVars, poolVars, observed, job>>

\* Mutant: the signal is sent for the first report instead of the last.
FirstReport == pending + 1 = active

LastReport == pending = 1

\* The closing critical section; the last worker signals the caller.
WorkerReport(w) ==
  /\ wpc[w] = "report"
  /\ pending' = pending - 1
  /\ cpc' = IF LastReport /\ cpc = "asleep" THEN "collect" ELSE cpc
  /\ wpc' = [wpc EXCEPT ![w] = "ready"]
  /\ UNCHANGED <<live, target, width, workerCount, active, generation,
                 stopping, context, observed, job, calls>>

-----------------------------------------------------------------------------
Worker(w) ==
  WorkerSleep(w) \/ WorkerExit(w) \/ WorkerTake(w) \/ WorkerCallback(w)
    \/ WorkerReport(w)

\* The steps the caller takes without being asked once a call has begun.
Caller ==
  SpawnWorker \/ CreateReturn \/ Join \/ SerialCallback \/ SerialReturn
    \/ CallerCallback \/ CallerSleep \/ RunReturn
    \/ (cpc = "spawn" /\ Stop)

\* The calls of the owner, with every argument that makes a difference.
Request ==
  \/ \E n \in 2..(MaxWorkers + 1) : CreateAllocate(n) \/ Post(n)
  \/ \E n \in 0..(MaxWorkers + 1) : RunSerial(n)
  \/ (cpc = "idle" /\ Stop)

Next ==
  \/ Request
  \/ Caller
  \/ CallerSpuriousWakeup
  \/ \E w \in Workers : Worker(w) \/ WorkerSpuriousWakeup(w)

\* A thread that can run does run: nothing more is assumed of the scheduler,
\* and nothing of spurious wakeups or of which calls the owner makes.
Fairness ==
  /\ WF_vars(Caller)
  /\ \A w \in Workers : WF_vars(Worker(w))

Spec == Init /\ [][Next]_vars /\ Fairness

-----------------------------------------------------------------------------
(* Properties *)

RunStates == {"callback", "collect", "asleep"}
CallerStates ==
  RunStates \cup {"idle", "spawn", "join", "serial", "serial_return"}
WorkerStates == {"none", "ready", "asleep", "callback", "report", "exited"}

\* Types.  pending is an unsigned counter that workers decrement: that it is
\* a natural number says that it never wraps.
TypeOK ==
  /\ cpc \in CallerStates
  /\ live \in BOOLEAN /\ stopping \in BOOLEAN
  /\ target \in 0..MaxWorkers /\ width \in 0..MaxWorkers
  /\ workerCount \in 0..MaxWorkers /\ active \in 0..MaxWorkers
  /\ pending \in 0..MaxWorkers
  /\ generation \in Nat /\ context \in Nat
  /\ wpc \in [Workers -> WorkerStates]
  /\ observed \in [Workers -> Nat]
  /\ job \in [Workers -> [context : Nat, active : Nat]]
  /\ calls \in [Threads -> Nat]

\* The workers of the posted run that have not reported yet.
Outstanding ==
  {w \in Workers : /\ w < active
                   /\ observed[w] # generation \/ wpc[w] \in {"callback", "report"}}

\* No lost wakeup: a thread sleeps in a condition wait only while the state it
\* waits for has not come about.  Post, Stop and the last WorkerReport change
\* that state while threads may be on their way into the wait.
NoLostWakeup ==
  /\ \A w \in Workers : wpc[w] = "asleep" => observed[w] = generation /\ ~stopping
  /\ cpc = "asleep" => pending # 0

\* A worker is inside a callback only while the caller is inside the run that
\* posted it, with that run's context (memory of the caller's frame) and slice
\* count; a worker that woke up late never runs a finished run's callback.
CallbackInsideRun ==
  \A w \in Workers : wpc[w] \in {"callback", "report"} =>
    /\ cpc \in RunStates
    /\ job[w] = [context |-> context, active |-> width]
    /\ w < width

\* pending_worker_count is exactly the number of workers the run still waits
\* for, so the caller neither returns early nor waits for nobody.
PendingExact ==
  ~stopping => /\ pending = Cardinality(Outstanding)
               /\ cpc \notin RunStates => pending = 0

\* Once the owner holds no pool, no thread is left that could touch its memory.
NoThreadAfterFree ==
  ~live /\ cpc \notin {"spawn", "join"} => \A w \in Workers : wpc[w] = "none"

\* Every call of the pool's interface returns.
EveryCallReturns == cpc # "idle" ~> cpc = "idle"

\* The pool implements ParallelFor: exactly one callback per slice, and the
\* run returns only when all of them have.
Abstract == INSTANCE ParallelFor WITH
  running <- cpc \in RunStates \cup {"serial", "serial_return"}

ImplementsParallelFor == Abstract!Spec
==============================================================================
