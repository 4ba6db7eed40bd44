-------------------------- MODULE ThreadPoolProofs ---------------------------
(***************************************************************************)
(* Proofs about ThreadPool, for every number of workers and of runs.  The  *)
(* inductive invariant IInv adds to the checked properties how the state   *)
(* of the caller, of the pool and of its threads fit together.             *)
(***************************************************************************)
EXTENDS ThreadPool, FiniteSetTheorems, TLAPS

Asleep(w) == observed[w] = generation /\ ~stopping

\* A worker between WorkerTake and WorkerReport serves the posted run.
Serving(w) ==
  /\ w < active
  /\ observed[w] = generation
  /\ job[w] = [context |-> context, active |-> active]
  /\ cpc \in RunStates

\* Which threads exist, and what the caller's place says of the pool.
PoolShape ==
  /\ \A w \in Workers : wpc[w] = "none" <=> w >= workerCount
  /\ cpc \in RunStates => live
  /\ cpc = "spawn" => ~live /\ workerCount >= 1 /\ ~stopping /\ active = 0
  /\ live => workerCount >= 2
  /\ cpc = "join" <=> stopping /\ workerCount > 0
  /\ ~live /\ cpc \notin {"spawn", "join"} => workerCount = 0

WorkerShape ==
  \A w \in Workers :
    /\ wpc[w] # "none" => observed[w] <= generation
    /\ wpc[w] = "asleep" => Asleep(w)
    /\ wpc[w] \in {"callback", "report"} => Serving(w)

\* What has been called so far in the current run.
CallShape ==
  /\ cpc \in RunStates =>
       /\ width = active /\ width \in 2..MaxWorkers
       /\ calls[0] = IF cpc = "callback" THEN 0 ELSE 1
       /\ \A w \in Workers :
            calls[w] = IF w < active /\ observed[w] = generation /\ wpc[w] # "callback"
                       THEN 1 ELSE 0
  /\ cpc \in {"serial", "serial_return"} =>
       /\ width = 1
       /\ calls[0] = IF cpc = "serial" THEN 0 ELSE 1
       /\ \A w \in Workers : calls[w] = 0

IInv ==
  /\ TypeOK
  /\ PoolShape
  /\ WorkerShape
  /\ PendingExact
  /\ cpc = "asleep" => pending # 0
  /\ CallShape

-----------------------------------------------------------------------------
(* The constants, and finite sets of workers *)

\* The assumption on the number of workers, as a bound.
LEMMA MaxWorkersPositive == MaxWorkers \in Nat /\ MaxWorkers >= 1
  BY ThreadPoolAssumption

\* Any set of workers is finite.
LEMMA WorkersFinite ==
  ASSUME NEW S \in SUBSET Workers
  PROVE  IsFiniteSet(S) /\ Cardinality(S) \in Nat
  <1>1. IsFiniteSet(Workers)
    BY FS_Interval, MaxWorkersPositive DEF Workers
  <1> QED
    BY <1>1, FS_Subset, FS_CardinalityType

\* The run of n slices waits for the n - 1 workers other than the caller.
LEMMA OthersCount ==
  ASSUME NEW n \in 1..MaxWorkers
  PROVE  Cardinality({w \in Workers : w < n}) = n - 1
  <1>1. {w \in Workers : w < n} = 1..(n - 1)
    BY MaxWorkersPositive DEF Workers
  <1>2. n - 1 \in Int /\ n - 1 >= 0
    BY MaxWorkersPositive
  <1>3. Cardinality(1..(n - 1)) = IF 1 > n - 1 THEN 0 ELSE (n - 1) - 1 + 1
    BY <1>2, FS_Interval
  <1>4. Cardinality(1..(n - 1)) = n - 1
    BY <1>2, <1>3
  <1> QED
    BY <1>1, <1>4, Zenon

-----------------------------------------------------------------------------
(* The inductive invariant *)

LEMMA InitInvariant == Init => IInv
  <1> SUFFICES ASSUME Init PROVE IInv
    OBVIOUS
  <1> USE MaxWorkersPositive DEF Init, RunStates
  <1>1. TypeOK
    <2>1. wpc \in [Workers -> WorkerStates] /\ observed \in [Workers -> Nat]
      BY DEF WorkerStates
    <2>2. job \in [Workers -> [context : Nat, active : Nat]]
      BY DEF NoJob
    <2>3. calls \in [Threads -> Nat]
      BY DEF Zero
    <2>4. cpc \in CallerStates
      BY DEF CallerStates
    <2>5. live \in BOOLEAN /\ stopping \in BOOLEAN
      BY Zenon
    <2> QED
      BY <2>1, <2>2, <2>3, <2>4, <2>5 DEF TypeOK
  <1>2. PoolShape
    BY DEF PoolShape, Workers
  <1>3. WorkerShape
    BY DEF WorkerShape, Workers
  <1>4. PendingExact
    <2>1. Outstanding = {}
      BY DEF Outstanding, Workers
    <2> QED
      BY <2>1, FS_EmptySet DEF PendingExact
  <1>5. CallShape
    BY DEF CallShape
  <1> QED
    BY <1>1, <1>2, <1>3, <1>4, <1>5 DEF IInv

\* Sleeping and waking threads do not change who owes the run a report.
LEMMA OutstandingFrame ==
  ASSUME PendingExact, UNCHANGED <<active, generation, observed, pending, stopping>>,
         cpc' \in RunStates <=> cpc \in RunStates,
         \A w \in Workers : wpc'[w] \in {"callback", "report"}
                             <=> wpc[w] \in {"callback", "report"}
  PROVE  PendingExact'
  <1>1. Outstanding' = Outstanding
    BY DEF Outstanding
  <1> QED
    BY <1>1 DEF PendingExact

LEMMA CallerSteps ==
  ASSUME IInv,
         \/ \E n \in 2..(MaxWorkers + 1) : CreateAllocate(n)
         \/ \E n \in 0..(MaxWorkers + 1) : RunSerial(n)
         \/ SpawnWorker \/ CreateReturn \/ Stop \/ Join
         \/ SerialCallback \/ SerialReturn
  PROVE  IInv'
  <1> USE MaxWorkersPositive DEF RunStates, IInv
  <1>1. ASSUME NEW n \in 2..(MaxWorkers + 1), CreateAllocate(n)
        PROVE  IInv'
    <2> USE <1>1 DEF CreateAllocate
    <2>1. TypeOK'
      <3>1. Capped(n) \in 0..MaxWorkers
        BY DEF Capped
      <3>2. live' \in BOOLEAN /\ stopping' \in BOOLEAN
        BY DEF TypeOK
      <3> QED
        BY <3>1, <3>2 DEF TypeOK, CallerStates
    <2>2. PoolShape'
      BY DEF PoolShape, TypeOK, Workers
    <2>3. WorkerShape'
      BY DEF WorkerShape, PoolShape, TypeOK, Workers
    <2>4. PendingExact'
      <3>1. Outstanding' = {}
        BY DEF Outstanding, Workers
      <3> QED
        BY <3>1, FS_EmptySet DEF PendingExact
    <2>5. CallShape'
      BY DEF CallShape
    <2> QED
      BY <2>1, <2>2, <2>3, <2>4, <2>5
  <1>2. ASSUME NEW n \in 0..(MaxWorkers + 1), RunSerial(n)
        PROVE  IInv'
    <2> USE <1>2 DEF RunSerial, poolVars, workerVars
    <2>1. TypeOK'
      BY DEF TypeOK, CallerStates, Zero, Threads
    <2>2. PoolShape'
      BY DEF PoolShape
    <2>3. WorkerShape'
      BY DEF WorkerShape, Serving, Asleep
    <2>4. PendingExact'
      BY OutstandingFrame DEF poolVars, workerVars
    <2>5. CallShape'
      BY DEF CallShape, Zero, Threads, Workers
    <2> QED
      BY <2>1, <2>2, <2>3, <2>4, <2>5
  <1>3. ASSUME SpawnWorker
        PROVE  IInv'
    <2> USE <1>3 DEF SpawnWorker, callerVars
    <2>0. workerCount \in Workers
      BY DEF PoolShape, TypeOK, Workers
    <2>1. TypeOK'
      BY <2>0 DEF TypeOK, WorkerStates
    <2>2. PoolShape'
      BY <2>0 DEF PoolShape, TypeOK, Workers
    <2>3. WorkerShape'
      BY <2>0 DEF WorkerShape, PoolShape, TypeOK, Serving, Asleep
    <2>4. PendingExact'
      <3>1. Outstanding' = {} /\ Outstanding = {}
        BY DEF Outstanding, Workers, PoolShape
      <3> QED
        BY <3>1, FS_EmptySet DEF PendingExact
    <2>5. CallShape'
      BY DEF CallShape
    <2> QED
      BY <2>1, <2>2, <2>3, <2>4, <2>5
  <1>4. ASSUME CreateReturn
        PROVE  IInv'
    <2> USE <1>4 DEF CreateReturn, poolVars, workerVars
    <2>1. TypeOK'
      BY DEF TypeOK, CallerStates
    <2>2. PoolShape'
      BY DEF PoolShape
    <2>3. WorkerShape'
      BY DEF WorkerShape, Serving, Asleep
    <2>4. PendingExact'
      BY OutstandingFrame
    <2>5. CallShape'
      BY DEF CallShape
    <2> QED
      BY <2>1, <2>2, <2>3, <2>4, <2>5
  <1>5. ASSUME Stop
        PROVE  IInv'
    <2> USE <1>5 DEF Stop, WakeWorkers
    <2>1. TypeOK'
      BY DEF TypeOK, CallerStates, WorkerStates
    <2>2. PoolShape'
      BY DEF PoolShape, TypeOK
    <2>3. WorkerShape'
      BY DEF WorkerShape, PoolShape, TypeOK, Serving, Asleep
    <2>4. PendingExact'
      BY DEF PendingExact
    <2>5. CallShape'
      BY DEF CallShape
    <2> QED
      BY <2>1, <2>2, <2>3, <2>4, <2>5
  <1>6. ASSUME Join
        PROVE  IInv'
    <2> USE <1>6 DEF Join
    <2>0. wpc' = [w \in Workers |-> "none"]
      BY DEF Joined, PoolShape, TypeOK, Workers
    <2>1. TypeOK'
      <3>1. wpc' \in [Workers -> WorkerStates]
        BY <2>0 DEF WorkerStates
      <3>2. live' \in BOOLEAN /\ stopping' \in BOOLEAN
        BY DEF TypeOK
      <3> QED
        BY <3>1, <3>2 DEF TypeOK, CallerStates
    <2>2. PoolShape'
      BY <2>0 DEF PoolShape, TypeOK, Workers
    <2>3. WorkerShape'
      BY <2>0 DEF WorkerShape
    <2>4. PendingExact'
      BY DEF PendingExact, PoolShape
    <2>5. CallShape'
      BY DEF CallShape
    <2> QED
      BY <2>1, <2>2, <2>3, <2>4, <2>5
  <1>7. ASSUME SerialCallback \/ SerialReturn
        PROVE  IInv'
    <2> USE <1>7 DEF SerialCallback, SerialReturn, poolVars, workerVars
    <2>1. TypeOK'
      <3>0. calls \in [Threads -> Nat] /\ 0 \in Threads
        BY DEF TypeOK, Threads
      <3>1. calls' \in [Threads -> Nat]
        BY <3>0
      <3>2. cpc' \in CallerStates
        BY DEF CallerStates
      <3> QED
        BY <3>1, <3>2 DEF TypeOK
    <2>2. PoolShape'
      BY DEF PoolShape
    <2>3. WorkerShape'
      BY DEF WorkerShape, Serving, Asleep
    <2>4. PendingExact'
      <3>1. cpc \notin RunStates /\ cpc' \notin RunStates
        OBVIOUS
      <3> QED
        BY <3>1, OutstandingFrame
    <2>5. CallShape'
      <3>1. /\ calls \in [Threads -> Nat]
            /\ 0 \in Threads /\ \A w \in Workers : w \in Threads /\ w # 0
        BY DEF TypeOK, Threads, Workers
      <3> QED
        BY <3>1 DEF CallShape
    <2> QED
      BY <2>1, <2>2, <2>3, <2>4, <2>5
  <1> QED
    BY <1>1, <1>2, <1>3, <1>4, <1>5, <1>6, <1>7

\* Posting a run: nobody is in a callback, everybody's generation is older.
LEMMA PostStep ==
  ASSUME IInv, NEW n \in 2..(MaxWorkers + 1), Post(n)
  PROVE  IInv'
  <1> USE MaxWorkersPositive DEF IInv, Post, WakeWorkers
  <1> DEFINE m == IF n > workerCount THEN workerCount ELSE n
  <1>1. /\ m \in 2..MaxWorkers /\ m <= workerCount
        /\ width' = m /\ active' = m /\ pending' = m - 1
    BY DEF PoolShape, TypeOK
  <1>2. /\ ~stopping
        /\ \A w \in Workers : w < workerCount => observed[w] # generation'
        /\ \A w \in Workers : wpc[w] \notin {"callback", "report"}
    BY DEF PoolShape, WorkerShape, TypeOK, Workers, Serving, RunStates
  <1>3. TypeOK'
    <2>1. wpc' \in [Workers -> WorkerStates]
      BY DEF TypeOK, WorkerStates
    <2>2. calls' \in [Threads -> Nat]
      BY DEF Zero
    <2> QED
      BY <1>1, <2>1, <2>2 DEF TypeOK, CallerStates, RunStates
  <1>4. PoolShape'
    BY <1>1, <1>2 DEF PoolShape, TypeOK, RunStates
  <1>5. WorkerShape'
    BY <1>2 DEF WorkerShape, TypeOK, Asleep
  <1>6. PendingExact'
    <2>1. \A w \in Workers : w < m => observed[w] # generation'
      BY <1>1, <1>2 DEF TypeOK, Workers
    <2>2. Outstanding' = {w \in Workers : w < m}
      BY <1>1, <1>2, <2>1 DEF Outstanding
    <2>3. Cardinality(Outstanding') = pending'
      BY <1>1, <2>2, OthersCount
    <2> QED
      BY <1>1, <2>3 DEF PendingExact, RunStates
  <1>7. CallShape'
    <2>1. 0 \in Threads /\ \A w \in Workers : w \in Threads
      BY DEF Threads, Workers
    <2>2. \A w \in Workers : w < m => observed[w] # generation'
      BY <1>1, <1>2 DEF TypeOK, Workers
    <2> QED
      BY <1>1, <2>1, <2>2 DEF CallShape, Zero, RunStates
  <1> QED
    BY <1>3, <1>4, <1>5, <1>6, <1>7

LEMMA RunSteps ==
  ASSUME IInv,
         CallerCallback \/ CallerSleep \/ RunReturn \/ CallerSpuriousWakeup
  PROVE  IInv'
  <1> USE MaxWorkersPositive DEF IInv, RunStates, poolVars, workerVars, AllReported
  <1>1. ASSUME CallerCallback
        PROVE  IInv'
    <2> USE <1>1 DEF CallerCallback
    <2>1. TypeOK'
      BY DEF TypeOK, CallerStates, Threads
    <2>2. PoolShape' /\ WorkerShape'
      BY DEF PoolShape, WorkerShape, Serving, Asleep
    <2>3. PendingExact'
      BY OutstandingFrame
    <2>4. CallShape'
      BY DEF CallShape, TypeOK, Threads, Workers
    <2> QED
      BY <2>1, <2>2, <2>3, <2>4
  <1>2. ASSUME CallerSleep \/ CallerSpuriousWakeup
        PROVE  IInv'
    <2> USE <1>2 DEF CallerSleep, CallerSpuriousWakeup
    <2>1. TypeOK'
      BY DEF TypeOK, CallerStates
    <2>2. PoolShape' /\ WorkerShape'
      BY DEF PoolShape, WorkerShape, Serving, Asleep
    <2>3. PendingExact'
      BY OutstandingFrame
    <2>4. CallShape'
      BY DEF CallShape
    <2> QED
      BY <2>1, <2>2, <2>3, <2>4
  <1>3. ASSUME RunReturn
        PROVE  IInv'
    <2> USE <1>3 DEF RunReturn
    <2>1. ~stopping /\ Outstanding = {}
      <3>1. ~stopping
        BY DEF PoolShape, TypeOK
      <3>2. Cardinality(Outstanding) = 0
        BY <3>1 DEF PendingExact
      <3>3. IsFiniteSet(Outstanding)
        BY WorkersFinite DEF Outstanding
      <3> QED
        BY <3>1, <3>2, <3>3, FS_EmptySet
    <2>2. \A w \in Workers : wpc[w] \notin {"callback", "report"}
      BY <2>1 DEF Outstanding, WorkerShape, Serving
    <2>3. TypeOK'
      BY DEF TypeOK, CallerStates
    <2>4. PoolShape'
      BY DEF PoolShape
    <2>5. WorkerShape'
      BY <2>2 DEF WorkerShape, Asleep
    <2>6. PendingExact'
      <3>1. Outstanding' = Outstanding
        BY DEF Outstanding
      <3> QED
        BY <3>1 DEF PendingExact
    <2>7. CallShape'
      BY DEF CallShape
    <2> QED
      BY <2>3, <2>4, <2>5, <2>6, <2>7
  <1> QED
    BY <1>1, <1>2, <1>3

LEMMA WorkerSteps ==
  ASSUME IInv, NEW w \in Workers,
         \/ WorkerSleep(w) \/ WorkerSpuriousWakeup(w) \/ WorkerExit(w)
         \/ WorkerTake(w) \/ WorkerCallback(w)
  PROVE  IInv'
  <1> USE MaxWorkersPositive DEF IInv, RunStates, callerVars, poolVars
  <1>1. ASSUME WorkerSleep(w) \/ WorkerSpuriousWakeup(w) \/ WorkerExit(w)
        PROVE  IInv'
    <2> USE <1>1 DEF WorkerSleep, WorkerSpuriousWakeup, WorkerExit
    <2>1. TypeOK'
      BY DEF TypeOK, WorkerStates
    <2>2. PoolShape'
      BY DEF PoolShape, TypeOK
    <2>3. WorkerShape'
      BY DEF WorkerShape, TypeOK, Serving, Asleep
    <2>4. PendingExact'
      <3>1. \A v \in Workers : wpc'[v] \in {"callback", "report"}
                               <=> wpc[v] \in {"callback", "report"}
        BY DEF TypeOK
      <3> QED
        BY <3>1, OutstandingFrame
    <2>5. CallShape'
      BY DEF CallShape, TypeOK
    <2> QED
      BY <2>1, <2>2, <2>3, <2>4, <2>5
  <1>2. ASSUME WorkerTake(w)
        PROVE  IInv'
    <2> USE <1>2 DEF WorkerTake, TakesPart, NoteObserved
    <2>1. TypeOK'
      BY DEF TypeOK, WorkerStates
    <2>2. PoolShape'
      BY DEF PoolShape, TypeOK
    <2>3. w < active => cpc \in RunStates
      <3> SUFFICES ASSUME w < active, cpc \notin RunStates
                   PROVE  FALSE
        OBVIOUS
      <3>1. Cardinality(Outstanding) = 0
        BY DEF PendingExact
      <3>2. IsFiniteSet(Outstanding)
        BY WorkersFinite DEF Outstanding
      <3>3. w \in Outstanding
        BY DEF Outstanding
      <3> QED
        BY <3>1, <3>2, <3>3, FS_EmptySet
    <2>4. WorkerShape'
      BY <2>3 DEF WorkerShape, TypeOK, Serving, Asleep
    <2>5. PendingExact'
      <3>1. Outstanding' = Outstanding
        BY DEF Outstanding, TypeOK
      <3> QED
        BY <3>1 DEF PendingExact
    <2>6. CallShape'
      BY DEF CallShape, TypeOK
    <2> QED
      BY <2>1, <2>2, <2>4, <2>5, <2>6
  <1>3. ASSUME WorkerCallback(w)
        PROVE  IInv'
    <2> USE <1>3 DEF WorkerCallback
    <2>0. w \in Threads /\ 0 \in Threads /\ \A v \in Workers : v \in Threads /\ v # 0
      BY DEF Workers, Threads
    <2>1. TypeOK'
      BY <2>0 DEF TypeOK, WorkerStates
    <2>2. PoolShape'
      BY DEF PoolShape, TypeOK
    <2>3. WorkerShape'
      BY DEF WorkerShape, TypeOK, Serving, Asleep
    <2>4. PendingExact'
      <3>1. \A v \in Workers : wpc'[v] \in {"callback", "report"}
                               <=> wpc[v] \in {"callback", "report"}
        BY DEF TypeOK
      <3> QED
        BY <3>1, OutstandingFrame
    <2>5. CallShape'
      BY <2>0 DEF CallShape, TypeOK, WorkerShape, Serving
    <2> QED
      BY <2>1, <2>2, <2>3, <2>4, <2>5
  <1> QED
    BY <1>1, <1>2, <1>3

\* The reporting worker leaves Outstanding, and the counter follows it.
LEMMA ReportStep ==
  ASSUME IInv, NEW w \in Workers, WorkerReport(w)
  PROVE  IInv'
  <1> USE MaxWorkersPositive DEF IInv, RunStates, WorkerReport, LastReport
  <1>1. Serving(w) /\ ~stopping
    BY DEF WorkerShape, Serving, PoolShape, TypeOK
  <1>2. w \in Outstanding /\ IsFiniteSet(Outstanding)
    BY <1>1, WorkersFinite DEF Outstanding, Serving
  <1>3. Outstanding' = Outstanding \ {w}
    BY <1>1 DEF Outstanding, TypeOK, Serving
  <1>4. /\ pending = Cardinality(Outstanding)
        /\ Cardinality(Outstanding') = pending - 1
        /\ pending # 0
    <2>1. pending = Cardinality(Outstanding)
      BY <1>1 DEF PendingExact
    <2>2. Cardinality(Outstanding \ {w}) = Cardinality(Outstanding) - 1
      BY <1>2, FS_RemoveElement
    <2>3. pending # 0
      BY <1>2, <2>1, FS_EmptySet
    <2> QED
      BY <1>3, <2>1, <2>2, <2>3
  <1>5. cpc' \in RunStates
    BY <1>1 DEF Serving
  <1>6. TypeOK'
    <2>1. wpc' \in [Workers -> WorkerStates]
      BY DEF TypeOK, WorkerStates
    <2>2. cpc' \in CallerStates
      BY DEF TypeOK, CallerStates
    <2>3. pending' \in 0..MaxWorkers
      <3>1. pending' = pending - 1 /\ pending \in 0..MaxWorkers /\ pending # 0
        BY <1>4 DEF TypeOK
      <3> QED
        BY ONLY <3>1, MaxWorkersPositive
    <2> QED
      BY <2>1, <2>2, <2>3 DEF TypeOK
  <1>7. PoolShape'
    BY <1>1, <1>5 DEF PoolShape, TypeOK, Serving
  <1>8. WorkerShape'
    BY <1>5 DEF WorkerShape, TypeOK, Serving, Asleep
  <1>9. PendingExact'
    BY <1>4, <1>5 DEF PendingExact
  <1>10. cpc' = "asleep" => pending' # 0
    BY <1>4 DEF TypeOK
  <1>11. CallShape'
    BY <1>1 DEF CallShape, TypeOK, Serving
  <1> QED
    BY <1>6, <1>7, <1>8, <1>9, <1>10, <1>11

LEMMA StepInvariant == IInv /\ [Next]_vars => IInv'
  <1> SUFFICES ASSUME IInv, [Next]_vars PROVE IInv'
    OBVIOUS
  <1>1. CASE Request
    BY <1>1, CallerSteps, PostStep DEF Request
  <1>2. CASE Caller
    BY <1>2, CallerSteps, RunSteps DEF Caller
  <1>3. CASE CallerSpuriousWakeup
    BY <1>3, RunSteps
  <1>4. ASSUME NEW w \in Workers, Worker(w) \/ WorkerSpuriousWakeup(w)
        PROVE  IInv'
    BY <1>4, WorkerSteps, ReportStep DEF Worker
  <1>5. CASE UNCHANGED vars
    BY <1>5 DEF vars, IInv, TypeOK, PoolShape, WorkerShape, Serving, Asleep,
                PendingExact, Outstanding, CallShape
  <1> QED
    BY <1>1, <1>2, <1>3, <1>4, <1>5 DEF Next

-----------------------------------------------------------------------------
(* Theorems *)

THEOREM Invariance == Spec => []IInv
  BY InitInvariant, StepInvariant, PTL DEF Spec

\* The fields stay in range for every pool size; pending never wraps.
THEOREM TypeCorrect == Spec => []TypeOK
  <1>1. IInv => TypeOK
    BY DEF IInv
  <1> QED
    BY <1>1, Invariance, PTL

\* No thread of the pool, and not its caller, sleeps through its wakeup.
THEOREM WakeupsNotLost == Spec => []NoLostWakeup
  <1>1. IInv => NoLostWakeup
    BY DEF IInv, WorkerShape, Asleep, NoLostWakeup
  <1> QED
    BY <1>1, Invariance, PTL

\* pending_worker_count counts exactly the reports the run still waits for.
THEOREM PendingCorrect == Spec => []PendingExact
  <1>1. IInv => PendingExact
    BY DEF IInv
  <1> QED
    BY <1>1, Invariance, PTL

\* Callbacks run only inside the run that posted them, with its arguments.
THEOREM CallbacksContained == Spec => []CallbackInsideRun
  <1>1. IInv => CallbackInsideRun
    BY DEF IInv, WorkerShape, Serving, CallShape, CallbackInsideRun
  <1> QED
    BY <1>1, Invariance, PTL

\* After lw_thread_pool_free no thread is left to touch the pool's memory.
THEOREM FreeIsFinal == Spec => []NoThreadAfterFree
  <1>1. IInv => NoThreadAfterFree
    BY DEF IInv, PoolShape, NoThreadAfterFree, TypeOK, Workers
  <1> QED
    BY <1>1, Invariance, PTL

-----------------------------------------------------------------------------
(* Refinement *)

LEMMA InitRefines == Init => Abstract!Init
  BY DEF Init, Abstract!Init, Abstract!Slices, Threads, Zero, RunStates

\* Every step is a step of ParallelFor or leaves its variables alone.
LEMMA StepRefines ==
  ASSUME IInv, [Next]_vars
  PROVE  [Abstract!Next]_(Abstract!vars)
  <1> USE MaxWorkersPositive DEF RunStates, Abstract!vars, Abstract!Slices
  <1> DEFINE Quiet == /\ UNCHANGED <<width, calls>>
                      /\ \/ cpc' = cpc
                         \/ cpc \in RunStates /\ cpc' \in RunStates
                         \/ cpc \notin RunStates \cup {"serial", "serial_return"}
                            /\ cpc' \notin RunStates \cup {"serial", "serial_return"}
  <1>0. ASSUME Quiet
        PROVE  UNCHANGED Abstract!vars
    BY <1>0
  <1>1. CASE \/ \E n \in 2..(MaxWorkers + 1) : CreateAllocate(n)
             \/ SpawnWorker \/ CreateReturn \/ Stop \/ Join
             \/ CallerSleep \/ CallerSpuriousWakeup
    BY <1>1, <1>0 DEF CreateAllocate, SpawnWorker, CreateReturn, Stop, Join,
                      CallerSleep, CallerSpuriousWakeup, callerVars
  <1>2. ASSUME NEW n \in 0..(MaxWorkers + 1), RunSerial(n)
        PROVE  Abstract!Next
    <2>1. Abstract!Begin(1)
      BY <1>2 DEF RunSerial, Abstract!Begin, Zero, Threads
    <2> QED
      BY <2>1 DEF Abstract!Next
  <1>3. ASSUME NEW n \in 2..(MaxWorkers + 1), Post(n)
        PROVE  Abstract!Next
    <2> DEFINE m == IF n > workerCount THEN workerCount ELSE n
    <2>1. m \in 1..MaxWorkers
      BY <1>3 DEF Post, IInv, PoolShape, TypeOK
    <2>2. Abstract!Begin(m)
      BY <1>3 DEF Post, Abstract!Begin, Zero, Threads
    <2> QED
      BY <2>1, <2>2 DEF Abstract!Next
  <1>4. CASE SerialCallback \/ CallerCallback
    <2>1. 0 \in Threads /\ calls[0] = 0 /\ 0 < width
      BY <1>4 DEF SerialCallback, CallerCallback, IInv, CallShape, TypeOK, Threads
    <2>2. Abstract!Slice(0)
      BY <1>4, <2>1 DEF SerialCallback, CallerCallback, Abstract!Slice, IInv, TypeOK
    <2> QED
      BY <2>1, <2>2 DEF Abstract!Next, Threads
  <1>5. CASE SerialReturn \/ RunReturn
    <2>1. \A i \in Threads : i < width => calls[i] = 1
      <3>1. CASE SerialReturn
        BY <1>5, <3>1 DEF SerialReturn, IInv, CallShape, TypeOK, Threads
      <3>2. CASE RunReturn
        <4>1. Outstanding = {}
          <5>1. ~stopping
            BY <3>2 DEF RunReturn, IInv, PoolShape, TypeOK
          <5>2. Cardinality(Outstanding) = 0
            BY <3>2, <5>1 DEF RunReturn, AllReported, IInv, PendingExact
          <5>3. IsFiniteSet(Outstanding)
            BY WorkersFinite DEF Outstanding
          <5> QED
            BY <5>2, <5>3, FS_EmptySet
        <4>2. \A w \in Workers : w < width => calls[w] = 1
          BY <3>2, <4>1 DEF RunReturn, IInv, CallShape, Outstanding
        <4>3. calls[0] = 1
          BY <3>2 DEF RunReturn, IInv, CallShape
        <4>4. \A i \in Threads : i = 0 \/ i \in Workers
          BY DEF Threads, Workers
        <4> QED
          BY <4>2, <4>3, <4>4
      <3> QED
        BY <1>5, <3>1, <3>2
    <2>2. Abstract!Return
      BY <1>5, <2>1 DEF SerialReturn, RunReturn, Abstract!Return, Threads
    <2> QED
      BY <2>2 DEF Abstract!Next
  <1>6. ASSUME NEW w \in Workers,
               \/ WorkerSleep(w) \/ WorkerSpuriousWakeup(w) \/ WorkerExit(w)
               \/ WorkerTake(w) \/ WorkerReport(w)
        PROVE  UNCHANGED Abstract!vars
    BY <1>6, <1>0 DEF WorkerSleep, WorkerSpuriousWakeup, WorkerExit, WorkerTake,
                      WorkerReport, callerVars
  <1>7. ASSUME NEW w \in Workers, WorkerCallback(w)
        PROVE  Abstract!Next
    <2>1. w \in Threads /\ calls[w] = 0 /\ w < width /\ cpc \in RunStates
      BY <1>7 DEF WorkerCallback, IInv, WorkerShape, Serving, CallShape, Threads, Workers
    <2>2. Abstract!Slice(w)
      BY <1>7, <2>1 DEF WorkerCallback, callerVars, Abstract!Slice, IInv, TypeOK
    <2> QED
      BY <2>1, <2>2 DEF Abstract!Next, Threads
  <1>8. CASE UNCHANGED vars
    BY <1>8 DEF vars
  <1> QED
    BY <1>1, <1>2, <1>3, <1>4, <1>5, <1>6, <1>7, <1>8
       DEF Next, Request, Caller, Worker

\* The pool implements the safety part of ParallelFor: one callback for every
\* slice, none twice, and no return before the last of them.
THEOREM PoolRefinesParallelFor == Spec => Abstract!Safety
  BY InitRefines, StepRefines, Invariance, PTL DEF Spec, Abstract!Safety
==============================================================================
