------------------------ MODULE AndroidRegistryProofs ------------------------
(***************************************************************************)
(* Proofs about AndroidRegistry, for any set of threads and any number of  *)
(* engines.  The inductive invariant IInv says where the engines are that  *)
(* calls and destroys work on; the safety properties follow from it.       *)
(***************************************************************************)
EXTENDS AndroidRegistry, FiniteSetTheorems, TLAPS

InsidePlaces == {"lock", "call", "release"}
DestroyPlaces == {"asleep", "woken", "free"}

\* A linked engine is not closing, and a token not handed out names no engine.
Linked ==
  /\ freed \subseteq closing
  /\ registry \cap closing = {}
  /\ \A e \in registry \cup closing : e < nextToken

\* A call works on an engine that is linked, or on one that waits for it.
CallsPlaced ==
  \A t \in Threads :
    pc[t] \in InsidePlaces => engine[t] \in registry \cup closing /\ engine[t] \notin freed

\* A destroy works on a closing engine, alone, and frees it with nobody inside.
DestroysPlaced ==
  \A t \in Threads :
    pc[t] \in DestroyPlaces =>
      /\ engine[t] \in closing \ freed
      /\ \A u \in Threads :
           /\ pc[u] \in DestroyPlaces /\ engine[u] = engine[t] => u = t
           /\ pc[t] = "free" /\ pc[u] \in InsidePlaces => engine[u] # engine[t]
      /\ pc[t] = "asleep" => activeCalls[engine[t]] # 0

IInv == TypeOK /\ Linked /\ CallsPlaced /\ DestroysPlaced /\ CallsCounted

-----------------------------------------------------------------------------
(* Counting the calls inside an engine *)

\* The threads inside an engine are finitely many.
LEMMA InsideFinite ==
  ASSUME NEW e PROVE IsFiniteSet(Inside(e)) /\ Cardinality(Inside(e)) \in Nat
  BY FS_Subset, FS_CardinalityType, AndroidRegistryAssumption DEF Inside

\* No call is counted exactly when no thread is inside.
LEMMA NobodyInside ==
  ASSUME IInv, NEW e \in Tokens
  PROVE  activeCalls[e] = 0 <=> \A u \in Threads : ~(pc[u] \in InsidePlaces /\ engine[u] = e)
  <1>1. activeCalls[e] = 0 <=> Inside(e) = {}
    BY InsideFinite, FS_EmptySet DEF IInv, CallsCounted
  <1> QED
    BY <1>1 DEF Inside, InsidePlaces

\* A step that moves no thread into or out of a call keeps the counts exact.
LEMMA CountsFrame ==
  ASSUME CallsCounted, UNCHANGED activeCalls,
         \A t \in Threads :
           /\ pc'[t] \in InsidePlaces <=> pc[t] \in InsidePlaces
           /\ pc[t] \in InsidePlaces => engine'[t] = engine[t]
  PROVE  CallsCounted'
  <1>1. ASSUME NEW e \in Tokens PROVE Inside(e)' = Inside(e)
    BY DEF Inside, InsidePlaces
  <1> QED
    BY <1>1 DEF CallsCounted

-----------------------------------------------------------------------------
(* The inductive invariant *)

LEMMA InitInvariant == Init => IInv
  <1> SUFFICES ASSUME Init PROVE IInv
    OBVIOUS
  <1> USE AndroidRegistryAssumption DEF Init, Tokens, InsidePlaces, DestroyPlaces
  <1>1. TypeOK
    BY DEF TypeOK
  <1>2. Linked /\ CallsPlaced /\ DestroysPlaced
    BY DEF Linked, CallsPlaced, DestroysPlaced
  <1>3. CallsCounted
    <2>1. ASSUME NEW e \in Tokens PROVE Inside(e) = {}
      BY DEF Inside
    <2> QED
      BY <2>1, FS_EmptySet DEF CallsCounted
  <1> QED
    BY <1>1, <1>2, <1>3 DEF IInv

LEMMA CreateKeeps ==
  ASSUME IInv, NEW t \in Threads, Create(t) PROVE IInv'
  <1> USE AndroidRegistryAssumption DEF IInv, Create
  <1>1. TypeOK'
    BY DEF TypeOK, Tokens
  <1>2. Linked'
    BY DEF TypeOK, Tokens, Linked
  <1>3. CallsPlaced' /\ DestroysPlaced'
    BY DEF CallsPlaced, DestroysPlaced
  <1>4. CallsCounted'
    BY CountsFrame
  <1> QED
    BY <1>1, <1>2, <1>3, <1>4

LEMMA AcquireKeeps ==
  ASSUME IInv, NEW t \in Threads, NEW e \in Tokens, Acquire(t, e) PROVE IInv'
  <1> USE DEF IInv, Acquire, Goto
  <1>1. TypeOK'
    BY DEF TypeOK
  <1>2. Linked'
    BY DEF Linked
  <1>3. pc'[t] = "lock" /\ engine'[t] = e
        /\ \A u \in Threads \ {t} : pc'[u] = pc[u] /\ engine'[u] = engine[u]
    BY DEF TypeOK
  <1>4. CallsPlaced'
    BY <1>3 DEF CallsPlaced, InsidePlaces, Linked
  <1>5. ASSUME NEW f \in Tokens PROVE activeCalls'[f] >= activeCalls[f]
    BY DEF TypeOK
  <1>6. DestroysPlaced'
    BY <1>3, <1>5 DEF DestroysPlaced, InsidePlaces, DestroyPlaces, TypeOK, Linked
  <1>7. CallsCounted'
    <2>1. Inside(e)' = Inside(e) \cup {t} /\ t \notin Inside(e)
      BY <1>3 DEF Inside, TypeOK
    <2>2. Cardinality(Inside(e) \cup {t}) = Cardinality(Inside(e)) + 1
      BY <2>1, InsideFinite, FS_AddElement
    <2>3. activeCalls' = [activeCalls EXCEPT ![e] = @ + 1] /\ activeCalls \in [Tokens -> Nat]
      BY DEF TypeOK
    <2>4. ASSUME NEW f \in Tokens, f # e PROVE Inside(f)' = Inside(f)
      BY <1>3, <2>4 DEF Inside, TypeOK
    <2>5. activeCalls'[e] = Cardinality(Inside(e)')
      <3>1. activeCalls'[e] = activeCalls[e] + 1
        BY <2>3
      <3>2. activeCalls[e] = Cardinality(Inside(e))
        BY DEF CallsCounted
      <3> QED
        BY <2>1, <2>2, <3>1, <3>2
    <2>6. ASSUME NEW f \in Tokens, f # e PROVE activeCalls'[f] = Cardinality(Inside(f)')
      <3>1. activeCalls'[f] = activeCalls[f]
        BY <2>3, <2>6
      <3> QED
        BY <2>4, <2>6, <3>1 DEF CallsCounted
    <2> QED
      BY <2>5, <2>6 DEF CallsCounted
  <1> QED
    BY <1>1, <1>2, <1>4, <1>6, <1>7

\* Taking and leaving the call mutex changes nothing but who holds it.
LEMMA CallMutexKeeps ==
  ASSUME IInv, NEW t \in Threads, LockCall(t) \/ UnlockCall(t) PROVE IInv'
  <1> USE DEF IInv, LockCall, UnlockCall, Goto
  <1>1. TypeOK'
    BY DEF TypeOK
  <1>2. Linked'
    BY DEF Linked
  <1>3. \A u \in Threads : /\ pc'[u] \in InsidePlaces <=> pc[u] \in InsidePlaces
                           /\ pc[u] \in DestroyPlaces \/ pc'[u] \in DestroyPlaces
                                => pc'[u] = pc[u]
    BY DEF TypeOK, InsidePlaces, DestroyPlaces
  <1>4. CallsPlaced' /\ DestroysPlaced'
    BY <1>3 DEF CallsPlaced, DestroysPlaced
  <1>5. CallsCounted'
    BY <1>3, CountsFrame
  <1> QED
    BY <1>1, <1>2, <1>4, <1>5

LEMMA ReleaseKeeps ==
  ASSUME IInv, NEW t \in Threads, ReleaseEngine(t) PROVE IInv'
  <1> DEFINE e == engine[t]
  <1> USE DEF IInv, ReleaseEngine
  <1>1. e \in Tokens /\ activeCalls[e] \in Nat /\ pc[t] = "release"
    BY DEF TypeOK
  <1>2. Inside(e) # {} /\ t \in Inside(e)
    BY <1>1 DEF Inside
  <1>3. activeCalls[e] >= 1
    BY <1>1, <1>2, NobodyInside DEF InsidePlaces
  <1>4. activeCalls' = [activeCalls EXCEPT ![e] = @ - 1]
    BY DEF TypeOK
  <1>5. \A u \in Threads :
          /\ u = t => pc'[u] = "idle"
          /\ u # t => \/ pc'[u] = pc[u] /\ ~(SignalDue(e) /\ pc[u] = "asleep" /\ engine[u] = e)
                      \/ SignalDue(e) /\ pc[u] = "asleep" /\ engine[u] = e /\ pc'[u] = "woken"
    BY DEF TypeOK
  <1>6. TypeOK'
    <2>1. activeCalls' \in [Tokens -> Nat]
      BY <1>1, <1>3, <1>4 DEF TypeOK
    <2> QED
      BY <2>1 DEF TypeOK
  <1>7. Linked'
    BY DEF Linked
  <1>8. CallsPlaced'
    BY <1>5 DEF CallsPlaced, InsidePlaces
  <1>9. DestroysPlaced'
    <2>1. ASSUME NEW u \in Threads, pc'[u] = "asleep"
          PROVE  activeCalls'[engine[u]] # 0
      <3>1. pc[u] = "asleep" /\ ~(SignalDue(e) /\ engine[u] = e)
        BY <1>5, <2>1
      <3>2. activeCalls[engine[u]] # 0 /\ engine[u] \in closing /\ engine[u] \in Tokens
        BY <3>1 DEF DestroysPlaced, DestroyPlaces, TypeOK
      <3>3. CASE engine[u] = e
        <4>1. activeCalls[e] # 1
          BY <3>1, <3>2, <3>3 DEF SignalDue
        <4> QED
          BY <1>1, <1>3, <1>4, <3>3, <4>1 DEF TypeOK
      <3>4. CASE engine[u] # e
        BY <1>4, <3>2, <3>4 DEF TypeOK
      <3> QED
        BY <3>3, <3>4
    <2> QED
      BY <1>5, <2>1 DEF DestroysPlaced, InsidePlaces, DestroyPlaces
  <1>10. CallsCounted'
    <2>1. Inside(e)' = Inside(e) \ {t}
      BY <1>5 DEF Inside
    <2>2. Cardinality(Inside(e) \ {t}) = Cardinality(Inside(e)) - 1
      BY <1>2, InsideFinite, FS_RemoveElement
    <2>3. activeCalls'[e] = Cardinality(Inside(e)')
      BY <1>1, <1>4, <2>1, <2>2 DEF CallsCounted, TypeOK
    <2>4. ASSUME NEW f \in Tokens, f # e PROVE Inside(f)' = Inside(f)
      BY <1>5, <2>4 DEF Inside
    <2> QED
      BY <1>1, <1>4, <2>3, <2>4 DEF CallsCounted, TypeOK
  <1> QED
    BY <1>6, <1>7, <1>8, <1>9, <1>10

LEMMA DestroyKeeps ==
  ASSUME IInv, NEW t \in Threads, NEW e \in Tokens, Destroy(t, e) PROVE IInv'
  <1> USE DEF IInv, Destroy, Unlinked, Goto
  <1>1. TypeOK'
    BY DEF TypeOK
  <1>2. Linked'
    BY DEF Linked
  <1>3. /\ pc'[t] = IF activeCalls[e] = 0 THEN "free" ELSE "asleep"
        /\ pc[t] = "idle" /\ engine'[t] = e
        /\ \A u \in Threads \ {t} : pc'[u] = pc[u] /\ engine'[u] = engine[u]
    BY DEF TypeOK
  <1>4. CallsPlaced'
    BY <1>3 DEF CallsPlaced, InsidePlaces, Linked
  <1>5. DestroysPlaced'
    BY <1>3, NobodyInside DEF DestroysPlaced, InsidePlaces, DestroyPlaces, Linked
  <1>6. CallsCounted'
    BY <1>3, CountsFrame DEF InsidePlaces
  <1> QED
    BY <1>1, <1>2, <1>4, <1>5, <1>6

LEMMA WakeupKeeps ==
  ASSUME IInv, NEW t \in Threads, SpuriousWakeup(t) \/ Recheck(t) PROVE IInv'
  <1> USE DEF IInv, SpuriousWakeup, Recheck, Goto
  <1>1. TypeOK'
    BY DEF TypeOK
  <1>2. Linked'
    BY DEF Linked
  <1>3. /\ pc[t] \in DestroyPlaces
        /\ \/ pc'[t] = "woken"
           \/ pc'[t] = "free" /\ activeCalls[engine[t]] = 0
           \/ pc'[t] = "asleep" /\ activeCalls[engine[t]] # 0
        /\ \A u \in Threads \ {t} : pc'[u] = pc[u]
        /\ UNCHANGED <<engine, activeCalls, registry, closing, freed>>
        /\ engine[t] \in Tokens
    BY DEF TypeOK, DestroyPlaces
  <1>4. CallsPlaced'
    BY <1>3 DEF CallsPlaced, InsidePlaces
  <1>5. DestroysPlaced'
    BY <1>3, NobodyInside DEF DestroysPlaced, InsidePlaces, DestroyPlaces
  <1>6. CallsCounted'
    BY <1>3, CountsFrame DEF InsidePlaces, DestroyPlaces
  <1> QED
    BY <1>1, <1>2, <1>4, <1>5, <1>6

LEMMA FreeKeeps ==
  ASSUME IInv, NEW t \in Threads, FreeEngine(t) PROVE IInv'
  <1> USE DEF IInv, FreeEngine, Goto
  <1>1. TypeOK'
    BY DEF TypeOK
  <1>2. pc[t] = "free" /\ pc'[t] = "idle" /\ \A u \in Threads \ {t} : pc'[u] = pc[u]
    BY DEF TypeOK
  <1>3. Linked'
    BY <1>2 DEF Linked, DestroysPlaced, DestroyPlaces
  <1>4. CallsPlaced'
    BY <1>2 DEF CallsPlaced, DestroysPlaced, InsidePlaces, DestroyPlaces
  <1>5. DestroysPlaced'
    BY <1>2 DEF DestroysPlaced, InsidePlaces, DestroyPlaces
  <1>6. CallsCounted'
    BY <1>2, CountsFrame DEF InsidePlaces
  <1> QED
    BY <1>1, <1>3, <1>4, <1>5, <1>6

\* IInv holds in every reachable state.
THEOREM Invariance == Spec => []IInv
  <1>1. IInv /\ [Next]_vars => IInv'
    <2> SUFFICES ASSUME IInv, [Next]_vars PROVE IInv'
      OBVIOUS
    <2>1. CASE UNCHANGED vars
      <3>1. TypeOK' /\ Linked' /\ CallsPlaced' /\ DestroysPlaced'
        BY <2>1 DEF vars, IInv, TypeOK, Linked, CallsPlaced, DestroysPlaced
      <3>2. CallsCounted'
        BY <2>1, CountsFrame DEF vars, IInv
      <3> QED
        BY <3>1, <3>2 DEF IInv
    <2>2. ASSUME NEW t \in Threads,
                 \/ Create(t)
                 \/ \E e \in Tokens : Acquire(t, e) \/ Destroy(t, e)
                 \/ InCall(t) \/ InDestroy(t) \/ SpuriousWakeup(t)
          PROVE  IInv'
      BY <2>2, CreateKeeps, AcquireKeeps, DestroyKeeps, CallMutexKeeps, ReleaseKeeps,
         WakeupKeeps, FreeKeeps DEF InCall, InDestroy
    <2> QED
      BY <2>1, <2>2 DEF Next
  <1> QED
    BY InitInvariant, <1>1, PTL DEF Spec, Safety

-----------------------------------------------------------------------------
(* The properties *)

\* Every variable of the registry keeps its type.
THEOREM TypeCorrect == Spec => []TypeOK
  BY Invariance, PTL DEF IInv

\* active_calls is exact: no count is lost or taken twice by any interleaving
\* of acquire_engine, release_engine and native_destroy.
THEOREM CountsExact == Spec => []CallsCounted
  BY Invariance, PTL DEF IInv

\* native_destroy frees an engine once, when no call can still refer to it.
THEOREM NoUseAfterFree == Spec => []FreedUnused
  <1>1. IInv => FreedUnused
    <2> SUFFICES ASSUME IInv PROVE FreedUnused
      OBVIOUS
    <2> USE DEF IInv, Linked, CallsPlaced, DestroysPlaced, Inside, Destroying,
                InsidePlaces, DestroyPlaces
    <2>1. \A e \in freed : Inside(e) = {} /\ Destroying(e) = {} /\ e \notin registry
      OBVIOUS
    <2>2. ASSUME NEW t \in Threads, NEW u \in Threads, pc[t] = "free"
          PROVE  Inside(engine[t]) = {} /\ (u \in Destroying(engine[t]) => u = t)
      BY <2>2
    <2> QED
      BY <2>1, <2>2 DEF FreedUnused
  <1> QED
    BY Invariance, <1>1, PTL

\* A thread asleep in native_destroy always has a call to wait for, and that
\* call's release_engine wakes it: the signal is never lost.
THEOREM SignalsNotLost == Spec => []NoLostSignal
  <1>1. IInv => NoLostSignal
    <2> SUFFICES ASSUME IInv, NEW t \in Threads, pc[t] = "asleep"
                 PROVE  engine[t] \in closing /\ Inside(engine[t]) # {}
      BY DEF NoLostSignal
    <2>1. engine[t] \in closing /\ activeCalls[engine[t]] # 0 /\ engine[t] \in Tokens
      BY DEF IInv, DestroysPlaced, DestroyPlaces, TypeOK
    <2> QED
      BY <2>1, FS_EmptySet DEF IInv, CallsCounted
  <1> QED
    BY Invariance, <1>1, PTL
==============================================================================
