--------------------------- MODULE AndroidRegistry ---------------------------
(***************************************************************************)
(* The engine registry of the Android bridge (cpp/lw_android_jni.c): Java  *)
(* threads hold engines by token and may recognize with, reconfigure and   *)
(* destroy the same engine at any time.                                    *)
(*                                                                         *)
(* A registry list under g_registry_mutex counts the calls inside each     *)
(* engine; an engine's call_mutex lets one of them run at a time; destroy  *)
(* unlinks the engine, waits on its condition until no call is inside, and *)
(* frees it.  A critical section of g_registry_mutex, up to a condition    *)
(* wait, is one action.  An engine is named by its token; tokens count the *)
(* engines created (a 64-bit counter, which does not wrap).                *)
(***************************************************************************)
EXTENDS Naturals, FiniteSets

CONSTANTS
  Threads,     \* the threads that call the bridge
  NoThread,    \* the owner of an unlocked mutex
  MaxEngines   \* bound: engines created

ASSUME AndroidRegistryAssumption ==
  /\ IsFiniteSet(Threads) /\ NoThread \notin Threads
  /\ MaxEngines \in Nat \ {0}

Tokens == 1..MaxEngines

VARIABLES
  nextToken,    \* g_next_token
  registry,     \* the tokens of the linked engines
  activeCalls,  \* active_calls of each engine
  closing,      \* the engines whose closing flag is set
  holder,       \* holder[e]: the thread that holds e's call_mutex
  freed,        \* the engines that are freed
  pc,           \* where each thread is
  engine        \* the engine its call works on (when pc is not "idle")

vars == <<nextToken, registry, activeCalls, closing, holder, freed, pc, engine>>

Init ==
  /\ nextToken = 1 /\ registry = {}
  /\ activeCalls = [e \in Tokens |-> 0]
  /\ closing = {}
  /\ holder = [e \in Tokens |-> NoThread]
  /\ freed = {}
  /\ pc = [t \in Threads |-> "idle"]
  /\ engine = [t \in Threads |-> 1]

Goto(t, place) == pc' = [pc EXCEPT ![t] = place]

\* native_create, when the OCR handle and the entry could be made.
Create(t) ==
  /\ pc[t] = "idle" /\ nextToken <= MaxEngines
  /\ registry' = registry \cup {nextToken}
  /\ nextToken' = nextToken + 1
  /\ UNCHANGED <<activeCalls, closing, holder, freed, pc, engine>>

-----------------------------------------------------------------------------
(* native_recognize and native_set_reading_order *)

\* Mutant of Acquire: the call is counted only once it holds the call mutex.
AcquireUncounted(t, e) ==
  /\ pc[t] = "idle" /\ e \in registry /\ e \notin closing
  /\ engine' = [engine EXCEPT ![t] = e]
  /\ Goto(t, "lock")
  /\ UNCHANGED <<nextToken, registry, activeCalls, closing, holder, freed>>

\* acquire_engine finds the token; for one that is not linked, or that closes,
\* the call ends with an error at once.
Acquire(t, e) ==
  /\ pc[t] = "idle" /\ e \in registry /\ e \notin closing
  /\ engine' = [engine EXCEPT ![t] = e]
  /\ activeCalls' = [activeCalls EXCEPT ![e] = @ + 1]
  /\ Goto(t, "lock")
  /\ UNCHANGED <<nextToken, registry, closing, holder, freed>>

LockCall(t) ==
  /\ pc[t] = "lock" /\ holder[engine[t]] = NoThread
  /\ holder' = [holder EXCEPT ![engine[t]] = t]
  /\ Goto(t, "call")
  /\ UNCHANGED <<nextToken, registry, activeCalls, closing, freed, engine>>

\* The OCR call is over, with a result or an error.
UnlockCall(t) ==
  /\ pc[t] = "call"
  /\ holder' = [holder EXCEPT ![engine[t]] = NoThread]
  /\ Goto(t, "release")
  /\ UNCHANGED <<nextToken, registry, activeCalls, closing, freed, engine>>

\* Mutant of SignalDue: signalled before the count is updated.
SignalOnOne(e) == e \in closing /\ activeCalls[e] = 2

\* closing and no call left inside, the one that leaves not counted.
SignalDue(e) == e \in closing /\ activeCalls[e] = 1

\* release_engine: the last call out wakes the thread that destroys the engine.
ReleaseEngine(t) ==
  LET e == engine[t]
  IN /\ pc[t] = "release"
     /\ activeCalls' = [activeCalls EXCEPT ![e] = @ - 1]
     /\ pc' = [u \in Threads |->
          IF u = t THEN "idle"
          ELSE IF SignalDue(e) /\ pc[u] = "asleep" /\ engine[u] = e THEN "woken"
          ELSE pc[u]]
     /\ UNCHANGED <<nextToken, registry, closing, holder, freed, engine>>

-----------------------------------------------------------------------------
(* native_destroy *)

\* Mutant of Unlinked: the engine stays in the list until it is freed.
StillLinked(e) == registry

Unlinked(e) == registry \ {e}

\* Unlinks the engine and waits while calls are inside.  A token that is not
\* linked (any more) is ignored.
Destroy(t, e) ==
  /\ pc[t] = "idle" /\ e \in registry
  /\ engine' = [engine EXCEPT ![t] = e]
  /\ registry' = Unlinked(e)
  /\ closing' = closing \cup {e}
  /\ Goto(t, IF activeCalls[e] = 0 THEN "free" ELSE "asleep")
  /\ UNCHANGED <<nextToken, activeCalls, holder, freed>>

SpuriousWakeup(t) ==
  /\ pc[t] = "asleep"
  /\ Goto(t, "woken")
  /\ UNCHANGED <<nextToken, registry, activeCalls, closing, holder, freed, engine>>

\* while (active_calls != 0), after a wakeup.
Recheck(t) ==
  /\ pc[t] = "woken"
  /\ Goto(t, IF activeCalls[engine[t]] = 0 THEN "free" ELSE "asleep")
  /\ UNCHANGED <<nextToken, registry, activeCalls, closing, holder, freed, engine>>

\* lw_ocr_free and free of the entry, outside the registry's mutex.
FreeEngine(t) ==
  /\ pc[t] = "free"
  /\ freed' = freed \cup {engine[t]}
  /\ Goto(t, "idle")
  /\ UNCHANGED <<nextToken, registry, activeCalls, closing, holder, engine>>

InCall(t) == LockCall(t) \/ UnlockCall(t) \/ ReleaseEngine(t)
InDestroy(t) == Recheck(t) \/ FreeEngine(t)

Next ==
  \E t \in Threads :
    \/ Create(t)
    \/ \E e \in Tokens : Acquire(t, e) \/ Destroy(t, e)
    \/ InCall(t) \/ InDestroy(t) \/ SpuriousWakeup(t)

\* A call inside an engine returns and every runnable thread is scheduled.  The
\* call mutex may be unfair to a thread as long as it keeps changing hands, and
\* spurious wakeups are not relied on.
Fairness == \A t \in Threads : WF_vars(InCall(t)) /\ WF_vars(InDestroy(t))

Safety == Init /\ [][Next]_vars
Spec == Safety /\ Fairness

-----------------------------------------------------------------------------
(* Properties *)

TypeOK ==
  /\ nextToken \in 1..(MaxEngines + 1)
  /\ registry \subseteq Tokens /\ closing \subseteq Tokens /\ freed \subseteq Tokens
  /\ activeCalls \in [Tokens -> Nat]
  /\ holder \in [Tokens -> Threads \cup {NoThread}]
  /\ pc \in [Threads -> {"idle", "lock", "call", "release", "asleep", "woken", "free"}]
  /\ engine \in [Threads -> Tokens]

Inside(e) == {t \in Threads : pc[t] \in {"lock", "call", "release"} /\ engine[t] = e}
Destroying(e) == {t \in Threads : pc[t] \in {"asleep", "woken", "free"} /\ engine[t] = e}

\* active_calls is the number of threads that refer to the engine from within a
\* call, whether they wait for its mutex, run, or are about to leave.
CallsCounted == \A e \in Tokens : activeCalls[e] = Cardinality(Inside(e))

\* An engine is freed once, by one thread, and neither when it is freed nor later
\* does a call refer to it; it cannot be found by its token any more.
FreedUnused ==
  /\ \A e \in freed : Inside(e) = {} /\ Destroying(e) = {} /\ e \notin registry
  /\ \A t, u \in Threads :
       pc[t] = "free" => /\ Inside(engine[t]) = {}
                         /\ u \in Destroying(engine[t]) => u = t

\* A thread that waits to free an engine sleeps only while a call is inside that
\* will wake it.
NoLostSignal ==
  \A t \in Threads : pc[t] = "asleep" => engine[t] \in closing /\ Inside(engine[t]) # {}

\* A destroy returns: once the engine is unlinked no new call can enter it, the
\* calls inside leave one after the other, and the last one wakes the destroyer.
DestroyReturns ==
  \A t \in Threads : pc[t] \in {"asleep", "woken", "free"} ~> pc[t] = "idle"
==============================================================================
