------------------------ MODULE RecognizerPoolProofs -------------------------
(***************************************************************************)
(* Proofs about RecognizerPool, for every number of workers, every table   *)
(* of widths and all text lines.  What the unsynchronised accesses to the  *)
(* reference count can and cannot break rests on one bound: the count, and *)
(* every value of it that a worker still holds for its decrement, is at    *)
(* least the number of recognizers with a session on the shared block.     *)
(***************************************************************************)
EXTENDS RecognizerPool, FiniteSetTheorems, TLAPS

Sessions == [width : Nat, shared : BOOLEAN]
Evicting == {"test", "decrement", "store"}

\* Worker threads exist during a request only; a handle under construction has as
\* many sessions as recognizers; between creation and release every recognizer has a
\* session, and its cached one has another width.
PhaseShape ==
  /\ phase # "run" => \A w \in Workers : wpc[w] = "off"
  /\ phase = "create" =>
       /\ freed = 0 /\ refCount = built
       /\ \A w \in Workers : /\ active[w].shared <=> w < built
                             /\ active[w].width = IF w < built THEN MaxWidth ELSE 0
                             /\ cached[w] = NoSession
  /\ phase \in {"ready", "run"} =>
       \A w \in Workers : active[w].width # 0 /\ cached[w].width # active[w].width

\* A worker that evicts its cached session has one on the shared block; what it has
\* loaded of the count is not less than the number of owners.
WorkerShape ==
  \A w \in Workers :
    /\ wpc[w] \in Evicting => cached[w].shared
    /\ wpc[w] \in {"decrement", "store"} => loaded[w] >= Cardinality(Owners)
    /\ wpc[w] = "build" => cached[w] = NoSession
    /\ wpc[w] \in Evicting \cup {"build"} => want[w] # 0 /\ want[w] # active[w].width
    /\ wpc[w] = "execute" => want[w] = active[w].width

\* A recognizer refers to the shared block with one session at most.
OneShared == \A w \in Workers : ~(active[w].shared /\ cached[w].shared)

IInv ==
  /\ TypeOK
  /\ PhaseShape
  /\ WorkerShape
  /\ OneShared
  /\ NoEarlyFree
  /\ RefCountCovers

-----------------------------------------------------------------------------
(* Widths, and finite sets of workers *)

\* A nonempty set of natural numbers has a least element.
LEMMA LeastExists ==
  ASSUME NEW S \in SUBSET Nat, S # {}
  PROVE  \E n \in S : \A m \in S : n <= m
  <1> DEFINE Smaller == OpToRel(<, Nat)
  <1>1. IsWellFoundedOn(Smaller, Nat)
    BY NatLessThanWellFounded
  <1>2. \A n, m \in Nat : n < m => <<n, m>> \in Smaller
    BY DEF OpToRel
  <1> HIDE DEF Smaller
  <1>3. PICK n \in S : \A m \in S : ~(<<m, n>> \in Smaller)
    BY <1>1, WFMin
  <1>4. \A m \in S : ~(m < n)
    BY <1>2, <1>3
  <1> QED
    BY <1>4

\* adaptive_target_width yields a width, which is at most the maximum.
LEMMA TargetWidthPositive ==
  ASSUME NEW s \in LineWidths
  PROVE  TargetWidth(s) \in Nat \ {0} /\ TargetWidth(s) <= MaxWidth
  <1> DEFINE fitting == {b \in Buckets : b < MaxWidth /\ s <= b}
  <1>1. fitting \in SUBSET Nat /\ fitting \in SUBSET Buckets
    BY RecognizerPoolAssumption
  <1>2. CASE fitting = {} \/ MaxWidth <= 320
    BY <1>2, RecognizerPoolAssumption DEF TargetWidth
  <1>3. CASE fitting # {} /\ ~(MaxWidth <= 320)
    <2>1. TargetWidth(s) = CHOOSE b \in fitting : \A c \in fitting : b <= c
      BY <1>3 DEF TargetWidth
    <2>2. \E b \in fitting : \A c \in fitting : b <= c
      BY <1>1, <1>3, LeastExists
    <2>3. \A b \in fitting : b \in Nat \ {0} /\ b <= MaxWidth
      BY RecognizerPoolAssumption
    <2> HIDE DEF fitting
    <2>4. TargetWidth(s) \in fitting
      BY <2>1, <2>2
    <2> QED
      BY <2>3, <2>4
  <1> QED
    BY <1>2, <1>3

LEMMA WorkersFinite == IsFiniteSet(Workers) /\ Cardinality(Workers) = WorkerCount
  <1>1. WorkerCount \in Nat /\ WorkerCount >= 1
    BY RecognizerPoolAssumption
  <1>2. WorkerCount - 1 \in Int /\ 0 \in Int
    BY <1>1
  <1>3. IsFiniteSet(0..(WorkerCount - 1))
    BY <1>2, FS_Interval
  <1>4. Cardinality(0..(WorkerCount - 1)) = IF 0 > WorkerCount - 1 THEN 0
                                            ELSE (WorkerCount - 1) - 0 + 1
    BY <1>2, FS_Interval
  <1> QED
    BY <1>1, <1>3, <1>4 DEF Workers

LEMMA OwnersFinite ==
  IsFiniteSet(Owners) /\ Cardinality(Owners) \in Nat /\ Cardinality(Owners) <= WorkerCount
  <1>1. Owners \in SUBSET Workers
    BY DEF Owners
  <1> QED
    BY <1>1, WorkersFinite, FS_Subset, FS_CardinalityType

\* A worker that gives up its only session on the shared block.
LEMMA OwnerLeaves ==
  ASSUME NEW w \in Owners, Owners' = Owners \ {w}
  PROVE  /\ Cardinality(Owners) >= 1
         /\ Cardinality(Owners') = Cardinality(Owners) - 1
         /\ Cardinality(Owners) <= 1 => Owners' = {}
  <1>1. Cardinality(Owners') = Cardinality(Owners) - 1
    BY OwnersFinite, FS_RemoveElement
  <1>2. IsFiniteSet(Owners') /\ Cardinality(Owners') \in Nat
    BY OwnersFinite, FS_RemoveElement, FS_CardinalityType
  <1>3. Cardinality(Owners') = 0 => Owners' = {}
    BY <1>2, FS_EmptySet
  <1> QED
    BY <1>1, <1>2, <1>3, OwnersFinite

\* The synchronous release of a session: the owners and the count stay in step.
LEMMA ReleaseKeepsCount ==
  ASSUME TypeOK, NoEarlyFree, RefCountCovers, NEW w \in Workers,
         NEW session \in Sessions, Release(session), session.shared => w \in Owners,
         Owners' = IF session.shared THEN Owners \ {w} ELSE Owners
  PROVE  /\ NoEarlyFree' /\ RefCountCovers'
         /\ refCount' \in 0..WorkerCount /\ freed' \in 0..1
  <1>1. session.shared => freed = 0 /\ refCount >= Cardinality(Owners)
    BY DEF NoEarlyFree, RefCountCovers, TypeOK
  <1>2. CASE ~session.shared
    BY <1>2 DEF Release, NoEarlyFree, RefCountCovers, TypeOK
  <1>3. CASE session.shared /\ refCount > 1
    <2>1. refCount' = refCount - 1 /\ freed' = freed
      BY <1>3 DEF Release
    <2>2. Cardinality(Owners') = Cardinality(Owners) - 1
      BY <1>3, OwnerLeaves
    <2>3. refCount' >= Cardinality(Owners') /\ refCount' \in 0..WorkerCount
      BY <1>1, <1>3, <2>1, <2>2, OwnersFinite, RecognizerPoolAssumption DEF TypeOK
    <2> QED
      BY <1>1, <1>3, <2>1, <2>3 DEF NoEarlyFree, RefCountCovers
  <1>4. CASE session.shared /\ ~(refCount > 1)
    <2>1. refCount' = refCount /\ freed' = 1
      BY <1>1, <1>4 DEF Release
    <2>2. Owners' = {}
      BY <1>1, <1>4, OwnerLeaves, OwnersFinite DEF TypeOK
    <2> QED
      BY <2>1, <2>2 DEF NoEarlyFree, RefCountCovers, TypeOK
  <1> QED
    BY <1>2, <1>3, <1>4

-----------------------------------------------------------------------------
(* The inductive invariant *)

LEMMA InitInvariant == Init => IInv
  <1> SUFFICES ASSUME Init PROVE IInv
    OBVIOUS
  <1> USE RecognizerPoolAssumption DEF Init, NoSession
  <1>1. TypeOK
    BY DEF TypeOK
  <1>2. Owners = {}
    BY DEF Owners
  <1>3. PhaseShape
    BY DEF PhaseShape, Workers
  <1>5. WorkerShape /\ OneShared
    BY DEF WorkerShape, OneShared, Evicting
  <1>4. NoEarlyFree /\ RefCountCovers
    BY <1>2, FS_EmptySet DEF NoEarlyFree, RefCountCovers
  <1> QED
    BY <1>1, <1>3, <1>4, <1>5 DEF IInv

\* Steps that change no session and nothing of the count.
LEMMA QuietSteps ==
  ASSUME IInv,
         \/ CreateReturn \/ BeginFree \/ FreeReturn \/ BeginRun \/ EndRun
         \/ \E w \in Workers : BuildFails(w) \/ Execute(w) \/ WorkerEnd(w)
  PROVE  IInv'
  <1> USE DEF IInv
  <1>1. UNCHANGED <<active, cached, refCount, freed, loaded, built>>
    BY DEF CreateReturn, BeginFree, FreeReturn, BeginRun, EndRun, BuildFails, Execute,
           WorkerEnd, handleVars
  <1>2. Owners' = Owners
    BY <1>1 DEF Owners
  <1>3. NoEarlyFree' /\ RefCountCovers' /\ OneShared'
    BY <1>1, <1>2 DEF NoEarlyFree, RefCountCovers, OneShared
  <1>4. CASE CreateReturn \/ BeginFree \/ FreeReturn \/ EndRun
    <2>1. wpc' = wpc /\ want' = want
      BY <1>4 DEF CreateReturn, BeginFree, FreeReturn, EndRun
    <2>2. TypeOK'
      BY <1>1, <1>4, <2>1 DEF TypeOK, CreateReturn, BeginFree, FreeReturn, EndRun
    <2>3. PhaseShape'
      <3>1. CASE CreateReturn
        <4>1. /\ phase = "create" /\ phase' = "ready" /\ built = WorkerCount
              /\ MaxWidth # 0
          BY <3>1, RecognizerPoolAssumption DEF CreateReturn
        <4>2. \A w \in Workers : active[w].width # 0 /\ cached[w].width = 0
          BY <4>1, RecognizerPoolAssumption DEF PhaseShape, Workers, NoSession
        <4>3. \A w \in Workers : wpc[w] = "off"
          BY <4>1 DEF PhaseShape
        <4> QED
          BY <1>1, <2>1, <4>1, <4>2, <4>3 DEF PhaseShape
      <3>2. CASE BeginFree \/ FreeReturn \/ EndRun
        BY <1>1, <2>1, <3>2 DEF PhaseShape, BeginFree, FreeReturn, EndRun
      <3> QED
        BY <1>4, <3>1, <3>2
    <2>5. WorkerShape'
      BY <1>1, <1>2, <2>1 DEF WorkerShape
    <2> QED
      BY <1>3, <2>2, <2>3, <2>5
  <1>5. CASE BeginRun
    <2> USE <1>5 DEF BeginRun
    <2>1. TypeOK' /\ PhaseShape'
      BY DEF TypeOK, PhaseShape
    <2>2. WorkerShape'
      BY <1>2 DEF WorkerShape, Evicting
    <2> QED
      BY <1>3, <2>1, <2>2
  <1>6. ASSUME NEW w \in Workers, BuildFails(w) \/ Execute(w) \/ WorkerEnd(w)
        PROVE  IInv'
    <2>1. /\ phase' = phase /\ want' = [want EXCEPT ![w] = 0]
          /\ \E place \in {"off", "next"} : wpc' = [wpc EXCEPT ![w] = place]
          /\ wpc[w] # "off"
      BY <1>6 DEF BuildFails, Execute, WorkerEnd, handleVars, Goto
    <2>2. TypeOK'
      BY <1>1, <2>1 DEF TypeOK
    <2>3. PhaseShape'
      BY <1>1, <2>1 DEF PhaseShape, TypeOK
    <2>4. WorkerShape'
      BY <1>1, <1>2, <2>1 DEF WorkerShape, Evicting, TypeOK
    <2> QED
      BY <1>3, <2>2, <2>3, <2>4
  <1> QED
    BY <1>4, <1>5, <1>6

LEMMA CreateStep ==
  ASSUME IInv, CreateRecognizer
  PROVE  IInv'
  <1> USE RecognizerPoolAssumption DEF IInv, CreateRecognizer, SharedSession
  <1>1. built \in Workers /\ built \in Nat /\ built + 1 \in 0..WorkerCount
    BY DEF TypeOK, Workers
  <1>2. TypeOK'
    BY <1>1 DEF TypeOK, PhaseShape
  <1>3. PhaseShape'
    <2>1. phase' = "create" /\ wpc' = wpc /\ freed' = 0 /\ refCount' = built'
      BY DEF PhaseShape
    <2>2. ASSUME NEW w \in Workers
          PROVE  /\ active'[w].shared <=> w < built'
                 /\ active'[w].width = IF w < built' THEN MaxWidth ELSE 0
                 /\ cached'[w] = NoSession
      <3>1. w \in Nat
        BY DEF Workers
      <3> QED
        BY <1>1, <3>1 DEF PhaseShape, TypeOK
    <2> QED
      BY <2>1, <2>2 DEF PhaseShape
  <1>4. Owners = {w \in Workers : w < built} /\ Owners' = Owners \cup {built}
    BY <1>1 DEF PhaseShape, Owners, NoSession, TypeOK, Workers
  <1>5. Cardinality(Owners') = Cardinality(Owners) + 1
    <2>1. built \notin Owners
      BY <1>1, <1>4
    <2> QED
      BY <1>4, <2>1, OwnersFinite, FS_AddElement
  <1>6. NoEarlyFree' /\ RefCountCovers'
    BY <1>5, OwnersFinite DEF NoEarlyFree, RefCountCovers, PhaseShape, TypeOK
  <1>7. WorkerShape' /\ OneShared'
    BY DEF WorkerShape, OneShared, PhaseShape, Evicting, NoSession, TypeOK
  <1> QED
    BY <1>2, <1>3, <1>6, <1>7

LEMMA FreeSteps ==
  ASSUME IInv, NEW w \in Workers, FreeActive(w) \/ FreeCached(w)
  PROVE  IInv'
  <1> USE DEF IInv, handleVars
  <1>1. PICK session \in Sessions :
          /\ Release(session)
          /\ session.shared => w \in Owners
          /\ Owners' = IF session.shared THEN Owners \ {w} ELSE Owners
    <2>1. CASE FreeActive(w)
      <3>1. active[w] \in Sessions /\ Release(active[w])
        BY <2>1 DEF FreeActive, TypeOK, Sessions
      <3>2. active[w].shared => w \in Owners
        BY DEF Owners
      <3>3. Owners' = IF active[w].shared THEN Owners \ {w} ELSE Owners
        BY <2>1 DEF FreeActive, Owners, OneShared, NoSession, TypeOK
      <3> QED
        BY <3>1, <3>2, <3>3
    <2>2. CASE FreeCached(w)
      <3>1. cached[w] \in Sessions /\ Release(cached[w])
        BY <2>2 DEF FreeCached, TypeOK, Sessions
      <3>2. cached[w].shared => w \in Owners
        BY DEF Owners
      <3>3. Owners' = IF cached[w].shared THEN Owners \ {w} ELSE Owners
        BY <2>2 DEF FreeCached, Owners, OneShared, NoSession, TypeOK
      <3> QED
        BY <3>1, <3>2, <3>3
    <2> QED
      BY <2>1, <2>2
  <1>2. NoEarlyFree' /\ RefCountCovers' /\ refCount' \in 0..WorkerCount /\ freed' \in 0..1
    <2>1. TypeOK /\ NoEarlyFree /\ RefCountCovers
      OBVIOUS
    <2> QED
      BY <1>1, <2>1, ReleaseKeepsCount, Zenon
  <1>3. TypeOK' /\ OneShared'
    <2>1. \/ /\ active' = [active EXCEPT ![w] = NoSession]
             /\ cached' = cached
          \/ /\ cached' = [cached EXCEPT ![w] = NoSession]
             /\ active' = active
      BY DEF FreeActive, FreeCached
    <2>2. UNCHANGED <<handleVars, wpc, want, loaded>>
      BY DEF FreeActive, FreeCached
    <2>3. active' \in [Workers -> Sessions] /\ cached' \in [Workers -> Sessions]
      <3>1. NoSession \in Sessions
        BY DEF NoSession, Sessions
      <3>2. active \in [Workers -> Sessions] /\ cached \in [Workers -> Sessions]
        BY DEF TypeOK, Sessions
      <3> QED
        BY <2>1, <3>1, <3>2
    <2>4. OneShared'
      BY <2>1 DEF TypeOK, OneShared, NoSession
    <2> QED
      BY <1>2, <2>2, <2>3, <2>4 DEF TypeOK, Sessions
  <1>4. PhaseShape'
    BY DEF PhaseShape, FreeActive, FreeCached
  <1>5. WorkerShape'
    BY DEF WorkerShape, Evicting, PhaseShape, FreeActive, FreeCached
  <1> QED
    BY <1>2, <1>3, <1>4, <1>5

\* A worker's step that leaves every recognizer's share in the block as it is.
LEMMA SessionSteps ==
  ASSUME IInv, NEW w \in Workers,
         BuildSession(w) \/ \E s \in LineWidths : TakeLine(w, s)
  PROVE  IInv'
  <1> USE DEF IInv, handleVars
  <1>1. CASE BuildSession(w)
    <2> USE <1>1 DEF BuildSession, Goto, OwnSession
    <2>1. TypeOK' /\ OneShared'
      BY DEF TypeOK, OneShared, WorkerShape
    <2>2. phase = "run" /\ want[w] # 0 /\ want[w] # active[w].width /\ cached[w] = NoSession
      BY DEF PhaseShape, WorkerShape, TypeOK
    <2>3. PhaseShape'
      BY <2>2 DEF PhaseShape, TypeOK
    <2>4. Owners' = Owners
      BY <2>2 DEF Owners, TypeOK, NoSession
    <2>5. WorkerShape'
      BY <2>2, <2>4 DEF WorkerShape, Evicting, TypeOK
    <2> QED
      BY <2>1, <2>3, <2>4, <2>5 DEF NoEarlyFree, RefCountCovers
  <1>2. ASSUME NEW s \in LineWidths, TakeLine(w, s)
        PROVE  IInv'
    <2> USE <1>2 DEF TakeLine, Goto
    <2> DEFINE width == TargetWidth(s)
    <2>1. width \in Nat \ {0}
      BY TargetWidthPositive
    <2> HIDE DEF width
    <2>2. phase = "run" /\ active[w].width # 0
      BY DEF PhaseShape
    <2>3. CASE width = active[w].width
      <3>1. /\ UNCHANGED <<handleVars, active, cached, loaded, refCount, freed>>
            /\ want' = [want EXCEPT ![w] = width]
            /\ wpc' = [wpc EXCEPT ![w] = "execute"]
        BY <2>3 DEF width
      <3>2. TypeOK' /\ OneShared' /\ Owners' = Owners
        BY <2>1, <3>1 DEF TypeOK, OneShared, Owners
      <3>3. PhaseShape'
        BY <2>2, <3>1 DEF PhaseShape
      <3>4. WorkerShape'
        BY <2>3, <3>1, <3>2 DEF WorkerShape, Evicting, TypeOK
      <3> QED
        BY <3>1, <3>2, <3>3, <3>4 DEF NoEarlyFree, RefCountCovers
    <2>4. CASE width # active[w].width /\ cached[w] # NoSession /\ cached[w].width = width
      <3>1. /\ UNCHANGED <<handleVars, loaded, refCount, freed>>
            /\ active' = [active EXCEPT ![w] = cached[w]]
            /\ cached' = [cached EXCEPT ![w] = active[w]]
            /\ want' = [want EXCEPT ![w] = width]
            /\ wpc' = [wpc EXCEPT ![w] = "execute"]
        BY <2>4 DEF width
      <3>2. TypeOK' /\ OneShared' /\ Owners' = Owners
        BY <2>1, <3>1 DEF TypeOK, OneShared, Owners
      <3>3. PhaseShape'
        BY <2>1, <2>2, <2>4, <3>1 DEF PhaseShape, TypeOK
      <3>4. WorkerShape'
        BY <2>4, <3>1, <3>2 DEF WorkerShape, Evicting, TypeOK
      <3> QED
        BY <3>1, <3>2, <3>3, <3>4 DEF NoEarlyFree, RefCountCovers
    <2>5. CASE width # active[w].width /\ (cached[w] = NoSession \/ cached[w].width # width)
      <3>1. /\ UNCHANGED <<handleVars, active, loaded, refCount, freed>>
            /\ cached' = [cached EXCEPT ![w] = IF cached[w].shared THEN cached[w] ELSE NoSession]
            /\ want' = [want EXCEPT ![w] = width]
            /\ wpc' = [wpc EXCEPT ![w] = IF cached[w].shared THEN "test" ELSE "build"]
        BY <2>5 DEF width
      <3>2. TypeOK' /\ OneShared' /\ Owners' = Owners
        BY <2>1, <3>1 DEF TypeOK, OneShared, Owners, NoSession
      <3>3. PhaseShape'
        BY <2>1, <2>2, <3>1 DEF PhaseShape, TypeOK, NoSession
      <3>4. WorkerShape'
        <4>1. wpc'[w] = "test" => cached'[w].shared
          BY <3>1 DEF TypeOK
        <4>2. wpc'[w] = "build" => cached'[w] = NoSession
          BY <3>1 DEF TypeOK
        <4>3. /\ wpc'[w] \in {"test", "build"}
              /\ want'[w] # 0 /\ want'[w] # active'[w].width
          BY <2>1, <2>5, <3>1 DEF TypeOK
        <4>4. \A v \in Workers \ {w} : /\ wpc'[v] = wpc[v] /\ cached'[v] = cached[v]
                                       /\ want'[v] = want[v] /\ loaded'[v] = loaded[v]
                                       /\ active'[v] = active[v]
          BY <3>1 DEF TypeOK
        <4> QED
          BY <3>2, <4>1, <4>2, <4>3, <4>4 DEF WorkerShape, Evicting
      <3> QED
        BY <3>1, <3>2, <3>3, <3>4 DEF NoEarlyFree, RefCountCovers
    <2> QED
      BY <2>3, <2>4, <2>5
  <1> QED
    BY <1>1, <1>2

\* The accesses to the count: the block loses an owner when its eviction is complete.
LEMMA CountSteps ==
  ASSUME IInv, NEW w \in Workers, TestRefCount(w) \/ LoadRefCount(w) \/ StoreRefCount(w)
  PROVE  IInv'
  <1> USE RecognizerPoolAssumption DEF IInv, handleVars, Goto
  <1>1. /\ w \in Owners /\ cached[w].shared /\ ~active[w].shared /\ phase = "run"
        /\ freed = 0 /\ refCount >= Cardinality(Owners)
    <2>1. wpc[w] \in Evicting
      BY DEF TestRefCount, LoadRefCount, StoreRefCount, Evicting
    <2>2. cached[w].shared /\ phase = "run"
      BY <2>1 DEF WorkerShape, PhaseShape, Evicting
    <2>3. w \in Owners /\ ~active[w].shared
      BY <2>2 DEF Owners, OneShared
    <2> QED
      BY <2>2, <2>3 DEF NoEarlyFree, RefCountCovers, TypeOK
  <1>2. CASE TestRefCount(w) /\ refCount > 1
    <2> USE <1>2 DEF TestRefCount
    <2>1. Owners' = Owners
      BY DEF Owners
    <2>2. TypeOK' /\ PhaseShape' /\ OneShared'
      BY <1>1 DEF TypeOK, PhaseShape, OneShared
    <2>3. WorkerShape'
      BY <1>1, <2>1 DEF WorkerShape, Evicting, TypeOK
    <2> QED
      BY <2>1, <2>2, <2>3 DEF NoEarlyFree, RefCountCovers
  <1>3. CASE LoadRefCount(w)
    <2> USE <1>3 DEF LoadRefCount
    <2>1. Owners' = Owners
      BY DEF Owners
    <2>2. TypeOK' /\ PhaseShape' /\ OneShared'
      BY <1>1 DEF TypeOK, PhaseShape, OneShared
    <2>3. WorkerShape'
      BY <1>1, <2>1 DEF WorkerShape, Evicting, TypeOK
    <2> QED
      BY <2>1, <2>2, <2>3 DEF NoEarlyFree, RefCountCovers
  <1>4. ASSUME \/ TestRefCount(w) /\ ~(refCount > 1)
               \/ StoreRefCount(w)
        PROVE  IInv'
    <2> USE <1>4 DEF TestRefCount, StoreRefCount
    <2>1. /\ UNCHANGED <<phase, built, active, want>>
          /\ cached' = [cached EXCEPT ![w] = NoSession]
          /\ wpc' = [wpc EXCEPT ![w] = "build"]
          /\ \A v \in Workers : v # w => loaded'[v] = loaded[v]
      BY DEF TypeOK
    <2>2. Owners' = Owners \ {w}
      BY <1>1, <2>1 DEF Owners, TypeOK, NoSession
    <2>3. /\ Cardinality(Owners) >= 1
          /\ Cardinality(Owners') = Cardinality(Owners) - 1
          /\ Cardinality(Owners) <= 1 => Owners' = {}
      BY <1>1, <2>2, OwnerLeaves
    <2>4. /\ refCount' \in 0..WorkerCount /\ freed' \in 0..1
          /\ NoEarlyFree' /\ RefCountCovers'
      <3>1. CASE TestRefCount(w) /\ ~(refCount > 1)
        BY <1>1, <2>3, <3>1, OwnersFinite DEF NoEarlyFree, RefCountCovers, TypeOK
      <3>2. CASE StoreRefCount(w)
        <4>1. loaded[w] \in 0..WorkerCount /\ loaded[w] >= Cardinality(Owners)
          BY <3>2 DEF WorkerShape, TypeOK
        <4>2. refCount' = loaded[w] - 1 /\ freed' = 0
          BY <1>1, <3>2
        <4>3. refCount' \in 0..WorkerCount /\ refCount' >= Cardinality(Owners')
          BY <2>3, <4>1, <4>2, OwnersFinite
        <4> QED
          BY <4>2, <4>3 DEF NoEarlyFree, RefCountCovers
      <3> QED
        BY <1>4, <3>1, <3>2
    <2>5. TypeOK' /\ OneShared'
      BY <2>1, <2>4 DEF TypeOK, OneShared, NoSession
    <2>6. PhaseShape'
      BY <1>1, <2>1 DEF PhaseShape, NoSession, TypeOK
    <2>7. WorkerShape'
      <3>1. /\ Cardinality(Owners') <= Cardinality(Owners)
            /\ Cardinality(Owners') \in Nat /\ Cardinality(Owners) \in Nat
        BY <2>3, OwnersFinite
      <3>2. wpc[w] \in Evicting
        BY DEF Evicting
      <3> QED
        BY <2>1, <3>1, <3>2 DEF WorkerShape, Evicting, TypeOK
    <2> QED
      BY <2>4, <2>5, <2>6, <2>7
  <1> QED
    BY <1>2, <1>3, <1>4

LEMMA StepInvariant == IInv /\ [Next]_vars => IInv'
  <1> SUFFICES ASSUME IInv, [Next]_vars PROVE IInv'
    OBVIOUS
  <1>1. CASE UNCHANGED vars
    BY <1>1 DEF vars, IInv, TypeOK, PhaseShape, WorkerShape, OneShared, NoEarlyFree,
                RefCountCovers, Owners
  <1>2. CASE Next
    BY <1>2, QuietSteps, CreateStep, FreeSteps, SessionSteps, CountSteps DEF Next
  <1> QED
    BY <1>1, <1>2

-----------------------------------------------------------------------------
(* The theorems *)

\* Every variable keeps its type; the count never leaves 0..WorkerCount, although its
\* decrement is a plain load and store of an unsigned number.
THEOREM TypeCorrect == Spec => []TypeOK
  <1>1. IInv => TypeOK
    BY DEF IInv
  <1> QED
    BY <1>1, InitInvariant, StepInvariant, PTL DEF Spec

\* release_shared_prepared_constants frees the shared block at most once, and only
\* when no session refers to it, however its accesses interleave.
THEOREM BlockIsFreedLast == Spec => []NoEarlyFree
  <1>1. IInv => NoEarlyFree
    BY DEF IInv
  <1> QED
    BY <1>1, InitInvariant, StepInvariant, PTL DEF Spec

\* Lost updates of ref_count only make it too large.
THEOREM CountCoversOwners == Spec => []RefCountCovers
  <1>1. IInv => RefCountCovers
    BY DEF IInv
  <1> QED
    BY <1>1, InitInvariant, StepInvariant, PTL DEF Spec

\* configure_session leaves a recognizer with a session, never builds a width it
\* has, and recognizes a line at its own width.
THEOREM WidthCacheIsSound == Spec => []WidthCacheSound
  <1>1. IInv => WidthCacheSound
    BY DEF IInv, PhaseShape, WorkerShape, WidthCacheSound, NoSession
  <1> QED
    BY <1>1, InitInvariant, StepInvariant, PTL DEF Spec
==============================================================================
