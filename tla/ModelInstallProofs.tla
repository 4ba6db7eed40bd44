------------------------- MODULE ModelInstallProofs --------------------------
(***************************************************************************)
(* Proofs about ModelInstall, for any number of threads, processes, model  *)
(* files, versions, faults and calls: its three invariants.                *)
(*                                                                         *)
(* What the installed sets hold is true of the file system whoever dies    *)
(* (SetsHonest); everything else is said of one call at a time (CallIs),   *)
(* and an action of another thread leaves it alone: the lock keeps the     *)
(* threads of a process apart, and a thread of another process disturbs.   *)
(***************************************************************************)
EXTENDS ModelInstall, TLAPS

States == {"idle", "enter", "replace", "delete", "prepare", "copy", "copying", "load", "prune"}

Shape ==
  /\ home \in [Threads -> Processes] /\ version \in 1..MaxVersion
  /\ installLock \in [Processes -> Threads \cup {NoThread}]
  /\ pc \in [Threads -> States]
  /\ DOMAIN doomed = Threads /\ DOMAIN todo = Threads /\ DOMAIN victims = Threads
  /\ DOMAIN loaded = Threads /\ DOMAIN outcome = Threads
  /\ progress \in [Threads -> Nat \ {0}] /\ calls \in [Threads -> Nat]
  /\ disturbed \in [Threads -> BOOLEAN]

\* Past the load, old sets are pruned; before it, the lock is held while a set is made.
Past(t) == pc[t] = "prune" \/ (pc[t] = "delete" /\ doomed[t] \in Sets \ {Own})
Making(t) == \/ pc[t] \in {"replace", "prepare", "copy", "copying"}
             \/ pc[t] = "delete" /\ doomed[t] \notin Sets \ {Own}

Wellformed(t) ==
  /\ Making(t) => installLock[home[t]] = t
  /\ pc[t] = "delete" => doomed[t] \in Sets \cup {Temporary(t)}
  /\ Past(t) => victims[t] \subseteq Sets \ {Own}
  /\ Active(t) => outcome[t] = "none"

\* The set in the making is right as far as it has come.
Copied(t) ==
  pc[t] \in {"copy", "copying"} =>
    /\ Exists(Temporary(t))
    /\ progress[t] \in 1..(Len(CopyOrder) + 1)
    /\ pc[t] = "copying" => progress[t] <= Len(CopyOrder)
    /\ Listing(Temporary(t)) =
         {CopyOrder[i] : i \in 1..(IF pc[t] = "copying" THEN progress[t] ELSE progress[t] - 1)}
    /\ \A i \in 1..(progress[t] - 1) : \/ fs[Temporary(t)][CopyOrder[i]] = version
                                       \/ CopyOrder[i] \notin ModelFiles /\ disturbed[t]

\* So is what the engine is made from.
Loaded(t) ==
  /\ pc[t] \in {"idle", "enter", "replace", "prepare"} => progress[t] = 1
  /\ pc[t] = "delete" /\ doomed[t] = Own => progress[t] = 1
  /\ pc[t] = "enter" \/ Making(t) => loaded[t] = <<>>
  /\ pc[t] = "load" =>
       /\ progress[t] \in 1..(Len(ModelFileList) + 1)
       /\ loaded[t] = [f \in {ModelFileList[i] : i \in 1..(progress[t] - 1)} |-> version]
  /\ Past(t) \/ outcome[t] = "created" => loaded[t] = [f \in ModelFiles |-> version]

\* A call that met nothing is alone with the threads of its own process: what it
\* deletes does not grow, what it makes is not there yet, what it loads is valid.
Alone(t) ==
  Active(t) /\ ~disturbed[t] =>
    /\ \A u \in Threads : Active(u) => home[u] = home[t]
    /\ pc[t] = "delete" /\ ~Past(t) => doomed[t] = Own /\ Listing(Own) \subseteq todo[t]
    /\ pc[t] \in {"prepare", "copy", "copying"} => ~Exists(Own)
    /\ pc[t] = "load" => CachedModelsValid(version) /\ \A u \in Threads : ~Making(u)

\* The old sets that are left are still to be deleted.
Pruned(t) ==
  /\ ~disturbed[t] /\ Past(t) =>
       \A d \in Sets \ {Own} : Exists(d) =>
         \/ d \in victims[t]
         \/ pc[t] = "delete" /\ d = doomed[t] /\ Listing(d) \subseteq todo[t]
  /\ ~disturbed[t] /\ outcome[t] = "created" => \A d \in Sets \ {Own} : ~Exists(d)
  /\ outcome[t] = "failed" => disturbed[t]

CallIs(t) == Wellformed(t) /\ Copied(t) /\ Loaded(t) /\ Alone(t) /\ Pruned(t)

\* The model files of an installed set, complete or not, are those of its version.
SetsHonest ==
  \A v \in 1..MaxVersion : \A f \in ModelFiles :
    f \in Listing(SetDir(v)) => fs[SetDir(v)][f] = v

IInv == Shape /\ SetsHonest /\ \A t \in Threads : CallIs(t)

-----------------------------------------------------------------------------
(* Directories and files *)

\* No directory is both a set and somebody's temporary one.
LEMMA Names ==
  /\ \A v, w : SetDir(v) = SetDir(w) => v = w
  /\ \A t \in Threads : Temporary(t) \notin Sets
  /\ \A t, u \in Threads : Temporary(t) = Temporary(u) => t = u
  /\ MaxVersion \in Nat \ {0} /\ NoThread \notin Threads
  <1>1. \A v, w : SetDir(v) = SetDir(w) => v = w
    BY DEF SetDir
  <1>2. ASSUME NEW t \in Threads, Temporary(t) \in Sets PROVE FALSE
    <2>1. PICK v \in 1..MaxVersion : Temporary(t) = SetDir(v)
      BY <1>2 DEF Sets
    <2>2. Temporary(t)[1] = "tmp" /\ SetDir(v)[1] = "set"
      BY DEF Temporary, SetDir
    <2> QED
      BY <2>1, <2>2
  <1>3. \A t, u \in Threads : Temporary(t) = Temporary(u) => t = u
    BY DEF Temporary
  <1> QED
    BY <1>1, <1>2, <1>3, ModelInstallAssumption

\* The model files come first, then the manifest and the marker, each once.
LEMMA Files ==
  LET n == Len(ModelFileList)
  IN /\ n \in Nat /\ Len(CopyOrder) = n + 2 /\ DOMAIN CopyOrder = 1..(n + 2)
     /\ ModelFiles = {ModelFileList[i] : i \in 1..n}
     /\ \A i \in 1..n : CopyOrder[i] = ModelFileList[i] /\ CopyOrder[i] \in ModelFiles
     /\ CopyOrder[n + 1] = "manifest" /\ CopyOrder[n + 2] = "marker"
     /\ \A i, j \in 1..(n + 2) : CopyOrder[i] = CopyOrder[j] => i = j
     /\ \A i, j \in 1..n : ModelFileList[i] = ModelFileList[j] => i = j
  <1> DEFINE n == Len(ModelFileList)
  <1>1. ModelFileList \in Seq(ModelFiles) /\ "manifest" \notin ModelFiles /\ "marker" \notin ModelFiles
    BY ModelInstallAssumption
  <1>2. n \in Nat /\ DOMAIN ModelFileList = 1..n /\ \A i \in 1..n : ModelFileList[i] \in ModelFiles
    BY <1>1
  <1>3. \A i, j \in 1..n : ModelFileList[i] = ModelFileList[j] => i = j
    BY <1>2, ModelInstallAssumption DEF IsInjective
  <1>4. /\ Len(CopyOrder) = n + 2 /\ DOMAIN CopyOrder = 1..(n + 2)
        /\ \A i \in 1..n : CopyOrder[i] = ModelFileList[i]
        /\ CopyOrder[n + 1] = "manifest" /\ CopyOrder[n + 2] = "marker"
    <2> DEFINE T == ModelFiles \cup {"manifest", "marker"}
    <2>1. ModelFileList \in Seq(T) /\ <<"manifest", "marker">> \in Seq(T)
      BY <1>1
    <2> HIDE DEF T
    <2> QED
      BY <1>2, <2>1 DEF CopyOrder
  <1>5. \A i, j \in 1..(n + 2) : CopyOrder[i] = CopyOrder[j] => i = j
    <2>1. \A i \in 1..(n + 2) : i \in 1..n \/ i = n + 1 \/ i = n + 2
      BY <1>2
    <2> HIDE DEF n
    <2> QED
      BY <1>1, <1>2, <1>3, <1>4, <2>1
  <1>6. ModelFiles = {ModelFileList[i] : i \in 1..n}
    BY <1>2 DEF ModelFiles
  <1> QED
    BY <1>2, <1>3, <1>4, <1>5, <1>6

-----------------------------------------------------------------------------
(* What an action of one thread leaves to the others *)

\* Thread t changes no other thread's temporary directory; no old set grows, and
\* the set of this package is changed only by a thread that is making it.
FilesMove(t) ==
  /\ \A u \in Threads \ {t} :
       /\ Temporary(u) \in DOMAIN fs' <=> Temporary(u) \in DOMAIN fs
       /\ Temporary(u) \in DOMAIN fs => fs'[Temporary(u)] = fs[Temporary(u)]
  /\ \A d \in Sets \ {Own} :
       d \in DOMAIN fs' => d \in DOMAIN fs /\ DOMAIN fs'[d] \subseteq DOMAIN fs[d]
  /\ \/ Making(t)
     \/ /\ Own \in DOMAIN fs' <=> Own \in DOMAIN fs
        /\ Own \in DOMAIN fs => fs'[Own] = fs[Own]

\* A running thread t moves: the others keep their variables and their locks.
Moves(t) ==
  /\ UNCHANGED <<home, version>> /\ Active(t)
  /\ \A u \in Threads \ {t} :
       /\ pc'[u] = pc[u] /\ doomed'[u] = doomed[u] /\ todo'[u] = todo[u]
       /\ progress'[u] = progress[u] /\ victims'[u] = victims[u] /\ loaded'[u] = loaded[u]
       /\ outcome'[u] = outcome[u] /\ disturbed'[u] = disturbed[u] /\ calls'[u] = calls[u]
       /\ installLock[home[u]] = u => installLock'[home[u]] = u
  /\ FilesMove(t)
  /\ Making(t)' => Making(t) \/ ~CachedModelsValid(version)

LEMMA OthersKeep ==
  ASSUME IInv, NEW t \in Threads, Moves(t), NEW u \in Threads \ {t}
  PROVE  CallIs(u)'
  <1>1. /\ UNCHANGED <<home, version>> /\ Own' = Own /\ Own \in Sets
        /\ pc'[u] = pc[u] /\ doomed'[u] = doomed[u] /\ todo'[u] = todo[u]
        /\ progress'[u] = progress[u] /\ victims'[u] = victims[u] /\ loaded'[u] = loaded[u]
        /\ outcome'[u] = outcome[u] /\ disturbed'[u] = disturbed[u] /\ calls'[u] = calls[u]
        /\ installLock[home[u]] = u => installLock'[home[u]] = u
    BY DEF Moves, Own, Sets, IInv, Shape
  <1>2. /\ Making(u)' <=> Making(u)
        /\ Past(u)' <=> Past(u)
        /\ Active(u)' <=> Active(u)
        /\ Temporary(u)' = Temporary(u)
    BY <1>1 DEF Making, Past, Active, Temporary
  <1>3. CallIs(u) /\ CallIs(t)
    BY DEF IInv
  <1>4. Wellformed(u)'
    BY <1>1, <1>2, <1>3 DEF CallIs, Wellformed
  <1>5. Copied(u)'
    <2>1. Exists(Temporary(u))' <=> Exists(Temporary(u))
      BY <1>2 DEF Moves, FilesMove, Exists
    <2>2. Exists(Temporary(u)) =>
            Listing(Temporary(u))' = Listing(Temporary(u)) /\ fs'[Temporary(u)'] = fs[Temporary(u)]
      BY <1>2, <2>1 DEF Moves, FilesMove, Listing, Exists
    <2> QED
      BY <1>1, <1>2, <1>3, <2>1, <2>2 DEF CallIs, Copied
  <1>6. Loaded(u)'
    BY <1>1, <1>2, <1>3 DEF CallIs, Loaded
  <1>7. Alone(u)'
    <2> SUFFICES ASSUME Active(u), ~disturbed[u]
                 PROVE  /\ \A v \in Threads : Active(v)' => home[v] = home[u]
                        /\ pc[u] = "delete" /\ ~Past(u) => doomed[u] = Own /\ Listing(Own)' \subseteq todo[u]
                        /\ pc[u] \in {"prepare", "copy", "copying"} => ~Exists(Own)'
                        /\ pc[u] = "load" => CachedModelsValid(version)' /\ \A v \in Threads : ~Making(v)'
      BY <1>1, <1>2 DEF Alone
    <2>1. /\ \A v \in Threads : Active(v) => home[v] = home[u]
          /\ pc[u] = "delete" /\ ~Past(u) => doomed[u] = Own /\ Listing(Own) \subseteq todo[u]
          /\ pc[u] \in {"prepare", "copy", "copying"} => ~Exists(Own)
          /\ pc[u] = "load" => CachedModelsValid(version) /\ \A v \in Threads : ~Making(v)
      BY <1>3 DEF CallIs, Alone
    <2>2. home[t] = home[u]
      BY <2>1 DEF Moves
    <2>3. \A v \in Threads : Active(v)' => Active(v)
      BY DEF Moves, Active
    \* Only one thread of a process makes a set.
    <2>4. ~(Making(t) /\ Making(u))
      BY <1>3, <2>2 DEF CallIs, Wellformed
    <2>5. Making(u) => (Exists(Own)' <=> Exists(Own)) /\ Listing(Own)' = Listing(Own)
      BY <1>1, <2>4 DEF Moves, FilesMove, Exists, Listing
    <2>6. ASSUME pc[u] = "load"
          PROVE  CachedModelsValid(version)' /\ \A v \in Threads : ~Making(v)'
      <3>1. CachedModelsValid(version) /\ \A v \in Threads : ~Making(v)
        BY <2>1, <2>6
      <3>2. CachedModelsValid(version)'
        BY <1>1, <3>1 DEF Moves, FilesMove, CachedModelsValid, Exists, Listing, Own
      <3>3. \A v \in Threads : ~Making(v)'
        BY <1>1, <3>1 DEF Moves, Making
      <3> QED
        BY <3>2, <3>3
    <2> QED
      BY <2>1, <2>3, <2>5, <2>6, <1>1 DEF Making, Past
  <1>8. Pruned(u)'
    <2>1. \A d \in Sets \ {Own} : Exists(d)' => Exists(d) /\ Listing(d)' \subseteq Listing(d)
      BY DEF Moves, FilesMove, Exists, Listing
    <2> QED
      BY <1>1, <1>2, <1>3, <2>1 DEF CallIs, Pruned
  <1> QED
    BY <1>4, <1>5, <1>6, <1>7, <1>8 DEF CallIs

LEMMA StepOf ==
  ASSUME IInv, NEW t \in Threads, Moves(t), Shape', SetsHonest', CallIs(t)'
  PROVE  IInv'
  <1>1. \A u \in Threads : u = t \/ u \in Threads \ {t}
    OBVIOUS
  <1> QED
    BY <1>1, OthersKeep DEF IInv

\* Sets that lose files stay honest.
LEMMA HonestFrame ==
  ASSUME SetsHonest,
         \A d \in Sets : d \in DOMAIN fs' =>
           /\ d \in DOMAIN fs /\ DOMAIN fs'[d] \subseteq DOMAIN fs[d]
           /\ \A f \in DOMAIN fs'[d] : fs'[d][f] = fs[d][f]
  PROVE  SetsHonest'
  <1>1. \A v \in 1..MaxVersion : SetDir(v) \in Sets
    BY DEF Sets
  <1> QED
    BY <1>1 DEF SetsHonest, Listing, Exists

LEMMA InitInvariant == Init => IInv
  <1> SUFFICES ASSUME Init PROVE IInv
    OBVIOUS
  <1>1. Shape
    BY Names DEF Init, Shape, States
  <1>2. SetsHonest
    <2>1. DOMAIN fs = {}
      BY DEF Init
    <2> QED
      BY <2>1 DEF SetsHonest, Listing, Exists
  <1>3. ASSUME NEW t \in Threads PROVE CallIs(t)
    <2>1. pc[t] = "idle" /\ progress[t] = 1 /\ outcome[t] = "none"
      BY DEF Init
    <2> QED
      BY <2>1 DEF CallIs, Wellformed, Copied, Loaded, Alone, Pruned, Making, Past, Active
  <1> QED
    BY <1>1, <1>2, <1>3 DEF IInv

LEMMA FilesStay ==
  ASSUME UNCHANGED fs, NEW t \in Threads
  PROVE  FilesMove(t)
  BY DEF FilesMove

LEMMA HonestStays ==
  ASSUME SetsHonest, UNCHANGED fs
  PROVE  SetsHonest'
  BY DEF SetsHonest, Listing, Exists

\* A call ends.
LEMMA EndOfCall ==
  ASSUME IInv, NEW t \in Threads, NEW how, Active(t), Leave(t, how), FilesMove(t), SetsHonest',
         UNCHANGED <<home, version, calls>>,
         DOMAIN loaded' = Threads, disturbed' \in [Threads -> BOOLEAN],
         \A u \in Threads \ {t} : loaded'[u] = loaded[u] /\ disturbed'[u] = disturbed[u],
         how \in {"failed", "created"}, how = "failed" => disturbed'[t],
         how = "created" => /\ loaded'[t] = [f \in ModelFiles |-> version]
                            /\ ~disturbed'[t] => \A d \in Sets \ {Own} : d \notin DOMAIN fs'
  PROVE  IInv'
  <1>1. Shape
    BY DEF IInv
  <1>2. /\ pc' = [u \in Threads |-> IF u \in {t} THEN "idle" ELSE pc[u]]
        /\ doomed' = [u \in Threads |-> IF u \in {t} THEN SetDir(1) ELSE doomed[u]]
        /\ todo' = [u \in Threads |-> IF u \in {t} THEN {} ELSE todo[u]]
        /\ progress' = [u \in Threads |-> IF u \in {t} THEN 1 ELSE progress[u]]
        /\ victims' = [u \in Threads |-> IF u \in {t} THEN {} ELSE victims[u]]
        /\ outcome' = [outcome EXCEPT ![t] = how]
        /\ installLock' = IF installLock[home[t]] = t
                          THEN [installLock EXCEPT ![home[t]] = NoThread] ELSE installLock
    BY DEF Leave, Forget, Unlock
  <1>3. pc'[t] = "idle" /\ progress'[t] = 1 /\ outcome'[t] = how
    BY <1>1, <1>2 DEF Shape
  <1>4. Shape'
    <2>1. pc' \in [Threads -> States] /\ progress' \in [Threads -> Nat \ {0}]
      BY <1>1, <1>2 DEF Shape, States
    <2>2. installLock' \in [Processes -> Threads \cup {NoThread}]
      BY <1>1, <1>2 DEF Shape
    <2> QED
      BY <1>1, <1>2, <2>1, <2>2 DEF Shape
  <1>5. Moves(t)
    <2>1. ASSUME NEW u \in Threads \ {t}, installLock[home[u]] = u
          PROVE  installLock'[home[u]] = u
      BY <1>1, <1>2, <2>1 DEF Shape
    <2>2. ~Making(t)'
      BY <1>3 DEF Making
    <2> QED
      BY <1>1, <1>2, <2>1, <2>2 DEF Moves, Shape
  <1>6. CallIs(t)'
    <2>1. ~Making(t)' /\ ~Past(t)' /\ ~Active(t)'
      BY <1>3 DEF Making, Past, Active
    <2>2. Wellformed(t)' /\ Copied(t)' /\ Alone(t)'
      BY <1>3, <2>1 DEF Wellformed, Copied, Alone
    <2>3. Loaded(t)'
      BY <1>3, <2>1 DEF Loaded
    <2>4. Own' = Own
      BY DEF Own
    <2>5. Pruned(t)'
      BY <1>3, <2>1, <2>4 DEF Pruned, Exists
    <2> QED
      BY <2>2, <2>3, <2>5 DEF CallIs
  <1> QED
    BY <1>4, <1>5, <1>6, StepOf

\* It ends with an I/O error.
LEMMA FailedCall ==
  ASSUME IInv, NEW t \in Threads, Active(t), IOError(t), Leave(t, "failed"),
         UNCHANGED <<home, version, fs, loaded, calls>>
  PROVE  IInv'
  <1>1. Shape /\ SetsHonest'
    BY HonestStays DEF IInv
  <1>2. disturbed' = [disturbed EXCEPT ![t] = TRUE]
    BY DEF IOError
  <1>3. /\ DOMAIN loaded' = Threads /\ disturbed' \in [Threads -> BOOLEAN] /\ disturbed'[t]
        /\ \A u \in Threads \ {t} : loaded'[u] = loaded[u] /\ disturbed'[u] = disturbed[u]
    BY <1>1, <1>2 DEF Shape
  <1> QED
    BY <1>1, <1>3, FilesStay, EndOfCall

LEMMA FailuresKeep ==
  ASSUME IInv, NEW t \in Threads, NoTemporary(t) \/ LoadFails(t)
  PROVE  IInv'
  <1>1. Active(t)
    BY DEF NoTemporary, LoadFails, Active
  <1> QED
    BY <1>1, FailedCall DEF NoTemporary, LoadFails

LEMMA ReturnStep ==
  ASSUME IInv, NEW t \in Threads, Return(t)
  PROVE  IInv'
  <1>1. Shape /\ SetsHonest' /\ Active(t)
    BY HonestStays DEF IInv, Return, Active
  <1>2. Past(t) /\ victims[t] = {} /\ pc[t] # "delete" /\ CallIs(t)
    BY DEF Return, Past, IInv
  <1>3. loaded[t] = [f \in ModelFiles |-> version]
    BY <1>2 DEF CallIs, Loaded
  <1>4. ~disturbed[t] => \A d \in Sets \ {Own} : d \notin DOMAIN fs'
    BY <1>2 DEF CallIs, Pruned, Exists, Return
  <1>5. DOMAIN loaded' = Threads /\ disturbed' \in [Threads -> BOOLEAN]
    BY <1>1 DEF Shape, Return
  <1> QED
    BY <1>1, <1>3, <1>4, <1>5, FilesStay, EndOfCall DEF Return

-----------------------------------------------------------------------------
(* Steps inside a call *)

\* The call of thread t goes on.
Continues(t) ==
  /\ UNCHANGED <<home, version, outcome, calls>>
  /\ DOMAIN loaded' = Threads /\ disturbed' \in [Threads -> BOOLEAN]
  /\ disturbed[t] => disturbed'[t]
  /\ pc' \in [Threads -> States] /\ pc'[t] # "idle"
  /\ DOMAIN doomed' = Threads /\ DOMAIN todo' = Threads /\ DOMAIN victims' = Threads
  /\ progress' \in [Threads -> Nat \ {0}]
  /\ installLock' \in [Processes -> Threads \cup {NoThread}]
  /\ \A u \in Threads \ {t} :
       /\ pc'[u] = pc[u] /\ doomed'[u] = doomed[u] /\ todo'[u] = todo[u]
       /\ progress'[u] = progress[u] /\ victims'[u] = victims[u] /\ loaded'[u] = loaded[u]
       /\ disturbed'[u] = disturbed[u]
       /\ installLock[home[u]] = u => installLock'[home[u]] = u

LEMMA ContinuingStep ==
  ASSUME IInv, NEW t \in Threads, Active(t), Continues(t), FilesMove(t), SetsHonest',
         Making(t)' => Making(t) \/ ~CachedModelsValid(version),
         Making(t)' => installLock'[home[t]] = t,
         pc'[t] = "delete" => doomed'[t] \in Sets \cup {Temporary(t)},
         Past(t)' => victims'[t] \subseteq Sets \ {Own},
         Copied(t)', Loaded(t)',
         ~disturbed'[t] =>
           /\ pc'[t] = "delete" /\ ~Past(t)' => doomed'[t] = Own /\ Listing(Own)' \subseteq todo'[t]
           /\ pc'[t] \in {"prepare", "copy", "copying"} => ~Exists(Own)'
           /\ pc'[t] = "load" => CachedModelsValid(version)' /\ \A u \in Threads : ~Making(u)'
           /\ Past(t)' =>
                \A d \in Sets \ {Own} : d \in DOMAIN fs' =>
                  \/ d \in victims'[t]
                  \/ pc'[t] = "delete" /\ d = doomed'[t] /\ DOMAIN fs'[d] \subseteq todo'[t]
  PROVE  IInv'
  <1>1. Shape /\ CallIs(t)
    BY DEF IInv
  <1>2. Shape'
    BY <1>1 DEF Shape, Continues
  <1>3. Moves(t)
    BY <1>1 DEF Moves, Continues
  <1>4. Own' = Own /\ Temporary(t)' = Temporary(t)
    BY DEF Own, Temporary, Continues
  <1>5. outcome'[t] = "none" /\ (disturbed[t] => disturbed'[t])
    BY <1>1 DEF CallIs, Wellformed, Continues
  <1>6. Wellformed(t)'
    BY <1>4, <1>5 DEF Wellformed, Continues
  <1>7. Alone(t)'
    <2>1. \A u \in Threads : Active(u)' <=> Active(u)
      BY DEF Active, Continues
    <2>2. home' = home /\ version' = version
      BY DEF Continues
    <2> QED
      BY <1>1, <1>4, <1>5, <2>1, <2>2 DEF CallIs, Alone
  <1>8. Pruned(t)'
    BY <1>4, <1>5 DEF Pruned, Exists, Listing
  <1> QED
    BY <1>2, <1>3, <1>6, <1>7, <1>8, StepOf DEF CallIs

LEMMA EnterStep ==
  ASSUME IInv, NEW t \in Threads, Enter(t)
  PROVE  IInv'
  <1>1. /\ Shape /\ CallIs(t) /\ SetsHonest' /\ FilesMove(t) /\ Active(t)
        /\ pc[t] = "enter" /\ installLock[home[t]] = NoThread
    BY FilesStay, HonestStays DEF IInv, Enter, Active
  <1>2. /\ pc'[t] \in {"load", "replace"}
        /\ pc'[t] = "load" => CachedModelsValid(version)
        /\ pc'[t] = "replace" => ~CachedModelsValid(version) /\ installLock'[home[t]] = t
    BY <1>1 DEF Enter, Goto, Shape
  <1>3. Continues(t)
    <2>1. pc' \in [Threads -> States] /\ \A u \in Threads \ {t} : pc'[u] = pc[u]
      BY <1>1 DEF Enter, Goto, Shape, States
    <2>2. installLock' \in [Processes -> Threads \cup {NoThread}]
      BY <1>1 DEF Enter, Shape
    <2>3. ASSUME NEW u \in Threads \ {t}, installLock[home[u]] = u
          PROVE  installLock'[home[u]] = u
      BY <1>1, <2>3, Names DEF Enter, Shape
    <2> QED
      BY <1>1, <1>2, <2>1, <2>2, <2>3 DEF Continues, Enter, Shape, place
  <1>4. Copied(t)'
    BY <1>2 DEF Copied
  <1>5. progress'[t] = 1 /\ loaded'[t] = <<>>
    BY <1>1 DEF CallIs, Loaded, Enter, place
  <1>6. Loaded(t)'
    <2>1. 1..(1 - 1) = {}
      OBVIOUS
    <2>2. {ModelFileList[i] : i \in 1..(1 - 1)} = {}
      BY <2>1
    <2>3. <<>> = [f \in {ModelFileList[i] : i \in 1..(1 - 1)} |-> version']
      BY <2>2
    <2>4. 1 \in 1..(Len(ModelFileList) + 1)
      BY Files
    <2>5. outcome'[t] = "none"
      BY <1>1 DEF CallIs, Wellformed, Enter
    <2> QED
      BY <1>2, <1>5, <2>3, <2>4, <2>5 DEF Loaded, Making, Past
  <1>7. ASSUME ~disturbed'[t], pc'[t] = "load"
        PROVE  CachedModelsValid(version)' /\ \A u \in Threads : ~Making(u)'
    <2>1. ASSUME NEW u \in Threads, Making(u)' PROVE FALSE
      <3>1. u # t /\ Making(u)
        BY <1>2, <1>3, <1>7, <2>1 DEF Making, Continues, Own
      <3>2. home[u] = home[t]
        BY <1>1, <1>7, <3>1 DEF CallIs, Alone, Making, Active, Enter
      <3>3. installLock[home[u]] = u
        BY <3>1 DEF IInv, CallIs, Wellformed
      <3> QED
        BY <1>1, <3>2, <3>3, Names
    <2>2. CachedModelsValid(version)'
      BY <1>2, <1>7 DEF Enter, CachedModelsValid, Exists, Listing
    <2> QED
      BY <2>1, <2>2
  <1> QED
    BY <1>1, <1>2, <1>3, <1>4, <1>6, <1>7, ContinuingStep DEF Making, Past

LEMMA ReplaceStep ==
  ASSUME IInv, NEW t \in Threads, Replace(t)
  PROVE  IInv'
  <1>1. /\ Shape /\ CallIs(t) /\ SetsHonest' /\ FilesMove(t) /\ Active(t) /\ pc[t] = "replace"
    BY FilesStay, HonestStays DEF IInv, Replace, Active
  <1>2. /\ pc'[t] \in {"delete", "prepare"}
        /\ pc'[t] = "delete" => doomed'[t] = Own /\ todo'[t] = Listing(Own)
        /\ pc'[t] = "prepare" => ~Exists(Own)
    BY <1>1 DEF Replace, Delete, Goto, Shape
  <1>3. Continues(t)
    <2>1. pc' \in [Threads -> States] /\ \A u \in Threads \ {t} : pc'[u] = pc[u]
      BY <1>1 DEF Replace, Delete, Goto, Shape, States
    <2>2. \A u \in Threads \ {t} : doomed'[u] = doomed[u] /\ todo'[u] = todo[u]
      BY <1>1 DEF Replace, Delete, Shape
    <2>3. DOMAIN doomed' = Threads /\ DOMAIN todo' = Threads
      BY <1>1 DEF Replace, Delete, Shape
    <2> QED
      BY <1>1, <1>2, <2>1, <2>2, <2>3 DEF Continues, Replace, Shape
  <1>4. Making(t) /\ Own' = Own /\ Own \in Sets /\ fs' = fs
    BY <1>1 DEF Making, Replace, Own, Sets, Shape
  <1>5. ~Past(t)' /\ Making(t)' /\ installLock'[home[t]] = t
    BY <1>1, <1>2, <1>4 DEF Past, Making, CallIs, Wellformed, Replace
  <1>6. Copied(t)'
    BY <1>2 DEF Copied
  <1>7. Loaded(t)'
    <2>1. progress'[t] = 1 /\ loaded'[t] = <<>> /\ outcome'[t] = "none"
      BY <1>1, <1>4 DEF CallIs, Loaded, Wellformed, Replace
    <2> QED
      BY <1>2, <1>5, <2>1 DEF Loaded
  <1>8. Listing(Own)' = Listing(Own) /\ (Exists(Own)' <=> Exists(Own))
    BY <1>4 DEF Listing, Exists
  <1> QED
    BY <1>1, <1>2, <1>3, <1>4, <1>5, <1>6, <1>7, <1>8, ContinuingStep

LEMMA DeleteFileStep ==
  ASSUME IInv, NEW t \in Threads, DeleteFile(t)
  PROVE  IInv'
  <1>1. Shape /\ CallIs(t) /\ SetsHonest /\ Active(t) /\ pc[t] = "delete"
    BY DEF IInv, DeleteFile, Active
  <1>2. PICK f \in todo[t] :
          /\ todo' = [todo EXCEPT ![t] = @ \ {f}]
          /\ fs' = IF f \in Listing(doomed[t])
                   THEN [fs EXCEPT ![doomed[t]] = Without(@, f)] ELSE fs
    BY DEF DeleteFile
  <1>3. /\ UNCHANGED <<home, version, installLock, pc, doomed, progress, victims, loaded,
                       outcome, disturbed, calls>>
        /\ todo'[t] = todo[t] \ {f} /\ Own' = Own /\ Own \in Sets
    BY <1>1, <1>2 DEF DeleteFile, Shape, Own, Sets
  <1>4. doomed[t] \in Sets \cup {Temporary(t)}
    BY <1>1 DEF CallIs, Wellformed
  <1>5. /\ DOMAIN fs' = DOMAIN fs
        /\ \A d : d \in DOMAIN fs /\ d # doomed[t] => fs'[d] = fs[d]
        /\ doomed[t] \in DOMAIN fs => /\ DOMAIN fs'[doomed[t]] = DOMAIN fs[doomed[t]] \ {f}
                                      /\ \A x \in DOMAIN fs'[doomed[t]] :
                                           fs'[doomed[t]][x] = fs[doomed[t]][x]
    BY <1>2 DEF Listing, Exists, Without, Restrict
  <1>6. FilesMove(t)
    BY <1>1, <1>4, <1>5, Names DEF FilesMove, Making
  <1>7. SetsHonest'
    BY <1>1, <1>5, HonestFrame
  <1>8. Continues(t)
    BY <1>1, <1>2, <1>3 DEF Continues, Shape
  <1>9. (Past(t)' <=> Past(t)) /\ (Making(t)' <=> Making(t))
    BY <1>3 DEF Past, Making
  <1>10. Copied(t)' /\ Loaded(t)'
    BY <1>1, <1>3, <1>9 DEF Copied, Loaded, CallIs
  <1>11. Listing(doomed[t]) \subseteq todo[t] => Listing(doomed[t])' \subseteq todo'[t]
    BY <1>3, <1>5 DEF Listing, Exists
  <1>12. ASSUME ~disturbed'[t], Past(t), NEW d \in Sets \ {Own}, d \in DOMAIN fs'
         PROVE  \/ d \in victims'[t]
                \/ pc'[t] = "delete" /\ d = doomed'[t] /\ DOMAIN fs'[d] \subseteq todo'[t]
    BY <1>1, <1>3, <1>5, <1>12 DEF CallIs, Pruned, Listing, Exists
  <1>13. ASSUME ~disturbed'[t], ~Past(t)
         PROVE  doomed'[t] = Own /\ Listing(Own)' \subseteq todo'[t]
    BY <1>1, <1>3, <1>11, <1>13 DEF CallIs, Alone
  <1>14. /\ Making(t)' => Making(t) /\ installLock'[home[t]] = t
         /\ Past(t)' => victims'[t] \subseteq Sets \ {Own}
    BY <1>1, <1>3, <1>9 DEF CallIs, Wellformed
  <1> QED
    BY <1>1, <1>3, <1>4, <1>6, <1>7, <1>8, <1>9, <1>10, <1>12, <1>13, <1>14, ContinuingStep

LEMMA ListOldSetsStep ==
  ASSUME IInv, NEW t \in Threads, ListOldSets(t)
  PROVE  IInv'
  <1>1. /\ Shape /\ CallIs(t) /\ SetsHonest' /\ FilesMove(t) /\ Active(t) /\ pc[t] = "load"
    BY FilesStay, HonestStays DEF IInv, ListOldSets, Active
  <1>2. pc'[t] = "prune" /\ victims'[t] = OldSets /\ fs' = fs
    BY <1>1 DEF ListOldSets, Goto, Shape
  <1>3. Continues(t)
    BY <1>1, <1>2 DEF Continues, ListOldSets, Goto, Shape, States
  <1>4. Past(t)' /\ ~Making(t)' /\ Copied(t)'
    BY <1>2 DEF Past, Making, Copied
  <1>5. loaded'[t] = [f \in ModelFiles |-> version']
    <2>1. progress[t] > Len(ModelFileList) /\ progress[t] \in 1..(Len(ModelFileList) + 1)
      BY <1>1 DEF ListOldSets, CallIs, Loaded
    <2>2. progress[t] - 1 = Len(ModelFileList)
      BY <2>1, Files
    <2>3. loaded[t] = [f \in {ModelFileList[i] : i \in 1..(progress[t] - 1)} |-> version]
      BY <1>1 DEF CallIs, Loaded
    <2> QED
      BY <2>2, <2>3, Files DEF ListOldSets
  <1>6. Loaded(t)'
    BY <1>2, <1>4, <1>5 DEF Loaded
  <1>7. victims'[t] \subseteq Sets \ {Own} /\ \A d \in Sets \ {Own} : d \in DOMAIN fs' => d \in victims'[t]
    BY <1>2 DEF OldSets, Exists
  <1> QED
    BY <1>1, <1>2, <1>3, <1>4, <1>6, <1>7, ContinuingStep

LEMMA PruneStep ==
  ASSUME IInv, NEW t \in Threads, Prune(t)
  PROVE  IInv'
  <1>1. /\ Shape /\ CallIs(t) /\ SetsHonest' /\ FilesMove(t) /\ Active(t) /\ pc[t] = "prune"
    BY FilesStay, HonestStays DEF IInv, Prune, Active
  <1>2. PICK d \in victims[t] :
          victims' = [victims EXCEPT ![t] = @ \ {d}] /\ Delete(t, d, "delete")
    BY DEF Prune
  <1>3. /\ pc'[t] = "delete" /\ victims'[t] = victims[t] \ {d} /\ fs' = fs
        /\ doomed'[t] = d /\ todo'[t] = Listing(d)
    BY <1>1, <1>2 DEF Prune, Delete, Goto, Shape
  <1>4. Past(t) /\ victims[t] \subseteq Sets \ {Own} /\ Own' = Own
    BY <1>1 DEF Past, CallIs, Wellformed, Prune, Own
  <1>5. Continues(t)
    BY <1>1, <1>2, <1>3 DEF Continues, Prune, Delete, Goto, Shape, States
  <1>6. Past(t)' /\ ~Making(t)' /\ Copied(t)' /\ d \in Sets \ {Own}
    BY <1>3, <1>4 DEF Past, Making, Copied
  <1>7. Loaded(t)'
    <2>1. loaded'[t] = [f \in ModelFiles |-> version']
      BY <1>1, <1>4 DEF CallIs, Loaded, Prune
    <2> QED
      BY <1>3, <1>4, <1>6, <2>1 DEF Loaded
  <1>8. ASSUME ~disturbed'[t], NEW e \in Sets \ {Own}, e \in DOMAIN fs'
        PROVE  \/ e \in victims'[t]
               \/ pc'[t] = "delete" /\ e = doomed'[t] /\ DOMAIN fs'[e] \subseteq todo'[t]
    <2>1. e \in victims[t]
      BY <1>1, <1>3, <1>4, <1>8 DEF CallIs, Pruned, Exists, Prune
    <2> QED
      BY <1>3, <1>8, <2>1 DEF Listing, Exists
  <1>9. victims'[t] \subseteq Sets \ {Own}
    BY <1>3, <1>4
  <1> QED
    BY <1>1, <1>3, <1>5, <1>6, <1>7, <1>8, <1>9, ContinuingStep

\* What follows a deletion, complete (ok) or not.
LEMMA DeletedStep ==
  ASSUME IInv, NEW t \in Threads, NEW ok \in BOOLEAN, pc[t] = "delete", Deleted(t, ok),
         FilesMove(t), SetsHonest', UNCHANGED <<home, version, loaded, calls>>,
         disturbed' \in [Threads -> BOOLEAN], disturbed[t] => disturbed'[t],
         \A u \in Threads \ {t} : disturbed'[u] = disturbed[u],
         ok => doomed[t] \notin DOMAIN fs',
         ~disturbed'[t] => todo[t] = {} /\ (Listing(doomed[t]) = {} => ok)
  PROVE  IInv'
  <1>1. Shape /\ CallIs(t) /\ Active(t) /\ Own' = Own /\ Own \in Sets
    BY DEF IInv, Active, Own, Sets, Shape
  <1>2. DOMAIN loaded' = Threads
    BY <1>1 DEF Shape
  <1>3. CASE ~(doomed[t] \in Sets /\ (doomed[t] = Own => ok))
    <2>1. Leave(t, "failed")
      BY <1>3 DEF Deleted
    <2>2. ASSUME ~disturbed'[t] PROVE FALSE
      <3>1. ~Past(t) \/ doomed[t] = Own
        BY <1>3 DEF Past
      <3>2. doomed[t] = Own /\ Listing(Own) \subseteq todo[t]
        BY <1>1, <2>2, <3>1 DEF CallIs, Alone, Past
      <3> QED
        BY <1>1, <1>3, <2>2, <3>2
    <2> QED
      BY <1>1, <1>2, <2>1, <2>2, EndOfCall
  <1>4. CASE doomed[t] \in Sets /\ (doomed[t] = Own => ok)
    <2>1. /\ Goto(t, IF doomed[t] = Own THEN "prepare" ELSE "prune")
          /\ doomed' = [doomed EXCEPT ![t] = SetDir(1)] /\ todo' = [todo EXCEPT ![t] = {}]
          /\ UNCHANGED <<installLock, progress, victims, outcome>>
      BY <1>4 DEF Deleted
    <2>2. /\ doomed[t] = Own => pc'[t] = "prepare"
          /\ doomed[t] # Own => pc'[t] = "prune"
      BY <1>1, <2>1 DEF Goto, Shape
    <2>3. Continues(t)
      <3>1. pc' \in [Threads -> States] /\ \A u \in Threads \ {t} : pc'[u] = pc[u]
        BY <1>1, <2>1 DEF Goto, Shape, States
      <3>2. \A u \in Threads \ {t} : doomed'[u] = doomed[u] /\ todo'[u] = todo[u]
        BY <1>1, <2>1 DEF Shape
      <3>3. DOMAIN doomed' = Threads /\ DOMAIN todo' = Threads /\ pc'[t] # "idle"
        BY <1>1, <2>1, <2>2 DEF Shape
      <3> QED
        BY <1>1, <1>2, <2>1, <3>1, <3>2, <3>3 DEF Continues, Shape
    <2>4. Copied(t)'
      BY <2>2 DEF Copied
    <2>5. outcome'[t] = "none"
      BY <1>1, <2>1 DEF CallIs, Wellformed
    <2>6. CASE doomed[t] = Own
      <3>1. pc'[t] = "prepare" /\ ok /\ Making(t) /\ ~Past(t)' /\ Making(t)'
        BY <1>4, <2>2, <2>6 DEF Making, Past
      <3>2. installLock'[home[t]] = t /\ ~Exists(Own)'
        BY <1>1, <2>1, <2>6, <3>1 DEF CallIs, Wellformed, Exists
      <3>3. progress'[t] = 1 /\ loaded'[t] = <<>>
        BY <1>1, <2>1, <2>6, <3>1 DEF CallIs, Loaded
      <3>4. Loaded(t)'
        BY <2>5, <3>1, <3>3 DEF Loaded
      <3> QED
        BY <1>1, <2>3, <2>4, <3>1, <3>2, <3>4, ContinuingStep
    <2>7. CASE doomed[t] # Own
      <3>1. pc'[t] = "prune" /\ Past(t) /\ Past(t)' /\ ~Making(t)'
        BY <1>4, <2>2, <2>7 DEF Making, Past
      <3>2. victims'[t] \subseteq Sets \ {Own}
        BY <1>1, <2>1, <3>1 DEF CallIs, Wellformed
      <3>3. loaded'[t] = [f \in ModelFiles |-> version']
        BY <1>1, <3>1 DEF CallIs, Loaded
      <3>4. Loaded(t)'
        BY <3>1, <3>3 DEF Loaded
      <3>5. ASSUME ~disturbed'[t], NEW d \in Sets \ {Own}, d \in DOMAIN fs'
            PROVE  d \in victims'[t]
        <4>1. Exists(d)
          BY <3>5 DEF FilesMove, Exists
        <4>2. d \in victims[t] \/ (d = doomed[t] /\ Listing(d) \subseteq todo[t])
          BY <1>1, <3>1, <3>5, <4>1 DEF CallIs, Pruned
        <4> QED
          BY <2>1, <3>5, <4>2
      <3> QED
        BY <1>1, <2>3, <2>4, <3>1, <3>2, <3>4, <3>5, ContinuingStep
    <2> QED
      BY <2>6, <2>7
  <1> QED
    BY <1>3, <1>4

LEMMA DeleteDirectoryStep ==
  ASSUME IInv, NEW t \in Threads, DeleteDirectory(t)
  PROVE  IInv'
  <1>1. Shape /\ CallIs(t) /\ SetsHonest /\ pc[t] = "delete" /\ todo[t] = {}
    BY DEF IInv, DeleteDirectory
  <1> DEFINE ok == Listing(doomed[t]) = {}
  <1>2. /\ ok \in BOOLEAN /\ Deleted(t, ok)
        /\ fs' = IF Exists(doomed[t]) /\ ok THEN Without(fs, doomed[t]) ELSE fs
        /\ UNCHANGED <<home, version, loaded, calls, disturbed>>
    BY DEF DeleteDirectory
  <1>3. ok => doomed[t] \notin DOMAIN fs'
    BY <1>2 DEF Exists, Without, Restrict
  <1>4. \A d : /\ d # doomed[t] => (d \in DOMAIN fs' <=> d \in DOMAIN fs)
               /\ d \in DOMAIN fs' => d \in DOMAIN fs /\ fs'[d] = fs[d]
    BY <1>2 DEF Exists, Without, Restrict
  <1>5. doomed[t] \in Sets \cup {Temporary(t)}
    BY <1>1 DEF CallIs, Wellformed
  <1>6. Making(t) \/ doomed[t] # Own
    BY <1>1 DEF Making
  <1>7. FilesMove(t)
    BY <1>4, <1>5, <1>6, Names DEF FilesMove
  <1>8. SetsHonest'
    BY <1>1, <1>4, HonestFrame
  <1>9. disturbed' \in [Threads -> BOOLEAN]
    BY <1>1, <1>2 DEF Shape
  <1>10. Listing(doomed[t]) = {} => ok
    OBVIOUS
  <1> HIDE DEF ok
  <1> QED
    BY <1>1, <1>2, <1>3, <1>7, <1>8, <1>9, <1>10, DeletedStep

LEMMA DeletionFailsStep ==
  ASSUME IInv, NEW t \in Threads, DeletionFails(t)
  PROVE  IInv'
  <1>1. Shape /\ SetsHonest' /\ pc[t] = "delete" /\ FilesMove(t) /\ Deleted(t, FALSE)
    BY FilesStay, HonestStays DEF IInv, DeletionFails
  <1>2. disturbed' = [disturbed EXCEPT ![t] = TRUE] /\ UNCHANGED <<home, version, loaded, calls>>
    BY DEF DeletionFails, IOError
  <1>3. /\ disturbed' \in [Threads -> BOOLEAN] /\ disturbed'[t]
        /\ \A u \in Threads \ {t} : disturbed'[u] = disturbed[u]
    BY <1>1, <1>2 DEF Shape
  <1> QED
    BY <1>1, <1>2, <1>3, DeletedStep

-----------------------------------------------------------------------------
(* A new set is made *)

LEMMA MakeTemporaryStep ==
  ASSUME IInv, NEW t \in Threads, MakeTemporary(t)
  PROVE  IInv'
  <1>1. /\ Shape /\ CallIs(t) /\ SetsHonest /\ Active(t) /\ pc[t] = "prepare" /\ Making(t)
        /\ fs' = With(fs, Temporary(t), <<>>)
    BY DEF IInv, MakeTemporary, Active, Making
  <1>2. /\ UNCHANGED <<home, version, installLock, place, loaded, outcome, disturbed, calls>>
        /\ pc'[t] = "copy" /\ Own' = Own /\ Own \in Sets /\ Temporary(t)' = Temporary(t)
    BY <1>1 DEF MakeTemporary, Goto, Shape, Own, Sets, Temporary
  <1>3. /\ DOMAIN fs' = DOMAIN fs \cup {Temporary(t)} /\ fs'[Temporary(t)] = <<>>
        /\ \A d \in DOMAIN fs : d # Temporary(t) => fs'[d] = fs[d]
    BY <1>1 DEF With
  <1>4. FilesMove(t)
    BY <1>1, <1>3, Names DEF FilesMove
  <1>5. SetsHonest'
    BY <1>1, <1>3, HonestFrame, Names
  <1>6. Continues(t)
    <2>1. pc' \in [Threads -> States] /\ \A u \in Threads \ {t} : pc'[u] = pc[u]
      BY <1>1 DEF MakeTemporary, Goto, Shape, States
    <2> QED
      BY <1>1, <1>2, <2>1 DEF Continues, Shape, place
  <1>7. Making(t)' /\ ~Past(t)' /\ installLock'[home[t]] = t
    BY <1>1, <1>2 DEF Making, Past, CallIs, Wellformed
  <1>8. progress'[t] = 1 /\ loaded'[t] = <<>> /\ outcome'[t] = "none"
    BY <1>1, <1>2 DEF CallIs, Loaded, Wellformed, place
  <1>9. Loaded(t)'
    BY <1>2, <1>7, <1>8 DEF Loaded
  <1>10. Copied(t)'
    <2>1. Exists(Temporary(t))' /\ Listing(Temporary(t))' = {}
      BY <1>2, <1>3 DEF Exists, Listing
    <2>2. 1..(1 - 1) = {} /\ 1 \in 1..(Len(CopyOrder) + 1)
      BY Files
    <2>3. {CopyOrder[i] : i \in 1..(1 - 1)} = {}
      BY <2>2
    <2> QED
      BY <1>2, <1>8, <2>1, <2>2, <2>3 DEF Copied
  <1>11. ASSUME ~disturbed'[t] PROVE ~Exists(Own)'
    <2>1. ~Exists(Own)
      BY <1>1, <1>2, <1>11 DEF CallIs, Alone
    <2> QED
      BY <1>2, <1>3, <2>1, Names DEF Exists
  <1> QED
    BY <1>1, <1>2, <1>4, <1>5, <1>6, <1>7, <1>9, <1>10, <1>11, ContinuingStep

\* Writing to one's own temporary directory.
LEMMA WriteStep ==
  ASSUME IInv, NEW t \in Threads, NEW contents, pc[t] \in {"copy", "copying"},
         progress[t] <= Len(CopyOrder), Write(t, contents)
  PROVE  LET tmp == Temporary(t)  f == CopyOrder[progress[t]]
         IN /\ FilesMove(t) /\ SetsHonest' /\ DOMAIN fs' = DOMAIN fs /\ tmp \in DOMAIN fs'
            /\ Making(t) /\ Active(t) /\ installLock[home[t]] = t
            /\ DOMAIN fs'[tmp] = {CopyOrder[i] : i \in 1..progress[t]}
            /\ fs'[tmp][f] = contents
            /\ \A i \in 1..(progress[t] - 1) : fs'[tmp][CopyOrder[i]] = fs[tmp][CopyOrder[i]]
  <1> DEFINE tmp == Temporary(t)
             f == CopyOrder[progress[t]]
  <1>1. Shape /\ CallIs(t) /\ SetsHonest /\ Making(t) /\ Active(t) /\ progress[t] \in Nat \ {0}
    BY DEF IInv, Shape, Making, Active
  <1>2. installLock[home[t]] = t
    BY <1>1 DEF CallIs, Wellformed
  <1>3. /\ tmp \in DOMAIN fs
        /\ DOMAIN fs[tmp] = {CopyOrder[i] : i \in 1..(IF pc[t] = "copying" THEN progress[t]
                                                      ELSE progress[t] - 1)}
    BY <1>1 DEF CallIs, Copied, Exists, Listing
  <1>4. /\ DOMAIN fs' = DOMAIN fs
        /\ \A d \in DOMAIN fs : d # tmp => fs'[d] = fs[d]
        /\ DOMAIN fs'[tmp] = DOMAIN fs[tmp] \cup {f} /\ fs'[tmp][f] = contents
        /\ \A y \in DOMAIN fs[tmp] : y # f => fs'[tmp][y] = fs[tmp][y]
    BY <1>3 DEF Write, With
  <1>5. FilesMove(t)
    BY <1>1, <1>4, Names DEF FilesMove
  <1>6. SetsHonest'
    BY <1>1, <1>4, HonestFrame, Names
  <1>7. DOMAIN fs'[tmp] = {CopyOrder[i] : i \in 1..progress[t]}
    <2>1. 1..progress[t] = (1..(progress[t] - 1)) \cup {progress[t]}
      BY <1>1
    <2> QED
      BY <1>3, <1>4, <2>1
  <1>8. ASSUME NEW i \in 1..(progress[t] - 1)
        PROVE  fs'[tmp][CopyOrder[i]] = fs[tmp][CopyOrder[i]]
    <2>1. i \in 1..progress[t] /\ i # progress[t] /\ progress[t] \in 1..(Len(ModelFileList) + 2)
          /\ i \in 1..(Len(ModelFileList) + 2)
      BY <1>1, Files
    <2>2. CopyOrder[i] # f
      BY <2>1, Files
    <2> QED
      BY <1>3, <1>4, <2>1, <2>2
  <1> QED
    BY <1>1, <1>2, <1>3, <1>4, <1>5, <1>6, <1>7, <1>8

LEMMA OpenCopyStep ==
  ASSUME IInv, NEW t \in Threads, OpenCopy(t)
  PROVE  IInv'
  <1>1. Shape /\ CallIs(t) /\ pc[t] = "copy" /\ progress[t] <= Len(CopyOrder) /\ Write(t, Partial)
    BY DEF IInv, OpenCopy
  <1>2. /\ UNCHANGED <<home, version, installLock, place, loaded, outcome, disturbed, calls>>
        /\ pc'[t] = "copying" /\ Own' = Own /\ Temporary(t)' = Temporary(t)
    BY <1>1 DEF OpenCopy, Goto, Shape, Own, Temporary
  <1>3. /\ FilesMove(t) /\ SetsHonest' /\ DOMAIN fs' = DOMAIN fs /\ Temporary(t) \in DOMAIN fs'
        /\ Making(t) /\ Active(t) /\ installLock[home[t]] = t
        /\ DOMAIN fs'[Temporary(t)] = {CopyOrder[i] : i \in 1..progress[t]}
        /\ \A i \in 1..(progress[t] - 1) :
             fs'[Temporary(t)][CopyOrder[i]] = fs[Temporary(t)][CopyOrder[i]]
    BY <1>1, WriteStep
  <1>4. Continues(t)
    <2>1. pc' \in [Threads -> States] /\ \A u \in Threads \ {t} : pc'[u] = pc[u]
      BY <1>1 DEF OpenCopy, Goto, Shape, States
    <2> QED
      BY <1>1, <1>2, <2>1 DEF Continues, Shape, place
  <1>5. ~Past(t)' /\ loaded'[t] = <<>> /\ outcome'[t] = "none"
    BY <1>1, <1>2, <1>3 DEF Past, CallIs, Loaded, Wellformed, Active
  <1>6. Loaded(t)'
    BY <1>2, <1>5 DEF Loaded
  <1>7. Copied(t)'
    <2>1. progress'[t] = progress[t] /\ disturbed'[t] = disturbed[t]
      BY <1>2 DEF place
    <2>2. progress[t] \in 1..(Len(CopyOrder) + 1)
      BY <1>1 DEF CallIs, Copied
    <2>3. \A i \in 1..(progress[t] - 1) : \/ fs[Temporary(t)][CopyOrder[i]] = version
                                          \/ CopyOrder[i] \notin ModelFiles /\ disturbed[t]
      BY <1>1 DEF CallIs, Copied
    <2> QED
      BY <1>1, <1>2, <1>3, <2>1, <2>2, <2>3 DEF Copied, Exists, Listing
  <1>8. ~disturbed'[t] => ~Exists(Own)'
    BY <1>1, <1>2, <1>3 DEF CallIs, Alone, Exists
  <1> QED
    BY <1>2, <1>3, <1>4, <1>5, <1>6, <1>7, <1>8, ContinuingStep

\* The copy that is open is closed, and the next file is due.
LEMMA CopiedOne ==
  ASSUME IInv, NEW t \in Threads, NEW contents, pc[t] = "copying", Write(t, contents),
         progress' = [progress EXCEPT ![t] = @ + 1], Goto(t, "copy"),
         UNCHANGED <<home, version, installLock, doomed, todo, victims, loaded, outcome, calls>>,
         disturbed' \in [Threads -> BOOLEAN], disturbed[t] => disturbed'[t],
         \A u \in Threads \ {t} : disturbed'[u] = disturbed[u],
         contents = version \/ (CopyOrder[progress[t]] \notin ModelFiles /\ disturbed'[t])
  PROVE  IInv'
  <1>1. Shape /\ CallIs(t) /\ progress[t] \in 1..(Len(CopyOrder) + 1) /\ progress[t] <= Len(CopyOrder)
    BY DEF IInv, CallIs, Copied
  <1>2. /\ progress[t] \in Nat \ {0} /\ progress'[t] = progress[t] + 1
        /\ pc'[t] = "copy" /\ Own' = Own /\ Temporary(t)' = Temporary(t)
    BY <1>1 DEF Goto, Shape, Own, Temporary
  <1>3. /\ FilesMove(t) /\ SetsHonest' /\ DOMAIN fs' = DOMAIN fs /\ Temporary(t) \in DOMAIN fs'
        /\ Making(t) /\ Active(t) /\ installLock[home[t]] = t
        /\ DOMAIN fs'[Temporary(t)] = {CopyOrder[i] : i \in 1..progress[t]}
        /\ fs'[Temporary(t)][CopyOrder[progress[t]]] = contents
        /\ \A i \in 1..(progress[t] - 1) :
             fs'[Temporary(t)][CopyOrder[i]] = fs[Temporary(t)][CopyOrder[i]]
    BY <1>1, WriteStep
  <1>4. Continues(t)
    <2>1. /\ pc' \in [Threads -> States] /\ progress' \in [Threads -> Nat \ {0}]
          /\ \A u \in Threads \ {t} : pc'[u] = pc[u] /\ progress'[u] = progress[u]
      BY <1>1, <1>2 DEF Goto, Shape, States
    <2> QED
      BY <1>1, <1>2, <2>1 DEF Continues, Shape
  <1>5. ~Past(t)' /\ loaded'[t] = <<>> /\ outcome'[t] = "none"
    BY <1>1, <1>2, <1>3 DEF Past, CallIs, Loaded, Wellformed, Active
  <1>6. Loaded(t)'
    BY <1>2, <1>5 DEF Loaded
  <1>7. Copied(t)'
    <2>1. \A i \in 1..(progress[t] - 1) : \/ fs[Temporary(t)][CopyOrder[i]] = version
                                          \/ CopyOrder[i] \notin ModelFiles /\ disturbed[t]
      BY <1>1 DEF CallIs, Copied
    <2>2. ASSUME NEW i \in 1..progress[t]
          PROVE  \/ fs'[Temporary(t)][CopyOrder[i]] = version
                 \/ CopyOrder[i] \notin ModelFiles /\ disturbed'[t]
      <3>1. i \in 1..(progress[t] - 1) \/ i = progress[t]
        BY <1>2
      <3> QED
        BY <1>3, <2>1, <3>1
    <2>3. progress'[t] \in 1..(Len(CopyOrder) + 1) /\ progress'[t] - 1 = progress[t]
      BY <1>1, <1>2, Files
    <2> QED
      BY <1>2, <1>3, <2>2, <2>3 DEF Copied, Exists, Listing
  <1>8. ~disturbed'[t] => ~Exists(Own)'
    BY <1>1, <1>2, <1>3 DEF CallIs, Alone, Exists
  <1> QED
    BY <1>2, <1>3, <1>4, <1>5, <1>6, <1>7, <1>8, ContinuingStep

LEMMA CloseCopyStep ==
  ASSUME IInv, NEW t \in Threads, CloseCopy(t)
  PROVE  IInv'
  <1>1. disturbed' \in [Threads -> BOOLEAN] /\ disturbed' = disturbed
    BY DEF IInv, Shape, CloseCopy
  <1> QED
    BY <1>1, CopiedOne DEF CloseCopy

LEMMA BadCopyStep ==
  ASSUME IInv, NEW t \in Threads, BadCopy(t)
  PROVE  IInv'
  <1>1. /\ Shape /\ CallIs(t) /\ pc[t] = "copying" /\ Write(t, Corrupt)
        /\ UNCHANGED <<home, version, installLock, victims, loaded, outcome, calls>>
        /\ disturbed' = [disturbed EXCEPT ![t] = TRUE]
    BY DEF IInv, BadCopy, IOError
  <1>2. /\ disturbed' \in [Threads -> BOOLEAN] /\ disturbed'[t]
        /\ \A u \in Threads \ {t} : disturbed'[u] = disturbed[u]
    BY <1>1 DEF Shape
  <1>3. CASE Verified(CopyOrder[progress[t]], Corrupt)
    <2>1. Corrupt # version
      BY <1>1, Names DEF Shape, Corrupt
    <2>2. CopyOrder[progress[t]] \notin ModelFiles
      BY <1>3, <2>1 DEF Verified
    <2>3. /\ progress' = [progress EXCEPT ![t] = @ + 1] /\ Goto(t, "copy")
          /\ UNCHANGED <<doomed, todo>>
      BY <1>3 DEF BadCopy
    <2> QED
      BY <1>1, <1>2, <2>2, <2>3, CopiedOne
  <1>4. CASE ~Verified(CopyOrder[progress[t]], Corrupt)
    <2>1. /\ Goto(t, "delete") /\ doomed' = [doomed EXCEPT ![t] = Temporary(t)]
          /\ todo' = [todo EXCEPT ![t] = DOMAIN fs'[Temporary(t)]] /\ UNCHANGED progress
      BY <1>4 DEF BadCopy
    <2>2. pc'[t] = "delete" /\ doomed'[t] = Temporary(t) /\ Own' = Own /\ Own \in Sets
      BY <1>1, <2>1 DEF Goto, Shape, Own, Sets
    <2>3. progress[t] <= Len(CopyOrder)
      BY <1>1 DEF CallIs, Copied
    <2>4. FilesMove(t) /\ SetsHonest' /\ Making(t) /\ Active(t) /\ installLock[home[t]] = t
      BY <1>1, <2>3, WriteStep
    <2>5. Continues(t)
      <3>1. /\ pc' \in [Threads -> States] /\ DOMAIN doomed' = Threads /\ DOMAIN todo' = Threads
            /\ \A u \in Threads \ {t} :
                 pc'[u] = pc[u] /\ doomed'[u] = doomed[u] /\ todo'[u] = todo[u]
        BY <1>1, <2>1 DEF Goto, Shape, States
      <3> QED
        BY <1>1, <1>2, <2>1, <2>2, <3>1 DEF Continues, Shape
    <2>6. Making(t)' /\ ~Past(t)' /\ Temporary(t) \notin Sets
      BY <2>2, Names DEF Making, Past
    <2>7. loaded'[t] = <<>> /\ outcome'[t] = "none"
      BY <1>1, <2>4 DEF CallIs, Loaded, Wellformed, Active
    <2>8. Loaded(t)' /\ Copied(t)'
      BY <2>2, <2>6, <2>7 DEF Loaded, Copied
    <2> QED
      BY <1>1, <1>2, <2>2, <2>4, <2>5, <2>6, <2>8, ContinuingStep
  <1> QED
    BY <1>3, <1>4

LEMMA CommitStep ==
  ASSUME IInv, NEW t \in Threads, Commit(t)
  PROVE  IInv'
  <1> DEFINE tmp == Temporary(t)
  <1>1. /\ Shape /\ CallIs(t) /\ SetsHonest /\ Making(t) /\ Active(t)
        /\ pc[t] = "copy" /\ progress[t] > Len(CopyOrder)
        /\ UNCHANGED <<home, version, victims, loaded, outcome, disturbed, calls>>
    BY DEF IInv, Commit, Making, Active
  <1>2. /\ installLock[home[t]] = t /\ Own' = Own /\ Own \in Sets /\ Temporary(t)' = tmp
        /\ loaded'[t] = <<>> /\ outcome'[t] = "none" /\ tmp \notin Sets
    BY <1>1, Names DEF CallIs, Wellformed, Loaded, Own, Sets, Shape, Temporary
  <1>3. /\ tmp \in DOMAIN fs
        /\ DOMAIN fs[tmp] = {CopyOrder[i] : i \in 1..Len(CopyOrder)}
        /\ \A i \in 1..Len(CopyOrder) : \/ fs[tmp][CopyOrder[i]] = version
                                        \/ CopyOrder[i] \notin ModelFiles /\ disturbed[t]
    <2>1. progress[t] \in 1..(Len(CopyOrder) + 1)
      BY <1>1 DEF CallIs, Copied
    <2>2. progress[t] - 1 = Len(CopyOrder)
      BY <1>1, <2>1, Files
    <2> QED
      BY <1>1, <2>2 DEF CallIs, Copied, Exists, Listing
  <1>4. CASE Listing(Own) # {}
    <2>1. Delete(t, tmp, "delete") /\ UNCHANGED <<fs, progress, installLock>>
      BY <1>4 DEF Commit
    <2>2. pc'[t] = "delete" /\ doomed'[t] = tmp
      BY <1>1, <2>1 DEF Delete, Goto, Shape
    <2>3. FilesMove(t) /\ SetsHonest'
      BY <1>1, <2>1, FilesStay, HonestStays
    <2>4. Continues(t)
      <3>1. /\ pc' \in [Threads -> States] /\ DOMAIN doomed' = Threads /\ DOMAIN todo' = Threads
            /\ \A u \in Threads \ {t} :
                 pc'[u] = pc[u] /\ doomed'[u] = doomed[u] /\ todo'[u] = todo[u]
        BY <1>1, <2>1 DEF Delete, Goto, Shape, States
      <3> QED
        BY <1>1, <2>1, <2>2, <3>1 DEF Continues, Shape
    <2>5. Making(t)' /\ ~Past(t)'
      BY <1>2, <2>2 DEF Making, Past
    <2>6. Loaded(t)' /\ Copied(t)'
      BY <1>2, <2>2, <2>5 DEF Loaded, Copied
    <2>7. disturbed'[t]
      <3>1. Exists(Own)
        BY <1>4 DEF Listing
      <3> QED
        BY <1>1, <3>1 DEF CallIs, Alone, Shape
    <2> QED
      BY <1>1, <1>2, <2>1, <2>2, <2>3, <2>4, <2>5, <2>6, <2>7, ContinuingStep
  <1>5. CASE Listing(Own) = {}
    <2>1. /\ fs' = With(Without(fs, tmp), Own, fs[tmp])
          /\ progress' = [progress EXCEPT ![t] = 1] /\ Goto(t, "load") /\ Unlock(t)
          /\ UNCHANGED <<doomed, todo>>
      BY <1>5 DEF Commit
    <2>2. pc'[t] = "load" /\ progress'[t] = 1
      BY <1>1, <2>1 DEF Goto, Shape
    <2>3. /\ DOMAIN fs' = (DOMAIN fs \ {tmp}) \cup {Own} /\ fs'[Own] = fs[tmp]
          /\ \A d \in DOMAIN fs : d # tmp /\ d # Own => fs'[d] = fs[d]
      BY <2>1 DEF With, Without, Restrict
    <2>4. FilesMove(t)
      BY <1>1, <1>2, <2>3, Names DEF FilesMove
    <2>5. ASSUME NEW f \in ModelFiles PROVE f \in DOMAIN fs[tmp] /\ fs[tmp][f] = version
      <3>1. PICK i \in 1..Len(ModelFileList) : f = ModelFileList[i]
        BY Files
      <3>2. i \in 1..Len(CopyOrder) /\ f = CopyOrder[i]
        BY <3>1, Files
      <3> QED
        BY <1>3, <3>2
    <2>6. SetsHonest'
      <3> SUFFICES ASSUME NEW v \in 1..MaxVersion, NEW f \in ModelFiles,
                          SetDir(v) \in DOMAIN fs', f \in DOMAIN fs'[SetDir(v)]
                   PROVE  fs'[SetDir(v)][f] = v
        BY DEF SetsHonest, Listing, Exists
      <3>1. CASE v = version
        BY <2>3, <2>5, <3>1 DEF Own
      <3>2. CASE v # version
        <4>1. SetDir(v) # Own /\ SetDir(v) \in Sets
          BY <3>2, Names DEF Own, Sets
        <4>2. SetDir(v) \in DOMAIN fs /\ fs'[SetDir(v)] = fs[SetDir(v)]
          BY <1>2, <2>3, <4>1
        <4> QED
          BY <1>1, <4>2 DEF SetsHonest, Listing, Exists
      <3> QED
        BY <3>1, <3>2
    <2>7. Continues(t)
      <3>1. /\ pc' \in [Threads -> States] /\ progress' \in [Threads -> Nat \ {0}]
            /\ \A u \in Threads \ {t} : pc'[u] = pc[u] /\ progress'[u] = progress[u]
        BY <1>1, <2>1 DEF Goto, Shape, States
      <3>2. installLock' = [installLock EXCEPT ![home[t]] = NoThread]
        BY <1>2, <2>1 DEF Unlock
      <3>3. installLock' \in [Processes -> Threads \cup {NoThread}]
        BY <1>1, <3>2 DEF Shape
      <3>4. ASSUME NEW u \in Threads \ {t}, installLock[home[u]] = u
            PROVE  installLock'[home[u]] = u
        BY <1>1, <1>2, <3>2, <3>4 DEF Shape
      <3> QED
        BY <1>1, <2>1, <2>2, <3>1, <3>3, <3>4 DEF Continues, Shape
    <2>8. ~Making(t)' /\ ~Past(t)' /\ Copied(t)'
      BY <2>2 DEF Making, Past, Copied
    <2>9. Loaded(t)'
      <3>1. {ModelFileList[i] : i \in 1..(1 - 1)} = {} /\ 1 \in 1..(Len(ModelFileList) + 1)
        <4>1. 1..(1 - 1) = {}
          OBVIOUS
        <4> QED
          BY <4>1, Files
      <3>2. <<>> = [f \in {ModelFileList[i] : i \in 1..(1 - 1)} |-> version']
        BY <3>1
      <3> QED
        BY <1>2, <2>2, <2>8, <3>1, <3>2 DEF Loaded
    <2>10. ASSUME ~disturbed'[t]
           PROVE  CachedModelsValid(version)' /\ \A u \in Threads : ~Making(u)'
      <3>1. ASSUME NEW u \in Threads, Making(u)' PROVE FALSE
        <4>1. u # t /\ Making(u)
          BY <1>2, <2>7, <2>8, <3>1 DEF Making, Continues
        <4>2. home[u] = home[t]
          BY <1>1, <2>10, <4>1 DEF CallIs, Alone, Making, Active
        <4>3. installLock[home[u]] = u
          BY <4>1 DEF IInv, CallIs, Wellformed
        <4> QED
          BY <1>2, <4>1, <4>2, <4>3
      <3>2. \A i \in 1..Len(CopyOrder) : fs[tmp][CopyOrder[i]] = version
        BY <1>1, <1>3, <2>10
      <3>3. fs[tmp]["manifest"] = version /\ fs[tmp]["marker"] = version
        <4>1. Len(CopyOrder) \in Nat /\ Len(ModelFileList) + 1 \in 1..Len(CopyOrder)
              /\ Len(ModelFileList) + 2 \in 1..Len(CopyOrder)
          BY Files
        <4> QED
          BY <3>2, <4>1, Files
      <3>4. version # Partial
        BY <1>1, Names DEF Shape, Partial
      <3>5. DOMAIN CopyOrder = 1..Len(CopyOrder)
        BY Files
      <3>6. CachedModelsValid(version)'
        BY <1>1, <1>2, <1>3, <2>3, <2>5, <3>3, <3>4, <3>5
        DEF CachedModelsValid, Exists, Listing, Own
      <3> QED
        BY <3>1, <3>6
    <2> QED
      BY <1>1, <2>2, <2>4, <2>6, <2>7, <2>8, <2>9, <2>10, ContinuingStep
  <1> QED
    BY <1>4, <1>5

-----------------------------------------------------------------------------
(* An engine is made *)

LEMMA LoadFileStep ==
  ASSUME IInv, NEW t \in Threads, LoadFile(t)
  PROVE  IInv'
  <1> DEFINE f == ModelFileList[progress[t]]
             n == Len(ModelFileList)
             first(k) == {ModelFileList[i] : i \in 1..k}
  <1>1. /\ Shape /\ CallIs(t) /\ SetsHonest /\ SetsHonest' /\ FilesMove(t) /\ Active(t)
        /\ pc[t] = "load" /\ progress[t] <= n
        /\ UNCHANGED <<home, version, fs, disturbed, calls>>
    BY FilesStay, HonestStays DEF IInv, LoadFile, Active
  <1>2. /\ progress[t] \in 1..n /\ n \in Nat /\ f \in ModelFiles
        /\ loaded[t] = [g \in first(progress[t] - 1) |-> version]
    <2>1. /\ progress[t] \in 1..(n + 1)
          /\ loaded[t] = [g \in first(progress[t] - 1) |-> version]
      BY <1>1 DEF CallIs, Loaded
    <2> QED
      BY <1>1, <2>1, Files
  <1>3. CASE f \notin Listing(Own)
    <2>1. Leave(t, "failed") /\ UNCHANGED loaded
      BY <1>3 DEF LoadFile
    <2>2. ASSUME ~disturbed[t] PROVE FALSE
      <3>1. Listing(Own) = {CopyOrder[i] : i \in DOMAIN CopyOrder}
        BY <1>1, <2>2 DEF CallIs, Alone, CachedModelsValid, Own
      <3>2. progress[t] \in DOMAIN CopyOrder /\ CopyOrder[progress[t]] = f
        BY <1>2, Files
      <3> QED
        BY <1>3, <3>1, <3>2
    <2>3. DOMAIN loaded' = Threads /\ disturbed' \in [Threads -> BOOLEAN]
      BY <1>1, <2>1 DEF Shape
    <2> QED
      BY <1>1, <2>1, <2>2, <2>3, EndOfCall
  <1>4. CASE f \in Listing(Own)
    <2>1. /\ loaded' = [loaded EXCEPT ![t] = With(@, f, fs[Own][f])]
          /\ progress' = [progress EXCEPT ![t] = @ + 1]
          /\ UNCHANGED <<pc, installLock, doomed, todo, victims, outcome>>
      BY <1>4 DEF LoadFile
    <2>2. fs[Own][f] = version
      BY <1>1, <1>2, <1>4 DEF SetsHonest, Own, Shape
    <2>3. progress'[t] = progress[t] + 1 /\ loaded'[t] = With(loaded[t], f, version)
      BY <1>1, <2>1, <2>2 DEF Shape
    <2>4. With(loaded[t], f, version) = [g \in first(progress[t] - 1) \cup {f} |-> version]
      <3> HIDE DEF f, first
      <3> QED
        BY <1>2 DEF With
    <2>5. first(progress[t] - 1) \cup {f} = first(progress[t])
      <3>1. 1..progress[t] = (1..(progress[t] - 1)) \cup {progress[t]}
        BY <1>2
      <3> QED
        BY <3>1
    <2>6. Loaded(t)'
      <3>1. progress'[t] \in 1..(n + 1) /\ progress'[t] - 1 = progress[t]
        BY <1>2, <2>3
      <3>2. loaded'[t] = [g \in first(progress'[t] - 1) |-> version']
        BY <1>1, <2>3, <2>4, <2>5, <3>1
      <3>3. pc'[t] = "load" /\ outcome'[t] = "none"
        BY <1>1, <2>1 DEF CallIs, Wellformed
      <3> QED
        BY <3>1, <3>2, <3>3 DEF Loaded, Making, Past
    <2>7. Continues(t)
      <3>1. /\ progress' \in [Threads -> Nat \ {0}] /\ DOMAIN loaded' = Threads
            /\ \A u \in Threads \ {t} : progress'[u] = progress[u] /\ loaded'[u] = loaded[u]
        BY <1>1, <1>2, <2>1 DEF Shape
      <3> QED
        BY <1>1, <2>1, <3>1 DEF Continues, Shape
    <2>8. ~Making(t)' /\ ~Past(t)' /\ Copied(t)' /\ pc'[t] = "load"
      BY <1>1, <2>1 DEF Making, Past, Copied
    <2>9. ASSUME ~disturbed'[t]
          PROVE  CachedModelsValid(version)' /\ \A u \in Threads : ~Making(u)'
      <3>1. CachedModelsValid(version) /\ \A u \in Threads : ~Making(u)
        BY <1>1, <2>9 DEF CallIs, Alone
      <3>2. CachedModelsValid(version)'
        BY <1>1, <3>1 DEF CachedModelsValid, Exists, Listing
      <3>3. \A u \in Threads : ~Making(u)'
        BY <1>1, <2>1, <3>1 DEF Making, Own
      <3> QED
        BY <3>2, <3>3
    <2> QED
      BY <1>1, <2>6, <2>7, <2>8, <2>9, ContinuingStep
  <1> QED
    BY <1>3, <1>4

-----------------------------------------------------------------------------
(* Calls begin, processes die *)

LEMMA CallStep ==
  ASSUME IInv, NEW t \in Threads, Call(t)
  PROVE  IInv'
  <1> DEFINE others == {u \in Threads : Active(u) /\ home[u] # home[t]}
  <1>1. /\ Shape /\ ~Active(t) /\ UNCHANGED <<home, version, fs, installLock, place>>
        /\ calls' = [calls EXCEPT ![t] = @ + 1] /\ pc' = [pc EXCEPT ![t] = "enter"]
        /\ outcome' = [outcome EXCEPT ![t] = "none"] /\ loaded' = [loaded EXCEPT ![t] = <<>>]
        /\ disturbed' = [u \in Threads |->
             IF u = t THEN others # {} ELSE disturbed[u] \/ u \in others]
    BY DEF IInv, Call, Goto
  <1> HIDE DEF others
  <1>2. Shape'
    <2>1. pc' \in [Threads -> States] /\ calls' \in [Threads -> Nat]
      BY <1>1 DEF Shape, States
    <2>2. disturbed' \in [Threads -> BOOLEAN]
      <3>1. \A u \in Threads : (IF u = t THEN others # {} ELSE disturbed[u] \/ u \in others) \in BOOLEAN
        OBVIOUS
      <3> QED
        BY <1>1, <3>1
    <2> QED
      BY <1>1, <2>1, <2>2 DEF Shape, place
  <1>3. SetsHonest' /\ Own' = Own
    BY <1>1, HonestStays DEF IInv, Own
  <1>4. pc'[t] = "enter" /\ outcome'[t] = "none" /\ loaded'[t] = <<>> /\ pc[t] = "idle"
    BY <1>1 DEF Shape, Active
  <1>5. progress'[t] = 1
    BY <1>1, <1>4 DEF IInv, CallIs, Loaded, place
  <1>6. disturbed'[t] <=> others # {}
    BY <1>1
  <1>7. \A u \in Threads \ {t} :
          /\ pc'[u] = pc[u] /\ calls'[u] = calls[u] /\ outcome'[u] = outcome[u]
          /\ loaded'[u] = loaded[u] /\ (disturbed'[u] <=> disturbed[u] \/ u \in others)
    BY <1>1 DEF Shape
  <1>8. CallIs(t)'
    <2>1. ~Making(t)' /\ ~Past(t)'
      BY <1>4 DEF Making, Past
    <2>2. Wellformed(t)' /\ Copied(t)' /\ Loaded(t)' /\ Pruned(t)'
      BY <1>4, <1>5, <2>1 DEF Wellformed, Copied, Loaded, Pruned
    <2>3. ASSUME ~disturbed'[t], NEW u \in Threads, Active(u)' PROVE home'[u] = home'[t]
      BY <1>1, <1>6, <1>7, <2>3 DEF others, Active
    <2>4. Alone(t)'
      BY <1>4, <2>3 DEF Alone
    <2> QED
      BY <2>2, <2>4 DEF CallIs
  <1>9. ASSUME NEW u \in Threads \ {t} PROVE CallIs(u)'
    <2>1. /\ UNCHANGED <<home, version, fs, installLock, doomed, todo, progress, victims>>
          /\ CallIs(u) /\ (disturbed[u] => disturbed'[u])
          /\ pc'[u] = pc[u] /\ calls'[u] = calls[u] /\ outcome'[u] = outcome[u]
          /\ loaded'[u] = loaded[u] /\ Own' = Own
      BY <1>1, <1>3, <1>7 DEF IInv, place
    <2>2. /\ (Making(u)' <=> Making(u)) /\ (Past(u)' <=> Past(u)) /\ (Active(u)' <=> Active(u))
          /\ Temporary(u)' = Temporary(u)
      BY <2>1 DEF Making, Past, Active, Temporary
    <2>3. \A d : (Exists(d)' <=> Exists(d)) /\ Listing(d)' = Listing(d)
      BY <2>1 DEF Exists, Listing
    <2>4. Wellformed(u)' /\ Loaded(u)'
      BY <2>1, <2>2 DEF CallIs, Wellformed, Loaded
    <2>5. Copied(u)'
      BY <2>1, <2>2, <2>3 DEF CallIs, Copied
    <2>6. Pruned(u)'
      BY <2>1, <2>2, <2>3 DEF CallIs, Pruned
    <2>7. Alone(u)'
      <3> SUFFICES ASSUME Active(u), ~disturbed'[u] PROVE Alone(u)'
        BY <2>2 DEF Alone
      <3>1. home[u] = home[t] /\ ~disturbed[u]
        BY <1>7 DEF others
      <3>2. \A v \in Threads : Active(v)' => home'[v] = home'[u]
        BY <1>7, <2>1, <3>1 DEF CallIs, Alone, Active
      <3>3. \A v \in Threads : Making(v)' => Making(v)
        BY <1>4, <1>7, <2>1 DEF Making
      <3>4. pc[u] = "load" => CachedModelsValid(version)' /\ \A v \in Threads : ~Making(v)'
        <4>1. pc[u] = "load" => CachedModelsValid(version) /\ \A v \in Threads : ~Making(v)
          BY <2>1, <3>1 DEF CallIs, Alone
        <4>2. CachedModelsValid(version) => CachedModelsValid(version)'
          BY <2>1, <2>3 DEF CachedModelsValid
        <4> QED
          BY <3>3, <4>1, <4>2
      <3> QED
        BY <2>1, <2>2, <2>3, <3>1, <3>2, <3>4 DEF CallIs, Alone
    <2> QED
      BY <2>4, <2>5, <2>6, <2>7 DEF CallIs
  <1> QED
    BY <1>2, <1>3, <1>8, <1>9 DEF IInv

\* The calls of some processes are over; only the package of all may be another one.
LEMMA DieStep ==
  ASSUME IInv, NEW dying, Die(dying), UNCHANGED <<home, fs, loaded, disturbed, calls>>,
         version' \in 1..MaxVersion,
         version' = version \/ \A t \in Threads : home[t] \in dying
  PROVE  IInv'
  <1>1. /\ Shape /\ SetsHonest
        /\ pc' = [t \in Threads |-> IF home[t] \in dying THEN "idle" ELSE pc[t]]
        /\ doomed' = [t \in Threads |-> IF home[t] \in dying THEN SetDir(1) ELSE doomed[t]]
        /\ todo' = [t \in Threads |-> IF home[t] \in dying THEN {} ELSE todo[t]]
        /\ progress' = [t \in Threads |-> IF home[t] \in dying THEN 1 ELSE progress[t]]
        /\ victims' = [t \in Threads |-> IF home[t] \in dying THEN {} ELSE victims[t]]
        /\ outcome' = [t \in Threads |-> IF home[t] \in dying THEN "none" ELSE outcome[t]]
        /\ installLock' = [p \in Processes |-> IF p \in dying THEN NoThread ELSE installLock[p]]
    BY DEF IInv, Die, Forget
  <1>2. Shape'
    <2>1. pc' \in [Threads -> States] /\ progress' \in [Threads -> Nat \ {0}]
      BY <1>1 DEF Shape, States
    <2>2. installLock' \in [Processes -> Threads \cup {NoThread}]
      BY <1>1 DEF Shape
    <2> QED
      BY <1>1, <2>1, <2>2 DEF Shape
  <1>3. SetsHonest'
    BY <1>1, HonestStays
  <1>4. ASSUME NEW t \in Threads, home[t] \in dying PROVE CallIs(t)'
    <2>1. pc'[t] = "idle" /\ progress'[t] = 1 /\ outcome'[t] = "none"
      BY <1>1, <1>4
    <2>2. ~Making(t)' /\ ~Past(t)' /\ ~Active(t)'
      BY <2>1 DEF Making, Past, Active
    <2> QED
      BY <2>1, <2>2 DEF CallIs, Wellformed, Copied, Loaded, Alone, Pruned
  <1>5. ASSUME NEW t \in Threads, home[t] \notin dying PROVE CallIs(t)'
    <2>1. /\ CallIs(t) /\ home[t] \in Processes /\ Own' = Own
          /\ UNCHANGED <<home, version, fs, loaded, disturbed, calls>>
          /\ pc'[t] = pc[t] /\ doomed'[t] = doomed[t] /\ todo'[t] = todo[t]
          /\ progress'[t] = progress[t] /\ victims'[t] = victims[t] /\ outcome'[t] = outcome[t]
          /\ installLock'[home[t]] = installLock[home[t]]
      BY <1>1, <1>5 DEF IInv, Shape, Own
    <2>2. /\ (Making(t)' <=> Making(t)) /\ (Past(t)' <=> Past(t)) /\ (Active(t)' <=> Active(t))
          /\ Temporary(t)' = Temporary(t)
      BY <2>1 DEF Making, Past, Active, Temporary
    <2>3. \A d : (Exists(d)' <=> Exists(d)) /\ Listing(d)' = Listing(d)
      BY <2>1 DEF Exists, Listing
    <2>4. Wellformed(t)' /\ Loaded(t)'
      BY <2>1, <2>2 DEF CallIs, Wellformed, Loaded
    <2>5. Copied(t)' /\ Pruned(t)'
      BY <2>1, <2>2, <2>3 DEF CallIs, Copied, Pruned
    <2>6. CachedModelsValid(version) => CachedModelsValid(version)'
      BY <2>1, <2>3 DEF CachedModelsValid
    <2>7. \A u \in Threads : (Active(u)' => Active(u)) /\ (Making(u)' => Making(u))
      BY <1>1, <2>1 DEF Active, Making
    <2>8. Alone(t)'
      BY <2>1, <2>2, <2>3, <2>6, <2>7 DEF CallIs, Alone
    <2> QED
      BY <2>4, <2>5, <2>8 DEF CallIs
  <1> QED
    BY <1>2, <1>3, <1>4, <1>5 DEF IInv

-----------------------------------------------------------------------------
(* The invariant, and the theorems *)

LEMMA StepInvariant == IInv /\ [Next]_vars => IInv'
  <1> SUFFICES ASSUME IInv, [Next]_vars PROVE IInv'
    OBVIOUS
  <1>1. ASSUME NEW t \in Threads, Call(t) PROVE IInv'
    BY <1>1, CallStep
  <1>2. ASSUME NEW t \in Threads, Enter(t) \/ Replace(t) PROVE IInv'
    BY <1>2, EnterStep, ReplaceStep
  <1>3. ASSUME NEW t \in Threads, DeleteFile(t) \/ DeleteDirectory(t) \/ DeletionFails(t) PROVE IInv'
    BY <1>3, DeleteFileStep, DeleteDirectoryStep, DeletionFailsStep
  <1>4. ASSUME NEW t \in Threads, MakeTemporary(t) \/ OpenCopy(t) \/ CloseCopy(t) \/ BadCopy(t)
        PROVE  IInv'
    BY <1>4, MakeTemporaryStep, OpenCopyStep, CloseCopyStep, BadCopyStep
  <1>5. ASSUME NEW t \in Threads, Commit(t) \/ LoadFile(t) PROVE IInv'
    BY <1>5, CommitStep, LoadFileStep
  <1>6. ASSUME NEW t \in Threads, NoTemporary(t) \/ LoadFails(t) PROVE IInv'
    BY <1>6, FailuresKeep
  <1>7. ASSUME NEW t \in Threads, ListOldSets(t) \/ Prune(t) \/ Return(t) PROVE IInv'
    BY <1>7, ListOldSetsStep, PruneStep, ReturnStep
  <1>8. ASSUME NEW p \in Processes, Crash(p) PROVE IInv'
    <2>1. version' \in 1..MaxVersion /\ version' = version /\ Die({p})
          /\ UNCHANGED <<home, fs, loaded, disturbed, calls>>
      BY <1>8 DEF Crash, IInv, Shape
    <2> QED
      BY <2>1, DieStep
  <1>9. ASSUME Upgrade PROVE IInv'
    <2>1. version' \in 1..MaxVersion /\ Die(Processes)
          /\ UNCHANGED <<home, fs, loaded, disturbed, calls>>
      BY <1>9 DEF Upgrade
    <2>2. \A t \in Threads : home[t] \in Processes
      BY DEF IInv, Shape
    <2> QED
      BY <2>1, <2>2, DieStep
  <1>10. ASSUME UNCHANGED vars PROVE IInv'
    <2>1. /\ UNCHANGED <<home, version, fs, installLock, pc, doomed, todo, progress, victims,
                         loaded, outcome, disturbed, calls>>
          /\ Own' = Own /\ \A t : Temporary(t)' = Temporary(t)
      BY <1>10 DEF vars, place, Own, Temporary
    <2>2. Shape' /\ SetsHonest'
      BY <2>1, HonestStays DEF IInv, Shape
    <2>3. /\ \A d : (Exists(d)' <=> Exists(d)) /\ Listing(d)' = Listing(d)
          /\ \A t : (Making(t)' <=> Making(t)) /\ (Past(t)' <=> Past(t)) /\ (Active(t)' <=> Active(t))
      BY <2>1 DEF Exists, Listing, Making, Past, Active
    <2>4. CachedModelsValid(version) => CachedModelsValid(version)'
      BY <2>1, <2>3 DEF CachedModelsValid
    <2>5. ASSUME NEW t \in Threads PROVE CallIs(t)'
      <3>1. CallIs(t)
        BY DEF IInv
      <3>2. Wellformed(t)' /\ Loaded(t)'
        BY <2>1, <2>3, <3>1 DEF CallIs, Wellformed, Loaded
      <3>3. Copied(t)' /\ Pruned(t)'
        BY <2>1, <2>3, <3>1 DEF CallIs, Copied, Pruned
      <3>4. Alone(t)'
        BY <2>1, <2>3, <2>4, <3>1 DEF CallIs, Alone
      <3> QED
        BY <3>2, <3>3, <3>4 DEF CallIs
    <2> QED
      BY <2>2, <2>5 DEF IInv
  <1> QED
    BY <1>1, <1>2, <1>3, <1>4, <1>5, <1>6, <1>7, <1>8, <1>9, <1>10 DEF Next

LEMMA Invariant == Spec => []IInv
  <1> QED
    BY InitInvariant, StepInvariant, PTL DEF Spec

\* An engine is made from the verified model files of its own package: what is
\* installed and loaded is the package's, whoever died or deleted it on the way.
THEOREM EnginesAreVerified == Spec => []LoadedIsVerified
  <1>1. IInv => LoadedIsVerified
    BY DEF IInv, CallIs, Loaded, LoadedIsVerified
  <1> QED
    BY <1>1, Invariant, PTL

\* A create fails only if it met an I/O error, or another process at work: the
\* remains of dead processes and of earlier packages are never in its way.
THEOREM RemainsAreHarmless == Spec => []AloneSucceeds
  <1>1. IInv => AloneSucceeds
    BY DEF IInv, CallIs, Pruned, AloneSucceeds
  <1> QED
    BY <1>1, Invariant, PTL

\* A create that met neither has removed the sets of all other packages.
THEOREM OnlyOwnSetLeft == Spec => []OldSetsPruned
  <1>1. IInv => OldSetsPruned
    BY DEF IInv, CallIs, Pruned, OldSetsPruned
  <1> QED
    BY <1>1, Invariant, PTL
==============================================================================
