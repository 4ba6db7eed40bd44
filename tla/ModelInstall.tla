---------------------------- MODULE ModelInstall ----------------------------
(***************************************************************************)
(* The Android library installs the model files of its package in the      *)
(* application's private storage before it creates an engine               *)
(* (LwPpocrEngine.createInternal and installModels, LwPpocr.kt): it copies *)
(* them to a temporary directory, checks their digests on the way, writes  *)
(* a marker last and renames the directory.  An installed set is trusted   *)
(* by its marker, its manifest and the lengths of its files.               *)
(*                                                                         *)
(* The threads of a process share modelInstallLock; processes share only   *)
(* the file system, and may die at any time.  One file operation is one    *)
(* action.  The asset set of the package is its version; replacing the     *)
(* package, by one with newer or older models, kills every process.        *)
(* External: the file system (unlink, rmdir of an empty directory, rename  *)
(* onto nothing or an empty directory).                                    *)
(***************************************************************************)
EXTENDS Integers, Sequences, FiniteSets, Functions

CONSTANTS
  Threads, Processes,
  NoThread,       \* the owner of a free lock
  ModelFileList,  \* MODEL_FILES
  MaxVersion,     \* bound: different asset sets
  MaxUpgrades,    \* bound: replacements of the package
  MaxCalls,       \* bound: calls of create
  MaxFaults       \* bound: I/O errors and deaths of a process

ModelFiles == {ModelFileList[i] : i \in DOMAIN ModelFileList}

\* The model files are different files, and none of them is the manifest or the marker.
ASSUME ModelInstallAssumption ==
  /\ NoThread \notin Threads
  /\ ModelFileList \in Seq(ModelFiles) /\ IsInjective(ModelFileList)
  /\ {"manifest", "marker"} \cap ModelFiles = {}
  /\ MaxVersion \in Nat \ {0}
  /\ {MaxUpgrades, MaxCalls, MaxFaults} \subseteq Nat

CopyOrder == ModelFileList \o <<"manifest", "marker">>

\* What a file may hold besides the right bytes of a version.
Partial == 0
Corrupt == -1

SetDir(v) == <<"set", v>>
Sets == {SetDir(v) : v \in 1..MaxVersion}

VARIABLES
  home,         \* the process of a thread; never changes
  version,      \* asset_set_id of the installed package
  fs,           \* the directories that exist; a directory maps its files to contents
  installLock,  \* the owner of a process's modelInstallLock
  pc,
  doomed, todo, \* the directory being deleted, and the files listed in it
  progress,     \* the next file of CopyOrder
  victims,      \* the old sets still to be pruned
  loaded,       \* the files the engine of the current call was made from
  outcome,      \* of the last call: "none", "created" or "failed"
  disturbed,    \* the call met an I/O error or another process at work
  calls,        \* made by each thread so far
  faults, upgrades

place == <<doomed, todo, progress, victims>>
vars == <<home, version, fs, installLock, pc, place, loaded, outcome, disturbed, calls, faults,
          upgrades>>

Init ==
  /\ home \in [Threads -> Processes]
  /\ version = 1
  /\ fs = <<>>
  /\ installLock = [p \in Processes |-> NoThread]
  /\ pc = [t \in Threads |-> "idle"]
  /\ doomed = [t \in Threads |-> SetDir(1)]
  /\ todo = [t \in Threads |-> {}]
  /\ progress = [t \in Threads |-> 1]
  /\ victims = [t \in Threads |-> {}]
  /\ loaded = [t \in Threads |-> <<>>]
  /\ outcome = [t \in Threads |-> "none"]
  /\ disturbed = [t \in Threads |-> FALSE]
  /\ calls = [t \in Threads |-> 0]
  /\ faults = 0 /\ upgrades = 0

Own == SetDir(version)
Temporary(t) == <<"tmp", t, calls[t]>>
Exists(d) == d \in DOMAIN fs
Listing(d) == IF Exists(d) THEN DOMAIN fs[d] ELSE {}
With(f, x, value) == [y \in DOMAIN f \cup {x} |-> IF y = x THEN value ELSE f[y]]
Without(f, x) == Restrict(f, DOMAIN f \ {x})

Active(t) == pc[t] # "idle"
Goto(t, where) == pc' = [pc EXCEPT ![t] = where]

Unlock(t) ==
  installLock' = IF installLock[home[t]] = t
                 THEN [installLock EXCEPT ![home[t]] = NoThread] ELSE installLock

\* The calls of the threads in ended are over.
Forget(ended) ==
  /\ pc' = [t \in Threads |-> IF t \in ended THEN "idle" ELSE pc[t]]
  /\ doomed' = [t \in Threads |-> IF t \in ended THEN SetDir(1) ELSE doomed[t]]
  /\ todo' = [t \in Threads |-> IF t \in ended THEN {} ELSE todo[t]]
  /\ progress' = [t \in Threads |-> IF t \in ended THEN 1 ELSE progress[t]]
  /\ victims' = [t \in Threads |-> IF t \in ended THEN {} ELSE victims[t]]

Leave(t, how) ==
  /\ Forget({t}) /\ Unlock(t)
  /\ outcome' = [outcome EXCEPT ![t] = how]

IOError(t) ==
  /\ faults < MaxFaults /\ faults' = faults + 1
  /\ disturbed' = [disturbed EXCEPT ![t] = TRUE]

-----------------------------------------------------------------------------
(* createInternal: installModels *)

Call(t) ==
  LET others == {u \in Threads : Active(u) /\ home[u] # home[t]}
  IN /\ ~Active(t) /\ SumFunction(calls) < MaxCalls
     /\ calls' = [calls EXCEPT ![t] = @ + 1]
     /\ Goto(t, "enter")
     /\ outcome' = [outcome EXCEPT ![t] = "none"]
     /\ loaded' = [loaded EXCEPT ![t] = <<>>]
     /\ disturbed' = [u \in Threads |->
          IF u = t THEN others # {} ELSE disturbed[u] \/ u \in others]
     /\ UNCHANGED <<home, version, upgrades, fs, installLock, place, faults>>

\* Mutant of CachedModelsValid: the model files are not looked at.
ValidByMarker(v) ==
  /\ Exists(SetDir(v))
  /\ {"marker", "manifest"} \subseteq Listing(SetDir(v))
  /\ fs[SetDir(v)]["marker"] = v /\ fs[SetDir(v)]["manifest"] = v

\* isCachedModelsValid; its reads are one step.
CachedModelsValid(v) ==
  /\ Exists(SetDir(v))
  /\ Listing(SetDir(v)) = {CopyOrder[i] : i \in DOMAIN CopyOrder}
  /\ fs[SetDir(v)]["marker"] = v /\ fs[SetDir(v)]["manifest"] = v
  /\ \A f \in ModelFiles : fs[SetDir(v)][f] # Partial

Delete(t, d, where) ==
  /\ Goto(t, where)
  /\ doomed' = [doomed EXCEPT ![t] = d]
  /\ todo' = [todo EXCEPT ![t] = Listing(d)]

\* installModelsLocked begins.
Enter(t) ==
  /\ pc[t] = "enter" /\ installLock[home[t]] = NoThread
  /\ IF CachedModelsValid(version)
     THEN Goto(t, "load") /\ UNCHANGED installLock
     ELSE Goto(t, "replace") /\ installLock' = [installLock EXCEPT ![home[t]] = t]
  /\ UNCHANGED <<home, version, upgrades, fs, place, loaded, outcome, disturbed, calls, faults>>

\* What is in the way of the new set is deleted, even if another process has
\* completed it since it was found missing.
Replace(t) ==
  /\ pc[t] = "replace"
  /\ IF Exists(Own) THEN Delete(t, Own, "delete")
     ELSE Goto(t, "prepare") /\ UNCHANGED <<doomed, todo>>
  /\ UNCHANGED <<home, version, upgrades, fs, installLock, progress, victims, loaded, outcome,
                 disturbed, calls, faults>>

\* deleteRecursively: the names are listed once, then deleted in any order.
DeleteFile(t) ==
  /\ pc[t] = "delete"
  /\ \E f \in todo[t] :
       /\ todo' = [todo EXCEPT ![t] = @ \ {f}]
       /\ fs' = IF f \in Listing(doomed[t])
                THEN [fs EXCEPT ![doomed[t]] = Without(@, f)] ELSE fs
  /\ UNCHANGED <<home, version, upgrades, installLock, pc, doomed, progress, victims,
                 loaded, outcome, disturbed, calls, faults>>

\* What follows a deletion: a new set is made, the call fails, or pruning goes on.
Deleted(t, ok) ==
  IF doomed[t] \in Sets /\ (doomed[t] = Own => ok)
  THEN /\ Goto(t, IF doomed[t] = Own THEN "prepare" ELSE "prune")
       /\ doomed' = [doomed EXCEPT ![t] = SetDir(1)]
       /\ todo' = [todo EXCEPT ![t] = {}]
       /\ UNCHANGED <<installLock, progress, victims, outcome>>
  ELSE Leave(t, "failed")

\* Its last step removes the directory, if nothing has appeared in it since.
DeleteDirectory(t) ==
  LET empty == Listing(doomed[t]) = {}
  IN /\ pc[t] = "delete" /\ todo[t] = {}
     /\ fs' = IF Exists(doomed[t]) /\ empty THEN Without(fs, doomed[t]) ELSE fs
     /\ Deleted(t, empty)
     /\ UNCHANGED <<home, version, upgrades, loaded, disturbed, calls, faults>>

DeletionFails(t) ==
  /\ pc[t] = "delete"
  /\ IOError(t) /\ Deleted(t, FALSE)
  /\ UNCHANGED <<home, version, upgrades, fs, loaded, calls>>

MakeTemporary(t) ==
  /\ pc[t] = "prepare"
  /\ fs' = With(fs, Temporary(t), <<>>)
  /\ Goto(t, "copy")
  /\ UNCHANGED <<home, version, upgrades, installLock, place, loaded, outcome,
                 disturbed, calls, faults>>

\* temporary.mkdirs() fails.
NoTemporary(t) ==
  /\ pc[t] = "prepare"
  /\ IOError(t) /\ Leave(t, "failed")
  /\ UNCHANGED <<home, version, upgrades, fs, loaded, calls>>

Write(t, contents) == fs' = [fs EXCEPT ![Temporary(t)] = With(@, CopyOrder[progress[t]], contents)]

OpenCopy(t) ==
  /\ pc[t] = "copy" /\ progress[t] <= Len(CopyOrder)
  /\ Write(t, Partial)
  /\ Goto(t, "copying")
  /\ UNCHANGED <<home, version, upgrades, installLock, place, loaded, outcome,
                 disturbed, calls, faults>>

\* Mutant of Verified: the digest is not compared.
NotVerified(f, contents) == TRUE

\* copyAssetVerified; the manifest and the marker are written without a check.
Verified(f, contents) == f \in ModelFiles => contents = version

CloseCopy(t) ==
  /\ pc[t] = "copying"
  /\ Write(t, version)
  /\ progress' = [progress EXCEPT ![t] = @ + 1]
  /\ Goto(t, "copy")
  /\ UNCHANGED <<home, version, upgrades, installLock, doomed, todo, victims,
                 loaded, outcome, disturbed, calls, faults>>

\* The bytes read or written are not those of the asset.
BadCopy(t) ==
  /\ pc[t] = "copying"
  /\ IOError(t) /\ Write(t, Corrupt)
  /\ IF Verified(CopyOrder[progress[t]], Corrupt)
     THEN /\ progress' = [progress EXCEPT ![t] = @ + 1]
          /\ Goto(t, "copy")
          /\ UNCHANGED <<doomed, todo>>
     ELSE /\ Goto(t, "delete")
          /\ doomed' = [doomed EXCEPT ![t] = Temporary(t)]
          /\ todo' = [todo EXCEPT ![t] = DOMAIN fs'[Temporary(t)]]
          /\ UNCHANGED progress
  /\ UNCHANGED <<home, version, upgrades, installLock, victims, loaded, outcome, calls>>

\* temporary.renameTo(directory)
Commit(t) ==
  /\ pc[t] = "copy" /\ progress[t] > Len(CopyOrder)
  /\ IF Listing(Own) = {}
     THEN /\ fs' = With(Without(fs, Temporary(t)), Own, fs[Temporary(t)])
          /\ progress' = [progress EXCEPT ![t] = 1]
          /\ Goto(t, "load") /\ Unlock(t)
          /\ UNCHANGED <<doomed, todo>>
     ELSE /\ Delete(t, Temporary(t), "delete")
          /\ UNCHANGED <<fs, progress, installLock>>
  /\ UNCHANGED <<home, version, upgrades, victims, loaded, outcome, disturbed, calls, faults>>

-----------------------------------------------------------------------------
(* createInternal: nativeCreate and pruneOldCaches *)

LoadFile(t) ==
  LET f == ModelFileList[progress[t]]
  IN /\ pc[t] = "load" /\ progress[t] <= Len(ModelFileList)
     /\ IF f \in Listing(Own)
        THEN /\ loaded' = [loaded EXCEPT ![t] = With(@, f, fs[Own][f])]
             /\ progress' = [progress EXCEPT ![t] = @ + 1]
             /\ UNCHANGED <<pc, installLock, doomed, todo, victims, outcome>>
        ELSE Leave(t, "failed") /\ UNCHANGED loaded
     /\ UNCHANGED <<home, version, upgrades, fs, disturbed, calls, faults>>

\* nativeCreate or nativeSetReadingOrder fails for a reason of its own.
LoadFails(t) ==
  /\ pc[t] = "load"
  /\ IOError(t) /\ Leave(t, "failed")
  /\ UNCHANGED <<home, version, upgrades, fs, loaded, calls>>

\* Mutant of OldSets: only complete sets are old sets.
CompleteOldSets == {d \in Sets \ {Own} : Exists(d) /\ "marker" \in Listing(d)}

\* The directories named after the model, except the active one; the names of
\* temporary directories begin with a dot.
OldSets == {d \in Sets \ {Own} : Exists(d)}

ListOldSets(t) ==
  /\ pc[t] = "load" /\ progress[t] > Len(ModelFileList)
  /\ victims' = [victims EXCEPT ![t] = OldSets]
  /\ Goto(t, "prune")
  /\ UNCHANGED <<home, version, upgrades, fs, installLock, doomed, todo, progress, loaded, outcome,
                 disturbed, calls, faults>>

Prune(t) ==
  /\ pc[t] = "prune"
  /\ \E d \in victims[t] :
       /\ victims' = [victims EXCEPT ![t] = @ \ {d}]
       /\ Delete(t, d, "delete")
  /\ UNCHANGED <<home, version, upgrades, fs, installLock, progress, loaded, outcome,
                 disturbed, calls, faults>>

Return(t) ==
  /\ pc[t] = "prune" /\ victims[t] = {}
  /\ Leave(t, "created")
  /\ UNCHANGED <<home, version, upgrades, fs, loaded, disturbed, calls, faults>>

-----------------------------------------------------------------------------
(* Deaths *)

Die(dying) ==
  /\ Forget({t \in Threads : home[t] \in dying})
  /\ outcome' = [t \in Threads |-> IF home[t] \in dying THEN "none" ELSE outcome[t]]
  /\ installLock' = [p \in Processes |-> IF p \in dying THEN NoThread ELSE installLock[p]]

Crash(p) ==
  /\ faults < MaxFaults /\ faults' = faults + 1
  /\ \E t \in Threads : home[t] = p /\ Active(t)
  /\ Die({p})
  /\ UNCHANGED <<home, version, upgrades, fs, loaded, disturbed, calls>>

Upgrade ==
  /\ upgrades < MaxUpgrades /\ upgrades' = upgrades + 1
  /\ version' \in 1..MaxVersion \ {version}
  /\ Die(Processes)
  /\ UNCHANGED <<home, fs, loaded, disturbed, calls, faults>>

Next ==
  \/ \E t \in Threads :
       \/ Call(t) \/ Enter(t) \/ Replace(t)
       \/ DeleteFile(t) \/ DeleteDirectory(t) \/ DeletionFails(t)
       \/ MakeTemporary(t) \/ NoTemporary(t)
       \/ OpenCopy(t) \/ CloseCopy(t) \/ BadCopy(t) \/ Commit(t)
       \/ LoadFile(t) \/ LoadFails(t) \/ ListOldSets(t) \/ Prune(t) \/ Return(t)
  \/ \E p \in Processes : Crash(p)
  \/ Upgrade

Spec == Init /\ [][Next]_vars

-----------------------------------------------------------------------------
(* Properties *)

\* Whatever died or was deleted on the way, an engine is made from the verified
\* model files of its own package, never from those of another one, from a file
\* copied half way or from bytes that failed the check.
LoadedIsVerified ==
  \A t \in Threads : outcome[t] = "created" =>
    loaded[t] = [f \in ModelFiles |-> version]

\* What dead processes left behind never makes a create fail: it fails only if
\* it met an I/O error itself, or another process that was installing meanwhile.
AloneSucceeds == \A t \in Threads : outcome[t] = "failed" => disturbed[t]

\* A create that met neither leaves no directory of another package, complete
\* or not; the temporary directories of dead processes are never removed.
OldSetsPruned ==
  \A t \in Threads : outcome[t] = "created" /\ ~disturbed[t] =>
    \A d \in Sets \ {Own} : ~Exists(d)
==============================================================================
