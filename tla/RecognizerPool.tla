--------------------------- MODULE RecognizerPool ----------------------------
(***************************************************************************)
(* The recognizers of one full-OCR handle (ppocr/ocr.c, ppocr/recognizer.c *)
(* and the session part of runtime/session.c).                             *)
(*                                                                         *)
(* Worker 0 owns the first recognizer, the other workers hold clones of    *)
(* it.  A recognizer keeps an active session for one input width and at    *)
(* most one cached session for another.  Every session refers to a block   *)
(* of prepared constants: the sessions the clones start with share worker  *)
(* 0's block, which is reference counted; a session built later for        *)
(* another width has a block of its own.  While a request runs, every      *)
(* worker thread switches the width of its own recognizer when a text line *)
(* needs it, and so frees sessions concurrently with the others.           *)
(*                                                                         *)
(* The shared reference count is a plain uint32_t.  What the threads do to *)
(* it without synchronisation is split into the accesses a build makes:    *)
(* the load that the test against 1 uses, the load that the decrement uses *)
(* (the compiler may use the first one again or load anew), and the store. *)
(***************************************************************************)
EXTENDS Naturals, FiniteSets

CONSTANTS
  WorkerCount,  \* worker_count of the handle
  Buckets,      \* the widths of adaptive_target_width's table
  MaxWidth,     \* target_width, the width every recognizer starts with
  LineWidths    \* bound: the scaled widths of the text lines that occur

ASSUME RecognizerPoolAssumption ==
  /\ WorkerCount \in Nat \ {0}
  /\ MaxWidth \in Nat \ {0}
  /\ Buckets \in SUBSET (Nat \ {0})
  /\ LineWidths \in SUBSET (Nat \ {0})

Workers == 0..(WorkerCount - 1)

VARIABLES
  phase,    \* what the owner of the handle is doing
  built,    \* number of recognizers created so far
  active,   \* active[w]: the recognizer's session
  cached,   \* cached[w]: its cached session, or NoSession
  wpc,      \* where worker w is
  want,     \* want[w]: the width its current line needs
  loaded,   \* loaded[w]: the reference count it has read
  refCount, \* ref_count of the block shared by worker 0's first session
  freed     \* how often that block has been freed

handleVars == <<phase, built>>
vars == <<phase, built, active, cached, wpc, want, loaded, refCount, freed>>

NoSession == [width |-> 0, shared |-> FALSE]
SharedSession(width) == [width |-> width, shared |-> TRUE]
OwnSession(width) == [width |-> width, shared |-> FALSE]

\* adaptive_target_width: the smallest bucket below the maximum that fits.
TargetWidth(scaled) ==
  LET fitting == {b \in Buckets : b < MaxWidth /\ scaled <= b}
  IN IF MaxWidth <= 320 \/ fitting = {} THEN MaxWidth
     ELSE CHOOSE b \in fitting : \A c \in fitting : b <= c

Init ==
  /\ phase = "create" /\ built = 0
  /\ active = [w \in Workers |-> NoSession]
  /\ cached = [w \in Workers |-> NoSession]
  /\ wpc = [w \in Workers |-> "off"]
  /\ want = [w \in Workers |-> 0]
  /\ loaded = [w \in Workers |-> 0]
  /\ refCount = 0 /\ freed = 0

-----------------------------------------------------------------------------
(* lw_ocr_create and lw_ocr_free: the owner's thread, no worker runs *)

\* Mutant of CreateRecognizer: sharing the block does not count the clone.
CloneNotCounted ==
  /\ phase = "create" /\ built < WorkerCount
  /\ active' = [active EXCEPT ![built] = SharedSession(MaxWidth)]
  /\ refCount' = IF built = 0 THEN 1 ELSE refCount
  /\ built' = built + 1
  /\ UNCHANGED <<phase, cached, wpc, want, loaded, freed>>

\* lw_recognizer_create for worker 0, lw_recognizer_clone for the others: the
\* clone frees the block its new session came with and takes the source's.
CreateRecognizer ==
  /\ phase = "create" /\ built < WorkerCount
  /\ active' = [active EXCEPT ![built] = SharedSession(MaxWidth)]
  /\ refCount' = refCount + 1
  /\ built' = built + 1
  /\ UNCHANGED <<phase, cached, wpc, want, loaded, freed>>

CreateReturn ==
  /\ phase = "create" /\ built = WorkerCount
  /\ phase' = "ready"
  /\ UNCHANGED <<built, active, cached, wpc, want, loaded, refCount, freed>>

\* lw_ocr_free; create calls it too when a step fails.
BeginFree ==
  /\ phase \in {"create", "ready"}
  /\ phase' = "free"
  /\ UNCHANGED <<built, active, cached, wpc, want, loaded, refCount, freed>>

\* release_shared_prepared_constants when no other thread is running.
Release(session) ==
  IF ~session.shared THEN UNCHANGED <<refCount, freed>>
  ELSE IF refCount > 1 THEN refCount' = refCount - 1 /\ UNCHANGED freed
  ELSE freed' = freed + 1 /\ UNCHANGED refCount

\* lw_recognizer_free of one worker: the active session, then the cached one.
FreeActive(w) ==
  /\ phase = "free"
  /\ w < built /\ active[w] # NoSession
  /\ \A v \in Workers : v < w => active[v] = NoSession /\ cached[v] = NoSession
  /\ active' = [active EXCEPT ![w] = NoSession]
  /\ Release(active[w])
  /\ UNCHANGED <<handleVars, cached, wpc, want, loaded>>

FreeCached(w) ==
  /\ phase = "free"
  /\ active[w] = NoSession /\ cached[w] # NoSession
  /\ cached' = [cached EXCEPT ![w] = NoSession]
  /\ Release(cached[w])
  /\ UNCHANGED <<handleVars, active, wpc, want, loaded>>

FreeReturn ==
  /\ phase = "free"
  /\ \A w \in Workers : active[w] = NoSession /\ cached[w] = NoSession
  /\ phase' = "closed"
  /\ UNCHANGED <<built, active, cached, wpc, want, loaded, refCount, freed>>

-----------------------------------------------------------------------------
(* A request: the workers recognize lines until none is left, then join *)

BeginRun ==
  /\ phase = "ready"
  /\ phase' = "run"
  /\ wpc' = [w \in Workers |-> "next"]
  /\ UNCHANGED <<built, active, cached, want, loaded, refCount, freed>>

EndRun ==
  /\ phase = "run"
  /\ \A w \in Workers : wpc[w] = "off"
  /\ phase' = "ready"
  /\ UNCHANGED <<built, active, cached, wpc, want, loaded, refCount, freed>>

Goto(w, place) == wpc' = [wpc EXCEPT ![w] = place]

\* configure_session, first part: is there anything to do, and can the cached
\* session be activated?  Otherwise the cached session is released first.
TakeLine(w, scaled) ==
  /\ wpc[w] = "next"
  /\ LET width == TargetWidth(scaled)
     IN /\ want' = [want EXCEPT ![w] = width]
        /\ \/ /\ width = active[w].width
              /\ Goto(w, "execute")
              /\ UNCHANGED <<active, cached>>
           \/ /\ width # active[w].width
              /\ cached[w] # NoSession /\ cached[w].width = width
              /\ active' = [active EXCEPT ![w] = cached[w]]
              /\ cached' = [cached EXCEPT ![w] = active[w]]
              /\ Goto(w, "execute")
           \/ /\ width # active[w].width
              /\ cached[w] = NoSession \/ cached[w].width # width
              /\ Goto(w, IF cached[w].shared THEN "test" ELSE "build")
              /\ cached' = [cached EXCEPT ![w] = IF @.shared THEN @ ELSE NoSession]
              /\ UNCHANGED active
  /\ UNCHANGED <<handleVars, loaded, refCount, freed>>

\* Mutant of TestRefCount: the count is tested against one owner too many.
FreesAtTwo(w) ==
  /\ wpc[w] = "test"
  /\ IF refCount > 2
     THEN /\ loaded' = [loaded EXCEPT ![w] = refCount]
          /\ Goto(w, "decrement")
          /\ UNCHANGED <<cached, freed>>
     ELSE /\ Goto(w, "build")
          /\ freed' = freed + 1
          /\ cached' = [cached EXCEPT ![w] = NoSession]
          /\ UNCHANGED loaded
  /\ UNCHANGED <<handleVars, active, want, refCount>>

\* if (ref_count > 1) ... : the load, and both of its outcomes.
TestRefCount(w) ==
  /\ wpc[w] = "test"
  /\ IF refCount > 1
     THEN /\ loaded' = [loaded EXCEPT ![w] = refCount]
          /\ Goto(w, "decrement")
          /\ UNCHANGED <<cached, freed>>
     ELSE /\ Goto(w, "build")
          /\ freed' = freed + 1
          /\ cached' = [cached EXCEPT ![w] = NoSession]
          /\ UNCHANGED loaded
  /\ UNCHANGED <<handleVars, active, want, refCount>>

\* --ref_count: its operand is what the test loaded, or a second load.
LoadRefCount(w) ==
  /\ wpc[w] = "decrement"
  /\ \E value \in {loaded[w], refCount} : loaded' = [loaded EXCEPT ![w] = value]
  /\ Goto(w, "store")
  /\ UNCHANGED <<handleVars, active, cached, want, refCount, freed>>

StoreRefCount(w) ==
  /\ wpc[w] = "store"
  /\ refCount' = loaded[w] - 1
  /\ loaded' = [loaded EXCEPT ![w] = 0]
  /\ cached' = [cached EXCEPT ![w] = NoSession]
  /\ Goto(w, "build")
  /\ UNCHANGED <<handleVars, active, want, freed>>

\* Mutant of BuildSession: the new session goes to the cache, not the old one.
BuildIntoCache(w) ==
  /\ wpc[w] = "build"
  /\ cached' = [cached EXCEPT ![w] = OwnSession(want[w])]
  /\ Goto(w, "execute")
  /\ UNCHANGED <<handleVars, active, want, loaded, refCount, freed>>

\* The new session is published only when it is complete; the one that was
\* active goes to the cache.
BuildSession(w) ==
  /\ wpc[w] = "build"
  /\ active' = [active EXCEPT ![w] = OwnSession(want[w])]
  /\ cached' = [cached EXCEPT ![w] = active[w]]
  /\ Goto(w, "execute")
  /\ UNCHANGED <<handleVars, want, loaded, refCount, freed>>

\* Any of its allocations or checks fails: the worker ends with an error.
BuildFails(w) ==
  /\ wpc[w] = "build"
  /\ want' = [want EXCEPT ![w] = 0]
  /\ Goto(w, "off")
  /\ UNCHANGED <<handleVars, active, cached, loaded, refCount, freed>>

\* Preprocess, graph and decode read the active session and its constants.
Execute(w) ==
  /\ wpc[w] = "execute"
  /\ want' = [want EXCEPT ![w] = 0]
  /\ Goto(w, "next")
  /\ UNCHANGED <<handleVars, active, cached, loaded, refCount, freed>>

\* No line is left, or the line ended in an error.
WorkerEnd(w) ==
  /\ wpc[w] \in {"next", "execute"}
  /\ want' = [want EXCEPT ![w] = 0]
  /\ Goto(w, "off")
  /\ UNCHANGED <<handleVars, active, cached, loaded, refCount, freed>>

Next ==
  \/ CreateRecognizer \/ CreateReturn \/ BeginFree \/ FreeReturn
  \/ BeginRun \/ EndRun
  \/ \E w \in Workers :
       \/ FreeActive(w) \/ FreeCached(w)
       \/ \E s \in LineWidths : TakeLine(w, s)
       \/ TestRefCount(w) \/ LoadRefCount(w) \/ StoreRefCount(w)
       \/ BuildSession(w) \/ BuildFails(w) \/ Execute(w) \/ WorkerEnd(w)

Spec == Init /\ [][Next]_vars

-----------------------------------------------------------------------------
(* Properties *)

TypeOK ==
  /\ phase \in {"create", "ready", "run", "free", "closed"}
  /\ built \in 0..WorkerCount
  /\ LET Session == [width : Nat, shared : BOOLEAN]
     IN active \in [Workers -> Session] /\ cached \in [Workers -> Session]
  /\ wpc \in [Workers -> {"off", "next", "test", "decrement", "store",
                          "build", "execute"}]
  /\ want \in [Workers -> Nat] /\ loaded \in [Workers -> 0..WorkerCount]
  /\ refCount \in 0..WorkerCount
  /\ freed \in 0..1

\* The workers whose recognizer has a session on the shared block, leaving out
\* those whose decrement is stored.
Owners == {w \in Workers : active[w].shared \/ cached[w].shared}

\* However the unsynchronised accesses interleave, the block of prepared
\* constants is freed at most once, and then no session refers to it: neither
\* one that executes nor one waiting in a cache to be activated again.
NoEarlyFree == freed > 0 => Owners = {}

\* A lost update can only make the count too large: it never falls below the
\* number of sessions that still refer to the block.
RefCountCovers == freed = 0 => refCount >= Cardinality(Owners)

\* A recognizer always has a session to work with, also after a width switch
\* that failed half way; its cached session has another width, so that neither
\* width is ever built twice; and a line is recognized at its own width.
WidthCacheSound ==
  \A w \in Workers :
    phase \in {"ready", "run"} =>
      /\ active[w] # NoSession
      /\ cached[w].width # active[w].width
      /\ wpc[w] = "execute" => active[w].width = want[w]

\* A block that has no owner is freed.  The handle's documentation says it owns
\* its sessions until lw_ocr_free, and that worker threads of one request share
\* no mutable state; the shared reference count breaks both: two workers that
\* leave the block at the same time can lose an update, or both see a count
\* above one, and the block is never freed.
ConstantsReleased == phase = "closed" /\ built > 0 => freed = 1
==============================================================================
