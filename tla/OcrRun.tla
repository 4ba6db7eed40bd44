-------------------------------- MODULE OcrRun -------------------------------
(***************************************************************************)
(* One full-OCR handle serving requests (ppocr/ocr.c): detection, crop     *)
(* geometry, the longest-first schedule, the reservation of a first line   *)
(* for every worker, the worker threads, the join, the compaction of the   *)
(* text slots and the publication.                                         *)
(*                                                                         *)
(* The caller's thread and the worker threads share the schedule's claim   *)
(* counter, an atomic, and otherwise only slots of their own.  The scratch *)
(* memory keeps its contents from one request to the next: a new call      *)
(* turns them into the marker values NoLine and Blank, which no request    *)
(* may publish.  Crops and schedule slots are numbered from 1, so that     *)
(* slot >= count reads slot > count.                                       *)
(***************************************************************************)
EXTENDS Naturals, FiniteSetsExt, SequencesExt

CONSTANTS
  WorkerCount,   \* worker_count of the handle
  MaxLines,      \* max_line_capacity: most boxes the detector returns
  TextCapacity,  \* text_capacity_per_line
  Images,        \* bound: the images (sequences of boxes) that are submitted
  Capacities,    \* bound: the output buffers that callers pass
  StartWidth     \* target width the recognizers are created with

ASSUME OcrRunAssumption ==
  /\ WorkerCount \in Nat \ {0}
  /\ MaxLines \in Nat \ {0}
  /\ TextCapacity \in Nat \ {0}
  /\ StartWidth \in Nat \ {0}
  /\ \A image \in Images :
       /\ image \in Seq([kind : {"line", "degenerate", "huge"}, width : Nat \ {0},
                         length : 1..TextCapacity])
       /\ Len(image) <= MaxLines

Workers == 0..(WorkerCount - 1)
CropIds == 1..MaxLines
Cells == 0..(MaxLines * TextCapacity - 1)

VARIABLES
  pc,            \* where the caller's thread is
  request,       \* the call's parameters
  response,      \* its status and required capacities
  buffers,       \* the caller's line and text buffers
  \* fields of struct lw_ocr
  crops,         \* box index and target width of every crop
  nextSlot,      \* next_crop_slot, the atomic claim counter
  scratchLines,  \* line records, written by the workers
  scratchText,   \* text cells, one slot of TextCapacity cells per crop
  \* worker tasks
  initial,       \* initial[w]: reserved schedule slot, 0 when used up
  failed,        \* failed[w]: the task's status is not OK
  started,       \* the workers that have a thread of their own
  wpc,           \* where worker w is
  slot,          \* slot[w]: the schedule slot it holds
  recWidth,      \* recWidth[w]: width of its recognizer's active session
  \* locals of the caller's thread
  at,            \* spawn loop: next worker; compaction: next line
  textUsed       \* compaction: text_used

requestVars == <<request, response, buffers>>
taskVars == <<initial, failed, started>>
workerVars == <<wpc, slot, recWidth>>
scratchVars == <<scratchLines, scratchText>>
vars == <<pc, request, response, buffers, crops, nextSlot, scratchLines,
          scratchText, initial, failed, started, wpc, slot, recWidth, at, textUsed>>

NoBuffers == [lines |-> 0, text |-> 0]
NoRequest == [open |-> FALSE, image |-> <<>>, capacity |-> NoBuffers]
NoLine == [box |-> 0, offset |-> 0, length |-> 0]
Blank == <<0, 0>>
Untouched == [lines |-> <<>>, text |-> <<>>]
NoLines == [i \in CropIds |-> NoLine]
NoText == [c \in Cells |-> Blank]
Failure == [status |-> "error", lines |-> 0, text |-> 0]

LineCount == Len(crops)

\* Mutant of ActiveWorkers: one more than there are workers.
OneMoreWorker == 0..Min({LineCount, WorkerCount})

ActiveWorkers == 0..(Min({LineCount, WorkerCount}) - 1)

Init ==
  /\ pc = "idle" /\ request = NoRequest
  /\ response = [status |-> "none", lines |-> 0, text |-> 0]
  /\ buffers = Untouched
  /\ crops = <<>> /\ nextSlot = 0
  /\ scratchLines = NoLines /\ scratchText = NoText
  /\ initial = [w \in Workers |-> 0]
  /\ failed = [w \in Workers |-> FALSE]
  /\ started = {}
  /\ wpc = [w \in Workers |-> "off"]
  /\ slot = [w \in Workers |-> 0]
  /\ recWidth = [w \in Workers |-> StartWidth]
  /\ at = 0 /\ textUsed = 0

-----------------------------------------------------------------------------
(* The caller's thread up to the workers *)

Call(image, capacity) ==
  /\ pc = "idle"
  /\ pc' = "prepare"
  /\ request' = [open |-> TRUE, image |-> image, capacity |-> capacity]
  /\ response' = [status |-> "none", lines |-> 0, text |-> 0]
  /\ buffers' = Untouched
  /\ scratchLines' = NoLines /\ scratchText' = NoText
  /\ UNCHANGED <<crops, nextSlot, taskVars, workerVars, at, textUsed>>

Answer(status, lines, text) ==
  /\ pc' = "idle"
  /\ request' = NoRequest
  /\ response' = [status |-> status, lines |-> lines, text |-> text]

\* The detector, a crop's size limits, the growth of the crop buffer or a crop
\* itself fails: the request ends before any worker has started.
PrepareFails ==
  /\ pc = "prepare"
  /\ Answer("error", 0, 0)
  /\ UNCHANGED <<buffers, crops, nextSlot, scratchVars, taskVars, workerVars,
                 at, textUsed>>

\* The boxes that can be cropped, in the detector's (reading) order.
Croppable(image) ==
  LET kept == {b \in DOMAIN image : image[b].kind # "degenerate"}
      box(i) == CHOOSE b \in kept : Cardinality({c \in kept : c < b}) = i - 1
  IN [i \in 1..Cardinality(kept) |-> [box |-> box(i), width |-> image[box(i)].width]]

\* crop_schedule: the widest crop first, of one width the first in order.
Schedule(list) ==
  LET Before(i, j) == \/ list[i].width > list[j].width
                      \/ list[i].width = list[j].width /\ i < j
  IN [k \in DOMAIN list |->
        CHOOSE i \in DOMAIN list :
          Cardinality({j \in DOMAIN list : Before(j, i)}) = k - 1]

\* Mutant of Reserve: a recognizer of the right width is taken again.
AffineOnly(list, workers) ==
  LET same(k) == {w \in workers : recWidth[w] = list[Schedule(list)[k]].width}
      reserve[k \in 0..Cardinality(workers)] ==
        IF k = 0 THEN <<>>
        ELSE LET free == workers \ Range(reserve[k - 1])
             IN Append(reserve[k - 1], Min(IF same(k) # {} THEN same(k) ELSE free))
  IN reserve[Cardinality(workers)]

\* The first slots are reserved one by one, each for the first unused worker
\* whose recognizer has the crop's width, or else for the first unused one.
Reserve(list, workers) ==
  LET same(k) == {w \in workers : recWidth[w] = list[Schedule(list)[k]].width}
      reserve[k \in 0..Cardinality(workers)] ==
        IF k = 0 THEN <<>>
        ELSE LET free == workers \ Range(reserve[k - 1])
             IN Append(reserve[k - 1],
                       Min(IF same(k) \cap free # {} THEN same(k) \cap free ELSE free))
  IN reserve[Cardinality(workers)]

\* Everything up to the first worker: crop geometry, the crops themselves, the
\* schedule, the reservations and the tasks' reset.
Prepare ==
  /\ pc = "prepare"
  /\ \A b \in DOMAIN request.image : request.image[b].kind # "huge"
  /\ LET list == Croppable(request.image)
         workers == 0..(Min({Len(list), WorkerCount}) - 1)
         reserved == Reserve(list, workers)
     IN /\ crops' = list
        /\ nextSlot' = IF list = <<>> THEN nextSlot ELSE Cardinality(workers) + 1
        /\ started' = IF list = <<>> THEN started ELSE {}
        /\ initial' = [w \in Workers |->
             IF w \in Range(reserved) THEN CHOOSE k \in DOMAIN reserved : reserved[k] = w
             ELSE initial[w]]
        /\ failed' = [w \in Workers |-> failed[w] /\ w \notin workers]
        /\ pc' = IF list = <<>> THEN "compact" ELSE "spawn"
  /\ at' = 1 /\ textUsed' = 0
  /\ UNCHANGED <<requestVars, scratchVars, workerVars>>

-----------------------------------------------------------------------------
(* run_worker_tasks: thread creation and the caller's own share *)

Start(w) == wpc' = [wpc EXCEPT ![w] = "claim"]

SpawnThread ==
  /\ pc = "spawn" /\ at \in ActiveWorkers
  /\ started' = started \cup {at}
  /\ Start(at)
  /\ at' = at + 1
  /\ UNCHANGED <<pc, requestVars, crops, nextSlot, scratchVars, initial, failed,
                 slot, recWidth, textUsed>>

\* pthread_create fails: the caller's thread runs that worker's task.
SpawnFails ==
  /\ pc = "spawn" /\ at \in ActiveWorkers
  /\ pc' = "inline"
  /\ Start(at)
  /\ UNCHANGED <<requestVars, crops, nextSlot, scratchVars, taskVars, slot,
                 recWidth, at, textUsed>>

InlineReturns ==
  /\ pc = "inline" /\ wpc[at] = "ended"
  /\ pc' = "spawn"
  /\ at' = at + 1
  /\ UNCHANGED <<requestVars, crops, nextSlot, scratchVars, taskVars, workerVars,
                 textUsed>>

\* Worker zero's task runs on the caller's thread.
RunWorkerZero ==
  /\ pc = "spawn" /\ at \notin ActiveWorkers
  /\ pc' = "join"
  /\ Start(0)
  /\ UNCHANGED <<requestVars, crops, nextSlot, scratchVars, taskVars, slot,
                 recWidth, at, textUsed>>

\* Mutant of Joined: threads that follow a failed creation are not joined.
JoinedPrefix == {w \in started : \A v \in 1..w : v \in started}

Joined == started

\* Mutant of AnyFailed: the caller looks at its own task only.
OwnFailure == failed[0]

AnyFailed == \E w \in ActiveWorkers : failed[w]

JoinWorkers ==
  /\ pc = "join"
  /\ \A w \in Joined \cup {0} : wpc[w] = "ended"
  /\ wpc' = [w \in Workers |-> IF wpc[w] = "ended" THEN "off" ELSE wpc[w]]
  /\ at' = 1
  /\ IF AnyFailed
     THEN Answer("error", 0, 0)
     ELSE pc' = "compact" /\ UNCHANGED <<request, response>>
  /\ UNCHANGED <<buffers, crops, nextSlot, scratchVars, taskVars, slot, recWidth,
                 textUsed>>

-----------------------------------------------------------------------------
(* process_worker_task *)

\* The reserved slot first, then whatever the shared counter hands out.
Claimed(w) == IF initial[w] # 0 THEN initial[w] ELSE nextSlot

Claim(w) ==
  /\ wpc[w] = "claim"
  /\ initial' = [initial EXCEPT ![w] = 0]
  /\ nextSlot' = IF initial[w] # 0 THEN nextSlot ELSE nextSlot + 1
  /\ IF Claimed(w) > LineCount
     THEN wpc' = [wpc EXCEPT ![w] = "ended"] /\ UNCHANGED slot
     ELSE /\ wpc' = [wpc EXCEPT ![w] = "process"]
          /\ slot' = [slot EXCEPT ![w] = Claimed(w)]
  /\ UNCHANGED <<pc, requestVars, crops, scratchVars, failed, started, recWidth,
                 at, textUsed>>

\* Mutant of SlotStart: slots one cell too close to each other.
NarrowSlots(i) == (i - 1) * (TextCapacity - 1)

\* text_offset of crop i in the scratch text.
SlotStart(i) == (i - 1) * TextCapacity

\* The first bytes of a box's text in the slot of crop i.
Stored(i, box, length) ==
  [c \in Cells |-> IF c \in SlotStart(i)..(SlotStart(i) + length - 1)
                   THEN <<box, c - SlotStart(i) + 1>> ELSE scratchText[c]]

\* Classification and recognition of the crop it holds: the text goes to the
\* crop's slot, then the line record is written.
Process(w) ==
  /\ wpc[w] = "process"
  /\ LET i == Schedule(crops)[slot[w]]
         box == crops[i].box
         length == request.image[box].length
     IN /\ scratchText' = Stored(i, box, length)
        /\ scratchLines' = [scratchLines EXCEPT ![i] =
             [box |-> box, offset |-> SlotStart(i), length |-> length]]
        /\ recWidth' = [recWidth EXCEPT ![w] = crops[i].width]
  /\ wpc' = [wpc EXCEPT ![w] = "claim"]
  /\ slot' = [slot EXCEPT ![w] = 0]
  /\ UNCHANGED <<pc, requestVars, crops, nextSlot, taskVars, at, textUsed>>

\* Either model fails, before or after the recognizer has switched its width, or the
\* decoder does, with an unfinished text in the slot (see LineReader).
ProcessFails(w) ==
  /\ wpc[w] = "process"
  /\ failed' = [failed EXCEPT ![w] = TRUE]
  /\ LET crop == Schedule(crops)[slot[w]]
     IN \/ /\ \E width \in {recWidth[w], crops[crop].width} :
               recWidth' = [recWidth EXCEPT ![w] = width]
           /\ UNCHANGED scratchText
        \/ /\ recWidth' = [recWidth EXCEPT ![w] = crops[crop].width]
           /\ \E length \in 0..TextCapacity - 1 :
                scratchText' = Stored(crop, crops[crop].box, length)
  /\ wpc' = [wpc EXCEPT ![w] = "ended"]
  /\ slot' = [slot EXCEPT ![w] = 0]
  /\ UNCHANGED <<pc, requestVars, crops, nextSlot, scratchLines, initial, started,
                 at, textUsed>>

-----------------------------------------------------------------------------
(* Compaction and publication *)

\* memmove within the scratch text.
Moved(from, to, length) ==
  [c \in Cells |-> IF c \in to..(to + length - 1) THEN scratchText[from + (c - to)]
                   ELSE scratchText[c]]

CompactLine ==
  /\ pc = "compact" /\ at <= LineCount
  /\ LET line == scratchLines[at]
     IN /\ scratchText' = Moved(line.offset, textUsed, line.length)
        /\ scratchLines' = [scratchLines EXCEPT ![at].offset = textUsed]
        /\ textUsed' = textUsed + line.length
  /\ at' = at + 1
  /\ UNCHANGED <<pc, requestVars, crops, nextSlot, taskVars, workerVars>>

\* A capacity query writes nothing; neither does a call whose buffers are too
\* small; otherwise lines and text are copied in one go.
Publish ==
  /\ pc = "compact" /\ at > LineCount
  /\ LET query == request.capacity = NoBuffers
         fits == LineCount <= request.capacity.lines /\ textUsed <= request.capacity.text
     IN /\ Answer(IF query \/ fits THEN "ok" ELSE "short", LineCount, textUsed)
        /\ buffers' = IF query \/ ~fits THEN buffers
                      ELSE [lines |-> [i \in 1..LineCount |-> scratchLines[i]],
                            text |-> [k \in 1..textUsed |-> scratchText[k - 1]]]
  /\ UNCHANGED <<crops, nextSlot, scratchVars, taskVars, workerVars, at, textUsed>>

Caller ==
  \/ PrepareFails \/ Prepare
  \/ SpawnThread \/ SpawnFails \/ InlineReturns \/ RunWorkerZero \/ JoinWorkers
  \/ CompactLine \/ Publish

Worker(w) == Claim(w) \/ Process(w) \/ ProcessFails(w)

Next ==
  \/ \E image \in Images, capacity \in Capacities : Call(image, capacity)
  \/ Caller
  \/ \E w \in Workers : Worker(w)

\* Nobody has to call; every thread that can take a step is scheduled, and the
\* models it runs return.
Fairness == WF_vars(Caller) /\ \A w \in Workers : WF_vars(Worker(w))

Spec == Init /\ [][Next]_vars /\ Fairness

-----------------------------------------------------------------------------
(* Properties *)

TypeOK ==
  /\ pc \in {"idle", "prepare", "spawn", "inline", "join", "compact"}
  /\ crops \in Seq([box : 1..MaxLines, width : Nat])
  /\ nextSlot \in Nat
  /\ scratchLines \in [CropIds -> [box : 0..MaxLines, offset : {0} \cup Cells,
                                   length : 0..TextCapacity]]
  /\ initial \in [Workers -> 0..MaxLines]
  /\ failed \in [Workers -> BOOLEAN]
  /\ started \in SUBSET (Workers \ {0})
  /\ wpc \in [Workers -> {"off", "claim", "process", "ended"}]
  /\ slot \in [Workers -> 0..MaxLines]
  /\ recWidth \in [Workers -> Nat]
  /\ at \in 1..(MaxLines + WorkerCount) \cup {0}
  /\ textUsed \in 0..(MaxLines * TextCapacity)

\* The workers that hold a line.
Processing == {w \in Workers : wpc[w] = "process"}

\* No line is lost and none is recognized twice: a crop of the running request
\* is reserved by one worker, held by one worker, waiting behind the counter,
\* recognized, or lost to a worker that failed, and never two of these.
EachLineOnce ==
  pc \in {"spawn", "inline", "join"} =>
    \A k \in 1..LineCount :
      LET recognized == scratchLines[Schedule(crops)[k]] # NoLine
          takers == {w \in Workers : initial[w] = k}
                    \cup {w \in Processing : slot[w] = k}
      IN /\ Cardinality(takers) <= 1
         /\ takers # {} => ~recognized /\ (k < nextSlot)
         /\ k >= nextSlot => ~recognized
         /\ k < nextSlot /\ takers = {} /\ ~recognized => \E w \in Workers : failed[w]

\* Outside run_worker_tasks no worker thread is alive: what the caller compacts,
\* publishes or frees is not written any more, whichever creations failed.
WorkersContained == pc \in {"idle", "prepare", "compact"} => \A w \in Workers : wpc[w] = "off"

\* The compaction never overtakes itself: the destination of the next move does
\* not reach into a slot that is still to be moved, so every line not yet moved
\* has its whole text in its slot, and the scratch text suffices.
SlotsIntact ==
  pc = "compact" =>
    \A i \in at..LineCount :
      LET line == scratchLines[i]
      IN /\ line.box = crops[i].box
         /\ textUsed <= line.offset
         /\ \A k \in 1..line.length : scratchText[line.offset + k - 1] = <<line.box, k>>

Promise == INSTANCE OcrService

\* Every request is answered as OcrService promises: completely and exactly, or
\* with an error and untouched buffers, and eventually.
ImplementsOcrService == Promise!Spec
==============================================================================
