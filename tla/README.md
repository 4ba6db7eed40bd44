# TLA+ models of lw.PPOCR

lw.PPOCR is a small OCR runtime in C: it loads PP-OCR models in its own format
(LWM), executes their graphs with scalar and SIMD kernels, and chains text
detection, line classification and line recognition into a full-OCR call.
Bindings and demos for Android, Java, .NET, the browser and an HTTP server sit on
top of the C API in `include/lw_infer.h`. This directory holds TLA+
specifications of the parts whose correctness depends on interleavings, on
failures half way, on the order of steps or on index arithmetic, the TLC
configurations that check them, and TLAPS proofs about thirteen of them.

Paths below are relative to the repository's root.

## 1. Inventory

### Runtime (`src/runtime`)

| Component | State | Operations | Hard behaviour | What makes it correct |
|---|---|---|---|---|
| Thread pool, `parallel.c` | one mutex, two condition variables, `worker_count`, `active_worker_count`, `pending_worker_count`, `generation`, `stopping`, callback and context | create, run, free, `worker_loop` | workers late for a run or sleeping through one; wakeups between test and wait; creation that stops short; freeing with idle workers | no lost wakeup; one callback per slice and run; the caller outlives every callback; no thread after free |
| Workspace planner, `memory.c` | sorted free list, per tensor offset, birth and last use | `lw_plan_workspace` once per session | lifetimes off by one, block merging, word overflow, limit | live tensors never overlap; no byte lost; list fits its array |
| Session, `session.c` | tensors, workspace, prepared weights behind a plain reference count | create, share constants, set threads, free | the count is changed by concurrent worker threads | constants live as long as a session uses them, and no longer |
| Executor, `executor.c` | none of its own; the tensors' values in the workspace | execute f32, fused GELU and CTC tails, convolutions sliced over the pool | skipping nodes whose results must be private; in-place reuse of planned ranges; slices that select another kernel than the whole node | a fused or sliced run computes what the nodes would |
| Model, validation, shapes, `model.c`, `validate.c`, `shape.c` | model bytes, reference count | load, validate, infer shapes | every offset and count comes from the file | nothing outside the file is read; shapes agree with kernels |
| CPU topology, `cpu_topology.c` | none | detection, default thread counts | caps and fallbacks | counts stay in range |

### OCR pipeline (`src/ppocr`)

| Component | State | Operations | Hard behaviour | What makes it correct |
|---|---|---|---|---|
| Full OCR, `ocr.c` | detector, one classifier and recognizer per worker, crops, schedule, atomic claim counter, scratch lines and text | create, run, setters, free | worker threads of one request share scratch memory without locks; failing thread creation; failing models; capacity queries | every line exactly once; nothing written after the join; all or nothing is published |
| Recognizer, `recognizer.c` | active and cached session with buffers, widths | create, clone, recognize, free | width switch that fails; two sessions swapped; shared constants released concurrently | a usable session at all times, at the right width |
| Detector, `detector.c` | session and two tensors for the current input size, thread count, reading order | create, detect, setters, free | session replaced when the size changes, every step of which may fail | the old session kept whole on failure, nothing leaked |
| Classifier, preprocessing | one session | classify | none | |
| Post-processing, crop, `db_postprocess.c`, `crop.c` | scratch bitmap | boxes from a probability map | flood fill, hull of boundary pixels only, smallest rectangle, capacity | every region visited once, its box encloses it |
| Reading order, `reading_order.c` | none | insertion sorts, grouping into columns | comparison with tolerance, which is not transitive; columns whose centre moves as they grow | a permutation; lines or columns in order |
| CTC decoding, `ctc_decode.c` | dictionary with a reference count | decode in four variants | capacity, repeats, blanks | all variants agree |

### Kernels, bindings, applications

`src/kernels` and `src/simd` are numeric, but what a kernel computes is discrete: which
products it adds, in which order, and which lanes, tiles, tails and padded edges its
loops reach. More than thirty convolution kernels must agree on it, and with the
reference loops, since the build forbids contraction so that all of them give the same
bits. `android/lw-ppocr-android` has a native registry of engines used
from arbitrary Java threads (`lw_android_jni.c`) and a Kotlin engine
(`LwPpocr.kt`) that adds a lock per engine and installs model files into the
app's storage (copy, rename, prune). `web` has a C API with global state
(`lw_web_api.c`), and a promise-based SDK around a web worker
(`lw_ppocr_sdk.template.js`), which falls back to the page's thread.
`examples/http-server` serialises
requests on one engine with a mutex. `examples/java-jni`,
`examples/csharp-*` and `android/demo*` are thin. `converter`, `tools` and
`tests` are offline programs. `PROJECT.json` lists each component with its status.

### How they interact

`lw_ocr_run_bgr_u8` runs the detector on the caller's thread, whose session may
use the thread pool for single convolutions; then it starts one thread per
active worker, each of which calls its classifier and recognizer (sessions without
a pool). Recognizers switch widths, which creates and frees sessions, plans
workspaces and touches the reference count of constants shared by all workers of
the handle. The Android bridge guards all of that with its registry.

## 2. The modules

| Module | Models | Kind |
|---|---|---|
| `ParallelFor` | what `lw_thread_pool_run` promises | abstract |
| `ThreadPool` | `parallel.c` | detailed, implements `ParallelFor` |
| `ThreadPoolProofs` | theorems about `ThreadPool` | proofs |
| `OcrService` | what `lw_ocr_run_bgr_u8` promises | abstract |
| `OcrRun` | `ocr.c`, one handle serving requests | detailed, implements `OcrService` |
| `OcrRunProofs` | theorems about `OcrRun` | proofs |
| `RecognizerPool` | the recognizers of one handle: `recognizer.c`, the shared block of `session.c`, create and free of `ocr.c` | detailed |
| `RecognizerPoolProofs` | theorems about `RecognizerPool` | proofs |
| `WorkspacePlanner` | `memory.c` | algorithm as a state machine |
| `GraphExecutor` | the node loop and fusions of `executor.c` | detailed, on top of `WorkspacePlanner` |
| `SessionProofs` | theorems about `WorkspacePlanner`, `GraphExecutor` and `ConvNode` | proofs |
| `AndroidRegistry` | `lw_android_jni.c` | detailed |
| `AndroidRegistryProofs` | theorems about `AndroidRegistry` | proofs |
| `ConvKernels` | the loops of the convolution kernels: `scalar_conv.c`, `packed_conv*.c`, `simd/` | operators |
| `ConvNode` | one convolution node: kernel selection, packing, slices over the pool | detailed, over `ConvKernels` |
| `BatchedMatMul` | `lw_scalar_matmul_f32` with batch axes | algorithm as a state machine |
| `DbPostprocess` | `db_postprocess.c` | operators |
| `ReadingOrder` | `reading_order.c` | operators |
| `Detector` | `detector.c`, over the two | detailed |
| `LineReader` | the recognizer's last nodes and `ctc_decode.c` | detailed |
| `PageReader` | a detector beside a recognizer | composition |
| `PageReaderProofs` | theorems about `Detector`, `DbPostprocess`, `ReadingOrder` and `LineReader` | proofs |
| `ModelInstall` | the installation in `LwPpocr.kt` | detailed, with the file system |
| `ModelInstallProofs` | theorems about `ModelInstall` | proofs |
| `WebEngine` | `lw_web_api.c`: one WebAssembly instance | operators |
| `WebSdk` | `lw_ppocr_sdk.template.js` | detailed, over `WebEngine` |
| `WebSdkProofs` | theorems about `WebSdk` | proofs |
| `MC...` | the instances for TLC | |

Operators marked "Mutant of X" are variants of the definition X with a plausible
bug. No specification uses them; replacing X by its mutant makes TLC report a
violation of the property named for it in `PROJECT.json`, which shows that
the property depends on that piece of the code.

### ThreadPool

A critical section of the pool's mutex never blocks except in a condition wait, which
gives the mutex up; so every critical section up to a wait or the unlock is one
action, and so is what happens between two of them. `cpc` is where the caller is,
`wpc[w]` where pool thread `w` is. "asleep" is inside `pthread_cond_wait`; a
broadcast, a signal or a spurious wakeup moves a thread to the head of its while
loop ("ready", "collect"), where it tests the condition again under the mutex.
`Post` is the first critical section of `lw_thread_pool_run`, `CallerCallback` the
caller's own slice, `CallerSleep` and `RunReturn` its wait loop; `WorkerTake` copies
the run and decides whether the worker takes part, `WorkerReport` decrements the
counter and signals. Pool creation starts threads one by one (`SpawnWorker`), may
stop at any point (`CreateReturn`, or `Stop` when there is no thread at all) and
threads run as soon as they are started. `context` and `calls` are histories of
which run a callback belongs to: the context pointer of the code points into the
caller's frame, and is identified with the run. The generation is a 64-bit counter
and is not wrapped. The calls come from one owner, as in the code: a session
is not used concurrently.

`Abstract == INSTANCE ParallelFor` maps "the caller is inside a run" to `running`.

### OcrRun

`Prepare` stands for everything the caller's thread does before the first worker
starts: detection, crop geometry (degenerate boxes are skipped, an oversized one
refuses the image), the crops, the schedule (widest first, ties in reading order),
the reservations and the reset of the tasks: no other thread is alive. An image is
given as the detector sees it, a sequence of boxes with their kind, the
recognizer width they need and the number of bytes of their text with its
terminating NUL. The workers' claim of a line (reserved slot or atomic increment)
is one action, the whole of classification and recognition another, because a
worker writes only slots of its own in between; that these slots are disjoint is
not assumed: texts are written cell by cell into the scratch text, where an
overlapping slot would overwrite another line (`SlotsIntact`, and its mutant
`NarrowSlots`). `SpawnFails` is a failing `pthread_create`, after which
the caller runs that worker's task before it goes on (`InlineReturns`).
A worker's model may fail at any line (`ProcessFails`), with its recognizer at the
old or the new width, and an unfinished text in the line's slot when it was the decoder. Scratch memory survives between requests; a new call replaces
its contents by markers (`NoLine`, `Blank`), which no correct request can publish,
so that a stale value is visible without keeping earlier images in the state.

`OcrService` has three actions: a call, a complete answer (all lines in reading
order with consecutive text offsets; only required capacities for a query; short
buffers untouched), and an error with untouched buffers.

### RecognizerPool

The unsynchronised `ref_count` is split into the accesses a build makes: the load
used by the test against 1, the load used by the decrement (a compiler may reuse the
first or load again: both are offered), and the store. Everything else a worker does
to its own recognizer is private and one action per step: the decision (same width,
cached width, or evict and build), the build, which may fail, and the execution, which
reads the active session. `TargetWidth` is `adaptive_target_width`; lines are
given by their scaled width. Create may fail after any recognizer and then
frees what exists (`BeginFree` in phase "create").

### WorkspacePlanner

The sorted array of free blocks is the set of its blocks: first fit takes the one
with the smallest offset, and merging looks for neighbours on both sides. `Release`
frees expired tensors in the order of their indices, as the scan does; `Allocate`
and `Overflow` are one round of the inner loop. Sizes are natural numbers and the
word is `0..MaxWord`: the overflow checks of the code are guards, and that
no sum leaves the word is part of `PlanSound`.

### GraphExecutor

The module extends `WorkspacePlanner`, which runs first, on the same graph: a session is
planned once and then executed any number of times. The workspace is an array of
cells; a cell holds `<<t, i>>`, the correct element `i` of tensor `t`, or `Junk`.
What an earlier execution left is marked `Junk` when the next one begins, so that reading
it shows. `RunNode` is one kernel of `dispatch_node`: it may read its inputs at any time
while it writes, so its output is correct only if the inputs are correct and
remain so under the writing. The GELU kernel is the exception: its source is
released, in the plan, before its output is placed, so the two may overlap on
purpose, and the model follows its loop vector by vector (`GeluRound`; the tail
element by element). `IsChain` and `Private` are the matching conditions, `NodeLimit` and
`FinishProjection` the fusion of the last MatMul and Add into the greedy CTC
search. Whether the processor has AVX2 is chosen initially. Kernel arithmetic is
left out: that the fused kernels round as the separate ones do is not claimed.

The nodes of a graph are in execution order: none reads what it or a later node produces
(`ExecutionOrder`). Nothing in the runtime checks that, and the executor relies on it. The
converter guarantees it: it writes the nodes in the order of a graph that
`onnx.checker.check_model` has accepted (`converter/lwm_v0.py`), which refuses a graph that is
not sorted.

### AndroidRegistry

A critical section of `g_registry_mutex` is one action; the call mutex of an engine
is a variable of its own because it is taken after the registry mutex is released.
An engine is named by its token. A call is `Acquire`, `LockCall`, `UnlockCall` (the
OCR call lies between them), `ReleaseEngine`; a destroy is `Destroy`, waits with
`Recheck`, and `FreeEngine`. The Kotlin engine above serialises its own calls per
engine; the native layer is modelled for arbitrary threads, which is what it is
written for.

### ConvKernels and ConvNode

The value of an output element is its bias and the *sequence* of the taps added to it, a
tap being the address of a weight and the place of an input. That keeps what floating
point tells apart (which products, in which order) and leaves out the numbers. A
kernel operator gives the set of values its loops store in one element: one
value if the element is reached once. Addresses are offsets into the arrays the kernel
is given, so that a wrong pointer shows as a wrong tap. Unsigned subtraction wraps.
The four vector instruction sets differ in the number of lanes, in the ranges
swept by vectors and in the tails; `UnitKernel`, `Stride2Kernel`, `PlaneSweep` and the
like say how a family of kernels sweeps its output, and one operator per C function
instantiates them. `FastPaths` is the order of the tests in `lw_scalar_conv2d_f32`;
`PackedWeights` is the array the session fills for packed kernels.

`ConvNode` composes them with the executor: `Dispatch` computes the number of workers, every
`RunSlice(w)` runs the kernel dispatch again on a convolution of its own, in any
order (`ThreadPool` shows that each slice runs once), `Join` and `RunSerial` end the node.
How AVX2 loads the columns of a stride-2 kernel (shuffles over a buffer) is not
modelled: an element is taken to be the one its address says.

### BatchedMatMul

One action is one round of the loop over the output's matrices; `MatrixOf` is the loop over
the axes. A product is the pair of the numbers of the two matrices.

### DbPostprocess, ReadingOrder and Detector

`DbPostprocess` follows the code from the bitmap to the corners with exact integers: a length
along a direction is kept times the direction's length, an area times its square, so
that every comparison of the code has an integer form. Where floats would round, the
model does not; equal areas are decided by the order of the hull's edges, as in the code.
`ReadingOrder` has the two sorts with their tolerances and tie-breaks, and the columns
with their running means. `Detector` is the handle: `Ensured` gives every outcome of
`ensure_session`, with the heap as the set of objects allocated, so a leak or a
tensor freed twice shows; `Detect` is the whole of `lw_detector_detect_bgr_u8`. An image is
given by its size and the probability map its graph finds, or, to study
orders without drawing maps, by the boxes found.

### LineReader and PageReader

`LineReader` takes a line as the features that enter the last MatMul. `Logits` follows
the plain, the tiled and the packed product by their addresses; `FusedBest` the panel-wise
choice of the fused kernel; `Softmax` and `EmittedSoftmax` the two softmaxes, a probability
being kept as the logits it is computed from; `Measured` and `WrittenAtOnce` the decoders with
one and two passes. The decoders for probabilities and for best classes share `Pass`: the code
has the loop twice, and `BestOf` is the difference. At a *spoiled* step some logit is infinite or no
number. `Outcomes` leaves open which class the kernels then choose and whether the Softmax
comes out as a number (it depends on the value, its column and the vector lanes);
`lw_ctc_greedy_softmax_contiguous_f32` looks at every logit first and fails in the graph (`LogitsChecked`), the
fused projection and the full Softmax hand the step on to the decoder. There `Pass` ends with
INVALID_ARGUMENT at the first value that is no number (of the steps at which a character is emitted, for the greedy classes). `Measured` then
has not touched the caller's buffer; `WrittenAtOnce`, taken for every buffer of at least
`info.max_text_capacity` bytes, leaves there what it has written: an unfinished text.
`RecognitionFails` is a failure before the decoder is called. `PageReader` puts a detector
and a recognizer side by side; they share no state, and its steps keep one of them
fixed while the other works, to bound the state space (`FirstRecognizer`).

### ModelInstall

One file operation is one action, and threads of two processes interleave between any
two. A directory maps its files to contents: the version they are from, `Partial` for one that
is being written, `Corrupt` for bytes that fail the check. `modelInstallLock` is one
lock per process; a death (`Crash`) and a replacement of the package by a newer or older
one (`Upgrade`, which kills all its processes) free locks and leave files. `deleteRecursively`
lists names once and deletes them in any order, so that a half-deleted set may be any
part of it. The file system is external: rename succeeds onto nothing or onto an empty
directory. `isCachedModelsValid` reads in one step.

### WebEngine and WebSdk

`WebEngine` gives the adapter's functions as operators on one instance: its engine with its
reading order, and its heap, whose freed addresses are given out again. `WebSdk` has
two event loops, the page's and the worker's, joined by two queues: one turn up to the next
`await` is one action. A promise that settles is remembered (`greeting`, `recognition.reply`),
and whoever awaits it goes on in a later turn (`WorkerAnswered`, `RunAnswered`), so that
`PageDestroys` can come in between. `OnError` is an error event of the worker, after
which a worker whose script runs may still answer. A failing initialisation is
modelled at each of its steps (`Opened(r, steps)`).

## 3. Runs

| Run | Instance | Distinct states | Question |
|---|---|---|---|
| `thread_pool` | 4 threads, 2 pooled runs per pool | 109 thousand | do runs, creation and destruction ever lose a wakeup, a slice or a thread? |
| `ocr_run` | 3 workers, 4 images of up to 4 lines, 4 buffer sizes | 62 thousand | does every request give the exact answer, or an error and nothing? |
| `recognizer_pool` | 3 recognizers, 3 line widths | 413 thousand | is the shared block freed too early, or a width switch unsound? |
| `recognizer_leak` | the same | violation | is the shared block always freed? No. |
| `workspace_planner` | all graphs of 4 nodes, 6 tensors, 2 sizes; 2 limits; 4-bit word | 476 thousand | can a plan overlap, leak or overflow? |
| `graph_executor` | 96 graphs of 7 to 11 nodes; vectors of 2 elements; with and without AVX2 | 17 thousand | does a fusion ever read a value that is gone, or was never written? |
| `android_registry` | 4 threads, 2 engines | 17 thousand | use after free, double free, lost signal? |
| `conv_node` | 61 convolutions, 5 vector levels, 1 to 3 threads | 5 thousand | does any kernel or slicing give another sum than the reference loops? |
| `page_text` | 96 probability maps, 125 pages of 3 and 4 boxes, 4 recognizer graphs, 430 lines of 3 and 4 steps, sound or with step 3 spoiled | 249 thousand | does the handle survive failures, does a box stand for its region and is it the smallest, is the order settled, do all ways to a text agree, what does a failing decoder leave in the buffer? |
| `model_install` | 2 threads in 1 or 2 processes, 2 model files, 3 creates, 2 faults, 2 replacements | 2.5 million | is an engine ever made from files of another set, half copied or damaged ones, and do remains of the dead get in the way? |
| `websdk` | 3 recognitions of 2 images in 2 orders, 1 worker error, destroy at any time | 55 thousand | does a call get another call's answer, does a destroyed engine come back, does every call settle? |
| `batched_matmul` | up to 2 batch axes of up to 3 | violation | does the portable MatMul broadcast? Not with two batch axes. |

Bounds, and why they are enough:

- `MaxRuns = 2` lets a worker sleep through one run and take part in the next (or the
  other way round), with every pair of widths; four threads give workers outside a
  run next to workers inside it. A new pool starts from a fresh structure, so
  pools do not add up. The theorems of section 4 hold for all values.
- Three OCR workers and four lines give fewer lines than workers, as many, and more
  (the counter is used), two widths give every mix of affine and other reservations; slots
  of two cells suffice to overlap and to be compacted. Any number of
  requests follow one another in one behaviour.
- Three recognizers and three needed widths: a recognizer has two sessions, so the third
  width evicts; three sharers let two lose an update while the third still uses the block.
- Four nodes with two inputs each and one node with two outputs give releases that
  merge on no, one or both sides, splits, exact fits, growth, and both kinds of overflow.
- The executor's graphs put the GELU's source behind an earlier tensor that is smaller, as
  large or larger, so that the output lands on the source, in front of it and partly over it,
  with element counts that are and are not multiples of the vector (`Lanes = 2`, alignment 2);
  the node after the chain reads nothing more, the source, an earlier tensor or a skipped
  temporary (which must prevent the fusion). `MaxWord = 40` cells hold the largest plan.
- Two engines suffice because engines interact only through the list; four
  threads give two calls and two destroys at one engine.

- Convolutions: vectors have 4 and 2 floats, tiles 4 and 2 channels, and for each fast path there
  is a map with a vector part and tails, one too small for the padded edges to be apart, and
  channel counts that are and are not multiples of the tiles. A 2 x 7 map is packed as
  "wide" ones are, a 3 x 5 map has the plane from which square ones are (`LargePlane = 15`).
  Three threads cut slices of different lengths, so that two slices of one node use
  different kernels.
- Maps of 8 x 7 pixels hold regions at each edge, with a notch, a hole, a slanted outline,
  two that touch by a corner, and the empty one; maps of 11 x 6 two or three regions, of which
  `MaxCandidates = 2` are taken. Pages of four boxes have ties, overlaps in part and
  columns that shift their centre.
- Lines of four steps (the tile of four rows) and of three (below it), five classes in three
  panels of two, labels of two, no and three bytes and the space; step 3 is spoiled or none
  (`Spoilings`), so that a decoder fails at the last step or at the last but one, with text written before; the capacities include the longest text, its
  end, one less, and the largest text any line can have, which selects the one-pass decoder.
- Two faults: a set half deleted in one call and disturbed again in the next; three calls of two threads
  give two that overlap and one that comes later; the second replacement may bring the
  first package back, over what the pruning has begun to delete.
- Two sizes of images let the source buffer be reused and grow; one error of the worker makes
  a request be given up and answered later, while another one waits.

Deadlock is checked in `thread_pool`, `ocr_run`, `conv_node` and `page_text`. The other passing runs
really may end: a closed handle, a finished or refused plan, all engines created and destroyed, all
calls made.

Fairness. `ThreadPool` and `OcrRun` assume that a thread which can take a step is
eventually scheduled, and that a callback or a model returns; nothing about
the owner's calls or spurious wakeups, so no liveness property relies on them.
`AndroidRegistry` assumes weak fairness for each thread's steps inside a call or a
destroy. Mutexes need no more: the pool's critical sections are single actions, and
a destroyer waits for calls that already are inside, of which each leaves. `WebSdk` assumes
that both event loops go on: a posted message is delivered, a settled promise continues,
a worker whose script runs answers. Decoding an image ends (`PostRun`, `RunDirect`, unless `PrepareFails` comes first). It assumes
nothing of the page: an image need not be recognized, an engine need not be destroyed. A worker whose
script failed never answers, and the requests it was sent are settled by its error event.

### The findings

`ConstantsReleased` is what `docs/c-api.md` and the comment at `ocr.c:416` say of
ownership and of the independence of recognizers. TLC's shortest counterexample has
two workers inside `release_shared_prepared_constants` together: one decrement is lost
or the block is left by both on the decrementing path, and the handle is freed with the
block still allocated. `NoEarlyFree` and `RefCountCovers` in the run
`recognizer_pool` show that the race cannot go the other way: the count never falls
below the number of sessions that use the block. (A worker that reads a count
of one has stored all decrements there are; every lost update leaves the count too large.)

`MatMulBroadcasts` is the comment above `lw_scalar_matmul_f32`. The loop over the axes splits the
number of an output matrix from the last axis to the first, and puts the numbers of the
input matrices together in the same direction, where it needs the opposite one. With one batch axis longer
than one per operand, which is what the tests have, the two agree; with weights of batch shape
`<<2, 2>>` or `<<2, 3>>` output matrix 1 is computed from matrix 2.

### Differences between documents and code that no run states

- `docs/c-api.md` says recognition performs no heap allocation after creation; a width
  switch creates a session (`recognizer.c`, `configure_session`).
- `docs/c-api.md` says full OCR crops at most `worker_count` lines per batch; the code crops
  all lines, and the detector's thread count is configured separately.

### Code that the models show to be unreachable

The "text scratch capacity is exhausted" error of the compaction (the sum of slots
bounds the texts), "free-list capacity exceeded" in the planner (`FreeListFits`), and
the `closing` test in `acquire_engine` (a closing engine is unlinked in the
same critical section).

## 4. Proofs

TLAPS proves, for every value of the constants that the modules' assumptions allow:

| Module | Theorem | Property |
|---|---|---|
| `ThreadPoolProofs` | `TypeCorrect`, `WakeupsNotLost`, `PendingCorrect`, `CallbacksContained`, `FreeIsFinal` | `TypeOK`, `NoLostWakeup`, `PendingExact`, `CallbackInsideRun`, `NoThreadAfterFree` |
| | `PoolRefinesParallelFor` | the pool implements `ParallelFor` (`Abstract!Safety`) |
| `AndroidRegistryProofs` | `CountsExact`, `NoUseAfterFree`, `SignalsNotLost` | `CallsCounted`, `FreedUnused`, `NoLostSignal` |
| | `TypeCorrect` | `TypeOK`, a part of the invariant; no run has it as a question of its own |
| `RecognizerPoolProofs` | `TypeCorrect`, `BlockIsFreedLast`, `CountCoversOwners`, `WidthCacheIsSound` | `TypeOK`, `NoEarlyFree`, `RefCountCovers`, `WidthCacheSound` |
| `SessionProofs` | `LiveTensorsApart`, `FinishedPlanIsSound`, `FreeListTilesWorkspace`, `FreeListNeverOverflows` | `NoOverlap`, `PlanSound`, `FreeListSound`, `FreeListFits` |
| | `FusionsAreExact`, `FusedWritesAreSafe` | `ResultExact`, `FusedWriteSafe` |
| | `SlicesAreAPartition` | `ChannelHasOneWorker` |
| `PageReaderProofs` | `DetectorIsCoherent` | `DetectorCoherent` |
| | `BoxesStandForRegions`, `OrderIsSettled` | `BoxesAreRegions`, `OrderSettled` |
| | `EveryPathAgrees`, `BuffersAreSafe` | `PathsAgree`, `BufferSafe` |
| `OcrRunProofs` | `TypeCorrect`, `EveryLineOnce`, `NoWorkerOutlives`, `CompactionIsSafe` | `TypeOK`, `EachLineOnce`, `WorkersContained`, `SlotsIntact` |
| | `AnswersAreExact` | the handle implements `OcrService` (`Promise!Safety`) |
| `ModelInstallProofs` | `EnginesAreVerified`, `RemainsAreHarmless`, `OnlyOwnSetLeft` | `LoadedIsVerified`, `AloneSucceeds`, `OldSetsPruned` |
| `WebSdkProofs` | `OwnLines`, `NothingOutlivesDestroy` | `AnswersItsOwnCall`, `DestroyedIsFinal` |

Every proof has the same shape: an inductive invariant (`IInv`, `NodeInv` for `ConvNode`), with a lemma
for the initial states, one for the steps and one that joins them, which implies the property. TLC finds each of them an invariant of
the module's instance of section 3 as well (the planner's with three vectors of sizes, since
the invariant looks at every pair of tensors and every byte).

### What is assumed

Apart from constants being numbers of the right kind: `AndroidRegistry` has finitely many
threads, and neither there nor in `ModelInstall` is one named `NoThread`; the images of
`OcrRun` are sequences of at most `MaxLines` boxes (the detector's candidate limit) whose texts fit
a text slot; a graph of `WorkspacePlanner` is well formed (`IsGraph`: finitely many tensors of
one byte to `MaxWord` bytes, nodes that read and write tensors of the graph); a graph of
`GraphExecutor` is also in execution order (see above) and has one result, without which
the code executes nothing (`executor.c`, `execute_session_f32`); the model files of `ModelInstall` are distinct and none is the
manifest or the marker, as in `LwPpocr.kt`. A node of `ConvNode` has shapes that loading has checked
(`IsNode`). In `Detector` an image has at least one pixel and a map a probability for each pixel, in tenths
(`IsImage`, `IsMap`); boxes have four corners of integers. In `LineReader` a model has at least
one feature and the shapes that loading checks (`IsModel`), the dictionary
at least one label that is not empty, as `lw_rec_dictionary_load` demands, and a line between one and `MaxSteps` steps of integer features. Each assumption is
an `ASSUME` that TLC evaluates on the runs.

### The arguments

**ThreadPool.** The counter alone is not inductive: that it decreases correctly needs
to know which workers still owe a report, and that needs where each worker is and
which generation it has seen. The inductive invariant therefore adds, to the
properties: `pending` counts the set `Outstanding` (workers below the posted width that
have not noticed the generation, or are in the callback or the report); a worker's
observed generation never exceeds the pool's, and a worker in a callback has observed the
current one with its copied job equal to the posted run; outside a run nobody is
outstanding; threads exist exactly below `workerCount`; and while a run is open `calls[w]`
is 1 exactly for the participants that have finished their callback, which
gives the refinement. Every action changes `Outstanding` by at most the acting
worker; lemmas on adding and removing one element of a finite set do the arithmetic.

**AndroidRegistry.** `CallsCounted` and `NoLostSignal` carry each other: the count is
the cardinality of `Inside(e)`, so the last call out sees 1 and signals; a sleeping destroyer thus
always has a call inside that will wake it. `FreedUnused` adds that a linked engine is
not closing, that an engine under destruction is unlinked, and that it has one destroyer.

**RecognizerPool.** The race in `ref_count` loses decrements, so the count is not the number of
owners, and the properties are not inductive: they say nothing of a count that a worker has
loaded and not yet stored. The invariant adds (`WorkerShape`) that such a worker still owns
the block and that what it loaded is at least the number of owners. It stays so because owners only
leave while workers run: the number can fall under a loaded value but not rise above it. A worker that
reads 1 is therefore the only owner, and frees alone. `PhaseShape` and `OneShared` say when
a recognizer has sessions, and that only one of its two is on the block.

**WorkspacePlanner.** That live tensors are apart now says nothing of a finished plan, in which most of them
are dead. `PairsApart` therefore speaks of any two placed tensors that some node needs both, and
is kept because a tensor is placed away from everything live, and what is not live any more is needed
by no later node. `Tiling` says that live tensors and free blocks have every byte of the
workspace once and that no two free blocks touch. Returning a block is one lemma
(`ReleaseMerges`): at most one free block lies on each side, and the merged range touches none.
`FreeListNeverOverflows` maps each free block to the live tensor that ends it.

**GraphExecutor.** The executor needs more of the planner than `PlanSound`: the fused GELU writes the
output of node n + 4 while node n is due, which no liveness rule allows. Three facts make it
right, and the first comes from the planner's algorithm and not from its promise. `FirstFit`: where
the first output of a node overlaps a tensor that the node before used, it starts at or before it
(the range was freed into one block, and an output takes the head of a free block; `JustFreed`).
Everything else that a node after the chain reads is needed at node n + 4 as well, and hence apart from
its output. And the kernel walks forward, so what it overwrites of its source it has read.
`NodesRight(n)` says what is right between two nodes: a tensor that an earlier node
computed and a later one or the caller reads is in its place. `GeluRight` says the same inside
the kernel, with the source right from the current element on and the output right up to it.
The four temporaries the kernel skips are read by nobody later (`Private`), and a chain is never cut by the
greedy tail, since none of its operators is a MatMul or a Softmax.

**ConvNode.** Of m items, thread w of n has those from `(m * w) \div n` on, up to where the next thread begins. The cuts
rise from the first item to the last whatever m and n are, so each channel lies behind exactly one cut that
has the next one above it (the least cut behind the channel). The invariant says that a channel holds the calls of
just those workers that have run and whose slice has the channel.

**OcrRun.** `Holders` says who has which slot of the schedule: its reservation, the counter, or a
result; the affine schedule gives each worker at most one and each slot to at most one (a pigeonhole
argument on the assignment). `SlotsWritten` ties the cells of a slot to the one crop written
there, and `Compacted` says that the texts moved so far are a prefix of the promised text and
everything behind them is untouched; since a text is no longer than its slot, the compaction never
overtakes what it has to move. `AnswersAreExact` maps a request that is under way to `OcrService`'s
open request and shows that every step is a call, an answer, an error or a stutter.

**Detector.** Every step of a rebuilding may fail. `EnsuredIs` says that each outcome either leaves the
handle and the heap as they were or gives a complete handle with nothing else on the heap. The
invariant says what is on the heap, which is finite therefore, so that a new object can always be had that is none of
those in use (`AllocatedIsFresh`, a pigeonhole argument). `DetectedInv` keeps what an answer is about: the image, and the order the handle had then.

**DbPostprocess.** The flood fill is a function of the number of rounds; it ends because rounds that add
a pixel are at most as many as there are pixels, and what it ends with is the least closed set that has the first pixel, so
regions are connected, complete and different. The hull is made of boundary pixels, and only of those
that the two chains keep. Two facts give back what was thrown away. A point taken off a chain is,
in every direction that looks to the chain's side, no farther than one of its two neighbours
(`TakenOff`, `HullCovers`), so the hull reaches as far as its points in every direction. And a region reaches in
no direction farther than its boundary pixels do: the farthest pixel has a neighbour that is farther still and
therefore outside the region (`BoundaryFar`). So the four bounds of a rectangle around the hull, two along an edge and two across it, hold
for every pixel. No edge of the hull has length zero, since the lower chain
rises and the upper one falls in the order of the points. Which of the four sorted corners is the upper left one is decided by
comparisons of two coordinates at a time; since the corners are a rectangle along two orthogonal directions, the four quarters
in which the direction of the edge may lie are the cases of the proof.

**ReadingOrder.** Both sorts are insertion sorts, and are proved as one: what is inserted
goes behind the last item it does not come before, in an arrangement of what was there (`SortArranges`). The line
comparison is asymmetric, not transitive; so neighbours are settled (`SortSettles`) and no more is
true. The order of columns is strict, comparing means by products of sums and counts, and "not after" is
transitive, so all pairs are settled (`SortOrders`) and columns lie together.

**LineReader.** The three products read the same weights: the addresses of the tiled and the packed kernel are
the plain ones, by division with remainder. The fused kernel's best class of a panel and the plain one are both
the first of the largest logits, which there is once; the softmaxes give its probability by the same terms. The
text is the concatenation of the labels of the steps that begin a run, however the decoders count it: `decode_pass` has
after n steps what the first n steps begin, measured or written (`PassIs`), so two passes
and one pass agree on text, size and status, and a buffer that is too small stays as it was. With
spoiled steps a pass ends before the first of them whose value is no number (`SoundUpTo`): its text is a prefix of that of the
path it decodes, which is shorter than `MaxTextCapacity` for any path (`TextFits`), and the text before the first spoiled step is a
prefix of both (`CertainFirst`). Each call leaves an answer of its own, so `PathsAgree` and `BufferSafe` need no strengthening beyond
the types of the model and the level (`LineInv`).
These are inductions over steps, classes and addresses; see below for how they are done.

**ModelInstall.** A directory that has a set's name only loses files, until a thread that holds
its process's lock renames another one to it: `SetsHonest` says that the model files it has are the
right bytes, complete or not. `CallIs(t)` is what thread t relies on, by the point where it is: the
files it has copied so far, what it has loaded, which old sets are still to be deleted; a call that has met nothing
(no I/O error, no other process at work, no new package) is alone with threads of its own process, which the
lock keeps away from its set. That is why remains of the dead do not matter to it, and why they are
gone when it returns.

**WebSdk.** `Asked` says that every request somebody still waits for is about the call that is under
way, wherever it is (the queue to the worker, the worker, the queue back, a settled promise), and that ids
in the queues are below the next one; `Instances` and `Phases` say that an instance's buffers are
separate blocks of its heap and when there is one at all. A late answer has an id nobody waits for.

### Induction

The library's induction theorems have an operator as a parameter, which none of the provers can instantiate.
Functions that are defined by recursion over numbers are reasoned about without them: the
set of numbers below a bound for which a fact does not hold has a least element, if it has any (`LeastExists`, from
the library's theorem on well-founded relations, which takes a set), and
`Upwards` makes this a rule whose parameter is a set. Recursion over a sequence or a number of
rounds is handled by the same rule (`Recursion` gives the trace of such a function).

### What is only model-checked

- Liveness (`EveryCallReturns`, `DestroyReturns`, `EveryCallSettles`, and the fairness part of
  both refinements): the provers handle neither fairness nor ENABLED here.
- `NodeExact` of `ConvNode`: that the sums of some thirty kernels are those of the reference loops. `ConvKernels` gives each
  as sequences of products put together from nested loops, whose order counts. The rule above would have to be applied to every loop of
  every kernel; this is not done, and TLC compares them on 61 convolutions.
- `RectanglesAreSmallest`: that no other direction gives a smaller rectangle around the points of
  the hull is the rotating-calipers theorem of plane geometry, about real directions; TLC compares with the directions of all pairs of pixels.
- `BatchedMatMul`, whose property is refuted.

## 5. Not modelled

- Floating-point values. Kernels are modelled up to the products and their order, the geometry
  of boxes exactly; no run says that a fused or vectorised elementwise function (GELU, exp)
  rounds like its scalar form. Infinities and values that are no numbers occur in `LineReader` only, as
  spoiled steps that give any class and either outcome. The elementwise, layout,
  pooling and reduction kernels are single loops without alternatives.
- Image scaling, cropping and warping (`det_preprocess.c`, `rec_preprocess.c`,
  `cls_preprocess.c`, `crop.c`): float interpolation. The classifier (`classifier.c`) has a
  session and no state between calls.
- Model loading, validation and shape inference (`model.c`, `validate.c`, `shape.c`): one
  condition per field of a file or per operator's rule; a model would repeat them line by line.
- `cpu_topology.c` (parsing what the system reports), `profile.c` (elapsed time).
- Reading the dictionary's file; its reference count is changed only where one thread
  creates and frees a handle.
- The Kotlin engine's lock, which repeats what the JNI registry guarantees; the marshalling of
  bitmaps and results there and in `examples/java-jni`.
- Image decoding in the SDK (one outcome in `WebSdk`), the demo's user interface, the PDF search
  built on it, the HTTP server example (one mutex, a vendored HTTP library), the demos.
- The converter, tools, tests, build files and vendored code.
