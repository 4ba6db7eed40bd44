----------------------------- MODULE WebEngine -----------------------------
(***************************************************************************)
(* The WebAssembly adapter of the engine (lw_web_api.c) as operators on    *)
(* the state of one instance of the module: its globals and its heap.  The *)
(* SDK keeps such an instance in a worker or on the page's thread.         *)
(***************************************************************************)
EXTENDS Integers, FiniteSets, Functions

NullPointer == 0
NoOcr == -1
HorizontalLtr == 0
Garbage == <<>>

\* The state of an instance: g_ocr (the reading order of the engine, or none),
\* g_native_lines, g_reading_order, and the allocated blocks.
NewInstance == [ocr |-> NoOcr, lines |-> FALSE, order |-> HorizontalLtr, heap |-> <<>>]

Live(e, pointer) == pointer \in DOMAIN e.heap

\* A freed address is given out again as soon as possible.
FreshBlock(e) ==
  CHOOSE p \in 1..Cardinality(DOMAIN e.heap) + 1 :
    /\ ~Live(e, p)
    /\ \A q \in 1..p - 1 : Live(e, q)

lw_web_malloc(e, size) ==
  LET p == FreshBlock(e)
  IN [e EXCEPT !.heap = [q \in DOMAIN @ \cup {p} |->
        IF q = p THEN [size |-> size, data |-> Garbage] ELSE @[q]]]

lw_web_free(e, pointer) == [e EXCEPT !.heap = Restrict(@, DOMAIN @ \ {pointer})]

\* HEAPU8.set
Store(e, pointer, data) ==
  IF Live(e, pointer) THEN [e EXCEPT !.heap[pointer].data = data] ELSE e

release_ocr(e) == [e EXCEPT !.ocr = NoOcr, !.lines = FALSE, !.order = HorizontalLtr]

\* lw_web_init, when every step of it succeeds; a failure releases what there is.
lw_web_init(e) == [release_ocr(e) EXCEPT !.ocr = HorizontalLtr, !.lines = TRUE]
lw_web_init_fails(e) == release_ocr(e)

lw_web_shutdown(e) == release_ocr(e)

lw_web_set_reading_order(e, order) ==
  [e EXCEPT !.order = order, !.ocr = IF @ = NoOcr THEN @ ELSE order]

\* lw_web_get_info returns 0.
HasInfo(e) == e.ocr # NoOcr /\ e.lines

\* lw_web_run accepts its arguments.
RunAccepted(e, lines, text, result) ==
  HasInfo(e) /\ NullPointer \notin {lines, text, result}

\* What a run recognises: the pixels it is given, in the order of the engine.
Recognised(e, source, byteCount) ==
  IF Live(e, source) /\ e.heap[source].size >= byteCount
  THEN <<e.heap[source].data, e.ocr>> ELSE Garbage

lw_web_run(e, source, byteCount, lines, text, result) ==
  LET recognised == Recognised(e, source, byteCount)
  IN Store(Store(Store(e, lines, recognised), text, recognised), result, recognised)

\* The lines of the last run, read back from the three output buffers.
ReadLines(e, lines, text, result) ==
  IF \A p \in {lines, text, result} : Live(e, p) /\ e.heap[p].data = e.heap[result].data
  THEN e.heap[result].data ELSE Garbage
==============================================================================
