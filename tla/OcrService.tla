------------------------------ MODULE OcrService -----------------------------
(***************************************************************************)
(* What lw_ocr_run_bgr_u8 promises its caller (ppocr/ocr.c): a call ends   *)
(* with an error and untouched buffers, or it reports every readable line  *)
(* of its own image in reading order: exact required capacities to a       *)
(* capacity query and to a caller whose buffers are too small, the lines   *)
(* and their texts, back to back, to a caller whose buffers suffice.       *)
(***************************************************************************)
EXTENDS Naturals, SequencesExt

CONSTANTS
  Images,      \* images as the detector sees them: sequences of boxes
  Capacities   \* the caller's buffers; NoBuffers asks for the capacities only

VARIABLES
  request,     \* the call in progress, or NoRequest
  response,    \* status and required capacities of the last call
  buffers      \* what the last call wrote to the caller's buffers

vars == <<request, response, buffers>>

NoBuffers == [lines |-> 0, text |-> 0]
NoRequest == [open |-> FALSE, image |-> <<>>, capacity |-> NoBuffers]
NoResponse == [status |-> "none", lines |-> 0, text |-> 0]
Failure == [status |-> "error", lines |-> 0, text |-> 0]
Untouched == [lines |-> <<>>, text |-> <<>>]

\* Boxes too small to crop are skipped; the others are lines, in the detector's order.
LineBoxes(image) ==
  LET kept == {b \in DOMAIN image : image[b].kind # "degenerate"}
  IN [i \in 1..Cardinality(kept) |->
        CHOOSE b \in kept : Cardinality({c \in kept : c < b}) = i - 1]

\* The text the recognizer reads in box b of the request's image.
TextOf(r, b) == [k \in 1..r.image[b].length |-> <<b, k>>]

TextUpTo(r, n) ==
  FlattenSeq([i \in 1..n |-> TextOf(r, LineBoxes(r.image)[i])])

Lines(r) ==
  [i \in 1..Len(LineBoxes(r.image)) |->
     LET b == LineBoxes(r.image)[i]
     IN [box |-> b, offset |-> Len(TextUpTo(r, i - 1)),
         length |-> r.image[b].length]]

Text(r) == TextUpTo(r, Len(LineBoxes(r.image)))

Init == request = NoRequest /\ response = NoResponse /\ buffers = Untouched

Call(image, capacity) ==
  /\ request = NoRequest
  /\ request' = [open |-> TRUE, image |-> image, capacity |-> capacity]
  /\ response' = NoResponse
  /\ buffers' = Untouched

Fail ==
  /\ request # NoRequest
  /\ request' = NoRequest
  /\ response' = Failure
  /\ UNCHANGED buffers

Fits(r) == Len(Lines(r)) <= r.capacity.lines /\ Len(Text(r)) <= r.capacity.text

Succeed ==
  /\ request # NoRequest
  /\ \A b \in DOMAIN request.image : request.image[b].kind # "huge"
  /\ request' = NoRequest
  /\ LET query == request.capacity = NoBuffers
     IN /\ response' = [status |-> IF query \/ Fits(request) THEN "ok" ELSE "short",
                        lines |-> Len(Lines(request)), text |-> Len(Text(request))]
        /\ buffers' = IF ~query /\ Fits(request)
                      THEN [lines |-> Lines(request), text |-> Text(request)]
                      ELSE buffers

Next ==
  \/ \E image \in Images, capacity \in Capacities : Call(image, capacity)
  \/ Fail
  \/ Succeed

\* What a caller may see.
Safety == Init /\ [][Next]_vars

\* A call returns, with one outcome or the other.
Spec == Safety /\ WF_vars(Fail \/ Succeed)
==============================================================================
