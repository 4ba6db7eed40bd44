------------------------------ MODULE MCOcrRun -------------------------------
(* Model-checking instance of OcrRun: three workers, and images with no line, *)
(* fewer lines than workers, more lines than workers, lines of two widths and *)
(* of different lengths, a box that is skipped and one that is refused; the   *)
(* buffers ask for the capacities, suffice, or lack one line or one byte.     *)
EXTENDS OcrRun

MCWorkerCount == 3
MCMaxLines == 4
MCTextCapacity == 2
MCStartWidth == 2

Line(width, length) == [kind |-> "line", width |-> width, length |-> length]
Degenerate == [kind |-> "degenerate", width |-> 1, length |-> 1]
Huge == [kind |-> "huge", width |-> 2, length |-> 1]

MCImages == {
  <<>>,
  <<Line(1, 2), Degenerate, Line(2, 1)>>,
  <<Line(1, 1), Line(2, 2), Line(1, 2), Line(2, 1)>>,
  <<Line(1, 1), Huge>> }

MCCapacities == {
  [lines |-> 0, text |-> 0], [lines |-> 4, text |-> 6],
  [lines |-> 1, text |-> 6], [lines |-> 4, text |-> 5] }
==============================================================================
