------------------------------ MODULE PageReader ------------------------------
(***************************************************************************)
(* The two handles a page goes through: the detector finds the boxes of    *)
(* its lines, the recognizer reads a line.  They share nothing; OcrRun     *)
(* says how the lines are dealt out.                                       *)
(***************************************************************************)
EXTENDS Detector, LineReader

vars == <<detectorVars, lineVars>>

Init == DetectorInit /\ LineInit

\* Bound: the first recognizer only is beside a detector, and its lines are read while
\* there is none.
FirstRecognizer ==
  /\ graph = CHOOSE g \in Graphs : TRUE
  /\ level = CHOOSE l \in LineLevels : TRUE

DetectorStep == FirstRecognizer /\ reading = NoReading /\ DetectorNext /\ UNCHANGED lineVars

LineStep == detector = NoDetector /\ detected = NoAnswer /\ LineNext /\ UNCHANGED detectorVars

Next == DetectorStep \/ LineStep

Spec == Init /\ [][Next]_vars
==============================================================================
