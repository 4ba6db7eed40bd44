-------------------------- MODULE MCRecognizerPool ---------------------------
(* Model-checking instance of RecognizerPool: three workers, the widths of    *)
(* adaptive_target_width's table, and lines that need three of them, so that  *)
(* a recognizer must evict its cached session and all three workers can leave *)
(* the shared block while the others do.                                      *)
EXTENDS RecognizerPool

MCWorkerCount == 3
MCBuckets == {192, 320, 480, 640, 960}
MCMaxWidth == 960
MCLineWidths == {300, 400, 900}
==============================================================================
