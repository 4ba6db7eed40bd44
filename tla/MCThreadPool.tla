---------------------------- MODULE MCThreadPool -----------------------------
(* Model-checking instance of ThreadPool: the caller and three pool threads,  *)
(* pools whose creation may stop short, and pools that serve up to two runs *)
(* of different widths, so that a worker can sleep through one run, be slow   *)
(* to notice another and take part in the next.                               *)
EXTENDS ThreadPool

MCMaxWorkers == 4
MCMaxRuns == 2
==============================================================================
