-------------------------- MODULE MCAndroidRegistry --------------------------
(* Model-checking instance of AndroidRegistry: four threads and two engines,  *)
(* so that two calls and two destroys can meet at one engine while the other  *)
(* is created, used and destroyed.                                            *)
EXTENDS AndroidRegistry

MCThreads == 1..4
MCNoThread == 0
MCMaxEngines == 2
==============================================================================
