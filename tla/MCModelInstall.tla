--------------------------- MODULE MCModelInstall ---------------------------
(* Model-checking instance of ModelInstall: two threads, in one process or in *)
(* two, two model files, two replacements of the package, the second of which *)
(* may bring the first models back, and two faults, so that a set can be half *)
(* deleted when the next create begins.                                       *)
EXTENDS ModelInstall, TLC

CONSTANTS t1, t2, p1, p2

MCThreads == {t1, t2}
MCProcesses == {p1, p2}
MCSymmetry == Permutations(MCThreads) \cup Permutations(MCProcesses)
MCModelFileList == <<"det", "rec">>
MCMaxVersion == 2
MCMaxUpgrades == 2
MCMaxCalls == 3
MCMaxFaults == 2
==============================================================================
