--------------------------- MODULE MCBatchedMatMul ---------------------------
(* Model-checking instance of BatchedMatMul: up to two batch axes.            *)
EXTENDS BatchedMatMul

MCMaxBatchRank == 2
MCMaxDimension == 3
==============================================================================
