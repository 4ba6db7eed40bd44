---------------------------- MODULE BatchedMatMul ----------------------------
(***************************************************************************)
(* The portable MatMul of two batched tensors (lw_scalar_matmul_f32,       *)
(* scalar_matmul.c), which LW_OP_MATMUL takes when its second input has    *)
(* more than two dimensions: for every matrix of the output it finds the   *)
(* matrix of each input.  A shape is its batch dimensions, outermost first; *)
(* the product of two matrices is the pair of their numbers.               *)
(***************************************************************************)
EXTENDS Integers, Sequences, FiniteSets

CONSTANTS
  MaxBatchRank,  \* bound
  MaxDimension   \* bound

VARIABLES
  input, weights,  \* the batch dimensions of the two inputs
  output           \* the products stored so far

vars == <<input, weights, output>>

Larger(m, n) == IF m > n THEN m ELSE n
BatchRank(s, t) == Larger(Len(s), Len(t))

\* The dimension of shape s on an axis of the output with the given batch rank.
Dimension(s, rank, axis) ==
  IF axis <= rank - Len(s) THEN 1 ELSE s[axis - (rank - Len(s))]

\* The shapes that the kernel and the shape inference accept.
Broadcastable(s, t) ==
  \A axis \in 1..BatchRank(s, t) :
    LET m == Dimension(s, BatchRank(s, t), axis)
        n == Dimension(t, BatchRank(s, t), axis)
    IN m = n \/ m = 1 \/ n = 1

OutputDimension(s, t, axis) ==
  Larger(Dimension(s, BatchRank(s, t), axis), Dimension(t, BatchRank(s, t), axis))

\* How many matrices the axes from the given one on stand for.
Stride(s, t, axis) ==
  LET stride[a \in 1..BatchRank(s, t) + 1] ==
        IF a > BatchRank(s, t) THEN 1 ELSE OutputDimension(s, t, a) * stride[a + 1]
  IN stride[axis]

BatchCount(s, t) == Stride(s, t, 1)

Coordinate(s, t, index, axis) ==
  (index \div Stride(s, t, axis + 1)) % OutputDimension(s, t, axis)

\* The matrix of operand (s or t) which the loop over the axes computes: it begins
\* with the last axis, and multiplies by the dimension of each axis it comes to.
MatrixOf(operand, s, t, index) ==
  LET rank == BatchRank(s, t)
      matrix[axis \in 1..rank + 1] ==
        IF axis > rank THEN 0
        ELSE IF axis <= rank - Len(operand) THEN matrix[axis + 1]
        ELSE matrix[axis + 1] * Dimension(operand, rank, axis)
             + (IF Dimension(operand, rank, axis) = 1 THEN 0 ELSE Coordinate(s, t, index, axis))
  IN matrix[1]

Shapes == UNION {[1..rank -> 1..MaxDimension] : rank \in 0..MaxBatchRank}

Init ==
  /\ input \in Shapes /\ weights \in Shapes \ {<<>>}
  /\ Broadcastable(input, weights)
  /\ output = <<>>

\* One round of the loop over the matrices of the output.
Multiply ==
  LET index == Len(output)
  IN /\ index < BatchCount(input, weights)
     /\ output' = Append(output, <<MatrixOf(input, input, weights, index),
                                   MatrixOf(weights, input, weights, index)>>)
     /\ UNCHANGED <<input, weights>>

Next == Multiply

Spec == Init /\ [][Next]_vars

-----------------------------------------------------------------------------
(* Properties *)

\* The number of the matrix with the given coordinates in a tensor stored row by
\* row, an axis of dimension one being repeated.
RowMajor(operand, s, t, index) ==
  LET rank == BatchRank(s, t)
      number[axis \in 0..rank] ==
        IF axis = 0 THEN 0
        ELSE number[axis - 1] * Dimension(operand, rank, axis)
             + (IF Dimension(operand, rank, axis) = 1 THEN 0 ELSE Coordinate(s, t, index, axis))
  IN number[rank]

\* What the comment above the kernel says of it: "Portable ONNX MatMul for rank >=
\* 2 tensors with broadcast batch dimensions."
MatMulBroadcasts ==
  \A i \in DOMAIN output :
    output[i] = <<RowMajor(input, input, weights, i - 1), RowMajor(weights, input, weights, i - 1)>>
==============================================================================
