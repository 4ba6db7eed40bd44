------------------------------- MODULE ConvNode -------------------------------
(***************************************************************************)
(* One convolution node of the graph, from the executor down to the        *)
(* kernels (runtime/executor.c, kernels/scalar_conv.c and simd/).          *)
(*                                                                         *)
(* A node is run by one of several kernels of a family of thirty-odd: the  *)
(* shape, the processor's vector level, whether the session packed the     *)
(* weights and the number of threads decide which.  With several threads   *)
(* the output channels are cut into slices, every worker of the pool runs  *)
(* the kernel dispatch on a convolution of its own, made of pointers into  *)
(* the tensors and of the number of its channels: so two slices of a node  *)
(* may use different kernels, and all of them must give what the serial    *)
(* code gives.                                                             *)
(*                                                                         *)
(* Every operator named after a C function stands for that function: the   *)
(* values it stores in output element (o, y, x).                           *)
(***************************************************************************)
EXTENDS ConvKernels

CONSTANTS
  Convs,            \* bound: the nodes that occur
  Levels,           \* bound: the vector levels, subset of SimdLevels
  ThreadCounts,     \* bound: the intra-op thread counts of the session
  MinMultiplyAdds,  \* LW_PARALLEL_CONV_MIN_MULTIPLY_ADDS
  LargePlane        \* 256: the plane from which square maps are packed

SimdLevels == {"scalar", "sse2", "avx2", "neon", "lsx"}

\* What validation and shape inference have established of a convolution node.
IsNode(c) ==
  LET Positive == Nat \ {0}
      Pair == Positive \X Positive
  IN c \in [transposed : BOOLEAN, ic : Positive, oc : Positive, groups : Positive,
            in : Pair, out : Pair, k : Pair, s : Pair, d : Pair,
            pads : Nat \X Nat \X Nat \X Nat,
            weights : {0}, input : {0}, bias : {0}, output : {0}]

ASSUME ConvNodeAssumption ==
  /\ \A c \in Convs : IsNode(c)
  /\ Levels \subseteq SimdLevels
  /\ ThreadCounts \subseteq Nat \ {0}
  /\ MinMultiplyAdds \in Nat /\ LargePlane \in Nat

VARIABLES
  conv,     \* the node: a convolution whose pointers are the tensors' starts
  level,    \* lw_detect_simd_level
  threads,  \* intra_op_thread_count of the session
  phase,    \* "ready", "parallel", "serial", "done"
  workers,  \* worker_count of the parallel run
  pending,  \* workers of the pool that have not run their slice
  stores    \* stores[o]: the calls that stored into output channel o

nodeVars == <<conv, level, threads, phase, workers, pending, stores>>

(***************************************************************************)
(* The kernels                                                             *)
(***************************************************************************)
scalar_conv1x1(c, o, y, x) == PlaneSweep(c, o, y, x, <<1>>)
sse2_conv1x1(c, o, y, x) == PlaneSweep(c, o, y, x, <<NarrowLanes, 1>>)
avx2_conv1x1(c, o, y, x) == PlaneSweep(c, o, y, x, <<WideLanes, 1>>)

scalar_depthwise3x3(c, o, y, x) == UnitKernel(c, o, y, x, <<1, 1>>, 1)
sse2_depthwise3x3(c, o, y, x) == UnitKernel(c, o, y, x, <<1, 1>>, NarrowLanes)
avx2_depthwise3x3(c, o, y, x) == UnitKernel(c, o, y, x, <<1, 1>>, WideLanes)
scalar_depthwise3x3_stride2x1(c, o, y, x) == DepthwiseStride2x1(c, o, y, x, 1)
sse2_depthwise3x3_stride2x1(c, o, y, x) == DepthwiseStride2x1(c, o, y, x, NarrowLanes)
avx2_depthwise3x3_stride2x1(c, o, y, x) == DepthwiseStride2x1(c, o, y, x, WideLanes)
scalar_depthwise5x5(c, o, y, x) == TrimmedUnitKernel(c, o, y, x, <<2, 2>>, 1)
sse2_depthwise5x5(c, o, y, x) == TrimmedUnitKernel(c, o, y, x, <<2, 2>>, NarrowLanes)
avx2_depthwise5x5(c, o, y, x) == TrimmedUnitKernel(c, o, y, x, <<2, 2>>, WideLanes)
avx2_depthwise9x9(c, o, y, x) == TrimmedUnitKernel(c, o, y, x, <<4, 4>>, WideLanes)

scalar_conv3x3(c, o, y, x) == UnitKernel(c, o, y, x, <<1, 1>>, 1)
sse2_conv3x3(c, o, y, x) == UnitKernel(c, o, y, x, <<1, 1>>, NarrowLanes)
neon_conv3x3(c, o, y, x) == UnitKernel(c, o, y, x, <<1, 1>>, NarrowLanes)
avx2_conv3x3_four_outputs(c, o, y, x) == UnitTiles(c, o, y, x)
avx2_conv3x3(c, o, y, x) ==
  IF c.oc % Tile4 = 0 THEN avx2_conv3x3_four_outputs(c, o, y, x)
  ELSE UnitKernel(c, o, y, x, <<1, 1>>, WideLanes)

scalar_conv2x2(c, o, y, x) == UnitKernel(c, o, y, x, <<0, 0>>, 1)
sse2_conv2x2_four_outputs(c, o, y, x) == UnitKernel(c, o, y, x, <<0, 0>>, NarrowLanes)
sse2_conv2x2(c, o, y, x) ==
  IF c.oc % Tile4 = 0 THEN sse2_conv2x2_four_outputs(c, o, y, x)
  ELSE UnitKernel(c, o, y, x, <<0, 0>>, NarrowLanes)
avx2_conv2x2_four_outputs(c, o, y, x) == UnitKernel(c, o, y, x, <<0, 0>>, WideLanes)
avx2_conv2x2(c, o, y, x) ==
  IF c.oc % Tile4 = 0 THEN avx2_conv2x2_four_outputs(c, o, y, x)
  ELSE UnitKernel(c, o, y, x, <<0, 0>>, WideLanes)

avx2_conv7x7(c, o, y, x) == UnitKernel(c, o, y, x, <<3, 3>>, WideLanes)
avx2_conv5x5(c, o, y, x) == UnitKernel(c, o, y, x, <<2, 2>>, WideLanes)
avx2_conv_axis(c, o, y, x, pad) == UnitKernel(c, o, y, x, pad, WideLanes)

\* Two columns, then vectors while they end before the last two, then the rest.
avx2_conv5x5_four_outputs(c, o, y, x) ==
  LET rows == (IF y < 2 THEN 2 - y ELSE 0)..((IF y + 2 >= c.in[1] THEN c.in[1] - y + 2 ELSE 5) - 1)
      stop == VectorStop([begin |-> 2, end |-> IF c.in[2] > 2 THEN c.in[2] - 2 ELSE 2],
                         WideLanes, Always)
      inVector == 2 <= x /\ x < stop
      ix(t) == x + t[3] - 2
  IN {Accumulate(c, o,
        LAMBDA t : t[2] \in rows /\ (inVector \/ (ix(t) >= 0 /\ ix(t) < c.in[2])),
        LAMBDA t : y + t[2] - 2, ix)}

scalar_conv3x3_stride2(c, o, y, x) ==
  Stride2Kernel(c, o, y, x, 1, SteppedRange, LAMBDA k, v : TRUE)
sse2_conv3x3_stride2(c, o, y, x) ==
  Stride2Kernel(c, o, y, x, NarrowLanes, LastDroppedRange,
                LAMBDA k, v : WholeRowVector(c, NarrowLanes, k, v))
avx2_conv3x3_stride2_stream(c, o, y, x) ==
  Stride2Kernel(c, o, y, x, WideLanes, LastDroppedRange,
                LAMBDA k, v : WholeRowVector(c, WideLanes, k, v))
avx2_conv3x3_stride2_four_outputs(c, o, y, x) == Stride2Tiles(c, o, y, x)
avx2_conv3x3_stride2_eight_outputs(c, o, y, x) == Stride2Tiles(c, o, y, x)
avx2_conv3x3_stride2(c, o, y, x) ==
  IF c.oc % Tile8 = 0 THEN avx2_conv3x3_stride2_eight_outputs(c, o, y, x)
  ELSE IF c.oc % Tile4 = 0 THEN avx2_conv3x3_stride2_four_outputs(c, o, y, x)
  ELSE IF c.ic > 4 THEN avx2_conv3x3_stride2_stream(c, o, y, x)
  ELSE Stride2Tiles(c, o, y, x)

general_convolution(c, o, y, x) ==
  LET rows == TrimmedWindow(y, c.s[1], c.pads[1], c.d[1], c.k[1], c.in[1])
      columns == TrimmedWindow(x, c.s[2], c.pads[2], c.d[2], c.k[2], c.in[2])
  IN {Accumulate(c, o, LAMBDA t : t[2] \in rows /\ t[3] \in columns,
                 LAMBDA t : y * c.s[1] - c.pads[1] + t[2] * c.d[1],
                 LAMBDA t : x * c.s[2] - c.pads[2] + t[3] * c.d[2])}

(***************************************************************************)
(* Packed kernels: packed is the array lw_pack_conv..._weights filled      *)
(***************************************************************************)
PackedSweep(c, packed, o, y, x, loops) ==
  {ThroughPacked(c, o, packed, Tile4, e) : e \in PlaneSweep(c, o, y, x, loops)}

scalar_packed_conv1x1(c, packed, o, y, x) == PackedSweep(c, packed, o, y, x, <<1>>)
sse2_packed_conv1x1(c, packed, o, y, x) == PackedSweep(c, packed, o, y, x, <<NarrowLanes, 1>>)
neon_packed_conv1x1(c, packed, o, y, x) == PackedSweep(c, packed, o, y, x, <<NarrowLanes, 1>>)
lsx_packed_conv1x1(c, packed, o, y, x) == PackedSweep(c, packed, o, y, x, <<NarrowLanes, 1>>)
\* Two vectors at a time where the block of output channels is full.
avx2_packed_conv1x1(c, packed, o, y, x) ==
  PackedSweep(c, packed, o, y, x,
              IF (o \div Tile4 + 1) * Tile4 <= c.oc THEN <<2 * WideLanes, WideLanes, 1>>
              ELSE <<WideLanes, 1>>)

packed_conv1x1(c, packed, o, y, x) ==
  CASE level = "avx2" -> avx2_packed_conv1x1(c, packed, o, y, x)
    [] level = "neon" -> neon_packed_conv1x1(c, packed, o, y, x)
    [] level = "lsx" -> lsx_packed_conv1x1(c, packed, o, y, x)
    [] level = "sse2" -> sse2_packed_conv1x1(c, packed, o, y, x)
    [] level = "scalar" -> scalar_packed_conv1x1(c, packed, o, y, x)

scalar_packed_conv3x3_stride2(c, packed, o, y, x) ==
  {ThroughPacked(c, o, packed, Tile8, CheckedTaps(c, o, y, x, <<1, 1>>, <<2, 2>>))}
\* Whole blocks only: the channels of an incomplete one are not stored.
avx2_packed_conv3x3_stride2(c, packed, o, y, x) ==
  IF o >= (c.oc \div Tile8) * Tile8 THEN {}
  ELSE {ThroughPacked(c, o, packed, Tile8, e) : e \in Stride2Tiles(c, o, y, x)}

packed_conv3x3_stride2(c, packed, o, y, x) ==
  IF level = "avx2" /\ c.oc % Tile8 = 0 THEN avx2_packed_conv3x3_stride2(c, packed, o, y, x)
  ELSE scalar_packed_conv3x3_stride2(c, packed, o, y, x)

(***************************************************************************)
(* lw_scalar_conv2d_f32: from the shape and the vector level to a kernel   *)
(***************************************************************************)
Shape(c, k, s, pads) == c.k = k /\ c.s = s /\ c.d = <<1, 1>> /\ c.pads = pads
Depthwise(c) == c.groups = c.ic /\ c.oc = c.ic /\ InputsPerGroup(c) = 1
SameSize(c) == c.out = c.in

\* The fast paths in the order of their tests; the first one that applies is taken.
FastPaths(c) ==
  LET unit(k, pads) == Shape(c, k, <<1, 1>>, pads) /\ SameSize(c)
      dense(k, pads) == c.groups = 1 /\ unit(k, pads)
      depthwise(k, pads) == Depthwise(c) /\ unit(k, pads)
      tall(n) == c.in[1] >= n
      wide(n) == c.in[2] >= n
  IN << <<"1x1", Shape(c, <<1, 1>>, <<1, 1>>, <<0, 0, 0, 0>>)>>,
        <<"depthwise3x3", depthwise(<<3, 3>>, <<1, 1, 1, 1>>)>>,
        <<"depthwise3x3s2x1", /\ Depthwise(c) /\ c.out[2] = c.in[2]
                              /\ Shape(c, <<3, 3>>, <<2, 1>>, <<1, 1, 1, 1>>)>>,
        <<"depthwise5x5", depthwise(<<5, 5>>, <<2, 2, 2, 2>>)>>,
        <<"depthwise9x9", depthwise(<<9, 9>>, <<4, 4, 4, 4>>) /\ tall(9) /\ wide(9)>>,
        <<"7x1", dense(<<7, 1>>, <<3, 0, 3, 0>>) /\ tall(7)>>,
        <<"1x7", dense(<<1, 7>>, <<0, 3, 0, 3>>) /\ wide(7)>>,
        <<"5x1", dense(<<5, 1>>, <<2, 0, 2, 0>>) /\ tall(5)>>,
        <<"1x5", dense(<<1, 5>>, <<0, 2, 0, 2>>) /\ wide(5)>>,
        <<"3x3", dense(<<3, 3>>, <<1, 1, 1, 1>>)>>,
        <<"7x7", dense(<<7, 7>>, <<3, 3, 3, 3>>) /\ tall(7) /\ wide(7)>>,
        <<"5x5", dense(<<5, 5>>, <<2, 2, 2, 2>>) /\ tall(5) /\ wide(5)>>,
        <<"2x2", dense(<<2, 2>>, <<0, 0, 1, 1>>)>>,
        <<"3x3s2", c.groups = 1 /\ Shape(c, <<3, 3>>, <<2, 2>>, <<1, 1, 1, 1>>)>> >>

FastPath(c) ==
  LET taken == SelectSeq(FastPaths(c), LAMBDA path : path[2])
  IN IF taken = << >> THEN "general" ELSE Head(taken)[1]

conv2d_f32(c, o, y, x) ==
  LET path == FastPath(c)
      ByLevel(avx2, sse2, other) ==
        CASE level = "avx2" -> avx2 [] level = "sse2" -> sse2 [] OTHER -> other
      Avx2Only(avx2) == IF level = "avx2" THEN avx2 ELSE general_convolution(c, o, y, x)
  IN CASE path = "1x1" ->
            ByLevel(avx2_conv1x1(c, o, y, x), sse2_conv1x1(c, o, y, x),
                    scalar_conv1x1(c, o, y, x))
       [] path = "depthwise3x3" ->
            ByLevel(avx2_depthwise3x3(c, o, y, x), sse2_depthwise3x3(c, o, y, x),
                    scalar_depthwise3x3(c, o, y, x))
       [] path = "depthwise3x3s2x1" ->
            ByLevel(avx2_depthwise3x3_stride2x1(c, o, y, x),
                    sse2_depthwise3x3_stride2x1(c, o, y, x),
                    scalar_depthwise3x3_stride2x1(c, o, y, x))
       [] path = "depthwise5x5" ->
            ByLevel(avx2_depthwise5x5(c, o, y, x), sse2_depthwise5x5(c, o, y, x),
                    scalar_depthwise5x5(c, o, y, x))
       [] path = "depthwise9x9" -> Avx2Only(avx2_depthwise9x9(c, o, y, x))
       [] path = "7x1" -> Avx2Only(avx2_conv_axis(c, o, y, x, <<3, 0>>))
       [] path = "1x7" -> Avx2Only(avx2_conv_axis(c, o, y, x, <<0, 3>>))
       [] path = "5x1" -> Avx2Only(avx2_conv_axis(c, o, y, x, <<2, 0>>))
       [] path = "1x5" -> Avx2Only(avx2_conv_axis(c, o, y, x, <<0, 2>>))
       [] path = "3x3" /\ level = "neon" -> neon_conv3x3(c, o, y, x)
       [] path = "3x3" /\ level # "neon" ->
            ByLevel(avx2_conv3x3(c, o, y, x), sse2_conv3x3(c, o, y, x),
                    scalar_conv3x3(c, o, y, x))
       [] path = "7x7" -> Avx2Only(avx2_conv7x7(c, o, y, x))
       [] path = "5x5" -> Avx2Only(IF c.oc % Tile4 = 0 THEN avx2_conv5x5_four_outputs(c, o, y, x)
                                   ELSE avx2_conv5x5(c, o, y, x))
       [] path = "2x2" ->
            ByLevel(avx2_conv2x2(c, o, y, x), sse2_conv2x2(c, o, y, x),
                    scalar_conv2x2(c, o, y, x))
       [] path = "3x3s2" ->
            ByLevel(avx2_conv3x3_stride2(c, o, y, x), sse2_conv3x3_stride2(c, o, y, x),
                    scalar_conv3x3_stride2(c, o, y, x))
       [] path = "general" -> general_convolution(c, o, y, x)

(***************************************************************************)
(* lw_scalar_conv_transpose2d_f32                                          *)
(***************************************************************************)
scalar_conv_transpose2x2(c, o, y, x) == TransposeKernel(c, o, y, x, 1, 1)
sse2_conv_transpose2x2(c, o, y, x) == TransposeKernel(c, o, y, x, NarrowLanes, NarrowLanes)
neon_conv_transpose2x2(c, o, y, x) == TransposeKernel(c, o, y, x, NarrowLanes, NarrowLanes)
avx2_conv_transpose2x2(c, o, y, x) == TransposeKernel(c, o, y, x, WideLanes, WideLanes \div 2)

\* Every input element of the group is scattered over the window it reaches.
general_transpose(c, o, y, x) ==
  LET kernel == c.k[1] * c.k[2]
      plane == c.in[1] * c.in[2]
      nest == [n \in 1..(InputsPerGroup(c) * plane * kernel) |->
                 LET at == ((n - 1) \div kernel) % plane
                 IN <<(n - 1) \div (plane * kernel), at \div c.in[2], at % c.in[2],
                      ((n - 1) \div c.k[2]) % c.k[1], (n - 1) % c.k[2]>>]
      group == o \div OutputsPerGroup(c)
      hits(t) == /\ t[2] * c.s[1] - c.pads[1] + t[4] * c.d[1] = y
                 /\ t[3] * c.s[2] - c.pads[2] + t[5] * c.d[2] = x
      scattered == SelectSeq(nest, hits)
      weight(t) == LET i == group * InputsPerGroup(c) + t[1]
                   IN (((i * OutputsPerGroup(c) + (o % OutputsPerGroup(c))) * c.k[1] + t[4])
                       * c.k[2]) + t[5]
  IN {Element(c, o, [n \in DOMAIN scattered |->
        LET t == scattered[n]
        IN [weight |-> weight(t),
            input |-> <<group * InputsPerGroup(c) + t[1], t[2], t[3]>>]])}

conv_transpose2d_f32(c, o, y, x) ==
  IF c.groups = 1 /\ Shape(c, <<2, 2>>, <<2, 2>>, <<0, 0, 0, 0>>)
  THEN CASE level = "avx2" -> avx2_conv_transpose2x2(c, o, y, x)
         [] level = "neon" -> neon_conv_transpose2x2(c, o, y, x)
         [] level = "sse2" -> sse2_conv_transpose2x2(c, o, y, x)
         [] OTHER -> scalar_conv_transpose2x2(c, o, y, x)
  ELSE general_transpose(c, o, y, x)

(***************************************************************************)
(* The node: packing, slices, serial fallback                              *)
(***************************************************************************)
\* Which packed form of the weights the session prepared for the node, if any.
PreparedKind(c, l) ==
  LET wide == c.in[2] >= 2 * c.in[1]
      vector == l \in {"sse2", "avx2", "neon", "lsx"}
      large == c.in[1] * c.in[2] >= LargePlane
  IN IF /\ ~c.transposed /\ c.groups = 1 /\ c.oc >= Tile4 /\ c.oc % Tile4 = 0
        /\ Shape(c, <<1, 1>>, <<1, 1>>, <<0, 0, 0, 0>>)
        /\ (IF wide THEN vector ELSE l # "sse2" /\ vector /\ large)
     THEN "packed4"
     ELSE IF /\ ~c.transposed /\ c.groups = 1 /\ c.oc >= Tile8 /\ c.oc % Tile8 = 0
             /\ Shape(c, <<3, 3>>, <<2, 2>>, <<1, 1, 1, 1>>) /\ l = "avx2" /\ wide
     THEN "packed8"
     ELSE "none"

ItemSize(prepared) ==
  CASE prepared = "packed8" -> Tile8 [] prepared = "packed4" -> Tile4 [] OTHER -> 1

parallel_conv_worker_count(c, prepared, count) ==
  LET work == c.oc * c.out[1] * c.out[2] * InputsPerGroup(c) * c.k[1] * c.k[2]
      most == Min({c.oc \div ItemSize(prepared), count})
  IN IF \/ count <= 1 \/ (c.groups # 1 /\ ~Depthwise(c))
        \/ c.oc % ItemSize(prepared) # 0 \/ most < 2 \/ work < MinMultiplyAdds
     THEN 1 ELSE most

\* Mutant of Slice: both ends are rounded as if the division were exact.
RoundedUpSlice(c, prepared, w, n) ==
  LET item == ItemSize(prepared)
      begin == (((c.oc \div item) * w) \div n) * item
      end == Min({c.oc, (((c.oc \div item) * (w + 1) + n - 1) \div n) * item})
  IN [c EXCEPT !.oc = end - begin, !.bias = begin, !.output = begin,
               !.weights = begin * InputsPerGroup(c) * c.k[1] * c.k[2]]

\* The convolution worker w of n is given: its channels, and where they begin.
Slice(c, prepared, w, n) ==
  LET item == ItemSize(prepared)
      begin == (((c.oc \div item) * w) \div n) * item
      end == (((c.oc \div item) * (w + 1)) \div n) * item
      count == end - begin
      own == [c EXCEPT !.oc = count, !.bias = begin, !.output = begin]
  IN IF c.groups = 1 THEN [own EXCEPT !.weights = begin * c.ic * c.k[1] * c.k[2]]
     ELSE [own EXCEPT !.weights = begin * c.k[1] * c.k[2], !.input = begin,
                      !.ic = count, !.groups = count]

\* What one call stores in channel o of its own output.
CallStores(call, o, y, x) ==
  LET c == call.conv
  IN CASE call.kernel = "packed4" ->
            packed_conv1x1(c, PackedWeights(conv, Tile4), o, y, x)
       [] call.kernel = "packed8" ->
            packed_conv3x3_stride2(c, PackedWeights(conv, Tile8), o, y, x)
       [] call.kernel = "conv2d" -> conv2d_f32(c, o, y, x)
       [] call.kernel = "transpose" -> conv_transpose2d_f32(c, o, y, x)

\* The calls that stored into channel o once the kernel has run on convolution c.
Stored(kernel, c) ==
  [o \in DOMAIN stores |->
     stores[o] \union (IF o \in c.output..(c.output + c.oc - 1)
                       THEN {[kernel |-> kernel, conv |-> c]} ELSE {})]

Kernel ==
  IF conv.transposed THEN "transpose"
  ELSE IF PreparedKind(conv, level) = "none" THEN "conv2d" ELSE PreparedKind(conv, level)

NodeInit ==
  /\ conv \in Convs /\ level \in Levels /\ threads \in ThreadCounts
  /\ phase = "ready"
  /\ workers = 1 /\ pending = {}
  /\ stores = [o \in 0..(conv.oc - 1) |-> {}]

\* dispatch_parallel_conv: hand the slices to the pool, or leave it to the serial code.
Dispatch ==
  LET n == IF conv.transposed THEN 1
           ELSE parallel_conv_worker_count(conv, PreparedKind(conv, level), threads)
  IN /\ phase = "ready"
     /\ phase' = IF n > 1 THEN "parallel" ELSE "serial"
     /\ workers' = n
     /\ pending' = IF n > 1 THEN 0..(n - 1) ELSE {}
     /\ UNCHANGED <<conv, level, threads, stores>>

\* execute_parallel_conv_slice, by any thread of the pool.
RunSlice(w) ==
  /\ phase = "parallel" /\ w \in pending
  /\ stores' = Stored(Kernel, Slice(conv, PreparedKind(conv, level), w, workers))
  /\ pending' = pending \ {w}
  /\ UNCHANGED <<conv, level, threads, phase, workers>>

\* lw_thread_pool_run returns when every slice has; every status is LW_STATUS_OK.
Join ==
  /\ phase = "parallel" /\ pending = {}
  /\ phase' = "done"
  /\ UNCHANGED <<conv, level, threads, workers, pending, stores>>

RunSerial ==
  /\ phase = "serial"
  /\ stores' = Stored(Kernel, conv)
  /\ phase' = "done"
  /\ UNCHANGED <<conv, level, threads, workers, pending>>

Done == phase = "done" /\ UNCHANGED nodeVars

NodeNext == Dispatch \/ (\E w \in pending : RunSlice(w)) \/ Join \/ RunSerial \/ Done

NodeSpec == NodeInit /\ [][NodeNext]_nodeVars

(***************************************************************************)
(* Properties                                                              *)
(***************************************************************************)
\* What ONNX defines for a transposed convolution, gathered per output element.
TransposedReference(c, o, y, x) ==
  LET group == o \div OutputsPerGroup(c)
      window(at, n, axis) == at * c.s[axis] - c.pads[axis] + n * c.d[axis]
      reaches(at) == /\ \E ky \in 0..(c.k[1] - 1) : window(at[1], ky, 1) = y
                     /\ \E kx \in 0..(c.k[2] - 1) : window(at[2], kx, 2) = x
      order == SelectSeq([n \in 1..(c.in[1] * c.in[2]) |->
                            <<(n - 1) \div c.in[2], (n - 1) % c.in[2]>>], reaches)
      tap(i, at) ==
        LET ky == CHOOSE n \in 0..(c.k[1] - 1) : window(at[1], n, 1) = y
            kx == CHOOSE n \in 0..(c.k[2] - 1) : window(at[2], n, 2) = x
        IN [weight |-> ((i * OutputsPerGroup(c) + (o % OutputsPerGroup(c))) * c.k[1] + ky)
                       * c.k[2] + kx,
            input |-> <<i, at[1], at[2]>>]
      channels == [n \in 1..InputsPerGroup(c) |-> group * InputsPerGroup(c) + n - 1]
  IN [bias |-> o,
      taps |-> FlattenSeq([n \in DOMAIN channels |->
                             [m \in DOMAIN order |-> tap(channels[n], order[m])]])]

\* Whatever kernels a shape, a vector level, packed weights and a number of
\* threads select, every output element holds its bias and exactly the taps the
\* definition of the operator gives it, added in the one order of the reference
\* loops: the results do not depend on the machine or on the thread count.
NodeExact ==
  phase = "done" =>
    \A o \in DOMAIN stores, y \in 0..(conv.out[1] - 1), x \in 0..(conv.out[2] - 1) :
      UNION {CallStores(call, o - call.conv.output, y, x) : call \in stores[o]}
        = {IF conv.transposed THEN TransposedReference(conv, o, y, x)
           ELSE Reference(conv, o, y, x)}

\* The slices of a node never store into the same output channel: workers that
\* run at the same time share no element, so the pool needs no lock.  And none is
\* forgotten: when the node is done, every channel has been stored.
ChannelHasOneWorker ==
  \A o \in DOMAIN stores :
    Cardinality(stores[o]) <= 1 /\ (phase = "done" => stores[o] # {})

==============================================================================
