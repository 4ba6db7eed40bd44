----------------------------- MODULE ConvKernels -----------------------------
(***************************************************************************)
(* The convolution kernels: kernels/scalar_conv.c, kernels/packed_conv.c,  *)
(* kernels/packed_conv3x3.c and the vector versions of them under simd/.   *)
(*                                                                         *)
(* What a kernel computes is one number per output element: a bias and a   *)
(* sum of products.  Floating-point addition is not associative, so the    *)
(* kernels promise more than the right products: they add them in one      *)
(* order, and the build keeps the compiler from fusing them.  The value of *)
(* an element is therefore modelled as the bias it starts from and the     *)
(* SEQUENCE of taps added to it, a tap being the address of a weight and   *)
(* the place of an input element.  A kernel operator returns the set of    *)
(* the values a kernel stores in output element (o, y, x): one when the    *)
(* loops reach the element exactly once.                                   *)
(*                                                                         *)
(* A convolution is a record: the dimensions the C function is passed, and *)
(* the offsets of the four pointers it is passed (a worker of the pool is  *)
(* given pointers into the middle of the tensors).  The batch loop is left *)
(* out: a batch is an offset of input and output.  Unsigned subtraction    *)
(* wraps.                                                                  *)
(***************************************************************************)
EXTENDS Integers, Sequences, FiniteSets, SequencesExt, FiniteSetsExt

CONSTANTS
  WideLanes,   \* floats in an AVX2 register: 8
  NarrowLanes, \* floats in an SSE2, NEON or LSX register: 4
  Tile4,       \* output channels of the four_outputs and packed 1x1 kernels: 4
  Tile8,       \* output channels of the eight_outputs and packed 3x3 ones: 8
  Wrap         \* 2^32 of the uint32_t arithmetic

ASSUME ConvKernelsAssumption ==
  /\ {WideLanes, NarrowLanes, Tile4, Tile8, Wrap} \subseteq Nat \ {0}
  /\ WideLanes % 4 = 0 /\ NarrowLanes % 2 = 0

Sub(a, b) == (a - b) % Wrap
InputsPerGroup(c) == c.ic \div c.groups
OutputsPerGroup(c) == c.oc \div c.groups
RoundUp(n, tile) == ((n + tile - 1) \div tile) * tile

(***************************************************************************)
(* Taps and elements                                                       *)
(***************************************************************************)
\* <<input channel in the group, kernel row, kernel column>> in loop order.
LoopNest(c) ==
  [n \in 1..(InputsPerGroup(c) * c.k[1] * c.k[2]) |->
     <<(n - 1) \div (c.k[1] * c.k[2]), ((n - 1) \div c.k[2]) % c.k[1], (n - 1) % c.k[2]>>]

\* The address of a weight in the OIHW tensor.
WeightAt(c, o, t) ==
  c.weights + ((o * InputsPerGroup(c) + t[1]) * c.k[1] + t[2]) * c.k[2] + t[3]

InputAt(c, o, t, iy, ix) ==
  <<c.input + (o \div OutputsPerGroup(c)) * InputsPerGroup(c) + t[1], iy, ix>>

Tap(c, o, t, iy, ix) == [weight |-> WeightAt(c, o, t), input |-> InputAt(c, o, t, iy, ix)]
Element(c, o, taps) == [bias |-> c.bias + o, taps |-> taps]

\* The taps of the loop nest that satisfy reached(_), at rows iy(_) and columns ix(_).
Accumulate(c, o, reached(_), iy(_), ix(_)) ==
  LET nest == SelectSeq(LoopNest(c), reached)
  IN Element(c, o, [n \in 1..Len(nest) |-> Tap(c, o, nest[n], iy(nest[n]), ix(nest[n]))])

\* What ONNX defines: every tap of the window that lies inside the input.
Reference(c, o, y, x) ==
  LET iy(t) == y * c.s[1] - c.pads[1] + t[2] * c.d[1]
      ix(t) == x * c.s[2] - c.pads[2] + t[3] * c.d[2]
  IN Accumulate(c, o, LAMBDA t : iy(t) \in 0..(c.in[1] - 1) /\ ix(t) \in 0..(c.in[2] - 1), iy, ix)

(***************************************************************************)
(* Tap-major kernels: for one tap after the other, add it to every output  *)
(* element it contributes to, vectors first and single elements after.     *)
(***************************************************************************)
\* First and last output coordinate a kernel coordinate k contributes to.
PaddedRange(size, pad, k) ==
  [begin |-> IF k < pad THEN pad - k ELSE 0,
   end |-> IF k > pad THEN Sub(size, k - pad) ELSE size]

TrimmedRange(size, pad, k) ==
  [begin |-> IF k < pad THEN pad - k ELSE 0,
   end |-> LET trim == IF k > pad THEN k - pad ELSE 0
           IN IF trim < size THEN size - trim ELSE 0]

\* Where the vector loop of one row stops; fits(x) is its extra condition.
VectorStop(range, lanes, fits(_)) ==
  LET blocks == Min({n \in 0..(range.end + 1) :
                       \/ range.begin + (n + 1) * lanes > range.end
                       \/ ~fits(range.begin + n * lanes)})
  IN range.begin + blocks * lanes

\* Output coordinate x is written by the vector loop or by the tail after it.
Swept(x, range, lanes, fits(_)) ==
  LET stop == VectorStop(range, lanes, fits)
  IN (range.begin <= x /\ x < stop) \/ (stop <= x /\ x < range.end)

Always(x) == TRUE

TapMajor(c, o, y, x, pad, stride, lanes, rows(_), columns(_), fits(_, _)) ==
  {Accumulate(c, o,
     LAMBDA t : /\ Swept(y, rows(t[2]), 1, Always)
                /\ Swept(x, columns(t[3]), lanes, LAMBDA v : fits(t[3], v)),
     LAMBDA t : y * stride[1] + t[2] - pad[1],
     LAMBDA t : x * stride[2] + t[3] - pad[2])}

\* The kernels of stride 1 whose output is as large as their input.
UnitKernel(c, o, y, x, pad, lanes) ==
  TapMajor(c, o, y, x, pad, <<1, 1>>, lanes, LAMBDA k : PaddedRange(c.in[1], pad[1], k),
           LAMBDA k : PaddedRange(c.in[2], pad[2], k), LAMBDA k, v : TRUE)

TrimmedUnitKernel(c, o, y, x, pad, lanes) ==
  TapMajor(c, o, y, x, pad, <<1, 1>>, lanes, LAMBDA k : TrimmedRange(c.in[1], pad[1], k),
           LAMBDA k : TrimmedRange(c.in[2], pad[2], k), LAMBDA k, v : TRUE)

\* Depthwise, stride 2 vertically: the last kernel row reaches input_height / 2 rows.
DepthwiseStride2x1(c, o, y, x, lanes) ==
  TapMajor(c, o, y, x, <<1, 1>>, <<2, 1>>, lanes,
           LAMBDA k : [begin |-> IF k = 0 THEN 1 ELSE 0,
                       end |-> IF k = 2 THEN c.in[1] \div 2 ELSE c.out[1]],
           LAMBDA k : PaddedRange(c.in[2], 1, k), LAMBDA k, v : TRUE)

\* Stride 2, the output range of a kernel coordinate: the loops of the scalar
\* kernel move both ends inward, the vector kernels drop the last output at most.
SteppedRange(outputs, size, k) ==
  LET begin == Min({b \in 0..outputs : b = outputs \/ b * 2 - 1 + k >= 0})
  IN [begin |-> begin,
      end |-> Max({e \in begin..outputs : e = begin \/ (e - 1) * 2 - 1 + k < size})]

\* Mutant of LastDroppedRange: the last output is never dropped, and reads past the row.
UndroppedRange(outputs, size, k) == [begin |-> IF k = 0 THEN 1 ELSE 0, end |-> outputs]

LastDroppedRange(outputs, size, k) ==
  [begin |-> IF k = 0 THEN 1 ELSE 0,
   end |-> IF k = 2 /\ (outputs - 1) * 2 + 1 >= size THEN outputs - 1 ELSE outputs]

Stride2Kernel(c, o, y, x, lanes, range(_, _, _), fits(_, _)) ==
  TapMajor(c, o, y, x, <<1, 1>>, <<2, 2>>, lanes, LAMBDA k : range(c.out[1], c.in[1], k),
           LAMBDA k : range(c.out[2], c.in[2], k), fits)

\* A stride-2 vector needs 2 * lanes input floats in the row.
WholeRowVector(c, lanes, k, v) == v * 2 - 1 + k + 2 * lanes - 1 < c.in[2]

\* 1x1 kernels sweep the plane as one row, by loops of decreasing width.
PlaneSweep(c, o, y, x, loops) ==
  LET s == y * c.in[2] + x
      plane == c.in[1] * c.in[2]
      stop[n \in 0..Len(loops)] ==
        IF n = 0 THEN 0 ELSE VectorStop([begin |-> stop[n - 1], end |-> plane], loops[n], Always)
  IN {Accumulate(c, o, Always, LAMBDA t : s \div c.in[2], LAMBDA t : s % c.in[2]) :
        n \in {m \in DOMAIN loops : stop[m - 1] <= s /\ s < stop[m]}}

(***************************************************************************)
(* Tile kernels: for one tile of output elements after the other, all its  *)
(* taps.  A tile is a vector where the whole window lies inside the input, *)
(* and a single element with checked taps where it does not.               *)
(***************************************************************************)
Inside(c, iy, ix) == iy \in 0..(c.in[1] - 1) /\ ix \in 0..(c.in[2] - 1)

CheckedTaps(c, o, y, x, pad, stride) ==
  LET iy(t) == y * stride[1] + t[2] - pad[1]
      ix(t) == x * stride[2] + t[3] - pad[2]
  IN Accumulate(c, o, LAMBDA t : Inside(c, iy(t), ix(t)), iy, ix)

\* Lane x - first of the vector of taps loaded for a tile that starts at first.
VectorTaps(c, o, y, x, first, pad, stride) ==
  Accumulate(c, o, Always, LAMBDA t : y * stride[1] + t[2] - pad[1],
             LAMBDA t : first * stride[2] + t[3] - pad[2] + stride[2] * (x - first))

\* The columns at which the while loop of one row starts a tile.
TileStarts(width, step(_)) ==
  LET reached[x \in 0..(width - 1)] ==
        x = 0 \/ \E first \in 0..(x - 1) : reached[first] /\ first + step(first) = x
  IN {x \in 0..(width - 1) : reached[x]}

TileMajor(c, o, y, x, stride, fullHeight, fullWidth(_)) ==
  LET step(first) == IF fullHeight /\ fullWidth(first) THEN WideLanes ELSE 1
      covering == {first \in TileStarts(c.out[2], step) : first <= x /\ x < first + step(first)}
  IN {IF fullHeight /\ fullWidth(first) THEN VectorTaps(c, o, y, x, first, <<1, 1>>, stride)
      ELSE CheckedTaps(c, o, y, x, <<1, 1>>, stride) : first \in covering}

UnitTiles(c, o, y, x) ==
  TileMajor(c, o, y, x, <<1, 1>>, y # 0 /\ y + 1 < c.in[1],
            LAMBDA first : first # 0 /\ first + WideLanes < c.in[2])

Stride2Tiles(c, o, y, x) ==
  TileMajor(c, o, y, x, <<2, 2>>, y # 0 /\ y * 2 + 1 < c.in[1],
            LAMBDA first : /\ first # 0 /\ first + WideLanes <= c.out[2]
                           /\ (first + WideLanes - 1) * 2 + 1 < c.in[2])

\* The general kernel: the window is trimmed to the input for one output element.
TrimmedWindow(outAt, stride, pad, dilation, kernel, size) ==
  LET start == outAt * stride - pad
      begin == Min({b \in 0..kernel : b = kernel \/ start + b * dilation >= 0})
  IN begin..(Max({e \in begin..kernel :
                    e = begin \/ start + (e - 1) * dilation < size}) - 1)

(***************************************************************************)
(* Packed weights: channels are interleaved by tiles, padded with zeros    *)
(***************************************************************************)
\* The address packed from, or -1 for a padding zero.
PackedWeights(c, tile) ==
  LET kernelSize == c.k[1] * c.k[2]
      per == c.ic * kernelSize
  IN [p \in 0..(RoundUp(c.oc, tile) * per - 1) |->
        LET o == (p \div (tile * per)) * tile + (p % tile)
        IN IF o < c.oc THEN o * per + ((p \div tile) % per) ELSE -1]

\* The same taps, read through the packed weights; c.weights is an offset into them.
ThroughPacked(c, o, packed, tile, element) ==
  LET kernelSize == c.k[1] * c.k[2]
      per == c.ic * kernelSize
      tap(n) == (element.taps[n].weight - c.weights) % per
      at(n) == ((o \div tile) * per + tap(n)) * tile + (o % tile)
  IN [element EXCEPT !.taps = [n \in DOMAIN @ |->
                                 [@[n] EXCEPT !.weight = packed[c.weights + at(n)]]]]

(***************************************************************************)
(* Transposed convolution, kernel 2x2 and stride 2: an input element is    *)
(* spread over two columns of two rows.                                    *)
(***************************************************************************)
\* unpacklo and unpackhi interleave with zeros, within parts of a register; the
\* input lane that ends up in lane n of the pair of registers stored.
UnpackedLane(n, lanes, part) ==
  LET piece == n \div part           \* AVX2: lo, hi, lo, hi after the permutes
      high == piece % 2 = 1
      base == IF part = lanes THEN 0 ELSE (piece \div 2) * part
  IN base + (IF high THEN part \div 2 ELSE 0) + ((n % part) \div 2)

TransposeKernel(c, o, y, x, lanes, part) ==
  LET stop == VectorStop([begin |-> 0, end |-> c.in[2]], lanes, Always) \* of a row
      ix == IF x \div 2 < stop
            THEN LET first == ((x \div 2) \div lanes) * lanes
                 IN first + UnpackedLane(x - 2 * first, lanes, part)
            ELSE x \div 2
  IN {Element(c, o, [i \in 1..c.ic |->
        [weight |-> c.weights + ((i - 1) * c.oc + o) * 4 + (y % 2) * 2 + (x % 2),
         input |-> <<c.input + i - 1, y \div 2, ix>>]])}

==============================================================================
