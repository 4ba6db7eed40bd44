---------------------------- MODULE DbPostprocess ----------------------------
(***************************************************************************)
(* From the probability map of the detector to text boxes                  *)
(* (db_postprocess.c).  A map gives every pixel, a pair of its column and  *)
(* its row, a probability in tenths.  The code computes in floats along    *)
(* the direction of a hull edge; here everything is exact: a length along  *)
(* direction d is kept times |d|, an area times |d|^2, and a corner times  *)
(* the Unit of its rectangle.                                              *)
(***************************************************************************)
EXTENDS Integers, Sequences, FiniteSets

CONSTANTS
  BitmapThreshold, BoxThreshold,  \* bitmap_threshold and box_threshold, in tenths
  RatioOver, RatioUnder,          \* unclip_ratio as a fraction
  MaxCandidates

ASSUME DbPostprocessAssumption ==
  /\ BitmapThreshold \in 0..10 /\ BoxThreshold \in 0..10
  /\ {RatioOver, RatioUnder, MaxCandidates} \subseteq Nat \ {0}

Pixels(map) == {<<x, y>> : x \in 0..map.width - 1, y \in 0..map.height - 1}

IsMap(map) ==
  /\ {map.width, map.height, map.zoom} \subseteq Nat \ {0}
  /\ map.dilate \in BOOLEAN
  /\ map.values \in [Pixels(map) -> 0..10]

X(p) == p[1]
Y(p) == p[2]

Foreground(map) == {p \in Pixels(map) : map.values[p] > BitmapThreshold}

\* The dilation by two pixels each way, to the right and down.
Dilated(map, bitmap) ==
  {p \in Pixels(map) : \E dx \in 0..1, dy \in 0..1 : <<X(p) - dx, Y(p) - dy>> \in bitmap}

Bitmap(map) == IF map.dilate THEN Dilated(map, Foreground(map)) ELSE Foreground(map)

-----------------------------------------------------------------------------
(* Components *)

Touching(p, q) == X(p) - X(q) \in -1..1 /\ Y(p) - Y(q) \in -1..1

\* The flood fill from a pixel.
Flood(bitmap, start) ==
  LET filled[n \in 0..Cardinality(bitmap)] ==
        IF n = 0 THEN {start}
        ELSE LET before == filled[n - 1]
             IN before \cup {p \in bitmap \ before : \E q \in before : Touching(p, q)}
  IN filled[Cardinality(bitmap)]

FirstInRaster(pixels) ==
  CHOOSE p \in pixels : \A q \in pixels : Y(p) < Y(q) \/ (Y(p) = Y(q) /\ X(p) <= X(q))

\* The components in the order the scan comes to them, up to the limit.
Components(bitmap) ==
  LET found[n \in 0..MaxCandidates] ==
        IF n = 0 THEN <<>>
        ELSE LET before == found[n - 1]
                 unseen == bitmap \ UNION {before[i] : i \in DOMAIN before}
             IN IF unseen = {} THEN before
                ELSE Append(before, Flood(bitmap, FirstInRaster(unseen)))
  IN found[MaxCandidates]

AtEdge(map, p) == X(p) \in {0, map.width - 1} \/ Y(p) \in {0, map.height - 1}

NextToBackground(map, bitmap, p) ==
  \E q \in Pixels(map) \ bitmap :
    \/ X(p) = X(q) /\ Y(p) - Y(q) \in {-1, 1}
    \/ Y(p) = Y(q) /\ X(p) - X(q) \in {-1, 1}

\* Mutant of Boundary: the edge of the image is not a boundary.
InnerBoundary(map, bitmap, region) == {p \in region : NextToBackground(map, bitmap, p)}

\* The pixels of a component that are kept for its hull.
Boundary(map, bitmap, region) ==
  {p \in region : AtEdge(map, p) \/ NextToBackground(map, bitmap, p)}

-----------------------------------------------------------------------------
(* The convex hull: convex_hull *)

PointBefore(p, q) == X(p) < X(q) \/ (X(p) = X(q) /\ Y(p) < Y(q))

SortedPoints(points) ==
  LET sorted[n \in 0..Cardinality(points)] ==
        IF n = 0 THEN <<>>
        ELSE LET before == sorted[n - 1]
                 rest == points \ {before[i] : i \in DOMAIN before}
             IN Append(before, CHOOSE p \in rest : \A q \in rest \ {p} : PointBefore(p, q))
  IN sorted[Cardinality(points)]

Cross(o, p, q) == (X(p) - X(o)) * (Y(q) - Y(o)) - (Y(p) - Y(o)) * (X(q) - X(o))

\* The chain before p is appended: points which leave no turn to the left are taken
\* off its end, down to a number of points that stay.
Turned(chain, stay, p) ==
  LET Turns(k) == Cross(chain[k - 1], chain[k], p) > 0
      last == CHOOSE k \in stay..Len(chain) :
                /\ k = stay \/ Turns(k)
                /\ \A j \in k + 1..Len(chain) : ~Turns(j)
  IN SubSeq(chain, 1, last)

\* One half of the monotone chain, over the points i to j of a sequence.
Chain(chain0, stay, points, count) ==
  LET chain[n \in 0..count] ==
        IF n = 0 THEN chain0
        ELSE LET before == chain[n - 1]
             IN Append(IF Len(before) < stay THEN before ELSE Turned(before, stay, points[n]),
                       points[n])
  IN chain[count]

\* The lower half, and then back along the same points.
Around(sorted, lower) ==
  Chain(lower, Len(lower), [i \in 1..Len(sorted) - 1 |-> sorted[Len(sorted) - i]],
        Len(sorted) - 1)

WithoutLast(points) == SubSeq(points, 1, Len(points) - 1)

HullOf(sorted) ==
  IF Len(sorted) < 3 THEN <<>>
  ELSE WithoutLast(Around(sorted, Chain(<<>>, 1, sorted, Len(sorted))))

convex_hull(points) == HullOf(SortedPoints(points))

-----------------------------------------------------------------------------
(* The smallest rectangle along an edge of the hull: minimum_rectangle *)

Absolute(n) == IF n < 0 THEN -n ELSE n
Least(S) == CHOOSE n \in S : \A m \in S : n <= m
Greatest(S) == CHOOSE n \in S : \A m \in S : n >= m

\* A direction without the common divisor of its parts.
Direction(p, q) ==
  LET dx == X(q) - X(p)
      dy == Y(q) - Y(p)
      divisor == Greatest({n \in 1..Absolute(dx) + Absolute(dy) : dx % n = 0 /\ dy % n = 0})
  IN <<dx \div divisor, dy \div divisor>>

SquaredLength(d) == X(d) * X(d) + Y(d) * Y(d)
AlongU(d, p) == X(p) * X(d) + Y(p) * Y(d)
AlongV(d, p) == Y(p) * X(d) - X(p) * Y(d)

Enclosing(d, points) ==
  LET us == {AlongU(d, p) : p \in points}
      vs == {AlongV(d, p) : p \in points}
  IN [d |-> d, minU |-> Least(us), maxU |-> Greatest(us),
      minV |-> Least(vs), maxV |-> Greatest(vs)]

Width(r) == r.maxU - r.minU
Height(r) == r.maxV - r.minV
Area(r) == Width(r) * Height(r)
SmallerArea(r, s) == Area(r) * SquaredLength(s.d) < Area(s) * SquaredLength(r.d)

\* Mutant of SmallerOf: the rectangle along the first edge is kept.
FirstOf(r, s) == r

SmallerOf(r, s) == IF SmallerArea(s, r) THEN s ELSE r

\* The first edge of the smallest area; the hull has at least three points.
minimum_rectangle(hull) ==
  LET points == {hull[i] : i \in DOMAIN hull}
      AtEdgeOf(i) == Enclosing(Direction(hull[i], hull[(i % Len(hull)) + 1]), points)
      best[i \in DOMAIN hull] ==
        IF i = 1 THEN AtEdgeOf(1)
        ELSE SmallerOf(best[i - 1], AtEdgeOf(i))
  IN best[Len(hull)]

Inside(r, p) ==
  /\ AlongU(r.d, p) \in r.minU..r.maxU
  /\ AlongV(r.d, p) \in r.minV..r.maxV

MeanSuffices(map, covered) ==
  LET sum[i \in 0..Len(covered)] ==
        IF i = 0 THEN 0 ELSE sum[i - 1] + map.values[covered[i]]
  IN Len(covered) # 0 /\ sum[Len(covered)] >= BoxThreshold * Len(covered)

\* rectangle_score is at least box_threshold: the mean probability in the rectangle.
ScoreSuffices(map, r) ==
  MeanSuffices(map, SortedPoints({p \in Pixels(map) : Inside(r, p)}))

-----------------------------------------------------------------------------
(* The box of a rectangle *)

ShortestSide(r) == IF Width(r) < Height(r) THEN Width(r) ELSE Height(r)

\* The expansion is area * unclip_ratio / perimeter; times Scale, it is Expansion.
Scale(r) == 2 * RatioUnder * (Width(r) + Height(r))
Expansion(r) == Area(r) * RatioOver
Unit(r) == Scale(r) * SquaredLength(r.d)

LongEnough(side, length, d) == side * side >= length * length * SquaredLength(d)

BigEnough(r) ==
  /\ LongEnough(ShortestSide(r), 3, r.d)
  /\ LongEnough(ShortestSide(r) * Scale(r) + 2 * Expansion(r), 5 * Scale(r), r.d)

\* rectangle_points with the expansion, in units of Unit.
Corners(r) ==
  LET low(n) == n * Scale(r) - Expansion(r)
      high(n) == n * Scale(r) + Expansion(r)
      At(u, v) == <<u * X(r.d) - v * Y(r.d), u * Y(r.d) + v * X(r.d)>>
  IN {At(low(r.minU), low(r.minV)), At(high(r.maxU), low(r.minV)),
      At(high(r.maxU), high(r.maxV)), At(low(r.minU), high(r.maxV))}

Upper(p, q) == IF Y(p) < Y(q) THEN p ELSE q
Lower(p, q) == IF Y(p) < Y(q) THEN q ELSE p
FromUpperLeft(sorted) ==
  <<Upper(sorted[1], sorted[2]), Upper(sorted[3], sorted[4]),
    Lower(sorted[3], sorted[4]), Lower(sorted[1], sorted[2])>>

\* order_clockwise: from the upper left corner on.
Clockwise(corners) == FromUpperLeft(SortedPoints(corners))

Clamp(n, top) == IF n < 0 THEN 0 ELSE IF n > top THEN top ELSE n

\* In the source image, which is map.zoom times as large as the map.
Restored(map, r, quad) ==
  [i \in 1..4 |-> <<Clamp(X(quad[i]) * map.zoom, (map.width * map.zoom - 1) * Unit(r)),
                    Clamp(Y(quad[i]) * map.zoom, (map.height * map.zoom - 1) * Unit(r))>>]

FartherThan(p, q, length, unit) ==
  (X(p) - X(q)) * (X(p) - X(q)) + (Y(p) - Y(q)) * (Y(p) - Y(q)) > length * length * unit * unit

\* A box of which a side is at most four source pixels long is dropped.
QuadBox(region, r, quad, corners) ==
  IF /\ FartherThan(corners[1], corners[2], 4, Unit(r))
     /\ FartherThan(corners[1], corners[4], 4, Unit(r))
  THEN <<[region |-> region, rectangle |-> r, quad |-> quad, corners |-> corners]>>
  ELSE <<>>

RectangleBox(map, region, r) ==
  LET quad == Clockwise(Corners(r))
  IN IF Area(r) > 0 /\ BigEnough(r) /\ ScoreSuffices(map, r)
     THEN QuadBox(region, r, quad, Restored(map, r, quad)) ELSE <<>>

HullBox(map, region, hull) ==
  IF Len(hull) < 3 THEN <<>> ELSE RectangleBox(map, region, minimum_rectangle(hull))

\* What becomes of a component: nothing or one box.
BoxOf(map, bitmap, region) == HullBox(map, region, convex_hull(Boundary(map, bitmap, region)))

BoxesOf(map, bitmap, components) ==
  LET boxes[n \in 0..Len(components)] ==
        IF n = 0 THEN <<>> ELSE boxes[n - 1] \o BoxOf(map, bitmap, components[n])
  IN boxes[Len(components)]

lw_db_postprocess_f32(map) == BoxesOf(map, Bitmap(map), Components(Bitmap(map)))
==============================================================================
