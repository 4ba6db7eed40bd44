---------------------------- MODULE ReadingOrder ----------------------------
(***************************************************************************)
(* The three reading orders of the detected boxes (reading_order.c).  A    *)
(* box is the tuple of its four corners.  Coordinates are whole pixels; a  *)
(* centre is kept as twice its value, and the centre of a column, the      *)
(* running mean of its boxes, as their sum and their number.               *)
(***************************************************************************)
EXTENDS Integers, Sequences, FiniteSets

HorizontalLtr == 0
VerticalRtl == 1
VerticalLtr == 2
Orders == {HorizontalLtr, VerticalRtl, VerticalLtr}

Xs(box) == {box[i][1] : i \in 1..4}
Ys(box) == {box[i][2] : i \in 1..4}
Smallest(S) == CHOOSE n \in S : \A m \in S : n <= m
Largest(S) == CHOOSE n \in S : \A m \in S : n >= m
Distance(m, n) == IF m < n THEN n - m ELSE m - n

-----------------------------------------------------------------------------
(* Insertion sort, as it is written three times. *)

\* How many of the sorted items stay before the value: it passes those that come
\* after it, until the first one that does not.
Place(sorted, value, After(_, _)) ==
  CHOOSE k \in 0..Len(sorted) :
    /\ k = 0 \/ ~After(sorted[k], value)
    /\ \A j \in k + 1..Len(sorted) : After(sorted[j], value)

InsertionSort(items, After(_, _)) ==
  LET Insert(sorted, value) ==
        LET k == Place(sorted, value, After)
        IN Append(SubSeq(sorted, 1, k), value) \o SubSeq(sorted, k + 1, Len(sorted))
      sorted[n \in 0..Len(items)] ==
        IF n = 0 THEN <<>> ELSE Insert(sorted[n - 1], items[n])
  IN sorted[Len(items)]

-----------------------------------------------------------------------------
(* legacy_horizontal_sort *)

LineTolerance == 10

\* Rows of about the same height are one line; this is no transitive relation.
ComesAfter(p, q) ==
  IF Distance(p[1][2], q[1][2]) < LineTolerance THEN p[1][1] > q[1][1] ELSE p[1][2] > q[1][2]

legacy_horizontal_sort(boxes) == InsertionSort(boxes, ComesAfter)

-----------------------------------------------------------------------------
(* vertical_sort *)

item_geometry(box, index) ==
  LET width == Largest(Xs(box)) - Smallest(Xs(box))
  IN [box |-> box, index |-> index, minX |-> Smallest(Xs(box)), maxX |-> Largest(Xs(box)),
      centreX |-> Smallest(Xs(box)) + Largest(Xs(box)), minY |-> Smallest(Ys(box)),
      centreY |-> box[1][2] + box[2][2] + box[3][2] + box[4][2],
      width |-> IF width > 0 THEN width ELSE 1]

item_x_after(p, q) == p.centreX > q.centreX \/ (p.centreX = q.centreX /\ p.index > q.index)

\* interval_overlap as a fraction.
Overlap(item, column) ==
  Smallest({item.maxX, column.maxX}) - Largest({item.minX, column.minX})
WiderOf(item, column) == Largest({item.width, column.width})

\* The overlap is at least 0.45.
Overlaps(item, column) ==
  Overlap(item, column) > 0 /\ 20 * Overlap(item, column) >= 9 * WiderOf(item, column)

\* From the centre of an item to the centre of a column, times its count.
CentreGap(item, column) == Distance(item.centreX * column.count, column.sum)

BetterColumn(item, c, d) ==
  LET left == Overlap(item, c) * WiderOf(item, d)
      right == Overlap(item, d) * WiderOf(item, c)
  IN \/ left > right
     \/ left = right /\ CentreGap(item, c) * d.count < CentreGap(item, d) * c.count

\* The first column that no other one betters, or a new one.
ColumnOf(item, columns) ==
  LET candidates == {i \in DOMAIN columns : Overlaps(item, columns[i])}
      best == {i \in candidates : \A j \in candidates :
                 ~BetterColumn(item, columns[j], columns[i])}
  IN IF candidates = {} THEN Len(columns) + 1 ELSE Smallest(best)

Joined(item, column) ==
  [minX |-> Smallest({column.minX, item.minX}), maxX |-> Largest({column.maxX, item.maxX}),
   sum |-> column.sum + item.centreX, count |-> column.count + 1,
   width |-> Largest({column.width, item.width})]

Started(item) ==
  [minX |-> item.minX, maxX |-> item.maxX, sum |-> item.centreX, count |-> 1,
   width |-> item.width]

\* The columns, and the column of each item, from left to right.
Assigned(items) ==
  LET Assign(state, item) ==
        LET c == ColumnOf(item, state.columns)
        IN [columns |-> IF c > Len(state.columns) THEN Append(state.columns, Started(item))
                        ELSE [state.columns EXCEPT ![c] = Joined(item, @)],
            of |-> Append(state.of, c)]
      assigned[n \in 0..Len(items)] ==
        IF n = 0 THEN [columns |-> <<>>, of |-> <<>>] ELSE Assign(assigned[n - 1], items[n])
  IN assigned[Len(items)]

\* Mutant of item_before: within a column the boxes keep the order of their centres' x.
left_before(p, q, columns, reverse) ==
  IF p.column # q.column THEN (p.column < q.column) # reverse
  ELSE item_x_after(q.item, p.item)

\* item_before, of items with their columns.
item_before(p, q, columns, reverse) ==
  LET left == columns[p.column].sum * columns[q.column].count
      right == columns[q.column].sum * columns[p.column].count
  IN IF p.column # q.column
     THEN IF left # right THEN (IF reverse THEN left > right ELSE left < right)
          ELSE p.column < q.column
     ELSE \/ p.item.minY < q.item.minY
          \/ /\ p.item.minY = q.item.minY
             /\ \/ p.item.centreY < q.item.centreY
                \/ p.item.centreY = q.item.centreY /\ p.item.index < q.item.index

ByX(boxes) == InsertionSort([i \in DOMAIN boxes |-> item_geometry(boxes[i], i)], item_x_after)

ColumnSort(items, assigned, order) ==
  LET After(p, q) == item_before(q, p, assigned.columns, order = VerticalRtl)
  IN InsertionSort([i \in DOMAIN items |-> [item |-> items[i], column |-> assigned.of[i]]],
                   After)

BoxesIn(sorted) == [i \in DOMAIN sorted |-> sorted[i].item.box]

SortedByColumn(items, order) == BoxesIn(ColumnSort(items, Assigned(items), order))

vertical_sort(boxes, order) == SortedByColumn(ByX(boxes), order)

lw_sort_detection_boxes(boxes, order) ==
  IF Len(boxes) < 2 THEN boxes
  ELSE IF order = HorizontalLtr THEN legacy_horizontal_sort(boxes)
  ELSE vertical_sort(boxes, order)
==============================================================================
