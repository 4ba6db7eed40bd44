------------------------------ MODULE Detector ------------------------------
(***************************************************************************)
(* The detector handle (ppocr/detector.c): from an image to its text boxes *)
(* in reading order.                                                       *)
(*                                                                         *)
(* The handle keeps a session and two tensors for the size of the last     *)
(* image.  An image of another size builds new ones before the old ones    *)
(* are freed; whatever fails, the handle must stay usable.  The heap is    *)
(* the set of the objects which have been allocated and not freed.         *)
(***************************************************************************)
EXTENDS DbPostprocess, ReadingOrder

CONSTANTS
  Images,        \* bound: size, source pixels, and the map the graph finds or its boxes
  ImageLimit,    \* max_image_pixels
  FirstSize,     \* 32 x 32, the size of the session of a new detector
  Capacities,    \* bound: the box capacities of the callers
  IntraThreads   \* bound: the thread counts asked for

\* An image; its boxes are four corners of whole pixels.
IsImage(image) ==
  /\ image.size \in (Nat \ {0}) \X (Nat \ {0}) /\ image.pixels \in Nat
  /\ IF "map" \in DOMAIN image THEN IsMap(image.map)
     ELSE image.boxes \in Seq([1..4 -> Int \X Int])

ASSUME DetectorAssumption ==
  /\ \A image \in Images : IsImage(image)
  /\ ImageLimit \in Nat
  /\ Capacities \subseteq Nat /\ IntraThreads \subseteq Nat

VARIABLES
  detector, \* NoDetector, or the handle
  heap,     \* the objects that are allocated
  detected  \* the answer of the last call

detectorVars == <<detector, heap, detected>>

NoDetector == [handle |-> <<"handle", -1>>]
NoObject == <<"none", -1>>
NoBoxes == <<>>
NoAnswer == [status |-> "NONE", image |-> <<>>, count |-> 0, boxes |-> NoBoxes, wanted |-> FALSE,
             order |-> HorizontalLtr]

\* An allocation: an object which is not in the heap.
Allocated(kind, objects) ==
  <<kind, CHOOSE n \in 0..Cardinality(objects) :
            /\ <<kind, n>> \notin objects
            /\ \A m \in 0..n - 1 : <<kind, m>> \in objects>>

Pixel(n, unit) == n \div unit
WholePixels(box) ==
  [i \in 1..4 |-> <<Pixel(X(box.corners[i]), Unit(box.rectangle)),
                    Pixel(Y(box.corners[i]), Unit(box.rectangle))>>]

AllWhole(boxes) == [i \in DOMAIN boxes |-> WholePixels(boxes[i])]

\* The boxes lw_db_postprocess_f32 finds in each image.
Found ==
  [image \in Images |->
     IF "map" \in DOMAIN image
     THEN AllWhole(lw_db_postprocess_f32(image.map))
     ELSE image.boxes]

-----------------------------------------------------------------------------
(* ensure_session *)

\* Mutant of SessionThreads: a new session keeps its default.
DefaultThreads(d) == 1

\* lw_session_set_intra_op_thread_count on a session that was just created.
SessionThreads(d) == d.threads

\* The handle with what was built for a size.
Rebuilt(d, size, session, input, probabilities) ==
  [d EXCEPT !.session = session, !.sessionSize = size, !.sessionThreads = SessionThreads(d),
            !.input = input, !.probabilities = probabilities,
            !.inputCount = 3 * size[1] * size[2], !.probabilityCount = size[1] * size[2],
            !.size = size]

Fits(d, size) == d.session # NoObject /\ d.size = size

\* The handle, the heap and the status after ensure_session: every outcome it can have.
Ensured(d, objects, size) ==
  LET session == Allocated("session", objects)
      input == Allocated("input", objects)
      probabilities == Allocated("probabilities", objects)
      Failed(built) == [detector |-> d, heap |-> (objects \cup built) \ built, status |-> "FAILED"]
  IN IF Fits(d, size) THEN {[detector |-> d, heap |-> objects, status |-> "OK"]}
     ELSE {Failed(built) : built \in
             {{},                                          \* lw_session_create fails
              {session},                                   \* another output shape, or no memory
              {session, input}, {session, probabilities}}} \* memory for one tensor only
          \cup {[detector |-> Rebuilt(d, size, session, input, probabilities),
                 heap |-> (objects \cup {session, input, probabilities})
                            \ {d.probabilities, d.input, d.session},
                 status |-> "OK"]}

-----------------------------------------------------------------------------
(* The handle: lw_detector_create, lw_detector_free and the setters *)

EmptyHandle(handle, model) ==
  [handle |-> handle, model |-> model, session |-> NoObject, sessionSize |-> <<0, 0>>,
   sessionThreads |-> 1, input |-> NoObject, probabilities |-> NoObject, inputCount |-> 0,
   probabilityCount |-> 0, size |-> <<0, 0>>, threads |-> 1, order |-> HorizontalLtr]

ObjectsOf(d) == {d.handle, d.model, d.session, d.input, d.probabilities}

\* Invalid options, a model that does not load or a session that is not built: the
\* handle is freed with what it has.
Create ==
  /\ \E model \in {NoObject, Allocated("model", heap)} :
       LET handle == Allocated("handle", heap)
           empty == EmptyHandle(handle, model)
           objects == heap \cup ({handle, model} \ {NoObject})
       IN \E made \in IF model = NoObject THEN {[detector |-> empty, heap |-> objects, status |-> "FAILED"]}
                      ELSE Ensured(empty, objects, FirstSize) :
            IF made.status = "OK" THEN detector' = made.detector /\ heap' = made.heap
            ELSE detector' = NoDetector /\ heap' = made.heap \ ObjectsOf(made.detector)
  /\ UNCHANGED detected

Free ==
  /\ detector' = NoDetector
  /\ heap' = heap \ ObjectsOf(detector)
  /\ UNCHANGED detected

SetIntraOpThreadCount(n) ==
  /\ LET count == IF n = 0 THEN 1 ELSE n
     IN detector' = [detector EXCEPT !.threads = count, !.sessionThreads = count]
  /\ UNCHANGED <<heap, detected>>

\* An order that is not valid changes nothing; nothing is done without a handle.
SetReadingOrder(order) ==
  /\ detector' = [detector EXCEPT !.order = order]
  /\ UNCHANGED <<heap, detected>>

-----------------------------------------------------------------------------
(* lw_detector_detect_bgr_u8 *)

\* The answers once the graph has run; capacity 0 stands for no buffer as well.
Answers(image, found, order, capacity, wanted) ==
  LET Answer(status, count, boxes) ==
        [status |-> status, image |-> image, count |-> count, boxes |-> boxes, wanted |-> wanted,
         order |-> order]
  IN {Answer("FAILED", 0, NoBoxes)} \cup  \* memory, or a probability that is no number
     IF ~wanted THEN {Answer("OK", Len(found), NoBoxes)}
     ELSE IF capacity < Len(found) THEN {Answer("OUT_OF_BOUNDS", Len(found), NoBoxes)}
     ELSE {Answer("OK", Len(found), lw_sort_detection_boxes(found, order))} \cup
          (IF order # HorizontalLtr /\ Len(found) >= 2       \* no memory to sort
           THEN {Answer("UNSORTED", Len(found), found)} ELSE {})

Refused(image, order, wanted) ==
  [status |-> "FAILED", image |-> image, count |-> 0, boxes |-> NoBoxes, wanted |-> wanted,
   order |-> order]

TooLarge(image, wanted) ==
  /\ image.pixels > ImageLimit
  /\ detected' = Refused(image, detector.order, wanted)
  /\ UNCHANGED <<detector, heap>>

\* The session, then the preprocessing and the graph, then the boxes.
Detect(image, capacity, wanted) ==
  /\ image.pixels <= ImageLimit
  /\ \E ensured \in Ensured(detector, heap, image.size) :
       /\ detector' = ensured.detector
       /\ heap' = ensured.heap
       /\ \/ detected' = Refused(image, detector.order, wanted)
          \/ /\ ensured.status = "OK"
             /\ detected' \in Answers(image, Found[image], detector.order, capacity, wanted)

\* The caller uses an answer before it calls again.
NextImage ==
  /\ detected' = NoAnswer
  /\ UNCHANGED <<detector, heap>>

DetectorInit ==
  /\ detector = NoDetector
  /\ heap = {}
  /\ detected = NoAnswer

DetectorCalled ==
  \/ Free
  \/ \E n \in IntraThreads : SetIntraOpThreadCount(n)
  \/ \E order \in Orders : SetReadingOrder(order)
  \/ \E image \in Images, wanted \in BOOLEAN : TooLarge(image, wanted)
  \/ \E image \in Images, capacity \in Capacities, wanted \in BOOLEAN :
       (wanted \/ capacity = 0) /\ Detect(image, capacity, wanted)

DetectorNext ==
  IF detected # NoAnswer THEN NextImage
  ELSE IF detector = NoDetector THEN Create ELSE DetectorCalled

-----------------------------------------------------------------------------
(* Properties *)

\* The handle's session, its tensors and what it records of them belong together,
\* with the thread count asked for, and nothing else is allocated: also after a
\* rebuild that failed half way, and after a call that failed later.
DetectorCoherent ==
  IF detector = NoDetector THEN heap = {}
  ELSE /\ heap = ObjectsOf(detector)
       /\ NoObject \notin heap
       /\ detector.sessionSize = detector.size
       /\ detector.inputCount = 3 * detector.size[1] * detector.size[2]
       /\ detector.probabilityCount = detector.size[1] * detector.size[2]
       /\ detector.sessionThreads = detector.threads

\* No pixel of the bitmap outside a region touches it, and no part of a region is
\* without contact to the rest.
IsComponent(bitmap, region) ==
  /\ region \subseteq bitmap
  /\ \A p \in bitmap \ region : \A q \in region : ~Touching(p, q)
  /\ \A p \in region : Flood(region, p) = region

\* The directions from one pixel of a region to another.
Directions(region) ==
  {Direction(pair[1], pair[2]) : pair \in {pair \in region \X region : pair[1] # pair[2]}}

Encloses(r, region) == \A p \in region : Inside(r, p)

\* Going round the corners turns right at each of them (y grows downwards).
GoesRound(quad) ==
  \A i \in 1..4 : Cross(quad[i], quad[(i % 4) + 1], quad[((i + 1) % 4) + 1]) > 0

InSource(map, box) ==
  \A i \in 1..4 : /\ X(box.corners[i]) \in 0..(map.width * map.zoom - 1) * Unit(box.rectangle)
                  /\ Y(box.corners[i]) \in 0..(map.height * map.zoom - 1) * Unit(box.rectangle)

BoxIsRegion(map, bitmap, box) ==
  /\ IsComponent(bitmap, box.region)
  /\ Encloses(box.rectangle, box.region)
  /\ GoesRound(box.quad)
  /\ InSource(map, box)

AreRegions(map, boxes, count) ==
  /\ count = Len(boxes)
  /\ \A i, j \in DOMAIN boxes : boxes[i].region = boxes[j].region => i = j
  /\ \A i \in DOMAIN boxes : BoxIsRegion(map, Bitmap(map), boxes[i])

\* Every box stands for one region of the map, no two for the same.  Its rectangle
\* was computed from the hull of the region's boundary pixels only; still it encloses
\* the whole region.  The box is named clockwise and lies in the source.
BoxesAreRegions ==
  detected.status = "OK" /\ "map" \in DOMAIN detected.image =>
    LET map == detected.image.map
    IN AreRegions(map, lw_db_postprocess_f32(map), detected.count)

SmallestAlong(r, region, directions) ==
  \A d \in directions : ~SmallerArea(Enclosing(d, region), r)

\* The search looks along the edges of a hull only; still no rectangle along any two
\* pixels of a box's region is smaller than the box's.
RectanglesAreSmallest ==
  detected.status = "OK" /\ "map" \in DOMAIN detected.image =>
    LET boxes == lw_db_postprocess_f32(detected.image.map)
    IN \A i \in DOMAIN boxes :
         SmallestAlong(boxes[i].rectangle, boxes[i].region, Directions(boxes[i].region))

\* The ways to arrange n things: which one comes to each place.
Arrangements(n) ==
  {place \in [1..n -> 1..n] : \A i, j \in 1..n : place[i] = place[j] => i = j}

\* Boxes of one line stand from left to right and lines from top to bottom, as far
\* as neighbours tell.
LinesInOrder(boxes) == \A i \in 1..Len(boxes) - 1 : ~ComesAfter(boxes[i], boxes[i + 1])

\* The columns of a vertical page: every column is together, from top to bottom, and
\* the columns follow each other by the means of their boxes' centres.
InColumns(place, items, assigned, order) ==
  LET Column(i) == assigned.of[place[i]]
      Centre(c, d) == assigned.columns[c].sum * assigned.columns[d].count
      Precedes(c, d) == IF order = VerticalRtl THEN Centre(c, d) >= Centre(d, c)
                        ELSE Centre(c, d) <= Centre(d, c)
  IN \A i, j \in DOMAIN place : i < j =>
       IF Column(i) # Column(j) THEN Precedes(Column(i), Column(j))
       ELSE /\ items[place[i]].minY <= items[place[j]].minY
            /\ \A k \in i..j : Column(k) = Column(i)

ColumnsInOrder(boxes, items, assigned, order) ==
  \E place \in Arrangements(Len(items)) :
    /\ boxes = [i \in DOMAIN items |-> items[place[i]].box]
    /\ InColumns(place, items, assigned, order)

Settled(boxes, found, order) ==
  /\ \E place \in Arrangements(Len(found)) : boxes = [i \in DOMAIN found |-> found[place[i]]]
  /\ IF order = HorizontalLtr THEN LinesInOrder(boxes)
     ELSE ColumnsInOrder(boxes, ByX(found), Assigned(ByX(found)), order)

\* The boxes of an answer are those that were found, in the order the handle was set
\* to when the call was made; sorting never loses or doubles a box.
OrderSettled ==
  detected.status = "OK" /\ detected.wanted =>
    Settled(detected.boxes, Found[detected.image], detected.order)
==============================================================================
