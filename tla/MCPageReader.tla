---------------------------- MODULE MCPageReader ----------------------------
(* Maps of up to 11 x 7 pixels, pages of three and four boxes, and lines of   *)
(* three or four time steps over five classes: the blank, labels of two, no   *)
(* and three bytes, and the space.                                            *)
EXTENDS PageReader

Block(x, y, width, height) == {<<i, j>> : i \in x..x + width - 1, j \in y..y + height - 1}
Diamond(x, y, n) == {p \in Block(x - n, y - n, 2 * n + 1, 2 * n + 1) :
                       Distance(p[1], x) + Distance(p[2], y) <= n}
Slanted(x, y) == {p \in Block(x, y, 8, 7) : 2 * (p[2] - y) - (p[1] - x) \in 0..6}

\* Foreground of the given probability on background of another.
Map(width, height, foreground, value, dilate, zoom) ==
  [width |-> width, height |-> height, dilate |-> dilate, zoom |-> zoom,
   values |-> [p \in (0..width - 1) \X (0..height - 1) |->
                 IF p \in foreground THEN value ELSE 1]]

Pictured(map) ==
  [size |-> <<map.width, map.height>>, pixels |-> map.width * map.height * map.zoom * map.zoom,
   map |-> map]

Shapes ==
  {Block(x, y, 4, 5) : x \in {0, 1, 3}, y \in {0, 1}}
    \cup {Block(2, 1, 5, 5) \ {<<2, 1>>, <<6, 5>>}, Block(1, 1, 6, 4) \ Block(3, 2, 2, 2),
          Block(0, 0, 4, 4) \cup Block(4, 4, 3, 2), Block(1, 1, 4, 4) \cup {<<7, 0>>},
          Block(1, 1, 4, 4) \cup {<<5, 5>>, <<6, 6>>}, Diamond(3, 3, 3), Diamond(4, 3, 2),
          Slanted(0, 0), Block(2, 2, 3, 3), {}}

MCMaps ==
  {Map(8, 7, shape, value, FALSE, zoom) : shape \in Shapes, value \in {5, 9}, zoom \in {1, 2}}
    \cup {Map(8, 7, shape, 9, TRUE, 1) : shape \in Shapes}
    \cup {Map(11, 6, Block(0, y, 4, 4) \cup Block(x, 1, 5, 5) \cup extra, 9, FALSE, 1) :
            y \in 0..2, x \in {4, 5, 6}, extra \in {{}, {<<10, 0>>}}}

\* Boxes of three lines or columns, some of them slanted, in the order of a scan.
Upright(x, y, width, height) ==
  <<<<x, y>>, <<x + width, y>>, <<x + width, y + height>>, <<x, y + height>>>>
Tilted(x, y) == <<<<x, y>>, <<x + 20, y - 6>>, <<x + 22, y + 2>>, <<x + 2, y + 8>>>>
Boxes ==
  {Upright(40, 0, 10, 30), Upright(20, 4, 12, 20), Upright(0, 8, 10, 24), Upright(6, 8, 10, 8),
   Upright(0, 16, 30, 6), Upright(22, 30, 8, 8), Tilted(10, 14)}
Scanned(boxes) ==
  \A i \in 1..Len(boxes) - 1 : /\ Smallest(Ys(boxes[i])) <= Smallest(Ys(boxes[i + 1]))
                               /\ boxes[i] # boxes[i + 1]
Pages ==
  {boxes \in [1..3 -> Boxes] \cup [1..4 -> Boxes] :
     Scanned(boxes) /\ \A i, j \in DOMAIN boxes : boxes[i] = boxes[j] => i = j}

MCImages ==
  {Pictured(map) : map \in MCMaps}
    \cup {[size |-> <<11, 6>>, pixels |-> 66, boxes |-> boxes] : boxes \in Pages}
MCFirstSize == <<4, 4>>
MCImageLimit == 200

\* Five classes on a parabola: the feature chooses the best one; two of the graphs have
\* no peculiarity the fused projection could use.
Curve(inner) ==
  [address \in 0..inner * 5 - 1 |->
     LET c == address % 5
     IN IF address < 5 THEN 2 * c ELSE IF address < 10 THEN -(c * c) ELSE c]
Graph(terminal, constant, bias) ==
  [inner |-> 2, weights |-> Curve(2), bias |-> bias, terminalSoftmax |-> terminal,
   constantWeights |-> constant, constantBias |-> constant]
Negative == [c \in 0..4 |-> -9]
Uneven == [c \in 0..4 |-> c % 2]
MCGraphs ==
  {Graph(TRUE, TRUE, Negative), Graph(TRUE, TRUE, Uneven), Graph(TRUE, FALSE, Uneven),
   Graph(FALSE, TRUE, Uneven)}

MCLabelLengths == <<2, 0, 3>>
Feature(n) == <<n, 1>>
MCLines ==
  {[t \in 1..n |-> Feature(f[t])] :
     n \in {3, 4}, f \in {f \in [1..4 -> 0..4] : f[4] \in {0, f[1], f[3]}}}
MCSpoilings == {{}, {3}}
=============================================================================
