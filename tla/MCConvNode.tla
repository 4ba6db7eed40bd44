----------------------------- MODULE MCConvNode -----------------------------
(* Small convolutions: vectors of four and two floats, tiles of two and four. *)
EXTENDS ConvNode

\* A node with input channels, output channels and groups of g = <<ic, oc, groups>>.
Node(g, in, k, s, d, pads) ==
  LET out(n) == (in[n] + pads[n] + pads[n + 2] - (k[n] - 1) * d[n] - 1) \div s[n] + 1
  IN [transposed |-> FALSE, ic |-> g[1], oc |-> g[2], groups |-> g[3], in |-> in,
      out |-> <<out(1), out(2)>>, k |-> k, s |-> s, d |-> d, pads |-> pads,
      weights |-> 0, input |-> 0, bias |-> 0, output |-> 0]

Transposed(g, in, k, s, d, pads) ==
  LET out(n) == (in[n] - 1) * s[n] - pads[n] - pads[n + 2] + (k[n] - 1) * d[n] + 1
  IN [Node(g, in, <<1, 1>>, s, d, <<0, 0, 0, 0>>) EXCEPT
        !.transposed = TRUE, !.out = <<out(1), out(2)>>, !.k = k, !.pads = pads]

Unit == <<1, 1>>
Around(n) == <<n, n, n, n>>

MCConvs ==
  {Node(g, in, <<1, 1>>, Unit, Unit, Around(0)) :
     g \in {<<2, 3, 1>>, <<2, 4, 1>>, <<4, 4, 2>>}, in \in {<<2, 7>>, <<3, 5>>}}
  \union {Node(g, in, <<3, 3>>, Unit, Unit, Around(1)) :
     g \in {<<2, 3, 1>>, <<2, 4, 1>>, <<3, 3, 3>>, <<4, 4, 2>>}, in \in {<<3, 11>>, <<1, 1>>}}
  \union {Node(<<3, 3, 3>>, in, <<3, 3>>, <<2, 1>>, Unit, Around(1)) :
     in \in {<<4, 6>>, <<5, 6>>, <<1, 2>>}}
  \union {Node(<<2, 2, 2>>, in, <<5, 5>>, Unit, Unit, Around(2)) : in \in {<<4, 7>>, <<1, 2>>}}
  \union {Node(<<2, 2, 2>>, in, <<9, 9>>, Unit, Unit, Around(4)) : in \in {<<9, 9>>, <<4, 3>>}}
  \union {Node(<<1, 2, 1>>, in, <<7, 7>>, Unit, Unit, Around(3)) : in \in {<<7, 7>>, <<2, 7>>}}
  \union {Node(<<1, oc, 1>>, in, <<5, 5>>, Unit, Unit, Around(2)) :
     oc \in {2, 3}, in \in {<<5, 9>>, <<3, 2>>}}
  \union {Node(<<2, 2, 1>>, in, <<7, 1>>, Unit, Unit, <<3, 0, 3, 0>>) : in \in {<<7, 5>>, <<2, 5>>}}
  \union {Node(<<2, 2, 1>>, in, <<1, 7>>, Unit, Unit, <<0, 3, 0, 3>>) : in \in {<<2, 9>>, <<2, 2>>}}
  \union {Node(<<2, 2, 1>>, in, <<5, 1>>, Unit, Unit, <<2, 0, 2, 0>>) : in \in {<<6, 5>>, <<1, 5>>}}
  \union {Node(<<2, 2, 1>>, in, <<1, 5>>, Unit, Unit, <<0, 2, 0, 2>>) : in \in {<<2, 9>>, <<2, 1>>}}
  \union {Node(<<2, oc, 1>>, in, <<2, 2>>, Unit, Unit, <<0, 0, 1, 1>>) :
     oc \in {3, 4}, in \in {<<2, 6>>, <<1, 1>>}}
  \union {Node(g, in, <<3, 3>>, <<2, 2>>, Unit, Around(1)) :
     g \in {<<2, 3, 1>>, <<5, 3, 1>>, <<1, 2, 1>>, <<1, 4, 1>>, <<2, 8, 1>>},
     in \in {<<5, 21>>, <<4, 20>>, <<1, 1>>}}
  \union {Node(<<2, 2, 1>>, <<5, 6>>, <<3, 2>>, <<2, 1>>, <<1, 2>>, <<1, 0, 0, 1>>)}
  \union {Transposed(g, in, <<2, 2>>, <<2, 2>>, Unit, Around(0)) :
     g \in {<<2, 2, 1>>, <<1, 2, 1>>}, in \in {<<2, 5>>, <<1, 9>>}}
  \union {Transposed(<<2, 2, groups>>, <<2, 2>>, <<3, 3>>, <<2, 1>>, <<1, 2>>, <<1, 1, 0, 1>>) :
     groups \in {1, 2}}
=============================================================================
