-------------------------------- MODULE MCNv21 --------------------------------
(***************************************************************************)
(* Small pictures.  Every combination of an even and an odd side occurs,   *)
(* more than one chroma row and column, and planes of an odd length.       *)
(***************************************************************************)
EXTENDS Nv21

Grid       == (1 .. 3) \X (1 .. 3) \union {<<2, 4>>, <<4, 2>>, <<2, 5>>, <<6, 2>>}
SmallEven  == {<<2, 2>>}
TallOdd    == {<<2, 3>>}

Rgb(r, g, b) == [red |-> r, green |-> g, blue |-> b]

Orange     == Rgb(255, 128, 0)
Green      == Rgb(0, 255, 0)
Shade      == Rgb(77, 77, 77)
TwoColours == {Orange, Shade}
Greys      == {Rgb(g, g, g) : g \in {0, 1, 15, 77, 127, 128, 254, 255}}
TenColours == Greys \union {Orange, Green}

\* Pictures of two colours in every size, of ten colours in the least even one.
MCInit ==
  /\ \E size \in Sizes : width = size[1] /\ height = size[2]
  /\ argbPixels \in [0 .. frameSize - 1 ->
                       IF <<width, height>> \in SmallEven THEN Colours ELSE TwoColours]
  /\ Init

MCSpec == MCInit /\ [][Next]_vars

AnyByte == {-128, 0, 127}
=============================================================================
