--------------------------- MODULE ShapePredictor ---------------------------
(***************************************************************************)
(* The value of a dlib::shape_predictor, as dlib's deserialize() fills it  *)
(* in and as its operator() uses it.                                       *)
(*                                                                         *)
(* A model file is the sequence of ITEMS that serialize() writes: a        *)
(* version, the size and the values of initial_shape, and then three       *)
(* vectors (forests, anchor_idx, deltas), each a count followed by one     *)
(* element for every cascade level.  A predictor is abstracted to how far  *)
(* each item has been read into it:                                        *)
(*                                                                         *)
(*   "unread"   never read: the outer vector has no such element while     *)
(*              its count is unread, an empty one once the count is read   *)
(*   "torn"     begun on an unread element and cut off by the end of file  *)
(*   "damaged"  begun on a complete element, and cut off: every index is   *)
(*              still in range, but one number in it was set to zero       *)
(*   "full"     the value that the asset holds                             *)
(***************************************************************************)
EXTENDS Naturals

CONSTANT Cascades   \* forests.size() of the asset's model

ASSUME CascadesAssumption == Cascades \in Nat \ {0}

Levels == 1 .. Cascades

(***************************************************************************)
(* The items of a model file, in file order.                               *)
(***************************************************************************)
Version     == 0
ShapeSize   == 1
ShapeValues == 2
ForestCount == 3
Forest(l)   == ForestCount + l
AnchorCount == Forest(Cascades) + 1
Anchor(l)   == AnchorCount + l
DeltaCount  == Anchor(Cascades) + 1
Delta(l)    == DeltaCount + l

FileLength == Delta(Cascades) + 1        \* number of items in a whole file
Fields     == 1 .. Delta(Cascades)       \* the version is not kept
Elements   == Fields \ {ShapeSize, ShapeValues, ForestCount, AnchorCount, DeltaCount}

Slots      == {"unread", "torn", "damaged", "full"}
Predictors == [Fields -> Slots]

Fresh == [f \in Fields |-> "unread"]     \* shape_predictor() {}
Model == [f \in Fields |-> "full"]       \* what the asset describes

(***************************************************************************)
(* deserialize() of one item that the file holds whole.                    *)
(***************************************************************************)
Deserialized(p, item) == [f \in Fields |-> IF f = item THEN "full" ELSE p[f]]

(***************************************************************************)
(* The predictors that may be left behind when the file ends before or     *)
(* inside an item.  Counts, dimensions and floats are read into locals     *)
(* and leave nothing behind; unpack_int() zeroes its target before it      *)
(* looks at the stream, and a point is set to (0,0) when it is cut off.    *)
(***************************************************************************)
Interrupted(p, item) ==
  IF item \notin Elements
  THEN {p}
  ELSE {[p EXCEPT ![item] = s] :
          s \in IF p[item] \in {"full", "damaged"} THEN {"full", "damaged"} ELSE {p[item], "torn"}}

(***************************************************************************)
(* One level of the cascade in operator().  It is defined behaviour only   *)
(* if anchor_idx and deltas have an element for the level, if every delta  *)
(* has its anchor, and if the trees are whole and have pixels to compare.  *)
(***************************************************************************)
LevelDefined(p, l) ==
  /\ p[AnchorCount] = "full" /\ p[DeltaCount] = "full"
  /\ p[Forest(l)] # "torn"
  /\ p[Forest(l)] # "unread" => p[Delta(l)] # "unread"
  /\ p[Delta(l)]  # "unread" => p[Anchor(l)] # "unread"

\* What one level of the cascade uses.
LevelItems(l) ==
  {ShapeSize, ShapeValues, ForestCount, Forest(l), AnchorCount, Anchor(l), DeltaCount, Delta(l)}

LevelFaithful(p, l) ==
  p[Forest(l)] = "full" /\ p[Anchor(l)] = "full" /\ p[Delta(l)] = "full"
=============================================================================
