----------------------------- MODULE Deserializer -----------------------------
(***************************************************************************)
(* deserialize() of a shape_predictor, number by number, through every     *)
(* level of vectors, trees and matrices.                                   *)
(*                                                                         *)
(* A file is the sequence of its FIELDS in file order; the field that      *)
(* holds the size of a container comes before those of its elements, one   *)
(* level less deep.  The predictor in memory is one CELL for each field:   *)
(*                                                                         *)
(*   "absent"   the container has no such element                          *)
(*   "new"      as its constructor made it: 0, an empty vector or matrix,  *)
(*              or, for a number in a matrix, not initialised              *)
(*   "zeroed"   set to zero by a read that failed                          *)
(*   "asset"    the asset's number, or a container of the asset's size     *)
(***************************************************************************)
EXTENDS ShapePredictor, Sequences, SequencesExt

CONSTANTS
  Numbers,   \* initial_shape.size(), and the size of each leaf
  Trees,     \* forests[l].size()
  Splits,    \* splits.size() of each tree, one less than its leaves
  Pixels,    \* anchor_idx[l].size() and deltas[l].size()
  MaxLoads   \* how often the file is read

ASSUME SizesAssumption == {Numbers, Trees, Splits, Pixels, MaxLoads} \subseteq Nat \ {0}

VARIABLES
  cell,     \* cell[k]: what is in memory for field k
  next,     \* the field that is read next
  reading,  \* deserialize() is running
  before,   \* the predictor when the item of that field was begun
  loads     \* the calls so far

vars == <<cell, next, reading, before, loads>>

(***************************************************************************)
(* The file                                                                *)
(***************************************************************************)
Field(item, depth, kind) == [item |-> item, depth |-> depth, kind |-> kind]

Repeat(n, fields) == FlattenSeq([x \in 1 .. n |-> fields])

Size(item, depth)    == <<Field(item, depth, "size")>>
Integer(item, depth)    == <<Field(item, depth, "int")>>
Float(item, depth)   == <<Field(item, depth, "float")>>
Point(item, depth)   == <<Field(item, depth, "point")>>

\* The rows are kept in a local variable until the columns are read, too.
Matrix(dims, values, depth) ==
  <<Field(dims, depth, "local")>> \o Size(dims, depth) \o Repeat(Numbers, Float(values, depth + 1))

split_feature(l) == Integer(Forest(l), 3) \o Integer(Forest(l), 3) \o Float(Forest(l), 3)

regression_tree(l) ==
  Size(Forest(l), 2) \o Repeat(Splits, split_feature(l))
    \o Size(Forest(l), 2) \o Repeat(Splits + 1, Matrix(Forest(l), Forest(l), 3))

Vector(item, n, element) == Size(item, 1) \o Repeat(n, element)

\* A vector of vectors, one for each level.
Vectors(count, levels) == Size(count, 0) \o FlattenSeq(levels)

anchor_idx(l) == Integer(Anchor(l), 2)
delta(l)      == Point(Delta(l), 2)

File ==
  <<Field(Version, 0, "local")>>
    \o Matrix(ShapeSize, ShapeValues, 0)
    \o Vectors(ForestCount, [l \in Levels |-> Vector(Forest(l), Trees, regression_tree(l))])
    \o Vectors(AnchorCount, [l \in Levels |-> Vector(Anchor(l), Pixels, anchor_idx(l))])
    \o Vectors(DeltaCount, [l \in Levels |-> Vector(Delta(l), Pixels, delta(l))])

Cells  == {k \in DOMAIN File : File[k].kind # "local"}
Of(f)  == {k \in Cells : File[k].item = f}
Is(kind) == {k \in Cells : File[k].kind = kind}

\* A container and an element of it; fields of depth 0 are members of the predictor.
Inside ==
  {pair \in Is("size") \X Cells :
     LET c == pair[1]  k == pair[2]
     IN  /\ c < k /\ File[k].depth = File[c].depth + 1
         /\ \A d \in c + 1 .. k : File[d].depth > File[c].depth}

Present(k) == File[k].depth = 0 \/ \E c \in Is("size") : <<c, k>> \in Inside /\ cell[c] = "asset"

(***************************************************************************)
(* The items of the predictor, as ShapePredictor counts them.              *)
(***************************************************************************)
SlotOf(f) ==
  LET cells == {cell[k] : k \in Of(f)}
      whole == cells \subseteq {"asset", "zeroed"}
  IN  CASE cells = {"asset"}                                 -> "full"
        [] whole /\ "zeroed" \in cells                       -> "damaged"
        [] ~whole /\ "asset" \in cells /\ f \in Elements     -> "torn"
        [] OTHER                                             -> "unread"

Predictor == [f \in Fields |-> SlotOf(f)]

\* The predictor that is promised: an item in progress does not show.
Promised == IF reading THEN before ELSE Predictor
Item     == IF next > Len(File) THEN FileLength ELSE File[next].item

(***************************************************************************)
(* deserialize()                                                           *)
(***************************************************************************)
Init ==
  /\ cell \in {[k \in Cells |-> IF File[k].depth = 0 THEN "new" ELSE "absent"],
               [k \in Cells |-> "asset"]}
  /\ next = 1
  /\ reading = FALSE
  /\ before = Predictor
  /\ loads = 0

Deserialize ==
  /\ ~reading /\ loads < MaxLoads
  /\ reading' = TRUE
  /\ next' = 1
  /\ before' = Predictor
  /\ loads' = loads + 1
  /\ UNCHANGED cell

\* A faulty variant: room is made for the elements, but none is constructed.
Reserved(c) == [cell EXCEPT ![c] = "asset"]

\* A faulty variant: the vector is cleared first.
ResizedAfresh(c) ==
  [k \in Cells |-> IF k = c THEN "asset" ELSE IF <<c, k>> \in Inside THEN "new" ELSE cell[k]]

\* resize() constructs the elements that are missing and keeps the others.
Resized(c) ==
  [k \in Cells |-> IF k = c THEN "asset"
                   ELSE IF <<c, k>> \in Inside /\ cell[k] = "absent" THEN "new" ELSE cell[k]]

Stored(k) ==
  CASE File[k].kind = "local" -> cell
    [] File[k].kind = "size"  -> Resized(k)
    [] OTHER                  -> [cell EXCEPT ![k] = "asset"]

ReadField ==
  /\ reading /\ next <= Len(File)
  /\ cell' = Stored(next)
  /\ next' = next + 1
  /\ before' = IF Item' = Item THEN before ELSE Predictor'
  /\ UNCHANGED <<reading, loads>>

Done ==
  /\ reading /\ next > Len(File)
  /\ reading' = FALSE
  /\ UNCHANGED <<cell, next, before, loads>>

\* A faulty variant: the size of a container is unpacked in place, too.
SizesInPlace ==
  /\ reading /\ next <= Len(File)
  /\ reading' = FALSE
  /\ cell' = IF File[next].kind \in {"int", "point", "size"} /\ cell[next] = "asset"
             THEN [cell EXCEPT ![next] = "zeroed"] ELSE cell
  /\ UNCHANGED <<next, before, loads>>

\* The file ends before or inside the next field.  unpack_int() has zeroed an
\* integer of the predictor then, and the handler for points zeroes a point.
\* A size goes to a local, and a float is kept as it was.
EndOfFile ==
  /\ reading /\ next <= Len(File)
  /\ reading' = FALSE
  /\ cell' = IF File[next].kind \in {"int", "point"} /\ cell[next] = "asset"
             THEN [cell EXCEPT ![next] = "zeroed"] ELSE cell
  /\ UNCHANGED <<next, before, loads>>

Next == Deserialize \/ ReadField \/ Done \/ EndOfFile

Spec == Init /\ [][Next]_vars

(***************************************************************************)
(* Properties                                                              *)
(***************************************************************************)
\* Memory is used as constructed: an element is there exactly when its container
\* has been given its size, and deserialize() never writes to one that is not.
CellsExist ==
  /\ cell \in [Cells -> {"absent", "new", "zeroed", "asset"}]
  /\ \A k \in Cells : cell[k] = "absent" <=> ~Present(k)

\* Number by number, the reader does what ItemReader promises item by item.
Promise == INSTANCE ItemReader WITH predictor <- Promised, item <- Item, reading <- reading

KeepsItems == Promise!Spec

\* What one level of operator() takes for granted: anchor_idx and deltas have the
\* level, no delta is without its anchor or the anchor without a shape, and trees
\* have all their splits, leaves that are set, and pixels to compare.
Usable(l) ==
  LET sized(f) == \E k \in Of(f) : cell[k] = "asset"
  IN  /\ sized(AnchorCount) /\ sized(DeltaCount)
      /\ sized(Delta(l)) => sized(Anchor(l)) /\ sized(ShapeSize)
      /\ sized(Forest(l)) =>
           /\ sized(Delta(l))
           /\ \A k \in Of(Forest(l)) :
                /\ cell[k] # "absent"
                /\ k \in Is("size") \union Is("float") => cell[k] = "asset"

\* Wherever files of any length may have ended, a level that ShapePredictor calls
\* defined, item by item, reads no element that is missing or not initialised.
DefinedIsUsable ==
  ~reading => \A l \in Levels : LevelDefined(Predictor, l) => Usable(l)
=============================================================================
