------------------------------ MODULE ItemReader ------------------------------
(***************************************************************************)
(* What deserialize() of a shape_predictor promises, item by item: every   *)
(* item that the file holds whole replaces that of the predictor, in file  *)
(* order, and a file that ends early does to the item it ends in what      *)
(* Interrupted allows and nothing to any other.                            *)
(***************************************************************************)
EXTENDS ShapePredictor

VARIABLES
  predictor,   \* the value that is read into
  item,        \* the next item of the file
  reading      \* deserialize() is running

Init == predictor \in {Fresh, Model} /\ item = Version /\ reading = FALSE

Begin ==
  /\ ~reading /\ reading' = TRUE
  /\ item' = Version
  /\ UNCHANGED predictor

Read ==
  /\ reading /\ item < FileLength
  /\ predictor' = Deserialized(predictor, item)
  /\ item' = item + 1
  /\ UNCHANGED reading

\* The last item has been read.
End ==
  /\ reading /\ item = FileLength
  /\ reading' = FALSE
  /\ UNCHANGED <<predictor, item>>

\* The file ends: serialization_error.
Cut ==
  /\ reading /\ item < FileLength
  /\ reading' = FALSE
  /\ predictor' \in Interrupted(predictor, item)
  /\ UNCHANGED item

Next == Begin \/ Read \/ End \/ Cut

Spec == Init /\ [][Next]_<<predictor, item, reading>>
=============================================================================
