------------------------------ MODULE Landmarks ------------------------------
(***************************************************************************)
(* What the user of the app is promised: start it and, without further     *)
(* ado, it shows the landmarks that the model finds in the picture.        *)
(***************************************************************************)
VARIABLE phase   \* "off", "starting" or "showing"

TypeOK == phase \in {"off", "starting", "showing"}

Init == phase = "off"

Start == phase = "off" /\ phase' = "starting"
Show  == phase = "starting" /\ phase' = "showing"
Again == phase = "showing" /\ phase' = "starting"
Leave == phase = "showing" /\ phase' = "off"

Next == Start \/ Show \/ Again \/ Leave

Spec == Init /\ [][Next]_phase /\ WF_phase(Show)
=============================================================================
