------------------------------- MODULE MCModel -------------------------------
(***************************************************************************)
(* A model on its way from the file to a leaf: either files are read, of   *)
(* every length and several times over, or a tree is walked.  The two have *)
(* no state in common, so one does not move while the other does.          *)
(*                                                                         *)
(* Trees have up to 31 splits, the full ones of depth 0 to 5 among them,   *)
(* and Word is the smallest with room for the largest of them.             *)
(***************************************************************************)
EXTENDS Deserializer, RegressionTree

UpTo31 == 0 .. 31

MCInit == Init /\ Root

MCNext ==
  \/ splits = 0 /\ pc = "walk" /\ Next /\ UNCHANGED walkVars
  \/ loads = 0 /\ before = Fresh /\ Step /\ UNCHANGED vars

MCSpec == MCInit /\ [][MCNext]_<<vars, walkVars>>
=============================================================================
