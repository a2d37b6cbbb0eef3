---------------------------- MODULE MCMainActivity ----------------------------
(***************************************************************************)
(* Values of the constants of MainActivity.  Two cascade levels let the    *)
(* file end in every kind of item, and between two elements of a vector.   *)
(***************************************************************************)
EXTENDS MainActivity

AllFaults == {"io", "kill", "power", "remove", "decode"}
NoFaults  == {}
KillOnly  == {"kill"}
IOOnly    == {"io"}
PowerOnly == {"power"}
=============================================================================
