----------------------------- MODULE MCNativeLib -----------------------------
(***************************************************************************)
(* Two threads and one cascade level, the smallest model in which a load   *)
(* and a detection, or two loads, can overlap.                             *)
(***************************************************************************)
EXTENDS NativeLib, TLC

CONSTANTS T1, T2

MCThreads == {T1, T2}

Symmetry == Permutations(MCThreads)
=============================================================================
