--------------------------- MODULE MCReadWriteMutex ---------------------------
(* Four threads that lock and unlock in any order. *)
EXTENDS ReadWriteMutex

CONSTANTS T1, T2, T3, T4

Four == {T1, T2, T3, T4}
=============================================================================
