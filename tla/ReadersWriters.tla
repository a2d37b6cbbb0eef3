---------------------------- MODULE ReadersWriters ----------------------------
(***************************************************************************)
(* What a read_write_mutex promises: at most MaxLocks readonly locks at a  *)
(* time, or one write lock and no readonly lock at all.                    *)
(***************************************************************************)
EXTENDS Naturals, FiniteSets

CONSTANTS Threads, Nesting, MaxLocks

VARIABLES
  held,     \* the readonly locks that threads have, as <<thread, depth>>
  writers   \* the threads that have a write lock

Init == held = {} /\ writers = {}

ObtainReadonly ==
  /\ writers = {} /\ Cardinality(held) < MaxLocks
  /\ \E lock \in (Threads \X (1 .. Nesting)) \ held : held' = held \union {lock}
  /\ UNCHANGED writers

ReleaseReadonly ==
  /\ \E lock \in held : held' = held \ {lock}
  /\ UNCHANGED writers

ObtainWrite ==
  /\ writers = {} /\ held = {}
  /\ \E t \in Threads : writers' = {t}
  /\ UNCHANGED held

ReleaseWrite == writers # {} /\ writers' = {} /\ UNCHANGED held

Next == ObtainReadonly \/ ReleaseReadonly \/ ObtainWrite \/ ReleaseWrite

Spec == Init /\ [][Next]_<<held, writers>>
=============================================================================
