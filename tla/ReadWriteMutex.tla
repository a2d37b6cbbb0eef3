---------------------------- MODULE ReadWriteMutex ----------------------------
(***************************************************************************)
(* dlib::read_write_mutex (threads/read_write_mutex_extension.h): a pool   *)
(* of max_locks locks of which a reader takes one and a writer, bit by     *)
(* bit, all.  Everything between two waits runs under the mutex m and is   *)
(* one step here.  All sleep on the one signaler s.                        *)
(*                                                                         *)
(* A readonly lock that a thread has is a pair of the thread and a depth:  *)
(* the documentation lets a thread that has one ask for another.           *)
(***************************************************************************)
EXTENDS Naturals, FiniteSets

CONSTANTS
  Threads,
  MaxLocks,   \* max_locks
  Nesting     \* how many readonly locks a thread may have

ASSUME ThreadsAssumption == IsFiniteSet(Threads)
ASSUME LocksAssumption   == MaxLocks \in Nat \ {0} /\ Nesting \in Nat \ {0}

VARIABLES
  available,    \* available_locks
  inProgress,   \* write_lock_in_progress
  active,       \* write_lock_active
  obtained,     \* locks_obtained, a local of the one lock() in progress
  pc,           \* pc[t]: what t is doing
  held,         \* the readonly locks that threads have
  asleep        \* the threads that sleep on the signaler s

vars == <<available, inProgress, active, obtained, pc, held, asleep>>

\* "idle", waiting for another writer, grabbing locks, having the write lock,
\* or waiting for a readonly lock
Labels == {"idle", "queue", "grab", "writing", "reader"}

Locks == Threads \X (1 .. Nesting)

TypeOK ==
  /\ available \in 0 .. MaxLocks
  /\ inProgress \in BOOLEAN
  /\ active \in BOOLEAN
  /\ obtained \in 0 .. MaxLocks
  /\ pc \in [Threads -> Labels]
  /\ held \in SUBSET Locks
  /\ asleep \in SUBSET Threads

Init ==
  /\ available = MaxLocks
  /\ inProgress = FALSE
  /\ active = FALSE
  /\ obtained = 0
  /\ pc = [t \in Threads |-> "idle"]
  /\ held = {}
  /\ asleep = {}

HasReadonly(t) == \E depth \in 1 .. Nesting : <<t, depth>> \in held
Writers        == {t \in Threads : pc[t] = "writing"}
Waiting(t)     == pc[t] \in {"queue", "grab", "reader"}

Goto(t, to) == pc' = [pc EXCEPT ![t] = to]

(***************************************************************************)
(* lock()                                                                  *)
(***************************************************************************)
\* The calls that are in the first loop: from the start, or woken up in it.
Queueing(t) ==
  /\ t \notin asleep
  /\ pc[t] = "queue" \/ (pc[t] = "idle" /\ ~HasReadonly(t))

Queue(t) ==
  /\ Queueing(t)
  /\ inProgress
  /\ Goto(t, "queue")
  /\ asleep' = asleep \union {t}
  /\ UNCHANGED <<available, inProgress, active, obtained, held>>

\* A faulty variant: nothing is put on record for those that come later.
GrabUnnoticed(t, sum) ==
  /\ available' = 0
  /\ IF sum = MaxLocks
     THEN /\ obtained' = 0 /\ active' = TRUE
          /\ Goto(t, "writing")
          /\ UNCHANGED asleep
     ELSE /\ obtained' = sum /\ UNCHANGED active
          /\ Goto(t, "grab")
          /\ asleep' = asleep \union {t}
  /\ UNCHANGED <<inProgress, held>>

\* A faulty variant: the locks are counted and left where they are.
GrabWithoutTaking(t, sum) ==
  /\ UNCHANGED available
  /\ IF sum = MaxLocks
     THEN /\ inProgress' = FALSE /\ active' = TRUE /\ obtained' = 0
          /\ Goto(t, "writing")
          /\ UNCHANGED asleep
     ELSE /\ inProgress' = TRUE /\ obtained' = sum
          /\ Goto(t, "grab")
          /\ asleep' = asleep \union {t}
          /\ UNCHANGED active
  /\ UNCHANGED held

\* The second loop, once the locks that are available have been added up.
Grab(t, sum) ==
  /\ available' = 0
  /\ IF sum = MaxLocks
     THEN /\ inProgress' = FALSE /\ active' = TRUE /\ obtained' = 0
          /\ Goto(t, "writing")
          /\ UNCHANGED asleep
     ELSE /\ inProgress' = TRUE /\ obtained' = sum
          /\ Goto(t, "grab")
          /\ asleep' = asleep \union {t}
          /\ UNCHANGED active
  /\ UNCHANGED held

StartGrabbing(t) == Queueing(t) /\ ~inProgress /\ Grab(t, available)

\* Faulty variants: what was obtained before is forgotten; the loop is an if.
GoOnForgetful(t) ==
  pc[t] = "grab" /\ t \notin asleep /\ Grab(t, available)
GoOnOnce(t) ==
  pc[t] = "grab" /\ t \notin asleep /\ Grab(t, MaxLocks)

GoOnGrabbing(t) ==
  pc[t] = "grab" /\ t \notin asleep /\ Grab(t, obtained + available)

(***************************************************************************)
(* unlock(), which does nothing unless there is a write lock               *)
(***************************************************************************)
\* A faulty variant: nobody is woken up.
UnlockSilently(t) ==
  /\ pc[t] = "writing"
  /\ Goto(t, "idle")
  /\ IF active
     THEN available' = MaxLocks /\ active' = FALSE
     ELSE UNCHANGED <<available, active>>
  /\ UNCHANGED <<inProgress, obtained, held, asleep>>

Unlock(t) ==
  /\ pc[t] = "writing"
  /\ Goto(t, "idle")
  /\ IF active
     THEN available' = MaxLocks /\ active' = FALSE /\ asleep' = {}
     ELSE UNCHANGED <<available, active, asleep>>
  /\ UNCHANGED <<inProgress, obtained, held>>

(***************************************************************************)
(* lock_readonly()                                                         *)
(***************************************************************************)
\* The lock that t gets next, if it may have another.
NextLocks(t) ==
  {lock \in Locks \ held : lock[1] = t /\ \A depth \in 1 .. lock[2] - 1 : <<t, depth>> \in held}

LockReadonly(t) ==
  /\ t \notin asleep
  /\ pc[t] \in {"idle", "reader"}
  /\ NextLocks(t) # {}
  /\ IF available = 0
     THEN /\ Goto(t, "reader")
          /\ asleep' = asleep \union {t}
          /\ UNCHANGED <<available, held>>
     ELSE /\ Goto(t, "idle")
          /\ available' = available - 1
          /\ \E lock \in NextLocks(t) : held' = held \union {lock}
          /\ UNCHANGED asleep
  /\ UNCHANGED <<inProgress, active, obtained>>

(***************************************************************************)
(* unlock_readonly()                                                       *)
(***************************************************************************)
\* A faulty variant: only writers are told.
WakesWriters == inProgress

\* Whether some other thread might be listening.
Wakes == available = 0 \/ inProgress

\* What unlock_readonly() does to the mutex.
GiveBack ==
  /\ IF available # MaxLocks /\ ~active
     THEN /\ available' = available + 1
          /\ asleep' = IF Wakes THEN {} ELSE asleep
     ELSE UNCHANGED <<available, asleep>>
  /\ UNCHANGED <<inProgress, active, obtained>>

UnlockReadonly(t) ==
  /\ pc[t] = "idle"
  /\ \E lock \in held : lock[1] = t /\ held' = held \ {lock}
  /\ GiveBack
  /\ UNCHANGED pc

\* pthread_cond_wait() may return although nobody signaled.
Spurious(t) ==
  /\ t \in asleep
  /\ asleep' = asleep \ {t}
  /\ UNCHANGED <<available, inProgress, active, obtained, pc, held>>

\* What the code does without its caller: going on after it was woken up.
GoOn(t) ==
  /\ pc[t] \in {"queue", "grab", "reader"}
  /\ Queue(t) \/ StartGrabbing(t) \/ GoOnGrabbing(t) \/ LockReadonly(t)

Release(t) == Unlock(t) \/ UnlockReadonly(t)

Next == \E t \in Threads :
  \/ Queue(t) \/ StartGrabbing(t) \/ GoOnGrabbing(t) \/ Unlock(t)
  \/ LockReadonly(t) \/ UnlockReadonly(t) \/ Spurious(t)

Spec == Init /\ [][Next]_vars

\* A thread runs on when it can, and gives back what it has got.
FairSpec ==
  /\ Spec
  /\ \A t \in Threads : WF_vars(GoOn(t)) /\ WF_vars(Release(t))
-----------------------------------------------------------------------------
(***************************************************************************)
(* No lock is lost or made up: those that are free, those that a lock() in *)
(* progress has grabbed, those that readers have and those of an active    *)
(* write lock are max_locks in all.                                        *)
(***************************************************************************)
Conservation ==
  available + obtained + Cardinality(held) + (IF active THEN MaxLocks ELSE 0) = MaxLocks

(***************************************************************************)
(* The flags tell the truth of the threads: write_lock_in_progress is set  *)
(* for the one thread that is grabbing, write_lock_active for the one      *)
(* that has the write lock, and what is grabbed is held by such a thread.  *)
(***************************************************************************)
FlagsTell ==
  /\ inProgress <=> \E t \in Threads : pc[t] = "grab"
  /\ active <=> Writers # {}
  /\ \A t, u \in Threads : pc[t] = pc[u] /\ pc[t] \in {"grab", "writing"} => t = u
  /\ ~inProgress => obtained = 0

(***************************************************************************)
(* No wake-up is lost.  A thread that waits for what is there has been     *)
(* woken up: a reader by a free lock, a writer by the last lock it lacks,  *)
(* and the next in the queue as soon as nobody is ahead and nobody writes. *)
(***************************************************************************)
NoLostWakeup == \A t \in asleep :
  /\ pc[t] = "reader" => available = 0
  /\ pc[t] = "grab" => available = 0
  /\ pc[t] = "queue" => inProgress \/ active

(***************************************************************************)
(* Whenever threads wait, a thread that runs has a lock before long, and   *)
(* the mutex moves on when it gives that back.  Only where a thread asks   *)
(* for a second readonly lock, as it may, all of them may stand still: its *)
(* first lock is what a writer, that has grabbed the others, waits for.    *)
(***************************************************************************)
NestedWait == \E t \in Threads : pc[t] = "reader" /\ HasReadonly(t)

NoStandstill ==
  (\E t \in Threads : Waiting(t)) ~>
    (NestedWait \/ \E t \in Threads : ~Waiting(t) /\ (HasReadonly(t) \/ t \in Writers))

\* The locks are handed out as a readers-writers lock hands them out.
Promise == INSTANCE ReadersWriters WITH writers <- Writers
KeepsPromise == Promise!Spec
=============================================================================
