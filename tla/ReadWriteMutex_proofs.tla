------------------------ MODULE ReadWriteMutex_proofs ------------------------
(***************************************************************************)
(* Theorems about read_write_mutex, for any number of threads and locks:   *)
(* its invariants, and that it implements ReadersWriters.                  *)
(***************************************************************************)
EXTENDS ReadWriteMutex, FiniteSetTheorems, TLAPS

\* Conservation counts the locks and FlagsTell says whose they are.  Neither
\* is inductive alone: that the one who unlocks gives all locks back needs the
\* flag, and that nobody has a lock where a writer gets the last needs the count.
IInv == TypeOK /\ Conservation /\ FlagsTell

LEMMA NumberFacts ==
  MaxLocks \in Nat /\ MaxLocks > 0 /\ Nesting \in Nat /\ Nesting > 0
BY LocksAssumption

\* The readonly locks that threads have can be counted.
LEMMA HeldFinite ==
  ASSUME TypeOK
  PROVE  IsFiniteSet(held) /\ Cardinality(held) \in Nat
<1>1. IsFiniteSet(1 .. Nesting)
  BY NumberFacts, FS_Interval
<1>2. IsFiniteSet(Locks)
  BY <1>1, ThreadsAssumption, FS_Product DEF Locks
<1>3. IsFiniteSet(held)
  BY <1>2, FS_Subset DEF TypeOK
<1> QED BY <1>3, FS_CardinalityType
-----------------------------------------------------------------------------
(***************************************************************************)
(* What the numbers tell                                                   *)
(***************************************************************************)
\* With a write lock there is nothing else.
LEMMA WriterAlone ==
  ASSUME TypeOK, Conservation, active
  PROVE  available = 0 /\ obtained = 0 /\ held = {}
<1>1. Cardinality(held) \in Nat /\ IsFiniteSet(held)
  BY HeldFinite
<1>2. available = 0 /\ obtained = 0 /\ Cardinality(held) = 0
  BY <1>1, NumberFacts DEF TypeOK, Conservation
<1> QED BY <1>1, <1>2, FS_EmptySet

\* Who has got all locks together has left none to others.
LEMMA AllTogether ==
  ASSUME TypeOK, Conservation, available + obtained = MaxLocks
  PROVE  held = {} /\ ~active
<1>1. Cardinality(held) \in Nat /\ IsFiniteSet(held)
  BY HeldFinite
<1>2. Cardinality(held) = 0 /\ ~active
  BY <1>1, NumberFacts DEF TypeOK, Conservation
<1> QED BY <1>1, <1>2, FS_EmptySet

\* Where a lock is free or has been grabbed, nobody has a write lock.
LEMMA SomeLeft ==
  ASSUME TypeOK, Conservation, available + obtained > 0
  PROVE  ~active /\ Cardinality(held) < MaxLocks
<1>1. Cardinality(held) \in Nat
  BY HeldFinite
<1> QED BY <1>1, NumberFacts DEF TypeOK, Conservation

LEMMA LastReader ==
  ASSUME TypeOK, Conservation, held # {}
  PROVE  ~active /\ available # MaxLocks
<1>1. Cardinality(held) \in Nat /\ IsFiniteSet(held)
  BY HeldFinite
<1>2. Cardinality(held) # 0
  BY <1>1, FS_EmptySet
<1> QED BY <1>1, <1>2, NumberFacts DEF TypeOK, Conservation
-----------------------------------------------------------------------------
(***************************************************************************)
(* The invariant, action by action                                         *)
(***************************************************************************)
LEMMA InitInv == Init => IInv
<1> SUFFICES ASSUME Init PROVE IInv
  OBVIOUS
<1>1. TypeOK
  <2>1. available \in 0 .. MaxLocks /\ obtained \in 0 .. MaxLocks
    BY NumberFacts DEF Init
  <2> QED BY <2>1 DEF Init, TypeOK, Labels
<1>2. Conservation
  <2>1. Cardinality(held) = 0
    BY FS_EmptySet DEF Init
  <2> QED BY <2>1, NumberFacts DEF Init, Conservation
<1>3. FlagsTell
  BY DEF Init, FlagsTell, Writers
<1> QED BY <1>1, <1>2, <1>3 DEF IInv

LEMMA QueueInv ==
  ASSUME IInv, NEW t \in Threads, Queue(t)
  PROVE  IInv'
<1>1. TypeOK'
  BY DEF IInv, TypeOK, Queue, Goto, Labels
<1>2. Conservation'
  BY DEF IInv, Conservation, Queue
<1>3. FlagsTell'
  <2>1. pc \in [Threads -> Labels] /\ pc' = [pc EXCEPT ![t] = "queue"]
        /\ pc[t] \in {"queue", "idle"}
    BY DEF IInv, TypeOK, Queue, Queueing, Goto
  <2>2. \A u \in Threads : pc'[u] \in {"grab", "writing"} \/ pc[u] \in {"grab", "writing"} => pc'[u] = pc[u]
    BY <2>1
  <2>3. UNCHANGED <<inProgress, active, obtained>>
    BY DEF Queue
  <2> QED BY <2>2, <2>3 DEF IInv, FlagsTell, Writers
<1> QED BY <1>1, <1>2, <1>3 DEF IInv

\* Both loops of lock(): sum is what is free and what was obtained before.
LEMMA GrabInv ==
  ASSUME IInv, NEW t \in Threads, NEW sum, sum = available + obtained, Grab(t, sum),
         \A u \in Threads : pc[u] = "grab" => u = t, pc[t] # "writing"
  PROVE  IInv'
<1>1. /\ available \in 0 .. MaxLocks /\ obtained \in 0 .. MaxLocks
      /\ pc \in [Threads -> Labels] /\ asleep \in SUBSET Threads
      /\ Cardinality(held) \in Nat
  BY HeldFinite DEF IInv, TypeOK
<1>2. sum \in 0 .. MaxLocks
  BY <1>1, NumberFacts DEF IInv, TypeOK, Conservation
<1>3. available' = 0 /\ held' = held
  BY DEF Grab
<1>4. CASE sum = MaxLocks
  <2>1. /\ inProgress' = FALSE /\ active' = TRUE /\ obtained' = 0
        /\ pc' = [pc EXCEPT ![t] = "writing"] /\ asleep' = asleep
    BY <1>4 DEF Grab, Goto
  <2>2. held = {} /\ ~active
    BY <1>1, <1>4, NumberFacts, AllTogether DEF IInv
  <2>3. TypeOK'
    <3>1. available' \in 0 .. MaxLocks /\ obtained' \in 0 .. MaxLocks
      BY <1>3, <2>1, NumberFacts
    <3>2. pc' \in [Threads -> Labels]
      BY <1>1, <2>1 DEF Labels
    <3> QED BY <1>1, <1>3, <2>1, <3>1, <3>2 DEF IInv, TypeOK
  <2>4. Conservation'
    <3>1. Cardinality(held') = 0
      BY <1>3, <2>2, FS_EmptySet
    <3> QED BY <1>3, <2>1, <3>1, NumberFacts DEF Conservation
  <2>5. FlagsTell'
    <3>1. \A u \in Threads : pc[u] # "writing"
      BY <2>2 DEF IInv, FlagsTell, Writers
    <3>2. \A u \in Threads : pc'[u] # "grab"
      BY <1>1, <2>1
    <3>3. \A u \in Threads : pc'[u] = "writing" <=> u = t
      BY <1>1, <2>1, <3>1
    <3> QED BY <2>1, <3>2, <3>3 DEF FlagsTell, Writers
  <2> QED BY <2>3, <2>4, <2>5 DEF IInv
<1>5. CASE sum # MaxLocks
  <2>1. /\ inProgress' = TRUE /\ active' = active /\ obtained' = sum
        /\ pc' = [pc EXCEPT ![t] = "grab"] /\ asleep' = asleep \union {t}
    BY <1>5 DEF Grab, Goto
  <2>2. TypeOK'
    BY <1>1, <1>2, <1>3, <2>1, NumberFacts DEF IInv, TypeOK, Labels
  <2>3. Conservation'
    BY <1>1, <1>3, <2>1, NumberFacts DEF IInv, Conservation
  <2>4. FlagsTell'
    <3>1. \A u \in Threads : pc'[u] = "writing" <=> pc[u] = "writing"
      BY <1>1, <2>1
    <3>2. \A u \in Threads : pc'[u] = "grab" <=> u = t
      BY <1>1, <2>1
    <3> QED BY <2>1, <3>1, <3>2 DEF IInv, FlagsTell, Writers
  <2> QED BY <2>2, <2>3, <2>4 DEF IInv
<1> QED BY <1>4, <1>5

LEMMA StartGrabbingInv ==
  ASSUME IInv, NEW t \in Threads, StartGrabbing(t)
  PROVE  IInv'
<1>1. ~inProgress /\ Grab(t, available) /\ pc[t] \in {"queue", "idle"}
  BY DEF StartGrabbing, Queueing
<1>2. obtained = 0 /\ \A u \in Threads : pc[u] # "grab"
  BY <1>1 DEF IInv, FlagsTell
<1>3. available = available + obtained
  BY <1>2, NumberFacts DEF IInv, TypeOK
<1> QED BY <1>1, <1>2, <1>3, GrabInv

LEMMA GoOnGrabbingInv ==
  ASSUME IInv, NEW t \in Threads, GoOnGrabbing(t)
  PROVE  IInv'
<1>1. pc[t] = "grab" /\ Grab(t, obtained + available)
  BY DEF GoOnGrabbing
<1>2. \A u \in Threads : pc[u] = "grab" => u = t
  BY <1>1 DEF IInv, FlagsTell
<1>3. obtained + available = available + obtained
  BY NumberFacts DEF IInv, TypeOK
<1> QED BY <1>1, <1>2, <1>3, GrabInv

LEMMA UnlockInv ==
  ASSUME IInv, NEW t \in Threads, Unlock(t)
  PROVE  IInv'
<1>1. active
  BY DEF IInv, FlagsTell, Writers, Unlock
<1>2. obtained = 0 /\ held = {}
  BY <1>1, WriterAlone DEF IInv
<1>3. /\ available' = MaxLocks /\ active' = FALSE /\ asleep' = {}
      /\ pc' = [pc EXCEPT ![t] = "idle"] /\ UNCHANGED <<inProgress, obtained, held>>
  BY <1>1 DEF Unlock, Goto
<1>4. TypeOK'
  <2>1. available' \in 0 .. MaxLocks /\ obtained' \in 0 .. MaxLocks
    BY <1>2, <1>3, NumberFacts
  <2>2. pc' \in [Threads -> Labels]
    BY <1>3 DEF IInv, TypeOK, Labels
  <2> QED BY <1>3, <2>1, <2>2 DEF IInv, TypeOK
<1>5. Conservation'
  <2>1. Cardinality(held') = 0
    BY <1>2, <1>3, FS_EmptySet
  <2> QED BY <1>2, <1>3, <2>1, NumberFacts DEF Conservation
<1>6. FlagsTell'
  <2>1. pc \in [Threads -> Labels] /\ pc[t] = "writing"
    BY DEF IInv, TypeOK, Unlock
  <2>2. \A u \in Threads : pc[u] = "writing" => u = t
    BY <2>1 DEF IInv, FlagsTell
  <2>3. \A u \in Threads : pc'[u] # "writing"
    BY <1>3, <2>1, <2>2
  <2>4. \A u \in Threads : pc'[u] = "grab" <=> pc[u] = "grab"
    BY <1>3, <2>1
  <2> QED BY <1>3, <2>3, <2>4 DEF IInv, FlagsTell, Writers
<1> QED BY <1>4, <1>5, <1>6 DEF IInv

LEMMA LockReadonlyInv ==
  ASSUME IInv, NEW t \in Threads, LockReadonly(t)
  PROVE  IInv'
<1>1. /\ pc \in [Threads -> Labels] /\ available \in 0 .. MaxLocks
      /\ held \subseteq Locks /\ IsFiniteSet(held) /\ Cardinality(held) \in Nat
  BY HeldFinite DEF IInv, TypeOK
<1>2. pc[t] \in {"idle", "reader"} /\ UNCHANGED <<inProgress, active, obtained>>
  BY DEF LockReadonly
<1>3. PICK to \in {"idle", "reader"} : pc' = [pc EXCEPT ![t] = to]
  BY DEF LockReadonly, Goto
<1>4. FlagsTell'
  <2>1. \A u \in Threads :
          pc'[u] \in {"grab", "writing"} \/ pc[u] \in {"grab", "writing"} => pc'[u] = pc[u]
    BY <1>1, <1>2, <1>3
  <2> QED BY <1>2, <2>1 DEF IInv, FlagsTell, Writers
<1>5. CASE available = 0
  <2>1. available' = available /\ held' = held /\ asleep' = asleep \union {t}
    BY <1>5 DEF LockReadonly
  <2>2. TypeOK'
    BY <1>2, <1>3, <2>1 DEF IInv, TypeOK, Labels
  <2>3. Conservation'
    BY <1>2, <2>1 DEF IInv, Conservation
  <2> QED BY <1>4, <2>2, <2>3 DEF IInv
<1>6. CASE available # 0
  <2>1. PICK lock \in NextLocks(t) : held' = held \union {lock}
    BY <1>6 DEF LockReadonly
  <2>2. lock \in Locks /\ lock \notin held
    BY <2>1 DEF NextLocks
  <2>3. available' = available - 1 /\ asleep' = asleep
    BY <1>6 DEF LockReadonly
  <2>4. Cardinality(held') = Cardinality(held) + 1
    BY <1>1, <2>1, <2>2, FS_AddElement
  <2>5. available' \in 0 .. MaxLocks
    BY <1>1, <1>6, <2>3, NumberFacts
  <2>6. TypeOK'
    BY <1>1, <1>2, <1>3, <2>1, <2>2, <2>3, <2>5 DEF IInv, TypeOK, Labels
  <2>7. Conservation'
    BY <1>1, <1>2, <2>3, <2>4, NumberFacts DEF IInv, TypeOK, Conservation
  <2> QED BY <1>4, <2>6, <2>7 DEF IInv
<1> QED BY <1>5, <1>6

LEMMA UnlockReadonlyInv ==
  ASSUME IInv, NEW t \in Threads, UnlockReadonly(t)
  PROVE  IInv'
<1>1. /\ available \in 0 .. MaxLocks /\ asleep \in SUBSET Threads
      /\ held \subseteq Locks /\ IsFiniteSet(held) /\ Cardinality(held) \in Nat
  BY HeldFinite DEF IInv, TypeOK
<1>2. PICK lock \in held : held' = held \ {lock}
  BY DEF UnlockReadonly
<1>3. ~active /\ available # MaxLocks
  BY <1>2, LastReader DEF IInv
<1>4. /\ available' = available + 1 /\ asleep' \in SUBSET Threads
      /\ UNCHANGED <<inProgress, active, obtained, pc>>
  BY <1>1, <1>3 DEF UnlockReadonly, GiveBack
<1>5. Cardinality(held') = Cardinality(held) - 1
  BY <1>1, <1>2, FS_RemoveElement
<1>6. available' \in 0 .. MaxLocks
  BY <1>1, <1>3, <1>4, NumberFacts
<1>7. TypeOK'
  BY <1>1, <1>2, <1>4, <1>6 DEF IInv, TypeOK
<1>8. Conservation'
  BY <1>1, <1>4, <1>5, NumberFacts DEF IInv, TypeOK, Conservation
<1>9. FlagsTell'
  BY <1>4 DEF IInv, FlagsTell, Writers
<1> QED BY <1>7, <1>8, <1>9 DEF IInv

LEMMA StillInv ==
  ASSUME IInv, UNCHANGED <<available, inProgress, active, obtained, pc, held>>,
         asleep' \subseteq asleep
  PROVE  IInv'
BY DEF IInv, TypeOK, Conservation, FlagsTell, Writers

LEMMA Invariance == Spec => []IInv
<1>1. IInv /\ [Next]_vars => IInv'
  <2> SUFFICES ASSUME IInv, [Next]_vars PROVE IInv'
    OBVIOUS
  <2>1. CASE UNCHANGED vars
    BY <2>1, StillInv DEF vars
  <2>2. ASSUME NEW t \in Threads, Queue(t) PROVE IInv'
    BY <2>2, QueueInv
  <2>3. ASSUME NEW t \in Threads, StartGrabbing(t) PROVE IInv'
    BY <2>3, StartGrabbingInv
  <2>4. ASSUME NEW t \in Threads, GoOnGrabbing(t) PROVE IInv'
    BY <2>4, GoOnGrabbingInv
  <2>5. ASSUME NEW t \in Threads, Unlock(t) PROVE IInv'
    BY <2>5, UnlockInv
  <2>6. ASSUME NEW t \in Threads, LockReadonly(t) PROVE IInv'
    BY <2>6, LockReadonlyInv
  <2>7. ASSUME NEW t \in Threads, UnlockReadonly(t) PROVE IInv'
    BY <2>7, UnlockReadonlyInv
  <2>8. ASSUME NEW t \in Threads, Spurious(t) PROVE IInv'
    BY <2>8, StillInv DEF Spurious
  <2> QED BY <2>1, <2>2, <2>3, <2>4, <2>5, <2>6, <2>7, <2>8 DEF Next
<1> QED BY <1>1, InitInv, PTL DEF Spec
-----------------------------------------------------------------------------
(***************************************************************************)
(* The theorems                                                            *)
(***************************************************************************)
\* The variables hold values of their types, so no count leaves its range.
THEOREM Typing == Spec => []TypeOK
<1>1. IInv => TypeOK
  BY DEF IInv
<1> QED BY <1>1, Invariance, PTL

\* No lock is lost or made up, however many threads lock and unlock.
THEOREM LocksConserved == Spec => []Conservation
<1>1. IInv => Conservation
  BY DEF IInv
<1> QED BY <1>1, Invariance, PTL

\* The two flags tell what the threads do, and at most one of them writes.
THEOREM FlagsTrue == Spec => []FlagsTell
<1>1. IInv => FlagsTell
  BY DEF IInv
<1> QED BY <1>1, Invariance, PTL

\* No thread sleeps on the signaler while what it waits for is there.
THEOREM WakeUps == Spec => []NoLostWakeup
<1>1. Init => NoLostWakeup
  BY DEF Init, NoLostWakeup
<1>2. IInv /\ IInv' /\ NoLostWakeup /\ [Next]_vars => NoLostWakeup'
  <2> SUFFICES ASSUME IInv, IInv', NoLostWakeup, [Next]_vars PROVE NoLostWakeup'
    OBVIOUS
  <2>0. pc \in [Threads -> Labels] /\ available \in 0 .. MaxLocks /\ asleep \subseteq Threads
    BY DEF IInv, TypeOK
  <2>1. CASE UNCHANGED vars
    BY <2>1 DEF vars, NoLostWakeup
  <2>2. ASSUME NEW t \in Threads, Queue(t) PROVE NoLostWakeup'
    BY <2>0, <2>2 DEF Queue, Goto, NoLostWakeup
  <2>3. ASSUME NEW t \in Threads, NEW sum, Grab(t, sum), t \notin asleep PROVE NoLostWakeup'
    BY <2>0, <2>3 DEF Grab, Goto, NoLostWakeup
  <2>4. ASSUME NEW t \in Threads, StartGrabbing(t) PROVE NoLostWakeup'
    BY <2>3, <2>4 DEF StartGrabbing, Queueing
  <2>5. ASSUME NEW t \in Threads, GoOnGrabbing(t) PROVE NoLostWakeup'
    BY <2>3, <2>5 DEF GoOnGrabbing
  <2>6. ASSUME NEW t \in Threads, Unlock(t) PROVE NoLostWakeup'
    <3>1. active
      BY <2>6 DEF Unlock, IInv, FlagsTell, Writers
    <3> QED BY <2>6, <3>1 DEF Unlock, NoLostWakeup
  <2>7. ASSUME NEW t \in Threads, LockReadonly(t) PROVE NoLostWakeup'
    <3>1. /\ UNCHANGED <<inProgress, active>> /\ t \notin asleep
          /\ \E to \in {"idle", "reader"} : pc' = [pc EXCEPT ![t] = to]
      BY <2>7 DEF LockReadonly, Goto
    <3>2. CASE available = 0
      <4>1. available' = 0 /\ asleep' = asleep \union {t} /\ pc' = [pc EXCEPT ![t] = "reader"]
        BY <2>7, <3>2 DEF LockReadonly, Goto
      <4> QED BY <2>0, <3>1, <4>1 DEF NoLostWakeup
    <3>3. CASE available # 0
      <4>1. asleep' = asleep
        BY <2>7, <3>3 DEF LockReadonly
      <4> QED BY <2>0, <3>1, <3>3, <4>1 DEF NoLostWakeup
    <3> QED BY <3>2, <3>3
  <2>8. ASSUME NEW t \in Threads, UnlockReadonly(t) PROVE NoLostWakeup'
    <3>1. UNCHANGED <<inProgress, active, pc>>
      BY <2>8 DEF UnlockReadonly, GiveBack
    <3>2. CASE available = 0
      <4>1. asleep' = {} \/ (asleep' = asleep /\ available' = available)
        BY <2>8, <3>2 DEF UnlockReadonly, GiveBack, Wakes
      <4> QED BY <3>1, <4>1 DEF NoLostWakeup
    <3>3. CASE available # 0
      <4>1. asleep' \subseteq asleep
        BY <2>8 DEF UnlockReadonly, GiveBack
      <4>2. \A u \in asleep : pc[u] \notin {"reader", "grab"}
        BY <3>3 DEF NoLostWakeup
      <4> QED BY <3>1, <4>1, <4>2 DEF NoLostWakeup
    <3> QED BY <3>2, <3>3
  <2>9. ASSUME NEW t \in Threads, Spurious(t) PROVE NoLostWakeup'
    BY <2>9 DEF Spurious, NoLostWakeup
  <2> QED BY <2>1, <2>2, <2>4, <2>5, <2>6, <2>7, <2>8, <2>9 DEF Next
<1> QED BY <1>1, <1>2, Invariance, PTL DEF Spec
-----------------------------------------------------------------------------
(***************************************************************************)
(* The refinement: what a step is to a readers-writers lock                *)
(***************************************************************************)
\* The instance counts as this module does.
LEMMA SameCardinality == Promise!Cardinality(held) = Cardinality(held)
BY DEF Promise!Cardinality, Cardinality

\* A lock() that gets its last lock obtains the write lock.
LEMMA GrabObtains ==
  ASSUME IInv, NEW t \in Threads, NEW sum, sum = available + obtained, Grab(t, sum),
         pc[t] # "writing"
  PROVE  Promise!Next \/ UNCHANGED <<held, Writers>>
<1>1. pc \in [Threads -> Labels] /\ held' = held
  BY DEF IInv, TypeOK, Grab
<1>2. CASE sum = MaxLocks
  <2>1. held = {} /\ ~active
    BY <1>2, AllTogether DEF IInv
  <2>2. Writers = {}
    BY <2>1 DEF IInv, FlagsTell
  <2>3. pc' = [pc EXCEPT ![t] = "writing"]
    BY <1>2 DEF Grab, Goto
  <2>4. Writers' = {t}
    BY <1>1, <2>2, <2>3 DEF Writers
  <2>5. Promise!ObtainWrite
    BY <1>1, <2>1, <2>2, <2>4 DEF Promise!ObtainWrite
  <2> QED BY <2>5 DEF Promise!Next
<1>3. CASE sum # MaxLocks
  <2>1. pc' = [pc EXCEPT ![t] = "grab"]
    BY <1>3 DEF Grab, Goto
  <2>2. Writers' = Writers
    BY <1>1, <2>1 DEF Writers
  <2> QED BY <1>1, <2>2
<1> QED BY <1>2, <1>3

\* read_write_mutex implements the lock it promises to be: every step is a
\* step or a stutter of ReadersWriters.  This is the whole of KeepsPromise.
THEOREM Refinement == Spec => KeepsPromise
<1>1. Init => Promise!Init
  BY DEF Init, Promise!Init, Writers
<1>2. IInv /\ [Next]_vars => [Promise!Next]_<<held, Writers>>
  <2> SUFFICES ASSUME IInv, [Next]_vars PROVE Promise!Next \/ UNCHANGED <<held, Writers>>
    OBVIOUS
  <2>0. /\ pc \in [Threads -> Labels] /\ available \in 0 .. MaxLocks /\ obtained \in 0 .. MaxLocks
        /\ held \subseteq Locks
    BY DEF IInv, TypeOK
  <2>1. CASE UNCHANGED vars
    BY <2>1 DEF vars, Writers
  <2>2. ASSUME NEW t \in Threads, Queue(t) PROVE UNCHANGED <<held, Writers>>
    <3>1. pc' = [pc EXCEPT ![t] = "queue"] /\ pc[t] \in {"queue", "idle"} /\ held' = held
      BY <2>2 DEF Queue, Queueing, Goto
    <3> QED BY <2>0, <3>1 DEF Writers
  <2>3. ASSUME NEW t \in Threads, StartGrabbing(t)
        PROVE  Promise!Next \/ UNCHANGED <<held, Writers>>
    <3>1. ~inProgress /\ Grab(t, available) /\ pc[t] # "writing"
      BY <2>3 DEF StartGrabbing, Queueing
    <3>2. available = available + obtained
      BY <2>0, <3>1, NumberFacts DEF IInv, FlagsTell
    <3> QED BY <3>1, <3>2, GrabObtains
  <2>4. ASSUME NEW t \in Threads, GoOnGrabbing(t)
        PROVE  Promise!Next \/ UNCHANGED <<held, Writers>>
    <3>1. Grab(t, obtained + available) /\ pc[t] # "writing"
      BY <2>4 DEF GoOnGrabbing
    <3>2. obtained + available = available + obtained
      BY <2>0, NumberFacts
    <3> QED BY <3>1, <3>2, GrabObtains
  <2>5. ASSUME NEW t \in Threads, Unlock(t) PROVE Promise!ReleaseWrite
    <3>1. pc[t] = "writing" /\ pc' = [pc EXCEPT ![t] = "idle"] /\ held' = held
      BY <2>5 DEF Unlock, Goto
    <3>2. t \in Writers /\ \A u \in Writers : u = t
      BY <3>1 DEF Writers, IInv, FlagsTell
    <3>3. Writers' = {}
      BY <2>0, <3>1, <3>2 DEF Writers
    <3> QED BY <3>1, <3>2, <3>3 DEF Promise!ReleaseWrite
  <2>6. ASSUME NEW t \in Threads, LockReadonly(t)
        PROVE  Promise!Next \/ UNCHANGED <<held, Writers>>
    <3>1. pc[t] \in {"idle", "reader"} /\ \E to \in {"idle", "reader"} : pc' = [pc EXCEPT ![t] = to]
      BY <2>6 DEF LockReadonly, Goto
    <3>2. Writers' = Writers
      BY <2>0, <3>1 DEF Writers
    <3>3. CASE available = 0
      BY <2>6, <3>2, <3>3 DEF LockReadonly
    <3>4. CASE available # 0
      <4>1. PICK lock \in NextLocks(t) : held' = held \union {lock}
        BY <2>6, <3>4 DEF LockReadonly
      <4>2. available + obtained > 0
        BY <2>0, <3>4, NumberFacts
      <4>3. Writers = {} /\ Cardinality(held) < MaxLocks
        BY <4>2, SomeLeft DEF IInv, FlagsTell
      <4>4. lock \in (Threads \X (1 .. Nesting)) \ held
        BY <4>1 DEF NextLocks, Locks
      <4>5. Promise!ObtainReadonly
        BY <3>2, <4>1, <4>3, <4>4, SameCardinality DEF Promise!ObtainReadonly
      <4> QED BY <4>5 DEF Promise!Next
    <3> QED BY <3>3, <3>4
  <2>7. ASSUME NEW t \in Threads, UnlockReadonly(t) PROVE Promise!ReleaseReadonly
    BY <2>7 DEF UnlockReadonly, Promise!ReleaseReadonly, Writers
  <2>8. ASSUME NEW t \in Threads, Spurious(t) PROVE UNCHANGED <<held, Writers>>
    BY <2>8 DEF Spurious, Writers
  <2> QED BY <2>1, <2>2, <2>3, <2>4, <2>5, <2>6, <2>7, <2>8 DEF Next, Promise!Next
<1> QED BY <1>1, <1>2, Invariance, PTL DEF Spec, KeepsPromise, Promise!Spec
=============================================================================
