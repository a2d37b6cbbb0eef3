--------------------------- MODULE ThreadPool_proofs ---------------------------
(***************************************************************************)
(* Theorems about thread_pool, for any number of workers, clients and      *)
(* tasks: its safety invariants.                                           *)
(***************************************************************************)
EXTENDS ThreadPool, FiniteSetTheorems, Induction, TLAPS

\* The labels of workers in a task, of clients that use the pool and of an owner
\* that destroys it, and those under which a thread may sleep.
Working == {"run", "inline", "throw", "task", "all"}
Using   == {"idle", "add", "task", "all"}
Leaving == {"shutdown", "join", "destroyed", "aborted"}
Resting == {"find", "add", "task", "all", "shutdown"}

Roles ==
  /\ \A w \in Workers : pc[w] \in {"find", "gone"} \union Working
  /\ \A t \in Clients : pc[t] \in Using \union Leaving
  /\ \A t \in asleep : pc[t] \in Resting

\* While the pool is destroyed nobody but its tasks uses it, and it does not tell
\* its workers to leave before all tasks are done.
Stopping ==
  /\ \A t \in Clients \ {Owner} : pc[t] \in Using /\ (Destroying => pc[t] = "idle")
  /\ destructing => Empty = Slots /\ pc[Owner] \in Leaving \ {"shutdown"}
  /\ \A w \in Workers : pc[w] = "gone" => destructing

\* That a worker is awake for every task that is ready needs that as many slots
\* are being processed as workers are busy, and that no worker has left early.
IInv ==
  /\ TypeOK /\ Roles /\ Stopping
  /\ OneWorker /\ IdsTellSlots /\ ExceptionsKept /\ NoLostWakeup

-----------------------------------------------------------------------------
(***************************************************************************)
(* Slots and ids                                                           *)
(***************************************************************************)
LEMMA SizeFacts ==
  /\ Size \in Nat /\ Size > 0
  /\ Slots \subseteq Nat /\ IsFiniteSet(Slots) /\ Cardinality(Slots) = Size
<1>1. Size \in Nat /\ Size > 0
  BY WorkersAssumption, FS_CardinalityType, FS_EmptySet DEF Size
<1>2. IsFiniteSet(0 .. Size - 1) /\ Cardinality(0 .. Size - 1) = Size
  BY <1>1, FS_Interval
<1> QED BY <1>1, <1>2 DEF Slots

LEMMA FirstOf ==
  ASSUME NEW S \in SUBSET Nat, S # {}
  PROVE  First(S) \in S
BY LeastNumber DEF First

LEMMA FirstSlot ==
  ASSUME NEW S \in SUBSET Slots, S # {}
  PROVE  First(S) \in S /\ First(S) \in Slots
BY FirstOf, SizeFacts

\* An id is made from the slot's counter, and is neither 0 nor 1.
LEMMA IdFacts ==
  ASSUME TypeOK, NEW i \in Slots
  PROVE  make_next_task_id(i) \in Nat /\ make_next_task_id(i) > 1
<1>1. next_task_id[i] \in Nat /\ next_task_id[i] >= 2 /\ i \in Nat
  BY SizeFacts, MaxTasksInNat DEF TypeOK
<1>2. ASSUME NEW a \in Nat, NEW b \in Nat, a >= 2, b > 0
      PROVE  a * b \in Nat /\ a * b >= 2
  BY <1>2
<1>3. next_task_id[i] * Size \in Nat /\ next_task_id[i] * Size >= 2
  BY <1>1, <1>2, SizeFacts
<1> HIDE <1>2
<1> DEFINE product == next_task_id[i] * Size
<1>4. product \in Nat /\ product >= 2 /\ make_next_task_id(i) = product + i
  BY <1>3 DEF make_next_task_id
<1> HIDE DEF product
<1> QED BY <1>1, <1>4

LEMMA IndexInSlots == ASSUME NEW id \in Nat PROVE index(id) \in Slots
BY SizeFacts DEF index, Slots
-----------------------------------------------------------------------------
(***************************************************************************)
(* Who is where                                                            *)
(***************************************************************************)
LEMMA BusyIsWorking ==
  ASSUME NEW w PROVE Busy(w) <=> pc[w] \in Working
BY DEF Busy, Working

\* As long as a task runs, the pool is not told to stop.
LEMMA BusyNotStopped ==
  ASSUME IInv, NEW w \in Workers, Busy(w)
  PROVE  ~destructing /\ slot[w] \in Slots /\ processing[slot[w]] /\ task_id[slot[w]] # 0
<1>1. slot[w] \in Slots
  BY DEF IInv, TypeOK
<1>2. processing[slot[w]] /\ task_id[slot[w]] # 0
  BY <1>1 DEF IInv, OneWorker
<1>3. slot[w] \notin Empty
  BY <1>2 DEF Empty
<1> QED BY <1>1, <1>2, <1>3 DEF IInv, Stopping

\* Whoever calls the pool, or goes on with a call.
LEMMA Caller ==
  ASSUME IInv, NEW t \in Threads, MayCall(t) \/ pc[t] \in {"add", "task", "all"}
  PROVE  /\ ~destructing
         /\ t \in Workers => Busy(t) /\ pc[t] # "add"
         /\ t \in Clients => pc[t] \in Using /\ ~Destroying
<1>1. CASE t \in Workers
  <2>1. Busy(t) /\ pc[t] # "add" /\ t \notin Clients
    BY <1>1, WorkersAssumption DEF IInv, Roles, MayCall, Calling, Busy, Working
  <2> QED BY <1>1, <2>1, BusyNotStopped
<1>2. CASE t \in Clients
  <2>1. pc[t] \in Using /\ t \notin Workers
    BY <1>2, WorkersAssumption DEF MayCall, Calling, Using
  <2>2. ~Destroying
    <3>1. CASE MayCall(t)
      BY <3>1, <2>1 DEF MayCall
    <3>2. CASE pc[t] \in {"add", "task", "all"} /\ t = Owner
      BY <3>2 DEF Destroying
    <3>3. CASE pc[t] \in {"add", "task", "all"} /\ t # Owner
      BY <3>3, <1>2 DEF IInv, Stopping
    <3> QED BY <3>1, <3>2, <3>3
  <2>3. ~destructing
    BY <2>2 DEF IInv, Stopping, Destroying, Leaving
  <2> QED BY <2>1, <2>2, <2>3
<1> QED BY <1>1, <1>2 DEF Threads

\* The slots and who is in a task stay as they are.
LEMMA SlotsKept ==
  ASSUME OneWorker, IdsTellSlots, ExceptionsKept,
         UNCHANGED <<task_id, processing, next_task_id, slot>>,
         \A w \in Workers : Busy(w)' <=> Busy(w),
         \A i \in Slots : eptr'[i] => eptr[i]
  PROVE  OneWorker' /\ IdsTellSlots' /\ ExceptionsKept'
<1>1. OneWorker'
  BY DEF OneWorker
<1>2. IdsTellSlots'
  BY DEF IdsTellSlots
<1>3. ExceptionsKept'
  BY DEF ExceptionsKept
<1> QED BY <1>1, <1>2, <1>3

\* Who sleeps and is not touched keeps the reason for it.
LEMMA ReasonKept ==
  ASSUME NEW t, HasReason(t), pc'[t] = pc[t], waiting'[t] = waiting[t],
         UNCHANGED <<task_id, thread_id, destructing>>
  PROVE  HasReason(t)'
BY DEF HasReason, Empty, InPool, index, Mine

LEMMA Counts ==
  /\ IsFiniteSet(Looking) /\ Cardinality(Looking) \in Nat
  /\ IsFiniteSet(Ready) /\ Cardinality(Ready) \in Nat
  /\ IsFiniteSet(Looking') /\ Cardinality(Looking') \in Nat
  /\ IsFiniteSet(Ready') /\ Cardinality(Ready') \in Nat
<1>1. Looking \in SUBSET Workers /\ Looking' \in SUBSET Workers
  BY DEF Looking
<1>2. Ready \in SUBSET Slots /\ Ready' \in SUBSET Slots
  BY DEF Ready
<1>3. IsFiniteSet(Looking) /\ IsFiniteSet(Looking')
  BY <1>1, WorkersAssumption, FS_Subset
<1>4. IsFiniteSet(Ready) /\ IsFiniteSet(Ready')
  BY <1>2, SizeFacts, FS_Subset
<1> QED BY <1>3, <1>4, FS_CardinalityType

-----------------------------------------------------------------------------
(***************************************************************************)
(* Most steps move one thread from one place to another, put it to sleep,  *)
(* wake it or take an exception, and leave tasks and slots alone.          *)
(***************************************************************************)
LEMMA Move ==
  ASSUME IInv, TypeOK', NEW t \in Threads, NEW to,
         pc' = [pc EXCEPT ![t] = to],
         UNCHANGED <<task_id, processing, thread_id, next_task_id, destructing, slot>>,
         \A i \in Slots : eptr'[i] => eptr[i],
         \A u \in Threads \ {t} : waiting'[u] = waiting[u],
         t \in Workers => \/ Busy(t) /\ to \in Working
                          \/ pc[t] = "find" /\ to = "find"
                          \/ pc[t] = "find" /\ to = "gone" /\ destructing,
         t \in Clients => \/ pc[t] \in Using /\ to \in Using /\ ~Destroying
                          \/ /\ t = Owner /\ to \in Leaving
                             /\ destructing => to # "shutdown"
                             /\ \A u \in Clients \ {Owner} : pc[u] = "idle",
         asleep' \subseteq asleep \union {t},
         t \in asleep' => to \in Resting /\ HasReason(t)',
         Ready = {} \/ Looking \subseteq Looking'
  PROVE  IInv'
<1>1. pc'[t] = to /\ \A u \in Threads \ {t} : pc'[u] = pc[u]
  BY DEF IInv, TypeOK
<1>2. asleep \subseteq Threads
  BY DEF IInv, TypeOK
<1>3. t \in Workers => t \notin Clients
  BY WorkersAssumption
<1>4. Roles'
  <2>1. \A w \in Workers : pc'[w] \in {"find", "gone"} \union Working
    <3>1. t \in Workers => to \in {"find", "gone"} \union Working
      OBVIOUS
    <3> QED BY <1>1, <3>1 DEF IInv, Roles, Threads
  <2>2. \A u \in Clients : pc'[u] \in Using \union Leaving
    BY <1>1 DEF IInv, Roles, Threads
  <2>3. \A u \in asleep' : pc'[u] \in Resting
    BY <1>1, <1>2 DEF IInv, Roles
  <2> QED BY <2>1, <2>2, <2>3 DEF Roles
<1>5. Stopping'
  <2>1. \A u \in Clients \ {Owner} : pc'[u] \in Using /\ (Destroying' => pc'[u] = "idle")
    <3>1. CASE t \in Workers
      <4>1. \A u \in Clients : pc'[u] = pc[u]
        BY <1>1, <1>3, <3>1 DEF Threads
      <4> QED BY <4>1, OwnerAssumption DEF IInv, Stopping, Destroying
    <3>2. CASE pc[t] \in Using /\ to \in Using /\ ~Destroying /\ t \in Clients
      <4>1. ~Destroying'
        BY <1>1, <3>2, OwnerAssumption DEF Destroying, Using, Threads
      <4> QED BY <1>1, <3>2, <4>1 DEF IInv, Stopping, Threads
    <3>3. CASE t = Owner /\ \A u \in Clients \ {Owner} : pc[u] = "idle"
      BY <1>1, <3>3 DEF Using, Threads
    <3> QED BY <3>1, <3>2, <3>3 DEF Threads
  <2>2. destructing' => Empty' = Slots /\ pc'[Owner] \in Leaving \ {"shutdown"}
    <3>1. Empty' = Empty
      BY DEF Empty
    <3>2. destructing => pc'[Owner] \in Leaving \ {"shutdown"}
      <4> SUFFICES ASSUME destructing PROVE pc'[Owner] \in Leaving \ {"shutdown"}
        OBVIOUS
      <4>1. pc[Owner] \in Leaving \ {"shutdown"} /\ Owner \in Clients
        BY OwnerAssumption DEF IInv, Stopping
      <4>2. Destroying
        BY <4>1 DEF Destroying, Leaving
      <4>3. CASE t = Owner
        BY <1>1, <4>1, <4>2, <4>3
      <4>4. CASE t # Owner
        BY <1>1, <4>1, <4>4 DEF Threads
      <4> QED BY <4>3, <4>4
    <3> QED BY <3>1, <3>2 DEF IInv, Stopping
  <2>3. \A w \in Workers : pc'[w] = "gone" => destructing'
    <3>1. t \in Workers /\ to = "gone" => destructing
      BY DEF Working
    <3> QED BY <1>1, <3>1 DEF IInv, Stopping, Threads
  <2> QED BY <2>1, <2>2, <2>3 DEF Stopping
<1>6. \A w \in Workers : Busy(w)' <=> Busy(w)
  <2>1. ASSUME NEW w \in Workers, w # t PROVE pc'[w] = pc[w]
    BY <1>1, <2>1 DEF Threads
  <2>2. t \in Workers => (Busy(t)' <=> Busy(t))
    BY <1>1 DEF Busy, Working
  <2> QED BY <2>1, <2>2 DEF Busy
<1>7. OneWorker' /\ IdsTellSlots' /\ ExceptionsKept'
  BY <1>6, SlotsKept DEF IInv
<1>8. NoLostWakeup'
  <2>1. Ready' = Ready
    BY DEF Ready
  <2>2. Cardinality(Looking') >= Cardinality(Ready')
    <3>1. CASE Ready = {}
      <4>1. Cardinality(Ready') = 0
        BY <2>1, <3>1, FS_EmptySet
      <4> QED BY <4>1, Counts
    <3>2. CASE Looking \subseteq Looking'
      <4>1. Cardinality(Looking) <= Cardinality(Looking')
        BY <3>2, Counts, FS_Subset
      <4>2. Cardinality(Looking) >= Cardinality(Ready)
        BY DEF IInv, NoLostWakeup
      <4> QED BY <2>1, <4>1, <4>2, Counts
    <3> QED BY <3>1, <3>2
  <2>3. ASSUME NEW u \in asleep' PROVE HasReason(u)'
    <3>1. CASE u = t
      BY <3>1
    <3>2. CASE u # t
      <4>1. u \in asleep /\ u \in Threads \ {t}
        BY <1>2, <3>2
      <4>2. HasReason(u)
        BY <4>1 DEF IInv, NoLostWakeup
      <4> QED BY <1>1, <4>1, <4>2, ReasonKept
    <3> QED BY <3>1, <3>2
  <2> QED BY <2>2, <2>3 DEF NoLostWakeup
<1> QED BY <1>4, <1>5, <1>7, <1>8 DEF IInv

-----------------------------------------------------------------------------
(***************************************************************************)
(* The steps that are such moves                                           *)
(***************************************************************************)
\* Who is awake and sets out from no place where workers look for tasks.
LEMMA StillLooking ==
  ASSUME TypeOK, NEW t \in Threads, NEW to, pc[t] # "find",
         pc' = [pc EXCEPT ![t] = to], asleep' \subseteq asleep \union {t}
  PROVE  Looking \subseteq Looking'
<1> SUFFICES ASSUME NEW w \in Looking PROVE w \in Looking'
  OBVIOUS
<1>1. w \in Workers /\ pc[w] = "find" /\ w \notin asleep /\ w # t
  BY DEF Looking
<1>2. pc'[w] = pc[w]
  BY <1>1 DEF TypeOK, Threads
<1> QED BY <1>1, <1>2 DEF Looking

LEMMA SleepersRest ==
  ASSUME IInv, NEW t \in Threads, pc[t] \notin Resting
  PROVE  t \notin asleep
BY DEF IInv, Roles

LEMMA InlineEndsInv ==
  ASSUME IInv, NEW w \in Workers, InlineEnds(w)
  PROVE  IInv'
<1>1. w \in Threads /\ w \notin Clients
  BY WorkersAssumption DEF Threads
<1>2. PICK to \in {"run", "throw"} :
        pc' = [pc EXCEPT ![w] = to] /\ \A u \in Threads \ {w} : waiting'[u] = waiting[u]
  BY DEF InlineEnds, Goto, IInv, TypeOK
<1>3. TypeOK'
  <2>1. pc' \in [Threads -> Labels]
    BY <1>2 DEF IInv, TypeOK, Labels
  <2>2. waiting' \in [Threads -> Nat \ {0}]
    BY DEF InlineEnds, IInv, TypeOK
  <2> QED BY <2>1, <2>2 DEF InlineEnds, slotVars, IInv, TypeOK
<1>4. w \notin asleep /\ asleep' = asleep
  BY <1>1, SleepersRest DEF InlineEnds, Resting
<1>5. Looking \subseteq Looking'
  BY <1>1, <1>2, <1>4, StillLooking DEF InlineEnds, IInv
<1>6. Busy(w) /\ to \in Working
  BY DEF InlineEnds, Busy, Working
<1>7. UNCHANGED <<task_id, processing, thread_id, next_task_id, eptr, destructing, slot>>
  BY DEF InlineEnds, slotVars
<1> QED BY <1>1, <1>2, <1>3, <1>4, <1>5, <1>6, <1>7, Move

LEMMA FindInv ==
  ASSUME IInv, NEW w \in Workers, Find(w)
  PROVE  IInv'
<1>1. w \in Threads /\ w \notin Clients
  BY WorkersAssumption DEF Threads
<1>2. pc' = [pc EXCEPT ![w] = "find"] /\ pc[w] = "find"
  BY <1>1 DEF Find, IInv, TypeOK
<1>3. UNCHANGED <<slotVars, destructing, slot, waiting, pc>> /\ asleep' = asleep \union {w}
  BY DEF Find
<1>4. TypeOK'
  BY <1>1, <1>3 DEF slotVars, IInv, TypeOK
<1>5. HasReason(w)'
  BY <1>2, <1>3 DEF Find, HasReason
<1>6. UNCHANGED <<task_id, processing, thread_id, next_task_id, eptr, destructing, slot, waiting>>
  BY <1>3 DEF slotVars
<1>7. Ready = {}
  BY DEF Find
<1>8. "find" \in Resting /\ asleep' \subseteq asleep \union {w}
  BY <1>3 DEF Resting
<1> QED BY <1>1, <1>2, <1>4, <1>5, <1>6, <1>7, <1>8, Move

LEMMA LeaveInv ==
  ASSUME IInv, NEW w \in Workers, Leave(w)
  PROVE  IInv'
<1>1. w \in Threads /\ w \notin Clients
  BY WorkersAssumption DEF Threads
<1>2. pc' = [pc EXCEPT ![w] = "gone"] /\ pc[w] = "find" /\ destructing /\ w \notin asleep'
  BY DEF Leave, Goto
<1>3. UNCHANGED <<task_id, processing, thread_id, next_task_id, eptr, destructing, slot, waiting, asleep>>
  BY DEF Leave, slotVars
<1>4. TypeOK'
  <2>1. pc' \in [Threads -> Labels]
    BY <1>2 DEF IInv, TypeOK, Labels
  <2> QED BY <1>3, <2>1 DEF IInv, TypeOK
<1>5. Ready = {}
  BY <1>2 DEF IInv, Stopping, Ready, Empty
<1> QED BY <1>1, <1>2, <1>3, <1>4, <1>5, Move

LEMMA SpuriousInv ==
  ASSUME IInv, NEW t \in Threads, Spurious(t)
  PROVE  IInv'
<1>1. pc' = [pc EXCEPT ![t] = pc[t]] /\ asleep' = asleep \ {t} /\ t \in asleep
  BY DEF Spurious, IInv, TypeOK
<1>2. UNCHANGED <<task_id, processing, thread_id, next_task_id, eptr, destructing, pc, slot, waiting>>
  BY DEF Spurious, slotVars
<1>3. TypeOK'
  BY <1>1, <1>2 DEF IInv, TypeOK
<1>4. Looking \subseteq Looking'
  BY <1>1, <1>2 DEF Looking
<1>5. pc[t] \in Resting
  BY <1>1 DEF IInv, Roles
<1>6. t \in Workers => (Busy(t) /\ pc[t] \in Working) \/ pc[t] = "find"
  BY <1>5, BusyIsWorking DEF IInv, Roles, Resting
<1>7. t \in Clients => \/ pc[t] \in Using /\ ~Destroying
                       \/ /\ t = Owner /\ pc[t] \in Leaving
                          /\ destructing => pc[t] # "shutdown"
                          /\ \A u \in Clients \ {Owner} : pc[u] = "idle"
  <2> SUFFICES ASSUME t \in Clients, pc[t] \notin Using \/ Destroying
               PROVE  /\ t = Owner /\ pc[t] \in Leaving
                      /\ destructing => pc[t] # "shutdown"
                      /\ \A u \in Clients \ {Owner} : pc[u] = "idle"
    OBVIOUS
  <2>1. t = Owner
    BY <1>5 DEF IInv, Stopping, Resting
  <2>2. pc[t] \in Leaving /\ Destroying
    BY <2>1 DEF IInv, Roles, Destroying, Leaving
  <2> QED BY <2>1, <2>2 DEF IInv, Stopping
<1> QED BY <1>1, <1>2, <1>3, <1>4, <1>6, <1>7, Move

\* A call of the pool that does not add a task: it ends, goes to sleep or throws.
LEMMA CallMove ==
  ASSUME IInv, NEW t \in Threads, NEW to,
         MayCall(t) \/ pc[t] \in {"add", "task", "all"},
         t \notin asleep,
         pc' = [pc EXCEPT ![t] = to],
         t \in Workers => to \in Working,
         t \in Clients => to \in Using,
         UNCHANGED <<task_id, processing, thread_id, next_task_id, destructing, slot, waiting>>,
         eptr' \in [Slots -> BOOLEAN], \A i \in Slots : eptr'[i] => eptr[i],
         \/ asleep' = asleep
         \/ asleep' = asleep \union {t} /\ to \in Resting /\ HasReason(t)'
  PROVE  IInv'
<1>1. TypeOK'
  <2>1. to \in Labels
    BY DEF Working, Using, Labels, Threads
  <2>2. pc' \in [Threads -> Labels] /\ asleep' \in SUBSET Threads
    BY <2>1 DEF IInv, TypeOK
  <2> QED BY <2>2 DEF IInv, TypeOK
<1>2. (t \in Workers => Busy(t)) /\ (t \in Clients => pc[t] \in Using /\ ~Destroying)
  BY Caller
<1>3. pc[t] # "find"
  BY <1>2, BusyIsWorking DEF Working, Using, Threads
<1>4. Looking \subseteq Looking'
  BY <1>3, StillLooking DEF IInv
<1> QED BY <1>1, <1>2, <1>4, Move

LEMMA ThrowOrReturn ==
  ASSUME IInv, NEW t \in Threads, Return(t) \/ Rethrow(t)
  PROVE  /\ eptr' \in [Slots -> BOOLEAN] /\ \A i \in Slots : eptr'[i] => eptr[i]
         /\ \E to : /\ pc' = [pc EXCEPT ![t] = to]
                    /\ t \in Workers => to \in Working
                    /\ t \in Clients => to \in Using
<1>1. eptr \in [Slots -> BOOLEAN] /\ (t \in Workers => t \notin Clients)
  BY WorkersAssumption DEF IInv, TypeOK
<1>2. CASE Return(t)
  BY <1>1, <1>2 DEF Return, Goto, Working, Using, Threads
<1>3. CASE Rethrow(t)
  <2>1. eptr' \in [Slots -> BOOLEAN] /\ \A i \in Slots : eptr'[i] => eptr[i]
    BY <1>1, <1>3 DEF Rethrow
  <2> QED BY <1>1, <1>3, <2>1 DEF Rethrow, Goto, Working, Using, Threads
<1> QED BY <1>2, <1>3

LEMMA AddTaskThrowsInv ==
  ASSUME IInv, NEW t \in Threads, AddTaskThrows(t)
  PROVE  IInv'
<1>1. /\ MayCall(t) \/ pc[t] = "add"
      /\ t \notin asleep /\ asleep' = asleep /\ Rethrow(t)
      /\ UNCHANGED <<task_id, processing, thread_id, next_task_id, destructing, slot, waiting>>
  BY DEF AddTaskThrows, Adding
<1>2. PICK to : /\ pc' = [pc EXCEPT ![t] = to]
                /\ t \in Workers => to \in Working
                /\ t \in Clients => to \in Using
  BY <1>1, ThrowOrReturn
<1>3. eptr' \in [Slots -> BOOLEAN] /\ \A i \in Slots : eptr'[i] => eptr[i]
  BY <1>1, ThrowOrReturn
<1> QED BY <1>1, <1>2, <1>3, CallMove

LEMMA AddTaskFullInv ==
  ASSUME IInv, NEW t \in Threads, AddTaskFull(t)
  PROVE  IInv'
<1> DEFINE to == IF t \in Workers THEN "inline" ELSE "add"
<1>1. /\ MayCall(t) \/ pc[t] = "add"
      /\ t \notin asleep /\ Empty = {}
  BY DEF AddTaskFull, Adding
<1>2. UNCHANGED <<task_id, processing, thread_id, next_task_id, eptr, destructing, slot, waiting>>
  BY DEF AddTaskFull, slotVars
<1>3. pc' = [pc EXCEPT ![t] = to]
  BY DEF AddTaskFull, Goto
<1>4. eptr \in [Slots -> BOOLEAN] /\ (t \in Workers => t \notin Clients)
  BY WorkersAssumption DEF IInv, TypeOK
<1>5. (t \in Workers => to \in Working) /\ (t \in Clients => to \in Using)
  BY <1>4 DEF Working, Using
<1>6. asleep' = asleep \/ (asleep' = asleep \union {t} /\ to \in Resting /\ HasReason(t)')
  <2>1. CASE t \in Workers
    BY <2>1 DEF AddTaskFull
  <2>2. CASE t \notin Workers
    <3>1. asleep' = asleep \union {t} /\ pc'[t] = "add"
      BY <1>3, <2>2 DEF AddTaskFull, IInv, TypeOK
    <3>2. Empty' = {}
      BY <1>1, <1>2 DEF Empty
    <3> QED BY <2>2, <3>1, <3>2 DEF HasReason, Resting
  <2> QED BY <2>1, <2>2
<1> HIDE DEF to
<1> QED BY <1>1, <1>2, <1>3, <1>4, <1>5, <1>6, CallMove

LEMMA WaitInv ==
  ASSUME IInv, NEW t \in Threads, NEW label \in {"task", "all"}, NEW pending \in BOOLEAN,
         MayCall(t) \/ pc[t] = label, Wait(t, label, pending),
         pending /\ pc'[t] = label => HasReason(t)'
  PROVE  IInv'
<1>1. /\ t \notin asleep
      /\ UNCHANGED <<task_id, processing, thread_id, next_task_id, destructing, slot, waiting>>
      /\ MayCall(t) \/ pc[t] \in {"add", "task", "all"}
  BY DEF Wait
<1>2. CASE pending
  <2>1. /\ pc' = [pc EXCEPT ![t] = label] /\ asleep' = asleep \union {t} /\ eptr' = eptr
        /\ label \in Working /\ label \in Using /\ label \in Resting
    BY <1>2 DEF Wait, Goto, Working, Using, Resting
  <2>2. eptr \in [Slots -> BOOLEAN] /\ pc'[t] = label
    BY <2>1 DEF IInv, TypeOK
  <2> QED BY <1>1, <1>2, <2>1, <2>2, CallMove
<1>3. CASE ~pending
  <2>1. asleep' = asleep /\ (Return(t) \/ Rethrow(t))
    BY <1>3 DEF Wait
  <2>2. PICK to : /\ pc' = [pc EXCEPT ![t] = to]
                  /\ t \in Workers => to \in Working
                  /\ t \in Clients => to \in Using
    BY <2>1, ThrowOrReturn
  <2>3. eptr' \in [Slots -> BOOLEAN] /\ \A i \in Slots : eptr'[i] => eptr[i]
    BY <2>1, ThrowOrReturn
  <2> QED BY <1>1, <2>1, <2>2, <2>3, CallMove
<1> QED BY <1>2, <1>3

LEMMA WaitForTaskInv ==
  ASSUME IInv, NEW t \in Threads, WaitForTask(t)
  PROVE  IInv'
<1> DEFINE pending == InPool(waiting[t])
<1>1. pending \in BOOLEAN /\ Wait(t, "task", pending) /\ (MayCall(t) \/ pc[t] = "task")
  BY DEF WaitForTask, InPool
<1>2. UNCHANGED <<task_id, waiting>>
  BY DEF WaitForTask, Wait
<1>3. pending /\ pc'[t] = "task" => HasReason(t)'
  BY <1>2 DEF HasReason, InPool, index
<1> HIDE DEF pending
<1> QED BY <1>1, <1>3, WaitInv

LEMMA WaitForAllTasksInv ==
  ASSUME IInv, NEW t \in Threads, WaitForAllTasks(t)
  PROVE  IInv'
<1> DEFINE pending == Mine(t) # {}
<1>1. pending \in BOOLEAN /\ Wait(t, "all", pending) /\ (MayCall(t) \/ pc[t] = "all")
  BY DEF WaitForAllTasks
<1>2. UNCHANGED <<task_id, thread_id>>
  BY DEF WaitForAllTasks, Wait
<1>3. pending /\ pc'[t] = "all" => HasReason(t)'
  BY <1>2 DEF HasReason, Mine
<1> HIDE DEF pending
<1> QED BY <1>1, <1>3, WaitInv

\* The destructor finds a task and waits for it to be done.
LEMMA ShutdownWaitsInv ==
  ASSUME IInv, Shutdown, Empty # Slots
  PROVE  IInv'
<1>1. Owner \in Threads /\ Owner \in Clients /\ Owner \notin Workers
  BY OwnerAssumption, WorkersAssumption DEF Threads
<1>2. /\ pc' = [pc EXCEPT ![Owner] = "shutdown"] /\ asleep' = asleep \union {Owner}
      /\ UNCHANGED <<task_id, processing, thread_id, next_task_id, eptr, destructing, slot, waiting>>
  BY DEF Shutdown, Goto, slotVars
<1>3. pc[Owner] # "find" /\ \A u \in Clients \ {Owner} : pc[u] = "idle"
  <2>1. CASE pc[Owner] = "shutdown"
    BY <2>1 DEF IInv, Stopping, Destroying
  <2>2. CASE \A t \in Clients : pc[t] = "idle"
    BY <2>2, OwnerAssumption
  <2> QED BY <2>1, <2>2 DEF Shutdown
<1>4. ~destructing
  BY DEF IInv, Stopping
<1>5. TypeOK'
  <2>1. pc' \in [Threads -> Labels] /\ asleep' \in SUBSET Threads
    BY <1>1, <1>2 DEF IInv, TypeOK, Labels
  <2> QED BY <1>2, <2>1 DEF IInv, TypeOK
<1>6. HasReason(Owner)'
  <2>1. pc'[Owner] = "shutdown"
    BY <1>1, <1>2 DEF IInv, TypeOK
  <2>2. Empty' = Empty
    BY <1>2 DEF Empty
  <2>3. Empty' # Slots
    BY <2>2
  <2> QED BY <2>1, <2>3 DEF HasReason
<1>7. Looking \subseteq Looking'
  BY <1>1, <1>2, <1>3, StillLooking DEF IInv
<1>8. "shutdown" \in Leaving /\ "shutdown" \in Resting
  BY DEF Leaving, Resting
<1> QED BY <1>1, <1>2, <1>3, <1>4, <1>5, <1>6, <1>7, <1>8, Move

\* The last step of the destructor.
LEMMA JoinInv ==
  ASSUME IInv, Join
  PROVE  IInv'
<1>1. Owner \in Threads /\ Owner \in Clients /\ Owner \notin Workers
  BY OwnerAssumption, WorkersAssumption DEF Threads
<1>2. PICK to \in {"destroyed", "aborted"} : pc' = [pc EXCEPT ![Owner] = to]
  BY DEF Join, Goto
<1>3. /\ pc[Owner] = "join"
      /\ UNCHANGED <<task_id, processing, thread_id, next_task_id, eptr, destructing, slot, waiting, asleep>>
  BY DEF Join, slotVars
<1>4. Owner \notin asleep
  BY <1>1, <1>3, SleepersRest DEF Resting
<1>5. TypeOK'
  <2>1. pc' \in [Threads -> Labels]
    BY <1>1, <1>2 DEF IInv, TypeOK, Labels
  <2> QED BY <1>3, <2>1 DEF IInv, TypeOK
<1>6. \A u \in Clients \ {Owner} : pc[u] = "idle"
  BY <1>3 DEF IInv, Stopping, Destroying
<1>7. Looking \subseteq Looking'
  BY <1>1, <1>2, <1>3, StillLooking DEF IInv
<1>8. to \in Leaving /\ to # "shutdown" /\ Owner \notin asleep'
  BY <1>3, <1>4 DEF Leaving
<1> QED BY <1>1, <1>2, <1>3, <1>5, <1>6, <1>7, <1>8, Move
-----------------------------------------------------------------------------
(***************************************************************************)
(* The steps that change slots                                             *)
(***************************************************************************)
\* While no worker sleeps and none has left there is one for each slot that is
\* not being processed.
LEMMA EnoughWorkers ==
  ASSUME IInv, ~destructing, Sleepers = {}, Empty # {}
  PROVE  Cardinality(Looking) > Cardinality(Ready)
<1> DEFINE Occupied == {i \in Slots : processing[i]}
           Employed == {w \in Workers : Busy(w)}
<1>1. IsFiniteSet(Occupied) /\ IsFiniteSet(Employed)
  BY SizeFacts, WorkersAssumption, FS_Subset
<1>2. Cardinality(Employed) <= Cardinality(Occupied)
  <2> DEFINE f == [w \in Employed |-> slot[w]]
  <2>1. f \in [Employed -> Occupied]
    BY DEF IInv, TypeOK, OneWorker
  <2>2. \A v, w \in Employed : f[v] = f[w] => v = w
    BY DEF IInv, OneWorker
  <2>3. f \in Injection(Employed, Occupied)
    BY <2>1, <2>2 DEF Injection, IsInjective
  <2> HIDE DEF f, Occupied, Employed
  <2> QED BY <1>1, <2>3, FS_Injection
<1>3. Looking = Workers \ Employed
  <2>1. ASSUME NEW w \in Workers, pc[w] = "find" PROVE w \notin asleep
    BY <2>1 DEF Sleepers
  <2>2. ASSUME NEW w \in Workers PROVE pc[w] = "find" <=> ~Busy(w)
    BY <2>2 DEF IInv, Roles, Stopping, Busy, Working
  <2> QED BY <2>1, <2>2 DEF Looking
<1>4. Cardinality(Looking) = Size - Cardinality(Employed)
  <2>1. Workers \intersect Employed = Employed
    OBVIOUS
  <2>2. Cardinality(Workers \ Employed) = Cardinality(Workers) - Cardinality(Workers \intersect Employed)
    BY WorkersAssumption, FS_Difference
  <2> QED BY <1>3, <2>1, <2>2 DEF Size
<1>5. Cardinality(Slots \ Occupied) = Size - Cardinality(Occupied)
  <2>1. Slots \intersect Occupied = Occupied
    OBVIOUS
  <2>2. Cardinality(Slots \ Occupied) = Cardinality(Slots) - Cardinality(Slots \intersect Occupied)
    BY SizeFacts, FS_Difference
  <2> QED BY <2>1, <2>2, SizeFacts
<1>6. Cardinality(Ready) < Cardinality(Slots \ Occupied)
  <2>1. PICK i \in Slots : task_id[i] = 0
    BY DEF Empty
  <2>2. i \notin Ready /\ ~processing[i]
    BY <2>1 DEF IInv, OneWorker, Ready
  <2>3. Ready \union {i} \subseteq Slots \ Occupied
    BY <2>2 DEF Ready
  <2>4. Cardinality(Ready \union {i}) = Cardinality(Ready) + 1
    BY <2>2, Counts, FS_AddElement
  <2>5. IsFiniteSet(Slots \ Occupied)
    BY SizeFacts, FS_Difference
  <2>6. Cardinality(Ready \union {i}) <= Cardinality(Slots \ Occupied)
    BY <2>3, <2>5, FS_Subset
  <2>7. Cardinality(Slots \ Occupied) \in Nat
    BY <2>5, FS_CardinalityType
  <2> QED BY <2>4, <2>6, <2>7, Counts
<1>7. Cardinality(Occupied) \in Nat /\ Cardinality(Employed) \in Nat
  BY <1>1, FS_CardinalityType
<1> HIDE DEF Occupied, Employed
<1> QED BY <1>2, <1>4, <1>5, <1>6, <1>7, Counts, SizeFacts

LEMMA AddTaskInv ==
  ASSUME IInv, NEW t \in Threads, AddTask(t)
  PROVE  IInv'
<1> DEFINE i  == First(Empty)
           id == make_next_task_id(i)
           to == IF t \in Workers THEN "run" ELSE "idle"
<1>1. i \in Slots /\ task_id[i] = 0 /\ i \in Empty
  <2>1. Empty \in SUBSET Slots /\ Empty # {}
    BY DEF Empty, AddTask
  <2>2. i \in Empty
    BY <2>1, FirstSlot
  <2> QED BY <2>2 DEF Empty
<1>2. id \in Nat /\ id > 1 /\ id = next_task_id[i] * Size + i
  BY <1>1, IdFacts DEF IInv, make_next_task_id
<1>3. /\ task_id' = [task_id EXCEPT ![i] = id]
      /\ thread_id' = [thread_id EXCEPT ![i] = t]
      /\ next_task_id' = [next_task_id EXCEPT ![i] = @ + 1]
      /\ waiting' = [waiting EXCEPT ![t] = id]
      /\ next_task_id[i] < MaxTasks + 2
      /\ pc' = [pc EXCEPT ![t] = to]
      /\ UNCHANGED <<processing, eptr, destructing, slot>>
      /\ t \notin asleep /\ Thrown = {} /\ Empty # {}
      /\ MayCall(t) \/ pc[t] = "add"
  BY DEF AddTask, Goto, Adding
<1>4. /\ ~destructing
      /\ t \in Workers => Busy(t) /\ t \notin Clients
      /\ t \in Clients => pc[t] \in Using /\ ~Destroying /\ t \notin Workers
  BY <1>3, Caller, WorkersAssumption
<1>5. asleep' \subseteq asleep
  BY DEF AddTask, SignalReady
<1>6. TypeOK
  BY DEF IInv
<1> HIDE DEF i, id
<1>7. /\ \A j \in Slots : task_id'[j] = IF j = i THEN id ELSE task_id[j]
      /\ \A j \in Slots \ {i} : thread_id'[j] = thread_id[j] /\ next_task_id'[j] = next_task_id[j]
      /\ next_task_id'[i] = next_task_id[i] + 1
      /\ \A u \in Threads \ {t} : pc'[u] = pc[u] /\ waiting'[u] = waiting[u]
      /\ pc'[t] = to
  BY <1>1, <1>3, <1>6 DEF TypeOK
<1>8. ~processing[i] /\ \A j \in Slots : ~eptr[j]
  BY <1>1, <1>3 DEF IInv, OneWorker, Thrown
<1>9. TypeOK'
  <2>1. task_id' \in [Slots -> Nat] /\ waiting' \in [Threads -> Nat \ {0}]
    <3>1. id \in Nat /\ id \in Nat \ {0}
      BY <1>2
    <3>2. task_id' \in [Slots -> Nat]
      BY <1>3, <1>6, <3>1 DEF TypeOK
    <3>3. waiting' \in [Threads -> Nat \ {0}]
      BY <1>3, <1>6, <3>1 DEF TypeOK
    <3> QED BY <3>2, <3>3
  <2>2. next_task_id' \in [Slots -> 2 .. MaxTasks + 2]
    <3>1. next_task_id[i] + 1 \in 2 .. MaxTasks + 2
      BY <1>1, <1>3, <1>6, MaxTasksInNat DEF TypeOK
    <3> QED BY <1>3, <1>6, <3>1 DEF TypeOK
  <2>3. thread_id' \in [Slots -> Threads \union {NoThread}]
    BY <1>3, <1>6 DEF TypeOK
  <2>4. pc' \in [Threads -> Labels]
    BY <1>3, <1>6 DEF TypeOK, Labels
  <2> QED BY <1>3, <1>5, <1>6, <2>1, <2>2, <2>3, <2>4 DEF TypeOK
<1>10. Roles'
  <2>1. to \in Using \union Working /\ (t \in Workers => to \in Working) /\ (t \in Clients => to \in Using)
    BY <1>4 DEF Using, Working
  <2>2. \A w \in Workers : pc'[w] \in {"find", "gone"} \union Working
    BY <1>7, <2>1 DEF IInv, Roles, Threads
  <2>3. \A u \in Clients : pc'[u] \in Using \union Leaving
    BY <1>7, <2>1 DEF IInv, Roles, Threads
  <2>4. \A u \in asleep' : pc'[u] \in Resting
    BY <1>3, <1>5, <1>6, <1>7 DEF IInv, Roles, TypeOK
  <2> QED BY <2>2, <2>3, <2>4 DEF Roles
<1>11. Stopping'
  <2>1. \A u \in Clients \ {Owner} : pc'[u] \in Using /\ (Destroying' => pc'[u] = "idle")
    <3>1. CASE t \in Workers
      <4>1. \A u \in Clients : pc'[u] = pc[u]
        BY <1>4, <1>7, <3>1 DEF Threads
      <4> QED BY <4>1, OwnerAssumption DEF IInv, Stopping, Destroying
    <3>2. CASE t \in Clients
      <4>1. ~Destroying'
        BY <1>4, <1>7, <3>2, OwnerAssumption DEF Destroying, Threads
      <4> QED BY <1>4, <1>7, <3>2, <4>1 DEF IInv, Stopping, Threads, Using
    <3> QED BY <3>1, <3>2 DEF Threads
  <2>2. \A w \in Workers : pc'[w] # "gone"
    BY <1>4, <1>7 DEF IInv, Stopping, Threads
  <2> QED BY <1>3, <1>4, <2>1, <2>2 DEF Stopping
<1>12. \A w \in Workers : Busy(w)' <=> Busy(w)
  <2>1. ASSUME NEW w \in Workers, w # t PROVE pc'[w] = pc[w]
    BY <1>7, <2>1 DEF Threads
  <2>2. t \in Workers => (Busy(t)' <=> Busy(t))
    BY <1>4, <1>7 DEF Busy
  <2> QED BY <2>1, <2>2 DEF Busy
<1>13. OneWorker'
  BY <1>2, <1>3, <1>7, <1>12 DEF IInv, OneWorker
<1>14. IdsTellSlots'
  <2>1. task_id'[i] = (next_task_id'[i] - 1) * Size + i /\ task_id'[i] > 1
    <3>1. next_task_id'[i] - 1 = next_task_id[i]
      BY <1>1, <1>6, <1>7, MaxTasksInNat DEF TypeOK
    <3> QED BY <1>1, <1>2, <1>7, <3>1
  <2>2. ASSUME NEW j \in Slots, j # i, task_id'[j] # 0
        PROVE  task_id'[j] = (next_task_id'[j] - 1) * Size + j /\ task_id'[j] > 1
    BY <1>7, <2>2 DEF IInv, IdsTellSlots
  <2> QED BY <2>1, <2>2 DEF IdsTellSlots
<1>15. ExceptionsKept'
  BY <1>3, <1>8 DEF ExceptionsKept
<1>16. Cardinality(Looking') >= Cardinality(Ready')
  <2>1. Ready' = Ready \union {i} /\ i \notin Ready
    BY <1>1, <1>2, <1>3, <1>7, <1>8 DEF Ready
  <2>2. Cardinality(Ready') = Cardinality(Ready) + 1
    BY <2>1, Counts, FS_AddElement
  <2>3. pc[t] # "find" /\ pc'[t] # "find"
    BY <1>4, <1>7 DEF Busy, Using, Threads
  <2>4. \A w \in Workers : pc'[w] = "find" <=> pc[w] = "find"
    BY <1>7, <2>3 DEF Threads
  <2>5. CASE Sleepers = {}
    <3>1. Looking' = Looking
      <4>1. asleep' = asleep
        BY <2>5 DEF AddTask, SignalReady
      <4> QED BY <2>4, <4>1 DEF Looking
    <3>2. Cardinality(Looking) > Cardinality(Ready)
      BY <1>3, <1>4, <2>5, EnoughWorkers
    <3> QED BY <2>2, <3>1, <3>2, Counts
  <2>6. ASSUME NEW w \in Sleepers, asleep' = asleep \ {w}
        PROVE  Cardinality(Looking') >= Cardinality(Ready')
    <3>1. w \in Workers /\ pc[w] = "find" /\ w \in asleep
      BY <1>6 DEF Sleepers, IInv, Roles, Using, Leaving, TypeOK, Threads
    <3>2. Looking' = Looking \union {w} /\ w \notin Looking
      BY <2>4, <2>6, <3>1 DEF Looking
    <3>3. Cardinality(Looking') = Cardinality(Looking) + 1
      BY <3>2, Counts, FS_AddElement
    <3>4. Cardinality(Looking) >= Cardinality(Ready)
      BY DEF IInv, NoLostWakeup
    <3> QED BY <2>2, <3>3, <3>4, Counts
  <2> QED BY <2>5, <2>6 DEF AddTask, SignalReady
<1>17. ASSUME NEW u \in asleep' PROVE HasReason(u)'
  <2>1. u \in asleep /\ u \in Threads /\ u # t
    BY <1>3, <1>5, <1>6 DEF TypeOK
  <2>2. HasReason(u) /\ pc'[u] = pc[u] /\ waiting'[u] = waiting[u]
    BY <1>7, <2>1 DEF IInv, NoLostWakeup
  <2>3. pc[u] # "add"
    BY <1>3, <2>2 DEF HasReason
  <2>4. pc[u] = "task" => InPool(waiting[u])'
    <3> SUFFICES ASSUME pc[u] = "task" PROVE InPool(waiting[u])'
      OBVIOUS
    <3>1. waiting[u] \in Nat /\ waiting[u] # 0
      BY <1>6, <2>1 DEF TypeOK
    <3>2. index(waiting[u]) \in Slots
      BY <3>1, IndexInSlots
    <3>3. task_id[index(waiting[u])] = waiting[u]
      BY <2>2 DEF HasReason, InPool
    <3>4. index(waiting[u]) # i
      BY <1>1, <3>1, <3>3
    <3>5. task_id'[index(waiting[u])] = waiting'[u]
      BY <1>7, <2>2, <3>2, <3>3, <3>4
    <3> QED BY <2>2, <3>5 DEF InPool, index
  <2>5. pc[u] = "all" => Mine(u)' # {}
    <3>1. Mine(u) \subseteq Mine(u)'
      BY <1>1, <1>2, <1>7 DEF Mine
    <3> QED BY <2>2, <3>1 DEF HasReason
  <2>6. Empty' # Slots
    BY <1>1, <1>2, <1>7 DEF Empty
  <2> QED BY <1>3, <1>4, <2>2, <2>3, <2>4, <2>5, <2>6 DEF HasReason
<1>18. NoLostWakeup'
  BY <1>16, <1>17 DEF NoLostWakeup
<1> QED BY <1>9, <1>10, <1>11, <1>13, <1>14, <1>15, <1>18 DEF IInv

LEMMA TakeInv ==
  ASSUME IInv, NEW w \in Workers, Take(w)
  PROVE  IInv'
<1> DEFINE i == First(Ready)
<1>1. i \in Slots /\ i \in Ready /\ task_id[i] # 0 /\ ~processing[i]
  <2>1. Ready \in SUBSET Slots /\ Ready # {}
    BY DEF Ready, Take
  <2>2. i \in Ready
    BY <2>1, FirstSlot
  <2> QED BY <2>2 DEF Ready
<1>2. /\ processing' = [processing EXCEPT ![i] = TRUE]
      /\ slot' = [slot EXCEPT ![w] = i]
      /\ waiting' = [waiting EXCEPT ![w] = 1]
      /\ pc' = [pc EXCEPT ![w] = "run"]
      /\ UNCHANGED <<task_id, thread_id, eptr, next_task_id, destructing, asleep>>
      /\ pc[w] = "find" /\ w \notin asleep /\ ~destructing
  BY DEF Take, Goto
<1>3. TypeOK /\ w \in Threads /\ w \notin Clients
  BY WorkersAssumption DEF IInv, Threads
<1> HIDE DEF i
<1>4. /\ \A j \in Slots : processing'[j] = (IF j = i THEN TRUE ELSE processing[j])
      /\ \A v \in Workers : slot'[v] = IF v = w THEN i ELSE slot[v]
      /\ \A u \in Threads \ {w} : pc'[u] = pc[u] /\ waiting'[u] = waiting[u]
      /\ pc'[w] = "run"
  BY <1>2, <1>3 DEF TypeOK
<1>5. TypeOK'
  <2>1. processing' \in [Slots -> BOOLEAN] /\ slot' \in [Workers -> Slots]
    BY <1>1, <1>2, <1>3 DEF TypeOK
  <2>2. waiting' \in [Threads -> Nat \ {0}] /\ pc' \in [Threads -> Labels]
    BY <1>2, <1>3 DEF TypeOK, Labels
  <2> QED BY <1>2, <1>3, <2>1, <2>2 DEF TypeOK
<1>6. Roles'
  <2>1. \A v \in Workers : pc'[v] \in {"find", "gone"} \union Working
    BY <1>4 DEF IInv, Roles, Threads, Working
  <2>2. \A u \in Clients : pc'[u] \in Using \union Leaving
    BY <1>3, <1>4 DEF IInv, Roles, Threads
  <2>3. \A u \in asleep' : pc'[u] \in Resting
    BY <1>2, <1>3, <1>4 DEF IInv, Roles, TypeOK
  <2> QED BY <2>1, <2>2, <2>3 DEF Roles
<1>7. Stopping'
  <2>1. \A u \in Clients : pc'[u] = pc[u]
    BY <1>3, <1>4 DEF Threads
  <2>2. \A u \in Clients \ {Owner} : pc'[u] \in Using /\ (Destroying' => pc'[u] = "idle")
    BY <2>1, OwnerAssumption DEF IInv, Stopping, Destroying
  <2>3. \A v \in Workers : pc'[v] # "gone"
    BY <1>2, <1>4 DEF IInv, Stopping, Threads
  <2> QED BY <1>2, <2>2, <2>3 DEF Stopping
<1>8. /\ Busy(w)' /\ ~Busy(w)
      /\ \A v \in Workers \ {w} : Busy(v)' <=> Busy(v)
  BY <1>2, <1>4 DEF Busy, Threads
<1>9. OneWorker'
  <2>1. ASSUME NEW j \in Slots, processing'[j]
        PROVE  task_id'[j] # 0 /\ \E v \in Workers : Busy(v)' /\ slot'[v] = j
    <3>1. CASE j = i
      BY <1>1, <1>2, <1>4, <1>8, <3>1
    <3>2. CASE j # i
      <4>1. processing[j]
        BY <1>4, <2>1, <3>2
      <4>2. PICK v \in Workers : Busy(v) /\ slot[v] = j
        BY <4>1 DEF IInv, OneWorker
      <4>3. v # w /\ task_id[j] # 0
        BY <1>8, <4>1, <4>2 DEF IInv, OneWorker
      <4> QED BY <1>2, <1>4, <1>8, <4>2, <4>3
    <3> QED BY <3>1, <3>2
  <2>2. ASSUME NEW v \in Workers, Busy(v)' PROVE processing'[slot'[v]]
    <3>1. CASE v = w
      BY <1>1, <1>4, <3>1
    <3>2. CASE v # w
      <4>1. processing[slot[v]] /\ slot[v] \in Slots
        BY <1>3, <1>8, <2>2, <3>2 DEF IInv, OneWorker, TypeOK
      <4> QED BY <1>4, <3>2, <4>1
    <3> QED BY <3>1, <3>2
  <2>3. ASSUME NEW v \in Workers \ {w}, Busy(v)' PROVE slot'[v] # i
    BY <1>1, <1>4, <1>8, <2>3 DEF IInv, OneWorker
  <2>4. ASSUME NEW u \in Workers, NEW v \in Workers, Busy(u)', Busy(v)', slot'[u] = slot'[v]
        PROVE  u = v
    BY <1>4, <1>8, <2>3, <2>4 DEF IInv, OneWorker
  <2> QED BY <2>1, <2>2, <2>4 DEF OneWorker
<1>10. IdsTellSlots' /\ ExceptionsKept'
  BY <1>2 DEF IInv, IdsTellSlots, ExceptionsKept
<1>11. Cardinality(Looking') >= Cardinality(Ready')
  <2>1. Ready' = Ready \ {i}
    BY <1>1, <1>2, <1>4 DEF Ready
  <2>2. Looking' = Looking \ {w} /\ w \in Looking
    BY <1>2, <1>4 DEF Looking, Threads
  <2>3. Cardinality(Ready') = Cardinality(Ready) - 1
    BY <1>1, <2>1, Counts, FS_RemoveElement
  <2>4. Cardinality(Looking') = Cardinality(Looking) - 1
    BY <2>2, Counts, FS_RemoveElement
  <2>5. Cardinality(Looking) >= Cardinality(Ready)
    BY DEF IInv, NoLostWakeup
  <2> QED BY <2>3, <2>4, <2>5, Counts
<1>12. ASSUME NEW u \in asleep' PROVE HasReason(u)'
  <2>1. u \in Threads \ {w} /\ HasReason(u)
    BY <1>2, <1>3 DEF IInv, NoLostWakeup, TypeOK
  <2> QED BY <1>2, <1>4, <2>1, ReasonKept
<1>13. NoLostWakeup'
  BY <1>11, <1>12 DEF NoLostWakeup
<1> QED BY <1>5, <1>6, <1>7, <1>9, <1>10, <1>13 DEF IInv

LEMMA FinishInv ==
  ASSUME IInv, NEW w \in Workers, Finish(w)
  PROVE  IInv'
<1> DEFINE i == slot[w]
<1>1. w \in Threads /\ w \notin Clients /\ TypeOK
  BY WorkersAssumption DEF IInv, Threads
<1>2. Busy(w) /\ i \in Slots /\ ~destructing /\ processing[i] /\ task_id[i] # 0
  <2>1. Busy(w)
    BY DEF Finish, Busy
  <2> QED BY <2>1, BusyNotStopped
<1>3. w \notin asleep
  BY <1>1, SleepersRest DEF Finish, Resting
<1>4. PICK throws \in BOOLEAN : eptr' = [eptr EXCEPT ![i] = throws]
  BY DEF Finish
<1>5. /\ processing' = [processing EXCEPT ![i] = FALSE]
      /\ task_id' = [task_id EXCEPT ![i] = 0]
      /\ asleep' = asleep \intersect Sleepers
      /\ pc' = [pc EXCEPT ![w] = "find"]
      /\ UNCHANGED <<thread_id, next_task_id, destructing, slot, waiting>>
  BY DEF Finish, Goto
<1> HIDE DEF i
<1>6. /\ \A j \in Slots : processing'[j] = (IF j = i THEN FALSE ELSE processing[j])
      /\ \A j \in Slots : task_id'[j] = IF j = i THEN 0 ELSE task_id[j]
      /\ \A j \in Slots \ {i} : eptr'[j] = eptr[j]
      /\ \A u \in Threads \ {w} : pc'[u] = pc[u]
      /\ pc'[w] = "find"
  BY <1>1, <1>2, <1>4, <1>5 DEF TypeOK
<1>7. TypeOK'
  <2>1. processing' \in [Slots -> BOOLEAN] /\ eptr' \in [Slots -> BOOLEAN]
    BY <1>1, <1>4, <1>5 DEF TypeOK
  <2>2. task_id' \in [Slots -> Nat]
    BY <1>1, <1>5 DEF TypeOK
  <2>3. pc' \in [Threads -> Labels] /\ asleep' \in SUBSET Threads
    BY <1>1, <1>5 DEF TypeOK, Labels
  <2> QED BY <1>1, <1>5, <2>1, <2>2, <2>3 DEF TypeOK
<1>8. Roles'
  <2>1. \A v \in Workers : pc'[v] \in {"find", "gone"} \union Working
    BY <1>6 DEF IInv, Roles, Threads
  <2>2. \A u \in Clients : pc'[u] \in Using \union Leaving
    BY <1>1, <1>6 DEF IInv, Roles, Threads
  <2>3. \A u \in asleep' : pc'[u] \in Resting
    BY <1>1, <1>3, <1>5, <1>6 DEF IInv, Roles, TypeOK
  <2> QED BY <2>1, <2>2, <2>3 DEF Roles
<1>9. Stopping'
  <2>1. \A u \in Clients : pc'[u] = pc[u]
    BY <1>1, <1>6 DEF Threads
  <2>2. \A u \in Clients \ {Owner} : pc'[u] \in Using /\ (Destroying' => pc'[u] = "idle")
    BY <2>1, OwnerAssumption DEF IInv, Stopping, Destroying
  <2>3. \A v \in Workers : pc'[v] # "gone"
    BY <1>2, <1>6 DEF IInv, Stopping, Threads
  <2> QED BY <1>2, <1>5, <2>2, <2>3 DEF Stopping
<1>10. /\ ~Busy(w)'
       /\ \A v \in Workers \ {w} : Busy(v)' <=> Busy(v)
  BY <1>6 DEF Busy, Threads
<1>11. ASSUME NEW v \in Workers \ {w}, Busy(v)' PROVE Busy(v) /\ slot[v] # i /\ slot[v] \in Slots
  BY <1>1, <1>2, <1>10, <1>11 DEF IInv, OneWorker, TypeOK, i
<1>12. OneWorker'
  <2>1. ASSUME NEW j \in Slots, processing'[j]
        PROVE  task_id'[j] # 0 /\ \E v \in Workers : Busy(v)' /\ slot'[v] = j
    <3>1. j # i /\ processing[j]
      BY <1>6, <2>1
    <3>2. PICK v \in Workers : Busy(v) /\ slot[v] = j
      BY <3>1 DEF IInv, OneWorker
    <3>3. v # w /\ task_id[j] # 0
      BY <3>1, <3>2 DEF i, IInv, OneWorker
    <3> QED BY <1>5, <1>6, <1>10, <3>1, <3>2, <3>3
  <2>2. ASSUME NEW v \in Workers, Busy(v)' PROVE processing'[slot'[v]]
    <3>1. v # w
      BY <1>10, <2>2
    <3>2. processing[slot[v]]
      BY <1>11, <2>2, <3>1 DEF IInv, OneWorker
    <3> QED BY <1>5, <1>6, <1>11, <2>2, <3>1, <3>2
  <2>3. ASSUME NEW u \in Workers, NEW v \in Workers, Busy(u)', Busy(v)', slot'[u] = slot'[v]
        PROVE  u = v
    BY <1>5, <1>10, <2>3 DEF IInv, OneWorker
  <2> QED BY <2>1, <2>2, <2>3 DEF OneWorker
<1>13. IdsTellSlots'
  BY <1>5, <1>6 DEF IInv, IdsTellSlots
<1>14. ExceptionsKept'
  BY <1>6 DEF IInv, ExceptionsKept
<1>15. Cardinality(Looking') >= Cardinality(Ready')
  <2>1. Ready' = Ready
    BY <1>2, <1>6 DEF Ready
  <2>2. Looking \subseteq Looking'
    BY <1>5, <1>6 DEF Looking, Threads
  <2>3. Cardinality(Looking) <= Cardinality(Looking')
    BY <2>2, Counts, FS_Subset
  <2>4. Cardinality(Looking) >= Cardinality(Ready)
    BY DEF IInv, NoLostWakeup
  <2> QED BY <2>1, <2>3, <2>4, Counts
<1>16. ASSUME NEW u \in asleep' PROVE HasReason(u)'
  <2>1. u \in Threads \ {w} /\ pc[u] = "find"
    BY <1>1, <1>3, <1>5 DEF Sleepers, TypeOK
  <2>2. pc'[u] = "find" /\ ~destructing'
    BY <1>2, <1>5, <1>6, <2>1
  <2> QED BY <2>2 DEF HasReason
<1>17. NoLostWakeup'
  BY <1>15, <1>16 DEF NoLostWakeup
<1> QED BY <1>7, <1>8, <1>9, <1>12, <1>13, <1>14, <1>17 DEF IInv

\* The destructor finds no task and tells the workers to leave.
LEMMA ShutdownEndsInv ==
  ASSUME IInv, Shutdown, Empty = Slots
  PROVE  IInv'
<1>1. Owner \in Threads /\ Owner \in Clients /\ Owner \notin Workers /\ TypeOK
  BY OwnerAssumption, WorkersAssumption DEF Threads, IInv
<1>2. /\ destructing' = TRUE /\ asleep' = asleep \ Sleepers
      /\ pc' = [pc EXCEPT ![Owner] = "join"] /\ Owner \notin asleep
      /\ UNCHANGED <<task_id, processing, thread_id, next_task_id, eptr, slot, waiting>>
  BY DEF Shutdown, Goto, slotVars
<1>3. \A u \in Clients \ {Owner} : pc[u] = "idle"
  <2>1. CASE pc[Owner] = "shutdown"
    BY <2>1 DEF IInv, Stopping, Destroying
  <2>2. CASE \A t \in Clients : pc[t] = "idle"
    BY <2>2
  <2> QED BY <2>1, <2>2 DEF Shutdown
<1>4. pc'[Owner] = "join" /\ \A u \in Threads \ {Owner} : pc'[u] = pc[u]
  BY <1>1, <1>2 DEF TypeOK
<1>5. TypeOK'
  <2>1. pc' \in [Threads -> Labels] /\ asleep' \in SUBSET Threads
    BY <1>1, <1>2 DEF TypeOK, Labels
  <2> QED BY <1>1, <1>2, <2>1 DEF TypeOK
<1>6. Roles'
  <2>1. \A w \in Workers : pc'[w] \in {"find", "gone"} \union Working
    BY <1>1, <1>4 DEF IInv, Roles, Threads
  <2>2. \A u \in Clients : pc'[u] \in Using \union Leaving
    BY <1>4 DEF IInv, Roles, Threads, Leaving
  <2>3. \A u \in asleep' : pc'[u] \in Resting
    BY <1>1, <1>2, <1>4 DEF IInv, Roles, TypeOK
  <2> QED BY <2>1, <2>2, <2>3 DEF Roles
<1>7. Stopping'
  <2>1. \A u \in Clients \ {Owner} : pc'[u] = "idle" /\ pc'[u] \in Using
    BY <1>3, <1>4 DEF Threads, Using
  <2>2. Empty' = Slots
    BY <1>2 DEF Empty
  <2> QED BY <1>2, <1>4, <2>1, <2>2 DEF Stopping, Leaving
<1>8. \A w \in Workers : Busy(w)' <=> Busy(w)
  BY <1>1, <1>4 DEF Busy, Threads
<1>9. OneWorker' /\ IdsTellSlots' /\ ExceptionsKept'
  BY <1>2, <1>8, SlotsKept DEF IInv
<1>10. Ready' = {}
  BY <1>2 DEF Empty, Ready
<1>11. Cardinality(Looking') >= Cardinality(Ready')
  BY <1>10, Counts, FS_EmptySet
<1>12. ASSUME NEW u \in asleep' PROVE HasReason(u)'
  <2>1. u \in Threads \ {Owner} /\ u \in asleep /\ pc[u] # "find"
    BY <1>1, <1>2 DEF Sleepers, TypeOK
  <2>2. HasReason(u) /\ pc'[u] = pc[u]
    BY <1>4, <2>1 DEF IInv, NoLostWakeup
  <2> QED BY <1>2, <2>1, <2>2 DEF HasReason, Empty, InPool, index, Mine
<1>13. NoLostWakeup'
  BY <1>11, <1>12 DEF NoLostWakeup
<1> QED BY <1>5, <1>6, <1>7, <1>9, <1>13 DEF IInv

-----------------------------------------------------------------------------
(***************************************************************************)
(* The invariant                                                           *)
(***************************************************************************)
LEMMA InitInv == Init => IInv
<1> SUFFICES ASSUME Init PROVE IInv
  OBVIOUS
<1>1. \A w \in Workers : pc[w] = "find"
  BY DEF Init, Threads
<1>2. \A t \in Clients : pc[t] = "idle"
  BY WorkersAssumption DEF Init, Threads
<1>3. Ready = {} /\ Empty = Slots /\ 0 \in Slots
  BY SizeFacts DEF Init, Ready, Empty, Slots
<1>4. TypeOK
  <2>1. next_task_id \in [Slots -> 2 .. MaxTasks + 2]
    BY MaxTasksInNat DEF Init
  <2>2. task_id \in [Slots -> Nat] /\ waiting \in [Threads -> Nat \ {0}]
    BY DEF Init
  <2>3. pc \in [Threads -> Labels] /\ slot \in [Workers -> Slots]
    BY <1>3 DEF Init, Labels
  <2> QED BY <2>1, <2>2, <2>3 DEF Init, TypeOK
<1>5. Roles
  BY <1>1, <1>2 DEF Init, Roles, Using
<1>6. Stopping
  BY <1>1, <1>2 DEF Init, Stopping, Using
<1>7. OneWorker /\ IdsTellSlots /\ ExceptionsKept
  BY <1>1 DEF Init, OneWorker, IdsTellSlots, ExceptionsKept, Busy
<1>8. NoLostWakeup
  BY <1>3, Counts, FS_EmptySet DEF Init, NoLostWakeup
<1> QED BY <1>4, <1>5, <1>6, <1>7, <1>8 DEF IInv

LEMMA StepInv == IInv /\ [Next]_vars => IInv'
<1> SUFFICES ASSUME IInv, [Next]_vars PROVE IInv'
  OBVIOUS
<1>1. ASSUME NEW w \in Workers, WorkerStep(w) PROVE IInv'
  BY <1>1, InlineEndsInv, FindInv, TakeInv, FinishInv, LeaveInv DEF WorkerStep
<1>2. ASSUME NEW t \in Threads, Call(t) PROVE IInv'
  BY <1>2, AddTaskInv, AddTaskThrowsInv, AddTaskFullInv, WaitForTaskInv, WaitForAllTasksInv
  DEF Call
<1>3. ASSUME NEW t \in Threads, Spurious(t) PROVE IInv'
  BY <1>3, SpuriousInv
<1>4. CASE Shutdown
  BY <1>4, ShutdownEndsInv, ShutdownWaitsInv
<1>5. CASE Join
  BY <1>5, JoinInv
<1>6. CASE UNCHANGED vars
  BY <1>6 DEF vars, slotVars, IInv, TypeOK, Roles, Stopping, Destroying, OneWorker, Busy,
     IdsTellSlots, ExceptionsKept, NoLostWakeup, Looking, Ready, HasReason, Empty, InPool, index,
     Mine
<1> QED BY <1>1, <1>2, <1>3, <1>4, <1>5, <1>6 DEF Next

\* The inductive invariant holds in every reachable state.
THEOREM Invariance == Spec => []IInv
<1> QED BY InitInv, StepInv, PTL DEF Spec

\* Tasks, slots and signalers are always of their types; in particular no counter
\* of a slot leaves its range.
THEOREM Typing == Spec => []TypeOK
<1>1. IInv => TypeOK
  BY DEF IInv
<1> QED BY <1>1, Invariance, PTL

\* thread(): a slot is processed by exactly one worker, in any interleaving of any
\* number of workers and clients.
THEOREM OneWorkerForEachTask == Spec => []OneWorker
<1>1. IInv => OneWorker
  BY DEF IInv
<1> QED BY <1>1, Invariance, PTL

\* make_next_task_id(): a task has the id that was made last for its slot, and so
\* no id is in the pool twice.
THEOREM IdsAreUnique == Spec => []IdsTellSlots
<1>1. IInv => IdsTellSlots
  BY DEF IInv
<1> QED BY <1>1, Invariance, PTL

\* propagate_exception(): no exception is overwritten by a later task.
THEOREM NoExceptionLost == Spec => []ExceptionsKept
<1>1. IInv => ExceptionsKept
  BY DEF IInv
<1> QED BY <1>1, Invariance, PTL

\* The two signalers: some worker is awake for every task that is ready, and nobody
\* sleeps through what it waits for.
THEOREM WakeUps == Spec => []NoLostWakeup
<1>1. IInv => NoLostWakeup
  BY DEF IInv
<1> QED BY <1>1, Invariance, PTL

\* shutdown_pool(): no worker leaves before all tasks are done, and none is added
\* after that.
THEOREM AllDoneAtTheEnd == Spec => []NothingLeftBehind
<1>1. IInv => NothingLeftBehind
  <2> SUFFICES ASSUME IInv, NEW w \in Workers, pc[w] = "gone"
               PROVE  Empty = Slots /\ destructing /\ ~\E v \in Workers : Busy(v)
    BY DEF NothingLeftBehind
  <2>1. destructing /\ Empty = Slots
    BY DEF IInv, Stopping
  <2> QED BY <2>1, BusyNotStopped
<1> QED BY <1>1, Invariance, PTL
=============================================================================
