------------------------------ MODULE ThreadPool ------------------------------
(***************************************************************************)
(* dlib::thread_pool (threads/thread_pool_extension.cpp): a fixed number   *)
(* of worker threads with one task slot each.                              *)
(*                                                                         *)
(* Clients add tasks, wait for one task or for all tasks that they have    *)
(* added, and one of them destroys the pool.  A task may itself add tasks  *)
(* and wait for them; when no slot is empty it runs such a task inline.    *)
(* A task may throw: the exception is trapped in its slot and rethrown to  *)
(* whoever next calls one of the functions of the pool.                    *)
(* Everything between two waits runs under the mutex m and is one step.    *)
(***************************************************************************)
EXTENDS Naturals, FiniteSets

CONSTANTS
  Workers,            \* the threads of the pool
  Clients,            \* the threads that use the pool
  Owner,              \* the client that destroys it
  NoThread,           \* the thread_id of a slot that was never used
  MaxTasks            \* bound: how many tasks are put into each slot

ASSUME OwnerAssumption   == Owner \in Clients
ASSUME WorkersAssumption ==
  IsFiniteSet(Workers) /\ Workers # {} /\ Workers \intersect Clients = {}
ASSUME NoThreadIsNone    == NoThread \notin Workers \union Clients
ASSUME MaxTasksInNat     == MaxTasks \in Nat

Size    == Cardinality(Workers)
Slots   == 0 .. Size - 1
Threads == Workers \union Clients

VARIABLES
  task_id,         \* task_id[i]: the task in slot i, 0 if it is empty
  processing,      \* processing[i]: is_being_processed
  thread_id,       \* thread_id[i]: the thread that added the task in slot i
  eptr,            \* eptr[i]: whether the last task of slot i threw
  next_task_id,    \* next_task_id[i]
  destructing,     \* we_are_destructing
  pc,              \* pc[t]: what thread t is doing
  slot,            \* slot[w]: the slot that worker w works on
  waiting,         \* waiting[t]: the task that t has added last, or waits for
  asleep           \* the threads that sleep on one of the two signalers

slotVars == <<task_id, processing, thread_id, eptr, next_task_id>>
vars == <<slotVars, destructing, pc, slot, waiting, asleep>>

(***************************************************************************)
(* Workers: looking for a task, running one, running one that they added   *)
(* inline, about to leave one with an exception, gone.  Both: waiting for  *)
(* a task, for all tasks, and (clients) for a slot.  The owner, while it   *)
(* destroys the pool: waiting for tasks, joining, done or aborted.         *)
(***************************************************************************)
Labels == {"find", "run", "inline", "throw", "gone", "task", "all", "idle", "add",
           "shutdown", "join", "destroyed", "aborted"}

TypeOK ==
  /\ task_id \in [Slots -> Nat]
  /\ processing \in [Slots -> BOOLEAN]
  /\ thread_id \in [Slots -> Threads \union {NoThread}]
  /\ eptr \in [Slots -> BOOLEAN]
  /\ next_task_id \in [Slots -> 2 .. MaxTasks + 2]
  /\ destructing \in BOOLEAN
  /\ pc \in [Threads -> Labels]
  /\ slot \in [Workers -> Slots]
  /\ waiting \in [Threads -> Nat \ {0}]
  /\ asleep \in SUBSET Threads

\* A faulty variant: ids start at zero, and so include the one of inline tasks.
InitFromZero ==
  /\ task_id = [i \in Slots |-> 0]
  /\ processing = [i \in Slots |-> FALSE]
  /\ thread_id = [i \in Slots |-> NoThread]
  /\ eptr = [i \in Slots |-> FALSE]
  /\ next_task_id = [i \in Slots |-> 0]
  /\ destructing = FALSE
  /\ pc = [t \in Threads |-> IF t \in Workers THEN "find" ELSE "idle"]
  /\ slot = [w \in Workers |-> 0]
  /\ waiting = [t \in Threads |-> 1]
  /\ asleep = {}

Init ==
  /\ task_id = [i \in Slots |-> 0]
  /\ processing = [i \in Slots |-> FALSE]
  /\ thread_id = [i \in Slots |-> NoThread]
  /\ eptr = [i \in Slots |-> FALSE]
  /\ next_task_id = [i \in Slots |-> 2]
  /\ destructing = FALSE
  /\ pc = [t \in Threads |-> IF t \in Workers THEN "find" ELSE "idle"]
  /\ slot = [w \in Workers |-> 0]
  /\ waiting = [t \in Threads |-> 1]
  /\ asleep = {}

First(S) == CHOOSE i \in S : \A j \in S : i <= j

Empty  == {i \in Slots : task_id[i] = 0}
Ready  == {i \in Slots : task_id[i] # 0 /\ ~processing[i]}
Thrown == {i \in Slots : eptr[i]}

Goto(t, to) == pc' = [pc EXCEPT ![t] = to]

\* Where a thread is while it runs code of its own, and may call the pool.
Calling(t) == pc[t] = IF t \in Workers THEN "run" ELSE "idle"

Destroying == pc[Owner] \in {"shutdown", "join", "destroyed", "aborted"}

\* The pool may not be used any more once its owner destroys it, except by tasks.
MayCall(t) == Calling(t) /\ (t \in Workers \/ ~Destroying)

(***************************************************************************)
(* propagate_exception() on one slot after another: the first exception is *)
(* rethrown in the calling thread, the others stay where they are.  A      *)
(* client catches it, a task may as well end with it.                      *)
(***************************************************************************)
Rethrow(t) ==
  /\ Thrown # {}
  /\ eptr' = [eptr EXCEPT ![First(Thrown)] = FALSE]
  /\ \/ Goto(t, IF t \in Workers THEN "run" ELSE "idle")
     \/ t \in Workers /\ Goto(t, "throw")

Return(t) ==
  /\ Thrown = {}
  /\ Goto(t, IF t \in Workers THEN "run" ELSE "idle")
  /\ UNCHANGED eptr

(***************************************************************************)
(* add_task(), in all its forms                                            *)
(***************************************************************************)
Adding(t) == t \notin asleep /\ (MayCall(t) \/ pc[t] = "add")

Sleepers == {t \in asleep : pc[t] = "find"}

\* task_ready_signaler.signal() wakes one worker, if one sleeps.
SignalReady ==
  \/ Sleepers = {} /\ UNCHANGED asleep
  \/ \E w \in Sleepers : asleep' = asleep \ {w}

make_next_task_id(i) == next_task_id[i] * Size + i

\* A faulty variant: no look at the exceptions before a slot is used again.
AddTaskUnchecked(t) ==
  /\ Adding(t) /\ Empty # {}
  /\ LET i  == First(Empty)
         id == make_next_task_id(i)
     IN  /\ next_task_id[i] < MaxTasks + 2
         /\ task_id' = [task_id EXCEPT ![i] = id]
         /\ thread_id' = [thread_id EXCEPT ![i] = t]
         /\ next_task_id' = [next_task_id EXCEPT ![i] = @ + 1]
         /\ waiting' = [waiting EXCEPT ![t] = id]
  /\ SignalReady
  /\ Goto(t, IF t \in Workers THEN "run" ELSE "idle")
  /\ UNCHANGED <<processing, eptr, destructing, slot>>

AddTask(t) ==
  /\ Adding(t) /\ Thrown = {} /\ Empty # {}
  /\ LET i  == First(Empty)
         id == make_next_task_id(i)
     IN  /\ next_task_id[i] < MaxTasks + 2
         /\ task_id' = [task_id EXCEPT ![i] = id]
         /\ thread_id' = [thread_id EXCEPT ![i] = t]
         /\ next_task_id' = [next_task_id EXCEPT ![i] = @ + 1]
         /\ waiting' = [waiting EXCEPT ![t] = id]
  /\ SignalReady
  /\ Goto(t, IF t \in Workers THEN "run" ELSE "idle")
  /\ UNCHANGED <<processing, eptr, destructing, slot>>

AddTaskThrows(t) ==
  /\ Adding(t) /\ Rethrow(t)
  /\ UNCHANGED <<task_id, processing, thread_id, next_task_id, destructing, slot, waiting, asleep>>

\* A faulty variant: a task, too, waits for an empty slot.
AddTaskFullWaits(t) ==
  /\ Adding(t) /\ Thrown = {} /\ Empty = {}
  /\ Goto(t, "add") /\ asleep' = asleep \union {t}
  /\ UNCHANGED <<slotVars, destructing, slot, waiting>>

\* No slot is empty: a client waits for one, a task does the new task itself.
AddTaskFull(t) ==
  /\ Adding(t) /\ Thrown = {} /\ Empty = {}
  /\ IF t \in Workers
     THEN Goto(t, "inline") /\ UNCHANGED asleep
     ELSE Goto(t, "add") /\ asleep' = asleep \union {t}
  /\ UNCHANGED <<slotVars, destructing, slot, waiting>>

\* The task that was run inline returns, with the id 1, or throws.  The calls that
\* it makes itself are calls of the same thread, like those of the task around it.
InlineEnds(w) ==
  /\ pc[w] = "inline"
  /\ \/ Goto(w, "run") /\ waiting' = [waiting EXCEPT ![w] = 1]
     \/ (Goto(w, "run") \/ Goto(w, "throw")) /\ UNCHANGED waiting
  /\ UNCHANGED <<slotVars, destructing, slot, asleep>>

(***************************************************************************)
(* wait_for_task() and wait_for_all_tasks()                                *)
(***************************************************************************)
index(id) == id % Size

InPool(id) == task_id[index(id)] = id

\* A faulty variant: the tasks of all threads.
MineAndOthers(t) == {i \in Slots : task_id[i] # 0}

\* The tasks that wait_for_all_tasks() has to wait for.
Mine(t) == {i \in Slots : task_id[i] # 0 /\ thread_id[i] = t}

Wait(t, label, pending) ==
  /\ t \notin asleep
  /\ \/ /\ pending
        /\ Goto(t, label) /\ asleep' = asleep \union {t}
        /\ UNCHANGED eptr
     \/ /\ ~pending
        /\ Return(t) \/ Rethrow(t)
        /\ UNCHANGED asleep
  /\ UNCHANGED <<task_id, processing, thread_id, next_task_id, destructing, slot, waiting>>

WaitForTask(t) ==
  /\ MayCall(t) \/ pc[t] = "task"
  /\ Wait(t, "task", InPool(waiting[t]))

WaitForAllTasks(t) ==
  /\ MayCall(t) \/ pc[t] = "all"
  /\ Wait(t, "all", Mine(t) # {})

(***************************************************************************)
(* thread(), the function of the workers                                   *)
(***************************************************************************)
Find(w) ==
  /\ pc[w] = "find" /\ w \notin asleep
  /\ ~destructing /\ Ready = {}
  /\ asleep' = asleep \union {w}
  /\ UNCHANGED <<slotVars, destructing, pc, slot, waiting>>

\* A faulty variant: the slot is not marked.
TakeUnmarked(w) ==
  /\ pc[w] = "find" /\ w \notin asleep
  /\ ~destructing /\ Ready # {}
  /\ slot' = [slot EXCEPT ![w] = First(Ready)]
  /\ waiting' = [waiting EXCEPT ![w] = 1]
  /\ Goto(w, "run")
  /\ UNCHANGED <<slotVars, destructing, asleep>>

Take(w) ==
  /\ pc[w] = "find" /\ w \notin asleep
  /\ ~destructing /\ Ready # {}
  /\ LET i == First(Ready) IN
       /\ processing' = [processing EXCEPT ![i] = TRUE]
       /\ slot' = [slot EXCEPT ![w] = i]
  /\ waiting' = [waiting EXCEPT ![w] = 1]
  /\ Goto(w, "run")
  /\ UNCHANGED <<task_id, thread_id, eptr, next_task_id, destructing, asleep>>

\* A faulty variant: only one of those that wait is told.
FinishSignals(w) ==
  /\ pc[w] \in {"run", "throw"}
  /\ \E throws \in IF pc[w] = "throw" THEN {TRUE} ELSE BOOLEAN :
       eptr' = [eptr EXCEPT ![slot[w]] = throws]
  /\ processing' = [processing EXCEPT ![slot[w]] = FALSE]
  /\ task_id' = [task_id EXCEPT ![slot[w]] = 0]
  /\ \/ asleep \subseteq Sleepers /\ UNCHANGED asleep
     \/ \E t \in asleep \ Sleepers : asleep' = asleep \ {t}
  /\ Goto(w, "find")
  /\ UNCHANGED <<thread_id, next_task_id, destructing, slot, waiting>>

\* The task returns, or throws: a last critical section empties the slot.
Finish(w) ==
  /\ pc[w] \in {"run", "throw"}
  /\ \E throws \in IF pc[w] = "throw" THEN {TRUE} ELSE BOOLEAN :
       eptr' = [eptr EXCEPT ![slot[w]] = throws]
  /\ processing' = [processing EXCEPT ![slot[w]] = FALSE]
  /\ task_id' = [task_id EXCEPT ![slot[w]] = 0]
  /\ asleep' = asleep \intersect Sleepers      \* task_done_signaler.broadcast()
  /\ Goto(w, "find")
  /\ UNCHANGED <<thread_id, next_task_id, destructing, slot, waiting>>

Leave(w) ==
  /\ pc[w] = "find" /\ w \notin asleep
  /\ destructing
  /\ Goto(w, "gone")
  /\ UNCHANGED <<slotVars, destructing, slot, waiting, asleep>>

(***************************************************************************)
(* ~thread_pool_implementation() and shutdown_pool()                       *)
(***************************************************************************)
\* A faulty variant: the destructor does not wait for the tasks.
ShutdownAtOnce ==
  /\ \A t \in Clients : pc[t] = "idle"
  /\ destructing' = TRUE
  /\ asleep' = asleep \ Sleepers
  /\ Goto(Owner, "join")
  /\ UNCHANGED <<slotVars, slot, waiting>>

Shutdown ==
  /\ \/ pc[Owner] = "shutdown"
     \/ \A t \in Clients : pc[t] = "idle"       \* nobody else uses the pool
  /\ Owner \notin asleep
  /\ IF Empty = Slots
     THEN /\ destructing' = TRUE
          /\ asleep' = asleep \ Sleepers        \* task_ready_signaler.broadcast()
          /\ Goto(Owner, "join")
     ELSE /\ asleep' = asleep \union {Owner}
          /\ Goto(Owner, "shutdown")
          /\ UNCHANGED destructing
  /\ UNCHANGED <<slotVars, slot, waiting>>

\* An exception that nobody has been given ends the program.
Join ==
  /\ pc[Owner] = "join"
  /\ \A w \in Workers : pc[w] = "gone"
  /\ Goto(Owner, IF Thrown = {} THEN "destroyed" ELSE "aborted")
  /\ UNCHANGED <<slotVars, destructing, slot, waiting, asleep>>

\* pthread_cond_wait() may return although nobody signaled.
Spurious(t) ==
  /\ t \in asleep
  /\ asleep' = asleep \ {t}
  /\ UNCHANGED <<slotVars, destructing, pc, slot, waiting>>

WorkerStep(w) == InlineEnds(w) \/ Find(w) \/ Take(w) \/ Finish(w) \/ Leave(w)

Call(t) ==
  \/ AddTask(t) \/ AddTaskThrows(t) \/ AddTaskFull(t)
  \/ WaitForTask(t) \/ WaitForAllTasks(t)

\* Steps of the pool itself: a call that has begun goes on once it is awake.
GoOn(t) == pc[t] \in {"add", "task", "all"} /\ Call(t)

Next ==
  \/ \E w \in Workers : WorkerStep(w)
  \/ \E t \in Threads : Call(t) \/ Spurious(t)
  \/ Shutdown \/ Join

Spec == Init /\ [][Next]_vars

(***************************************************************************)
(* The scheduler runs every thread that can run, and tasks come to an end; *)
(* nobody is obliged to call the pool.                                     *)
(***************************************************************************)
FairSpec ==
  /\ Spec
  /\ \A w \in Workers :
       /\ WF_vars(Find(w) \/ Take(w) \/ Leave(w)) /\ WF_vars(InlineEnds(w))
       /\ SF_vars(Finish(w))
  /\ \A t \in Threads : WF_vars(GoOn(t))
  /\ WF_vars((pc[Owner] = "shutdown" /\ Shutdown) \/ Join)
-----------------------------------------------------------------------------
(***************************************************************************)
(* A slot is being processed exactly if one worker is in its task, and     *)
(* only a slot that holds a task is.  So a task is run once, and the slot  *)
(* that a worker empties is the one it has run.                            *)
(***************************************************************************)
Busy(w) == pc[w] \in {"run", "inline", "throw", "task", "all"}

OneWorker ==
  /\ \A i \in Slots : processing[i] => task_id[i] # 0 /\ \E w \in Workers : Busy(w) /\ slot[w] = i
  /\ \A w \in Workers : Busy(w) => processing[slot[w]]
  /\ \A v, w \in Workers : Busy(v) /\ Busy(w) /\ slot[v] = slot[w] => v = w

(***************************************************************************)
(* Ids are never given out twice and tell the slot: a task that holds slot *)
(* i has the last id that was made for i.                                  *)
(***************************************************************************)
IdsTellSlots == \A i \in Slots :
  task_id[i] # 0 => task_id[i] = (next_task_id[i] - 1) * Size + i /\ task_id[i] > 1

(***************************************************************************)
(* No exception is lost: a slot with one that nobody has been given stays  *)
(* empty, so that no later task can overwrite it.                          *)
(***************************************************************************)
ExceptionsKept == \A i \in Slots : eptr[i] => task_id[i] = 0

(***************************************************************************)
(* No wake-up is lost: when a task is ready some worker is looking for it, *)
(* and who sleeps is waiting for what is still to come.                    *)
(***************************************************************************)
Looking == {w \in Workers : pc[w] = "find" /\ w \notin asleep}

HasReason(t) ==
  /\ pc[t] = "add"      => Empty = {}
  /\ pc[t] = "task"     => InPool(waiting[t])
  /\ pc[t] = "all"      => Mine(t) # {}
  /\ pc[t] = "shutdown" => Empty # Slots
  /\ pc[t] = "find"     => ~destructing

NoLostWakeup ==
  /\ Cardinality(Looking) >= Cardinality(Ready)
  /\ \A t \in asleep : HasReason(t)

(***************************************************************************)
(* When the workers are gone no task is left behind, and none can come.    *)
(***************************************************************************)
NothingLeftBehind ==
  (\E w \in Workers : pc[w] = "gone") => Empty = Slots /\ destructing /\ ~\E w \in Workers : Busy(w)

(***************************************************************************)
(* A task that waits for all tasks of its thread may wait for itself: the  *)
(* worker may run a task that it has added in an earlier one.  Only where  *)
(* such a task is waited for, by itself or by another one, tasks hang.     *)
(***************************************************************************)
WaitsForTaskThatWaits == \E v, w \in Workers :
  pc[v] = "all" /\ pc[w] \in {"all", "task"} /\ thread_id[slot[w]] = v

(***************************************************************************)
(* But for that, every task that was added is done in the end, also with   *)
(* nested tasks, exceptions and a destructor.                              *)
(***************************************************************************)
TasksEnd == \A i \in Slots :
  task_id[i] # 0 ~> (task_id[i] = 0 \/ WaitsForTaskThatWaits)

(***************************************************************************)
(* Nor is there another reason why one who waits for an empty slot, for    *)
(* the task it added last or for all its tasks should not get away, or the *)
(* destructor not come to its end.  (A slot at the bound takes no task.)   *)
(***************************************************************************)
Exhausted == Empty # {} /\ next_task_id[First(Empty)] = MaxTasks + 2

CallsReturn ==
  /\ \A t \in Clients :
       pc[t] = "add" ~> (pc[t] # "add" \/ WaitsForTaskThatWaits \/ Exhausted)
  /\ \A t \in Threads :
       pc[t] \in {"task", "all"} ~> (pc[t] \notin {"task", "all"} \/ WaitsForTaskThatWaits)
  /\ Destroying ~> (pc[Owner] \in {"destroyed", "aborted"} \/ WaitsForTaskThatWaits)
=============================================================================
