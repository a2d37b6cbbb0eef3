------------------------------ MODULE NativeLib ------------------------------
(***************************************************************************)
(* native-lib.cpp: the two JNI functions loadModel and detectLandmark, and *)
(* the two globals of the library, shapePredictor and _mutex.              *)
(*                                                                         *)
(* loadModel locks _mutex by hand and unlocks it only on the path without  *)
(* an exception; detectLandmark takes no lock (its lock is commented out). *)
(* Threads are the Java threads that call in.  The file is shared with     *)
(* the rest of the program and only read here.                             *)
(***************************************************************************)
EXTENDS ShapePredictor

CONSTANTS
  Threads,    \* the Java threads that may call the library
  NoThread,   \* the owner of a free mutex
  NoFile,     \* the length of a file that does not exist
  Pictures,   \* the sides that pictures may have, "odd" if one of them is
  StreamErrors   \* whether a file that is there may fail to open or to be read

ASSUME NoThreadAssumption == NoThread \notin Threads
ASSUME NoFileAssumption   == NoFile \notin Nat
ASSUME PicturesAssumption == Pictures \subseteq {"even", "odd"} /\ Pictures # {}
ASSUME StreamErrorsAssumption == StreamErrors \in BOOLEAN

VARIABLES
  file,            \* number of whole items in the model file, or NoFile
  mutex,           \* the thread that locked _mutex, or NoThread
  shapePredictor,  \* the global predictor
  pc,              \* pc[t]: where thread t is in the library
  at,              \* at[t]: the next item to read, or the next level
  stream,          \* stream[t]: items the file that t opened last yields, or NoFile
  points,          \* points[t]: what detectLandmark has computed in t
  picture          \* picture[t]: sides of the picture that t was called with last

\* A history variable, which no step depends on: whether a load held _mutex, under
\* way or failed, at some time during the last detection of t.
VARIABLE beside

detections == <<points, picture, beside>>
libVars    == <<mutex, shapePredictor, pc, at, stream, detections>>
vars       == <<file, libVars>>

Lengths == {NoFile} \union (0 .. FileLength)

Labels == {"idle", "lock", "open", "read", "level", "fault"}

(***************************************************************************)
(* The points of a detection: none asked for yet, an array of no points,   *)
(* points that are not those the asset's model yields, or points that are. *)
(***************************************************************************)
Points == {"none", "empty", "garbage", "faithful"}

TypeOK ==
  /\ file \in Lengths
  /\ mutex \in Threads \union {NoThread}
  /\ shapePredictor \in Predictors
  /\ pc \in [Threads -> Labels]
  /\ at \in [Threads -> 0 .. FileLength]
  /\ stream \in [Threads -> Lengths]
  /\ points \in [Threads -> Points]
  /\ picture \in [Threads -> Pictures \union {"none"}]
  /\ beside \in [Threads -> BOOLEAN]

(***************************************************************************)
(* Static initialisation when the process loads the library.               *)
(***************************************************************************)
LibInit ==
  /\ mutex = NoThread
  /\ shapePredictor = Fresh
  /\ pc = [t \in Threads |-> "idle"]
  /\ at = [t \in Threads |-> 0]
  /\ stream = [t \in Threads |-> NoFile]
  /\ points = [t \in Threads |-> "none"]
  /\ picture = [t \in Threads |-> "none"]
  /\ beside = [t \in Threads |-> FALSE]

Init == file \in Lengths /\ LibInit

Goto(t, from, to) == pc[t] = from /\ pc' = [pc EXCEPT ![t] = to]

InLoad(t)  == pc[t] \in {"open", "read"}
Blocked(t) == pc[t] = "lock" /\ mutex # NoThread

\* A load has just got _mutex: it is beside every detection that is under way.
NowBeside ==
  /\ beside' = [t \in Threads |-> beside[t] \/ pc[t] = "level"]
  /\ UNCHANGED <<points, picture>>

(***************************************************************************)
(* loadModel                                                               *)
(***************************************************************************)
LoadModel(t) ==
  /\ Goto(t, "idle", "lock")
  /\ UNCHANGED <<file, mutex, shapePredictor, at, stream, detections>>

\* A faulty variant: a recursive mutex lets its owner in again.
LockRecursively(t) ==
  /\ Goto(t, "lock", "open")
  /\ mutex \in {t, NoThread}
  /\ mutex' = t
  /\ NowBeside
  /\ UNCHANGED <<file, shapePredictor, at, stream>>

\* A faulty variant: no lock, as in detectLandmark.
LockCommentedOut(t) ==
  /\ Goto(t, "lock", "open")
  /\ mutex' = IF mutex = NoThread THEN t ELSE mutex
  /\ NowBeside
  /\ UNCHANGED <<file, shapePredictor, at, stream>>

\* A std::mutex is not recursive: a thread that owns it blocks like any other.
Lock(t) ==
  /\ Goto(t, "lock", "open")
  /\ mutex = NoThread
  /\ mutex' = t
  /\ NowBeside
  /\ UNCHANGED <<file, shapePredictor, at, stream>>

\* A faulty variant: initial_shape is skipped.
OpenBehindShape(t) ==
  /\ Goto(t, "open", "read")
  /\ file # NoFile
  /\ stream' = [stream EXCEPT ![t] = file]
  /\ at' = [at EXCEPT ![t] = ForestCount]
  /\ UNCHANGED <<file, mutex, shapePredictor, detections>>

Open(t) ==
  /\ Goto(t, "open", "read")
  /\ file # NoFile
  /\ stream' = [stream EXCEPT ![t] = file]
  /\ at' = [at EXCEPT ![t] = Version]
  /\ UNCHANGED <<file, mutex, shapePredictor, detections>>

\* proxy_deserialize throws when the stream does not open, because the file is
\* missing or for any other reason; loadModel logs and returns without unlocking.
OpenFails(t) ==
  /\ Goto(t, "open", "idle")
  /\ file = NoFile \/ StreamErrors
  /\ stream' = [stream EXCEPT ![t] = NoFile]
  /\ UNCHANGED <<file, mutex, shapePredictor, at, detections>>

\* A faulty variant: the loop bound is off by one.
ReadPastEnd(t) ==
  /\ pc[t] = "read"
  /\ at[t] <= FileLength /\ at[t] <= stream[t]
  /\ shapePredictor' = Deserialized(shapePredictor, at[t])
  /\ at' = [at EXCEPT ![t] = @ + 1]
  /\ UNCHANGED <<file, mutex, pc, stream, detections>>

Read(t) ==
  /\ pc[t] = "read"
  /\ at[t] < FileLength /\ at[t] < stream[t]
  /\ shapePredictor' = Deserialized(shapePredictor, at[t])
  /\ at' = [at EXCEPT ![t] = @ + 1]
  /\ UNCHANGED <<file, mutex, pc, stream, detections>>

\* The stream ends early, or it fails: it has yielded what was read so far.
BreaksOff(t) ==
  /\ at[t] < FileLength
  /\ at[t] >= stream[t] \/ StreamErrors
  /\ stream' = [stream EXCEPT ![t] = at[t]]

\* A faulty variant, the repair one thinks of first: the guard object of a
\* lock_guard would unlock when the exception leaves the block.
ReadFailsUnlocking(t) ==
  /\ Goto(t, "read", "idle")
  /\ BreaksOff(t)
  /\ shapePredictor' \in Interrupted(shapePredictor, at[t])
  /\ mutex' = NoThread
  /\ UNCHANGED <<file, at, detections>>

\* serialization_error in the middle of the model, again without unlocking.
ReadFails(t) ==
  /\ Goto(t, "read", "idle")
  /\ BreaksOff(t)
  /\ shapePredictor' \in Interrupted(shapePredictor, at[t])
  /\ UNCHANGED <<file, mutex, at, detections>>

\* A faulty variant: an error code that nobody looks at, instead of an exception.
UnlockUnchecked(t) ==
  /\ Goto(t, "read", "idle")
  /\ at[t] = FileLength \/ at[t] >= stream[t]
  /\ mutex' = NoThread
  /\ UNCHANGED <<file, shapePredictor, at, stream, detections>>

\* A faulty variant: the lock is not released at all.
UnlockForgotten(t) ==
  /\ Goto(t, "read", "idle")
  /\ at[t] = FileLength
  /\ UNCHANGED <<file, mutex, shapePredictor, at, stream, detections>>

Unlock(t) ==
  /\ Goto(t, "read", "idle")
  /\ at[t] = FileLength
  /\ mutex' = NoThread
  /\ UNCHANGED <<file, shapePredictor, at, stream, detections>>

(***************************************************************************)
(* detectLandmark                                                          *)
(***************************************************************************)
\* Another thread is in the middle of reading one of these items.  To use them
\* meanwhile is a data race: the outcome may be anything Undefined allows.
Racing(items) == \E u \in Threads : pc[u] = "read" /\ at[u] \in items

\* A shape read from the wrong memory is garbage or empty, if no signal ends it.
Undefined(t) ==
  \/ /\ pc' = [pc EXCEPT ![t] = "fault"]
     /\ UNCHANGED points
  \/ /\ pc' = [pc EXCEPT ![t] = "level"]
     /\ \E p \in {"empty", "garbage"} : points' = [points EXCEPT ![t] = p]

\* operator() starts from initial_shape, whose size is that of its points.
InitialShape(values) == IF shapePredictor[ShapeSize] = "full" THEN values ELSE "empty"

\* The conversions of a picture with an odd side leave the byte array (Nv21): the
\* process may end there, or the model is applied to bytes of something else.
ConvertOutside(t) ==
  \/ /\ pc' = [pc EXCEPT ![t] = "fault"]
     /\ UNCHANGED points
  \/ /\ pc' = [pc EXCEPT ![t] = "level"]
     /\ points' = [points EXCEPT ![t] = InitialShape("garbage")]

\* The picture is converted and upsampled on the thread's own data, then
\* operator() copies initial_shape.
DetectLandmark(t) ==
  /\ pc[t] = "idle"
  /\ \E sides \in Pictures :
       /\ picture' = [picture EXCEPT ![t] = sides]
       /\ \/ /\ pc' = [pc EXCEPT ![t] = "level"]
             /\ points' = [points EXCEPT ![t] = InitialShape(
                  IF shapePredictor[ShapeValues] = "full" THEN "faithful" ELSE "garbage")]
          \/ sides = "odd" /\ ConvertOutside(t)
          \/ Racing({ShapeSize, ShapeValues}) /\ Undefined(t)
  /\ beside' = [beside EXCEPT ![t] = mutex # NoThread]
  /\ at' = [at EXCEPT ![t] = 1]
  /\ UNCHANGED <<file, mutex, shapePredictor, stream>>

\* A faulty variant: iter < forests.size() - 1.
AllLevelsButLast(t) == shapePredictor[ForestCount] = "full" /\ at[t] \in Levels \ {Cascades}

\* iter < forests.size()
MoreLevels(t) == shapePredictor[ForestCount] = "full" /\ at[t] \in Levels

\* current_shape must still have the size of initial_shape.
EvaluateDefined(t) == points[t] # "empty" /\ LevelDefined(shapePredictor, at[t])

EvaluateLevel(t) ==
  /\ pc[t] = "level" /\ MoreLevels(t) /\ EvaluateDefined(t)
  /\ at' = [at EXCEPT ![t] = @ + 1]
  /\ points' = [points EXCEPT ![t] =
                  IF LevelFaithful(shapePredictor, at[t]) THEN @ ELSE "garbage"]
  /\ UNCHANGED <<file, mutex, shapePredictor, pc, stream, picture, beside>>

\* A level that reads outside a vector, or one that is just being read in.
EvaluateUndefined(t) ==
  /\ pc[t] = "level"
  /\ at[t] \in Levels
  /\ (MoreLevels(t) /\ ~EvaluateDefined(t)) \/ Racing(LevelItems(at[t]))
  /\ Undefined(t)
  /\ at' = [at EXCEPT ![t] = @ + 1]
  /\ UNCHANGED <<file, mutex, shapePredictor, stream, picture, beside>>

\* A shape that went through no level is the mean shape, not a prediction.
ReturnLandmarks(t) ==
  /\ Goto(t, "level", "idle")
  /\ ~MoreLevels(t)
  /\ points' = [points EXCEPT ![t] =
                  IF @ = "faithful" /\ at[t] \in Levels THEN "garbage" ELSE @]
  /\ UNCHANGED <<file, mutex, shapePredictor, at, stream, picture, beside>>

(***************************************************************************)
(* A step inside a call, as opposed to the start of a call.                *)
(***************************************************************************)
Run(t) ==
  \/ Lock(t) \/ Open(t) \/ OpenFails(t) \/ Read(t) \/ ReadFails(t) \/ Unlock(t)
  \/ EvaluateLevel(t) \/ EvaluateUndefined(t) \/ ReturnLandmarks(t)

\* The process ends and a new one loads the library.
Restart ==
  /\ mutex' = NoThread
  /\ shapePredictor' = Fresh
  /\ pc' = [t \in Threads |-> "idle"]
  /\ at' = [t \in Threads |-> 0]
  /\ stream' = [t \in Threads |-> NoFile]
  /\ points' = [t \in Threads |-> "none"]
  /\ picture' = [t \in Threads |-> "none"]
  /\ beside' = [t \in Threads |-> FALSE]

(***************************************************************************)
(* The library on its own: any thread may call any function at any time,   *)
(* the file may be replaced by any prefix of the asset between two opens,  *)
(* and the process may end.  A signal ends it for all threads.             *)
(***************************************************************************)
FileChanges == file' \in Lengths \ {file} /\ UNCHANGED libVars

Call(t) == LoadModel(t) \/ DetectLandmark(t)

Alive == \A t \in Threads : pc[t] # "fault"

Next ==
  \/ Alive /\ \E t \in Threads : Call(t) \/ Run(t)
  \/ FileChanges
  \/ Restart /\ UNCHANGED file

Spec == Init /\ [][Next]_vars

(***************************************************************************)
(* Properties                                                              *)
(***************************************************************************)
\* Two threads never deserialize into the global predictor at once, and the one
\* that does holds _mutex, whatever happened to earlier loads.
OneLoader == \A t \in Threads : InLoad(t) => mutex = t

\* While a load is under way, everything before its place in the file is whole in
\* the predictor: neither another thread nor an earlier, failed load interferes.
ReadSoFar ==
  \A t \in Threads : pc[t] = "read" =>
    \A f \in Fields : f < at[t] => shapePredictor[f] = "full"

\* _mutex is free only while the predictor is as constructed or holds the whole
\* model: a predictor that a failed load left behind is always behind the lock
\* that the same failure left held, so no later load builds on it.
FreeMeansWhole == mutex = NoThread => shapePredictor \in {Fresh, Model}

\* The lock is held by a thread that is not loading: a failed load left it so.
Leaked == mutex # NoThread /\ ~InLoad(mutex)

\* A failed load is the last: _mutex and the predictor it left behind stay as
\* they are until the process ends, also for the thread that failed.
LeakIsFinal ==
  [][Leaked => (Leaked' /\ UNCHANGED <<mutex, shapePredictor>>) \/ Restart]_vars

\* detectLandmark, which takes no lock, is safe for a picture of even sides unless
\* a load, under way or failed, held _mutex at some time while it ran: no signal
\* ends it, and every point it computes is one that the asset's model yields.
SafeAlone ==
  \A t \in Threads :
    picture[t] = "even" /\ ~beside[t] => pc[t] # "fault" /\ points[t] # "garbage"
=============================================================================
