--------------------------- MODULE NativeLib_proofs ---------------------------
(***************************************************************************)
(* Theorems about NativeLib, for any number of threads and any size of     *)
(* model.                                                                  *)
(*                                                                         *)
(* OneLoader is inductive together with TypeOK.  FreeMeansWhole is not: at *)
(* the unlock it needs to know what has been read, which ReadSoFar says.   *)
(***************************************************************************)
EXTENDS NativeLib, TLAPS

IInv == TypeOK /\ OneLoader /\ ReadSoFar /\ FreeMeansWhole

USE DEF detections

(***************************************************************************)
(* Lemmas about the items of a model file                                  *)
(***************************************************************************)
\* The whole file has three more items than levels for each of the vectors.
LEMMA ItemArithmetic ==
  /\ FileLength = 3 * Cascades + 6
  /\ FileLength \in Nat
  /\ Fields = 1 .. 3 * Cascades + 5
  /\ Cascades + 1 \in 0 .. FileLength
BY CascadesAssumption
DEF FileLength, Fields, Delta, DeltaCount, Anchor, AnchorCount, Forest, ForestCount

\* The predictors that deserialize() makes of a predictor are predictors.
LEMMA DeserializedType ==
  ASSUME NEW p \in Predictors, NEW item
  PROVE  /\ Deserialized(p, item) \in Predictors
         /\ Interrupted(p, item) \subseteq Predictors
BY DEF Predictors, Slots, Deserialized, Interrupted

\* A predictor all of whose items are whole is the model.
LEMMA FullIsModel ==
  ASSUME NEW p \in Predictors, \A f \in Fields : p[f] = "full"
  PROVE  p = Model
BY DEF Predictors, Model

LEMMA FreshType == Fresh \in Predictors /\ Model \in Predictors
BY DEF Fresh, Model, Predictors, Slots

(***************************************************************************)
(* Type correctness                                                        *)
(***************************************************************************)
LEMMA TypeInit == Init => TypeOK
BY ItemArithmetic, FreshType DEF Init, LibInit, TypeOK, Lengths, Labels, Points

LEMMA TypeRestart == TypeOK /\ Restart /\ UNCHANGED file => TypeOK'
BY ItemArithmetic, FreshType DEF Restart, TypeOK, Lengths, Labels, Points

\* Every step of a call keeps the types.
LEMMA TypeStep ==
  ASSUME TypeOK, NEW t \in Threads, LoadModel(t) \/ DetectLandmark(t) \/ Run(t)
  PROVE  TypeOK'
<1>1. CASE LoadModel(t)
  BY <1>1 DEF TypeOK, LoadModel, Goto, Labels
<1>2. CASE DetectLandmark(t)
  <2>1. 1 \in 0 .. FileLength
    BY ItemArithmetic, CascadesAssumption
  <2>2. pc' \in [Threads -> Labels] /\ points' \in [Threads -> Points]
    BY <1>2 DEF TypeOK, DetectLandmark, ConvertOutside, InitialShape, Undefined, Labels, Points
  <2>3. picture' \in [Threads -> Pictures \union {"none"}] /\ beside' \in [Threads -> BOOLEAN]
    BY <1>2 DEF TypeOK, DetectLandmark
  <2> QED
    BY <1>2, <2>1, <2>2, <2>3 DEF TypeOK, DetectLandmark
<1>3. CASE Lock(t)
  <2>1. beside' \in [Threads -> BOOLEAN]
    BY <1>3 DEF Lock, NowBeside
  <2> QED
    BY <1>3, <2>1 DEF TypeOK, Lock, NowBeside, Goto, Labels
<1>4. CASE Open(t)
  <2>1. Version \in 0 .. FileLength
    BY ItemArithmetic DEF Version
  <2> QED
    BY <1>4, <2>1 DEF TypeOK, Open, Goto, Labels
<1>5. CASE OpenFails(t)
  BY <1>5 DEF TypeOK, OpenFails, Goto, Labels, Lengths
<1>6. CASE Read(t)
  <2>1. at[t] + 1 \in 0 .. FileLength
    BY <1>6, ItemArithmetic DEF TypeOK, Read
  <2> QED
    BY <1>6, <2>1, DeserializedType DEF TypeOK, Read
<1>7. CASE ReadFails(t)
  BY <1>7, DeserializedType DEF TypeOK, ReadFails, BreaksOff, Goto, Labels, Lengths
<1>8. CASE Unlock(t)
  BY <1>8 DEF TypeOK, Unlock, Goto, Labels
<1>9. CASE EvaluateLevel(t)
  <2>1. at[t] + 1 \in 0 .. FileLength
    BY <1>9, ItemArithmetic, CascadesAssumption DEF EvaluateLevel, MoreLevels, Levels
  <2> QED
    BY <1>9, <2>1 DEF TypeOK, EvaluateLevel, Points
<1>10. CASE EvaluateUndefined(t)
  <2>1. at[t] + 1 \in 0 .. FileLength
    BY <1>10, ItemArithmetic, CascadesAssumption DEF EvaluateUndefined, Levels
  <2> QED
    BY <1>10, <2>1 DEF TypeOK, EvaluateUndefined, Undefined, Labels, Points
<1>11. CASE ReturnLandmarks(t)
  BY <1>11 DEF TypeOK, ReturnLandmarks, Goto, Labels, Points
<1> QED
  BY <1>1, <1>2, <1>3, <1>4, <1>5, <1>6, <1>7, <1>8, <1>9, <1>10, <1>11 DEF Run

LEMMA TypeNext == TypeOK /\ [Next]_vars => TypeOK'
<1> SUFFICES ASSUME TypeOK, [Next]_vars PROVE TypeOK'
  OBVIOUS
<1>1. CASE Alive /\ \E t \in Threads : Call(t) \/ Run(t)
  BY <1>1, TypeStep DEF Call
<1>2. CASE FileChanges
  BY <1>2 DEF FileChanges, TypeOK, libVars
<1>3. CASE Restart /\ UNCHANGED file
  BY <1>3, TypeRestart
<1>4. CASE UNCHANGED vars
  BY <1>4 DEF vars, libVars, TypeOK
<1> QED
  BY <1>1, <1>2, <1>3, <1>4 DEF Next

\* Every variable of the library keeps its type: places in a file stay within
\* it and every predictor that a load leaves behind is one the model knows.
THEOREM Typing == Spec => []TypeOK
BY TypeInit, TypeNext, PTL DEF Spec

(***************************************************************************)
(* The inductive invariant                                                 *)
(***************************************************************************)
\* What the steps that leave the lock, the predictor and the loaders alone have
\* in common: starting a call, and everything detectLandmark does.
LEMMA StutterStep ==
  ASSUME IInv, NEW t \in Threads, UNCHANGED <<mutex, shapePredictor>>,
         pc' \in [Threads -> Labels], ~InLoad(t), ~InLoad(t)',
         \A u \in Threads \ {t} : pc'[u] = pc[u] /\ at'[u] = at[u]
  PROVE  (OneLoader /\ ReadSoFar /\ FreeMeansWhole)'
BY DEF IInv, OneLoader, ReadSoFar, FreeMeansWhole, InLoad

LEMMA InvStep ==
  ASSUME IInv, NEW t \in Threads, Call(t) \/ Run(t)
  PROVE  IInv'
<1> USE DEF IInv
<1>1. TypeOK'
  BY TypeStep DEF Call
<1>2. CASE LoadModel(t)
  BY <1>1, <1>2, StutterStep DEF LoadModel, Goto, TypeOK, InLoad
<1>3. CASE DetectLandmark(t)
  BY <1>1, <1>3, StutterStep DEF DetectLandmark, ConvertOutside, Undefined, TypeOK, InLoad
<1>4. CASE Lock(t)
  \* The lock was free, so no thread was loading.
  BY <1>1, <1>4, NoThreadAssumption
  DEF Lock, Goto, TypeOK, OneLoader, ReadSoFar, FreeMeansWhole, InLoad
<1>5. CASE Open(t)
  \* Nothing comes before the version.
  <2>1. OneLoader' /\ FreeMeansWhole'
    BY <1>1, <1>5 DEF Open, Goto, TypeOK, OneLoader, FreeMeansWhole, InLoad
  <2>2. \A f \in Fields : ~(f < Version)
    BY ItemArithmetic DEF Version
  <2>3. ReadSoFar'
    BY <1>1, <1>5, <2>2 DEF Open, Goto, TypeOK, ReadSoFar
  <2> QED
    BY <1>1, <2>1, <2>3
<1>6. CASE OpenFails(t)
  BY <1>1, <1>6
  DEF OpenFails, Goto, TypeOK, OneLoader, ReadSoFar, FreeMeansWhole, InLoad
<1>7. CASE Read(t)
  <2>1. mutex = t /\ pc' = pc /\ mutex' = mutex
    BY <1>7 DEF Read, OneLoader, InLoad
  <2>2. OneLoader' /\ FreeMeansWhole'
    BY <2>1, NoThreadAssumption DEF OneLoader, FreeMeansWhole, InLoad
  <2>3. ReadSoFar'
    <3> SUFFICES ASSUME NEW u \in Threads, pc[u] = "read",
                        NEW f \in Fields, f < at'[u]
                 PROVE  shapePredictor'[f] = "full"
      BY <2>1 DEF ReadSoFar
    <3>1. u = t
      BY <2>1 DEF OneLoader, InLoad
    <3>2. f < at[t] + 1 /\ f \in Nat /\ at[t] \in Nat
      BY <1>7, <3>1, ItemArithmetic DEF Read, TypeOK
    <3>3. CASE f = at[t]
      BY <1>7, <3>3 DEF Read, Deserialized
    <3>4. CASE f # at[t]
      <4>1. f < at[t]
        BY <3>2, <3>4
      <4> QED
        BY <1>7, <3>1, <3>4, <4>1 DEF Read, Deserialized, ReadSoFar
    <3> QED
      BY <3>3, <3>4
  <2> QED
    BY <1>1, <2>2, <2>3
<1>8. CASE ReadFails(t)
  \* The lock is kept, and no other thread is loading.
  <2>1. mutex = t /\ mutex' = mutex /\ \A u \in Threads : ~InLoad(u)'
    BY <1>8 DEF ReadFails, Goto, OneLoader, InLoad, TypeOK
  <2> QED
    BY <1>1, <2>1, NoThreadAssumption DEF OneLoader, ReadSoFar, FreeMeansWhole, InLoad
<1>9. CASE Unlock(t)
  \* Everything has been read.
  <2>1. shapePredictor = Model
    <3>1. \A f \in Fields : f < at[t]
      BY <1>9, ItemArithmetic, CascadesAssumption DEF Unlock
    <3> QED
      BY <1>9, <3>1, FullIsModel DEF Unlock, Goto, TypeOK, ReadSoFar
  <2>2. shapePredictor' = shapePredictor /\ \A u \in Threads : ~InLoad(u)'
    BY <1>9 DEF Unlock, Goto, OneLoader, InLoad, TypeOK
  <2> QED
    BY <1>1, <2>1, <2>2 DEF OneLoader, ReadSoFar, FreeMeansWhole, InLoad
<1>10. CASE EvaluateLevel(t)
  BY <1>1, <1>10, StutterStep DEF EvaluateLevel, TypeOK, InLoad
<1>11. CASE EvaluateUndefined(t)
  BY <1>1, <1>11, StutterStep DEF EvaluateUndefined, Undefined, TypeOK, InLoad
<1>12. CASE ReturnLandmarks(t)
  BY <1>1, <1>12, StutterStep DEF ReturnLandmarks, Goto, TypeOK, InLoad
<1> QED
  BY <1>2, <1>3, <1>4, <1>5, <1>6, <1>7, <1>8, <1>9, <1>10, <1>11, <1>12 DEF Call, Run

LEMMA InvInit == Init => IInv
BY TypeInit DEF Init, LibInit, IInv, OneLoader, ReadSoFar, FreeMeansWhole, InLoad

LEMMA InvNext == IInv /\ [Next]_vars => IInv'
<1> SUFFICES ASSUME IInv, [Next]_vars PROVE IInv'
  OBVIOUS
<1>1. CASE Alive /\ \E t \in Threads : Call(t) \/ Run(t)
  BY <1>1, InvStep
<1>2. CASE FileChanges
  BY <1>2, TypeNext DEF Next, FileChanges, libVars, IInv, OneLoader, ReadSoFar, FreeMeansWhole, InLoad
<1>3. CASE Restart /\ UNCHANGED file
  BY <1>3, TypeRestart DEF Restart, IInv, OneLoader, ReadSoFar, FreeMeansWhole, InLoad
<1>4. CASE UNCHANGED vars
  BY <1>4, TypeNext DEF vars, libVars, IInv, OneLoader, ReadSoFar, FreeMeansWhole, InLoad
<1> QED
  BY <1>1, <1>2, <1>3, <1>4 DEF Next

LEMMA Invariance == Spec => []IInv
BY InvInit, InvNext, PTL DEF Spec

\* The hand-written lock and unlock calls of loadModel do exclude each other:
\* whichever loads fail, no two threads ever deserialize at the same time.
THEOREM MutualExclusion == Spec => []OneLoader
<1>1. IInv => OneLoader
  BY DEF IInv
<1> QED
  BY <1>1, Invariance, PTL

\* What a load has read so far is there, and the rest is as the load found it.
THEOREM LoadsAddUp == Spec => []ReadSoFar
<1>1. IInv => ReadSoFar
  BY DEF IInv
<1> QED
  BY <1>1, Invariance, PTL

\* A free lock guarantees a whole model or none: the damage of a failed load is
\* never behind a free lock.
THEOREM Consistency == Spec => []FreeMeansWhole
<1>1. IInv => FreeMeansWhole
  BY DEF IInv
<1> QED
  BY <1>1, Invariance, PTL

(***************************************************************************)
(* A lock that a failed load has kept                                      *)
(***************************************************************************)
\* No step inside a call can release or take the lock, or touch the predictor.
LEMMA LeakStep ==
  ASSUME IInv, Leaked, NEW t \in Threads, Call(t) \/ Run(t)
  PROVE  Leaked' /\ UNCHANGED <<mutex, shapePredictor>>
<1>1. ~InLoad(t) /\ mutex \in Threads
  BY DEF IInv, TypeOK, OneLoader, Leaked
<1>2. ~InLoad(mutex)
  BY DEF Leaked
<1>3. CASE LoadModel(t)
  BY <1>1, <1>2, <1>3 DEF LoadModel, Goto, IInv, TypeOK, Leaked, InLoad
<1>4. CASE DetectLandmark(t)
  BY <1>1, <1>2, <1>4
  DEF DetectLandmark, ConvertOutside, Undefined, IInv, TypeOK, Leaked, InLoad
<1>5. CASE EvaluateLevel(t)
  BY <1>1, <1>2, <1>5 DEF EvaluateLevel, IInv, TypeOK, Leaked, InLoad
<1>6. CASE EvaluateUndefined(t)
  BY <1>1, <1>2, <1>6 DEF EvaluateUndefined, Undefined, IInv, TypeOK, Leaked, InLoad
<1>7. CASE ReturnLandmarks(t)
  BY <1>1, <1>2, <1>7 DEF ReturnLandmarks, Goto, IInv, TypeOK, Leaked, InLoad
<1>8. ~Lock(t) /\ ~Open(t) /\ ~OpenFails(t) /\ ~Read(t) /\ ~ReadFails(t) /\ ~Unlock(t)
  BY <1>1 DEF Lock, Open, OpenFails, Read, ReadFails, Unlock, Goto, InLoad, Leaked
<1> QED
  BY <1>3, <1>4, <1>5, <1>6, <1>7, <1>8 DEF Call, Run

\* A load that fails is the last one of its process, for every thread: the lock
\* stays taken and the predictor stays as the failure left it.
THEOREM LeakForever == Spec => LeakIsFinal
<1>1. IInv /\ [Next]_vars =>
        [Leaked => (Leaked' /\ UNCHANGED <<mutex, shapePredictor>>) \/ Restart]_vars
  <2> SUFFICES ASSUME IInv, Leaked, Next
               PROVE  (Leaked' /\ UNCHANGED <<mutex, shapePredictor>>) \/ Restart
    OBVIOUS
  <2>1. CASE Alive /\ \E t \in Threads : Call(t) \/ Run(t)
    BY <2>1, LeakStep
  <2>2. CASE FileChanges
    BY <2>2 DEF FileChanges, libVars, Leaked, InLoad
  <2> QED
    BY <2>1, <2>2 DEF Next
<1> QED
  BY <1>1, Invariance, PTL DEF Spec, LeakIsFinal

(***************************************************************************)
(* Detections without a lock                                               *)
(***************************************************************************)
\* Every level of the model is defined behaviour, and its outcome is right.
LEMMA ModelDefined ==
  ASSUME NEW l \in Levels
  PROVE  LevelDefined(Model, l) /\ LevelFaithful(Model, l)
<1>1. {ShapeSize, ForestCount, AnchorCount, DeltaCount, Forest(l), Anchor(l), Delta(l)}
        \subseteq Fields
  BY CascadesAssumption
  DEF Levels, Fields, Delta, DeltaCount, Anchor, AnchorCount, Forest, ForestCount, ShapeSize
<1> QED
  BY <1>1 DEF LevelDefined, LevelFaithful, Model

\* The detections that SafeAlone is about.
Alone(t) == picture[t] = "even" /\ ~beside[t]

\* SafeAlone and why it stays so: as long as nobody has locked, a predictor that
\* was fresh when the detection began is fresh, and the model is the model.
DetectsAlone(t) ==
  /\ pc[t] # "fault" /\ points[t] # "garbage"
  /\ pc[t] = "level" =>
       /\ mutex = NoThread
       /\ \/ points[t] = "empty"    /\ shapePredictor = Fresh
          \/ points[t] = "faithful" /\ shapePredictor = Model

AloneInv == \A t \in Threads : Alone(t) => DetectsAlone(t)

\* What the steps of a thread mean for a detection of another one.
LEMMA OtherStep ==
  ASSUME IInv, NEW t \in Threads, Call(t) \/ Run(t), NEW u \in Threads, u # t
  PROVE  /\ pc'[u] = pc[u] /\ points'[u] = points[u] /\ picture'[u] = picture[u]
         /\ beside[u] => beside'[u]
         /\ pc[u] = "level" =>
              beside'[u] \/ mutex # NoThread \/ UNCHANGED <<mutex, shapePredictor>>
<1> USE DEF IInv, TypeOK
<1>1. CASE LoadModel(t)
  BY <1>1 DEF LoadModel, Goto
<1>2. CASE DetectLandmark(t)
  BY <1>2 DEF DetectLandmark, ConvertOutside, Undefined
<1>3. CASE Lock(t)
  BY <1>3 DEF Lock, Goto, NowBeside
<1>4. CASE InLoad(t)
  \* Only a load gets here, and then the lock is its own.
  <2>1. mutex # NoThread
    BY <1>4, NoThreadAssumption DEF OneLoader
  <2>2. Open(t) \/ OpenFails(t) \/ Read(t) \/ ReadFails(t) \/ Unlock(t)
    BY <1>4 DEF InLoad, Call, Run, LoadModel, DetectLandmark, Lock, EvaluateLevel,
                EvaluateUndefined, ReturnLandmarks, Goto
  <2>3. UNCHANGED <<points, picture, beside>> /\ pc'[u] = pc[u]
    BY <2>2 DEF Open, OpenFails, Read, ReadFails, Unlock, Goto
  <2> QED
    BY <2>1, <2>3
<1>5. CASE EvaluateLevel(t) \/ EvaluateUndefined(t) \/ ReturnLandmarks(t)
  BY <1>5 DEF EvaluateLevel, EvaluateUndefined, Undefined, ReturnLandmarks, Goto
<1> QED
  BY <1>1, <1>2, <1>3, <1>4, <1>5
  DEF Call, Run, Open, OpenFails, Read, ReadFails, Unlock, Goto, InLoad

\* While the lock is free no thread is in the middle of a read.
LEMMA NobodyReads == IInv /\ mutex = NoThread => \A items : ~Racing(items)
BY NoThreadAssumption DEF IInv, OneLoader, InLoad, Racing

\* What a fresh predictor and the model mean for the loop over the levels.
LEMMA FreshAndModel ==
  /\ Fresh[ShapeSize] # "full" /\ Fresh[ForestCount] # "full"
  /\ Model[ShapeSize] = "full" /\ Model[ShapeValues] = "full" /\ Model[ForestCount] = "full"
<1>1. {ShapeSize, ShapeValues, ForestCount} \subseteq Fields
  BY CascadesAssumption
  DEF Fields, Delta, DeltaCount, Anchor, AnchorCount, Forest, ForestCount, ShapeSize, ShapeValues
<1> QED
  BY <1>1 DEF Fresh, Model

\* A detection begins alone only while the lock is free.
LEMMA AloneBegins ==
  ASSUME IInv, NEW t \in Threads, DetectLandmark(t), Alone(t)'
  PROVE  DetectsAlone(t)'
<1> USE DEF IInv, TypeOK
<1>1. mutex = NoThread /\ picture'[t] = "even" /\ UNCHANGED <<mutex, shapePredictor>>
  BY DEF Alone, DetectLandmark
<1>2. ~Racing({ShapeSize, ShapeValues})
  BY <1>1, NobodyReads
<1>3. /\ pc' = [pc EXCEPT ![t] = "level"]
      /\ points' = [points EXCEPT ![t] = InitialShape(
           IF shapePredictor[ShapeValues] = "full" THEN "faithful" ELSE "garbage")]
  BY <1>1, <1>2 DEF DetectLandmark
<1>4. CASE shapePredictor = Fresh
  BY <1>1, <1>3, <1>4, FreshAndModel DEF InitialShape, DetectsAlone
<1>5. CASE shapePredictor = Model
  BY <1>1, <1>3, <1>5, FreshAndModel DEF InitialShape, DetectsAlone
<1> QED
  BY <1>1, <1>4, <1>5 DEF FreeMeansWhole

\* It goes on through levels that are defined and right, or through none.
LEMMA AloneGoesOn ==
  ASSUME IInv, NEW t \in Threads, Alone(t), DetectsAlone(t),
         EvaluateLevel(t) \/ EvaluateUndefined(t) \/ ReturnLandmarks(t)
  PROVE  DetectsAlone(t)'
<1> USE DEF IInv, TypeOK
<1>1. pc[t] = "level" /\ mutex = NoThread /\ UNCHANGED <<mutex, shapePredictor>>
  BY DEF DetectsAlone, EvaluateLevel, EvaluateUndefined, ReturnLandmarks, Goto
<1>2. \A items : ~Racing(items)
  BY <1>1, NobodyReads
<1>3. CASE points[t] = "empty" /\ shapePredictor = Fresh
  <2>1. ~MoreLevels(t)
    BY <1>3, FreshAndModel DEF MoreLevels
  <2>2. ReturnLandmarks(t)
    BY <1>2, <2>1 DEF EvaluateLevel, EvaluateUndefined
  <2> QED
    BY <1>3, <2>2 DEF ReturnLandmarks, Goto, DetectsAlone
<1>4. CASE points[t] = "faithful" /\ shapePredictor = Model
  <2>1. MoreLevels(t) <=> at[t] \in Levels
    BY <1>4, FreshAndModel DEF MoreLevels
  <2>2. at[t] \in Levels => LevelFaithful(shapePredictor, at[t]) /\ EvaluateDefined(t)
    BY <1>4, ModelDefined DEF EvaluateDefined
  <2>3. CASE EvaluateLevel(t)
    BY <1>1, <1>4, <2>1, <2>2, <2>3 DEF EvaluateLevel, DetectsAlone
  <2>4. CASE ReturnLandmarks(t)
    BY <1>4, <2>1, <2>4 DEF ReturnLandmarks, Goto, DetectsAlone
  <2>5. ~EvaluateUndefined(t)
    BY <1>2, <2>2 DEF EvaluateUndefined
  <2> QED
    BY <2>3, <2>4, <2>5
<1> QED
  BY <1>1, <1>3, <1>4 DEF DetectsAlone

LEMMA AloneStep ==
  ASSUME IInv, AloneInv, NEW t \in Threads, Call(t) \/ Run(t)
  PROVE  AloneInv'
<1> SUFFICES ASSUME NEW u \in Threads, Alone(u)' PROVE DetectsAlone(u)'
  BY DEF AloneInv
<1>1. CASE u # t
  <2>1. Alone(u)
    BY <1>1, OtherStep DEF Alone
  <2>2. DetectsAlone(u)
    BY <2>1 DEF AloneInv
  <2>3. ~beside'[u]
    BY DEF Alone
  <2> QED
    BY <1>1, <2>2, <2>3, OtherStep DEF DetectsAlone
<1>2. CASE DetectLandmark(t) /\ u = t
  BY <1>2, AloneBegins
<1>3. CASE (EvaluateLevel(t) \/ EvaluateUndefined(t) \/ ReturnLandmarks(t)) /\ u = t
  <2>1. Alone(t)
    BY <1>3 DEF Alone, EvaluateLevel, EvaluateUndefined, ReturnLandmarks
  <2> QED
    BY <1>3, <2>1, AloneGoesOn DEF AloneInv
<1>4. CASE /\ \/ LoadModel(t) \/ Lock(t) \/ Open(t) \/ OpenFails(t)
              \/ Read(t) \/ ReadFails(t) \/ Unlock(t)
           /\ u = t
  \* The thread is not detecting, before or after the step.
  <2>1. pc'[t] \notin {"level", "fault"} /\ UNCHANGED <<points, picture>>
    BY <1>4 DEF IInv, TypeOK, LoadModel, Lock, NowBeside, Open, OpenFails, Read, ReadFails,
                Unlock, Goto
  <2>2. ~beside[t]
    BY <1>4 DEF Alone, IInv, TypeOK, LoadModel, Lock, NowBeside, Open, OpenFails, Read,
                ReadFails, Unlock
  <2>3. DetectsAlone(t)
    BY <1>4, <2>1, <2>2 DEF AloneInv, Alone
  <2> QED
    BY <1>4, <2>1, <2>3 DEF DetectsAlone
<1> QED
  BY <1>1, <1>2, <1>3, <1>4 DEF Call, Run

\* detectLandmark takes no lock, and yet neither faults nor computes a wrong point
\* on an even picture, unless a load held the lock at some time while it ran.
THEOREM DetectionSafety == Spec => []SafeAlone
<1>1. Init => AloneInv
  BY DEF Init, LibInit, AloneInv, Alone
<1>2. IInv /\ AloneInv /\ [Next]_vars => AloneInv'
  <2> SUFFICES ASSUME IInv, AloneInv, [Next]_vars PROVE AloneInv'
    OBVIOUS
  <2>1. CASE Alive /\ \E t \in Threads : Call(t) \/ Run(t)
    BY <2>1, AloneStep
  <2>2. CASE FileChanges \/ UNCHANGED vars
    BY <2>2 DEF FileChanges, vars, libVars, AloneInv, Alone, DetectsAlone
  <2>3. CASE Restart
    BY <2>3 DEF Restart, AloneInv, Alone
  <2> QED
    BY <2>1, <2>2, <2>3 DEF Next
<1>3. AloneInv => SafeAlone
  BY DEF AloneInv, Alone, DetectsAlone, SafeAlone
<1> QED
  BY <1>1, <1>2, <1>3, Invariance, PTL DEF Spec
=============================================================================
