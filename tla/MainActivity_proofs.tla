-------------------------- MODULE MainActivity_proofs --------------------------
(***************************************************************************)
(* Theorems about MainActivity, for any size of model and any faults.      *)
(*                                                                         *)
(* The safety properties relate what is shown to a failure that may lie a  *)
(* whole onCreate back, so the invariant follows the predictor through the *)
(* process: what a load starts from, what it has read, what it may leave   *)
(* behind when it fails, and what a detection then makes of it.            *)
(***************************************************************************)
EXTENDS MainActivity, TLAPS

\* Which step of onCreate goes with which place in the library.
Control ==
  /\ step \notin {"loading", "detecting"} => pc[UI] = "idle"
  /\ step = "loading"   => pc[UI] \in {"idle", "lock", "open", "read"}
  /\ step = "detecting" => pc[UI] \in {"idle", "level", "fault"}
  /\ Lib!InLoad(UI) => mutex = UI
  /\ step = "dead" => mutex = NoThread
  /\ step # "idle" => shown = "nothing"

\* A load starts from a constructed or from a whole predictor.
LoadStart ==
  mutex = NoThread \/ pc[UI] = "open" => shapePredictor \in {Lib!Fresh, Lib!Model}

\* It has read what comes before its place, and found the rest unread or whole.
Loading ==
  pc[UI] = "read" =>
    /\ stream[UI] \in Nat /\ at[UI] <= stream[UI]
    /\ \A f \in Lib!Fields : f < at[UI] => shapePredictor[f] = "full"
    /\ \/ shapePredictor = Lib!Model
       \/ \A f \in Lib!Fields : f >= at[UI] => shapePredictor[f] = "unread"

\* loadModel has returned in this onCreate.
LoadEnded ==
  \/ step \in {"decode", "detect", "detecting", "idle"}
  \/ step = "loading" /\ pc[UI] = "idle"

\* It has succeeded, or it has kept the lock; and if a shape is there although it
\* has failed, it broke off behind the shape.
Loaded ==
  LoadEnded =>
    /\ mutex = UI \/ shapePredictor = Lib!Model
    /\ shapePredictor # Lib!Model /\ shapePredictor[Lib!ShapeSize] = "full"
         => stream[UI] \in 2 .. Lib!FileLength - 1

\* The shape comes first in the file.
ShapeFirst ==
  shapePredictor[Lib!ForestCount] = "full" => shapePredictor[Lib!ShapeSize] = "full"

\* Points come from a shape, and those of the whole model are right unless the
\* conversions of the picture left its bytes.
Detecting ==
  step = "detecting" =>
    /\ pc[UI] # "fault" =>
         /\ points[UI] \in {"empty", "garbage", "faithful"}
         /\ points[UI] # "empty" => shapePredictor[Lib!ShapeSize] = "full"
    /\ shapePredictor = Lib!Model /\ picture[UI] # "odd" =>
         pc[UI] # "fault" /\ points[UI] = "faithful"

\* A later onCreate finds the lock taken only if an earlier one showed something.
LeakedShape ==
  /\ mutex = UI
  /\ \/ step \in {"exists", "open", "copy", "load", "idle"}
     \/ step = "loading" /\ pc[UI] = "lock"
  => shapePredictor[Lib!ShapeSize] = "full"

IInv ==
  /\ TypeOK
  /\ Control
  /\ LoadStart
  /\ Loading
  /\ Loaded
  /\ ShapeFirst
  /\ Detecting
  /\ LeakedShape
  /\ GarbageNeedsBrokenLoad

USE DEF Lib!detections

(***************************************************************************)
(* Lemmas about model files and predictors                                 *)
(***************************************************************************)
LEMMA ItemArithmetic ==
  /\ Lib!FileLength = 3 * Cascades + 6
  /\ Lib!FileLength \in Nat
  /\ Lib!Fields = 1 .. 3 * Cascades + 5
  /\ Cascades + 1 \in 0 .. Lib!FileLength
  /\ Lib!Version = 0 /\ Lib!ShapeSize = 1 /\ Lib!ShapeValues = 2 /\ Lib!ForestCount = 3
BY CascadesAssumption
DEF Lib!FileLength, Lib!Fields, Lib!Delta, Lib!DeltaCount, Lib!Anchor, Lib!AnchorCount,
    Lib!Forest, Lib!ForestCount, Lib!ShapeSize, Lib!ShapeValues, Lib!Version

LEMMA CountFields == {Lib!ShapeSize, Lib!ShapeValues, Lib!ForestCount} \subseteq Lib!Fields
BY ItemArithmetic, CascadesAssumption

LEMMA PredictorType ==
  /\ Lib!Fresh \in Lib!Predictors /\ Lib!Model \in Lib!Predictors
  /\ \A p \in Lib!Predictors : \A item :
       /\ Lib!Deserialized(p, item) \in Lib!Predictors
       /\ Lib!Interrupted(p, item) \subseteq Lib!Predictors
BY DEF Lib!Fresh, Lib!Model, Lib!Predictors, Lib!Slots, Lib!Deserialized, Lib!Interrupted

LEMMA FullIsModel ==
  ASSUME NEW p \in Lib!Predictors, \A f \in Lib!Fields : p[f] = "full"
  PROVE  p = Lib!Model
BY DEF Lib!Predictors, Lib!Model

\* What a fresh predictor lacks and the model has.
LEMMA FreshAndModel ==
  \A f \in Lib!Fields : Lib!Fresh[f] = "unread" /\ Lib!Model[f] = "full"
BY DEF Lib!Fresh, Lib!Model

\* Reading the asset's item over the model changes nothing.
LEMMA ModelAgain == \A item : Lib!Deserialized(Lib!Model, item) = Lib!Model
BY DEF Lib!Deserialized, Lib!Model

\* The counts and the shape are never half read.
LEMMA CutInElement ==
  ASSUME NEW p \in Lib!Predictors, NEW item, NEW q \in Lib!Interrupted(p, item)
  PROVE  /\ q[Lib!ShapeSize] = p[Lib!ShapeSize]
         /\ q[Lib!ForestCount] = p[Lib!ForestCount]
         /\ q # p => item \in Lib!Fields /\ item > Lib!ForestCount
<1>1. CASE item \notin Lib!Elements
  BY <1>1 DEF Lib!Interrupted
<1>2. CASE item \in Lib!Elements
  <2>1. item \in Lib!Fields /\ item > Lib!ForestCount
    BY <1>2, ItemArithmetic, CascadesAssumption DEF Lib!Elements
  <2>2. \A f \in Lib!Fields : f # item => q[f] = p[f]
    BY <1>2 DEF Lib!Interrupted, Lib!Predictors
  <2> QED
    BY <2>1, <2>2, ItemArithmetic, CountFields
<1> QED
  BY <1>1, <1>2

\* Every level of the model is defined behaviour, and its outcome is right.
LEMMA ModelLevel ==
  ASSUME NEW l \in Lib!Levels
  PROVE  Lib!LevelDefined(Lib!Model, l) /\ Lib!LevelFaithful(Lib!Model, l)
<1>1. {Lib!AnchorCount, Lib!DeltaCount, Lib!Forest(l), Lib!Anchor(l), Lib!Delta(l)}
        \subseteq Lib!Fields
  BY CascadesAssumption
  DEF Lib!Levels, Lib!Fields, Lib!Delta, Lib!DeltaCount, Lib!Anchor, Lib!AnchorCount,
      Lib!Forest, Lib!ForestCount
<1> QED
  BY <1>1, FreshAndModel DEF Lib!LevelDefined, Lib!LevelFaithful

(***************************************************************************)
(* Type correctness                                                        *)
(***************************************************************************)
\* The steps inside a call of the library.
LEMMA NativeType ==
  ASSUME TypeOK, Lib!LoadModel(UI) \/ Lib!DetectLandmark(UI) \/ Lib!Run(UI)
  PROVE  Lib!TypeOK'
<1> USE DEF TypeOK, Lib!TypeOK
<1>1. CASE Lib!LoadModel(UI)
  BY <1>1 DEF Lib!LoadModel, Lib!Goto, Lib!Labels
<1>2. CASE Lib!DetectLandmark(UI)
  <2>1. 1 \in 0 .. Lib!FileLength
    BY ItemArithmetic, CascadesAssumption
  <2>2. pc' \in [{UI} -> Lib!Labels] /\ points' \in [{UI} -> Lib!Points]
    BY <1>2 DEF Lib!DetectLandmark, Lib!ConvertOutside, Lib!InitialShape, Lib!Undefined,
                Lib!Labels, Lib!Points
  <2>3. picture' \in [{UI} -> Pictures \union {"none"}] /\ beside' \in [{UI} -> BOOLEAN]
    BY <1>2 DEF Lib!DetectLandmark
  <2> QED
    BY <1>2, <2>1, <2>2, <2>3 DEF Lib!DetectLandmark
<1>3. CASE Lib!Lock(UI)
  <2>1. beside' \in [{UI} -> BOOLEAN]
    BY <1>3 DEF Lib!Lock, Lib!NowBeside
  <2> QED
    BY <1>3, <2>1 DEF Lib!Lock, Lib!NowBeside, Lib!Goto, Lib!Labels
<1>4. CASE Lib!Open(UI)
  BY <1>4, ItemArithmetic DEF Lib!Open, Lib!Goto, Lib!Labels
<1>5. CASE Lib!OpenFails(UI)
  BY <1>5 DEF Lib!OpenFails, Lib!Goto, Lib!Labels, Lib!Lengths
<1>6. CASE Lib!Read(UI)
  <2>1. at[UI] + 1 \in 0 .. Lib!FileLength
    BY <1>6, ItemArithmetic DEF Lib!Read
  <2> QED
    BY <1>6, <2>1, PredictorType DEF Lib!Read
<1>7. CASE Lib!ReadFails(UI)
  BY <1>7, PredictorType DEF Lib!ReadFails, Lib!BreaksOff, Lib!Goto, Lib!Labels, Lib!Lengths
<1>8. CASE Lib!Unlock(UI)
  BY <1>8 DEF Lib!Unlock, Lib!Goto, Lib!Labels
<1>9. CASE Lib!EvaluateLevel(UI)
  <2>1. at[UI] + 1 \in 0 .. Lib!FileLength
    BY <1>9, ItemArithmetic, CascadesAssumption
    DEF Lib!EvaluateLevel, Lib!MoreLevels, Lib!Levels
  <2> QED
    BY <1>9, <2>1 DEF Lib!EvaluateLevel, Lib!Points
<1>10. CASE Lib!EvaluateUndefined(UI)
  <2>1. at[UI] + 1 \in 0 .. Lib!FileLength
    BY <1>10, ItemArithmetic, CascadesAssumption DEF Lib!EvaluateUndefined, Lib!Levels
  <2> QED
    BY <1>10, <2>1 DEF Lib!EvaluateUndefined, Lib!Undefined, Lib!Labels, Lib!Points
<1>11. CASE Lib!ReturnLandmarks(UI)
  BY <1>11 DEF Lib!ReturnLandmarks, Lib!Goto, Lib!Labels, Lib!Points
<1> QED
  BY <1>1, <1>2, <1>3, <1>4, <1>5, <1>6, <1>7, <1>8, <1>9, <1>10, <1>11 DEF Lib!Run

LEMMA TypeInit == Init => TypeOK
BY ItemArithmetic, PredictorType
DEF Init, TypeOK, Steps, FS!FileInit, FS!FileTypeOK, FS!FileLengths,
    Lib!LibInit, Lib!TypeOK, Lib!Lengths, Lib!Labels, Lib!Points

\* The end of the process leaves the library as it is loaded.
LEMMA DieType == TypeOK /\ Die /\ file' \in FS!FileLengths => Lib!TypeOK'
BY ItemArithmetic, PredictorType
DEF TypeOK, Die, FS!FileTypeOK, FS!FileLengths, Lib!Restart, Lib!TypeOK, Lib!Lengths,
    Lib!Labels, Lib!Points

\* Everything else leaves it alone.
LEMMA LibType == TypeOK /\ UNCHANGED libVars /\ file' \in FS!FileLengths => Lib!TypeOK'
BY DEF TypeOK, libVars, FS!FileLengths, Lib!TypeOK, Lib!Lengths

LEMMA FileType ==
  ASSUME TypeOK,
         \/ FS!OpenOut \/ FS!WriteChunk \/ FS!EndCopy \/ FS!CopyFails
         \/ FS!Writeback \/ FS!RemoveFile \/ FS!ProcessEnds \/ FS!PowerLoss
         \/ UNCHANGED fileVars
  PROVE  FS!FileTypeOK' /\ file' \in FS!FileLengths
BY ItemArithmetic
DEF TypeOK, FS!FileTypeOK, FS!FileLengths, fileVars, FS!OpenOut, FS!WriteChunk, FS!EndCopy,
    FS!CopyFails, FS!Writeback, FS!RemoveFile, FS!ProcessEnds, FS!PowerLoss

\* A detection has set its points when it returns, hence Detecting.
LEMMA TypeNext == TypeOK /\ Detecting /\ [Next]_vars => TypeOK'
<1> SUFFICES ASSUME TypeOK, Detecting, [Next]_vars PROVE TypeOK'
  OBVIOUS
<1> USE DEF TypeOK, Steps, Goto
\* The process goes on and the library is left alone.
<1>1. CASE CheckExists
  BY <1>1, LibType, FileType DEF CheckExists, fileVars
<1>2. CASE OpenOut
  BY <1>2, LibType, FileType DEF OpenOut
<1>3. CASE WriteChunk
  BY <1>3, LibType, FileType DEF WriteChunk
<1>4. CASE EndCopy
  BY <1>4, LibType, FileType DEF EndCopy
<1>5. CASE CopyFails
  BY <1>5, LibType, FileType DEF CopyFails
<1>6. CASE LoadReturns
  BY <1>6, LibType, FileType DEF LoadReturns, fileVars
<1>7. CASE Decode
  BY <1>7, LibType, FileType DEF Decode, fileVars
<1>8. CASE ShowLandmarks
  <2>1. shown' \in {"nothing", "garbage", "faithful"}
    BY <1>8 DEF ShowLandmarks, Detecting
  <2> QED
    BY <1>8, <2>1, LibType, FileType DEF ShowLandmarks, fileVars
<1>9. CASE StartProcess
  BY <1>9, LibType, FileType DEF StartProcess, fileVars
<1>10. CASE Recreate
  BY <1>10, LibType, FileType DEF Recreate, fileVars
<1>11. CASE RemoveFile
  BY <1>11, LibType, FileType DEF RemoveFile
<1>12. CASE Writeback
  BY <1>12, LibType, FileType DEF Writeback
<1>13. CASE UNCHANGED vars
  BY <1>13, LibType, FileType DEF vars, fileVars
\* The process ends.
<1>14. CASE DecodeFails \/ NoLandmarks \/ NativeFault \/ Kill \/ PowerLoss
  <2>1. Die /\ (FS!ProcessEnds \/ FS!PowerLoss)
    BY <1>14 DEF DecodeFails, NoLandmarks, NativeFault, Kill, PowerLoss
  <2>2. FS!FileTypeOK' /\ file' \in FS!FileLengths
    BY <2>1, FileType
  <2> QED
    BY <2>1, <2>2, DieType DEF Die
\* The library runs.
<1>15. CASE LoadModel \/ DetectLandmark \/ RunNative
  <2>1. Lib!TypeOK' /\ step' \in Steps /\ shown' = shown
    BY <1>15, NativeType DEF LoadModel, DetectLandmark, RunNative
  <2>2. UNCHANGED <<disk, out>> /\ file' \in FS!FileLengths
    BY <1>15, <2>1
    DEF LoadModel, DetectLandmark, RunNative, Lib!TypeOK, Lib!Lengths, FS!FileLengths
  <2> QED
    BY <2>1, <2>2 DEF FS!FileTypeOK
<1> QED
  BY <1>1, <1>2, <1>3, <1>4, <1>5, <1>6, <1>7, <1>8, <1>9, <1>10, <1>11, <1>12, <1>13,
     <1>14, <1>15
  DEF Next, UIStep

(***************************************************************************)
(* The inductive invariant: steps of the library                           *)
(***************************************************************************)
\* The invariant but for the types, which TypeNext preserves.
Rest ==
  Control /\ LoadStart /\ Loading /\ Loaded /\ ShapeFirst /\ Detecting /\ LeakedShape
    /\ GarbageNeedsBrokenLoad

LEMMA LoadStep ==
  ASSUME IInv, step = "loading", UNCHANGED <<step, shown>>, Lib!TypeOK',
         \/ Lib!Lock(UI) \/ Lib!Open(UI) \/ Lib!OpenFails(UI)
         \/ Lib!Read(UI) \/ Lib!ReadFails(UI) \/ Lib!Unlock(UI)
  PROVE  Rest'
<1> USE DEF IInv, TypeOK, Lib!TypeOK
<1>0. /\ UI # NoThread
      /\ step' = "loading" /\ step' \notin {"decode", "detect", "detecting", "idle"}
      /\ shown' = "nothing" /\ Detecting' /\ GarbageNeedsBrokenLoad'
  BY UIAssumption DEF Control, Detecting, GarbageNeedsBrokenLoad
<1> USE <1>0 DEF Rest
<1>1. CASE Lib!Lock(UI)
  BY <1>1
  DEF Lib!Lock, Lib!NowBeside, Lib!Goto, Lib!InLoad, Control, LoadStart, Loading, Loaded,
      LoadEnded, ShapeFirst, LeakedShape
<1>2. CASE Lib!Open(UI)
  <2>1. /\ pc'[UI] = "read" /\ mutex = UI /\ UNCHANGED <<mutex, shapePredictor>>
        /\ at'[UI] = 0 /\ stream'[UI] \in Nat /\ at'[UI] <= stream'[UI]
    BY <1>2, ItemArithmetic
    DEF Lib!Open, Lib!Goto, Lib!InLoad, Control, Lib!Lengths
  <2>2. shapePredictor \in {Lib!Fresh, Lib!Model}
    BY <1>2 DEF Lib!Open, Lib!Goto, LoadStart
  <2>3. Loading'
    BY <2>1, <2>2, FreshAndModel, ItemArithmetic, CascadesAssumption DEF Loading
  <2> QED
    BY <2>1, <2>2, <2>3
    DEF Lib!InLoad, Control, LoadStart, Loaded, LoadEnded, ShapeFirst, LeakedShape
<1>3. CASE Lib!OpenFails(UI)
  \* The predictor is as the load found it, so if it is not the model, it is fresh.
  <2>1. pc'[UI] = "idle" /\ mutex = UI /\ UNCHANGED <<mutex, shapePredictor>>
    BY <1>3 DEF Lib!OpenFails, Lib!Goto, Lib!InLoad, Control
  <2>2. shapePredictor = Lib!Model \/ shapePredictor[Lib!ShapeSize] = "unread"
    BY <1>3, FreshAndModel, CountFields DEF Lib!OpenFails, Lib!Goto, LoadStart
  <2> QED
    BY <2>1, <2>2
    DEF Lib!InLoad, Control, LoadStart, Loading, Loaded, ShapeFirst, LeakedShape
<1>4. CASE Lib!Read(UI)
  <2>1. /\ pc[UI] = "read" /\ pc' = pc /\ mutex = UI /\ UNCHANGED <<mutex, stream>>
        /\ shapePredictor' = Lib!Deserialized(shapePredictor, at[UI])
        /\ at'[UI] = at[UI] + 1 /\ at[UI] \in Nat /\ at[UI] < stream[UI]
    BY <1>4, ItemArithmetic DEF Lib!Read, Lib!InLoad, Control
  <2>2. \A f \in Lib!Fields :
          shapePredictor'[f] = IF f = at[UI] THEN "full" ELSE shapePredictor[f]
    BY <2>1 DEF Lib!Deserialized
  <2>3. \A f \in Lib!Fields : f \in Nat
    BY ItemArithmetic, CascadesAssumption
  <2>4. Loading'
    <3>1. stream[UI] \in Nat /\ at[UI] + 1 <= stream[UI]
      BY <2>1 DEF Loading
    <3>2. ASSUME NEW f \in Lib!Fields, f < at[UI] + 1
          PROVE  shapePredictor'[f] = "full"
      <4>1. f = at[UI] \/ f < at[UI]
        BY <2>1, <2>3, <3>2
      <4> QED
        BY <2>1, <2>2, <4>1 DEF Loading
    <3>3. CASE shapePredictor = Lib!Model
      BY <2>1, <3>1, <3>2, <3>3, ModelAgain DEF Loading
    <3>4. CASE \A f \in Lib!Fields : f >= at[UI] => shapePredictor[f] = "unread"
      <4>1. \A f \in Lib!Fields : f >= at[UI] + 1 => shapePredictor'[f] = "unread"
        BY <2>1, <2>2, <2>3, <3>4
      <4> QED
        BY <2>1, <3>1, <3>2, <4>1 DEF Loading
    <3> QED
      BY <2>1, <3>3, <3>4 DEF Loading
  <2>5. ShapeFirst'
    <3>1. CASE at[UI] = Lib!ForestCount
      BY <2>1, <2>2, <3>1, ItemArithmetic, CountFields DEF Loading, ShapeFirst
    <3>2. CASE at[UI] # Lib!ForestCount
      BY <2>2, <3>2, CountFields DEF ShapeFirst
    <3> QED
      BY <3>1, <3>2 DEF ShapeFirst
  <2> QED
    BY <2>1, <2>4, <2>5 DEF Lib!InLoad, Control, LoadStart, Loaded, LoadEnded, LeakedShape
<1>5. CASE Lib!ReadFails(UI)
  <2>1. /\ pc[UI] = "read" /\ pc'[UI] = "idle" /\ mutex = UI /\ UNCHANGED <<mutex, at>>
        /\ shapePredictor' \in Lib!Interrupted(shapePredictor, at[UI])
        /\ at[UI] \in Nat /\ at[UI] < Lib!FileLength
    BY <1>5, ItemArithmetic
    DEF Lib!ReadFails, Lib!BreaksOff, Lib!Goto, Lib!InLoad, Control
  <2>2. stream'[UI] = at[UI]
    BY <1>5 DEF Lib!ReadFails, Lib!BreaksOff
  <2>3. /\ shapePredictor'[Lib!ShapeSize] = shapePredictor[Lib!ShapeSize]
        /\ shapePredictor'[Lib!ForestCount] = shapePredictor[Lib!ForestCount]
        /\ shapePredictor' # shapePredictor => at[UI] > Lib!ForestCount
    BY <2>1, CutInElement
  <2>4. ASSUME shapePredictor' # Lib!Model, shapePredictor'[Lib!ShapeSize] = "full"
        PROVE  stream'[UI] \in 2 .. Lib!FileLength - 1
    <3>1. CASE shapePredictor = Lib!Model
      BY <2>1, <2>2, <2>3, <2>4, <3>1, ItemArithmetic
    <3>2. CASE shapePredictor # Lib!Model
      <4>1. at[UI] > Lib!ShapeSize
        BY <2>1, <2>3, <2>4, <3>2, CountFields, ItemArithmetic DEF Loading
      <4> QED
        BY <2>1, <2>2, <4>1, ItemArithmetic
    <3> QED
      BY <3>1, <3>2
  <2> QED
    BY <2>1, <2>3, <2>4
    DEF Lib!InLoad, Control, LoadStart, Loading, Loaded, ShapeFirst, LeakedShape
<1>6. CASE Lib!Unlock(UI)
  <2>1. shapePredictor = Lib!Model
    <3>1. \A f \in Lib!Fields : f < at[UI]
      BY <1>6, ItemArithmetic, CascadesAssumption DEF Lib!Unlock
    <3> QED
      BY <1>6, <3>1, FullIsModel DEF Lib!Unlock, Lib!Goto, Loading
  <2>2. pc'[UI] = "idle" /\ mutex' = NoThread /\ UNCHANGED shapePredictor
    BY <1>6 DEF Lib!Unlock, Lib!Goto
  <2> QED
    BY <2>1, <2>2
    DEF Lib!InLoad, Control, LoadStart, Loading, Loaded, ShapeFirst, LeakedShape
<1> QED
  BY <1>1, <1>2, <1>3, <1>4, <1>5, <1>6

LEMMA DetectStep ==
  ASSUME IInv, step = "detecting", UNCHANGED <<step, shown>>, Lib!TypeOK',
         Lib!EvaluateLevel(UI) \/ Lib!EvaluateUndefined(UI) \/ Lib!ReturnLandmarks(UI)
  PROVE  Rest'
<1> USE DEF IInv, TypeOK, Lib!TypeOK
<1>1. /\ pc[UI] = "level" /\ pc'[UI] \in {"idle", "level", "fault"}
      /\ UNCHANGED <<mutex, shapePredictor, stream, picture>>
  BY DEF Lib!EvaluateLevel, Lib!EvaluateUndefined, Lib!Undefined, Lib!ReturnLandmarks, Lib!Goto
\* On the model no level is undefined or wrong, and none is left out.
<1>2. ASSUME shapePredictor = Lib!Model, picture[UI] # "odd"
      PROVE  pc'[UI] # "fault" /\ points'[UI] = "faithful"
  <2>1. points[UI] = "faithful"
    BY <1>2 DEF Detecting
  <2>2. \A items : ~Lib!Racing(items)
    BY <1>1 DEF Lib!Racing
  <2>3. at[UI] \in Lib!Levels => Lib!MoreLevels(UI) /\ Lib!EvaluateDefined(UI)
    BY <1>2, <2>1, ModelLevel, FreshAndModel, CountFields
    DEF Lib!MoreLevels, Lib!EvaluateDefined
  <2>4. CASE Lib!EvaluateLevel(UI)
    BY <1>1, <1>2, <2>1, <2>4, ModelLevel DEF Lib!EvaluateLevel, Lib!MoreLevels
  <2>5. CASE Lib!EvaluateUndefined(UI)
    BY <2>2, <2>3, <2>5 DEF Lib!EvaluateUndefined
  <2>6. CASE Lib!ReturnLandmarks(UI)
    BY <2>1, <2>3, <2>6 DEF Lib!ReturnLandmarks, Lib!Goto
  <2> QED
    BY <2>4, <2>5, <2>6
\* Points that are there, or that are made up, mean that a shape is there.
<1>3. pc'[UI] # "fault" =>
        /\ points'[UI] \in {"empty", "garbage", "faithful"}
        /\ points'[UI] # "empty" => shapePredictor[Lib!ShapeSize] = "full"
  <2>1. /\ points[UI] \in {"empty", "garbage", "faithful"}
        /\ points[UI] # "empty" => shapePredictor[Lib!ShapeSize] = "full"
    BY <1>1 DEF Detecting
  <2>2. CASE Lib!EvaluateLevel(UI)
    BY <2>1, <2>2 DEF Lib!EvaluateLevel, Lib!EvaluateDefined
  <2>3. CASE Lib!EvaluateUndefined(UI)
    <3>1. Lib!MoreLevels(UI)
      BY <1>1, <2>3 DEF Lib!EvaluateUndefined, Lib!Racing
    <3> QED
      BY <2>1, <2>3, <3>1
      DEF Lib!EvaluateUndefined, Lib!Undefined, Lib!MoreLevels, ShapeFirst
  <2>4. CASE Lib!ReturnLandmarks(UI)
    BY <2>1, <2>4 DEF Lib!ReturnLandmarks
  <2> QED
    BY <2>2, <2>3, <2>4
<1>4. Control'
  BY <1>1 DEF Control, Lib!InLoad
<1>5. Loaded' /\ LoadStart' /\ Loading' /\ ShapeFirst' /\ LeakedShape' /\ GarbageNeedsBrokenLoad'
  BY <1>1
  DEF Control, LoadStart, Loading, Loaded, LoadEnded, ShapeFirst, LeakedShape,
      GarbageNeedsBrokenLoad
<1> QED
  BY <1>1, <1>2, <1>3, <1>4, <1>5 DEF Rest, Detecting

\* The two calls begin.
LEMMA CallStep == IInv /\ (LoadModel \/ DetectLandmark) /\ Lib!TypeOK' => Rest'
<1> SUFFICES ASSUME IInv, LoadModel \/ DetectLandmark, Lib!TypeOK' PROVE Rest'
  OBVIOUS
<1> USE DEF IInv, TypeOK, Lib!TypeOK, Goto, Rest
<1>1. CASE LoadModel
  BY <1>1
  DEF LoadModel, Lib!LoadModel, Lib!Goto, Lib!InLoad, Control, LoadStart, Loading, Loaded,
      LoadEnded, ShapeFirst, Detecting, LeakedShape, GarbageNeedsBrokenLoad
<1>2. CASE DetectLandmark
  <2>1. /\ step = "detect" /\ step' = "detecting" /\ shown' = "nothing" /\ pc[UI] = "idle"
        /\ UNCHANGED <<mutex, shapePredictor, stream>>
    BY <1>2 DEF DetectLandmark, Lib!DetectLandmark, Control
  <2>2. ~Lib!Racing({Lib!ShapeSize, Lib!ShapeValues})
    BY <2>1 DEF Lib!Racing
  <2>3. PICK sides \in Pictures :
          /\ picture' = [picture EXCEPT ![UI] = sides]
          /\ \/ /\ pc' = [pc EXCEPT ![UI] = "level"]
                /\ points' = [points EXCEPT ![UI] = Lib!InitialShape(
                     IF shapePredictor[Lib!ShapeValues] = "full" THEN "faithful" ELSE "garbage")]
             \/ sides = "odd" /\ Lib!ConvertOutside(UI)
    BY <1>2, <2>2 DEF DetectLandmark, Lib!DetectLandmark
  <2>4. pc'[UI] \in {"level", "fault"} /\ picture'[UI] = sides
    BY <2>3 DEF Lib!ConvertOutside
  <2>5. pc'[UI] # "fault" =>
          /\ points'[UI] \in {"empty", "garbage", "faithful"}
          /\ points'[UI] # "empty" => shapePredictor[Lib!ShapeSize] = "full"
    BY <2>3 DEF Lib!ConvertOutside, Lib!InitialShape
  <2>6. shapePredictor = Lib!Model /\ sides # "odd" =>
          pc'[UI] # "fault" /\ points'[UI] = "faithful"
    BY <2>3, FreshAndModel, CountFields DEF Lib!InitialShape
  <2>7. Detecting' /\ GarbageNeedsBrokenLoad'
    BY <2>1, <2>4, <2>5, <2>6 DEF Detecting, GarbageNeedsBrokenLoad
  <2> QED
    BY <2>1, <2>4, <2>7
    DEF Lib!InLoad, Control, LoadStart, Loading, Loaded, LoadEnded, ShapeFirst, LeakedShape
<1> QED
  BY <1>1, <1>2

(***************************************************************************)
(* The inductive invariant: the other steps                                *)
(***************************************************************************)
\* onCreate goes on without the library.
LEMMA OwnStep ==
  ASSUME IInv, UNCHANGED libVars,
         \/ StartProcess \/ CheckExists \/ OpenOut \/ WriteChunk \/ EndCopy \/ CopyFails
         \/ LoadReturns \/ Decode \/ ShowLandmarks \/ Recreate
         \/ UNCHANGED <<step, shown>>
  PROVE  Rest'
<1> USE DEF IInv, TypeOK, Lib!TypeOK, Goto, Rest, libVars
<1>0. UI # NoThread /\ UNCHANGED <<mutex, shapePredictor, pc, at, stream, points, picture>>
  BY UIAssumption
<1>1. LoadStart' /\ Loading' /\ ShapeFirst'
  BY <1>0 DEF LoadStart, Loading, ShapeFirst
<1> USE <1>0, <1>1 DEF Control, Loaded, LoadEnded, Detecting, LeakedShape,
      GarbageNeedsBrokenLoad, Lib!InLoad
<1>2. CASE StartProcess \/ CheckExists \/ OpenOut \/ WriteChunk \/ EndCopy \/ CopyFails
  BY <1>2 DEF StartProcess, CheckExists, OpenOut, WriteChunk, EndCopy, CopyFails
<1>3. CASE LoadReturns \/ Decode
  BY <1>3 DEF LoadReturns, Decode
<1>4. CASE ShowLandmarks
  \* Wrong points that no picture explains come from a predictor that is not the
  \* model, so the load failed.
  <2>1. shown' = "garbage" /\ picture[UI] # "odd" => shapePredictor # Lib!Model
    BY <1>4 DEF ShowLandmarks
  <2> QED
    BY <1>4, <2>1 DEF ShowLandmarks
<1>5. CASE Recreate
  BY <1>5 DEF Recreate
<1>6. CASE UNCHANGED <<step, shown>>
  BY <1>6
<1> QED
  BY <1>2, <1>3, <1>4, <1>5, <1>6

LEMMA DieStep == Die => Rest'
BY UIAssumption, FreshAndModel, CountFields
DEF Die, Lib!Restart, Rest, Control, LoadStart, Loading, Loaded, LoadEnded, ShapeFirst,
    Detecting, LeakedShape, GarbageNeedsBrokenLoad, Lib!InLoad

LEMMA InvInit == Init => IInv
BY TypeInit, UIAssumption, FreshAndModel, CountFields
DEF Init, Lib!LibInit, IInv, Control, LoadStart, Loading, Loaded, LoadEnded, ShapeFirst,
    Detecting, LeakedShape, GarbageNeedsBrokenLoad, Lib!InLoad

LEMMA InvNext == IInv /\ [Next]_vars => IInv'
<1> SUFFICES ASSUME IInv, [Next]_vars PROVE IInv'
  OBVIOUS
<1>1. TypeOK' /\ Lib!TypeOK'
  BY TypeNext DEF IInv, TypeOK
<1> SUFFICES Rest'
  BY <1>1 DEF IInv, Rest
<1>2. CASE RunNative
  <2>1. CASE step = "loading"
    <3>1. pc[UI] # "level"
      BY <2>1 DEF IInv, Control
    <3> QED
      BY <1>1, <1>2, <2>1, <3>1, LoadStep
      DEF RunNative, Lib!Run, Lib!EvaluateLevel, Lib!EvaluateUndefined, Lib!ReturnLandmarks,
          Lib!Goto
  <2>2. CASE step = "detecting"
    <3>1. pc[UI] \notin {"lock", "open", "read"}
      BY <2>2 DEF IInv, Control
    <3> QED
      BY <1>1, <1>2, <2>2, <3>1, DetectStep
      DEF RunNative, Lib!Run, Lib!Lock, Lib!Open, Lib!OpenFails, Lib!Read, Lib!ReadFails,
          Lib!Unlock, Lib!Goto
  <2> QED
    BY <1>2, <2>1, <2>2 DEF RunNative
<1>3. CASE LoadModel \/ DetectLandmark
  BY <1>1, <1>3, CallStep
<1>4. CASE DecodeFails \/ NoLandmarks \/ NativeFault \/ Kill \/ PowerLoss
  BY <1>4, DieStep DEF DecodeFails, NoLandmarks, NativeFault, Kill, PowerLoss
<1>5. CASE \/ StartProcess \/ CheckExists \/ OpenOut \/ WriteChunk \/ EndCopy \/ CopyFails
           \/ LoadReturns \/ Decode \/ ShowLandmarks \/ Recreate
  <2>1. UNCHANGED libVars
    BY <1>5
    DEF StartProcess, CheckExists, OpenOut, WriteChunk, EndCopy, CopyFails, LoadReturns,
        Decode, ShowLandmarks, Recreate
  <2> QED
    BY <1>5, <2>1, OwnStep
<1>6. CASE RemoveFile \/ Writeback \/ UNCHANGED vars
  BY <1>6, OwnStep DEF RemoveFile, Writeback, vars
<1> QED
  BY <1>2, <1>3, <1>4, <1>5, <1>6 DEF Next, UIStep

LEMMA Invariance == Spec => []IInv
BY InvInit, InvNext, PTL DEF Spec

(***************************************************************************)
(* What the user and the process can rely on                               *)
(***************************************************************************)
\* Every variable of the program keeps its type, whatever goes wrong.
THEOREM Typing == Spec => []TypeOK
<1>1. IInv => TypeOK
  BY DEF IInv
<1> QED
  BY <1>1, Invariance, PTL

\* A load that returned to onCreate has succeeded or has left the lock taken.
THEOREM NoSilentFailure == Spec => []LoadedOrLeaked
<1>1. IInv => LoadedOrLeaked
  BY DEF IInv, Loaded, LoadEnded, LoadedOrLeaked
<1> QED
  BY <1>1, Invariance, PTL

\* Wrong landmarks on the screen are evidence of a picture with an odd side, or of
\* a load that failed in this very process and had got the size of the shape.
THEOREM GarbageTraced == Spec => []GarbageNeedsBrokenLoad
<1>1. IInv => GarbageNeedsBrokenLoad
  BY DEF IInv
<1> QED
  BY <1>1, Invariance, PTL

\* The UI thread hangs only in a process in which an earlier onCreate was able to
\* show something.
THEOREM HangTraced == Spec => []HangNeedsShape
<1>1. IInv => HangNeedsShape
  BY DEF IInv, TypeOK, Lib!TypeOK, Control, LeakedShape, HangNeedsShape, Hung, Lib!Blocked
<1> QED
  BY <1>1, Invariance, PTL

(***************************************************************************)
(* The model file                                                          *)
(***************************************************************************)
\* The copy starts only where there is no file: nothing but the program itself
\* creates one, and nothing of the program runs between the check and the copy.
NoFileToOpen == step = "open" => file = NoFile

LEMMA NativeLeavesFile == Lib!Run(UI) \/ Lib!DetectLandmark(UI) \/ Lib!LoadModel(UI) => file' = file
BY DEF Lib!Run, Lib!Lock, Lib!Open, Lib!OpenFails, Lib!Read, Lib!ReadFails, Lib!Unlock,
       Lib!EvaluateLevel, Lib!EvaluateUndefined, Lib!ReturnLandmarks, Lib!DetectLandmark,
       Lib!LoadModel

\* A model file that is there, whole or not, is never completed or replaced: only
\* its removal or a loss of power changes it, however often the app is started.
THEOREM FileNeverMended == Spec => FileIsFinal
<1>1. Init => NoFileToOpen
  BY DEF Init, NoFileToOpen
<1>2. NoFileToOpen /\ [Next]_vars => NoFileToOpen'
  <2> SUFFICES ASSUME NoFileToOpen, [Next]_vars, step' = "open" PROVE file' = NoFile
    BY DEF NoFileToOpen
  <2>1. CASE CheckExists
    BY <2>1 DEF CheckExists, Goto, fileVars
  <2>2. CASE RemoveFile
    BY <2>2 DEF RemoveFile, FS!RemoveFile
  <2>3. CASE Writeback \/ UNCHANGED vars
    BY <2>3 DEF Writeback, FS!Writeback, vars, fileVars, NoFileToOpen
  <2>4. CASE WriteChunk \/ RunNative
    <3>1. step \in {"copy", "loading", "detecting"} /\ step' = step
      BY <2>4 DEF WriteChunk, RunNative
    <3> QED
      BY <3>1
  <2>5. CASE \/ StartProcess \/ OpenOut \/ EndCopy \/ CopyFails \/ LoadModel \/ LoadReturns
             \/ Decode \/ DetectLandmark \/ ShowLandmarks \/ Recreate
    <3>1. step' # "open"
      BY <2>5 DEF StartProcess, OpenOut, EndCopy, CopyFails, LoadModel, LoadReturns,
                  Decode, DetectLandmark, ShowLandmarks, Recreate, Goto
    <3> QED
      BY <3>1
  <2>6. CASE DecodeFails \/ NoLandmarks \/ NativeFault \/ Kill \/ PowerLoss
    <3>1. step' = "dead"
      BY <2>6 DEF DecodeFails, NoLandmarks, NativeFault, Kill, PowerLoss, Die
    <3> QED
      BY <3>1
  <2> QED
    BY <2>1, <2>2, <2>3, <2>4, <2>5, <2>6 DEF Next, UIStep
<1>3. NoFileToOpen /\ [Next]_vars
        => [file # NoFile /\ out = NoFile => file' \in {file, NoFile} \/ file' = disk]_vars
  <2> SUFFICES ASSUME NoFileToOpen, Next, file # NoFile, out = NoFile
               PROVE  file' \in {file, NoFile} \/ file' = disk
    OBVIOUS
  <2>1. CASE OpenOut
    BY <2>1 DEF OpenOut, Goto, NoFileToOpen
  <2>2. CASE WriteChunk
    <3>1. out \in Nat
      BY <2>2, ItemArithmetic DEF WriteChunk, FS!WriteChunk
    <3> QED
      BY <3>1, NoFileAssumption
  <2>3. CASE RunNative \/ DetectLandmark \/ LoadModel
    BY <2>3, NativeLeavesFile DEF RunNative, DetectLandmark, LoadModel
  <2>4. CASE RemoveFile \/ PowerLoss
    BY <2>4 DEF RemoveFile, FS!RemoveFile, PowerLoss, FS!PowerLoss
  <2>5. CASE DecodeFails \/ NoLandmarks \/ NativeFault \/ Kill \/ EndCopy \/ CopyFails \/ Writeback
    BY <2>5 DEF DecodeFails, NoLandmarks, NativeFault, Kill, EndCopy, CopyFails, Writeback,
                FS!ProcessEnds, FS!EndCopy, FS!CopyFails, FS!Writeback
  <2>6. CASE StartProcess \/ CheckExists \/ LoadReturns \/ Decode \/ ShowLandmarks \/ Recreate
    BY <2>6 DEF StartProcess, CheckExists, LoadReturns, Decode, ShowLandmarks, Recreate, fileVars
  <2> QED
    BY <2>1, <2>2, <2>3, <2>4, <2>5, <2>6 DEF Next, UIStep
<1> QED
  BY <1>1, <1>2, <1>3, PTL DEF Spec, FileIsFinal

(***************************************************************************)
(* Refinement                                                              *)
(***************************************************************************)
\* What holds in addition when nothing goes wrong and the sides of the picture are
\* even: a file that is there is whole unless it is being copied, and the lock is
\* held only by a load under way.
FaultFree ==
  /\ step \in {"dead", "exists"} => file \in {NoFile, Lib!FileLength} /\ out = NoFile
  /\ step = "open" => file = NoFile /\ out = NoFile
  /\ step = "copy" => out \in 0 .. Lib!FileLength /\ file = out
  /\ step \in {"load", "loading", "decode", "detect", "detecting", "idle"} =>
       file = Lib!FileLength /\ out = NoFile
  /\ mutex = UI => Lib!InLoad(UI)
  /\ pc[UI] = "read" => stream[UI] = Lib!FileLength
  /\ step = "idle" => shown = "faithful"
  /\ pc[UI] # "fault"

LEMMA NoFileLength == NoFile \notin 0 .. Lib!FileLength /\ Lib!FileLength # NoFile
BY ItemArithmetic, NoFileAssumption

\* A load that has ended has loaded the model.
LEMMA FaultFreeLoaded == IInv /\ FaultFree /\ LoadEnded => shapePredictor = Lib!Model
BY DEF IInv, Control, Loaded, LoadEnded, FaultFree, Lib!InLoad

\* The picture that a detection is called with has even sides.
LEMMA EvenPicture == ASSUME Pictures = {"even"}, IInv PROVE picture[UI] # "odd"
BY DEF IInv, TypeOK, Lib!TypeOK

LEMMA FaultFreeRun ==
  ASSUME Faults = {}, Pictures = {"even"}, IInv, FaultFree, RunNative
  PROVE  FaultFree'
<1>1. /\ pc \in [{UI} -> Lib!Labels] /\ stream \in [{UI} -> Lib!Lengths]
      /\ mutex \in {UI, NoThread}
  BY DEF IInv, TypeOK, Lib!TypeOK
<1>2. /\ step \in {"loading", "detecting"} /\ file = Lib!FileLength
      /\ UNCHANGED <<step, shown, disk, out>>
  BY DEF RunNative, FaultFree
<1>3. file' = file
  BY NativeLeavesFile DEF RunNative
<1>4. SUFFICES /\ mutex' = UI => pc'[UI] \in {"open", "read"}
               /\ pc'[UI] = "read" => stream'[UI] = Lib!FileLength
               /\ pc'[UI] # "fault"
  BY <1>2, <1>3 DEF FaultFree, Lib!InLoad
<1>5. CASE Lib!Lock(UI)
  BY <1>1, <1>5 DEF Lib!Lock, Lib!Goto
<1>6. CASE Lib!Open(UI)
  BY <1>1, <1>2, <1>6 DEF Lib!Open, Lib!Goto
<1>7. CASE Lib!OpenFails(UI)
  BY <1>2, <1>7, NoFileLength DEF Lib!OpenFails
<1>8. CASE Lib!Read(UI)
  BY <1>8 DEF Lib!Read, FaultFree, Lib!InLoad
<1>9. CASE Lib!ReadFails(UI)
  <2>1. pc[UI] = "read" /\ at[UI] < Lib!FileLength /\ at[UI] >= stream[UI] /\ at[UI] \in Nat
    <3>1. at[UI] \in 0 .. Lib!FileLength
      BY DEF IInv, TypeOK, Lib!TypeOK
    <3> QED
      BY <1>9, <3>1, ItemArithmetic DEF Lib!ReadFails, Lib!BreaksOff, Lib!Goto
  <2>2. stream[UI] = Lib!FileLength
    BY <2>1 DEF FaultFree
  <2> QED
    BY <2>1, <2>2, ItemArithmetic
<1>10. CASE Lib!Unlock(UI)
  BY <1>1, <1>10, UIAssumption DEF Lib!Unlock, Lib!Goto
<1>11. CASE Lib!EvaluateLevel(UI)
  BY <1>11 DEF Lib!EvaluateLevel, FaultFree, Lib!InLoad
<1>12. CASE Lib!EvaluateUndefined(UI)
  <2>1. pc[UI] = "level" /\ at[UI] \in Lib!Levels
    BY <1>12 DEF Lib!EvaluateUndefined
  <2>2. step = "detecting" /\ shapePredictor = Lib!Model
    <3>1. step = "detecting"
      BY <1>2, <2>1 DEF IInv, Control
    <3> QED
      BY <3>1, FaultFreeLoaded DEF LoadEnded
  <2>3. points[UI] = "faithful"
    BY <2>2, EvenPicture DEF IInv, Detecting
  <2>4. ~Lib!Racing(Lib!LevelItems(at[UI]))
    BY <2>1 DEF Lib!Racing
  <2>5. Lib!EvaluateDefined(UI)
    BY <2>1, <2>2, <2>3, ModelLevel DEF Lib!EvaluateDefined
  <2> QED
    BY <1>12, <2>4, <2>5 DEF Lib!EvaluateUndefined
<1>13. CASE Lib!ReturnLandmarks(UI)
  BY <1>1, <1>13 DEF Lib!ReturnLandmarks, Lib!Goto, FaultFree, Lib!InLoad
<1> QED
  BY <1>5, <1>6, <1>7, <1>8, <1>9, <1>10, <1>11, <1>12, <1>13 DEF RunNative, Lib!Run

LEMMA FaultFreeStep ==
  ASSUME Faults = {}, Pictures = {"even"}, IInv, FaultFree, [Next]_vars
  PROVE  FaultFree' /\ [Promise!Next]_phase
<1>1. pc \in [{UI} -> Lib!Labels] /\ mutex \in {UI, NoThread}
  BY DEF IInv, TypeOK, Lib!TypeOK
<1>2. CASE RunNative
  <2>1. UNCHANGED <<step, shown>>
    BY <1>2 DEF RunNative
  <2> QED
    BY <1>2, <2>1, FaultFreeRun DEF phase
<1>3. CASE LoadModel
  <2>1. step = "load" /\ step' = "loading" /\ UNCHANGED <<shown, disk, out, file, mutex, stream>>
    BY <1>3 DEF LoadModel, Goto, Lib!LoadModel
  <2>2. pc[UI] = "idle" /\ pc'[UI] = "lock"
    BY <1>1, <1>3 DEF LoadModel, Lib!LoadModel, Lib!Goto
  <2> QED
    BY <2>1, <2>2 DEF FaultFree, phase, Lib!InLoad
<1>4. CASE DetectLandmark
  <2>1. step = "detect" /\ step' = "detecting" /\ UNCHANGED <<shown, disk, out, file, mutex, stream>>
    BY <1>4 DEF DetectLandmark, Goto, Lib!DetectLandmark
  <2>2. pc[UI] = "idle"
    BY <1>4 DEF DetectLandmark, Lib!DetectLandmark
  <2>3. pc'[UI] = "level"
    <3>1. ~Lib!Racing({Lib!ShapeSize, Lib!ShapeValues})
      BY <2>2 DEF Lib!Racing
    <3> QED
      BY <1>1, <1>4, <3>1 DEF DetectLandmark, Lib!DetectLandmark
  <2> QED
    BY <2>1, <2>2, <2>3 DEF FaultFree, phase, Lib!InLoad
<1>5. CASE StartProcess
  BY <1>5 DEF StartProcess, Goto, fileVars, libVars, FaultFree, phase, Promise!Next,
              Promise!Start, Lib!InLoad
<1>6. CASE CheckExists
  BY <1>6 DEF CheckExists, Goto, fileVars, libVars, FaultFree, phase, Lib!InLoad
<1>7. CASE OpenOut
  <2>1. step = "open" /\ step' = "copy" /\ out' = 0 /\ file' = 0 /\ UNCHANGED <<shown, libVars>>
    BY <1>7 DEF OpenOut, Goto, FS!OpenOut
  <2>2. 0 \in 0 .. Lib!FileLength
    BY ItemArithmetic
  <2> QED
    BY <2>1, <2>2 DEF libVars, FaultFree, phase, Lib!InLoad
<1>8. CASE WriteChunk
  <2>1. step = "copy" /\ step' = "copy" /\ UNCHANGED <<shown, libVars>>
    BY <1>8 DEF WriteChunk
  <2>2. out' \in 0 .. Lib!FileLength /\ file' = out'
    <3>1. out \in 0 .. Lib!FileLength - 1 /\ file = out
      BY <1>8, <2>1 DEF WriteChunk, FS!WriteChunk, FaultFree
    <3>2. file # NoFile /\ out + 1 \in 0 .. Lib!FileLength
      BY <3>1, ItemArithmetic, NoFileAssumption
    <3> QED
      BY <1>8, <3>2 DEF WriteChunk, FS!WriteChunk
  <2> QED
    BY <2>1, <2>2 DEF libVars, FaultFree, phase, Lib!InLoad
<1>9. CASE EndCopy
  BY <1>9 DEF EndCopy, Goto, FS!EndCopy, libVars, FaultFree, phase, Lib!InLoad
<1>10. CASE LoadReturns \/ Decode
  BY <1>10 DEF LoadReturns, Decode, Goto, fileVars, libVars, FaultFree, phase, Lib!InLoad
<1>11. CASE ShowLandmarks
  <2>1. /\ step = "detecting" /\ step' = "idle" /\ shown' = points[UI]
        /\ UNCHANGED <<fileVars, libVars>>
    BY <1>11 DEF ShowLandmarks, Goto
  <2>2. points[UI] = "faithful"
    BY <2>1, FaultFreeLoaded, EvenPicture DEF LoadEnded, IInv, Detecting
  <2> QED
    BY <2>1, <2>2 DEF fileVars, libVars, FaultFree, phase, Promise!Next, Promise!Show, Lib!InLoad
<1>12. CASE NoLandmarks
  <2>1. step = "detecting" /\ points[UI] = "empty"
    BY <1>12 DEF NoLandmarks
  <2>2. points[UI] = "faithful"
    BY <2>1, FaultFreeLoaded, EvenPicture DEF LoadEnded, IInv, Detecting
  <2> QED
    BY <2>1, <2>2
<1>13. CASE NativeFault
  BY <1>13 DEF NativeFault, FaultFree
<1>14. CASE Recreate
  BY <1>14 DEF Recreate, Goto, fileVars, libVars, FaultFree, phase, Promise!Next,
               Promise!Again, Lib!InLoad
<1>15. CASE Kill
  <2>1. ~Lib!Blocked(UI)
    BY <1>1 DEF Lib!Blocked, FaultFree, Lib!InLoad
  <2>2. step = "idle" /\ shown = "faithful" /\ file = Lib!FileLength
    BY <1>15, <2>1 DEF Kill, FaultFree
  <2>3. step' = "dead" /\ mutex' = NoThread /\ pc'[UI] = "idle" /\ out' = NoFile /\ file' = file
    BY <1>15 DEF Kill, Die, FS!ProcessEnds, Lib!Restart
  <2> QED
    BY <2>2, <2>3, UIAssumption DEF FaultFree, phase, Promise!Next, Promise!Leave, Lib!InLoad
<1>16. CASE UNCHANGED vars
  BY <1>16 DEF vars, fileVars, libVars, FaultFree, phase, Lib!InLoad
<1>17. ~(CopyFails \/ DecodeFails \/ PowerLoss \/ RemoveFile \/ Writeback)
  BY DEF CopyFails, DecodeFails, PowerLoss, RemoveFile, Writeback
<1> QED
  BY <1>2, <1>3, <1>4, <1>5, <1>6, <1>7, <1>8, <1>9, <1>10, <1>11, <1>12, <1>13, <1>14, <1>15,
     <1>16, <1>17 DEF Next, UIStep

\* When nothing goes wrong and the sides of the picture are even, every behaviour
\* of the program is, step by step, one that its user is promised: it starts, shows
\* the right landmarks, and so on.
THEOREM KeepsPromiseSafely ==
  ASSUME Faults = {}, Pictures = {"even"}
  PROVE  Spec => Promise!Init /\ [][Promise!Next]_phase
<1>1. Init => FaultFree /\ Promise!Init
  BY UIAssumption DEF Init, FS!FileInit, Lib!LibInit, FaultFree, phase, Promise!Init
<1>2. IInv /\ FaultFree /\ [Next]_vars => FaultFree' /\ [Promise!Next]_phase
  BY FaultFreeStep
<1> QED
  BY <1>1, <1>2, Invariance, PTL DEF Spec
=============================================================================
