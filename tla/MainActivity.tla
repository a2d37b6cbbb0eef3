----------------------------- MODULE MainActivity -----------------------------
(***************************************************************************)
(* MainActivity.onCreate and the life of its process: the model file is    *)
(* copied once, the native library loads it, and the landmarks it finds in *)
(* the picture are shown.  This module composes ModelFile and NativeLib;   *)
(* everything in the process runs on the one UI thread.                    *)
(*                                                                         *)
(* The process and the file outlive the activity: a rotation or a return   *)
(* to the app runs onCreate again in the same process.                     *)
(***************************************************************************)
EXTENDS Naturals

CONSTANTS
  Cascades,   \* as in ShapePredictor
  UI,         \* the UI thread
  NoThread,   \* the owner of a free mutex
  NoFile,     \* the length of a file that does not exist
  Pictures,   \* the sides of the pictures, as in NativeLib
  Faults      \* what may go wrong

ASSUME CascadesAssumption == Cascades \in Nat \ {0}
ASSUME UIAssumption       == UI # NoThread
ASSUME NoFileAssumption   == NoFile \notin Nat
ASSUME PicturesAssumption == Pictures \subseteq {"even", "odd"} /\ Pictures # {}

(***************************************************************************)
(* "io"      the copy fails, or the model file does not open or is not     *)
(*           read to its end although it is there                          *)
(* "kill"    the process is killed at any time, not only when idle or hung *)
(* "power"   the device loses power                                        *)
(* "remove"  the model file is removed                                     *)
(* "decode"  the picture cannot be decoded                                 *)
(***************************************************************************)
ASSUME FaultsAssumption == Faults \subseteq {"io", "kill", "power", "remove", "decode"}

VARIABLES
  step,    \* where onCreate is, "idle" after it, "dead" without a process
  shown,   \* what the user sees
  file, disk, out,                                    \* see ModelFile
  mutex, shapePredictor, pc, at, stream,              \* see NativeLib
  points, picture, beside

Lib == INSTANCE NativeLib WITH Threads <- {UI}, StreamErrors <- "io" \in Faults
FS  == INSTANCE ModelFile WITH FileLength <- Lib!FileLength

fileVars == <<file, disk, out>>
libVars  == <<mutex, shapePredictor, pc, at, stream, points, picture, beside>>
vars     == <<step, shown, fileVars, libVars>>

Steps == {"dead", "exists", "open", "copy", "load", "loading",
          "decode", "detect", "detecting", "idle"}

TypeOK ==
  /\ step \in Steps
  /\ shown \in {"nothing", "garbage", "faithful"}
  /\ FS!FileTypeOK
  /\ Lib!TypeOK

Init ==
  /\ step = "dead"
  /\ shown = "nothing"
  /\ FS!FileInit
  /\ Lib!LibInit

Goto(from, to) == step = from /\ step' = to

Die == step' = "dead" /\ shown' = "nothing" /\ Lib!Restart

(***************************************************************************)
(* onCreate                                                                *)
(***************************************************************************)
\* The system starts a process, loads the library and creates the activity.
StartProcess ==
  /\ Goto("dead", "exists")
  /\ UNCHANGED <<shown, fileVars, libVars>>

\* A faulty variant: the result of exists() is not used.
CheckExistsIgnored ==
  /\ Goto("exists", "open")
  /\ UNCHANGED <<shown, fileVars, libVars>>

CheckExists ==
  /\ Goto("exists", IF file = NoFile THEN "open" ELSE "load")
  /\ UNCHANGED <<shown, fileVars, libVars>>

OpenOut ==
  /\ Goto("open", "copy")
  /\ FS!OpenOut
  /\ UNCHANGED <<shown, libVars>>

WriteChunk ==
  /\ step = "copy"
  /\ FS!WriteChunk
  /\ UNCHANGED <<step, shown, libVars>>

EndCopy ==
  /\ Goto("copy", "load")
  /\ FS!EndCopy
  /\ UNCHANGED <<shown, libVars>>

\* onCreate goes on as if the copy were there.
CopyFails ==
  /\ "io" \in Faults
  /\ Goto("open", "load") \/ Goto("copy", "load")
  /\ FS!CopyFails
  /\ UNCHANGED <<shown, libVars>>

\* A faulty variant: the model is loaded once per process, successfully or not.
LoadModelOnce ==
  \/ /\ Goto("load", "loading")
     /\ points[UI] = "none"
     /\ Lib!LoadModel(UI)
     /\ UNCHANGED <<shown, disk, out>>
  \/ /\ Goto("load", "decode")
     /\ points[UI] # "none"
     /\ UNCHANGED <<shown, fileVars, libVars>>

LoadModel ==
  /\ Goto("load", "loading")
  /\ Lib!LoadModel(UI)
  /\ UNCHANGED <<shown, disk, out>>

\* A faulty variant: the model is loaded in the background.
LoadReturnsEarly ==
  /\ Goto("loading", "decode")
  /\ UNCHANGED <<shown, fileVars, libVars>>

\* A faulty variant: onCreate waits for a load that succeeds.
LoadReturnsLoaded ==
  /\ Goto("loading", "decode")
  /\ pc[UI] = "idle" /\ mutex = NoThread
  /\ UNCHANGED <<shown, fileVars, libVars>>

\* loadModel returns nothing and throws nothing, so onCreate goes on in any case.
LoadReturns ==
  /\ Goto("loading", "decode")
  /\ pc[UI] = "idle"
  /\ UNCHANGED <<shown, fileVars, libVars>>

Decode ==
  /\ Goto("decode", "detect")
  /\ UNCHANGED <<shown, fileVars, libVars>>

\* decodeResource returns null: b.copy throws.
DecodeFails ==
  /\ "decode" \in Faults
  /\ step = "decode"
  /\ Die
  /\ FS!ProcessEnds

DetectLandmark ==
  /\ Goto("detect", "detecting")
  /\ Lib!DetectLandmark(UI)
  /\ UNCHANGED <<shown, disk, out>>

\* A faulty variant: the first landmark is not looked at, an empty array is drawn.
ShowNoLandmarks ==
  /\ Goto("detecting", "idle")
  /\ pc[UI] = "idle"
  /\ shown' = IF points[UI] = "empty" THEN "nothing" ELSE points[UI]
  /\ UNCHANGED <<fileVars, libVars>>

ShowLandmarks ==
  /\ Goto("detecting", "idle")
  /\ pc[UI] = "idle" /\ points[UI] # "empty"
  /\ shown' = points[UI]
  /\ UNCHANGED <<fileVars, libVars>>

\* landmarks[0] of an empty array throws, and nothing catches it.
NoLandmarks ==
  /\ step = "detecting"
  /\ pc[UI] = "idle" /\ points[UI] = "empty"
  /\ Die
  /\ FS!ProcessEnds

RunNative ==
  /\ step \in {"loading", "detecting"}
  /\ Lib!Run(UI)
  /\ UNCHANGED <<step, shown, disk, out>>

\* A signal in the library ends the process.
NativeFault ==
  /\ pc[UI] = "fault"
  /\ Die
  /\ FS!ProcessEnds

(***************************************************************************)
(* The system and the user                                                 *)
(***************************************************************************)
\* The activity is created again in a process that is still there.
Recreate ==
  /\ Goto("idle", "exists")
  /\ shown' = "nothing"
  /\ UNCHANGED <<fileVars, libVars>>

\* The system reclaims or the user ends an idle process, or one that hangs.
Kill ==
  /\ step # "dead"
  /\ step = "idle" \/ Lib!Blocked(UI) \/ "kill" \in Faults
  /\ Die
  /\ FS!ProcessEnds

PowerLoss ==
  /\ "power" \in Faults
  /\ Die
  /\ FS!PowerLoss

RemoveFile ==
  /\ "remove" \in Faults
  /\ FS!RemoveFile
  /\ UNCHANGED <<step, shown, libVars>>

Writeback ==
  /\ "power" \in Faults
  /\ FS!Writeback
  /\ UNCHANGED <<step, shown, libVars>>

(***************************************************************************)
(* The UI thread runs whenever it can; nobody has to start, recreate or    *)
(* kill anything, and no fault has to happen.                              *)
(***************************************************************************)
UIStep ==
  \/ CheckExists \/ OpenOut \/ WriteChunk \/ EndCopy \/ CopyFails
  \/ LoadModel \/ LoadReturns \/ Decode \/ DecodeFails
  \/ DetectLandmark \/ ShowLandmarks \/ NoLandmarks
  \/ RunNative \/ NativeFault

Next ==
  \/ UIStep
  \/ StartProcess \/ Recreate \/ Kill
  \/ PowerLoss \/ RemoveFile \/ Writeback

Spec == Init /\ [][Next]_vars

FairSpec == Spec /\ WF_vars(UIStep)

(***************************************************************************)
(* Safety                                                                  *)
(***************************************************************************)
Hung == Lib!Blocked(UI)

\* Once loadModel has returned to onCreate, either the whole model is loaded or
\* _mutex was left locked: no failure is both survived and forgotten.
LoadedOrLeaked ==
  step \in {"decode", "detect", "detecting", "idle"} =>
    mutex = UI \/ shapePredictor = Lib!Model

\* Wrong landmarks are shown only for a picture with an odd side, or after a load
\* of this very process that got at least the size of the shape, but not the whole
\* model, out of the file: because the file was cut off there, or a read failed.
GarbageNeedsBrokenLoad ==
  shown = "garbage" =>
    picture[UI] = "odd" \/ (mutex = UI /\ stream[UI] \in 2 .. Lib!FileLength - 1)

\* The UI thread hangs in loadModel only if an earlier onCreate of the process
\* got as far as a shape: otherwise landmarks[0] has ended the process before.
HangNeedsShape == Hung => shapePredictor[Lib!ShapeSize] = "full"

\* A model file that is there is never mended by the program: while no copy is
\* under way only its removal or a loss of power changes it, whole or not.
FileIsFinal ==
  [][file # NoFile /\ out = NoFile => file' \in {file, NoFile} \/ file' = disk]_vars

(***************************************************************************)
(* Liveness                                                                *)
(***************************************************************************)
\* onCreate ends: it returns, the process dies, or it hangs on _mutex.
OnCreateEnds == (step = "exists") ~> (step \in {"idle", "dead"} \/ Hung)

\* Once a load has failed, the next onCreate of the process never gets through:
\* it hangs, unless the process dies.
HangAfterFailure ==
  (step = "exists" /\ mutex = UI) ~> (Hung \/ step = "dead")

\* A whole file is enough: with a free lock, onCreate ends with the right landmarks
\* on the screen unless the file or the process goes away meanwhile, the file does
\* not open or is not read to its end, or the picture has an odd side.
WholeFileIsEnough ==
  (step = "exists" /\ file = Lib!FileLength /\ mutex = NoThread) ~>
    \/ step = "idle" /\ (shown = "faithful" \/ picture[UI] = "odd")
    \/ step = "dead" \/ file # Lib!FileLength
    \/ Lib!Leaked /\ stream[UI] # Lib!FileLength

(***************************************************************************)
(* What comments of the repository say, and what does not hold             *)
(***************************************************************************)
\* Native.kt: loadModel is to "load the specified landmark model", after which
\* its caller goes on.
LoadModelReturns == (step = "loading") ~> (step # "loading")

\* serialize.h: when deserialize() throws, "item will have an initial value for
\* its type"; a shape_predictor has that value when it is constructed.
FailedLoadLeavesInitialValue == Lib!Leaked => shapePredictor = Lib!Fresh

\* shape_predictor.h: extract_feature_pixel_values and the trees require that
\* the sizes of the vectors agree and that every index is in range.
DetectMeetsRequirements ==
  pc[UI] = "level" /\ Lib!MoreLevels(UI) => Lib!EvaluateDefined(UI)

(***************************************************************************)
(* When nothing goes wrong and the sides of the picture are even, the      *)
(* program does what its user is promised.                                 *)
(***************************************************************************)
phase ==
  IF step = "dead" THEN "off"
  ELSE IF step # "idle" THEN "starting"
  ELSE IF shown = "faithful" THEN "showing" ELSE "wrong"

Promise == INSTANCE Landmarks

KeepsPromise == Promise!Spec
=============================================================================
