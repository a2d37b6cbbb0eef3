\* Everything may go wrong.
CONSTANTS
  UI = UI
  NoThread = NoThread
  NoFile = NoFile
  Cascades = 2
  Pictures = {"even", "odd"}
  Faults <- AllFaults
SPECIFICATION FairSpec
INVARIANTS
  TypeOK
  LoadedOrLeaked
  GarbageNeedsBrokenLoad
  HangNeedsShape
PROPERTIES
  FileIsFinal
  OnCreateEnds
  HangAfterFailure
  WholeFileIsEnough
