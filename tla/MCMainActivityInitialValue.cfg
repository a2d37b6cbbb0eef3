\* Assets, files and streams may fail.
CONSTANTS
  UI = UI
  NoThread = NoThread
  NoFile = NoFile
  Cascades = 1
  Pictures = {"even"}
  Faults <- IOOnly
SPECIFICATION Spec
INVARIANT
  FailedLoadLeavesInitialValue
