\* The process may be killed while it copies the model.
CONSTANTS
  UI = UI
  NoThread = NoThread
  NoFile = NoFile
  Cascades = 1
  Pictures = {"even"}
  Faults <- KillOnly
SPECIFICATION FairSpec
PROPERTY
  LoadModelReturns
