\* Nothing goes wrong, and the picture has even sides.
CONSTANTS
  UI = UI
  NoThread = NoThread
  NoFile = NoFile
  Cascades = 10
  Pictures = {"even"}
  Faults <- NoFaults
SPECIFICATION FairSpec
PROPERTY
  KeepsPromise
