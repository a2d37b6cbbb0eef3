\* The device may lose power.
CONSTANTS
  UI = UI
  NoThread = NoThread
  NoFile = NoFile
  Cascades = 1
  Pictures = {"even"}
  Faults <- PowerOnly
SPECIFICATION Spec
INVARIANT
  DetectMeetsRequirements
