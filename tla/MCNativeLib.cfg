\* Two threads that load and detect in any order while the file changes.
CONSTANTS
  T1 = T1
  T2 = T2
  Threads <- MCThreads
  NoThread = NoThread
  NoFile = NoFile
  Cascades = 1
  Pictures = {"even", "odd"}
  StreamErrors = TRUE
SYMMETRY Symmetry
SPECIFICATION Spec
INVARIANTS
  TypeOK
  OneLoader
  ReadSoFar
  FreeMeansWhole
  SafeAlone
PROPERTIES
  LeakIsFinal
