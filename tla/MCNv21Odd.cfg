\* Pictures of odd height.
CONSTANTS
  Sizes <- TallOdd
  Colours <- TwoColours
  Strays <- AnyByte
SPECIFICATION Spec
CHECK_DEADLOCK FALSE
INVARIANT
  ChromaFitsPlanes
