\* Colourful pictures of even size.
CONSTANTS
  Sizes <- SmallEven
  Colours <- TwoColours
  Strays <- AnyByte
SPECIFICATION Spec
CHECK_DEADLOCK FALSE
INVARIANT
  InterleavedVU
