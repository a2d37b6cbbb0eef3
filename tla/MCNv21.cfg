\* Pictures of two colours in sizes up to 3 x 3, 2 x 5 and 6 x 2, of ten in 2 x 2.
CONSTANTS
  Sizes <- Grid
  Colours <- TenColours
  Strays <- AnyByte
SPECIFICATION MCSpec
CHECK_DEADLOCK FALSE
INVARIANTS
  TypeOK
  EvenStaysInside
  OddGoesOutside
  PlanarLayout
  GreyStaysGrey
  NeverGreen
