------------------------------ MODULE Nv21_proofs ------------------------------
(***************************************************************************)
(* Theorems about the image conversions, for pictures of every size.       *)
(***************************************************************************)
EXTENDS Nv21, TLAPS

(***************************************************************************)
(* Products                                                                *)
(***************************************************************************)
LEMMA ProductNat == ASSUME NEW m \in Nat, NEW n \in Nat PROVE m * n \in Nat
  BY SMT

LEMMA ProductMonotonic ==
  ASSUME NEW k \in Nat, NEW m \in Nat, NEW n \in Nat, k <= m
  PROVE  k * n <= m * n
<1>1. PICK d \in Nat : m = k + d
  <2>1. m - k \in Nat /\ m = k + (m - k)
    BY SMT
  <2> QED BY <2>1
<1>2. m * n = k * n + d * n
  BY <1>1, SMT
<1>3. d * n \in Nat /\ k * n \in Nat
  BY ProductNat
<1> QED BY <1>2, <1>3, SMT

\* A cell of a grid has an index within the grid.
LEMMA CellInGrid ==
  ASSUME NEW w \in Nat \ {0}, NEW h \in Nat \ {0},
         NEW r \in 0 .. h - 1, NEW c \in 0 .. w - 1
  PROVE  r * w + c \in 0 .. w * h - 1
<1>1. r * w <= (h - 1) * w
  <2>1. r \in Nat /\ h - 1 \in Nat /\ w \in Nat /\ r <= h - 1
    BY SMT
  <2> QED BY <2>1, ProductMonotonic
<1>2. (h - 1) * w = w * h - w
  BY SMT
<1>3. r * w \in Nat /\ w * h \in Nat
  BY ProductNat
<1> QED BY <1>1, <1>2, <1>3, SMT

(***************************************************************************)
(* Colour arithmetic                                                       *)
(***************************************************************************)
\* No sample of a pixel needs to be clamped.
LEMMA SampleRanges ==
  ASSUME NEW p \in Pixels
  PROVE  Y(p) \in 16 .. 235 /\ U(p) \in 16 .. 240 /\ V(p) \in 16 .. 240
<1> DEFINE r == p.red
           g == p.green
           b == p.blue
<1>1. r \in 0 .. 255 /\ g \in 0 .. 255 /\ b \in 0 .. 255
  BY DEF Pixels, Channel
<1> HIDE DEF r, g, b
<1>2. (66 * r + 129 * g + 25 * b + 128) \div 256 \in 0 .. 219
  BY <1>1, SMT
<1>3. (-38 * r - 74 * g + 112 * b + 128) \div 256 \in -112 .. 112
  BY <1>1, SMT
<1>4. (112 * r - 94 * g - 18 * b + 128) \div 256 \in -112 .. 112
  BY <1>1, SMT
<1> QED BY <1>2, <1>3, <1>4, SMT DEF Y, U, V, r, g, b

LEMMA SignedByte == ASSUME NEW x \in Int PROVE Signed(Clamp(x)) \in Bytes
  BY SMT DEF Signed, Clamp, Bytes

LEMMA MaskedRange ==
  ASSUME NEW b \in Bytes, NEW n \in Nat PROVE Masked(b, n) \in 0 .. 255
  BY SMT DEF Masked, Bytes

LEMMA ScaledRange == ASSUME NEW x \in Int PROVE Scaled(x) \in Channel
  BY SMT DEF Scaled, Channel

LEMMA ScaledMonotonic ==
  ASSUME NEW x \in Int, NEW y \in Int, x <= y PROVE Scaled(x) <= Scaled(y)
  BY SMT DEF Scaled

LEMMA DecodedPixel ==
  ASSUME NEW y \in Bytes, NEW v \in Bytes, NEW u \in Bytes
  PROVE  /\ Decoded(y, v, u) \in Pixels
         /\ Decoded(y, v, u).green <= Decoded(y, v, u).red
         /\ Decoded(y, v, u).green <= Decoded(y, v, u).blue
<1> DEFINE yy == Masked(y, 16)
           vv == Masked(v, 128)
           uu == Masked(u, 128)
<1>1. yy \in 0 .. 255 /\ vv \in 0 .. 255 /\ uu \in 0 .. 255
  BY MaskedRange
<1> HIDE DEF yy, vv, uu
<1> DEFINE r == 1164 * yy + 1596 * vv
           g == 1164 * yy - 813 * vv - 391 * uu
           b == 1164 * yy + 2018 * uu
<1>2. r \in Int /\ g \in Int /\ b \in Int /\ g <= r /\ g <= b
  BY <1>1, SMT
<1>3. Decoded(y, v, u) = [red |-> Scaled(r), green |-> Scaled(g), blue |-> Scaled(b)]
  BY DEF Decoded, yy, vv, uu
<1> HIDE DEF r, g, b
<1>4. Scaled(r) \in Channel /\ Scaled(g) \in Channel /\ Scaled(b) \in Channel
  BY <1>2, ScaledRange
<1>5. Scaled(g) <= Scaled(r) /\ Scaled(g) <= Scaled(b)
  BY <1>2, ScaledMonotonic
<1> QED BY <1>3, <1>4, <1>5 DEF Pixels

\* The samples of a grey, and what they are decoded to.
LEMMA GreySamples ==
  ASSUME NEW p \in Pixels, Grey(p)
  PROVE  /\ Signed(Clamp(U(p))) = -128
         /\ Signed(Clamp(V(p))) = -128
         /\ LET q == Decoded(Signed(Clamp(Y(p))), -128, -128)
            IN  Grey(q) /\ q.red - p.red \in -1 .. 1
<1> DEFINE g == p.red
           x == (220 * g + 128) \div 256
<1>1. g \in 0 .. 255 /\ p.green = g /\ p.blue = g
  BY DEF Pixels, Channel, Grey
<1>2. U(p) = 128 /\ V(p) = 128 /\ Y(p) = x + 16
  BY <1>1, SMT DEF U, V, Y
<1>3. x \in 0 .. 219
  BY <1>1, SMT
<1> HIDE DEF x
<1>4. Signed(Clamp(128)) = -128 /\ Masked(-128, 128) = 0
  BY SMT DEF Signed, Clamp, Masked
<1>5. Masked(Signed(Clamp(x + 16)), 16) = x
  BY <1>3, SMT DEF Signed, Clamp, Masked
<1>6. Scaled(1164 * x) - g \in -1 .. 1
  <2>1. Scaled(1164 * x) = (1164 * x) \div 1000
    BY <1>3, SMT DEF Scaled
  <2>2. 256 * x <= 220 * g + 128 /\ 220 * g + 128 < 256 * x + 256
    BY <1>1, SMT DEF x
  <2> QED BY <1>1, <1>3, <2>1, <2>2, SMT
<1>7. Decoded(Signed(Clamp(Y(p))), -128, -128) =
        [red |-> Scaled(1164 * x), green |-> Scaled(1164 * x), blue |-> Scaled(1164 * x)]
  <2>1. /\ 1164 * x + 1596 * 0 = 1164 * x
        /\ 1164 * x - 813 * 0 - 391 * 0 = 1164 * x
        /\ 1164 * x + 2018 * 0 = 1164 * x
    BY <1>3, SMT
  <2> QED BY <1>2, <1>4, <1>5, <2>1 DEF Decoded
<1> QED BY <1>2, <1>4, <1>6, <1>7 DEF Grey

(***************************************************************************)
(* Type correctness                                                        *)
(***************************************************************************)
LEMMA SizeNat ==
  ASSUME <<width, height>> \in Sizes
  PROVE  /\ width \in Nat \ {0} /\ height \in Nat \ {0}
         /\ frameSize \in Nat /\ ArrayLength \in Nat /\ FirstV \in Nat
         /\ frameSize <= ArrayLength
<1>1. width \in Nat \ {0} /\ height \in Nat \ {0}
  BY SizesAssumption
<1>2. frameSize \in Nat
  BY <1>1, ProductNat DEF frameSize
<1> QED BY <1>1, <1>2, SMT DEF ArrayLength, FirstV

LEMMA IndexInFrame == TypeOK => index \in 0 .. frameSize - 1
  BY SizeNat, CellInGrid DEF TypeOK, index, frameSize

LEMMA IndexInArray == ASSUME TypeOK PROVE index \in 0 .. ArrayLength - 1
<1>1. frameSize \in Nat /\ ArrayLength \in Nat /\ frameSize <= ArrayLength
  BY SizeNat DEF TypeOK
<1> QED BY <1>1, IndexInFrame, SMT

\* The three ways in which the nested loops go on.
LEMMA AdvanceCases ==
  ASSUME TypeOK, UNCHANGED picture, NEW next, Advance(next)
  PROVE  \/ /\ column + 1 < width /\ row' = row /\ column' = column + 1
            /\ pc' = pc /\ index' = index + 1
         \/ /\ column + 1 = width /\ row + 1 < height /\ row' = row + 1 /\ column' = 0
            /\ pc' = pc /\ index' = index + 1
         \/ /\ column + 1 = width /\ row + 1 = height /\ row' = 0 /\ column' = 0
            /\ pc' = next /\ index' = 0 /\ index + 1 = frameSize
<1>1. /\ width \in Nat \ {0} /\ height \in Nat \ {0} /\ width' = width
      /\ row \in 0 .. height - 1 /\ column \in 0 .. width - 1
  BY SizeNat DEF TypeOK, picture
<1>2. CASE column + 1 < width
  <2>1. row' = row /\ column' = column + 1 /\ pc' = pc
    BY <1>2 DEF Advance
  <2>2. row * width \in Nat
    BY <1>1, ProductNat
  <2>3. index' = row * width + (column + 1)
    BY <1>1, <2>1 DEF index
  <2> QED BY <1>1, <1>2, <2>1, <2>2, <2>3, SMT DEF index
<1>3. CASE column + 1 = width /\ row + 1 < height
  <2>1. row' = row + 1 /\ column' = 0 /\ pc' = pc
    BY <1>1, <1>3, SMT DEF Advance
  <2>2. (row + 1) * width + 0 = row * width + column + 1
    BY <1>1, <1>3, SMT
  <2> QED BY <1>1, <1>3, <2>1, <2>2 DEF index
<1>4. CASE column + 1 = width /\ row + 1 = height
  <2>1. row' = 0 /\ column' = 0 /\ pc' = next
    BY <1>1, <1>4, SMT DEF Advance
  <2>2. 0 * width + 0 = 0
    BY <1>1, SMT
  <2>3. row * width + column + 1 = width * height
    <3>1. row = height - 1 /\ column = width - 1
      BY <1>1, <1>4, SMT
    <3> QED BY <1>1, <3>1, SMT
  <2> QED BY <1>1, <1>4, <2>1, <2>2, <2>3 DEF index, frameSize
<1> QED BY <1>1, <1>2, <1>3, <1>4, SMT

LEMMA AdvanceType ==
  ASSUME TypeOK, UNCHANGED picture, NEW next \in {"decode", "done"}, Advance(next)
  PROVE  /\ row' \in 0 .. height' - 1 /\ column' \in 0 .. width' - 1
         /\ pc' \in {"encode", "decode", "done", "fault"}
<1>1. /\ width \in Nat \ {0} /\ height \in Nat \ {0} /\ width' = width /\ height' = height
      /\ row \in 0 .. height - 1 /\ column \in 0 .. width - 1
      /\ pc \in {"encode", "decode", "done", "fault"}
  BY SizeNat DEF TypeOK, picture
<1> QED BY <1>1, AdvanceCases, SMT

LEMMA SampleBytes == ASSUME TypeOK, NEW k PROVE Sample(k) \subseteq Bytes
  BY StraysAssumption DEF TypeOK, Sample

\* The variables hold values of their types, for pictures of every size.
THEOREM Typing == Spec => []TypeOK
<1>1. Init => TypeOK
  <2> SUFFICES ASSUME Init PROVE TypeOK
    OBVIOUS
  <2>1. <<width, height>> \in Sizes
    <3>1. PICK size \in Sizes : width = size[1] /\ height = size[2]
      BY DEF Init, Picture
    <3>2. size = <<size[1], size[2]>>
      BY SizesAssumption
    <3> QED BY <3>1, <3>2
  <2>2. /\ width \in Nat \ {0} /\ height \in Nat \ {0}
        /\ frameSize \in Nat /\ FirstV \in Nat
    BY <2>1, SizeNat
  <2>3. row \in 0 .. height - 1 /\ column \in 0 .. width - 1
    BY <2>2, SMT DEF Init
  <2>4. yuv \in [0 .. ArrayLength - 1 -> Bytes]
    BY DEF Init, Bytes
  <2>5. out \in Seq(Pixels) /\ outside \in BOOLEAN /\ pc \in {"encode", "decode", "done", "fault"}
    <3>1. <<>> \in Seq(Pixels)
      BY SMT
    <3> QED BY <3>1, Zenon DEF Init
  <2>6. uIndex \in Nat /\ vIndex \in Nat
    BY <2>2 DEF Init
  <2>7. argbPixels \in [0 .. frameSize - 1 -> Colours]
    BY DEF Init, Picture
  <2> QED BY <2>1, <2>3, <2>4, <2>5, <2>6, <2>7 DEF TypeOK
<1>2. TypeOK /\ [Next]_vars => TypeOK'
  <2> SUFFICES ASSUME TypeOK, [Next]_vars PROVE TypeOK'
    OBVIOUS
  <2>1. CASE Encode
    <3>1. UNCHANGED <<picture, out>> /\ pc = "encode"
      BY <2>1 DEF Encode
    <3>2. frameSize' = frameSize /\ ArrayLength' = ArrayLength
      BY <3>1 DEF picture, frameSize, ArrayLength
    <3>3. argbPixels[index] \in Pixels
      BY IndexInFrame, ColoursAssumption DEF TypeOK
    <3>4. /\ Signed(Clamp(Y(argbPixels[index]))) \in Bytes
          /\ Signed(Clamp(U(argbPixels[index]))) \in Bytes
          /\ Signed(Clamp(V(argbPixels[index]))) \in Bytes
      <4>1. /\ Y(argbPixels[index]) \in Int /\ U(argbPixels[index]) \in Int
            /\ V(argbPixels[index]) \in Int
        BY <3>3, SampleRanges
      <4> QED BY <4>1, SignedByte
    <3>5. yuv' \in [0 .. ArrayLength - 1 -> Bytes]
      BY <2>1, <3>4 DEF Encode, TypeOK
    <3>6. outside' \in BOOLEAN /\ uIndex' \in Nat /\ vIndex' \in Nat
      <4>1. uIndex' \in Nat /\ vIndex' \in Nat
        BY <2>1, SMT DEF Encode, TypeOK
      <4>2. outside' \in BOOLEAN
        BY <2>1 DEF Encode, TypeOK
      <4> QED BY <4>1, <4>2
    <3>7. Advance("decode")
      BY <2>1 DEF Encode
    <3> QED BY <3>1, <3>2, <3>5, <3>6, <3>7, AdvanceType DEF TypeOK, picture
  <2>2. CASE Decode
    <3>1. UNCHANGED <<picture, yuv, uIndex, vIndex>> /\ pc = "decode" /\ Advance("done")
      BY <2>2 DEF Decode
    <3>2. frameSize' = frameSize /\ ArrayLength' = ArrayLength
      BY <3>1 DEF picture, frameSize, ArrayLength
    <3>3. out' \in Seq(Pixels)
      <4>1. PICK v \in Sample(uvIndex), u \in Sample(uvIndex + 1) :
              out' = Append(out, Decoded(yuv[index], v, u))
        BY <2>2 DEF Decode
      <4>2. v \in Bytes /\ u \in Bytes /\ yuv[index] \in Bytes
        <5>1. index \in 0 .. ArrayLength - 1
          BY IndexInArray
        <5> QED BY <4>1, <5>1, SampleBytes DEF TypeOK
      <4>3. Decoded(yuv[index], v, u) \in Pixels
        BY <4>2, DecodedPixel
      <4> QED BY <4>1, <4>3 DEF TypeOK
    <3>4. outside' \in BOOLEAN
      BY <2>2 DEF Decode, TypeOK
    <3> QED BY <3>1, <3>2, <3>3, <3>4, AdvanceType DEF TypeOK, picture
  <2>3. CASE Fault
    BY <2>3 DEF Fault, TypeOK, picture, frameSize, ArrayLength
  <2>4. CASE UNCHANGED vars
    BY <2>4 DEF vars, TypeOK, picture, frameSize, ArrayLength
  <2> QED BY <2>1, <2>2, <2>3, <2>4 DEF Next
<1> QED BY <1>1, <1>2, PTL DEF Spec

(***************************************************************************)
(* Indices                                                                 *)
(***************************************************************************)
LEMMA OddHalves ==
  ASSUME NEW n \in Nat
  PROVE  \E k \in Nat : n = 2 * k \/ n = 2 * k + 1
<1>1. n \div 2 \in Nat /\ (n = 2 * (n \div 2) \/ n = 2 * (n \div 2) + 1)
  BY SMT
<1> QED BY <1>1

\* All sizes and starts of the planes, in units of one chroma plane.
LEMMA EvenPlanes ==
  ASSUME <<width, height>> \in Sizes, Even
  PROVE  \E a \in Nat \ {0}, b \in Nat \ {0} :
           /\ width = 2 * a /\ height = 2 * b /\ a * b \in Nat
           /\ frameSize = 4 * (a * b) /\ ArrayLength = 6 * (a * b) /\ FirstV = 5 * (a * b)
<1>1. width \in Nat \ {0} /\ height \in Nat \ {0}
  BY SizeNat
<1>2. PICK a \in Nat \ {0} : width = 2 * a
  <2>1. width \div 2 \in Nat \ {0} /\ width = 2 * (width \div 2)
    BY <1>1, SMT DEF Even
  <2> QED BY <2>1
<1>3. PICK b \in Nat \ {0} : height = 2 * b
  <2>1. height \div 2 \in Nat \ {0} /\ height = 2 * (height \div 2)
    BY <1>1, SMT DEF Even
  <2> QED BY <2>1
<1>4. width * height = 4 * (a * b)
  BY <1>2, <1>3, SMT
<1>5. PICK m \in Nat : m = a * b
  BY ProductNat
<1>6. frameSize = 4 * m
  BY <1>4, <1>5 DEF frameSize
<1>7. ArrayLength = 6 * m
  BY <1>5, <1>6, SMT DEF ArrayLength
<1>8. FirstV = 5 * m
  BY <1>5, <1>6, <1>7, SMT DEF FirstV
<1> QED BY <1>2, <1>3, <1>5, <1>6, <1>7, <1>8

\* How many samples the encoder has put into either chroma plane.
Samples ==
  ((row + 1) \div 2) * (width \div 2) + (IF row % 2 = 0 THEN (column + 1) \div 2 ELSE 0)

LEMMA SamplesNat == ASSUME TypeOK PROVE Samples \in Nat
<1>1. width \in Nat /\ row \in Nat /\ column \in Nat
  <2>1. width \in Nat \ {0} /\ height \in Nat \ {0}
    BY SizeNat DEF TypeOK
  <2> QED BY <2>1, SMT DEF TypeOK
<1>2. (row + 1) \div 2 \in Nat /\ width \div 2 \in Nat /\ (column + 1) \div 2 \in Nat
  BY <1>1, SMT
<1>3. ((row + 1) \div 2) * (width \div 2) \in Nat
  BY <1>2, ProductNat
<1> QED BY <1>2, <1>3 DEF Samples

SamplesPlaced ==
  /\ pc = "encode" /\ Even => uIndex = frameSize + Samples /\ vIndex = FirstV + Samples
  /\ pc = "decode" /\ Even => uIndex = FirstV /\ vIndex = ArrayLength

\* A picture of even size has room for the samples of the next round.
LEMMA SamplesFit ==
  ASSUME TypeOK, Even, Sampled
  PROVE  Samples < frameSize \div 4
<1>1. PICK a \in Nat \ {0}, b \in Nat \ {0} :
        width = 2 * a /\ height = 2 * b /\ a * b \in Nat /\ frameSize = 4 * (a * b)
  BY EvenPlanes DEF TypeOK
<1>2. row \in 0 .. 2 * b - 1 /\ column \in 0 .. 2 * a - 1
  BY <1>1 DEF TypeOK
<1>3. row % 2 = 0 /\ column % 2 = 0
  <2>1. index = 2 * (row * a) + column
    BY <1>1, <1>2, SMT DEF index
  <2>2. row * a \in Nat
    BY <1>1, <1>2, ProductNat
  <2>3. row % 2 = 0 /\ index % 2 = 0
    BY DEF Sampled
  <2> HIDE DEF index
  <2> QED BY <1>2, <2>1, <2>2, <2>3, SMT
<1>4. PICK r \in Nat : row = 2 * r
  <2>1. row \div 2 \in Nat /\ row = 2 * (row \div 2)
    BY <1>2, <1>3, SMT
  <2> QED BY <2>1
<1>5. r <= b - 1 /\ b - 1 \in Nat
  BY <1>1, <1>2, <1>4, SMT
<1>6. r * a <= (b - 1) * a
  BY <1>1, <1>5, ProductMonotonic
<1>7. (b - 1) * a = a * b - a
  BY <1>1, SMT
<1>8. Samples = r * a + (column + 1) \div 2
  <2>1. (row + 1) \div 2 = r /\ width \div 2 = a
    BY <1>1, <1>4, SMT
  <2> QED BY <1>3, <2>1 DEF Samples
<1>9. (column + 1) \div 2 <= a - 1
  BY <1>1, <1>2, <1>3, SMT
<1>10. PICK x \in Nat : x = r * a
  BY <1>1, ProductNat
<1>11. PICK m \in Nat : m = a * b
  BY <1>1
<1>12. x <= m - a /\ Samples = x + (column + 1) \div 2 /\ frameSize = 4 * m
  BY <1>1, <1>6, <1>7, <1>8, <1>10, <1>11
<1> HIDE DEF Samples
<1>13. frameSize \div 4 = m
  BY <1>11, <1>12, SMT
<1> QED BY <1>1, <1>2, <1>9, <1>12, <1>13, SMT

\* One round of the encoder moves both chroma indices to where they belong.
LEMMA SamplesAdvance ==
  ASSUME TypeOK, Even, UNCHANGED picture, Advance("decode"), pc = "encode"
  PROVE  LET next == IF Sampled THEN Samples + 1 ELSE Samples
         IN  /\ pc' = "encode" => Samples' = next
             /\ pc' = "decode" => next = frameSize \div 4
<1> DEFINE next == IF Sampled THEN Samples + 1 ELSE Samples
<1>1. PICK a \in Nat \ {0}, b \in Nat \ {0} :
        width = 2 * a /\ height = 2 * b /\ a * b \in Nat /\ frameSize = 4 * (a * b)
  BY EvenPlanes DEF TypeOK
<1>2. /\ row \in 0 .. 2 * b - 1 /\ column \in 0 .. 2 * a - 1
      /\ width' = width /\ width \div 2 = a
  <2>1. row \in 0 .. 2 * b - 1 /\ column \in 0 .. 2 * a - 1 /\ width' = width
    BY <1>1 DEF TypeOK, picture
  <2> QED BY <1>1, <2>1, SMT
<1>3. Sampled <=> row % 2 = 0 /\ column % 2 = 0
  <2>1. index = 2 * (row * a) + column
    BY <1>1, <1>2, SMT DEF index
  <2>2. row * a \in Nat
    BY <1>1, <1>2, ProductNat
  <2> HIDE DEF index
  <2> QED BY <1>2, <2>1, <2>2, SMT DEF Sampled
<1>4. PICK r \in Nat : row = 2 * r \/ row = 2 * r + 1
  <2>1. row \in Nat
    BY <1>2, SMT
  <2> QED BY <2>1, OddHalves
<1> HIDE DEF Sampled
<1>5. CASE row = 2 * r
  <2>1. row % 2 = 0 /\ (row + 1) \div 2 = r /\ (row + 2) \div 2 = r + 1 /\ (row + 1) % 2 = 1
    BY <1>4, <1>5, SMT
  <2>2. Samples = r * a + (column + 1) \div 2
    BY <1>2, <2>1 DEF Samples
  <2>3. r * a \in Nat
    BY <1>1, ProductNat
  <2>4. next = r * a + (column + 2) \div 2
    <3>1. CASE column % 2 = 0
      BY <1>2, <1>3, <2>1, <2>2, <2>3, <3>1, SMT
    <3>2. CASE column % 2 = 1
      BY <1>2, <1>3, <2>1, <2>2, <2>3, <3>2, SMT
    <3> QED BY <1>2, <3>1, <3>2, SMT
  <2> HIDE DEF next
  <2>5. CASE column + 1 < width
    <3>1. row' = row /\ column' = column + 1 /\ pc' = "encode"
      BY <2>5 DEF Advance
    <3>2. Samples' = r * a + (column + 1 + 1) \div 2
      BY <1>2, <2>1, <3>1 DEF Samples
    <3> QED BY <1>2, <2>4, <3>1, <3>2, SMT DEF next
  <2>6. CASE column + 1 = width
    <3>1. row + 1 < height
      BY <1>1, <1>2, <1>5, SMT
    <3>2. row' = row + 1 /\ column' = 0 /\ pc' = "encode"
      BY <1>1, <2>6, <3>1, SMT DEF Advance
    <3>3. Samples' = (r + 1) * a + 0
      <4>1. (row + 1 + 1) \div 2 = r + 1 /\ (row + 1) % 2 # 0
        BY <1>5, SMT
      <4> QED BY <1>2, <3>2, <4>1 DEF Samples
    <3>4. (column + 2) \div 2 = a
      BY <1>1, <1>2, <2>6, SMT
    <3>5. (r + 1) * a + 0 = r * a + a
      BY <1>1, SMT
    <3> QED BY <2>4, <3>2, <3>3, <3>4, <3>5 DEF next
  <2> QED BY <1>1, <1>2, <2>5, <2>6, SMT
<1>6. CASE row = 2 * r + 1
  <2>1. row % 2 = 1 /\ (row + 1) \div 2 = r + 1 /\ (row + 2) \div 2 = r + 1 /\ (row + 1) % 2 = 0
    BY <1>4, <1>6, SMT
  <2>2. Samples = (r + 1) * a
    <3>1. Samples = (r + 1) * a + 0
      BY <1>2, <2>1 DEF Samples
    <3> QED BY <1>1, <3>1, SMT
  <2>3. next = (r + 1) * a
    BY <1>3, <2>1, <2>2
  <2> HIDE DEF next
  <2>4. CASE column + 1 < width
    <3>1. row' = row /\ column' = column + 1 /\ pc' = "encode"
      BY <2>4 DEF Advance
    <3>2. Samples' = (r + 1) * a + 0
      BY <1>2, <2>1, <3>1 DEF Samples
    <3>3. (r + 1) * a + 0 = (r + 1) * a
      BY <1>1, SMT
    <3> QED BY <2>3, <3>1, <3>2, <3>3 DEF next
  <2>5. CASE column + 1 = width /\ row + 1 < height
    <3>1. row' = row + 1 /\ column' = 0 /\ pc' = "encode"
      BY <1>1, <2>5, SMT DEF Advance
    <3>2. Samples' = (r + 1) * a + 0
      <4>1. (row + 1 + 1) \div 2 = r + 1 /\ (0 + 1) \div 2 = 0
        BY <1>6, SMT
      <4> QED BY <1>2, <2>1, <3>1, <4>1 DEF Samples
    <3>3. (r + 1) * a + 0 = (r + 1) * a
      BY <1>1, SMT
    <3> QED BY <2>3, <3>1, <3>2, <3>3 DEF next
  <2>6. CASE column + 1 = width /\ row + 1 = height
    <3>1. pc' = "decode"
      BY <1>1, <2>6, SMT DEF Advance
    <3>2. r + 1 = b
      BY <1>1, <1>6, <2>6, SMT
    <3>3. b * a = frameSize \div 4
      <4>1. b * a = a * b
        BY <1>1, SMT
      <4> QED BY <1>1, <4>1, SMT
    <3> QED BY <2>3, <3>1, <3>2, <3>3 DEF next
  <2> QED BY <1>1, <1>2, <2>4, <2>5, <2>6, SMT
<1> QED BY <1>4, <1>5, <1>6

(***************************************************************************)
(* The array                                                               *)
(***************************************************************************)
LEMMA PlacedInit == Init /\ TypeOK => SamplesPlaced
<1> SUFFICES ASSUME Init, TypeOK, Even
             PROVE  uIndex = frameSize + Samples /\ vIndex = FirstV + Samples
  BY DEF Init, SamplesPlaced
<1>1. frameSize \in Nat /\ FirstV \in Nat /\ width \in Nat
  BY SizeNat DEF TypeOK
<1>2. Samples = 0
  <2>1. row = 0 /\ column = 0
    BY DEF Init
  <2>2. /\ (0 + 1) \div 2 = 0 /\ 0 % 2 = 0
        /\ width \div 2 \in Nat
    BY <1>1, SMT
  <2>3. 0 * (width \div 2) + 0 = 0
    BY <2>2, SMT
  <2> QED BY <2>1, <2>2, <2>3 DEF Samples
<1> QED BY <1>1, <1>2, SMT DEF Init

LEMMA PlacedStep ==
  ASSUME TypeOK, SamplesPlaced, [Next]_vars
  PROVE  SamplesPlaced'
<1>1. CASE Encode
  <2> SUFFICES ASSUME Even'
               PROVE  /\ pc' = "encode" => uIndex' = (frameSize + Samples)' /\ vIndex' = (FirstV + Samples)'
                      /\ pc' = "decode" => uIndex' = FirstV' /\ vIndex' = ArrayLength'
    BY DEF SamplesPlaced
  <2>1. /\ UNCHANGED picture /\ pc = "encode" /\ Advance("decode")
        /\ uIndex' = IF Sampled THEN uIndex + 1 ELSE uIndex
        /\ vIndex' = IF Sampled THEN vIndex + 1 ELSE vIndex
    BY <1>1 DEF Encode
  <2>2. /\ Even /\ frameSize' = frameSize /\ ArrayLength' = ArrayLength /\ FirstV' = FirstV
    BY <2>1 DEF picture, Even, frameSize, ArrayLength, FirstV
  <2>3. uIndex = frameSize + Samples /\ vIndex = FirstV + Samples
    BY <2>1, <2>2 DEF SamplesPlaced
  <2> DEFINE next == IF Sampled THEN Samples + 1 ELSE Samples
  <2>4. /\ pc' = "encode" => Samples' = next
        /\ pc' = "decode" => next = frameSize \div 4
    BY <2>1, <2>2, SamplesAdvance
  <2>5. Samples \in Nat /\ frameSize \in Nat /\ FirstV \in Nat /\ ArrayLength \in Nat
    BY SamplesNat, SizeNat DEF TypeOK
  <2>6. uIndex' = frameSize + next /\ vIndex' = FirstV + next
    <3> HIDE DEF Samples
    <3> QED BY <2>1, <2>3, <2>5, SMT
  <2>7. frameSize + frameSize \div 4 = FirstV /\ FirstV + frameSize \div 4 = ArrayLength
    <3>1. PICK m \in Nat : frameSize = 4 * m /\ ArrayLength = 6 * m /\ FirstV = 5 * m
      BY <2>2, EvenPlanes DEF TypeOK
    <3> QED BY <3>1, SMT
  <2> QED BY <2>2, <2>4, <2>6, <2>7
<1>2. CASE Decode
  <2>1. /\ UNCHANGED <<picture, uIndex, vIndex>> /\ pc = "decode" /\ Advance("done")
    BY <1>2 DEF Decode
  <2>2. pc' # "encode"
    BY <2>1 DEF Advance
  <2> QED BY <2>1, <2>2 DEF SamplesPlaced, picture, Even, ArrayLength, FirstV, frameSize
<1>3. CASE Fault
  BY <1>3 DEF Fault, SamplesPlaced
<1>4. CASE UNCHANGED vars
  BY <1>4 DEF vars, picture, SamplesPlaced, Even, ArrayLength, FirstV, frameSize, Samples
<1> QED BY <1>1, <1>2, <1>3, <1>4 DEF Next

\* The indices that the decoder of an even picture reads.
LEMMA EvenReads ==
  ASSUME TypeOK, Even
  PROVE  uvIndex \in frameSize .. ArrayLength - 1 /\ uvIndex + 1 \in frameSize .. ArrayLength - 1
<1>1. PICK a \in Nat \ {0}, b \in Nat \ {0} :
        /\ width = 2 * a /\ height = 2 * b /\ a * b \in Nat
        /\ frameSize = 4 * (a * b) /\ ArrayLength = 6 * (a * b)
  BY EvenPlanes DEF TypeOK
<1>2. row \in 0 .. 2 * b - 1 /\ column \in 0 .. 2 * a - 1
  BY <1>1 DEF TypeOK
<1> DEFINE r == row \div 2
           c == column - (column % 2)
<1>3. r \in Nat /\ b - 1 \in Nat /\ r <= b - 1 /\ c \in 0 .. 2 * a - 2
  BY <1>1, <1>2, SMT
<1> HIDE DEF r, c
<1>4. r * a <= (b - 1) * a /\ (b - 1) * a = a * b - a
  <2>1. r * a <= (b - 1) * a
    BY <1>1, <1>3, ProductMonotonic
  <2>2. (b - 1) * a = a * b - a
    BY <1>1, SMT
  <2> QED BY <2>1, <2>2
<1>5. uvIndex = frameSize + 2 * (r * a) + c
  <2>1. r * width = 2 * (r * a)
    BY <1>1, <1>3, SMT
  <2> QED BY <2>1 DEF uvIndex, r, c
<1>6. PICK x \in Nat : x = r * a
  BY <1>1, <1>3, ProductNat
<1>7. PICK m \in Nat : m = a * b
  BY <1>1
<1>8. frameSize = 4 * m /\ ArrayLength = 6 * m /\ x <= m - a /\ uvIndex = 4 * m + 2 * x + c
  BY <1>1, <1>4, <1>5, <1>6, <1>7
<1> QED BY <1>1, <1>3, <1>6, <1>7, <1>8, SMT

\* For a picture of even width and height, whatever its size, neither function
\* uses an index outside of the array that the encoder allocates.
THEOREM IndicesInside == Spec => []EvenStaysInside
<1> DEFINE IInv == TypeOK /\ SamplesPlaced /\ EvenStaysInside
<1>1. Init /\ TypeOK => IInv
  BY PlacedInit DEF Init, EvenStaysInside
<1>2. IInv /\ TypeOK' /\ [Next]_vars => IInv'
  <2> SUFFICES ASSUME TypeOK, SamplesPlaced, EvenStaysInside, TypeOK', [Next]_vars
               PROVE  EvenStaysInside'
    BY PlacedStep
  <2>1. CASE Encode
    <3> SUFFICES ASSUME Even' PROVE ~outside'
      BY DEF EvenStaysInside
    <3>1. Even /\ ~outside /\ pc = "encode"
      BY <2>1 DEF Encode, picture, Even, EvenStaysInside
    <3>2. Sampled => {uIndex, vIndex} \subseteq DOMAIN yuv
      <4> SUFFICES ASSUME Sampled PROVE {uIndex, vIndex} \subseteq DOMAIN yuv
        OBVIOUS
      <4>1. Samples < frameSize \div 4 /\ uIndex = frameSize + Samples /\ vIndex = FirstV + Samples
        BY <3>1, SamplesFit DEF SamplesPlaced
      <4>2. PICK m \in Nat : frameSize = 4 * m /\ ArrayLength = 6 * m /\ FirstV = 5 * m
        BY <3>1, EvenPlanes DEF TypeOK
      <4>3. uIndex \in Nat /\ vIndex \in Nat /\ DOMAIN yuv = 0 .. ArrayLength - 1
        BY DEF TypeOK
      <4>4. frameSize \div 4 = m
        BY <4>2, SMT
      <4>5. uIndex - 4 * m < m /\ vIndex - 5 * m < m
        <5>1. Samples \in Nat
          BY SamplesNat
        <5> HIDE DEF Samples
        <5> QED BY <4>1, <4>2, <4>4, <5>1, SMT
      <4> QED BY <4>2, <4>3, <4>5, SMT
    <3> QED BY <2>1, <3>1, <3>2 DEF Encode
  <2>2. CASE Decode
    <3> SUFFICES ASSUME Even' PROVE ~outside'
      BY DEF EvenStaysInside
    <3>1. Even /\ ~outside
      BY <2>2 DEF Decode, picture, Even, EvenStaysInside
    <3>2. {uvIndex, uvIndex + 1} \subseteq DOMAIN yuv
      <4>1. frameSize \in Nat /\ ArrayLength \in Nat
        BY SizeNat DEF TypeOK
      <4> QED BY <3>1, <4>1, EvenReads, SMT DEF TypeOK
    <3> QED BY <2>2, <3>1, <3>2 DEF Decode
  <2>3. CASE Fault
    BY <2>3 DEF Fault, picture, Even, EvenStaysInside
  <2>4. CASE UNCHANGED vars
    BY <2>4 DEF vars, picture, Even, EvenStaysInside
  <2> QED BY <2>1, <2>2, <2>3, <2>4 DEF Next
<1>3. IInv => EvenStaysInside
  OBVIOUS
<1> QED BY <1>1, <1>2, <1>3, Typing, PTL DEF Spec

LEMMA OddReads ==
  ASSUME TypeOK, ~Even, row = height - 1, column = width - 1
  PROVE  uvIndex + 1 >= ArrayLength
<1>1. width \in Nat \ {0} /\ height \in Nat \ {0}
  BY SizeNat DEF TypeOK
<1>2. PICK a \in Nat : width = 2 * a \/ width = 2 * a + 1
  BY <1>1, OddHalves
<1>3. PICK b \in Nat : height = 2 * b \/ height = 2 * b + 1
  BY <1>1, OddHalves
<1>4. PICK m \in Nat : m = b * width
  BY <1>1, ProductNat
<1>5. CASE height = 2 * b
  <2>1. row \div 2 = b - 1
    BY <1>1, <1>5, SMT
  <2>2. width = 2 * a + 1 /\ column - (column % 2) = width - 1
    BY <1>1, <1>2, <1>5, SMT DEF Even
  <2>3. width * height = 2 * m /\ (b - 1) * width = m - width
    BY <1>1, <1>4, <1>5, SMT
  <2>4. uvIndex = 2 * m + (m - width) + (width - 1)
    BY <2>1, <2>2, <2>3 DEF uvIndex, frameSize
  <2>5. ArrayLength = 3 * m
    <3>1. frameSize = 2 * m
      BY <2>3 DEF frameSize
    <3> QED BY <1>4, <3>1, SMT DEF ArrayLength
  <2> QED BY <1>1, <1>4, <2>4, <2>5, SMT
<1>6. CASE height = 2 * b + 1
  <2>1. row \div 2 = b
    BY <1>1, <1>6, SMT
  <2>2. column - (column % 2) >= width - 2 /\ (width = 1 => column - (column % 2) = 0)
    BY <1>1, SMT
  <2>3. width * height = 2 * m + width
    BY <1>1, <1>4, <1>6, SMT
  <2>4. uvIndex = 2 * m + width + m + (column - (column % 2))
    BY <1>4, <2>1, <2>3 DEF uvIndex, frameSize
  <2>5. ArrayLength = ((2 * m + width) * 3) \div 2
    BY <2>3 DEF ArrayLength, frameSize
  <2>6. column - (column % 2) \in Int
    BY <1>1, SMT
  <2> QED BY <1>1, <1>4, <2>2, <2>4, <2>5, <2>6, SMT
<1> QED BY <1>3, <1>5, <1>6

\* For every other picture the decoder does, at the latest with its last pixel.
THEOREM IndicesOutside == Spec => []OddGoesOutside
<1>1. Init => OddGoesOutside
  BY DEF Init, OddGoesOutside
<1>2. TypeOK /\ OddGoesOutside /\ [Next]_vars => OddGoesOutside'
  <2> SUFFICES ASSUME TypeOK, OddGoesOutside, [Next]_vars, pc' = "done", ~Even'
               PROVE  outside'
    BY DEF OddGoesOutside
  <2>1. CASE Encode
    <3>1. pc' # "done"
      BY <2>1 DEF Encode, Advance
    <3> QED BY <3>1
  <2>2. CASE Decode
    <3>1. UNCHANGED picture /\ pc = "decode" /\ Advance("done")
      BY <2>2 DEF Decode
    <3>2. ~Even /\ column + 1 = width /\ row + 1 = height
      <4>1. column + 1 = width /\ row + 1 = height
        BY <3>1, AdvanceCases
      <4> QED BY <3>1, <4>1 DEF picture, Even
    <3>3. uvIndex + 1 >= ArrayLength
      <4>1. row = height - 1 /\ column = width - 1
        <5>1. width \in Nat \ {0} /\ height \in Nat \ {0}
          BY SizeNat DEF TypeOK
        <5> QED BY <3>2, <5>1, SMT DEF TypeOK
      <4> QED BY <3>2, <4>1, OddReads
    <3>4. uvIndex + 1 \notin DOMAIN yuv
      <4>1. ArrayLength \in Nat /\ DOMAIN yuv = 0 .. ArrayLength - 1
        BY SizeNat DEF TypeOK
      <4> QED BY <3>3, <4>1, SMT
    <3> QED BY <2>2, <3>4 DEF Decode
  <2>3. CASE Fault
    BY <2>3 DEF Fault
  <2>4. CASE UNCHANGED vars
    BY <2>4 DEF vars, picture, Even, OddGoesOutside
  <2> QED BY <2>1, <2>2, <2>3, <2>4 DEF Next
<1> QED BY <1>1, <1>2, Typing, PTL DEF Spec

(***************************************************************************)
(* Colours                                                                 *)
(***************************************************************************)
\* No pixel of any picture comes back with more green than red, or than blue.
THEOREM GreenLost == Spec => []NeverGreen
<1>1. Init => NeverGreen
  BY DEF Init, NeverGreen
<1>2. TypeOK /\ TypeOK' /\ NeverGreen /\ [Next]_vars => NeverGreen'
  <2> SUFFICES ASSUME TypeOK, TypeOK', NeverGreen, [Next]_vars, NEW n \in DOMAIN out'
               PROVE  out'[n].green <= out'[n].red /\ out'[n].green <= out'[n].blue
    BY DEF NeverGreen
  <2>1. CASE Decode
    <3>1. PICK v \in Sample(uvIndex), u \in Sample(uvIndex + 1) :
            out' = Append(out, Decoded(yuv[index], v, u))
      BY <2>1 DEF Decode
    <3>2. v \in Bytes /\ u \in Bytes /\ yuv[index] \in Bytes
      <4>1. index \in 0 .. ArrayLength - 1
        BY IndexInArray
      <4>2. Sample(uvIndex) \subseteq Bytes /\ Sample(uvIndex + 1) \subseteq Bytes
        BY SampleBytes
      <4>3. yuv[index] \in Bytes
        BY <4>1 DEF TypeOK
      <4> QED BY <3>1, <4>2, <4>3
    <3> DEFINE q == Decoded(yuv[index], v, u)
    <3>3. q \in Pixels /\ q.green <= q.red /\ q.green <= q.blue
      BY <3>2, DecodedPixel
    <3> HIDE DEF q
    <3>4. (n \in DOMAIN out /\ out'[n] = out[n]) \/ out'[n] = q
      <4>1. out \in Seq(Pixels) /\ out' = Append(out, q)
        BY <3>1 DEF TypeOK, q
      <4>2. /\ Len(out) \in Nat /\ DOMAIN out = 1 .. Len(out)
            /\ DOMAIN out' = 1 .. Len(out) + 1
            /\ \A k \in 1 .. Len(out) : out'[k] = out[k]
            /\ out'[Len(out) + 1] = q
        BY <3>3, <4>1, SMT
      <4>3. n \in 1 .. Len(out) \/ n = Len(out) + 1
        BY <4>2, SMT
      <4> QED BY <4>2, <4>3
    <3> QED BY <3>3, <3>4 DEF NeverGreen
  <2>2. CASE UNCHANGED out
    BY <2>2 DEF NeverGreen
  <2> QED BY <2>1, <2>2 DEF Next, Encode, Fault, vars
<1> QED BY <1>1, <1>2, Typing, PTL DEF Spec

(***************************************************************************)
(* The content of the array                                                *)
(***************************************************************************)
LEMMA Quotient ==
  ASSUME NEW a \in Nat \ {0}, NEW r \in Nat, NEW c \in 0 .. a - 1
  PROVE  (r * a + c) \div a = r /\ (r * a + c) % a = c
<1> DEFINE n == r * a + c
           q == n \div a
           m == n % a
<1>1. n \in Nat
  BY ProductNat, SMT
<1> HIDE DEF n
<1>2. q \in Nat /\ m \in 0 .. a - 1 /\ n = a * q + m
  BY <1>1, SMT
<1> HIDE DEF q, m
<1>3. n = q * a + m
  BY <1>2, SMT
<1>4. CASE q < r
  <2>1. (q + 1) * a <= r * a /\ (q + 1) * a = q * a + a
    <3>1. q + 1 \in Nat /\ q + 1 <= r
      BY <1>2, <1>4, SMT
    <3>2. (q + 1) * a <= r * a
      BY <3>1, ProductMonotonic
    <3>3. (q + 1) * a = q * a + a
      BY <1>2, SMT
    <3> QED BY <3>2, <3>3
  <2>2. r * a \in Nat /\ q * a \in Nat
    BY <1>2, ProductNat
  <2> QED BY <1>2, <1>3, <2>1, <2>2, SMT DEF n
<1>5. CASE q > r
  <2>1. (r + 1) * a <= q * a /\ (r + 1) * a = r * a + a
    <3>1. r + 1 \in Nat /\ r + 1 <= q
      BY <1>2, <1>5, SMT
    <3>2. (r + 1) * a <= q * a
      BY <1>2, <3>1, ProductMonotonic
    <3>3. (r + 1) * a = r * a + a
      BY SMT
    <3> QED BY <3>2, <3>3
  <2>2. r * a \in Nat /\ q * a \in Nat
    BY <1>2, ProductNat
  <2> QED BY <1>2, <1>3, <2>1, <2>2, SMT DEF n
<1>6. CASE q = r
  <2>1. r * a \in Nat
    BY ProductNat
  <2>2. m = c
    BY <1>2, <1>3, <1>6, <2>1, SMT DEF n
  <2> QED BY <1>6, <2>2 DEF n, q, m
<1> QED BY <1>2, <1>4, <1>5, <1>6, SMT

\* The pixel that the s-th sample of either chroma plane is taken from.
Corner(s) ==
  2 * (s \div (width \div 2)) * width + 2 * (s % (width \div 2))

LumaUpTo(n) == \A k \in 0 .. n - 1 : yuv[k] = Signed(Clamp(Y(argbPixels[k])))

ChromaUpTo(n) ==
  \A s \in 0 .. (frameSize \div 4) - 1 :
    s < n => /\ yuv[frameSize + s] = Signed(Clamp(U(argbPixels[Corner(s)])))
             /\ yuv[FirstV + s]    = Signed(Clamp(V(argbPixels[Corner(s)])))

PlanesSoFar ==
  Even => /\ pc = "encode" => LumaUpTo(index) /\ ChromaUpTo(Samples)
          /\ pc = "decode" => LumaUpTo(frameSize) /\ ChromaUpTo(frameSize \div 4)

\* The pixel that the encoder samples is the corner that the sample belongs to.
LEMMA SampledCorner ==
  ASSUME TypeOK, Even, Sampled
  PROVE  Corner(Samples) = index
<1>1. PICK a \in Nat \ {0}, b \in Nat \ {0} : width = 2 * a /\ height = 2 * b
  BY EvenPlanes DEF TypeOK
<1>2. /\ row \in 0 .. 2 * b - 1 /\ column \in 0 .. 2 * a - 1 /\ width \div 2 = a
  <2>1. row \in 0 .. 2 * b - 1 /\ column \in 0 .. 2 * a - 1
    BY <1>1 DEF TypeOK
  <2> QED BY <1>1, <2>1, SMT
<1>3. row % 2 = 0 /\ column % 2 = 0
  <2>1. index = 2 * (row * a) + column
    BY <1>1, <1>2, SMT DEF index
  <2>2. row * a \in Nat
    BY <1>1, <1>2, ProductNat
  <2>3. row % 2 = 0 /\ index % 2 = 0
    BY DEF Sampled
  <2> HIDE DEF index
  <2> QED BY <1>2, <2>1, <2>2, <2>3, SMT
<1>4. PICK r \in Nat : row = 2 * r
  <2>1. row \div 2 \in Nat /\ row = 2 * (row \div 2)
    BY <1>2, <1>3, SMT
  <2> QED BY <2>1
<1>5. PICK c \in 0 .. a - 1 : column = 2 * c
  <2>1. column \div 2 \in 0 .. a - 1 /\ column = 2 * (column \div 2)
    BY <1>2, <1>3, SMT
  <2> QED BY <2>1
<1>6. Samples = r * a + c
  <2>1. (row + 1) \div 2 = r /\ (column + 1) \div 2 = c
    BY <1>4, <1>5, SMT
  <2> QED BY <1>2, <1>3, <2>1 DEF Samples
<1>7. Samples \div a = r /\ Samples % a = c
  BY <1>6, Quotient
<1>8. Corner(Samples) = 2 * r * width + 2 * c
  BY <1>2, <1>7 DEF Corner
<1> QED BY <1>4, <1>5, <1>8 DEF index

\* Which byte holds what after a round of the encoder.
LEMMA EncodedBytes ==
  ASSUME TypeOK, SamplesPlaced, Even, Encode
  PROVE  LET p == argbPixels[index]
         IN  /\ yuv'[index] = Signed(Clamp(Y(p)))
             /\ Sampled => /\ yuv'[frameSize + Samples] = Signed(Clamp(U(p)))
                           /\ yuv'[FirstV + Samples] = Signed(Clamp(V(p)))
             /\ \A k \in 0 .. index - 1 : yuv'[k] = yuv[k]
             /\ \A s \in 0 .. Samples - 1 :
                  s < frameSize \div 4 => /\ yuv'[frameSize + s] = yuv[frameSize + s]
                                          /\ yuv'[FirstV + s] = yuv[FirstV + s]
<1> DEFINE p == argbPixels[index]
<1>1. PICK m \in Nat : frameSize = 4 * m /\ ArrayLength = 6 * m /\ FirstV = 5 * m
  BY EvenPlanes DEF TypeOK
<1>2. frameSize \div 4 = m
  BY <1>1, SMT
<1>3. pc = "encode" /\ uIndex = 4 * m + Samples /\ vIndex = 5 * m + Samples
  BY <1>1 DEF Encode, SamplesPlaced
<1>4. Sampled => Samples < m
  BY <1>2, SamplesFit
<1>5. Samples \in Nat /\ index \in 0 .. 4 * m - 1 /\ DOMAIN yuv = 0 .. 6 * m - 1
  BY <1>1, SamplesNat, IndexInFrame DEF TypeOK
<1>6. \A k \in 0 .. 6 * m - 1 :
        yuv'[k] = IF Sampled /\ k = vIndex THEN Signed(Clamp(V(p)))
                  ELSE IF Sampled /\ k = uIndex THEN Signed(Clamp(U(p)))
                  ELSE IF k = index THEN Signed(Clamp(Y(p)))
                  ELSE yuv[k]
  BY <1>5 DEF Encode
<1> HIDE DEF p, index, Samples
<1>7. yuv'[index] = Signed(Clamp(Y(p)))
  <2>1. index \in 0 .. 6 * m - 1 /\ index # uIndex /\ index # vIndex
    BY <1>3, <1>5, SMT
  <2> QED BY <1>6, <2>1
<1>8. ASSUME Sampled
      PROVE  yuv'[4 * m + Samples] = Signed(Clamp(U(p))) /\ yuv'[5 * m + Samples] = Signed(Clamp(V(p)))
  <2>1. uIndex \in 0 .. 6 * m - 1 /\ vIndex \in 0 .. 6 * m - 1 /\ uIndex # vIndex
    BY <1>3, <1>4, <1>5, <1>8, SMT
  <2> QED BY <1>3, <1>6, <1>8, <2>1
<1>9. ASSUME NEW k \in 0 .. index - 1 PROVE yuv'[k] = yuv[k]
  <2>1. k \in 0 .. 6 * m - 1 /\ k # index /\ k # uIndex /\ k # vIndex
    BY <1>3, <1>5, SMT
  <2> QED BY <1>6, <2>1
<1>10. ASSUME NEW s \in 0 .. Samples - 1, s < m
       PROVE  yuv'[4 * m + s] = yuv[4 * m + s] /\ yuv'[5 * m + s] = yuv[5 * m + s]
  <2>1. 4 * m + s \in 0 .. 6 * m - 1 /\ 4 * m + s # index /\ 4 * m + s # uIndex /\ 4 * m + s # vIndex
    BY <1>3, <1>5, <1>10, SMT
  <2>2. 5 * m + s \in 0 .. 6 * m - 1 /\ 5 * m + s # index /\ 5 * m + s # vIndex
    BY <1>3, <1>5, <1>10, SMT
  <2>3. Sampled => 5 * m + s # uIndex
    BY <1>3, <1>4, <1>5, <1>10, SMT
  <2> QED BY <1>6, <2>1, <2>2, <2>3
<1> QED BY <1>1, <1>2, <1>7, <1>8, <1>9, <1>10 DEF p

LEMMA PlanesInit == ASSUME TypeOK, Init PROVE PlanesSoFar
<1> SUFFICES ASSUME Even PROVE LumaUpTo(index) /\ ChromaUpTo(Samples)
  BY DEF Init, PlanesSoFar
<1>1. row = 0 /\ column = 0
  BY DEF Init
<1>2. width \in Nat /\ width \div 2 \in Nat
  <2>1. width \in Nat
    BY SizeNat DEF TypeOK
  <2> QED BY <2>1, SMT
<1>3. index = 0
  BY <1>1, <1>2, SMT DEF index
<1>4. Samples = 0
  <2>1. (0 + 1) \div 2 = 0 /\ 0 % 2 = 0
    BY SMT
  <2>2. 0 * (width \div 2) + 0 = 0
    BY <1>2, SMT
  <2> QED BY <1>1, <2>1, <2>2 DEF Samples
<1> QED BY <1>3, <1>4, SMT DEF LumaUpTo, ChromaUpTo

LEMMA PlanesStep ==
  ASSUME TypeOK, SamplesPlaced, PlanesSoFar, [Next]_vars
  PROVE  PlanesSoFar'
<1>1. CASE Encode
  <2> SUFFICES ASSUME Even'
               PROVE  /\ pc' = "encode" => LumaUpTo(index)' /\ ChromaUpTo(Samples)'
                      /\ pc' = "decode" => LumaUpTo(frameSize)' /\ ChromaUpTo(frameSize \div 4)'
    BY DEF PlanesSoFar
  <2>1. UNCHANGED picture /\ pc = "encode" /\ Advance("decode")
    BY <1>1 DEF Encode
  <2>2. /\ Even /\ frameSize' = frameSize /\ FirstV' = FirstV /\ argbPixels' = argbPixels
        /\ \A s : Corner(s)' = Corner(s)
    BY <2>1 DEF picture, Even, frameSize, ArrayLength, FirstV, Corner
  <2>3. LumaUpTo(index) /\ ChromaUpTo(Samples)
    BY <2>1, <2>2 DEF PlanesSoFar
  <2> DEFINE next == IF Sampled THEN Samples + 1 ELSE Samples
             chroma(n) ==
               \A s \in 0 .. (frameSize \div 4) - 1 :
                 s < n => /\ yuv'[frameSize + s] = Signed(Clamp(U(argbPixels[Corner(s)])))
                          /\ yuv'[FirstV + s]    = Signed(Clamp(V(argbPixels[Corner(s)])))
  <2>4. ASSUME NEW n, n = index + 1 PROVE LumaUpTo(n)'
    <3>1. SUFFICES ASSUME NEW k \in 0 .. n - 1
                   PROVE  yuv'[k] = Signed(Clamp(Y(argbPixels[k])))
      BY <2>2 DEF LumaUpTo
    <3>2. k = index \/ k \in 0 .. index - 1
      <4>1. index \in Nat
        BY IndexInFrame, SizeNat, SMT
      <4> HIDE DEF index
      <4> QED BY <2>4, <4>1, SMT
    <3>3. yuv'[index] = Signed(Clamp(Y(argbPixels[index])))
      BY <1>1, <2>2, EncodedBytes
    <3>4. \A i \in 0 .. index - 1 : yuv'[i] = Signed(Clamp(Y(argbPixels[i])))
      BY <1>1, <2>2, <2>3, EncodedBytes DEF LumaUpTo
    <3> QED BY <3>2, <3>3, <3>4
  <2>5. chroma(next)
    <3>1. SUFFICES ASSUME NEW s \in 0 .. (frameSize \div 4) - 1, s < next
                   PROVE  /\ yuv'[frameSize + s] = Signed(Clamp(U(argbPixels[Corner(s)])))
                          /\ yuv'[FirstV + s]    = Signed(Clamp(V(argbPixels[Corner(s)])))
      OBVIOUS
    <3>2. Samples \in Nat
      BY SamplesNat
    <3>3. CASE Sampled /\ s = Samples
      <4>1. Corner(s) = index
        BY <2>2, <3>3, SampledCorner
      <4> QED BY <1>1, <2>2, <3>3, <4>1, EncodedBytes
    <3>4. CASE s < Samples
      <4>1. s \in 0 .. Samples - 1
        <5> HIDE DEF Samples
        <5>1. s \in Nat
          OBVIOUS
        <5> QED BY <3>2, <3>4, <5>1, SMT
      <4>2. s < frameSize \div 4
        <5>1. frameSize \div 4 \in Int
          <6>1. frameSize \in Nat
            BY SizeNat DEF TypeOK
          <6> QED BY <6>1, SMT
        <5> QED BY <5>1, SMT
      <4>3. yuv'[frameSize + s] = yuv[frameSize + s] /\ yuv'[FirstV + s] = yuv[FirstV + s]
        BY <1>1, <2>2, <4>1, <4>2, EncodedBytes
      <4> QED BY <2>3, <3>4, <4>3 DEF ChromaUpTo
    <3>5. s = Samples \/ s < Samples \/ ~(s < Samples + 1)
      <4>1. frameSize \div 4 \in Int
        <5>1. frameSize \in Nat
          BY SizeNat DEF TypeOK
        <5> QED BY <5>1, SMT
      <4> HIDE DEF Samples
      <4> QED BY <3>2, <4>1, SMT
    <3> QED BY <3>1, <3>3, <3>4, <3>5
  <2>6. /\ pc' = "encode" => Samples' = next
        /\ pc' = "decode" => next = frameSize \div 4
    BY <2>1, <2>2, SamplesAdvance
  <2>7. /\ pc' = "encode" => index' = index + 1
        /\ pc' = "decode" => index + 1 = frameSize
    BY <2>1, AdvanceCases
  <2> HIDE DEF next, chroma
  <2>8. \A n : ChromaUpTo(n)' <=> chroma(n)
    BY <2>2 DEF ChromaUpTo, chroma
  <2>9. pc' = "encode" => LumaUpTo(index)' /\ ChromaUpTo(Samples)'
    BY <2>4, <2>5, <2>6, <2>7, <2>8 DEF LumaUpTo
  <2>10. pc' = "decode" => LumaUpTo(frameSize)' /\ ChromaUpTo(frameSize \div 4)'
    BY <2>2, <2>4, <2>5, <2>6, <2>7, <2>8
  <2> QED BY <2>9, <2>10
<1>2. CASE Decode
  <2>1. UNCHANGED <<picture, yuv>> /\ pc = "decode" /\ Advance("done")
    BY <1>2 DEF Decode
  <2>2. pc' # "encode"
    BY <2>1 DEF Advance
  <2> QED BY <2>1, <2>2
          DEF PlanesSoFar, LumaUpTo, ChromaUpTo, picture, Even, Corner, ArrayLength, FirstV, frameSize
<1>3. CASE Fault
  BY <1>3 DEF Fault, PlanesSoFar
<1>4. CASE UNCHANGED vars
  BY <1>4 DEF vars, picture, PlanesSoFar, LumaUpTo, ChromaUpTo, Even, Corner,
              ArrayLength, FirstV, frameSize, index, Samples
<1> QED BY <1>1, <1>2, <1>3, <1>4 DEF Next

LEMMA SamplesUnclamped ==
  ASSUME NEW p \in Pixels
  PROVE  Clamp(Y(p)) = Y(p) /\ Clamp(U(p)) = U(p) /\ Clamp(V(p)) = V(p)
<1>1. \A x \in 16 .. 240 : Clamp(x) = x
  BY SMT DEF Clamp
<1>2. \A x \in 16 .. 235 : x \in 16 .. 240
  BY SMT
<1> QED BY <1>1, <1>2, SampleRanges

LEMMA InvariantPlanes == Spec => [](SamplesPlaced /\ PlanesSoFar)
<1>1. Init /\ TypeOK => SamplesPlaced /\ PlanesSoFar
  BY PlacedInit, PlanesInit
<1>2. TypeOK /\ SamplesPlaced /\ PlanesSoFar /\ [Next]_vars => (SamplesPlaced /\ PlanesSoFar)'
  BY PlacedStep, PlanesStep
<1> QED BY <1>1, <1>2, Typing, PTL DEF Spec

\* The encoder leaves three planes behind an even picture of any size, one of
\* luma, one of U and one of V, with the sample of every block in its place.
THEOREM Planes == Spec => []PlanarLayout
<1>1. TypeOK /\ PlanesSoFar => PlanarLayout
  <2> SUFFICES ASSUME TypeOK, PlanesSoFar, pc = "decode", Even,
                      NEW r \in 0 .. height - 1, NEW c \in 0 .. width - 1
               PROVE  LET p      == argbPixels[r * width + c]
                          corner == argbPixels[(r - (r % 2)) * width + (c - (c % 2))]
                          k      == frameSize + (r \div 2) * (width \div 2) + c \div 2
                      IN  /\ yuv[r * width + c] = Signed(Y(p))
                          /\ yuv[k] = Signed(U(corner))
                          /\ yuv[k + frameSize \div 4] = Signed(V(corner))
    BY DEF PlanarLayout
  <2>1. PICK a \in Nat \ {0}, b \in Nat \ {0} :
          /\ width = 2 * a /\ height = 2 * b /\ a * b \in Nat
          /\ frameSize = 4 * (a * b) /\ FirstV = 5 * (a * b)
    BY EvenPlanes DEF TypeOK
  <2>2. PICK m \in Nat : m = a * b
    BY <2>1
  <2>3. frameSize = 4 * m /\ FirstV = 5 * m /\ frameSize \div 4 = m /\ width \div 2 = a
    <3>1. frameSize = 4 * m /\ FirstV = 5 * m
      BY <2>1, <2>2
    <3> QED BY <2>1, <2>2, <3>1, SMT
  <2> DEFINE i == r \div 2
             j == c \div 2
             s == i * a + j
  <2>4. i \in 0 .. b - 1 /\ j \in 0 .. a - 1 /\ r - (r % 2) = 2 * i /\ c - (c % 2) = 2 * j
    BY <2>1, SMT
  <2> HIDE DEF i, j
  <2>5. Corner(s) = (r - (r % 2)) * width + (c - (c % 2))
    <3>1. s \div a = i /\ s % a = j
      BY <2>4, Quotient
    <3> QED BY <2>3, <2>4, <3>1 DEF Corner
  <2>6. s \in 0 .. m - 1
    <3>1. s \in 0 .. a * b - 1
      BY <2>4, CellInGrid
    <3> QED BY <2>2, <3>1
  <2> DEFINE p == argbPixels[r * width + c]
             q == argbPixels[Corner(s)]
  <2>7. p \in Pixels /\ q \in Pixels
    <3>1. r * width + c \in 0 .. frameSize - 1
      BY SizeNat, CellInGrid DEF TypeOK, frameSize
    <3>2. Corner(s) \in 0 .. frameSize - 1
      <4>1. r - (r % 2) \in 0 .. height - 1 /\ c - (c % 2) \in 0 .. width - 1
        BY <2>1, <2>4, SMT
      <4> QED BY <2>5, <4>1, SizeNat, CellInGrid DEF TypeOK, frameSize
    <3> QED BY <3>1, <3>2, ColoursAssumption DEF TypeOK
  <2>8. yuv[r * width + c] = Signed(Y(p))
    <3>1. r * width + c \in 0 .. frameSize - 1
      BY SizeNat, CellInGrid DEF TypeOK, frameSize
    <3> QED BY <2>7, <3>1, SamplesUnclamped DEF PlanesSoFar, LumaUpTo
  <2>9. yuv[frameSize + s] = Signed(U(q)) /\ yuv[FirstV + s] = Signed(V(q))
    <3>1. ChromaUpTo(m)
      BY <2>3 DEF PlanesSoFar
    <3>2. s \in 0 .. (frameSize \div 4) - 1 /\ s < m
      <4> HIDE DEF s
      <4> QED BY <2>2, <2>3, <2>6, SMT
    <3> QED BY <2>7, <3>1, <3>2, SamplesUnclamped DEF ChromaUpTo
  <2>10. /\ frameSize + (r \div 2) * (width \div 2) + c \div 2 = frameSize + s
         /\ frameSize + (r \div 2) * (width \div 2) + c \div 2 + frameSize \div 4 = FirstV + s
    <3>1. PICK x \in Nat : x = i * a
      BY <2>1, <2>4, ProductNat, SMT
    <3>2. (r \div 2) * (width \div 2) = x /\ c \div 2 = j /\ s = x + j
      BY <2>3, <3>1 DEF i, j
    <3>3. /\ frameSize + (r \div 2) * (width \div 2) + c \div 2 = 4 * m + x + j
          /\ frameSize + (r \div 2) * (width \div 2) + c \div 2 + frameSize \div 4 = 4 * m + x + j + m
          /\ frameSize + s = 4 * m + (x + j) /\ FirstV + s = 5 * m + (x + j)
      BY <2>3, <3>2
    <3>4. 4 * m + x + j = 4 * m + (x + j) /\ 4 * m + x + j + m = 5 * m + (x + j)
      BY <2>4, <3>1, SMT
    <3> HIDE DEF s
    <3> QED BY <3>3, <3>4
  <2> HIDE DEF s
  <2> QED BY <2>5, <2>8, <2>9, <2>10
<1> QED BY <1>1, InvariantPlanes, Typing, PTL

(***************************************************************************)
(* Greys                                                                   *)
(***************************************************************************)
GreyPicture == Even /\ \A k \in DOMAIN argbPixels : Grey(argbPixels[k])

\* Every sample of either chroma plane of a grey picture is that of a grey.
LEMMA GreyChroma ==
  ASSUME TypeOK, PlanesSoFar, pc = "decode", GreyPicture,
         NEW k \in frameSize .. ArrayLength - 1
  PROVE  yuv[k] = -128
<1>1. PICK a \in Nat \ {0}, b \in Nat \ {0} :
        /\ width = 2 * a /\ height = 2 * b /\ a * b \in Nat
        /\ frameSize = 4 * (a * b) /\ ArrayLength = 6 * (a * b) /\ FirstV = 5 * (a * b)
  BY EvenPlanes DEF TypeOK, GreyPicture
<1>2. PICK m \in Nat : m = a * b
  BY <1>1
<1>3. /\ frameSize = 4 * m /\ ArrayLength = 6 * m /\ FirstV = 5 * m
      /\ frameSize \div 4 = m /\ width \div 2 = a
  <2>1. frameSize = 4 * m /\ ArrayLength = 6 * m /\ FirstV = 5 * m
    BY <1>1, <1>2
  <2> QED BY <1>1, <1>2, <2>1, SMT
<1>4. PICK s \in 0 .. m - 1 : k = frameSize + s \/ k = FirstV + s
  <2>1. k - 4 * m \in 0 .. m - 1 \/ k - 5 * m \in 0 .. m - 1
    BY <1>2, <1>3, SMT
  <2>2. k = 4 * m + (k - 4 * m) /\ k = 5 * m + (k - 5 * m)
    BY <1>2, <1>3, SMT
  <2> QED BY <1>3, <2>1, <2>2
<1> DEFINE p == argbPixels[Corner(s)]
<1>5. p \in Pixels /\ Grey(p)
  <2> DEFINE i == s \div a
             j == s % a
  <2>1. i \in Nat /\ j \in 0 .. a - 1 /\ s = a * i + j
    BY <1>1, <1>2, SMT
  <2>2. i <= b - 1
    <3> HIDE DEF i, j
    <3>1. CASE b <= i
      <4>1. b * a <= i * a /\ b * a = m /\ i * a = a * i
        <5>1. b * a <= i * a
          BY <2>1, <3>1, ProductMonotonic
        <5>2. b * a = m /\ i * a = a * i
          BY <1>2, <2>1, SMT
        <5> QED BY <5>1, <5>2
      <4>2. a * i \in Nat
        BY <2>1, ProductNat
      <4> QED BY <1>2, <2>1, <4>1, <4>2, SMT
    <3> QED BY <1>1, <2>1, <3>1, SMT
  <2>3. 2 * i \in 0 .. height - 1 /\ 2 * j \in 0 .. width - 1
    <3> HIDE DEF i, j
    <3> QED BY <1>1, <2>1, <2>2, SMT
  <2>4. Corner(s) = 2 * i * width + 2 * j
    BY <1>3 DEF Corner
  <2> HIDE DEF i, j
  <2>5. Corner(s) \in 0 .. frameSize - 1
    BY <2>3, <2>4, SizeNat, CellInGrid DEF TypeOK, frameSize
  <2> QED BY <2>5, ColoursAssumption DEF TypeOK, GreyPicture
<1>6. yuv[frameSize + s] = Signed(Clamp(U(p))) /\ yuv[FirstV + s] = Signed(Clamp(V(p)))
  <2>1. ChromaUpTo(m)
    BY <1>3 DEF PlanesSoFar, GreyPicture
  <2>2. s \in 0 .. (frameSize \div 4) - 1 /\ s < m
    BY <1>2, <1>3, SMT
  <2> QED BY <2>1, <2>2 DEF ChromaUpTo
<1> QED BY <1>4, <1>5, <1>6, GreySamples

DecodedSoFar ==
  /\ pc = "encode" => out = <<>>
  /\ pc = "decode" => Len(out) = index

LEMMA DecodedStep ==
  ASSUME TypeOK, DecodedSoFar, [Next]_vars
  PROVE  DecodedSoFar'
<1>1. CASE Encode
  <2>1. /\ UNCHANGED <<picture, out>> /\ pc = "encode" /\ Advance("decode")
    BY <1>1 DEF Encode
  <2>2. out' = <<>> /\ (pc' = "decode" => index' = 0)
    BY <2>1, AdvanceCases DEF DecodedSoFar
  <2>3. Len(<<>>) = 0
    BY SMT
  <2> QED BY <2>2, <2>3 DEF DecodedSoFar
<1>2. CASE Decode
  <2>1. /\ UNCHANGED picture /\ pc = "decode" /\ Advance("done") /\ Len(out) = index
    BY <1>2 DEF Decode, DecodedSoFar
  <2>2. PICK q : out' = Append(out, q)
    BY <1>2 DEF Decode
  <2>3. Len(out') = Len(out) + 1
    BY <2>2, SMT DEF TypeOK
  <2>4. pc' = "done" \/ (pc' = "decode" /\ index' = index + 1)
    BY <2>1, AdvanceCases
  <2> QED BY <2>1, <2>3, <2>4 DEF DecodedSoFar
<1>3. CASE Fault
  BY <1>3 DEF Fault, DecodedSoFar
<1>4. CASE UNCHANGED vars
  BY <1>4 DEF vars, picture, DecodedSoFar, index
<1> QED BY <1>1, <1>2, <1>3, <1>4 DEF Next

\* A grey picture of even width and height, whatever its size, is decoded to a
\* grey picture with no pixel off by more than one.
THEOREM GreysKept == Spec => []GreyStaysGrey
<1> DEFINE IInv == DecodedSoFar /\ GreyStaysGrey
<1>1. Init => IInv
  BY DEF Init, DecodedSoFar, GreyStaysGrey
<1>2. TypeOK /\ PlanesSoFar /\ IInv /\ [Next]_vars => IInv'
  <2> SUFFICES ASSUME TypeOK, PlanesSoFar, DecodedSoFar, GreyStaysGrey, [Next]_vars
               PROVE  GreyStaysGrey'
    BY DecodedStep
  <2>1. CASE Decode
    <3> SUFFICES ASSUME GreyPicture', NEW n \in DOMAIN out'
                 PROVE  Grey(out'[n]) /\ out'[n].red - argbPixels'[n - 1].red \in -1 .. 1
      BY DEF GreyStaysGrey, GreyPicture
    <3>1. /\ pc = "decode" /\ argbPixels' = argbPixels /\ Len(out) = index /\ GreyPicture
      BY <2>1 DEF Decode, picture, DecodedSoFar, GreyPicture, Even
    <3>2. PICK v \in Sample(uvIndex), u \in Sample(uvIndex + 1) :
            out' = Append(out, Decoded(yuv[index], v, u))
      BY <2>1 DEF Decode
    <3>3. v = -128 /\ u = -128
      <4>1. /\ uvIndex \in frameSize .. ArrayLength - 1
            /\ uvIndex + 1 \in frameSize .. ArrayLength - 1
        BY <3>1, EvenReads DEF GreyPicture
      <4>2. yuv[uvIndex] = -128 /\ yuv[uvIndex + 1] = -128
        BY <3>1, <4>1, GreyChroma
      <4>3. uvIndex \in DOMAIN yuv /\ uvIndex + 1 \in DOMAIN yuv
        <5>1. frameSize \in Nat /\ ArrayLength \in Nat /\ DOMAIN yuv = 0 .. ArrayLength - 1
          BY SizeNat DEF TypeOK
        <5> QED BY <4>1, <5>1, SMT
      <4> QED BY <3>2, <4>2, <4>3 DEF Sample
    <3> DEFINE p == argbPixels[index]
               q == Decoded(yuv[index], -128, -128)
    <3>4. Grey(q) /\ q.red - p.red \in -1 .. 1 /\ q \in Pixels
      <4>1. p \in Pixels /\ Grey(p)
        BY <3>1, IndexInFrame, ColoursAssumption DEF TypeOK, GreyPicture
      <4>2. yuv[index] = Signed(Clamp(Y(p)))
        BY <3>1, IndexInFrame DEF PlanesSoFar, LumaUpTo, GreyPicture
      <4>3. yuv[index] \in Bytes /\ -128 \in Bytes
        <5>1. yuv[index] \in Bytes
          BY IndexInArray DEF TypeOK
        <5> QED BY <5>1, SMT DEF Bytes
      <4> QED BY <4>1, <4>2, <4>3, GreySamples, DecodedPixel
    <3>5. out' = Append(out, q)
      BY <3>2, <3>3
    <3> HIDE DEF q
    <3>6. /\ Len(out) \in Nat /\ DOMAIN out = 1 .. Len(out)
          /\ DOMAIN out' = 1 .. Len(out) + 1
          /\ \A k \in 1 .. Len(out) : out'[k] = out[k]
          /\ out'[Len(out) + 1] = q
      BY <3>4, <3>5, SMT DEF TypeOK
    <3>7. CASE n = Len(out) + 1
      <4>1. n - 1 = index
        BY <3>1, <3>6, <3>7, SMT
      <4> QED BY <3>1, <3>4, <3>6, <3>7, <4>1
    <3>8. CASE n \in 1 .. Len(out)
      BY <3>1, <3>6, <3>8 DEF GreyStaysGrey, GreyPicture
    <3> QED BY <3>6, <3>7, <3>8, SMT
  <2>2. CASE UNCHANGED <<picture, out>>
    BY <2>2 DEF GreyStaysGrey, picture, Even
  <2> QED BY <2>1, <2>2 DEF Next, Encode, Fault, vars
<1> QED BY <1>1, <1>2, Typing, InvariantPlanes, PTL DEF Spec
=============================================================================
