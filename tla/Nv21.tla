--------------------------------- MODULE Nv21 ---------------------------------
(***************************************************************************)
(* The two image conversions of detectLandmark: convertBitmapPixelToNV21   *)
(* encodes the ARGB pixels of the bitmap into a byte array, and            *)
(* convertNV21ToArray2d decodes that array into dlib's image.  A step is   *)
(* one round of the inner loop of either function.                         *)
(***************************************************************************)
EXTENDS Integers, Sequences

CONSTANTS
  Sizes,     \* the pairs <<width, height>> of pictures
  Colours,   \* the colours of their pixels
  Strays     \* the bytes that memory outside the array may hold

Channel == 0 .. 255
Pixels  == [red : Channel, green : Channel, blue : Channel]
Bytes   == -128 .. 127     \* jbyte is signed

ASSUME SizesAssumption   == Sizes \subseteq (Nat \ {0}) \X (Nat \ {0})
ASSUME ColoursAssumption == Colours \subseteq Pixels
ASSUME StraysAssumption  == Strays \subseteq Bytes

VARIABLES
  width, height,
  argbPixels,       \* the picture, row by row
  yuv,              \* the byte array between the two functions
  pc,               \* "encode", "decode", "done" or "fault"
  row, column,      \* the loop counters of the function that runs
  uIndex, vIndex,   \* where the next chroma samples go
  out,              \* the decoded pixels so far
  outside           \* whether an index was outside of the array

picture == <<width, height, argbPixels>>
vars    == <<picture, yuv, pc, row, column, uIndex, vIndex, out, outside>>

frameSize == width * height
\* index and yIndex count the rounds, so they are always row * width + column
index     == row * width + column

(***************************************************************************)
(* Colour arithmetic.  The shift of a negative int rounds down, as \div.   *)
(***************************************************************************)
Clamp(x) == IF x < 0 THEN 0 ELSE IF x > 255 THEN 255 ELSE x

\* A faulty variant: the array has unsigned bytes.
Unsigned(x) == x

Signed(x) == IF x > 127 THEN x - 256 ELSE x     \* int to jbyte

Y(p) == (( 66 * p.red + 129 * p.green +  25 * p.blue + 128) \div 256) + 16
U(p) == ((-38 * p.red -  74 * p.green + 112 * p.blue + 128) \div 256) + 128
V(p) == ((112 * p.red -  94 * p.green -  18 * p.blue + 128) \div 256) + 128

\* A faulty variant: no mask, so that chroma may be negative.
Unmasked(b, n) == b - n

\* 0xff & b - n: the subtraction binds first, the result is never negative.
Masked(b, n) == (b - n) % 256

Scaled(x) == IF x < 0 THEN 0 ELSE IF x > 255000 THEN 255 ELSE x \div 1000

\* A faulty variant: the samples are not offset.
WithoutOffset(y, v, u) ==
  [red   |-> Scaled(1164 * Masked(y, 0) + 1596 * Masked(v, 0)),
   green |-> Scaled(1164 * Masked(y, 0) -  813 * Masked(v, 0) - 391 * Masked(u, 0)),
   blue  |-> Scaled(1164 * Masked(y, 0) + 2018 * Masked(u, 0))]

Decoded(y, v, u) ==
  [red   |-> Scaled(1164 * Masked(y, 16) + 1596 * Masked(v, 128)),
   green |-> Scaled(1164 * Masked(y, 16) -  813 * Masked(v, 128) - 391 * Masked(u, 128)),
   blue  |-> Scaled(1164 * Masked(y, 16) + 2018 * Masked(u, 128))]

(***************************************************************************)
(* convertBitmapPixelToNV21 allocates the array and places the planes.     *)
(***************************************************************************)
\* A faulty variant: the allocation that is commented out in the source.
RoundedUp == frameSize + 2 * ((height + 1) \div 2) * ((width + 1) \div 2)

ArrayLength == (frameSize * 3) \div 2

\* A faulty variant: V starts right behind U's first sample, as if interleaved.
BehindFirstU == frameSize + 1

FirstV == frameSize + ((ArrayLength - frameSize) \div 2)

Picture ==
  /\ \E size \in Sizes : width = size[1] /\ height = size[2]
  /\ argbPixels \in [0 .. frameSize - 1 -> Colours]

Init ==
  /\ Picture
  /\ yuv = [k \in 0 .. ArrayLength - 1 |-> 0]
  /\ pc = "encode"
  /\ row = 0 /\ column = 0
  /\ uIndex = frameSize
  /\ vIndex = FirstV
  /\ out = <<>>
  /\ outside = FALSE

\* The two nested loops go on; their last round leads to pc = next.
Advance(next) ==
  IF column + 1 < width
  THEN column' = column + 1 /\ UNCHANGED <<row, pc>>
  ELSE /\ column' = 0
       /\ row' = IF row + 1 < height THEN row + 1 ELSE 0
       /\ pc' = IF row + 1 < height THEN pc ELSE next

\* A faulty variant: every other pixel of every scanline.
EveryScanline == index % 2 = 0

\* every other pixel and every other scanline
Sampled == row % 2 = 0 /\ index % 2 = 0

Encode ==
  /\ pc = "encode"
  /\ LET p == argbPixels[index]
         byteAt(k) ==
           IF Sampled /\ k = vIndex THEN Signed(Clamp(V(p)))
           ELSE IF Sampled /\ k = uIndex THEN Signed(Clamp(U(p)))
           ELSE IF k = index THEN Signed(Clamp(Y(p)))
           ELSE yuv[k]
     IN  yuv' = [k \in DOMAIN yuv |-> byteAt(k)]
  /\ outside' = (outside \/ (Sampled /\ ~({uIndex, vIndex} \subseteq DOMAIN yuv)))
  /\ uIndex' = IF Sampled THEN uIndex + 1 ELSE uIndex
  /\ vIndex' = IF Sampled THEN vIndex + 1 ELSE vIndex
  /\ Advance("decode")
  /\ UNCHANGED <<picture, out>>

(***************************************************************************)
(* convertNV21ToArray2d                                                    *)
(***************************************************************************)
uvIndex == frameSize + (row \div 2) * width + (column - (column % 2))

\* What a read of yuv[k] may yield.
Sample(k) == IF k \in DOMAIN yuv THEN {yuv[k]} ELSE Strays

Decode ==
  /\ pc = "decode"
  /\ \E v \in Sample(uvIndex), u \in Sample(uvIndex + 1) :
       out' = Append(out, Decoded(yuv[index], v, u))
  /\ outside' = (outside \/ ~({uvIndex, uvIndex + 1} \subseteq DOMAIN yuv))
  /\ Advance("done")
  /\ UNCHANGED <<picture, yuv, uIndex, vIndex>>

\* What lies outside of the array may not be accessible, or not survive a write.
Fault ==
  /\ outside /\ pc # "fault"
  /\ pc' = "fault"
  /\ UNCHANGED <<picture, yuv, row, column, uIndex, vIndex, out, outside>>

Next == Encode \/ Decode \/ Fault

Spec == Init /\ [][Next]_vars

(***************************************************************************)
(* Properties                                                              *)
(***************************************************************************)
TypeOK ==
  /\ <<width, height>> \in Sizes
  /\ argbPixels \in [0 .. frameSize - 1 -> Colours]
  /\ yuv \in [0 .. ArrayLength - 1 -> Bytes]
  /\ pc \in {"encode", "decode", "done", "fault"}
  /\ row \in 0 .. height - 1 /\ column \in 0 .. width - 1
  /\ uIndex \in Nat /\ vIndex \in Nat
  /\ out \in Seq(Pixels)
  /\ outside \in BOOLEAN

Even == width % 2 = 0 /\ height % 2 = 0

\* For a picture of even width and height, neither function ever uses an index
\* outside of the byte array: length, plane starts and sampling fit together.
EvenStaysInside == Even => ~outside

\* For every other picture one of them does, so that evenness is not only
\* sufficient but necessary.
OddGoesOutside == pc = "done" /\ ~Even => outside

\* What the encoder really leaves behind for an even picture: the whole luma
\* plane, then a whole plane of U, then a whole plane of V (which is I420).
PlanarLayout ==
  pc = "decode" /\ Even =>
    \A r \in 0 .. height - 1, c \in 0 .. width - 1 :
      LET p      == argbPixels[r * width + c]
          corner == argbPixels[(r - (r % 2)) * width + (c - (c % 2))]
          k      == frameSize + (r \div 2) * (width \div 2) + c \div 2
      IN  /\ yuv[r * width + c] = Signed(Y(p))
          /\ yuv[k] = Signed(U(corner))
          /\ yuv[k + frameSize \div 4] = Signed(V(corner))

\* Although encoder and decoder disagree about the chroma planes, a picture in
\* shades of grey comes back in shades of grey, none off by more than one.
Grey(p) == p.red = p.green /\ p.green = p.blue

GreyStaysGrey ==
  Even /\ (\A k \in DOMAIN argbPixels : Grey(argbPixels[k])) =>
    \A n \in DOMAIN out :
      Grey(out[n]) /\ out[n].red - argbPixels[n - 1].red \in -1 .. 1

\* The masks make every chroma sample count as positive, so that no picture of
\* any size comes back with a pixel that is more green than red, or than blue.
NeverGreen ==
  \A n \in DOMAIN out : out[n].green <= out[n].red /\ out[n].green <= out[n].blue

(***************************************************************************)
(* What a comment in convertBitmapPixelToNV21 says, and what does not hold *)
(***************************************************************************)
\* "NV21 has a plane of Y and interleaved planes of VU": V first, then U.
InterleavedVU ==
  pc = "decode" /\ Even =>
    \A r \in 0 .. height - 1, c \in 0 .. width - 1 :
      LET corner == argbPixels[(r - (r % 2)) * width + (c - (c % 2))]
          k      == frameSize + (r \div 2) * width + (c - (c % 2))
      IN  yuv[k] = Signed(V(corner)) /\ yuv[k + 1] = Signed(U(corner))

\* "for every 4 Y pixels there are 1 V and 1 U", which is what the array and the
\* planes in it are laid out for: the samples of U that were written end where
\* those of V begin, and those of V end with the array.
ChromaFitsPlanes == pc = "decode" => uIndex <= FirstV /\ vIndex <= ArrayLength
=============================================================================
