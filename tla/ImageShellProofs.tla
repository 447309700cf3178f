--------------------------- MODULE ImageShellProofs ---------------------------
(***************************************************************************)
(* The two programs for a user at a terminal: the image rotation, and the  *)
(* shell.                                                                  *)
(***************************************************************************)
EXTENDS ImageRotation, Shell, SequenceTheorems, TLAPS
-------------------------------------------------------------------------------
(* The image rotation, for images of every size.  Rows and columns. *)

(* Dividing a cell's index by the length of a row gives the row and the    *)
(* column it was computed from.                                            *)
LEMMA RowAndColumn ==
  ASSUME NEW s \in Nat \ {0}, NEW i \in Nat, NEW j \in 0 .. (s - 1)
  PROVE  (s * i + j) \div s = i /\ (s * i + j) % s = j
<1>1. (s * i + j) \div s = i
  BY SMT
<1>2. (s * i + j) % s = j
  BY SMT
<1> QED
  BY <1>1, <1>2

(* Every index has a row and a column. *)
LEMMA IndexSplits ==
  ASSUME NEW s \in Nat \ {0}, NEW k \in Nat
  PROVE  k \div s \in Nat /\ k % s \in 0 .. (s - 1) /\ k = s * (k \div s) + (k % s)
BY SMT

(* A row below h and a column below w give an index below w * h ... *)
LEMMA IndexInside ==
  ASSUME NEW w \in Nat \ {0}, NEW h \in Nat \ {0}, NEW i \in 0 .. (h - 1), NEW j \in 0 .. (w - 1)
  PROVE  w * i + j \in 0 .. (w * h - 1)
<1>1. w * h = w * i + w * (h - i)
  BY SMT
<1>2. w * (h - i) = w + w * (h - i - 1)
  BY SMT
<1>3. w * (h - i - 1) >= 0 /\ w * i >= 0
  BY SMT
<1> QED
  BY <1>1, <1>2, <1>3, SMT

(* ... and an index below w * h has a row below h. *)
LEMMA RowInside ==
  ASSUME NEW w \in Nat \ {0}, NEW h \in Nat \ {0}, NEW k \in 0 .. (w * h - 1)
  PROVE  k \div w \in 0 .. (h - 1) /\ k % w \in 0 .. (w - 1)
<1>1. k \in Nat /\ k < w * h
  BY SMT
<1>2. k \div w \in Nat /\ k % w \in 0 .. (w - 1) /\ k = w * (k \div w) + (k % w)
  BY <1>1, IndexSplits
<1>3. ASSUME k \div w >= h PROVE FALSE
  <2> DEFINE q == k \div w
  <2>1. q \in Nat /\ q >= h /\ k = w * q + (k % w) /\ k % w \in 0 .. (w - 1)
    BY <1>2, <1>3
  <2> HIDE DEF q
  <2>2. w * q = w * h + w * (q - h)
    BY <2>1, SMT
  <2>3. w * (q - h) >= 0
    BY <2>1, SMT
  <2> QED
    BY <2>1, <2>2, <2>3, <1>1, SMT
<1> QED
  BY <1>2, <1>3, SMT
-------------------------------------------------------------------------------
(* Turning. *)

(* The cell a turned image's cell comes from lies in the image. *)
LEMMA SourceInside ==
  ASSUME NEW m, IsImage(m), NEW i \in 0 .. (m.width - 1), NEW j \in 0 .. (m.height - 1)
  PROVE  /\ SourceIndex(m, i, j) = m.width * j + (m.width - 1 - i)
         /\ SourceIndex(m, i, j) \in 0 .. (m.width * m.height - 1)
<1>1. m.width \in Nat \ {0} /\ m.height \in Nat \ {0}
  BY DEF IsImage
<1>2. m.width - 1 - i \in 0 .. (m.width - 1)
  BY <1>1, SMT
<1>3. m.width * j + (m.width - 1 - i) \in 0 .. (m.width * m.height - 1)
  BY <1>1, <1>2, IndexInside
<1>4. m.width * j \in Int
  BY <1>1, SMT
<1>5. SourceIndex(m, i, j) = m.width * j + (m.width - 1 - i)
  BY <1>1, <1>4, SMT DEF SourceIndex
<1> QED
  BY <1>3, <1>5

(* A turned image is an image, with the sides exchanged. *)
LEMMA RotateIsImage ==
  ASSUME NEW m, IsImage(m)
  PROVE  IsImage(Rotate(m)) /\ Rotate(m).width = m.height /\ Rotate(m).height = m.width
<1>1. m.width \in Nat \ {0} /\ m.height \in Nat \ {0}
      /\ m.pixels \in [0 .. (m.width * m.height - 1) -> Colours]
  BY DEF IsImage
<1>2. m.width * m.height = m.height * m.width
  BY <1>1, SMT
<1>3. ASSUME NEW k \in 0 .. (m.width * m.height - 1)
      PROVE  m.pixels[SourceIndex(m, k \div m.height, k % m.height)] \in Colours
  <2>1. k \div m.height \in 0 .. (m.width - 1) /\ k % m.height \in 0 .. (m.height - 1)
    BY <1>1, <1>2, RowInside
  <2>2. SourceIndex(m, k \div m.height, k % m.height) \in 0 .. (m.width * m.height - 1)
    BY <2>1, SourceInside
  <2> QED
    BY <1>1, <2>2
<1>4. Rotate(m).pixels \in [0 .. (Rotate(m).width * Rotate(m).height - 1) -> Colours]
  BY <1>2, <1>3 DEF Rotate
<1> QED
  BY <1>1, <1>4 DEF Rotate, IsImage

(* Row i, column j of a turned image. *)
LEMMA RotateColour ==
  ASSUME NEW m, IsImage(m), NEW i \in 0 .. (m.width - 1), NEW j \in 0 .. (m.height - 1)
  PROVE  ColourAt(Rotate(m), i, j) = ColourAt(m, j, m.width - 1 - i)
<1>1. m.width \in Nat \ {0} /\ m.height \in Nat \ {0} /\ i \in Nat
  BY DEF IsImage
<1>2. m.width * m.height = m.height * m.width
  BY <1>1, SMT
<1>3. m.height * i + j \in 0 .. (m.width * m.height - 1)
  BY <1>1, <1>2, IndexInside
<1>4. (m.height * i + j) \div m.height = i /\ (m.height * i + j) % m.height = j
  BY <1>1, RowAndColumn
<1>5. Rotate(m).pixels[m.height * i + j] = m.pixels[SourceIndex(m, i, j)]
  BY <1>3, <1>4 DEF Rotate
<1>6. SourceIndex(m, i, j) = m.width * j + (m.width - 1 - i)
  BY SourceInside
<1>7. Rotate(m).width = m.height
  BY RotateIsImage
<1> QED
  BY <1>5, <1>6, <1>7 DEF ColourAt

(* One more turn. *)
LEMMA TurnOnce ==
  ASSUME NEW m, IsImage(m), NEW t, IsImage(t), NEW n \in 0 .. 2, IsTurned(m, n, t)
  PROVE  IsTurned(m, n + 1, Rotate(t))
<1>1. /\ m.width \in Nat \ {0} /\ m.height \in Nat \ {0}
      /\ t.width \in Nat \ {0} /\ t.height \in Nat \ {0}
  BY DEF IsImage
<1>2. Rotate(t).width = t.height /\ Rotate(t).height = t.width
  BY RotateIsImage
<1>3. ASSUME NEW i \in 0 .. (t.width - 1), NEW j \in 0 .. (t.height - 1)
      PROVE  /\ ColourAt(Rotate(t), i, j) = ColourAt(t, j, t.width - 1 - i)
             /\ t.width - 1 - i \in 0 .. (t.width - 1)
  BY <1>1, RotateColour, SMT
<1>4. CASE n = 0
  BY <1>1, <1>2, <1>3, <1>4 DEF IsTurned
<1>5. CASE n = 1
  BY <1>1, <1>2, <1>3, <1>5 DEF IsTurned
<1>6. CASE n = 2
  BY <1>1, <1>2, <1>3, <1>6 DEF IsTurned
<1> QED
  BY <1>4, <1>5, <1>6
-------------------------------------------------------------------------------
(* Files. *)

(* A raster cell of pixel and channel. *)
LEMMA RasterCell ==
  ASSUME NEW m, IsImage(m), NEW s \in Nat \ {0}, m.width * BYTES_COUNT <= s,
         NEW i \in 0 .. (m.height - 1), NEW j \in 0 .. (m.width - 1),
         NEW c \in 0 .. (BYTES_COUNT - 1)
  PROVE  /\ s * i + j * BYTES_COUNT + c \in 0 .. (s * m.height - 1)
         /\ RasterByte(m, s, s * i + j * BYTES_COUNT + c) = <<ColourAt(m, i, j), c>>
<1> DEFINE B == BYTES_COUNT
           w == m.width
           r == B * j + c
<1>1. w \in Nat \ {0} /\ m.height \in Nat \ {0} /\ B \in Nat \ {0} /\ i \in Nat /\ j \in Nat
  BY ImageAssumption DEF IsImage
<1>2. c \in 0 .. (B - 1) /\ j \in 0 .. (w - 1) /\ w * B <= s
  OBVIOUS
<1> HIDE DEF B, w
<1>3. w * B = B * w /\ B * j = j * B
  BY <1>1, SMT
<1>4. r \in 0 .. (B * w - 1)
  BY <1>1, <1>2, IndexInside
<1>5. r \in 0 .. (s - 1) /\ r < w * B
  BY <1>1, <1>2, <1>3, <1>4, SMT
<1>6. r \div B = j /\ r % B = c
  BY <1>1, <1>2, RowAndColumn
<1> HIDE DEF r
<1>7. s * i + r \in 0 .. (s * m.height - 1) /\ (s * i + r) \div s = i /\ (s * i + r) % s = r
  BY <1>1, <1>5, IndexInside, RowAndColumn
<1>8. s * i + j * B + c = s * i + r
  BY <1>1, <1>2, <1>3, SMT DEF r
<1>9. RasterByte(m, s, s * i + r) = <<ColourAt(m, i, j), c>>
  BY <1>5, <1>6, <1>7 DEF RasterByte, ColourAt, B, w
<1> QED
  BY <1>7, <1>8, <1>9 DEF B

(* The raster of an image, read with the length of its rows, is the image. *)
LEMMA RasterReadsBack ==
  ASSUME NEW m, IsImage(m), NEW s \in Nat \ {0}, m.width * BYTES_COUNT <= s
  PROVE  FromRaster(m.width, m.height, s, ToRaster(m, s, s * m.height)) = m
<1> DEFINE b == ToRaster(m, s, s * m.height)
<1>1. m.width \in Nat \ {0} /\ m.height \in Nat \ {0} /\ BYTES_COUNT \in Nat \ {0}
      /\ m.pixels \in [0 .. (m.width * m.height - 1) -> Colours]
      /\ m = [width |-> m.width, height |-> m.height, pixels |-> m.pixels]
  BY ImageAssumption DEF IsImage
<1>2. ASSUME NEW k \in 0 .. (m.width * m.height - 1)
      PROVE  PixelAt(b, s * (k \div m.width) + (k % m.width) * BYTES_COUNT) = m.pixels[k]
  <2> DEFINE i == k \div m.width
             j == k % m.width
             o == s * i + j * BYTES_COUNT
             v == m.pixels[k]
  <2>1. i \in 0 .. (m.height - 1) /\ j \in 0 .. (m.width - 1) /\ k = m.width * i + j
    BY <1>1, RowInside, IndexSplits
  <2>2. v = ColourAt(m, i, j) /\ v \in Colours
    BY <1>1, <2>1 DEF ColourAt
  <2> SUFFICES PixelAt(b, o) = v
    OBVIOUS
  <2> HIDE DEF i, j, v
  <2>3. ASSUME NEW c \in 0 .. (BYTES_COUNT - 1)
        PROVE  o + c \in DOMAIN b /\ b[o + c] = <<v, c>>
    <3>1. o + c \in 0 .. (s * m.height - 1) /\ RasterByte(m, s, o + c) = <<ColourAt(m, i, j), c>>
      BY <2>1, RasterCell
    <3> QED
      BY <3>1, <2>2 DEF ToRaster
  <2>4. 0 \in 0 .. (BYTES_COUNT - 1) /\ o + 0 = o
    <3>1. s * i \in Int /\ j * BYTES_COUNT \in Int
      BY <1>1, <2>1, SMT
    <3> QED
      BY <1>1, <3>1, SMT
  <2> HIDE DEF o, b
  <2>5. b[o] = <<v, 0>>
    BY <2>3, <2>4
  <2>6. CASE v \in Pixels
    <3>1. \E p \in Pixels : \A c \in 0 .. (BYTES_COUNT - 1) :
            o + c \in DOMAIN b /\ b[o + c] = <<p, c>>
      BY <2>3, <2>6
    <3> DEFINE g == CHOOSE p \in Pixels : b[o] = <<p, 0>>
    <3>2. PixelAt(b, o) = g
      BY <3>1 DEF PixelAt
    <3>3. b[o] = <<g, 0>>
      BY <2>5, <2>6
    <3> HIDE DEF g
    <3> QED
      BY <3>2, <3>3, <2>5
  <2>7. CASE v \notin Pixels
    <3>1. v = Filler
      BY <2>2, <2>7 DEF Colours
    <3>2. ASSUME NEW p \in Pixels, \A c \in 0 .. (BYTES_COUNT - 1) :
            o + c \in DOMAIN b /\ b[o + c] = <<p, c>>
          PROVE  FALSE
      BY <3>2, <2>4, <2>5, <2>7
    <3>3. PixelAt(b, o) = Filler
      BY <3>2 DEF PixelAt
    <3> QED
      BY <3>1, <3>3
  <2> QED
    BY <2>6, <2>7
<1> HIDE DEF b
<1>3. FromRaster(m.width, m.height, s, b).pixels = m.pixels
  BY <1>1, <1>2 DEF FromRaster
<1> QED
  BY <1>1, <1>3 DEF FromRaster, b

(* What is read from a file is an image. *)
LEMMA FromRasterIsImage ==
  ASSUME NEW w \in Nat \ {0}, NEW h \in Nat \ {0}, NEW s, NEW b
  PROVE  IsImage(FromRaster(w, h, s, b))
<1>1. ASSUME NEW o PROVE PixelAt(b, o) \in Colours
  BY DEF PixelAt, Colours
<1> QED
  BY <1>1 DEF FromRaster, IsImage

(* Rows that need padding are as long for the code as in the format. *)
LEMMA StrideIsBmpStride ==
  ASSUME NEW w \in Nat \ {0}, (w * BYTES_COUNT) % 4 # 0
  PROVE  /\ Stride(w) = BmpStride(w) /\ Stride(w) \in Nat \ {0}
         /\ w * BYTES_COUNT <= Stride(w)
<1> DEFINE x == w * BYTES_COUNT
<1>1. x \in Nat /\ x % 4 # 0
  BY ImageAssumption, SMT
<1> HIDE DEF x
<1>2. x + (4 - (x % 4)) = ((x + 3) \div 4) * 4 /\ x + (4 - (x % 4)) \in Nat \ {0} /\ x <= x + (4 - (x % 4))
  BY <1>1, SMT
<1> QED
  BY <1>2 DEF x, Stride, BmpStride, Padding

(* If biSizeImage does not wrap, to_bmp writes what it reads back, and what *)
(* every other program reads as the image if its rows need padding.         *)
LEMMA FileReadsBack ==
  ASSUME NEW m, IsImage(m), Stride(m.width) * m.height < SizeMod
  PROVE  /\ SizeImage(m.width, m.height) = Stride(m.width) * m.height
         /\ FromRaster(File(m).width, File(m).height, Stride(File(m).width), File(m).raster) = m
         /\ (m.width * BYTES_COUNT) % 4 # 0 => BmpImage(File(m)) = m
<1>1. m.width \in Nat \ {0} /\ m.height \in Nat \ {0} /\ BYTES_COUNT \in Nat \ {0} /\ SizeMod \in Nat \ {0}
  BY ImageAssumption DEF IsImage
<1>2. Stride(m.width) \in Nat \ {0} /\ m.width * BYTES_COUNT <= Stride(m.width)
  <2> DEFINE x == m.width * BYTES_COUNT
  <2>1. x \in Nat
    BY <1>1, SMT
  <2> HIDE DEF x
  <2>2. x + (4 - (x % 4)) \in Nat \ {0} /\ x <= x + (4 - (x % 4))
    BY <2>1, SMT
  <2> QED
    BY <2>2 DEF x, Stride, Padding
<1>3. SizeImage(m.width, m.height) = Stride(m.width) * m.height
  <2> DEFINE n == Stride(m.width) * m.height
  <2>1. n \in Nat /\ n < SizeMod
    BY <1>1, <1>2, SMT
  <2> HIDE DEF n
  <2>2. n % SizeMod = n
    BY <1>1, <2>1, SMT
  <2> QED
    BY <2>2 DEF n, SizeImage
<1>4. FromRaster(m.width, m.height, Stride(m.width), ToRaster(m, Stride(m.width), Stride(m.width) * m.height)) = m
  BY <1>2, RasterReadsBack
<1>5. /\ File(m).width = m.width /\ File(m).height = m.height
      /\ File(m).raster = ToRaster(m, Stride(m.width), Stride(m.width) * m.height)
  BY <1>3 DEF File
<1>6. (m.width * BYTES_COUNT) % 4 # 0 => BmpStride(m.width) = Stride(m.width)
  BY <1>1, StrideIsBmpStride
<1> QED
  BY <1>3, <1>4, <1>5, <1>6 DEF BmpImage
-------------------------------------------------------------------------------
(* Types, memory and the output file. *)

(* An image is in memory exactly between its allocation and its end, and   *)
(* the output file is not opened before the source is read.                *)
Holding == pc \in {"output", "rotate", "crashed"}

MemoryInv ==
  /\ TypeOK
  /\ file \in Sources
  /\ Holding => file.valid /\ RasterComplete
  /\ pc \in {"output", "rotate"} => IsImage(image)
  /\ arrays = IF Holding \/ (pc = "done" /\ file.valid /\ ~RasterComplete /\ exit = 1) THEN 1 ELSE 0
  /\ out # NoFile => file.valid /\ RasterComplete

(* The angle validated is a whole number. *)
LEMMA ValidateIsInt ==
  ASSUME NEW a \in Int
  PROVE  Validate(a) \in Int
BY SMT DEF Validate, Remainder, Truncated

(* At the start no array is held and no output file is open. *)
LEMMA MemoryInvInit == Init => MemoryInv
<1> SUFFICES ASSUME Init PROVE MemoryInv
  OBVIOUS
<1> USE DEF Init
<1>1. angle \in Int /\ arrays \in 0 .. 1 /\ exit \in 0 .. 4 /\ left \in Nat
  BY ImageAssumption
<1>2. wild \in BOOLEAN
  OBVIOUS
<1>3. TypeOK
  BY <1>1, <1>2 DEF TypeOK
<1> QED
  BY <1>3 DEF MemoryInv, Holding

(* Every step keeps the arrays accounted for. *)
LEMMA MemoryInvNext == MemoryInv /\ [Next]_vars => MemoryInv'
<1> SUFFICES ASSUME MemoryInv, [Next]_vars PROVE MemoryInv'
  OBVIOUS
<1> USE DEF MemoryInv, TypeOK, Holding, RasterComplete
<1>1. CASE WrongAngle
  BY <1>1 DEF WrongAngle, ExitWith
<1>2. CASE RightAngle
  <2>1. left' \in Nat \union {Forever}
    BY <1>2, ValidateIsInt, SMT DEF RightAngle
  <2> QED
    BY <1>2, <2>1 DEF RightAngle
<1>3. CASE Open
  BY <1>3 DEF Open
<1>4. CASE ReadFails
  BY <1>4 DEF ReadFails, ExitWith
<1>5. CASE ReadRasterFails
  BY <1>5 DEF ReadRasterFails, ExitWith
<1>6. CASE ReadRaster
  <2>1. file.width \in Nat \ {0} /\ file.height \in Nat \ {0}
    BY <1>6, ImageAssumption DEF ReadRaster
  <2>2. IsImage(image')
    BY <1>6, <2>1, FromRasterIsImage DEF ReadRaster
  <2>3. wild' \in BOOLEAN
    BY <1>6 DEF ReadRaster
  <2> QED
    BY <1>6, <2>2, <2>3 DEF ReadRaster
<1>7. CASE OpenOutput
  BY <1>7 DEF OpenOutput
<1>8. CASE OpenOutputFails
  BY <1>8 DEF OpenOutputFails
<1>9. CASE RotateStep
  <2>1. IsImage(image')
    BY <1>9, RotateIsImage DEF RotateStep
  <2>2. left' \in Nat \union {Forever}
    BY <1>9, SMT DEF RotateStep
  <2>3. arrays' = arrays
    BY <1>9, SMT DEF RotateStep
  <2> QED
    BY <1>9, <2>1, <2>2, <2>3 DEF RotateStep
<1>10. CASE Write
  <2>1. wild' \in BOOLEAN
    BY <1>10 DEF Write
  <2> QED
    BY <1>10, <2>1 DEF Write, ExitWith
<1>11. CASE WriteFails
  BY <1>11 DEF WriteFails, ExitWith
<1>12. CASE UNCHANGED vars
  BY <1>12 DEF vars
<1> QED
  BY <1>1, <1>2, <1>3, <1>4, <1>5, <1>6, <1>7, <1>8, <1>9, <1>10, <1>11, <1>12 DEF Next

(* The arrays are accounted for in every state. *)
LEMMA MemoryInvHolds == Spec => []MemoryInv
BY MemoryInvInit, MemoryInvNext, PTL DEF Spec

(* Every variable keeps its type: the image in memory is always a whole    *)
(* one, and never more than one array is allocated between two turns.      *)
THEOREM ImageTypeCorrect == Spec => []TypeOK
<1>1. MemoryInv => TypeOK
  BY DEF MemoryInv
<1> QED
  BY <1>1, MemoryInvHolds, PTL

(* The arrays of all turns are freed however main ends, except when the    *)
(* source's raster is short.                                               *)
THEOREM EveryArrayFreed == Spec => []ArraysFreed
<1>1. MemoryInv => ArraysFreed
  BY DEF MemoryInv, ArraysFreed, Holding
<1> QED
  BY <1>1, MemoryInvHolds, PTL

(* A source that cannot be read does not cost the output file.             *)
THEOREM OutputKept == Spec => []BadSourceKeepsOutput
<1>1. MemoryInv => BadSourceKeepsOutput
  BY DEF MemoryInv, BadSourceKeepsOutput
<1> QED
  BY <1>1, MemoryInvHolds, PTL
-------------------------------------------------------------------------------
(* The turned image. *)

(* Sources whose rows need padding in both directions and whose biSizeImage *)
(* does not wrap; and whose biSizeImage covers their rows.                  *)
SourcesNeedPadding ==
  \A f \in Sources : f.valid =>
    /\ (f.width * BYTES_COUNT) % 4 # 0 /\ (f.height * BYTES_COUNT) % 4 # 0
    /\ Stride(f.width) * f.height < SizeMod /\ Stride(f.height) * f.width < SizeMod

SourcesHaveRows ==
  \A f \in Sources : f.valid /\ f.sizeImage > 0 => BmpStride(f.width) * f.height <= f.sizeImage

Sides(m) == <<m.width, m.height>>

(* As long as the number of turns is not astronomical, the image in memory  *)
(* is the source turned as often as turns are done.                         *)
TurnInv ==
  /\ MemoryInv
  /\ pc \in {"open", "header"} /\ left # Forever /\ angle % 90 = 0 => left = Turns(angle)
  /\ pc \in {"output", "rotate"} =>
       /\ Sides(image) \in {<<file.width, file.height>>, <<file.height, file.width>>}
       /\ left # Forever /\ angle % 90 = 0 =>
            left \in 0 .. Turns(angle) /\ IsTurned(BmpImage(file), Turns(angle) - left, image)
  /\ Written =>
       /\ pc = "done" /\ file.valid /\ IsImage(image) /\ out = File(image)
       /\ Sides(image) \in {<<file.width, file.height>>, <<file.height, file.width>>}
       /\ angle % 90 = 0 => IsTurned(BmpImage(file), Turns(angle), image)

(* The loop of main turns as often as the angle asks, when the angle is a  *)
(* multiple of 90 that is accepted.                                        *)
LEMMA ValidateTurns ==
  ASSUME NEW a \in Int, a % 90 = 0, Validate(a) >= 0
  PROVE  Validate(a) = Turns(a)
BY SMT DEF Validate, Remainder, Truncated, Turns

(* There are at most three turns. *)
LEMMA TurnsInRange ==
  ASSUME NEW a \in Int
  PROVE  Turns(a) \in 0 .. 3
BY SMT DEF Turns

(* An image that is not turned is itself. *)
LEMMA NotTurned ==
  ASSUME NEW m, IsImage(m)
  PROVE  IsTurned(m, 0, m)
BY DEF IsTurned

(* Nothing has been turned at the start. *)
LEMMA TurnInvInit == Init => TurnInv
<1> SUFFICES ASSUME Init PROVE TurnInv
  OBVIOUS
<1>1. MemoryInv
  BY MemoryInvInit
<1> QED
  BY <1>1 DEF Init, TurnInv, Written

(* Every step keeps the image turned as often as the loop has run. *)
LEMMA TurnInvNext ==
  ASSUME SourcesNeedPadding
  PROVE  TurnInv /\ [Next]_vars => TurnInv'
<1> SUFFICES ASSUME TurnInv, [Next]_vars PROVE TurnInv'
  OBVIOUS
<1>1. MemoryInv /\ MemoryInv' /\ angle \in Int /\ file \in Sources
  BY MemoryInvNext DEF TurnInv, MemoryInv, TypeOK
<1>2. Turns(angle) \in 0 .. 3
  BY <1>1, TurnsInRange
<1>3. left \in Nat \union {Forever} /\ Forever \notin Int
  BY <1>1, ImageAssumption DEF MemoryInv, TypeOK
<1>4. file' = file /\ angle' = angle
  BY DEF Next, vars, WrongAngle, RightAngle, Open, ReadFails, ReadRasterFails, ReadRaster,
         OpenOutput, OpenOutputFails, RotateStep, Write, WriteFails
<1>5. ASSUME pc # "done", pc' \notin {"open", "header", "output", "rotate"}, out' = out PROVE TurnInv'
  BY <1>1, <1>5 DEF TurnInv, Written
<1>6. CASE WrongAngle \/ ReadFails \/ ReadRasterFails \/ OpenOutputFails \/ WriteFails
  BY <1>5, <1>6 DEF WrongAngle, ReadFails, ReadRasterFails, OpenOutputFails, WriteFails, ExitWith
<1>7. CASE RightAngle
  <2>1. left' # Forever /\ angle % 90 = 0 => left' = Turns(angle)
    <3>1. Validate(angle) \in Int
      BY <1>1, ValidateIsInt
    <3>2. left' # Forever => left' = Validate(angle) /\ Validate(angle) >= 0
      BY <1>7, <3>1, SMT DEF RightAngle
    <3> QED
      BY <1>1, <3>2, ValidateTurns
  <2> QED
    BY <1>1, <1>4, <1>7, <2>1 DEF RightAngle, TurnInv, Written
<1>8. CASE Open
  BY <1>1, <1>4, <1>8 DEF Open, TurnInv, Written
<1>9. CASE ReadRaster
  <2>1. file.width \in Nat \ {0} /\ file.height \in Nat \ {0} /\ (file.width * BYTES_COUNT) % 4 # 0
    BY <1>1, <1>9, ImageAssumption DEF ReadRaster, SourcesNeedPadding
  <2>2. image' = BmpImage(file) /\ IsImage(image')
    BY <1>9, <2>1, StrideIsBmpStride, FromRasterIsImage DEF ReadRaster, BmpImage
  <2>3. IsTurned(BmpImage(file), 0, image')
    BY <2>2, NotTurned
  <2>4. Sides(image') = <<file.width, file.height>>
    BY <2>2 DEF Sides, BmpImage, FromRaster
  <2>5. left' # Forever /\ angle % 90 = 0 =>
          left' \in 0 .. Turns(angle) /\ IsTurned(BmpImage(file), Turns(angle) - left', image')
    <3>1. left' # Forever /\ angle % 90 = 0 => left' = Turns(angle)
      BY <1>9 DEF ReadRaster, TurnInv
    <3>2. Turns(angle) - Turns(angle) = 0 /\ Turns(angle) \in 0 .. Turns(angle)
      BY <1>2, SMT
    <3> QED
      BY <2>3, <3>1, <3>2
  <2> QED
    BY <1>1, <1>4, <1>9, <2>4, <2>5 DEF ReadRaster, TurnInv, Written
<1>10. CASE OpenOutput
  BY <1>1, <1>4, <1>10 DEF OpenOutput, TurnInv, Written
<1>11. CASE RotateStep
  <2>1. /\ pc = "rotate" /\ image' = Rotate(image) /\ IsImage(image) /\ left # 0
        /\ left # Forever => left' = left - 1
        /\ left = Forever => left' = Forever
    BY <1>1, <1>11 DEF RotateStep, MemoryInv
  <2>2. Sides(image') = <<image.height, image.width>>
    BY <2>1, RotateIsImage DEF Sides
  <2>3. Sides(image') \in {<<file.width, file.height>>, <<file.height, file.width>>}
    BY <2>1, <2>2 DEF TurnInv, Sides
  <2>4. ASSUME left' # Forever, angle % 90 = 0
        PROVE  left' \in 0 .. Turns(angle) /\ IsTurned(BmpImage(file), Turns(angle) - left', image')
    <3>1. left \in 0 .. Turns(angle) /\ IsTurned(BmpImage(file), Turns(angle) - left, image)
      BY <2>1, <2>4 DEF TurnInv
    <3>2. left' = left - 1 /\ left \in 1 .. Turns(angle)
      BY <1>2, <2>1, <2>4, <3>1, SMT
    <3>3. Turns(angle) - left \in 0 .. 2 /\ (Turns(angle) - left) + 1 = Turns(angle) - left'
      BY <1>2, <3>2, SMT
    <3>4. IsImage(BmpImage(file))
      <4>1. file.valid
        BY <1>1, <2>1 DEF MemoryInv, Holding
      <4> QED
        BY <1>1, <4>1, FromRasterIsImage, ImageAssumption DEF BmpImage
    <3>5. IsTurned(BmpImage(file), (Turns(angle) - left) + 1, image')
      BY <2>1, <3>1, <3>3, <3>4, TurnOnce
    <3> QED
      BY <1>2, <3>2, <3>3, <3>5, SMT
  <2> QED
    BY <1>1, <1>4, <1>11, <2>1, <2>3, <2>4 DEF RotateStep, TurnInv, Written
<1>12. CASE Write
  <2>1. /\ pc = "rotate" /\ left = 0 /\ out' = File(image) /\ image' = image
        /\ pc' = "done" /\ IsImage(image) /\ file.valid
    BY <1>1, <1>12 DEF Write, ExitWith, MemoryInv, Holding
  <2>2. left # Forever /\ Turns(angle) - 0 = Turns(angle)
    BY <1>2, <1>3, <2>1, SMT
  <2>3. angle % 90 = 0 => IsTurned(BmpImage(file), Turns(angle), image)
    BY <2>1, <2>2 DEF TurnInv
  <2>4. Sides(image) \in {<<file.width, file.height>>, <<file.height, file.width>>}
    BY <2>1 DEF TurnInv
  <2> QED
    BY <1>1, <1>4, <2>1, <2>3, <2>4 DEF TurnInv, Written, Sides
<1>13. CASE UNCHANGED vars
  BY <1>1, <1>13 DEF vars, TurnInv, Written
<1> QED
  BY <1>6, <1>7, <1>8, <1>9, <1>10, <1>11, <1>12, <1>13 DEF Next

(* The image is turned as often as the loop has run, in every state. *)
LEMMA TurnInvHolds == ASSUME SourcesNeedPadding PROVE Spec => []TurnInv
<1>1. TurnInv /\ [Next]_vars => TurnInv'
  BY TurnInvNext
<1> QED
  BY TurnInvInit, <1>1, PTL DEF Spec

(* The image in memory has the sides of its source, in some order.  So its *)
(* rows need padding, and its biSizeImage does not wrap.                   *)
LEMMA SidesFit ==
  ASSUME SourcesNeedPadding, file \in Sources, file.valid, NEW m, IsImage(m),
         Sides(m) \in {<<file.width, file.height>>, <<file.height, file.width>>}
  PROVE  (m.width * BYTES_COUNT) % 4 # 0 /\ Stride(m.width) * m.height < SizeMod
<1>1. \/ m.width = file.width /\ m.height = file.height
      \/ m.width = file.height /\ m.height = file.width
  BY DEF Sides
<1> QED
  BY <1>1 DEF SourcesNeedPadding

(* What has been written is the image turned by the angle, and reads back. *)
LEMMA TurnInvImplies ==
  ASSUME SourcesNeedPadding
  PROVE  TurnInv => OutputIsTurned /\ OutputReadsBack
<1> SUFFICES ASSUME TurnInv, Written
             PROVE  /\ angle % 90 = 0 => IsTurned(BmpImage(file), Turns(angle), BmpImage(out))
                    /\ FromRaster(out.width, out.height, Stride(out.width), out.raster) = image
  BY DEF OutputIsTurned, OutputReadsBack
<1>1. /\ out = File(image) /\ IsImage(image)
      /\ (image.width * BYTES_COUNT) % 4 # 0 /\ Stride(image.width) * image.height < SizeMod
  BY SidesFit DEF TurnInv, MemoryInv
<1> QED
  BY <1>1, FileReadsBack DEF TurnInv

(* Whatever the sides of the source, the file that is written shows it     *)
(* turned by the angle.  Rows without padding are excluded: see the run    *)
(* image_padding.                                                          *)
THEOREM EveryImageIsTurned ==
  ASSUME SourcesNeedPadding
  PROVE  Spec => []OutputIsTurned
<1>1. TurnInv => OutputIsTurned
  BY TurnInvImplies
<1>2. Spec => []TurnInv
  BY TurnInvHolds
<1> QED
  BY <1>1, <1>2, PTL

(* Whatever the sides of the source, to_bmp and from_bmp are inverse.      *)
THEOREM EveryOutputReadsBack ==
  ASSUME SourcesNeedPadding
  PROVE  Spec => []OutputReadsBack
<1>1. TurnInv => OutputReadsBack
  BY TurnInvImplies
<1>2. Spec => []TurnInv
  BY TurnInvHolds
<1> QED
  BY <1>1, <1>2, PTL

(* The last cell a loop over the rows touches. *)
LEMMA LastCell ==
  ASSUME NEW w \in Nat \ {0}, NEW h \in Nat \ {0}, (w * BYTES_COUNT) % 4 # 0
  PROVE  Stride(w) * (h - 1) + w * BYTES_COUNT <= Stride(w) * h
<1> DEFINE s == Stride(w)
           x == w * BYTES_COUNT
<1>1. s \in Nat \ {0} /\ x <= s
  BY StrideIsBmpStride
<1>2. x \in Int
  BY ImageAssumption, SMT
<1> HIDE DEF s, x
<1>3. s * h = s * (h - 1) + s /\ s * (h - 1) \in Int
  BY <1>1, SMT
<1>4. s * (h - 1) + x <= s * h
  BY <1>1, <1>2, <1>3, SMT
<1> QED
  BY <1>4 DEF s, x

BoundsInv == TurnInv /\ ~wild

(* No loop of from_bmp or to_bmp leaves its buffer, if biSizeImage says    *)
(* how long the raster is.                                                 *)
THEOREM BuffersSuffice ==
  ASSUME SourcesNeedPadding, SourcesHaveRows
  PROVE  Spec => []InBounds
<1>1. Init => BoundsInv
  BY TurnInvInit DEF Init, BoundsInv
<1>2. BoundsInv /\ [Next]_vars => BoundsInv'
  <2> SUFFICES ASSUME BoundsInv, [Next]_vars PROVE BoundsInv'
    OBVIOUS
  <2>1. TurnInv /\ TurnInv' /\ MemoryInv /\ ~wild
    BY TurnInvNext DEF BoundsInv, TurnInv
  <2>2. CASE ReadRaster
    <3>1. /\ file \in Sources /\ file.valid /\ file.sizeImage > 0 /\ file.sizeImage \in Nat
          /\ file.width \in Nat \ {0} /\ file.height \in Nat \ {0}
      BY <2>1, <2>2, ImageAssumption DEF ReadRaster, RasterComplete, MemoryInv
    <3>2. (file.width * BYTES_COUNT) % 4 # 0 /\ BmpStride(file.width) * file.height <= file.sizeImage
      BY <3>1 DEF SourcesNeedPadding, SourcesHaveRows
    <3>3. Stride(file.width) = BmpStride(file.width) /\ Stride(file.width) \in Nat \ {0}
      BY <3>1, <3>2, StrideIsBmpStride
    <3>4. Stride(file.width) * (file.height - 1) + file.width * BYTES_COUNT <= Stride(file.width) * file.height
      BY <3>1, <3>2, LastCell
    <3>5. /\ Stride(file.width) * (file.height - 1) + file.width * BYTES_COUNT \in Int
          /\ Stride(file.width) * file.height \in Int
      BY <3>1, <3>3, ImageAssumption, SMT
    <3> DEFINE a == Stride(file.width) * (file.height - 1) + file.width * BYTES_COUNT
               b == Stride(file.width) * file.height
    <3>6. a \in Int /\ b \in Int /\ a <= b /\ b <= file.sizeImage
      BY <3>2, <3>3, <3>4, <3>5
    <3>7. wild' = (a > file.sizeImage)
      BY <2>2 DEF ReadRaster
    <3> HIDE DEF a, b
    <3>8. ~(a > file.sizeImage)
      BY <3>1, <3>6, SMT
    <3> QED
      BY <2>1, <3>7, <3>8 DEF BoundsInv
  <2>3. CASE Write
    <3>1. IsImage(image) /\ file \in Sources /\ file.valid
          /\ Sides(image) \in {<<file.width, file.height>>, <<file.height, file.width>>}
      BY <2>1, <2>3 DEF Write, TurnInv, MemoryInv, Holding
    <3>2. Stride(image.width) * image.height < SizeMod
      BY <3>1, SidesFit
    <3>3. SizeImage(image.width, image.height) = Stride(image.width) * image.height
      BY <3>1, <3>2, FileReadsBack
    <3>4. Stride(image.width) * image.height \in Int
      BY <3>1, ImageAssumption, SMT DEF IsImage, Stride, Padding
    <3> DEFINE b == Stride(image.width) * image.height
    <3>5. wild' = (wild \/ b > b)
      BY <2>3, <3>3 DEF Write
    <3> HIDE DEF b
    <3>6. b \in Int
      BY <3>4 DEF b
    <3>7. ~(b > b)
      BY <3>6, SMT
    <3> QED
      BY <2>1, <3>5, <3>7 DEF BoundsInv
  <2>4. CASE wild' = wild
    BY <2>1, <2>4 DEF BoundsInv
  <2> QED
    BY <2>2, <2>3, <2>4 DEF Next, vars, WrongAngle, RightAngle, Open, ReadFails, ReadRasterFails,
                            OpenOutput, OpenOutputFails, RotateStep, WriteFails
<1>3. BoundsInv => InBounds
  BY DEF BoundsInv, InBounds
<1> QED
  BY <1>1, <1>2, <1>3, PTL DEF Spec
-------------------------------------------------------------------------------
(* The shell, for every input and however programs end.  Sequences. *)

(* Nothing is added by the empty sequence. *)
LEMMA EmptyConcat ==
  ASSUME NEW S, NEW s \in Seq(S)
  PROVE  <<>> \in Seq(S) /\ s \o <<>> = s
<1>1. <<>> \in Seq(S)
  BY EmptySeq
<1> QED
  BY <1>1, ConcatEmptySeq

(* Appending to the second of two sequences appends to both. *)
LEMMA ConcatAppend ==
  ASSUME NEW S, NEW s \in Seq(S), NEW t \in Seq(S), NEW e \in S
  PROVE  Append(t, e) \in Seq(S) /\ s \o Append(t, e) = Append(s \o t, e)
BY AppendProperties, ConcatProperties, SMT

(* The front and the last of a sequence to which something was appended.   *)
LEMMA FrontAppend ==
  ASSUME NEW S, NEW s \in Seq(S), NEW e \in S
  PROVE  /\ Append(s, e) \in Seq(S)
         /\ Front(Append(s, e)) = s /\ Last(Append(s, e)) = e
<1>1. /\ Append(s, e) \in Seq(S) /\ Len(Append(s, e)) = Len(s) + 1 /\ Len(s) \in Nat
      /\ \A i \in 1 .. Len(s) : Append(s, e)[i] = s[i]
      /\ Append(s, e)[Len(s) + 1] = e
  BY AppendProperties, LenProperties
<1>2. Front(Append(s, e)) = s
  BY <1>1, SMT DEF Front
<1> QED
  BY <1>1, <1>2 DEF Last
-------------------------------------------------------------------------------
(* Output. *)
Text == [name : Seq(Words), end : Seq(Ends)]

(* Writing or holding back a text: nothing that was shown is lost, and what *)
(* is shown is what was written, followed by the text.                      *)
LEMMA WriteShows ==
  ASSUME terminal \in Text, NEW text \in Text, Put(text)
  PROVE  /\ terminal' \in Text /\ buffer' \in Text
         /\ Names' = terminal.name \o text.name /\ Reports' = terminal.end \o text.end
<1>1. /\ terminal.name \in Seq(Words) /\ text.name \in Seq(Words)
      /\ terminal.end \in Seq(Ends) /\ text.end \in Seq(Ends)
  BY DEF Text
<1>2. terminal.name \o text.name \in Seq(Words) /\ terminal.end \o text.end \in Seq(Ends)
  BY <1>1, ConcatProperties
<1>3. /\ terminal'.name = terminal.name \o text.name /\ terminal'.end = terminal.end \o text.end
      /\ buffer'.name = <<>> /\ buffer'.end = <<>>
  BY DEF Put, NoText
<1>4. /\ <<>> \in Seq(Words) /\ (terminal.name \o text.name) \o <<>> = terminal.name \o text.name
      /\ <<>> \in Seq(Ends) /\ (terminal.end \o text.end) \o <<>> = terminal.end \o text.end
  BY <1>2, EmptyConcat
<1>5. terminal' \in Text /\ buffer' \in Text
  BY <1>2, <1>4 DEF Put, NoText, Text
<1> QED
  BY <1>3, <1>4, <1>5 DEF Names, Reports

(* So does writing a line, which a file or a pipe holds back. *)
LEMMA LineShows ==
  ASSUME terminal \in Text, NEW text \in Text, Line(text)
  PROVE  /\ terminal' \in Text /\ buffer' \in Text
         /\ Names' = terminal.name \o text.name /\ Reports' = terminal.end \o text.end
<1>1. CASE Put(text)
  BY <1>1, WriteShows
<1>2. CASE buffer' = text /\ UNCHANGED terminal
  BY <1>2 DEF Names, Reports
<1> QED
  BY <1>1, <1>2 DEF Line
-------------------------------------------------------------------------------
(* The invariant: where a child can be while the shell is where; what of    *)
(* the programs and their ends is not shown yet; and where the shell is.    *)
ChildInv ==
  /\ child # "none" <=> shell_pc \in {"suspended", "wait"}
  /\ shell_pc = "wait" => child \in {"running", "ended"}

DirectoryInv ==
  /\ shell_pc \notin {"directory", "aborted"} => current_directory_ = cwd
  /\ shell_pc = "read" => prompt = cwd

NameInv ==
  IF child = "forked" THEN args[2] \in Words /\ started = Append(Names, args[2])
                      ELSE started = Names

EndInv ==
  /\ child = "ended" => \E s \in Seq(Ends), e \in Ends : ends = Append(s, e)
  /\ sigchld = "default" =>
       \/ child = "ended" /\ \E e \in Ends : ends = Append(Reports, e)
       \/ child # "ended" /\ shell_pc = "report" /\ ends = Append(Reports, status)
       \/ child # "ended" /\ shell_pc # "report" /\ ends = Reports

ShellInv == ShellTypeOK /\ ChildInv /\ DirectoryInv /\ NameInv /\ EndInv

(* The parts of the invariant that are about what is shown.                 *)
LEMMA QuietStep ==
  ASSUME ShellInv, Line(buffer) \/ Flush \/ UNCHANGED output
  PROVE  terminal' \in Text /\ buffer' \in Text /\ Names' = Names /\ Reports' = Reports
<1>1. terminal \in Text /\ buffer \in Text
  BY DEF ShellInv, ShellTypeOK, Text
<1>2. CASE Line(buffer)
  BY <1>1, <1>2, LineShows DEF Names, Reports
<1>3. CASE Flush
  BY <1>1, <1>3, WriteShows DEF Flush, Names, Reports
<1>4. CASE UNCHANGED output
  BY <1>1, <1>4 DEF output, Names, Reports
<1> QED
  BY <1>2, <1>3, <1>4

(* At the start no program ran and nothing is shown. *)
LEMMA ShellInvInit == ShellInit => ShellInv
<1> SUFFICES ASSUME ShellInit PROVE ShellInv
  OBVIOUS
<1>1. /\ <<>> \in Seq(Words) /\ <<>> \in Seq(Ends) /\ <<>> \o <<>> = <<>>
  BY EmptyConcat
<1>2. {terminal, buffer} \subseteq [name : Seq(Words), end : Seq(Ends)]
  BY <1>1 DEF ShellInit, NoText
<1>3. Names = <<>> /\ Reports = <<>>
  BY <1>1 DEF ShellInit, NoText, Names, Reports
<1>4. is_running_ \in BOOLEAN /\ tty \in BOOLEAN
  BY DEF ShellInit
<1>5. lines \in 0 .. MaxLines /\ status \in Ends
  BY ShellAssumption DEF ShellInit, Ends
<1>6. ShellTypeOK
  BY <1>1, <1>2, <1>4, <1>5, ShellAssumption DEF ShellInit, ShellTypeOK
<1> QED
  BY <1>3, <1>6 DEF ShellInit, ShellInv, ChildInv, DirectoryInv, NameInv, EndInv

(* A step that neither forks nor ends anything and shows nothing new. *)
LEMMA PlainStep ==
  ASSUME ShellInv, ShellTypeOK', DirectoryInv', UNCHANGED <<child, sigchld, started, ends>>,
         Names' = Names, Reports' = Reports,
         child = "none" \/ UNCHANGED args,
         shell_pc # "report" /\ shell_pc' # "report",
         child = "none" => shell_pc' \notin {"suspended", "wait"},
         child # "none" => shell_pc' \in {"suspended", "wait"},
         shell_pc' = "wait" => child \in {"running", "ended"}
  PROVE  ShellInv'
<1>1. ChildInv'
  BY DEF ShellInv, ChildInv
<1>2. NameInv'
  BY DEF ShellInv, NameInv
<1>3. EndInv'
  BY DEF ShellInv, EndInv
<1> QED
  BY <1>1, <1>2, <1>3 DEF ShellInv

(* Every step of the shell, its child or the directories keeps the         *)
(* invariant.                                                              *)
LEMMA ShellInvNext == ShellInv /\ [ShellNext]_shell_vars => ShellInv'
<1> SUFFICES ASSUME ShellInv, [ShellNext]_shell_vars PROVE ShellInv'
  OBVIOUS
<1>1. ShellTypeOK /\ ChildInv /\ DirectoryInv /\ NameInv /\ EndInv
  BY DEF ShellInv
<1>2. ASSUME Line(buffer) \/ Flush \/ UNCHANGED output
      PROVE  /\ {terminal', buffer'} \subseteq [name : Seq(Words), end : Seq(Ends)]
             /\ Names' = Names /\ Reports' = Reports
  BY <1>2, QuietStep DEF Text
<1>3. CASE SetDirectory
  <2>1. ShellTypeOK'
    BY <1>1, <1>2, <1>3 DEF SetDirectory, ShellTypeOK, output, system, history, Goto
  <2>2. DirectoryInv'
    BY <1>1, <1>3 DEF SetDirectory, DirectoryInv, system, Goto
  <2> QED
    BY <1>1, <1>2, <1>3, <2>1, <2>2, PlainStep DEF SetDirectory, ChildInv, system, history, Goto
<1>4. CASE Prompt
  <2>1. ShellTypeOK'
    BY <1>1, <1>2, <1>4 DEF Prompt, ShellTypeOK, output, system, history, Goto
  <2>2. DirectoryInv'
    BY <1>1, <1>4 DEF Prompt, DirectoryInv, system, Goto
  <2> QED
    BY <1>1, <1>2, <1>4, <2>1, <2>2, PlainStep DEF Prompt, ChildInv, system, history, Goto
<1>5. CASE Leave
  <2>1. ShellTypeOK'
    BY <1>1, <1>2, <1>5 DEF Leave, ShellTypeOK, system, history, Goto
  <2>2. DirectoryInv'
    BY <1>1, <1>5 DEF Leave, DirectoryInv, system, Goto
  <2> QED
    BY <1>1, <1>2, <1>5, <2>1, <2>2, PlainStep DEF Leave, ChildInv, system, history, Goto
<1>6. CASE ReadLine
  <2>1. shell_pc' \in {"loop", "execute"} /\ shell_pc = "read" /\ child = "none"
    BY <1>1, <1>6 DEF ReadLine, ChildInv, Goto
  <2>2. lines' \in 0 .. MaxLines
    BY <1>1, <1>6, ShellAssumption, SMT DEF ReadLine, ShellTypeOK
  <2>3. ShellTypeOK'
    BY <1>1, <1>2, <1>6, <2>1, <2>2 DEF ReadLine, ShellTypeOK, system, history
  <2>4. DirectoryInv'
    BY <1>1, <1>6, <2>1 DEF ReadLine, DirectoryInv, system
  <2> QED
    BY <1>2, <1>6, <2>1, <2>3, <2>4, PlainStep DEF ReadLine, system, history
<1>7. CASE EndOfInput
  <2>1. lines' \in 0 .. MaxLines
    BY <1>7, ShellAssumption, SMT DEF EndOfInput
  <2>2. ShellTypeOK'
    BY <1>1, <1>2, <1>7, <2>1 DEF EndOfInput, ShellTypeOK, system, history, Goto
  <2>3. DirectoryInv'
    BY <1>1, <1>7 DEF EndOfInput, DirectoryInv, system, Goto
  <2> QED
    BY <1>1, <1>2, <1>7, <2>2, <2>3, PlainStep DEF EndOfInput, ChildInv, system, history, Goto
<1>8. CASE Complain
  <2>1. (Line(buffer) \/ Flush) /\ shell_pc = "execute" /\ shell_pc' = "loop"
    BY <1>8 DEF Complain, Executes, Goto
  <2>2. ShellTypeOK'
    BY <1>1, <1>2, <1>8, <2>1 DEF Complain, ShellTypeOK, system, history
  <2>3. DirectoryInv'
    BY <1>1, <1>8, <2>1 DEF Complain, DirectoryInv, system
  <2> QED
    BY <1>1, <1>2, <1>8, <2>1, <2>2, <2>3, PlainStep DEF Complain, ChildInv, system, history
<1>9. CASE Cd
  <2>1. cwd' \in Directories
    BY <1>1, <1>9 DEF Cd, ShellTypeOK
  <2>2. ShellTypeOK'
    BY <1>1, <1>2, <1>9, <2>1 DEF Cd, ShellTypeOK, output, history, Goto
  <2>3. DirectoryInv'
    BY <1>9 DEF Cd, DirectoryInv, Goto
  <2> QED
    BY <1>1, <1>2, <1>9, <2>2, <2>3, PlainStep DEF Cd, Executes, ChildInv, history, Goto
<1>10. CASE Ls
  <2>1. (Line(buffer) \/ Flush) /\ shell_pc = "execute" /\ shell_pc' = "loop"
    BY <1>10 DEF Ls, Executes, Goto
  <2>2. ShellTypeOK'
    BY <1>1, <1>2, <1>10, <2>1 DEF Ls, ShellTypeOK, system, history
  <2>3. DirectoryInv'
    BY <1>1, <1>10, <2>1 DEF Ls, DirectoryInv, system
  <2> QED
    BY <1>1, <1>2, <1>10, <2>1, <2>2, <2>3, PlainStep DEF Ls, ChildInv, system, history
<1>11. CASE LsThrows
  <2>1. ShellTypeOK'
    BY <1>1, <1>2, <1>11 DEF LsThrows, ShellTypeOK, output, system, history, Goto
  <2>2. DirectoryInv'
    BY <1>11 DEF LsThrows, DirectoryInv, Goto
  <2> QED
    BY <1>1, <1>2, <1>11, <2>1, <2>2, PlainStep DEF LsThrows, Executes, ChildInv, system, history, Goto
<1>12. CASE Exit
  <2>1. ShellTypeOK'
    BY <1>1, <1>2, <1>12 DEF Exit, ShellTypeOK, output, system, history, Goto
  <2>2. DirectoryInv'
    BY <1>1, <1>12 DEF Exit, Executes, DirectoryInv, system, Goto
  <2> QED
    BY <1>1, <1>2, <1>12, <2>1, <2>2, PlainStep DEF Exit, Executes, ChildInv, system, history, Goto
<1>13. CASE VforkFails
  <2>1. ShellTypeOK'
    BY <1>1, <1>2, <1>13 DEF VforkFails, ShellTypeOK, output, system, history, Goto
  <2>2. DirectoryInv'
    BY <1>1, <1>13 DEF VforkFails, Executes, DirectoryInv, system, Goto
  <2> QED
    BY <1>1, <1>2, <1>13, <2>1, <2>2, PlainStep DEF VforkFails, Executes, ChildInv, system, history, Goto
<1>14. CASE Resume
  <2>1. ShellTypeOK'
    BY <1>1, <1>2, <1>14 DEF Resume, ShellTypeOK, output, system, history, Goto
  <2>2. DirectoryInv'
    BY <1>1, <1>14 DEF Resume, DirectoryInv, system, Goto
  <2> QED
    BY <1>1, <1>2, <1>14, <2>1, <2>2, PlainStep DEF Resume, ChildInv, system, history, Goto
<1>15. CASE RemoveDirectory
  <2>1. ShellTypeOK'
    BY <1>1, <1>2, <1>15 DEF RemoveDirectory, ShellTypeOK, shell, output, history
  <2>2. DirectoryInv'
    BY <1>1, <1>15 DEF RemoveDirectory, DirectoryInv, shell
  <2>3. ChildInv' /\ NameInv' /\ EndInv'
    BY <1>1, <1>2, <1>15 DEF RemoveDirectory, ChildInv, NameInv, EndInv, shell, output, history
  <2> QED
    BY <2>1, <2>2, <2>3 DEF ShellInv
<1>16. CASE UNCHANGED shell_vars
  <2>1. ShellTypeOK' /\ DirectoryInv' /\ ChildInv' /\ NameInv' /\ EndInv'
    BY <1>1, <1>2, <1>16 DEF shell_vars, shell, output, system, history, ShellTypeOK, DirectoryInv, ChildInv, NameInv, EndInv
  <2> QED
    BY <2>1 DEF ShellInv
<1>17. CASE Vfork
  <2>1. PICK program \in Words : args[2] = program /\ started' = Append(started, program)
    BY <1>17 DEF Vfork, Argument
  <2>2. child = "none" /\ started = Names /\ started \in Seq(Words)
    BY <1>1, <1>17 DEF Vfork, Executes, ChildInv, NameInv, ShellTypeOK
  <2>3. started' \in Seq(Words)
    BY <2>1, <2>2, AppendProperties
  <2>4. ShellTypeOK'
    BY <1>1, <1>2, <1>17, <2>3 DEF Vfork, ShellTypeOK, output, system, Goto
  <2>5. DirectoryInv' /\ ChildInv'
    BY <1>1, <1>17 DEF Vfork, Executes, DirectoryInv, ChildInv, system, Goto
  <2>6. NameInv'
    BY <1>2, <1>17, <2>1, <2>2 DEF Vfork, NameInv
  <2>7. EndInv'
    <3>1. /\ ends' = ends /\ sigchld' = sigchld /\ Reports' = Reports
          /\ shell_pc = "execute" /\ shell_pc' = "suspended" /\ child' = "forked"
      BY <1>2, <1>17 DEF Vfork, Executes, system, Goto
    <3>2. sigchld = "default" => ends = Reports
      BY <1>1, <2>2, <3>1 DEF EndInv
    <3> QED
      BY <3>1, <3>2 DEF EndInv
  <2> QED
    BY <2>4, <2>5, <2>6, <2>7 DEF ShellInv
<1>18. CASE ChildNames
  <2>1. /\ args[2] \in Words /\ started = Append(Names, args[2]) /\ child = "forked" /\ child' = "named"
        /\ terminal.name \in Seq(Words) /\ buffer.name \in Seq(Words) /\ shell_pc = "suspended"
    BY <1>1, <1>18 DEF ChildNames, NameInv, ChildInv, ShellTypeOK
  <2>2. /\ Append(buffer.name, args[2]) \in Seq(Words)
        /\ terminal.name \o Append(buffer.name, args[2]) = Append(Names, args[2])
    <3> DEFINE t == terminal.name
               b == buffer.name
               x == args[2]
    <3>1. t \in Seq(Words) /\ b \in Seq(Words) /\ x \in Words /\ Names = t \o b
      BY <2>1 DEF Names
    <3> HIDE DEF t, b, x
    <3>2. Append(b, x) \in Seq(Words) /\ t \o Append(b, x) = Append(t \o b, x)
      BY <3>1, ConcatAppend
    <3> QED
      BY <3>1, <3>2 DEF t, b, x
  <2>3. /\ buffer'.name = Append(buffer.name, args[2]) /\ buffer'.end = buffer.end
        /\ buffer' \in [name : Seq(Words), end : Seq(Ends)] /\ terminal' = terminal
    BY <1>1, <1>18, <2>2 DEF ChildNames, ShellTypeOK
  <2>4. Names' = started /\ Reports' = Reports
    BY <2>1, <2>2, <2>3 DEF Names, Reports
  <2>5. ShellTypeOK'
    BY <1>1, <1>18, <2>1, <2>3 DEF ChildNames, ShellTypeOK, shell, system, history
  <2>6. DirectoryInv' /\ ChildInv'
    BY <1>1, <1>18, <2>1 DEF ChildNames, DirectoryInv, ChildInv, shell, system
  <2>7. NameInv' /\ EndInv'
    BY <1>1, <1>18, <2>1, <2>4 DEF ChildNames, NameInv, EndInv, shell, system, history
  <2> QED
    BY <2>5, <2>6, <2>7 DEF ShellInv
<1>19. CASE ChildExecs
  <2>1. ShellTypeOK' /\ DirectoryInv' /\ ChildInv'
    BY <1>1, <1>2, <1>19 DEF ChildExecs, ShellTypeOK, DirectoryInv, ChildInv, shell, output, system, history
  <2>2. NameInv' /\ EndInv'
    BY <1>1, <1>2, <1>19 DEF ChildExecs, NameInv, EndInv, shell, system, history
  <2> QED
    BY <2>1, <2>2 DEF ShellInv
<1>20. ASSUME child \in {"named", "running"}, child' = "ended", UNCHANGED <<shell, output, system, started>>,
              NEW e \in Ends, ends' = Append(ends, e)
       PROVE  ShellInv'
  <2>1. shell_pc \in {"suspended", "wait"} /\ ends \in Seq(Ends)
    BY <1>1, <1>20 DEF ChildInv, ShellTypeOK
  <2>2. ends' \in Seq(Ends)
    BY <1>20, <2>1, AppendProperties
  <2>3. ShellTypeOK' /\ DirectoryInv' /\ ChildInv' /\ NameInv'
    BY <1>1, <1>2, <1>20, <2>1, <2>2 DEF ShellTypeOK, DirectoryInv, ChildInv, NameInv, shell, output, system
  <2>4. EndInv'
    BY <1>1, <1>2, <1>20, <2>1 DEF EndInv, shell, system
  <2> QED
    BY <2>3, <2>4 DEF ShellInv
<1>21. CASE ChildExecFails
  <2>1. EXIT_FAILURE \in Ends
    BY ShellAssumption DEF Ends
  <2> QED
    BY <1>20, <1>21, <2>1 DEF ChildExecFails
<1>22. CASE ProgramEnds
  <2>1. PICK e \in Ends : ends' = Append(ends, e)
    BY <1>22 DEF ProgramEnds, Ends
  <2> QED
    BY <1>20, <1>22, <2>1 DEF ProgramEnds
<1>23. CASE Waitpid
  <2>1. PICK s \in Seq(Ends), e \in Ends : ends = Append(s, e)
    BY <1>1, <1>23 DEF Waitpid, EndInv
  <2>2. Last(ends) = e
    BY <2>1, FrontAppend
  <2>3. status' \in Ends
    BY <1>23, <2>2, ShellAssumption DEF Waitpid, Ends
  <2>4. sigchld = "default" => ends = Append(Reports, status')
    <3>1. SUFFICES ASSUME sigchld = "default" PROVE ends = Append(Reports, status')
      OBVIOUS
    <3>2. PICK f \in Ends : ends = Append(Reports, f)
      BY <1>1, <1>23, <3>1 DEF Waitpid, EndInv
    <3>3. Reports \in Seq(Ends)
      BY <1>1, ConcatProperties DEF ShellTypeOK, Reports
    <3>4. Last(ends) = f
      BY <3>2, <3>3, FrontAppend
    <3> QED
      BY <1>23, <3>1, <3>2, <3>4 DEF Waitpid
  <2>5. ShellTypeOK' /\ DirectoryInv' /\ ChildInv' /\ NameInv'
    BY <1>1, <1>2, <1>23, <2>3
       DEF Waitpid, ShellTypeOK, DirectoryInv, ChildInv, NameInv, output, system, history, Goto
  <2>6. EndInv'
    <3>1. /\ ends' = ends /\ sigchld' = sigchld /\ Reports' = Reports
          /\ shell_pc' = "report" /\ child' = "none"
      BY <1>2, <1>23 DEF Waitpid, system, history, Goto
    <3> QED
      BY <2>4, <3>1 DEF EndInv
  <2> QED
    BY <2>5, <2>6 DEF ShellInv
<1>24. CASE Report
  <2> DEFINE text == [buffer EXCEPT !.end = Append(@, status)]
  <2>1. /\ terminal \in Text /\ buffer \in Text /\ terminal.end \in Seq(Ends) /\ buffer.end \in Seq(Ends)
        /\ status \in Ends /\ child = "none"
    BY <1>1, <1>24 DEF ShellTypeOK, Text, Report, ChildInv
  <2>2. /\ Append(buffer.end, status) \in Seq(Ends)
        /\ terminal.end \o Append(buffer.end, status) = Append(Reports, status)
    <3> DEFINE t == terminal.end
               b == buffer.end
    <3>1. t \in Seq(Ends) /\ b \in Seq(Ends) /\ Reports = t \o b
      BY <2>1 DEF Reports
    <3> HIDE DEF t, b
    <3>2. Append(b, status) \in Seq(Ends) /\ t \o Append(b, status) = Append(t \o b, status)
      BY <2>1, <3>1, ConcatAppend
    <3> QED
      BY <3>1, <3>2 DEF t, b
  <2>3. text \in Text /\ text.name = buffer.name /\ text.end = Append(buffer.end, status)
    BY <2>1, <2>2 DEF Text
  <2>4. Line(text) \/ Put(text)
    BY <1>24 DEF Report
  <2> HIDE DEF text
  <2>5. /\ terminal' \in Text /\ buffer' \in Text
        /\ Names' = Names /\ Reports' = Append(Reports, status)
    BY <2>1, <2>2, <2>3, <2>4, LineShows, WriteShows DEF Names
  <2>6. ShellTypeOK' /\ DirectoryInv' /\ ChildInv'
    BY <1>1, <1>24, <2>1, <2>5
       DEF Report, ShellTypeOK, DirectoryInv, ChildInv, Text, system, history, Goto
  <2>7. NameInv' /\ EndInv'
    BY <1>1, <1>24, <2>1, <2>5 DEF Report, NameInv, EndInv, system, history, Goto
  <2> QED
    BY <2>6, <2>7 DEF ShellInv
<1> QED
  BY <1>3, <1>4, <1>5, <1>6, <1>7, <1>8, <1>9, <1>10, <1>11, <1>12, <1>13, <1>14, <1>15, <1>16,
     <1>17, <1>18, <1>19, <1>21, <1>22, <1>23, <1>24 DEF ShellNext, ShellStep, ChildStep

(* The invariant holds in every state. *)
LEMMA ShellInvHolds == ShellSpec => []ShellInv
BY ShellInvInit, ShellInvNext, PTL DEF ShellSpec

(* Every variable keeps its type. *)
THEOREM ShellTypeCorrect == ShellSpec => []ShellTypeOK
<1>1. ShellInv => ShellTypeOK
  BY DEF ShellInv
<1> QED
  BY <1>1, ShellInvHolds, PTL

(* The shell never goes on while a child runs or is not waited for. *)
THEOREM NoZombies == ShellSpec => []ChildIsReaped
<1>1. ShellInv => ChildIsReaped
  BY DEF ShellInv, ChildInv, ChildIsReaped
<1> QED
  BY <1>1, ShellInvHolds, PTL

(* The name that a child writes into the shell's buffer is never lost and  *)
(* never written twice.                                                    *)
THEOREM EveryNameOnce == ShellSpec => []NamesShownOnce
<1>1. ShellInv => NamesShownOnce
  <2> SUFFICES ASSUME ShellInv PROVE NamesShownOnce
    OBVIOUS
  <2>1. Names \in Seq(Words)
    BY ConcatProperties DEF ShellInv, ShellTypeOK, Names
  <2>2. CASE child = "forked"
    <3>1. PICK x \in Words : started = Append(Names, x)
      BY <2>2 DEF ShellInv, NameInv
    <3>2. Front(Append(Names, x)) = Names
      BY <2>1, FrontAppend
    <3> QED
      BY <2>2, <3>1, <3>2 DEF NamesShownOnce
  <2>3. CASE child # "forked"
    BY <2>3 DEF ShellInv, NameInv, NamesShownOnce
  <2> QED
    BY <2>2, <2>3
<1> QED
  BY <1>1, ShellInvHolds, PTL

(* Reports are how the children ended, one each and in order. *)
THEOREM EveryEndReported == ShellSpec => []ReportsTellTheEnd
<1>1. ShellInv => ReportsTellTheEnd
  <2> SUFFICES ASSUME ShellInv, sigchld = "default"
               PROVE  Reports = IF child = "ended" \/ shell_pc = "report" THEN Front(ends) ELSE ends
    BY DEF ReportsTellTheEnd
  <2>1. Reports \in Seq(Ends) /\ status \in Ends
    BY ConcatProperties DEF ShellInv, ShellTypeOK, Reports
  <2> QED
    BY <2>1, FrontAppend DEF ShellInv, EndInv
<1> QED
  BY <1>1, ShellInvHolds, PTL

(* The prompt shows the directory the shell is in. *)
THEOREM PromptIsTrue == ShellSpec => []PromptTellsDirectory
<1>1. ShellInv => PromptTellsDirectory
  BY DEF ShellInv, DirectoryInv, PromptTellsDirectory
<1> QED
  BY <1>1, ShellInvHolds, PTL
===============================================================================
