----------------------------- MODULE ImageRotation -----------------------------
(***************************************************************************)
(* image-rotation: read a BMP file, turn the image, write a BMP file.      *)
(* An image's pixels are one array, row after row, indexed from 0 as in    *)
(* the code; so is the raster of a file.  A raster cell is a pair of a     *)
(* pixel and a channel, or Filler: padding and other bytes of no pixel.    *)
(***************************************************************************)
EXTENDS Integers

CONSTANTS
  Pixels,        (* colours                                                *)
  Filler,        (* a byte of no pixel, and a pixel made of such bytes     *)
  BYTES_COUNT,   (* bytes of a pixel                                       *)
  SizeMod,       (* 2^32, the range of uint32_t                            *)
  Sources,       (* files the program is run on                            *)
  Angles,        (* what atoi makes of the third argument                  *)
  Faults,        (* what may fail                                          *)
  NoImage, NoFile, Opened, Forever

ASSUME ImageAssumption ==
  /\ BYTES_COUNT \in Nat \ {0} /\ SizeMod \in Nat \ {0}
  /\ Angles \subseteq Int /\ Filler \notin Pixels /\ Forever \notin Int
  /\ Faults \subseteq {"source", "output", "write", "close"}
  /\ \A f \in Sources :
       /\ f.valid \in BOOLEAN
       /\ f.valid => f.width \in Nat \ {0} /\ f.height \in Nat \ {0} /\ f.sizeImage \in Nat
-------------------------------------------------------------------------------
(* Images. *)
Colours == Pixels \union {Filler}

IsImage(m) ==
  /\ m.width \in Nat \ {0} /\ m.height \in Nat \ {0}
  /\ m = [width |-> m.width, height |-> m.height, pixels |-> m.pixels]
  /\ m.pixels \in [0 .. (m.width * m.height - 1) -> Colours]

(* Mutant: the columns are taken from the left. *)
SourceIndexFromLeft(m, i, j) == m.width * j + i

(* Row i, column j of the turned image comes from here. *)
SourceIndex(m, i, j) == m.width * j + m.width - i - 1

Rotate(m) ==
  [width |-> m.height, height |-> m.width,
   pixels |-> [k \in 0 .. (m.width * m.height - 1) |->
                 m.pixels[SourceIndex(m, k \div m.height, k % m.height)]]]
-------------------------------------------------------------------------------
(* The raster of a file. *)
Padding(w) == 4 - ((w * BYTES_COUNT) % 4)

Stride(w) == (w * BYTES_COUNT) + Padding(w)

(* Mutant: biSizeImage without the padding. *)
SizeImageBare(w, h) == (w * BYTES_COUNT * h) % SizeMod

(* biSizeImage, computed in 32 bits. *)
SizeImage(w, h) == (Stride(w) * h) % SizeMod

(* What a raster with rows of s bytes holds at byte k.                     *)
RasterByte(m, s, k) ==
  LET i == k \div s
      c == k % s
  IN IF c < m.width * BYTES_COUNT
     THEN <<m.pixels[m.width * i + c \div BYTES_COUNT], c % BYTES_COUNT>>
     ELSE Filler

(* The channels at o and behind it, as a pixel. *)
PixelAt(bytes, o) ==
  IF \E p \in Pixels : \A c \in 0 .. (BYTES_COUNT - 1) :
       o + c \in DOMAIN bytes /\ bytes[o + c] = <<p, c>>
  THEN CHOOSE p \in Pixels : bytes[o] = <<p, 0>>
  ELSE Filler

(* Image and raster with rows of s bytes, both ways. *)
FromRaster(w, h, s, bytes) ==
  [width |-> w, height |-> h,
   pixels |-> [k \in 0 .. (w * h - 1) |-> PixelAt(bytes, s * (k \div w) + (k % w) * BYTES_COUNT)]]

ToRaster(m, s, n) == [k \in 0 .. (n - 1) |-> RasterByte(m, s, k)]

(* Mutant: rows are written without padding. *)
FileUnpadded(m) ==
  LET n == m.width * BYTES_COUNT * m.height
  IN [valid |-> TRUE, width |-> m.width, height |-> m.height, sizeImage |-> n,
      raster |-> ToRaster(m, m.width * BYTES_COUNT, n)]

(* What to_bmp writes. *)
File(m) ==
  LET n == SizeImage(m.width, m.height)
  IN [valid |-> TRUE, width |-> m.width, height |-> m.height, sizeImage |-> n,
      raster |-> ToRaster(m, Stride(m.width), n)]
-------------------------------------------------------------------------------
VARIABLES
  file,      (* the source file                                            *)
  angle,     (* the third argument, as a number                            *)
  pc,        (* where main is                                              *)
  image,     (* the image in memory                                        *)
  left,      (* turns left                                                 *)
  arrays,    (* pixel arrays allocated and not freed                       *)
  out,       (* the output file: untouched (NoFile), opened, or written    *)
  exit,      (* the exit code                                              *)
  wild       (* whether memory outside a buffer was read or written        *)

vars == <<file, angle, pc, image, left, arrays, out, exit, wild>>

(* Division and remainder as in C: towards zero. *)
Truncated(n, d) == IF n >= 0 THEN n \div d ELSE -((-n) \div d)
Remainder(n, d) == n - (d * Truncated(n, d))

(* Mutant: negative angles keep their sign. *)
ValidateSigned(a) == Truncated(Remainder(a, 360), 90)

(* validate: the test in it holds for every string. *)
Validate(a) == Truncated(Remainder(360 + a, 360), 90)

Init ==
  /\ file \in Sources /\ angle \in Angles
  /\ pc = "validate" /\ image = NoImage /\ left = 0 /\ arrays = 0
  /\ out = NoFile /\ exit = 0 /\ wild = FALSE

ExitWith(code) == pc' = "done" /\ exit' = code

WrongAngle ==
  /\ pc = "validate" /\ Validate(angle) = -1
  /\ ExitWith(0)
  /\ UNCHANGED <<file, angle, image, left, arrays, out, wild>>

(* The number of turns is passed on as uint64_t. *)
RightAngle ==
  /\ pc = "validate" /\ Validate(angle) # -1
  /\ left' = IF Validate(angle) < 0 THEN Forever ELSE Validate(angle)
  /\ pc' = "open"
  /\ UNCHANGED <<file, angle, image, arrays, out, exit, wild>>

Open == pc = "open" /\ pc' = "header" /\ UNCHANGED <<file, angle, image, left, arrays, out, exit, wild>>

(* READ_INVALID_FILE; READ_INVALID_BITS or READ_INVALID_HEADER. *)
ReadFails ==
  /\ \/ pc = "open" /\ "source" \in Faults /\ ExitWith(4)
     \/ pc = "header" /\ ~file.valid /\ \E code \in {2, 3} : ExitWith(code)
  /\ UNCHANGED <<file, angle, image, left, arrays, out, wild>>

(* Memory for the image is allocated before the raster is read, and not    *)
(* freed when it is short: READ_INVALID_SIGNATURE.                         *)
RasterComplete == file.sizeImage > 0 /\ 0 .. (file.sizeImage - 1) \subseteq DOMAIN file.raster

ReadRasterFails ==
  /\ pc = "header" /\ file.valid /\ ~RasterComplete
  /\ arrays' = arrays + 1 /\ ExitWith(1)
  /\ UNCHANGED <<file, angle, image, left, out, wild>>

(* Rows are looked for Stride apart, whatever biSizeImage says. *)
ReadRaster ==
  /\ pc = "header" /\ file.valid /\ RasterComplete
  /\ arrays' = arrays + 1
  /\ image' = FromRaster(file.width, file.height, Stride(file.width), file.raster)
  /\ wild' = (Stride(file.width) * (file.height - 1) + file.width * BYTES_COUNT > file.sizeImage)
  /\ pc' = "output"
  /\ UNCHANGED <<file, angle, left, out, exit>>

(* fopen(argv[2], "wb") empties the file.  Its result is not looked at:    *)
(* fwrite to a null pointer ends the program.                              *)
OpenOutput ==
  /\ pc = "output"
  /\ out' = Opened /\ pc' = "rotate"
  /\ UNCHANGED <<file, angle, image, left, arrays, exit, wild>>

OpenOutputFails ==
  /\ pc = "output" /\ "output" \in Faults
  /\ pc' = "crashed"
  /\ UNCHANGED <<file, angle, image, left, arrays, out, exit, wild>>

(* rotate allocates an image, rotate_number destroys the one before. *)
RotateStep ==
  /\ pc = "rotate" /\ left # 0
  /\ image' = Rotate(image) /\ arrays' = (arrays + 1) - 1
  /\ left' = IF left = Forever THEN Forever ELSE left - 1
  /\ UNCHANGED <<file, angle, pc, out, exit, wild>>

(* The loops of to_bmp fill a buffer of biSizeImage bytes. *)
Write ==
  /\ pc = "rotate" /\ left = 0
  /\ out' = File(image)
  /\ wild' = (wild \/ Stride(image.width) * image.height > SizeImage(image.width, image.height))
  /\ arrays' = arrays - 1 /\ ExitWith(0)
  /\ UNCHANGED <<file, angle, image, left>>

(* Mutant: main returns before it destroys the image. *)
WriteFailsLeaking ==
  /\ pc = "rotate" /\ left = 0 /\ "write" \in Faults
  /\ ExitWith(1)
  /\ UNCHANGED <<file, angle, image, left, arrays, out, wild>>

(* WRITE_ERROR, or a failure nobody sees: of the last flush in fclose. *)
WriteFails ==
  /\ pc = "rotate" /\ left = 0
  /\ \/ "write" \in Faults /\ ExitWith(1)
     \/ "close" \in Faults /\ ExitWith(0)
  /\ arrays' = arrays - 1
  /\ UNCHANGED <<file, angle, image, left, out, wild>>

Next ==
  \/ WrongAngle \/ RightAngle \/ Open \/ ReadFails \/ ReadRasterFails \/ ReadRaster
  \/ OpenOutput \/ OpenOutputFails \/ RotateStep \/ Write \/ WriteFails

Spec == Init /\ [][Next]_vars
FairSpec == Spec /\ WF_vars(Next)
-------------------------------------------------------------------------------
(* PROPERTIES *)

TypeOK ==
  /\ angle \in Int
  /\ pc \in {"validate", "open", "header", "output", "rotate", "done", "crashed"}
  /\ image = NoImage \/ IsImage(image)
  /\ left \in Nat \union {Forever}
  /\ arrays \in 0 .. 1
  /\ exit \in 0 .. 4
  /\ wild \in BOOLEAN

(* The quarter turn of an angle, and where an image turned so many times   *)
(* has the colour of row i, column j: the definition on a sheet of paper,  *)
(* rows counted from the bottom as in the file.                            *)
Turns(a) == (a % 360) \div 90

ColourAt(m, i, j) == m.pixels[m.width * i + j]

IsTurned(m, n, t) ==
  /\ t.width = IF n \in {0, 2} THEN m.width ELSE m.height
  /\ t.height = IF n \in {0, 2} THEN m.height ELSE m.width
  /\ \A i \in 0 .. (t.height - 1), j \in 0 .. (t.width - 1) :
       ColourAt(t, i, j) =
         CASE n = 0 -> ColourAt(m, i, j)
           [] n = 1 -> ColourAt(m, j, m.width - 1 - i)
           [] n = 2 -> ColourAt(m, m.height - 1 - i, m.width - 1 - j)
           [] n = 3 -> ColourAt(m, m.height - 1 - j, i)

(* A file as another program reads and writes it: rows padded as README    *)
(* describes, with no padding when they are a multiple of four long.       *)
BmpStride(w) == ((w * BYTES_COUNT + 3) \div 4) * 4

BmpImage(f) == FromRaster(f.width, f.height, BmpStride(f.width), f.raster)

Written == out \notin {NoFile, Opened}

(* What is written is the source image, turned clockwise by the angle: the *)
(* argument, the rows, the padding and the composition of turns agree.     *)
OutputIsTurned ==
  Written /\ angle % 90 = 0 => IsTurned(BmpImage(file), Turns(angle), BmpImage(out))

(* What to_bmp writes, from_bmp reads back as the same image. *)
OutputReadsBack ==
  Written => FromRaster(out.width, out.height, Stride(out.width), out.raster) = image

(* No loop of from_bmp or to_bmp leaves its buffer: biSizeImage, the width *)
(* and the height of a file agree with the rows the code looks for.        *)
InBounds == ~wild

(* Every array is freed, however main ends, unless the source is short. *)
ArraysFreed == pc = "done" => arrays = IF file.valid /\ ~RasterComplete /\ exit = 1 THEN 1 ELSE 0

(* A source that cannot be read leaves the output file as it was. *)
BadSourceKeepsOutput == ~file.valid \/ ~RasterComplete => out = NoFile

(* The program ends, also for most angles that are not in the list: those  *)
(* below -540 may become a number of turns near 2^64.                      *)
Terminates == angle > -540 => <>(pc \in {"done", "crashed"})
===============================================================================
