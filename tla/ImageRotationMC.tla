---------------------------- MODULE ImageRotationMC ----------------------------
(***************************************************************************)
(* Files for ImageRotation.  Every pixel of an image has a colour of its   *)
(* own, so that a pixel out of place shows.                                *)
(***************************************************************************)
EXTENDS ImageRotation

MCPixels == 0 .. 14

Picture(w, h) == [width |-> w, height |-> h, pixels |-> [k \in 0 .. (w * h - 1) |-> k]]

(* A file by another program: rows padded as README says. *)
BmpFile(w, h) ==
  LET n == BmpStride(w) * h
  IN [valid |-> TRUE, width |-> w, height |-> h, sizeImage |-> n,
      raster |-> ToRaster(Picture(w, h), BmpStride(w), n)]

BadHeader(f) == [f EXCEPT !.valid = FALSE]

(* The file ends one byte early; biSizeImage is 0, as BMP allows. *)
Short(f) == [f EXCEPT !.raster = [k \in 0 .. (f.sizeImage - 2) |-> f.raster[k]]]
NoSize(f) == [f EXCEPT !.sizeImage = 0]

Sizes == {1, 2, 3, 5}
MCSources ==
  LET good == {BmpFile(w, h) : w \in Sizes, h \in {1, 2, 3}}
  IN good \union {BadHeader(BmpFile(2, 3)), Short(BmpFile(2, 3)), NoSize(BmpFile(2, 3))}

OneSource == {BmpFile(1, 2)}

(* Four pixels are twelve bytes: README's first example, with 12 pixels,   *)
(* is of this kind.                                                        *)
FourWide == {BmpFile(4, 2)}

ListedAngles == {0, 90, -90, 180, -180, 270, -270}
OddAngles == {45}

(* 450 is a turn; -450 is -1 turns, which validate calls wrong; -540 is -2 *)
(* turns, which rotate_number takes for a large number.                    *)
MCAngles == ListedAngles \union {45, 450, -450, -540}

NoFaults == {}
AllFaults == {"source", "output", "write", "close"}
===============================================================================
