----------------------------- MODULE FileContract -----------------------------
(***************************************************************************)
(* What the cache promises its clients, with no block, descriptor or       *)
(* write-back: a file is a sequence of cells; reads and writes happen one  *)
(* after the other; a write puts the client's cells in place, a read       *)
(* returns what is there, and neither stops early without an error unless  *)
(* it is at the end of the file.  Nothing else changes a file.             *)
(***************************************************************************)
EXTENDS Integers, Sequences

CONSTANT NoRequest

VARIABLES
  data,      (* the cells of every file                                    *)
  request    (* the call being served or NoRequest: its op, file, position,*)
             (* cells left to transfer, cell to write, cells read so far   *)

cvars == <<data, request>>

Stored(s, at, n, v) ==
  [i \in 1 .. (IF at + n > Len(s) THEN at + n ELSE Len(s)) |->
     IF i > at /\ i <= at + n THEN v ELSE s[i]]

AtEnd == request.at >= Len(data[request.file])

Begin(r) ==
  /\ r # NoRequest
  /\ r.op \in {"read", "write"} /\ r.got = <<>>
  /\ request' = r /\ UNCHANGED data

(* n more cells are read; fewer than asked for only up to the end. *)
Get(n) ==
  LET end == request.at + n IN
  /\ request.op = "read"
  /\ n \in 1 .. request.left /\ end <= Len(data[request.file])
  /\ \E l \in {request.left - n} \union (IF end = Len(data[request.file]) THEN {0} ELSE {}) :
       request' = [request EXCEPT !.at = end, !.left = l,
                     !.got = @ \o SubSeq(data[request.file], request.at + 1, end)]
  /\ UNCHANGED data

Put(n) ==
  /\ request.op = "write" /\ n \in 1 .. request.left
  /\ request.at <= Len(data[request.file])
  /\ data' = [data EXCEPT ![request.file] = Stored(@, request.at, n, request.val)]
  /\ request' = [request EXCEPT !.at = @ + n, !.left = @ - n]

Stop ==
  /\ AtEnd
  /\ request' = [request EXCEPT !.left = 0] /\ UNCHANGED data

(* The answer, a count or an error. *)
Answer == request' = NoRequest /\ UNCHANGED data

CNext ==
  \/ request = NoRequest /\ Begin(request')
  \/ /\ request # NoRequest
     /\ \/ \E n \in 1 .. request.left : Get(n) \/ Put(n)
        \/ Stop
        \/ Answer

(* Files may have any cells at first. *)
CSpec == request = NoRequest /\ [][CNext]_cvars
===============================================================================
