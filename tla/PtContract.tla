------------------------------ MODULE PtContract ------------------------------
(***************************************************************************)
(* What ptmalloc promises to its client: an object keeps its place and its *)
(* size until the client gives it up, is as large as was asked for, and is *)
(* made of words the kernel gave, which no other object has.               *)
(***************************************************************************)
EXTENDS Integers

VARIABLES
  granted,  (* address |-> bytes asked for and usable size, of each object *)
  given     (* the words the process has from the kernel                   *)

pvars == <<granted, given>>

Words(p) == p .. p + granted[p].size - 1

PSafe ==
  \A p \in DOMAIN granted :
    /\ granted[p].bytes <= granted[p].size
    /\ Words(p) \subseteq given
    /\ \A q \in DOMAIN granted \ {p} : Words(p) \cap Words(q) = {}

Keep(objects) == \A p \in objects : p \in DOMAIN granted' /\ granted'[p] = granted[p]

(* It is asked to keep them from any safe state on.                        *)
PInit == PSafe

New ==
  \E p \in DOMAIN granted' \ DOMAIN granted :
    DOMAIN granted' = DOMAIN granted \union {p} /\ Keep(DOMAIN granted)

Drop ==
  \E p \in DOMAIN granted : DOMAIN granted' = DOMAIN granted \ {p} /\ Keep(DOMAIN granted')

Resize ==
  \E p \in DOMAIN granted, q \in DOMAIN granted' :
    DOMAIN granted' = (DOMAIN granted \ {p}) \union {q} /\ Keep(DOMAIN granted \ {p})

(* The kernel gives memory and takes it back when malloc asks it to.       *)
Kernel == UNCHANGED granted

PNext == (New \/ Drop \/ Resize \/ Kernel) /\ PSafe'

PSpec == PInit /\ [][PNext]_pvars
===============================================================================
