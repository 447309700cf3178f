------------------------------ MODULE HeapContract ------------------------------
(***************************************************************************)
(* What malloc and free promise their client, with no block, list or       *)
(* region: a request is answered with an address whose bytes belong to     *)
(* nobody else, or refused; an object stays where it is and as large as    *)
(* it was asked for until the client gives it up.                          *)
(***************************************************************************)
EXTENDS Integers

VARIABLES
  granted,  (* address |-> size asked for, for every live object           *)
  want      (* the set of sizes being asked for: empty or one size         *)

cvars == <<granted, want>>

Apart(p, n, o, m) == p # o /\ (p + n <= o \/ o + m <= p)

CInit == granted = [p \in {} |-> 0] /\ want = {}

Request(n) == want = {} /\ want' = {n} /\ UNCHANGED granted

(* Every other object lies wholly below or above the new one. *)
Grant(p, n) ==
  /\ want = {n} /\ want' = {}
  /\ \A o \in DOMAIN granted : Apart(p, n, o, granted[o])
  /\ granted' = [o \in DOMAIN granted \union {p} |-> IF o = p THEN n ELSE granted[o]]

Refuse == want # {} /\ want' = {} /\ UNCHANGED granted

Release(p) ==
  /\ want = {} /\ p \in DOMAIN granted
  /\ granted' = [o \in DOMAIN granted \ {p} |-> granted[o]]
  /\ UNCHANGED want

ReleaseAll == want = {} /\ granted' = [p \in {} |-> 0] /\ UNCHANGED want

CNext ==
  \/ \E n \in want' : Request(n)
  \/ \E p \in DOMAIN granted' : Grant(p, granted'[p])
  \/ Refuse
  \/ \E p \in DOMAIN granted : Release(p)
  \/ ReleaseAll

CSpec == CInit /\ [][CNext]_cvars
===============================================================================
