------------------------------- MODULE PtStacks -------------------------------
(***************************************************************************)
(* What threads may rely on when they share the fastbins of an arena: each *)
(* bin is a stack whose operations happen at one moment, and an object is  *)
(* granted to one client at a time, and never while it is in a bin.        *)
(***************************************************************************)
EXTENDS Integers, Sequences, SequencesExt

CONSTANTS Chunks, NFASTBINS, Index, Starts

VARIABLES
  stacks,  (* bin |-> its chunks, the last one pushed first                *)
  granted  (* chunks that clients hold                                     *)

Bins == 0 .. NFASTBINS - 1
Stacked == UNION {ToSet(stacks[b]) : b \in Bins}

SInit == stacks \in Starts /\ granted = Chunks \ Stacked

Push(c) ==
  /\ c \notin granted \union Stacked
  /\ stacks' = [stacks EXCEPT ![Index[c]] = <<c>> \o @] /\ UNCHANGED granted

Pop(b) ==
  /\ stacks[b] # <<>>
  /\ stacks' = [stacks EXCEPT ![b] = Tail(@)] /\ UNCHANGED granted

TakeAll(b) == stacks' = [stacks EXCEPT ![b] = <<>>] /\ UNCHANGED granted

Grant(c) ==
  /\ c \notin granted \union Stacked
  /\ granted' = granted \union {c} /\ UNCHANGED stacks

Release(c) ==
  /\ c \in granted
  /\ granted' = granted \ {c} /\ UNCHANGED stacks

SNext ==
  \/ \E c \in Chunks : Push(c) \/ Grant(c) \/ Release(c)
  \/ \E b \in Bins : Pop(b) \/ TakeAll(b)

SSpec == SInit /\ [][SNext]_<<stacks, granted>>
===============================================================================
