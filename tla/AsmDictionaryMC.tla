---------------------------- MODULE AsmDictionaryMC ----------------------------
EXTENDS AsmDictionary

(* As in words.inc, the keys are longer than a link. *)
MCWords ==
  <<[key |-> <<"a", "b", "a">>, value |-> <<"3">>],
    [key |-> <<"b", "a">>, value |-> <<"2">>],
    [key |-> <<"a", "b">>, value |-> <<"1">>]>>

MCTyped == UNION {[1 .. n -> Bytes] : n \in 0 .. SIZE + 1}
===============================================================================
