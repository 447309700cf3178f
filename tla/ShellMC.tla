-------------------------------- MODULE ShellMC --------------------------------
(***************************************************************************)
(* Shell with lines for each command, right and wrong.                     *)
(***************************************************************************)
EXTENDS Shell

MCWords == {"_", "nothing", "ls", "cd", "run", "exit", "x", "tmp", "home", "a", "b"}

MCLines ==
  { <<>>, <<"_", "_">>, <<"nothing">>,
    <<"ls">>, <<"ls", "x", "x">>,
    <<"cd">>, <<"_", "cd", "tmp">>, <<"cd", "home">>, <<"cd", "x">>,
    <<"run">>, <<"run", "a">>, <<"run", "b">>, <<"exit", "_">> }
===============================================================================
