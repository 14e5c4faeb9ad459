----------------------------- MODULE MCCommands -----------------------------
(***************************************************************************)
(* Commands for TLC: pieces that make up every command, capitals, blanks   *)
(* and the parts and extensions of commands.                               *)
(***************************************************************************)
EXTENDS Commands

\* "qui", "t", "Ping", "reload", " ", tab, "script", "S", and a letter
\* that is not ASCII
Typed == {<<113, 117, 105>>, <<116>>, <<80, 105, 110, 103>>, Reload, <<32>>, <<9>>,
          Script, <<83>>, <<228>>}

\* "i", "v", "t"
Letters == {<<105>>, <<118>>, <<116>>}
==============================================================================
