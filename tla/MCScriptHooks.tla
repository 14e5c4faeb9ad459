---------------------------- MODULE MCScriptHooks ----------------------------
(***************************************************************************)
(* ScriptHooks for TLC: script files with the same name in different       *)
(* directories, which differ in nothing else.                              *)
(***************************************************************************)
EXTENDS ScriptHooks, TLC

SameName == [f \in Files |-> "login.as"]

FilesAlike == Permutations(Files)
==============================================================================
