---------------------------- MODULE MCWorkspace ----------------------------
(***************************************************************************)
(* A small instance of Workspace: one file that is rewritten and one that  *)
(* may be deleted and restored.                                            *)
(***************************************************************************)
EXTENDS Workspace, TLC

MCPath == {"a", "b"}
MCContent == {"a1", "a2", "b1"}
MCInitialFiles == [x \in MCPath |-> IF x = "a" THEN "a1" ELSE "b1"]
MCEdits == {<<"a", "a1">>, <<"a", "a2">>, <<"b", Gone>>}
Processes == Permutations(Process)
=============================================================================
