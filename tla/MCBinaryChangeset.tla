------------------------- MODULE MCBinaryChangeset -------------------------
(***************************************************************************)
(* Small instances of BinaryChangeset for TLC.  Two files exist: "a" holds *)
(* "old" with CRLF newlines, "b" holds "tmp".  Changeset edit rewrites a   *)
(* and creates c; move renames b to c and deletes a under another holder's *)
(* lease; stray touches a path outside its allowed_paths.                  *)
(***************************************************************************)
EXTENDS BinaryChangeset

MCPath == {"a", "b", "c"}
MCContent == {"old", "oldCRLF", "new", "newCRLF", "tmp", "mix"}
MCNorm == [c \in MCContent |->
             CASE c = "oldCRLF" -> "old" [] c = "newCRLF" -> "new" [] OTHER -> c]
Same == [c \in MCContent |-> c]

Rewrite == [op |-> "replace-range", path |-> "a", dest |-> Missing,
            before |-> "old", after |-> "new", content |-> "new",
            edit |-> [c \in MCContent |->
                        CASE c = "oldCRLF" -> "newCRLF" [] c = "old" -> "new"
                          [] c = "tmp" -> "mix" [] c = "mix" -> Missing [] OTHER -> c]]
Remove == [op |-> "delete", path |-> "a", dest |-> Missing,
           before |-> "old", after |-> Missing, content |-> Missing, edit |-> Same]
Move == [op |-> "rename", path |-> "b", dest |-> "c",
         before |-> "tmp", after |-> "tmp", content |-> Missing, edit |-> Same]
Add == [op |-> "create", path |-> "c", dest |-> Missing,
        before |-> Missing, after |-> "new", content |-> "new", edit |-> Same]

MCChangeSet == {"edit", "move", "stray"}
MCOperations == [cs \in MCChangeSet |->
    CASE cs = "edit" -> <<Rewrite, Add>> [] cs = "move" -> <<Move, Remove>> [] cs = "stray" -> <<Add>>]
MCAllowed == [cs \in MCChangeSet |-> IF cs = "stray" THEN {"a"} ELSE {"a", "b", "c"}]
MCAuthority == [cs \in MCChangeSet |-> IF cs = "move" THEN "lease2" ELSE "lease1"]
MCInitialFiles == [p \in MCPath |->
    CASE p = "a" -> "oldCRLF" [] p = "b" -> "tmp" [] p = "c" -> Missing]
MCEdits == {<<"a", "old">>, <<"a", "tmp">>, <<"a", "mix">>, <<"b", Missing>>, <<"c", "new">>, <<"b", Symlink>>}
=============================================================================
