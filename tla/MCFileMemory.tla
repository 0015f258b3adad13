---------------------------- MODULE MCFileMemory ----------------------------
(* Two processes on a file that is new or was damaged before. *)
EXTENDS FileMemory

MCFirstFiles == {[state |-> "absent", holds |-> {}], [state |-> "corrupt", holds |-> {}]}
=============================================================================
