------------------------------ MODULE MCVMIter ------------------------------
(* An instance of VMIter for TLC. *)
EXTENDS VMIter

\* A user's read-only mapping, and none.
SomePerms == {{"P", "U"}, {}}
=============================================================================
