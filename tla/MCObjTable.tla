------------------------------ MODULE MCObjTable ------------------------------
(* Small instances of ObjTable for TLC. *)
EXTENDS ObjTable, TLC

\* Calls, descriptors, inodes and blocks are interchangeable.
Interchangeable ==
  Permutations(Calls) \cup Permutations(Fds) \cup Permutations(Inodes) \cup Permutations(Entries)
=============================================================================
