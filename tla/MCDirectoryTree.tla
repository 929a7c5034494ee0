-------------------------- MODULE MCDirectoryTree --------------------------
(* A few directories, notes and users. *)
EXTENDS DirectoryTree, TLC

Symmetry == Permutations(User) \cup Permutations(Dir) \cup Permutations(Note)
=============================================================================
