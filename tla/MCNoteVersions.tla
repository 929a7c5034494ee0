--------------------------- MODULE MCNoteVersions ---------------------------
(* A note of a few lines: its first lines alone, its last one, or its title
   are edited. *)
EXTENDS NoteVersions, TLC

AllOf(w) == [l \in Line |-> w]

\* A whole document, a change of its first line, and a new title with the
\* last line removed.
MCDrafts ==
  {[title |-> "t", text |-> AllOf("a")],
   [title |-> Keep, text |-> [AllOf("a") EXCEPT ![1] = "b"]],
   [title |-> "u", text |-> Keep]}

Symmetry == Permutations(Caller)
=============================================================================
