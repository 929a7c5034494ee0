--------------------------- MODULE MCUserActions ---------------------------
(* A few rows of one user, with restarts. *)
EXTENDS UserActions
=============================================================================
