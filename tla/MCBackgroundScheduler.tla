----------------------- MODULE MCBackgroundScheduler -----------------------
(* A small scheduler: interchangeable processes. *)
EXTENDS BackgroundScheduler, TLC

Symmetry == Permutations(Process)
=============================================================================
