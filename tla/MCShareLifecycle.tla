-------------------------- MODULE MCShareLifecycle --------------------------
(* A few shares and requests, in one of two regimes. *)
EXTENDS ShareLifecycle, TLC

\* "faults": two requests at once create and delete, and anything may fail;
\* "updates": one request after the other, with updates, and nothing fails.
VARIABLE regime

MCVars == <<shareVars, regime>>

MCInit == ShareInit /\ regime \in {"faults", "updates"}

MCNext ==
  /\ ShareNext
  /\ UNCHANGED regime
  /\ regime = "faults" => updated' = {}
  /\ regime = "updates" =>
       /\ cut' = {} /\ (up => up')
       /\ \A c, d \in Caller : c # d => Idle \in {req'[c], req'[d]}

MCSpec == MCInit /\ [][MCNext]_MCVars

Symmetry == Permutations(Caller) \cup Permutations(User)
=============================================================================
