------------------------- MODULE MCRequestLifecycle -------------------------
(***************************************************************************)
(* Instances of RequestLifecycle for TLC.  The requests are alike except   *)
(* for their operation, so the instances where all of them have the same   *)
(* operation are symmetric in them; kill calls are always alike.           *)
(***************************************************************************)
EXTENDS RequestRefinement, TLC

RequestSymmetry == Permutations(Requests)
KillerSymmetry == Permutations(Killers)
Symmetry == RequestSymmetry \cup KillerSymmetry

\* What the run of the safety properties explores: one request alone, with two kill
\* calls, refused writes and crashes; or two requests that a human approves, with one
\* kill call at a time, on a server that does not fail.
AloneOrUndisturbed ==
  \/ \E r \in Requests : submit[r] = "new"
  \/ /\ crashes = 0 /\ faults = 0
     /\ \A r \in Requests : db[r].decision \in {"none", "ALLOW_ONCE"}
     /\ \E k \in Killers : killer[k] = IdleKiller
=============================================================================
