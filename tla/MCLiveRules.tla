---------------------------- MODULE MCLiveRules ----------------------------
(***************************************************************************)
(* Instances of LiveRules for TLC.  Rules are alike, and so are presets.   *)
(***************************************************************************)
EXTENDS LiveRules, TLC

Symmetry == Permutations(Rules) \cup Permutations(Presets)
=============================================================================
