------------------------- MODULE MCApproverDevices -------------------------
(***************************************************************************)
(* Instances of ApproverDevices for TLC.  Calls, challenges and devices    *)
(* are alike.                                                              *)
(***************************************************************************)
EXTENDS ApproverDevices, TLC

Symmetry ==
  Permutations(Calls) \cup Permutations(Challenges) \cup Permutations(Devices)
=============================================================================
