---------------------------- MODULE MCFileEdits ----------------------------
(***************************************************************************)
(* Instances of FileEdits for TLC.  Patches are alike.                     *)
(***************************************************************************)
EXTENDS FileEdits, TLC

Symmetry == Permutations(Patches)

\* The run explores any three of the edits, and any four of them within one second.
Begun == {e \in Edits : step[e] \notin {"waiting", "lost"}}
SomeAtOnce ==
  \/ Cardinality(Begun) <= 3
  \/ Cardinality(Begun) = 4 /\ second = 1
=============================================================================
