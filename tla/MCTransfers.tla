---------------------------- MODULE MCTransfers ----------------------------
(***************************************************************************)
(* Instances of Transfers for TLC.  Requests that install are alike.       *)
(***************************************************************************)
EXTENDS TransfersRefinement, TLC

Symmetry == Permutations(UploadRequests)

\* Uploads and downloads share neither files nor requests: what they do at the same
\* time is what each does alone.
OneDirection ==
  \/ \A u \in Uploads : stage[u] = "new"
  \/ \A r \in DownloadRequests : client[r].step = "new" /\ local[r] = None
=============================================================================
