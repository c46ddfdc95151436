------------------------- MODULE TransfersRefinement -------------------------
(***************************************************************************)
(* Transfers implements StagedUploads.  The bytes of an upload are here    *)
(* while both of its files are, and a request that is about to claim does  *)
(* not own anything yet.  A request waits as long as its row is pending:   *)
(* one that is KILLED in memory alone waits again after a crash.           *)
(***************************************************************************)
EXTENDS Transfers

BytesOf(u) ==
  IF stage[u] # "staged" THEN "none" ELSE IF Readable(u) THEN "here" ELSE "gone"

PhaseOf(step, stored) ==
  IF stored = "pending" THEN "waiting"
  ELSE CASE step \in {"new", "claiming"} -> "idle"
         [] step = "prepared" -> "waiting"
         [] step = "approved" -> "allowed"
         [] step = "running" -> "running"
         [] step = "open" -> "using"
         [] OTHER -> "over"

Held == [u \in Uploads |-> BytesOf(u)]
Expired == swept \cap Uploads
Serves == [r \in Claimers |-> IF lock = r THEN None ELSE owns[r]]
Phase == [r \in Claimers |-> PhaseOf(req[r], row[r])]
Killed == killed \cap Claimers

Staged == INSTANCE StagedUploads
            WITH bytes <- Held, expired <- Expired, serves <- Serves, phase <- Phase,
                 killed <- Killed

\* Staged bytes serve one request, are used once, whole and after its approval,
\* and are left alone until it is over or killed, with claims, kills, crashes
\* and the cleanup racing (transfers.go:130, 235, 273 and 306).
UploadSpec == Staged!Spec
=============================================================================
