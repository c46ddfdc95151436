----------------------------- MODULE MCConsole -----------------------------
(***************************************************************************)
(* Instances of Console for TLC.                                           *)
(***************************************************************************)
EXTENDS Console

\* What the run explores.  Two inputs wait only while nothing is filtered, no job is
\* opened and no request has ended, so that the second one meets the next request;
\* pages and overlays that decide nothing are opened over one request only.
Explored ==
  /\ Len(typed) > 1 =>
       /\ hidden = {} /\ page # "job"
       /\ \A r \in Requests : status[r] # "done"
  /\ page \in {"rules", "history"} \/ visible \cap {"help", "copy", "manual_rule"} # {}
       => \E r \in Requests : status[r] = "new"
=============================================================================
