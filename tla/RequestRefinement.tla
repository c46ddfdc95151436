-------------------------- MODULE RequestRefinement --------------------------
(***************************************************************************)
(* RequestLifecycle implements ApprovalGate.  What the gate knows of a     *)
(* request is read from the database alone, so that a crash, which loses   *)
(* everything else, is a stuttering step of the gate.                      *)
(***************************************************************************)
EXTENDS RequestLifecycle

Filed == {r \in Requests : db[r].status # "none"}

VerdictOf(d) ==
  CASE d = "DENY" -> "deny"
    [] d \in AllowDecisions -> "allow"
    [] OTHER -> "none"

Verdict == [r \in Requests |-> VerdictOf(db[r].decision)]

Gate == INSTANCE ApprovalGate
          WITH filed <- Filed, verdict <- Verdict, executions <- started

\* One verdict per request, and an execution only after an allowing verdict,
\* once: the promise of the gateway, through crashes, lost writes and racing
\* kill calls (httpapi.go:1704, automatic_decision.go:18, httpapi.go:192).
GateSpec == Gate!Spec
=============================================================================
