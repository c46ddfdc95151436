----------------------------- MODULE ApprovalGate -----------------------------
(***************************************************************************)
(* What the gateway promises about a request, without saying how: it is    *)
(* filed, it receives at most one verdict, and only an allowing verdict    *)
(* lets its operation be executed, at most once.  (README.md:3,            *)
(* docs/plans/2026-02-10-racg-design.md sections 1 and 2.)                 *)
(***************************************************************************)
EXTENDS Naturals

CONSTANT Requests

VARIABLES
  filed,       \* requests recorded in the audit database
  verdict,     \* "none", "deny" or "allow"
  executions   \* how often the operation was begun

Init ==
  /\ filed = {}
  /\ verdict = [r \in Requests |-> "none"]
  /\ executions = [r \in Requests |-> 0]

File(r) ==
  /\ r \notin filed
  /\ filed' = filed \cup {r}
  /\ UNCHANGED <<verdict, executions>>

GiveVerdict(r, v) ==
  /\ r \in filed
  /\ verdict[r] = "none"
  /\ verdict' = [verdict EXCEPT ![r] = v]
  /\ UNCHANGED <<filed, executions>>

Execute(r) ==
  /\ verdict[r] = "allow"
  /\ executions[r] = 0
  /\ executions' = [executions EXCEPT ![r] = 1]
  /\ UNCHANGED <<filed, verdict>>

Next ==
  \E r \in Requests :
    \/ File(r)
    \/ GiveVerdict(r, "deny") \/ GiveVerdict(r, "allow")
    \/ Execute(r)

Spec == Init /\ [][Next]_<<filed, verdict, executions>>
=============================================================================
