---------------------------- MODULE StagedUploads ----------------------------
(***************************************************************************)
(* What the server promises about the bytes that a client stages, without  *)
(* saying in which files or under which locks it keeps them.  An upload    *)
(* serves one request.  Its bytes are used after that request was allowed, *)
(* once, and whole.  Nobody takes them away before the request is over or  *)
(* a kill took it up.  What was begun or allowed is over after a crash.    *)
(* An upload that is older than a day is promised nothing.                 *)
(* (README.md:133, transfers.go:273, httpapi.go:192.)                      *)
(***************************************************************************)
CONSTANTS Uploads, Claimers, None

VARIABLES
  bytes,    \* of each upload: "none" yet, "here" or "gone"
  expired,  \* uploads that are older than a day
  serves,   \* the upload of each request
  phase,    \* of each request
  killed,   \* requests that a kill took up
  target    \* the upload that was installed last, or older bytes

Init ==
  /\ bytes = [u \in Uploads |-> "none"]
  /\ expired = {}
  /\ serves = [r \in Claimers |-> None]
  /\ phase = [r \in Claimers |-> "idle"]
  /\ killed = {}
  /\ target \in {None, "older"}

Becomes(r, p) == phase' = [phase EXCEPT ![r] = p]

Stage(u) ==
  /\ bytes[u] = "none"
  /\ \/ bytes' = [bytes EXCEPT ![u] = "here"]
     \/ /\ u \in expired
        /\ bytes' = [bytes EXCEPT ![u] = "gone"]
  /\ UNCHANGED <<expired, serves, phase, killed, target>>

\* The bytes may go now, but need not.
Expire(u) ==
  /\ expired' = expired \cup {u}
  /\ bytes' \in {bytes, [bytes EXCEPT ![u] = "gone"]}
  /\ UNCHANGED <<serves, phase, killed, target>>

\* A claim may bring back an upload that expired meanwhile.
Claim(r, u) ==
  /\ phase[r] = "idle"
  /\ \A s \in Claimers : serves[s] # u
  /\ \/ bytes[u] = "here"
     \/ bytes[u] = "gone" /\ u \in expired
  /\ serves' = [serves EXCEPT ![r] = u]
  /\ bytes' \in {bytes, [bytes EXCEPT ![u] = "here"]}
  /\ Becomes(r, "waiting")
  /\ UNCHANGED <<expired, killed, target>>

Refuse(r) ==
  /\ phase[r] = "idle"
  /\ Becomes(r, "over")
  /\ UNCHANGED <<bytes, expired, serves, killed, target>>

Allow(r) ==
  /\ phase[r] = "waiting"
  /\ Becomes(r, "allowed")
  /\ UNCHANGED <<bytes, expired, serves, killed, target>>

Begin(r) ==
  /\ phase[r] = "allowed"
  /\ Becomes(r, "running")
  /\ UNCHANGED <<bytes, expired, serves, killed, target>>

Use(r) ==
  /\ phase[r] = "running"
  /\ bytes[serves[r]] = "here"
  /\ Becomes(r, "using")
  /\ UNCHANGED <<bytes, expired, serves, killed, target>>

\* A request is over, be it denied, killed, failed or executed.
End(r) ==
  /\ phase[r] \in {"waiting", "allowed", "running", "using"}
  /\ Becomes(r, "over")
  /\ \/ UNCHANGED target
     \/ phase[r] = "using" /\ target' = serves[r]
  /\ UNCHANGED <<bytes, expired, serves, killed>>

\* A kill ends a request that is not yet running, or comes too late for that.
Kill(r) ==
  /\ phase[r] # "idle"
  /\ killed' = killed \cup {r}
  /\ \/ UNCHANGED phase
     \/ phase[r] = "allowed" /\ Becomes(r, "over")
  /\ UNCHANGED <<bytes, expired, serves, target>>

\* The bytes go.
Remove(r) ==
  /\ serves[r] # None
  /\ phase[r] = "over" \/ r \in killed
  /\ bytes' = [bytes EXCEPT ![serves[r]] = "gone"]
  /\ UNCHANGED <<expired, serves, phase, killed, target>>

\* Nothing that was begun or allowed is executed after a crash.
Crash ==
  /\ \E lost \in SUBSET Claimers :
       /\ \A r \in Claimers : phase[r] \in {"allowed", "running", "using"} => r \in lost
       /\ phase' = [r \in Claimers |-> IF r \in lost THEN "over" ELSE phase[r]]
  /\ UNCHANGED <<bytes, expired, serves, killed, target>>

Next ==
  \/ \E u \in Uploads : Stage(u) \/ Expire(u) \/ \E r \in Claimers : Claim(r, u)
  \/ \E r \in Claimers :
       \/ Refuse(r) \/ Allow(r) \/ Begin(r) \/ Use(r) \/ End(r)
       \/ Kill(r) \/ Remove(r)
  \/ Crash

Spec == Init /\ [][Next]_<<bytes, expired, serves, phase, killed, target>>
=============================================================================
