-------------------------- MODULE RequestLifecycle --------------------------
(***************************************************************************)
(* The life of a request inside one racg server: submission, the decision, *)
(* the goroutine that executes it, kill calls, and crash and restart of    *)
(* the process (internal/httpapi, internal/store, internal/executor).      *)
(*                                                                         *)
(* One action is one critical section of reqsMu, runningMu or transferMu,  *)
(* one statement executed by SQLite, or one call into the operating        *)
(* system.  Between two of them any other goroutine may run.               *)
(***************************************************************************)
EXTENDS Integers, FiniteSets

CONSTANTS
  Requests,        \* request identifiers
  CmdRequests,     \* those whose operation is cmd.run; the rest are file operations
  StdinRequests,   \* the cmd.run requests that carry a staged stdin upload
  Killers,         \* concurrent callers of killInternal
  LocalActions,    \* the decisions a human takes (TUI or approver device)
  MaxConcurrency,  \* capacity of the execution semaphore
  MaxLoad,         \* rows a restart loads at most (5000 in the code)
  MaxCrashes,      \* bound: crashes of the server process
  MaxFaults        \* bound: statements that SQLite refuses

AllowActions == {"ALLOW_ONCE", "ALLOW_SESSION", "ALLOW_ALWAYS"}
AllowDecisions == AllowActions \cup {"ALLOW_RULE"}
Decisions == AllowDecisions \cup {"DENY"}

ASSUME ConstantsAssumption ==
  /\ IsFiniteSet(Requests)
  /\ CmdRequests \subseteq Requests
  /\ StdinRequests \subseteq CmdRequests
  /\ LocalActions \subseteq AllowActions \cup {"DENY"}
  /\ MaxConcurrency \in Nat \ {0}
  /\ MaxLoad \in Nat
  /\ MaxCrashes \in Nat
  /\ MaxFaults \in Nat

Outcomes == {"SUCCEEDED", "FAILED", "TIMED_OUT", "KILLED"}
TerminalStatuses == Outcomes \cup {"DENIED", "CANCELED"}
Statuses == {"PENDING_APPROVAL", "APPROVED", "QUEUED", "RUNNING"} \cup TerminalStatuses
Resumable == {"PENDING_APPROVAL", "APPROVED", "QUEUED", "RUNNING"}
Killable == {"PENDING_APPROVAL", "APPROVED", "QUEUED"}

\* An execution record is told apart by its status, or by the message of the
\* two records that are written for a request whose process did not finish.
Records == Outcomes \cup {"killed before start", "server restarted"}

VARIABLES
  up,        \* the server process: "up", "down" or "loading" (rehydrating)
  submit,    \* progress of the POST /v1/requests handler of each request
  mem,       \* a.reqs: status, decision and result in memory
  db,        \* the rows of requests, decisions and executions
  load,      \* RehydrateFromStore: rows still to be loaded
  pc,        \* program counter of the goroutine that carries a decision out
  outcome,   \* that goroutine's rr.Status
  running,   \* keys of a.running: requests with a registered cancel function
  ctx,       \* the context of the command
  sem,       \* tokens in the semaphore channel
  staged,    \* requests whose staged stdin upload exists
  killer,    \* program counter, target and status read of each kill call
  started,   \* history: how often the operation of a request was begun
  crashes,   \* bounded by MaxCrashes
  faults     \* bounded by MaxFaults

vars == <<up, submit, mem, db, load, pc, outcome, running, ctx, sem, staged,
          killer, started, crashes, faults>>

NoMem == [status |-> "none", decision |-> "none", result |-> "none"]
NoRow == [status |-> "none", decision |-> "none", exec |-> "none"]
IdleKiller == [pc |-> "idle", req |-> "none", seen |-> "none"]

\* Program counters of executeApprovedRequest after the semaphore is taken ...
InSlot == {"check", "mark", "saveRunning", "open", "register", "start", "exec", "held",
           "unregister", "clean", "saveStatus", "saveExec", "publish", "release"}
\* ... after the request was marked RUNNING in memory ...
Marked == {"saveRunning", "open", "register", "start", "exec", "held", "unregister",
           "clean", "saveStatus", "saveExec", "publish"}
\* ... and before the semaphore is taken.
BeforeSlot == {"spawned", "queue", "saveQueued", "acquire"}
Carrying == BeforeSlot \cup InSlot
\* After the result is known, before it is published.
Saving == {"unregister", "clean", "saveStatus", "saveExec", "publish"}
ProgramCounters == {"idle", "denied", "done"} \cup Carrying

Init ==
  /\ up = "up"
  /\ submit = [r \in Requests |-> "new"]
  /\ mem = [r \in Requests |-> NoMem]
  /\ db = [r \in Requests |-> NoRow]
  /\ load = [r \in Requests |-> "none"]
  /\ pc = [r \in Requests |-> "idle"]
  /\ outcome = [r \in Requests |-> "none"]
  /\ running = {}
  /\ ctx = [r \in Requests |-> "none"]
  /\ sem = 0
  /\ staged = StdinRequests
  /\ killer = [k \in Killers |-> IdleKiller]
  /\ started = [r \in Requests |-> 0]
  /\ crashes = 0
  /\ faults = 0

-----------------------------------------------------------------------------
(***************************************************************************)
(* SQLite.  UpdateRequestStatus writes whatever it is told; InsertExecution *)
(* fails on an existing primary key.  The callers below discard the error. *)
(***************************************************************************)
Refused ==
  /\ faults < MaxFaults
  /\ faults' = faults + 1
  /\ db' = db

UpdateRequestStatus(r, s) ==
  \/ db' = [db EXCEPT ![r].status = s] /\ faults' = faults
  \/ Refused

InsertExecution(r, rec) ==
  \/ /\ db' = [db EXCEPT ![r].exec = IF @ = "none" THEN rec ELSE @]
     /\ faults' = faults
  \/ Refused

(***************************************************************************)
(* CommitPendingDecision: one transaction that consumes the pending row    *)
(* and records the decision, or changes nothing.                           *)
(***************************************************************************)
DecidedStatus(d) == IF d = "DENY" THEN "DENIED" ELSE "APPROVED"

CommitPendingDecision(r, d) ==
  /\ db[r].status = "PENDING_APPROVAL"
  /\ db[r].decision = "none"
  /\ db' = [db EXCEPT ![r].status = DecidedStatus(d), ![r].decision = d]

-----------------------------------------------------------------------------
(***************************************************************************)
(* POST /v1/requests.                                                      *)
(***************************************************************************)
SubmitUnchanged ==
  UNCHANGED <<up, load, outcome, running, ctx, sem, killer, started, crashes, faults>>

InsertRequest(r) ==
  /\ up = "up"
  /\ submit[r] = "new"
  /\ submit' = [submit EXCEPT ![r] = "inserted"]
  /\ db' = [db EXCEPT ![r].status = "PENDING_APPROVAL"]
  /\ UNCHANGED <<mem, pc, staged>>
  /\ SubmitUnchanged

InsertRequestFails(r) ==
  /\ up = "up"
  /\ submit[r] = "new"
  /\ submit' = [submit EXCEPT ![r] = "rejected"]
  /\ staged' = staged \ {r}
  /\ UNCHANGED <<mem, db, pc>>
  /\ SubmitUnchanged

ShowRequest(r) ==
  /\ up = "up"
  /\ submit[r] = "inserted"
  /\ submit' = [submit EXCEPT ![r] = "visible"]
  /\ mem' = [mem EXCEPT ![r].status = "PENDING_APPROVAL"]
  /\ UNCHANGED <<db, pc, staged>>
  /\ SubmitUnchanged

\* Mutants of Settle: a denial that forgets to store the record in a.reqs; a
\* dispatch before the commit is known to succeed; a denial that dispatches.
SettleForgetsDenial(r, d) ==
  /\ mem[r].status = "PENDING_APPROVAL"
  /\ CommitPendingDecision(r, d)
  /\ mem' = [mem EXCEPT ![r] = IF d = "DENY" THEN @ ELSE
                [@ EXCEPT !.status = "APPROVED", !.decision = d]]
  /\ pc' = [pc EXCEPT ![r] = IF d = "DENY" THEN "denied" ELSE "spawned"]

SettleUnpersisted(r, d) ==
  /\ mem[r].status = "PENDING_APPROVAL"
  /\ CommitPendingDecision(r, d) \/ UNCHANGED db
  /\ mem' = [mem EXCEPT ![r].status = DecidedStatus(d), ![r].decision = d]
  /\ pc' = [pc EXCEPT ![r] = IF d = "DENY" THEN "denied" ELSE "spawned"]

SettleDispatchesAll(r, d) ==
  /\ mem[r].status = "PENDING_APPROVAL"
  /\ CommitPendingDecision(r, d)
  /\ mem' = [mem EXCEPT ![r].status = DecidedStatus(d), ![r].decision = d]
  /\ pc' = [pc EXCEPT ![r] = "spawned"]

\* Consumes a pending request with decision d and starts what follows it: the
\* removal of a denied request's input, or the execution goroutine.
Settle(r, d) ==
  /\ mem[r].status = "PENDING_APPROVAL"
  /\ CommitPendingDecision(r, d)
  /\ mem' = [mem EXCEPT ![r].status = DecidedStatus(d), ![r].decision = d]
  /\ pc' = [pc EXCEPT ![r] = IF d = "DENY" THEN "denied" ELSE "spawned"]

\* approveByRule with a matching rule.
ApproveByRule(r) ==
  /\ up = "up"
  /\ submit[r] = "visible"
  /\ submit' = [submit EXCEPT ![r] = "answered"]
  /\ Settle(r, "ALLOW_RULE")
  /\ UNCHANGED staged
  /\ SubmitUnchanged

\* approveByRule when the request is no longer pending, no rule matches, or
\* the decision could not be stored: the request keeps its status.
LeaveToHuman(r) ==
  /\ up = "up"
  /\ submit[r] = "visible"
  /\ submit' = [submit EXCEPT ![r] = "answered"]
  /\ UNCHANGED <<mem, db, pc, staged>>
  /\ SubmitUnchanged

\* decideInternalWithSource.  Its refusals and a failed commit change nothing.
Decide(r, d) ==
  /\ up = "up"
  /\ Settle(r, d)
  /\ UNCHANGED <<submit, staged>>
  /\ SubmitUnchanged

\* The denial removes the staged input after reqsMu is released.
CleanDenied(r) ==
  /\ pc[r] = "denied"
  /\ pc' = [pc EXCEPT ![r] = "done"]
  /\ staged' = staged \ {r}
  /\ UNCHANGED <<submit, mem, db>>
  /\ SubmitUnchanged

-----------------------------------------------------------------------------
(***************************************************************************)
(* executeApprovedRequest.                                                 *)
(***************************************************************************)
Goto(r, from, to) ==
  /\ pc[r] = from
  /\ pc' = [pc EXCEPT ![r] = to]

\* Return at once when the request was killed, else go on.
ReturnIfKilled(r, from, return, next) ==
  /\ Goto(r, from, IF mem[r].status = "KILLED" THEN return ELSE next)
  /\ UNCHANGED <<up, submit, mem, db, load, outcome, running, ctx, sem, staged,
                 killer, started, crashes, faults>>

FirstCheck(r) == ReturnIfKilled(r, "spawned", "done", "queue")

MarkQueued(r) ==
  /\ Goto(r, "queue", IF mem[r].status = "APPROVED" THEN "saveQueued" ELSE "acquire")
  /\ mem' = [mem EXCEPT ![r].status = IF @ = "APPROVED" THEN "QUEUED" ELSE @]
  /\ UNCHANGED <<up, submit, db, load, outcome, running, ctx, sem, staged,
                 killer, started, crashes, faults>>

\* A goroutine step that only writes the status column.
SaveStatusAs(r, s, from, to) ==
  /\ Goto(r, from, to)
  /\ UpdateRequestStatus(r, s)
  /\ UNCHANGED <<up, submit, mem, load, outcome, running, ctx, sem, staged,
                 killer, started, crashes>>

SaveQueued(r) == SaveStatusAs(r, "QUEUED", "saveQueued", "acquire")

\* Mutant: a semaphore with one token too many.
AcquireSlotOffByOne(r) ==
  /\ Goto(r, "acquire", "check")
  /\ sem <= MaxConcurrency
  /\ sem' = sem + 1
  /\ UNCHANGED <<up, submit, mem, db, load, outcome, running, ctx, staged,
                 killer, started, crashes, faults>>

AcquireSlot(r) ==
  /\ Goto(r, "acquire", "check")
  /\ sem < MaxConcurrency
  /\ sem' = sem + 1
  /\ UNCHANGED <<up, submit, mem, db, load, outcome, running, ctx, staged,
                 killer, started, crashes, faults>>

SecondCheck(r) == ReturnIfKilled(r, "check", "release", "mark")

MarkRunning(r) ==
  /\ Goto(r, "mark", "saveRunning")
  /\ mem' = [mem EXCEPT ![r].status = "RUNNING"]
  /\ UNCHANGED <<up, submit, db, load, outcome, running, ctx, sem, staged,
                 killer, started, crashes, faults>>

SaveRunning(r) == SaveStatusAs(r, "RUNNING", "saveRunning", "open")

\* Steps between the switch on op.Type and the result rr.
WorkUnchanged == UNCHANGED <<up, submit, mem, db, load, sem, staged, killer, crashes, faults>>

InputMissing(r) == r \in StdinRequests \ staged

\* An input that is missing, expired or does not match its checksum ends the
\* request; a command without stdin, or with an intact one, goes on.
OpenStagedInput(r) ==
  /\ r \in CmdRequests
  /\ \/ /\ r \in StdinRequests
        /\ Goto(r, "open", "clean")
        /\ outcome' = [outcome EXCEPT ![r] = "FAILED"]
     \/ /\ ~InputMissing(r)
        /\ Goto(r, "open", "register")
        /\ UNCHANGED outcome
  /\ UNCHANGED <<running, ctx, started>>
  /\ WorkUnchanged

RegisterCancel(r) ==
  /\ Goto(r, "register", "start")
  /\ running' = running \cup {r}
  /\ ctx' = [ctx EXCEPT ![r] = "live"]
  /\ UNCHANGED <<outcome, started>>
  /\ WorkUnchanged

\* Executor.Run: exec.Cmd.Start refuses a context that is already done.
StartProcess(r) ==
  /\ ctx[r] = "live"
  /\ Goto(r, "start", "exec")
  /\ started' = [started EXCEPT ![r] = @ + 1]
  /\ UNCHANGED <<outcome, running, ctx>>
  /\ WorkUnchanged

StartFails(r) ==
  /\ Goto(r, "start", "unregister")
  /\ outcome' = [outcome EXCEPT ![r] = "FAILED"]
  /\ UNCHANGED <<running, ctx, started>>
  /\ WorkUnchanged

\* Mutant: a command without a timeout.
NoDeadline(r) ==
  /\ FALSE
  /\ ctx' = [ctx EXCEPT ![r] = "deadline"]
  /\ UNCHANGED <<pc, outcome, running, started>>
  /\ WorkUnchanged

\* The timeout of the command's context expires.
Deadline(r) ==
  /\ pc[r] \in {"start", "exec", "held"}
  /\ ctx[r] = "live"
  /\ ctx' = [ctx EXCEPT ![r] = "deadline"]
  /\ UNCHANGED <<pc, outcome, running, started>>
  /\ WorkUnchanged

\* Executor.Run returns: the context decides the status before the exit code.
RunOutcomes(c) ==
  CASE c = "canceled" -> {"KILLED"}
    [] c = "deadline" -> {"TIMED_OUT"}
    [] OTHER -> {"SUCCEEDED", "FAILED"}

RunReturns(r, from) ==
  /\ r \in CmdRequests
  /\ Goto(r, from, "unregister")
  /\ \E o \in RunOutcomes(ctx[r]) : outcome' = [outcome EXCEPT ![r] = o]
  /\ UNCHANGED <<running, ctx, started>>
  /\ WorkUnchanged

\* The command ends by itself or by the signal of its context, and nobody else
\* has its output open.
FinishProcess(r) == RunReturns(r, "exec")

\* The command ends, but a process it started has its output open: Cmd.Wait goes
\* on reading.  Once the command is collected Getpgid fails, so neither a kill
\* call nor the deadline signals that process any more.
LeaveChild(r) ==
  /\ r \in CmdRequests
  /\ Goto(r, "exec", "held")
  /\ UNCHANGED <<outcome, running, ctx, started>>
  /\ WorkUnchanged

\* The last process that has the output open ends or closes it.
ChildLetsGo(r) == RunReturns(r, "held")

UnregisterCancel(r) ==
  /\ Goto(r, "unregister", "clean")
  /\ running' = running \ {r}
  /\ ctx' = [ctx EXCEPT ![r] = "none"]
  /\ UNCHANGED <<outcome, started>>
  /\ WorkUnchanged

\* fs.read, fs.upload, fs.download, fs.patch_unified and conf.set: no context,
\* no cancel function.
BeginFileOp(r) ==
  /\ r \notin CmdRequests
  /\ Goto(r, "open", "exec")
  /\ started' = [started EXCEPT ![r] = @ + 1]
  /\ UNCHANGED <<outcome, running, ctx>>
  /\ WorkUnchanged

FinishFileOp(r) ==
  /\ r \notin CmdRequests
  /\ Goto(r, "exec", "saveStatus")
  /\ \E o \in {"SUCCEEDED", "FAILED"} : outcome' = [outcome EXCEPT ![r] = o]
  /\ UNCHANGED <<running, ctx, started>>
  /\ WorkUnchanged

\* An operation type the switch does not know.
RejectOp(r) ==
  /\ r \notin CmdRequests
  /\ Goto(r, "open", "saveStatus")
  /\ outcome' = [outcome EXCEPT ![r] = "FAILED"]
  /\ UNCHANGED <<running, ctx, started>>
  /\ WorkUnchanged

CleanInput(r) ==
  /\ Goto(r, "clean", "saveStatus")
  /\ staged' = staged \ {r}
  /\ UNCHANGED <<up, submit, mem, db, load, outcome, running, ctx, sem, killer,
                 started, crashes, faults>>

SaveOutcome(r) == SaveStatusAs(r, outcome[r], "saveStatus", "saveExec")

SaveExecution(r) ==
  /\ Goto(r, "saveExec", "publish")
  /\ InsertExecution(r, outcome[r])
  /\ UNCHANGED <<up, submit, mem, load, outcome, running, ctx, sem, staged,
                 killer, started, crashes>>

\* Mutant: the result is stored, the status is not.
PublishResultOnly(r) ==
  /\ Goto(r, "publish", "release")
  /\ mem' = [mem EXCEPT ![r].result = outcome[r]]
  /\ UNCHANGED <<up, submit, db, load, outcome, running, ctx, sem, staged,
                 killer, started, crashes, faults>>

PublishResult(r) ==
  /\ Goto(r, "publish", "release")
  /\ mem' = [mem EXCEPT ![r].status = outcome[r], ![r].result = outcome[r]]
  /\ UNCHANGED <<up, submit, db, load, outcome, running, ctx, sem, staged,
                 killer, started, crashes, faults>>

\* Mutant: the slot is never given back.
ReleaseForgotten(r) ==
  /\ Goto(r, "release", "done")
  /\ UNCHANGED <<up, submit, mem, db, load, outcome, running, ctx, sem, staged,
                 killer, started, crashes, faults>>

\* The deferred receive from the semaphore channel.
ReleaseSlot(r) ==
  /\ Goto(r, "release", "done")
  /\ sem' = sem - 1
  /\ UNCHANGED <<up, submit, mem, db, load, outcome, running, ctx, staged,
                 killer, started, crashes, faults>>

-----------------------------------------------------------------------------
(***************************************************************************)
(* killInternal.                                                           *)
(***************************************************************************)
KillUnchanged ==
  UNCHANGED <<up, submit, load, pc, outcome, running, sem, started, crashes>>

KillRead(k, r) ==
  /\ up = "up"
  /\ killer[k].pc = "idle"
  /\ mem[r].status # "none"
  /\ killer' = [killer EXCEPT ![k] =
       [pc |-> IF mem[r].status \in Killable THEN "mark" ELSE "cancel",
        req |-> r, seen |-> mem[r].status]]
  /\ UNCHANGED <<mem, db, ctx, staged, faults>>
  /\ KillUnchanged

KillStatus(k) == IF killer[k].seen = "PENDING_APPROVAL" THEN "CANCELED" ELSE "KILLED"

\* Overwrites the record read again under the lock, whatever it says by now.
KillMark(k) ==
  LET r == killer[k].req IN
  /\ killer[k].pc = "mark"
  /\ mem' = [mem EXCEPT
       ![r].status = KillStatus(k),
       ![r].result = IF KillStatus(k) = "KILLED" THEN "killed before start" ELSE @]
  /\ killer' = [killer EXCEPT ![k].pc = "clean"]
  /\ UNCHANGED <<db, ctx, staged, faults>>
  /\ KillUnchanged

KillClean(k) ==
  /\ killer[k].pc = "clean"
  /\ staged' = staged \ {killer[k].req}
  /\ killer' = [killer EXCEPT ![k].pc = "saveStatus"]
  /\ UNCHANGED <<mem, db, ctx, faults>>
  /\ KillUnchanged

KillSaveStatus(k) ==
  /\ killer[k].pc = "saveStatus"
  /\ UpdateRequestStatus(killer[k].req, KillStatus(k))
  /\ killer' = [killer EXCEPT ![k] =
       IF KillStatus(k) = "KILLED" THEN [@ EXCEPT !.pc = "saveExec"] ELSE IdleKiller]
  /\ UNCHANGED <<mem, ctx, staged>>
  /\ KillUnchanged

KillSaveExecution(k) ==
  /\ killer[k].pc = "saveExec"
  /\ InsertExecution(killer[k].req, "killed before start")
  /\ killer' = [killer EXCEPT ![k] = IdleKiller]
  /\ UNCHANGED <<mem, ctx, staged>>
  /\ KillUnchanged

KillCancel(k) ==
  LET r == killer[k].req IN
  /\ killer[k].pc = "cancel"
  /\ ctx' = [ctx EXCEPT ![r] = IF r \in running /\ @ = "live" THEN "canceled" ELSE @]
  /\ killer' = [killer EXCEPT ![k] = IdleKiller]
  /\ UNCHANGED <<mem, db, staged, faults>>
  /\ KillUnchanged

-----------------------------------------------------------------------------
(***************************************************************************)
(* Crash, restart and RehydrateFromStore, which runs before the listener.  *)
(***************************************************************************)
Crash ==
  /\ up # "down"
  /\ crashes < MaxCrashes
  /\ crashes' = crashes + 1
  /\ up' = "down"
  /\ submit' = [r \in Requests |-> IF submit[r] \in {"new", "rejected"}
                                     THEN submit[r] ELSE "answered"]
  /\ mem' = [r \in Requests |-> NoMem]
  /\ load' = [r \in Requests |-> "none"]
  /\ pc' = [r \in Requests |-> "idle"]
  /\ outcome' = [r \in Requests |-> "none"]
  /\ running' = {}
  /\ ctx' = [r \in Requests |-> "none"]
  /\ sem' = 0
  /\ killer' = [k \in Killers |-> IdleKiller]
  /\ UNCHANGED <<db, staged, started, faults>>

\* ListRequestsByStatus: the oldest of the unfinished requests, up to the limit.
Unfinished == {r \in Requests : db[r].status \in Resumable}

Restart ==
  /\ up = "down"
  /\ up' = "loading"
  /\ \E oldest \in SUBSET Unfinished :
       /\ Cardinality(oldest) <= MaxLoad
       /\ oldest = Unfinished \/ Cardinality(oldest) = MaxLoad
       /\ load' = [r \in Requests |-> IF r \in oldest THEN "row" ELSE "none"]
  /\ UNCHANGED <<submit, mem, db, pc, outcome, running, ctx, sem, staged,
                 killer, started, crashes, faults>>

LoadUnchanged ==
  UNCHANGED <<up, submit, pc, outcome, running, ctx, sem, staged, killer,
              started, crashes>>

\* Mutant: the decision row is not read.
RehydratedUndecided(r, read) ==
  [status |-> IF load[r] = "recorded" THEN "FAILED" ELSE db[r].status,
   decision |-> "none",
   result |-> IF "result" \in read THEN db[r].exec ELSE "none"]

\* What a row is loaded as: an interrupted request as FAILED, every other one with
\* its status, and with what was read of its decision and its execution.
Rehydrated(r, read) ==
  [status |-> IF load[r] = "recorded" THEN "FAILED" ELSE db[r].status,
   decision |-> IF "decision" \in read THEN db[r].decision ELSE "none",
   result |-> IF "result" \in read THEN db[r].exec ELSE "none"]

\* Mutant: an interrupted request is failed in memory only.
FailInterruptedInMemory(r) ==
  /\ load[r] = "row"
  /\ db[r].status = "RUNNING"
  /\ load' = [load EXCEPT ![r] = "failed"]
  /\ UNCHANGED <<mem, db, faults>>
  /\ LoadUnchanged

\* A RUNNING row is never resumed: it is marked FAILED ...
FailInterrupted(r) ==
  /\ load[r] = "row"
  /\ db[r].status = "RUNNING"
  /\ UpdateRequestStatus(r, "FAILED")
  /\ load' = [load EXCEPT ![r] = "failed"]
  /\ UNCHANGED mem
  /\ LoadUnchanged

\* ... and gets an execution record if it has none.  A look for one that fails
\* inserts nothing, like a refused insertion.
RecordInterrupted(r) ==
  /\ load[r] = "failed"
  /\ InsertExecution(r, "server restarted")
  /\ load' = [load EXCEPT ![r] = "recorded"]
  /\ UNCHANGED mem
  /\ LoadUnchanged

\* Rows that are loaded without being failed first, and those that were.
Loadable(r) == load[r] = "recorded" \/ (load[r] = "row" /\ db[r].status # "RUNNING")

\* Reads of the decision and the execution: an error leaves that part out.
ReadBack(r) ==
  \E read \in SUBSET {"decision", "result"} :
    /\ mem' = [mem EXCEPT ![r] = Rehydrated(r, read)]
    /\ read # {"decision", "result"} => faults < MaxFaults
    /\ faults' = IF read = {"decision", "result"} THEN faults ELSE faults + 1

\* Mutant: approved and queued rows are dispatched again.
LoadRowResumes(r) ==
  /\ Loadable(r)
  /\ ReadBack(r)
  /\ load' = [load EXCEPT ![r] = "none"]
  /\ pc' = [pc EXCEPT ![r] = IF db[r].status \in {"APPROVED", "QUEUED"} THEN "spawned" ELSE @]
  /\ UNCHANGED <<up, submit, db, outcome, running, ctx, sem, staged, killer,
                 started, crashes>>

\* Nothing that is loaded is dispatched.
LoadRow(r) ==
  /\ Loadable(r)
  /\ ReadBack(r)
  /\ load' = [load EXCEPT ![r] = "none"]
  /\ UNCHANGED db
  /\ LoadUnchanged

Serve ==
  /\ up = "loading"
  /\ \A r \in Requests : load[r] = "none"
  /\ up' = "up"
  /\ UNCHANGED <<submit, mem, db, load, pc, outcome, running, ctx, sem, staged,
                 killer, started, crashes, faults>>

-----------------------------------------------------------------------------
Submission(r) ==
  InsertRequest(r) \/ InsertRequestFails(r) \/ ShowRequest(r)
    \/ ApproveByRule(r) \/ LeaveToHuman(r)

Decision(r) == \E d \in LocalActions : Decide(r, d)

\* The steps of executeApprovedRequest that depend on nobody else.
Advance(r) ==
  \/ CleanDenied(r)
  \/ FirstCheck(r) \/ MarkQueued(r) \/ SaveQueued(r)
  \/ SecondCheck(r) \/ MarkRunning(r) \/ SaveRunning(r)
  \/ OpenStagedInput(r) \/ RegisterCancel(r) \/ StartProcess(r) \/ StartFails(r)
  \/ UnregisterCancel(r)
  \/ BeginFileOp(r) \/ RejectOp(r) \/ FinishFileOp(r)
  \/ CleanInput(r) \/ SaveOutcome(r) \/ SaveExecution(r) \/ PublishResult(r)
  \/ ReleaseSlot(r)

Execution(r) ==
  \/ Advance(r) \/ AcquireSlot(r) \/ Deadline(r)
  \/ FinishProcess(r) \/ LeaveChild(r) \/ ChildLetsGo(r)

Kill(k) ==
  \/ \E r \in Requests : KillRead(k, r)
  \/ KillMark(k) \/ KillClean(k) \/ KillSaveStatus(k) \/ KillSaveExecution(k)
  \/ KillCancel(k)

Rehydration(r) == FailInterrupted(r) \/ RecordInterrupted(r) \/ LoadRow(r)

Next ==
  \/ \E r \in Requests :
       Submission(r) \/ Decision(r) \/ Execution(r) \/ Rehydration(r)
  \/ \E k \in Killers : Kill(k)
  \/ Crash \/ Restart \/ Serve

Spec == Init /\ [][Next]_vars

(***************************************************************************)
(* The Go scheduler runs every ready goroutine, a free semaphore token is  *)
(* taken, a timer fires, and a command that was sent SIGKILL ends, alone   *)
(* or leaving a child with its output behind.  A command left alone need   *)
(* not end by itself, and nothing makes a child let go of the output.      *)
(***************************************************************************)
Fairness ==
  \A r \in Requests :
    /\ WF_vars(Advance(r))
    /\ WF_vars(AcquireSlot(r))
    /\ WF_vars(Deadline(r))
    /\ WF_vars(ctx[r] # "live" /\ (FinishProcess(r) \/ LeaveChild(r)))

FairSpec == Spec /\ Fairness

-----------------------------------------------------------------------------
MemRecord == [status : Statuses \cup {"none"},
              decision : Decisions \cup {"none"},
              result : Records \cup {"none"}]

DbRecord == [status : Statuses \cup {"none"},
             decision : Decisions \cup {"none"},
             exec : Records \cup {"none"}]

KillerRecord == [pc : {"idle", "mark", "clean", "saveStatus", "saveExec", "cancel"},
                 req : Requests \cup {"none"},
                 seen : Statuses \cup {"none"}]

\* Types of all variables; a kill call past its first read has a target, and
\* a result that is being stored has a status.
TypeOK ==
  /\ up \in {"up", "down", "loading"}
  /\ submit \in [Requests -> {"new", "inserted", "visible", "answered", "rejected"}]
  /\ mem \in [Requests -> MemRecord]
  /\ db \in [Requests -> DbRecord]
  /\ load \in [Requests -> {"none", "row", "failed", "recorded"}]
  /\ pc \in [Requests -> ProgramCounters]
  /\ outcome \in [Requests -> Outcomes \cup {"none"}]
  /\ running \in SUBSET Requests
  /\ ctx \in [Requests -> {"none", "live", "canceled", "deadline"}]
  /\ sem \in Int
  /\ staged \in SUBSET StdinRequests
  /\ killer \in [Killers -> KillerRecord]
  /\ \A k \in Killers : killer[k].pc # "idle" => killer[k].req \in Requests
  /\ \A r \in Requests : pc[r] \in Saving => outcome[r] \in Outcomes
  /\ started \in [Requests -> Nat]
  /\ crashes \in 0..MaxCrashes
  /\ faults \in 0..MaxFaults

(***************************************************************************)
(* Safety.                                                                 *)
(***************************************************************************)

\* The operation of a request is begun at most once, whatever decisions, kill
\* calls, lost writes, crashes and restarts happen in between: approval
\* dispatches once and RehydrateFromStore never resumes (httpapi.go:211).
AtMostOneStart == \A r \in Requests : started[r] <= 1

\* An operation is begun only under an allowing decision that is already in
\* the database ("Persist before ... dispatching", httpapi.go:1738): no crash
\* leaves an execution behind that the audit trail does not justify.
StartedOnlyIfAllowed ==
  \A r \in Requests : started[r] > 0 => db[r].decision \in AllowDecisions

\* A decision shown for a request in memory is the one in the database, also
\* after a restart and whatever kill calls overwrote meanwhile.  Only where SQLite
\* has refused something may a request be shown without its decision: a restart
\* takes every error of GetDecision for "undecided" (httpapi.go:252).
DecisionAgreement ==
  \A r \in Requests :
    mem[r].status # "none" =>
      \/ mem[r].decision = db[r].decision
      \/ mem[r].decision = "none" /\ faults > 0

\* At most MaxConcurrency goroutines are between taking and releasing a
\* semaphore token: every return path of executeApprovedRequest gives it back.
HoldingSlot == {r \in Requests : pc[r] \in InSlot}
SlotBound == Cardinality(HoldingSlot) <= MaxConcurrency

\* The counter of the channel is the number of goroutines in the section.
SlotsCounted == sem = Cardinality(HoldingSlot)

\* Whatever is listed as RUNNING has a goroutine that will move it on; a
\* restart or a racing kill never leaves an orphan.
NoOrphanRunning ==
  \A r \in Requests : mem[r].status = "RUNNING" => pc[r] \in Marked

\* When the goroutine of a decision is gone the request is finished for every
\* observer, also if it returned early because of a kill.
DoneIsTerminal ==
  \A r \in Requests : pc[r] = "done" => mem[r].status \in TerminalStatuses

\* Without kill calls and refused writes: whenever no goroutine is working on
\* a request, memory and database tell the same story about it, through every
\* crash and restart.
SettledAgreement ==
  \A r \in Requests :
    up = "up" /\ mem[r].status # "none" /\ pc[r] \notin Carrying =>
      mem[r].status = db[r].status /\ mem[r].result = db[r].exec

(***************************************************************************)
(* Liveness.                                                               *)
(***************************************************************************)

\* No child keeps the output of a command open for ever.  The code does not see
\* to that: Cmd.Wait has no WaitDelay (executor.go:103).
ChildrenLetGo == \A r \in Requests : []<>(pc[r] # "held")

\* An approved request is finished, even if its command never ends by itself and
\* all slots are taken when it is approved, and whatever kill calls do meanwhile,
\* unless the server crashes, which empties its memory, or a child of this or of
\* another command keeps the output, and with it a slot, for ever.
ApprovedFinishes ==
  ChildrenLetGo =>
    \A r \in Requests :
      mem[r].status = "APPROVED" /\ pc[r] \in Carrying
        ~> mem[r].status \in TerminalStatuses \cup {"none"}

(***************************************************************************)
(* What the documentation says and the code does not keep (see README).    *)
(***************************************************************************)

\* docs/plans/2026-02-10-racg-design.md:52 -- a request that is not running
\* yet is marked KILLED "and it will not be executed"; httpapi.go:710 -- "If not
\* running yet, mark terminal and do not execute".
KilledIsNotRun ==
  [][\A r \in Requests :
       mem[r].status \in {"KILLED", "CANCELED"} => mem'[r].status # "RUNNING"]_vars

\* docs/plans/2026-02-10-racg-design.md:38 -- "Timeouts are enforced per execution
\* ..., producing terminal status TIMED_OUT".
TimeoutEnds ==
  \A r \in Requests :
    ctx[r] = "deadline" ~> mem[r].status \in TerminalStatuses \cup {"none"}

\* docs/agent-quickstart.md:257 -- QUEUED means "waiting for an execution slot".
QueuedWaitsForSlot ==
  \A r \in Requests :
    up = "up" /\ mem[r].status = "QUEUED" =>
      pc[r] \in {"saveQueued", "acquire", "check", "mark"}

\* README.md:3 -- "execution is audited in SQLite": a finished execution is
\* not recorded as killed before it started.
ExecutionAudited ==
  \A r \in Requests :
    pc[r] = "done" /\ started[r] > 0 => db[r].exec # "killed before start"
=============================================================================
