------------------------ MODULE RequestLifecycleProofs ------------------------
(***************************************************************************)
(* Proofs about RequestLifecycle for every number of requests, kill calls, *)
(* execution slots, crashes and lost writes: its types, its safety         *)
(* properties, and that it implements ApprovalGate.                        *)
(***************************************************************************)
EXTENDS RequestRefinement, TLAPS, FiniteSetTheorems

-----------------------------------------------------------------------------
(***************************************************************************)
(* Type correctness.                                                       *)
(***************************************************************************)

\* Well-typed updates of one column keep the database, and memory, well typed.
LEMMA DbUpdate ==
  ASSUME NEW f \in [Requests -> DbRecord], NEW r \in Requests
  PROVE  /\ \A s \in Statuses : [f EXCEPT ![r].status = s] \in [Requests -> DbRecord]
         /\ \A s \in Statuses, d \in Decisions :
              [f EXCEPT ![r].status = s, ![r].decision = d] \in [Requests -> DbRecord]
         /\ \A e \in Records :
              [f EXCEPT ![r].exec = IF @ = "none" THEN e ELSE @] \in [Requests -> DbRecord]
BY DEF DbRecord

\* Well-typed updates keep memory well typed.
LEMMA MemUpdate ==
  ASSUME NEW f \in [Requests -> MemRecord], NEW r \in Requests
  PROVE  /\ \A s \in Statuses : [f EXCEPT ![r].status = s] \in [Requests -> MemRecord]
         /\ \A s \in Statuses, d \in Decisions :
              [f EXCEPT ![r].status = s, ![r].decision = d] \in [Requests -> MemRecord]
         /\ \A s \in Statuses, e \in Records :
              [f EXCEPT ![r].status = s, ![r].result = e] \in [Requests -> MemRecord]
BY DEF MemRecord

\* A status write, or its refusal, keeps the rows and the fault counter typed.
LEMMA UpdateRequestStatusType ==
  ASSUME TypeOK, NEW r \in Requests, NEW s \in Statuses, UpdateRequestStatus(r, s)
  PROVE  db' \in [Requests -> DbRecord] /\ faults' \in 0..MaxFaults
<1> db \in [Requests -> DbRecord] /\ faults \in 0..MaxFaults
  BY DEF TypeOK
<1>1. CASE Refused
  BY <1>1, ConstantsAssumption DEF Refused, ConstantsAssumption
<1>2. CASE db' = [db EXCEPT ![r].status = s] /\ faults' = faults
  BY <1>2 DEF DbRecord
<1>3. QED
  BY <1>1, <1>2 DEF UpdateRequestStatus

\* So does the insertion of an execution record.
LEMMA InsertExecutionType ==
  ASSUME TypeOK, NEW r \in Requests, NEW rec \in Records, InsertExecution(r, rec)
  PROVE  db' \in [Requests -> DbRecord] /\ faults' \in 0..MaxFaults
<1> db \in [Requests -> DbRecord] /\ faults \in 0..MaxFaults
  BY DEF TypeOK
<1>1. CASE Refused
  BY <1>1, ConstantsAssumption DEF Refused, ConstantsAssumption
<1>2. CASE db' = [db EXCEPT ![r].exec = IF @ = "none" THEN rec ELSE @] /\ faults' = faults
  BY <1>2 DEF DbRecord
<1>3. QED
  BY <1>1, <1>2 DEF InsertExecution

\* The initial state is well typed.
LEMMA TypeInit == Init => TypeOK
<1> SUFFICES ASSUME Init PROVE TypeOK
  OBVIOUS
<1>1. mem \in [Requests -> MemRecord] /\ db \in [Requests -> DbRecord]
  BY DEF Init, NoMem, NoRow, MemRecord, DbRecord
<1>2. killer \in [Killers -> KillerRecord]
  BY DEF Init, IdleKiller, KillerRecord
<1>3. QED
  BY <1>1, <1>2, ConstantsAssumption
     DEF Init, TypeOK, IdleKiller, ConstantsAssumption, ProgramCounters, Saving

\* Moving one program counter.
LEMMA GotoType ==
  ASSUME TypeOK, NEW r \in Requests, NEW from, NEW to \in ProgramCounters, Goto(r, from, to)
  PROVE  /\ pc' \in [Requests -> ProgramCounters]
         /\ pc[r] = from
         /\ \A q \in Requests : pc'[q] = IF q = r THEN to ELSE pc[q]
BY DEF Goto, TypeOK

\* Consuming a pending request keeps types, and no goroutine gets near its
\* result by it.
LEMMA SettleType ==
  ASSUME TypeOK, NEW r \in Requests, NEW d \in Decisions, Settle(r, d)
  PROVE  /\ db' \in [Requests -> DbRecord]
         /\ mem' \in [Requests -> MemRecord]
         /\ pc' \in [Requests -> ProgramCounters]
         /\ \A q \in Requests : pc'[q] \in Saving => pc'[q] = pc[q]
<1>1. DecidedStatus(d) \in Statuses
  BY DEF DecidedStatus, Statuses, TerminalStatuses
<1>2. db' \in [Requests -> DbRecord] /\ mem' \in [Requests -> MemRecord]
  BY <1>1, DbUpdate, MemUpdate DEF Settle, CommitPendingDecision, TypeOK
<1>3. /\ pc' \in [Requests -> ProgramCounters]
      /\ \A q \in Requests : pc'[q] \in Saving => pc'[q] = pc[q]
  BY DEF Settle, TypeOK, ProgramCounters, Carrying, BeforeSlot, Saving
<1>4. QED
  BY <1>2, <1>3

\* Types are kept by the submission handler and by decisions,
LEMMA TypeSubmission ==
  ASSUME TypeOK, NEW r \in Requests, Submission(r) \/ Decision(r)
  PROVE  TypeOK'
<1>1. CASE InsertRequest(r)
  <2>1. db' \in [Requests -> DbRecord]
    BY <1>1, DbUpdate DEF InsertRequest, TypeOK, Statuses
  <2>2. QED
    BY <1>1, <2>1 DEF InsertRequest, SubmitUnchanged, TypeOK
<1>2. CASE InsertRequestFails(r)
  BY <1>2 DEF InsertRequestFails, SubmitUnchanged, TypeOK
<1>3. CASE ShowRequest(r)
  <2>1. mem' \in [Requests -> MemRecord]
    BY <1>3, MemUpdate DEF ShowRequest, TypeOK, Statuses
  <2>2. QED
    BY <1>3, <2>1 DEF ShowRequest, SubmitUnchanged, TypeOK
<1>4. CASE ApproveByRule(r)
  <2>1. Settle(r, "ALLOW_RULE") /\ "ALLOW_RULE" \in Decisions
    BY <1>4 DEF ApproveByRule, Decisions, AllowDecisions
  <2>2. QED
    BY <1>4, <2>1, SettleType DEF ApproveByRule, SubmitUnchanged, TypeOK
<1>5. CASE LeaveToHuman(r)
  BY <1>5 DEF LeaveToHuman, SubmitUnchanged, TypeOK
<1>6. CASE Decision(r)
  <2>1. PICK d \in LocalActions : Decide(r, d)
    BY <1>6 DEF Decision
  <2>2. d \in Decisions /\ Settle(r, d)
    BY <2>1, ConstantsAssumption DEF Decide, ConstantsAssumption, Decisions, AllowDecisions
  <2>3. QED
    BY <2>1, <2>2, SettleType DEF Decide, SubmitUnchanged, TypeOK
<1>7. QED
  BY <1>1, <1>2, <1>3, <1>4, <1>5, <1>6 DEF Submission

\* The literals the actions use are program counters.
LEMMA Counters ==
  /\ {"done", "spawned", "queue", "saveQueued", "acquire", "check", "mark",
      "saveRunning", "open", "register", "start", "exec", "held", "unregister",
      "clean", "saveStatus", "saveExec", "publish", "release"} \subseteq ProgramCounters
  /\ Saving = {"unregister", "clean", "saveStatus", "saveExec", "publish"}
  /\ Outcomes \subseteq Records
  /\ Outcomes \subseteq Statuses
BY DEF ProgramCounters, Carrying, BeforeSlot, InSlot, Saving, Records, Statuses, TerminalStatuses

\* A goroutine step that only writes the status column.
LEMMA TypeSaveStatusAs ==
  ASSUME TypeOK, NEW r \in Requests, NEW s \in Statuses, NEW from, NEW to \in ProgramCounters,
         SaveStatusAs(r, s, from, to), to \in Saving => outcome[r] \in Outcomes
  PROVE  TypeOK'
<1>1. Goto(r, from, to) /\ UpdateRequestStatus(r, s)
  BY DEF SaveStatusAs
<1>2. db' \in [Requests -> DbRecord] /\ faults' \in 0..MaxFaults
  BY <1>1, UpdateRequestStatusType
<1>3. QED
  BY <1>1, <1>2, GotoType DEF SaveStatusAs, TypeOK

\* A check that returns early when the request was killed.
LEMMA TypeReturnIfKilled ==
  ASSUME TypeOK, NEW r \in Requests, NEW from,
         NEW return \in ProgramCounters \ Saving, NEW next \in ProgramCounters \ Saving,
         ReturnIfKilled(r, from, return, next)
  PROVE  TypeOK'
BY DEF ReturnIfKilled, Goto, TypeOK

\* by every step of an execution goroutine,
LEMMA TypeExecution ==
  ASSUME TypeOK, NEW r \in Requests, Execution(r)
  PROVE  TypeOK'
<1> USE Counters
<1>1. CASE CleanDenied(r)
  BY <1>1 DEF CleanDenied, SubmitUnchanged, TypeOK
<1>2. CASE FirstCheck(r)
  BY <1>2, TypeReturnIfKilled DEF FirstCheck
<1>3. CASE MarkQueued(r)
  <2>1. CASE mem[r].status = "APPROVED"
    <3>1. mem' = [mem EXCEPT ![r].status = "QUEUED"] /\ Goto(r, "queue", "saveQueued")
      BY <1>3, <2>1 DEF MarkQueued
    <3>2. mem' \in [Requests -> MemRecord]
      BY <3>1, MemUpdate DEF TypeOK, Statuses
    <3>3. QED
      BY <1>3, <3>1, <3>2 DEF MarkQueued, Goto, TypeOK
  <2>2. CASE mem[r].status # "APPROVED"
    <3>1. mem' = mem /\ Goto(r, "queue", "acquire")
      BY <1>3, <2>2 DEF MarkQueued, TypeOK, MemRecord
    <3>2. QED
      BY <1>3, <3>1 DEF MarkQueued, Goto, TypeOK
  <2>3. QED
    BY <2>1, <2>2
<1>4. CASE SaveQueued(r)
  <2>1. "QUEUED" \in Statuses
    BY DEF Statuses
  <2>2. QED
    BY <1>4, <2>1, TypeSaveStatusAs DEF SaveQueued
<1>5. CASE SecondCheck(r)
  BY <1>5, TypeReturnIfKilled DEF SecondCheck
<1>6. CASE MarkRunning(r)
  <2>1. mem' \in [Requests -> MemRecord]
    BY <1>6, MemUpdate DEF MarkRunning, TypeOK, Statuses
  <2>2. QED
    BY <1>6, <2>1 DEF MarkRunning, Goto, TypeOK
<1>7. CASE SaveRunning(r)
  <2>1. "RUNNING" \in Statuses
    BY DEF Statuses
  <2>2. QED
    BY <1>7, <2>1, TypeSaveStatusAs DEF SaveRunning
<1>8. CASE OpenStagedInput(r)
  <2>1. CASE Goto(r, "open", "clean") /\ outcome' = [outcome EXCEPT ![r] = "FAILED"]
    BY <1>8, <2>1 DEF OpenStagedInput, Goto, WorkUnchanged, TypeOK, Outcomes
  <2>2. CASE Goto(r, "open", "register") /\ UNCHANGED outcome
    BY <1>8, <2>2 DEF OpenStagedInput, Goto, WorkUnchanged, TypeOK
  <2>3. QED
    BY <1>8, <2>1, <2>2 DEF OpenStagedInput
<1>9. CASE RegisterCancel(r)
  BY <1>9 DEF RegisterCancel, Goto, WorkUnchanged, TypeOK
<1>10. CASE StartProcess(r)
  BY <1>10 DEF StartProcess, Goto, WorkUnchanged, TypeOK
<1>11. CASE StartFails(r)
  BY <1>11 DEF StartFails, Goto, WorkUnchanged, TypeOK, Outcomes
<1>12. CASE UnregisterCancel(r)
  BY <1>12 DEF UnregisterCancel, Goto, WorkUnchanged, TypeOK
<1>13. CASE BeginFileOp(r)
  BY <1>13 DEF BeginFileOp, Goto, WorkUnchanged, TypeOK
<1>14. CASE RejectOp(r)
  BY <1>14 DEF RejectOp, Goto, WorkUnchanged, TypeOK, Outcomes
<1>15. CASE FinishFileOp(r)
  BY <1>15 DEF FinishFileOp, Goto, WorkUnchanged, TypeOK, Outcomes
<1>16. CASE CleanInput(r)
  BY <1>16 DEF CleanInput, Goto, TypeOK
<1>17. CASE SaveOutcome(r)
  <2>1. outcome[r] \in Outcomes
    BY <1>17 DEF SaveOutcome, SaveStatusAs, Goto, TypeOK
  <2>2. QED
    BY <1>17, <2>1, TypeSaveStatusAs DEF SaveOutcome
<1>18. CASE SaveExecution(r)
  <2>1. outcome[r] \in Outcomes
    BY <1>18 DEF SaveExecution, Goto, TypeOK
  <2>2. db' \in [Requests -> DbRecord] /\ faults' \in 0..MaxFaults
    BY <1>18, <2>1, InsertExecutionType DEF SaveExecution
  <2>3. QED
    BY <1>18, <2>1, <2>2 DEF SaveExecution, Goto, TypeOK
<1>19. CASE PublishResult(r)
  <2>1. outcome[r] \in Outcomes
    BY <1>19 DEF PublishResult, Goto, TypeOK
  <2>2. mem' \in [Requests -> MemRecord]
    BY <1>19, <2>1, MemUpdate DEF PublishResult, TypeOK
  <2>3. QED
    BY <1>19, <2>2 DEF PublishResult, Goto, TypeOK
<1>20. CASE AcquireSlot(r)
  BY <1>20 DEF AcquireSlot, Goto, TypeOK
<1>21. CASE Deadline(r)
  BY <1>21 DEF Deadline, WorkUnchanged, TypeOK
<1>22. CASE FinishProcess(r) \/ ChildLetsGo(r)
  BY <1>22 DEF FinishProcess, ChildLetsGo, RunReturns, RunOutcomes, Goto, WorkUnchanged, TypeOK,
     Outcomes
<1>23. CASE ReleaseSlot(r)
  BY <1>23 DEF ReleaseSlot, Goto, TypeOK
<1>24. CASE LeaveChild(r)
  BY <1>24 DEF LeaveChild, Goto, WorkUnchanged, TypeOK
<1>25. QED
  BY <1>1, <1>2, <1>3, <1>4, <1>5, <1>6, <1>7, <1>8, <1>9, <1>10, <1>11, <1>12, <1>13,
     <1>14, <1>15, <1>16, <1>17, <1>18, <1>19, <1>20, <1>21, <1>22, <1>23, <1>24
     DEF Execution, Advance

\* The target of a kill call that is under way, and the status it writes.
LEMMA KillTarget ==
  ASSUME TypeOK, NEW k \in Killers
  PROVE  /\ killer[k].pc # "idle" => killer[k].req \in Requests
         /\ KillStatus(k) \in {"CANCELED", "KILLED"}
         /\ KillStatus(k) \in Statuses
         /\ "killed before start" \in Records
BY DEF TypeOK, KillStatus, Statuses, TerminalStatuses, Outcomes, Records

\* A kill call that is not under way.
LEMMA IdleKillerType == IdleKiller \in KillerRecord /\ IdleKiller.pc = "idle"
BY DEF IdleKiller, KillerRecord

\* Moving a kill call on keeps it well typed.
LEMMA KillerUpdate ==
  ASSUME NEW f \in [Killers -> KillerRecord], NEW k \in Killers
  PROVE  \A p \in {"clean", "saveStatus", "saveExec"} :
           /\ [f EXCEPT ![k].pc = p] \in [Killers -> KillerRecord]
           /\ \A q \in Killers : [f EXCEPT ![k].pc = p][q].req = f[q].req
           /\ \A q \in Killers : [f EXCEPT ![k].pc = p][q].pc = IF q = k THEN p ELSE f[q].pc
BY DEF KillerRecord

\* A step of a kill call that is under way and stays under way.
LEMMA KillerMoves ==
  ASSUME TypeOK, NEW k \in Killers, killer[k].pc # "idle",
         NEW p \in {"clean", "saveStatus", "saveExec"},
         killer' = [killer EXCEPT ![k].pc = p]
  PROVE  /\ killer' \in [Killers -> KillerRecord]
         /\ \A q \in Killers : killer'[q].pc # "idle" => killer'[q].req \in Requests
<1>1. killer \in [Killers -> KillerRecord]
  BY DEF TypeOK
<1>2. \A q \in Killers : killer[q].pc # "idle" => killer[q].req \in Requests
  BY DEF TypeOK
<1>3. killer' \in [Killers -> KillerRecord]
  BY <1>1, KillerUpdate
<1>4. \A q \in Killers : killer'[q].req = killer[q].req
  BY <1>1, KillerUpdate
<1>5. \A q \in Killers : killer'[q].pc = IF q = k THEN p ELSE killer[q].pc
  BY <1>1, KillerUpdate
<1>6. \A q \in Killers : killer'[q].pc # "idle" => killer[q].pc # "idle"
  BY <1>5
<1>7. QED
  BY <1>2, <1>3, <1>4, <1>6

\* by every step of a kill call,
LEMMA TypeKill ==
  ASSUME TypeOK, NEW k \in Killers, Kill(k)
  PROVE  TypeOK'
<1> USE KillTarget, IdleKillerType
<1>1. ASSUME NEW r \in Requests, KillRead(k, r)
      PROVE  TypeOK'
  <2>1. mem[r].status \in Statuses
    BY <1>1 DEF KillRead, TypeOK, MemRecord
  <2>2. killer' \in [Killers -> KillerRecord]
    BY <1>1, <2>1 DEF KillRead, TypeOK, KillerRecord
  <2>3. \A q \in Killers : killer'[q].pc # "idle" => killer'[q].req \in Requests
    BY <1>1 DEF KillRead, TypeOK
  <2>4. QED
    BY <1>1, <2>2, <2>3 DEF KillRead, KillUnchanged, TypeOK
<1>2. CASE KillMark(k)
  <2> DEFINE r == killer[k].req
  <2>1. r \in Requests /\ killer[k].pc # "idle"
    BY <1>2 DEF KillMark
  <2>2. /\ killer' \in [Killers -> KillerRecord]
        /\ \A q \in Killers : killer'[q].pc # "idle" => killer'[q].req \in Requests
    BY <1>2, <2>1, KillerMoves DEF KillMark
  <2>3. mem \in [Requests -> MemRecord]
    BY DEF TypeOK
  <2>4. mem' \in [Requests -> MemRecord]
    <3>1. CASE KillStatus(k) = "KILLED"
      <4>1. mem' = [mem EXCEPT ![r].status = KillStatus(k), ![r].result = "killed before start"]
        BY <1>2, <3>1 DEF KillMark
      <4>2. QED
        BY <4>1, <2>1, <2>3, MemUpdate
    <3>2. CASE KillStatus(k) # "KILLED"
      <4>1. mem' = [mem EXCEPT ![r].status = KillStatus(k)]
        BY <1>2, <2>1, <2>3, <3>2 DEF KillMark, MemRecord
      <4>2. QED
        BY <4>1, <2>1, <2>3, MemUpdate
    <3>3. QED
      BY <3>1, <3>2
  <2>5. QED
    BY <1>2, <2>2, <2>4 DEF KillMark, KillUnchanged, TypeOK
<1>3. CASE KillClean(k)
  <2>1. /\ killer' \in [Killers -> KillerRecord]
        /\ \A q \in Killers : killer'[q].pc # "idle" => killer'[q].req \in Requests
    BY <1>3, KillerMoves DEF KillClean
  <2>2. QED
    BY <1>3, <2>1 DEF KillClean, KillUnchanged, TypeOK
<1>4. CASE KillSaveStatus(k)
  <2>1. db' \in [Requests -> DbRecord] /\ faults' \in 0..MaxFaults
    BY <1>4, UpdateRequestStatusType DEF KillSaveStatus
  <2>2. CASE KillStatus(k) = "KILLED"
    <3>1. killer' = [killer EXCEPT ![k].pc = "saveExec"] /\ killer[k].pc # "idle"
      BY <1>4, <2>2 DEF KillSaveStatus
    <3>2. /\ killer' \in [Killers -> KillerRecord]
          /\ \A q \in Killers : killer'[q].pc # "idle" => killer'[q].req \in Requests
      BY <3>1, KillerMoves
    <3>3. QED
      BY <1>4, <2>1, <3>2 DEF KillSaveStatus, KillUnchanged, TypeOK
  <2>3. CASE KillStatus(k) # "KILLED"
    <3>1. killer' = [killer EXCEPT ![k] = IdleKiller]
      BY <1>4, <2>3 DEF KillSaveStatus
    <3>2. QED
      BY <1>4, <2>1, <3>1 DEF KillSaveStatus, KillUnchanged, TypeOK
  <2>4. QED
    BY <2>2, <2>3
<1>5. CASE KillSaveExecution(k)
  <2>1. db' \in [Requests -> DbRecord] /\ faults' \in 0..MaxFaults
    BY <1>5, InsertExecutionType DEF KillSaveExecution
  <2>2. QED
    BY <1>5, <2>1 DEF KillSaveExecution, KillUnchanged, TypeOK
<1>6. CASE KillCancel(k)
  BY <1>6 DEF KillCancel, KillUnchanged, TypeOK
<1>7. QED
  BY <1>1, <1>2, <1>3, <1>4, <1>5, <1>6 DEF Kill

\* What a restart reads of a row is a record, counted as a fault where a part of
\* it could not be read,
LEMMA ReadBackEffect ==
  ASSUME TypeOK, NEW r \in Requests, Loadable(r), ReadBack(r)
  PROVE  /\ mem' \in [Requests -> MemRecord]
         /\ faults' \in 0..MaxFaults
         /\ faults > 0 => faults' > 0
         /\ \A q \in Requests \ {r} : mem'[q] = mem[q]
         /\ mem'[r].status = IF load[r] = "recorded" THEN "FAILED" ELSE db[r].status
         /\ db[r].status # "none" => mem'[r].status \notin {"none", "RUNNING"}
         /\ \/ mem'[r].decision = db[r].decision
            \/ mem'[r].decision = "none" /\ faults' > 0
         /\ faults' = 0 => faults = 0 /\ mem'[r].result = db[r].exec
<1>1. PICK read \in SUBSET {"decision", "result"} :
        /\ mem' = [mem EXCEPT ![r] = Rehydrated(r, read)]
        /\ read # {"decision", "result"} => faults < MaxFaults
        /\ faults' = IF read = {"decision", "result"} THEN faults ELSE faults + 1
  BY DEF ReadBack
<1>2. /\ mem \in [Requests -> MemRecord] /\ db[r] \in DbRecord
      /\ faults \in 0..MaxFaults /\ MaxFaults \in Nat
  BY ConstantsAssumption DEF TypeOK, ConstantsAssumption
<1>3. Rehydrated(r, read) \in MemRecord
  <2>1. "FAILED" \in Statuses
    BY DEF Statuses, TerminalStatuses, Outcomes
  <2>2. QED
    BY <1>2, <2>1 DEF Rehydrated, MemRecord, DbRecord
<1>4. mem'[r] = Rehydrated(r, read) /\ \A q \in Requests \ {r} : mem'[q] = mem[q]
  BY <1>1, <1>2
<1>5. /\ mem'[r].status = IF load[r] = "recorded" THEN "FAILED" ELSE db[r].status
      /\ mem'[r].decision = IF "decision" \in read THEN db[r].decision ELSE "none"
      /\ mem'[r].result = IF "result" \in read THEN db[r].exec ELSE "none"
  BY <1>4 DEF Rehydrated
<1>6. db[r].status # "none" => mem'[r].status \notin {"none", "RUNNING"}
  BY <1>5 DEF Loadable
<1>7. CASE read = {"decision", "result"}
  BY <1>1, <1>2, <1>3, <1>4, <1>5, <1>6, <1>7
<1>8. CASE read # {"decision", "result"}
  <2>1. faults' = faults + 1 /\ faults < MaxFaults
    BY <1>1, <1>8
  <2>2. faults' \in 0..MaxFaults /\ faults' > 0
    BY <1>2, <2>1
  <2>3. QED
    BY <1>1, <1>2, <1>3, <1>4, <1>5, <1>6, <2>2
<1>9. QED
  BY <1>7, <1>8

\* so types are kept by the loading of rows after a restart,
LEMMA TypeRehydration ==
  ASSUME TypeOK, NEW r \in Requests, Rehydration(r)
  PROVE  TypeOK'
<1>1. CASE FailInterrupted(r)
  <2>1. "FAILED" \in Statuses
    BY DEF Statuses, TerminalStatuses, Outcomes
  <2>2. db' \in [Requests -> DbRecord] /\ faults' \in 0..MaxFaults
    BY <1>1, <2>1, UpdateRequestStatusType DEF FailInterrupted
  <2>3. QED
    BY <1>1, <2>2 DEF FailInterrupted, LoadUnchanged, TypeOK
<1>2. CASE RecordInterrupted(r)
  <2>1. "server restarted" \in Records /\ "FAILED" \in Statuses
    BY DEF Records, Statuses, TerminalStatuses, Outcomes
  <2>2. db' \in [Requests -> DbRecord] /\ faults' \in 0..MaxFaults
    BY <1>2, <2>1, InsertExecutionType DEF RecordInterrupted
  <2>3. QED
    BY <1>2, <2>2 DEF RecordInterrupted, LoadUnchanged, TypeOK
<1>3. CASE LoadRow(r)
  <2>1. mem' \in [Requests -> MemRecord] /\ faults' \in 0..MaxFaults
    BY <1>3, ReadBackEffect DEF LoadRow
  <2>2. QED
    BY <1>3, <2>1 DEF LoadRow, LoadUnchanged, TypeOK
<1>4. QED
  BY <1>1, <1>2, <1>3 DEF Rehydration

\* by crash, restart and the start of service,
LEMMA TypeProcess ==
  ASSUME TypeOK, Crash \/ Restart \/ Serve
  PROVE  TypeOK'
<1>1. CASE Crash
  <2>1. NoMem \in MemRecord
    BY DEF NoMem, MemRecord
  <2>2. /\ mem' \in [Requests -> MemRecord]
        /\ killer' \in [Killers -> KillerRecord]
        /\ \A k \in Killers : killer'[k].pc = "idle"
    BY <1>1, <2>1, IdleKillerType DEF Crash
  <2>3. /\ pc' \in [Requests -> ProgramCounters]
        /\ \A r \in Requests : pc'[r] \notin Saving
    BY <1>1 DEF Crash, ProgramCounters, Saving
  <2>4. crashes' \in 0..MaxCrashes
    BY <1>1, ConstantsAssumption DEF Crash, TypeOK, ConstantsAssumption
  <2>5. QED
    BY <1>1, <2>2, <2>3, <2>4 DEF Crash, TypeOK
<1>2. CASE Restart
  BY <1>2 DEF Restart, TypeOK
<1>3. CASE Serve
  BY <1>3 DEF Serve, TypeOK
<1>4. QED
  BY <1>1, <1>2, <1>3

\* and so by every step.
LEMMA TypeNext == TypeOK /\ [Next]_vars => TypeOK'
<1> SUFFICES ASSUME TypeOK, [Next]_vars PROVE TypeOK'
  OBVIOUS
<1>1. ASSUME NEW r \in Requests, Submission(r) \/ Decision(r) \/ Execution(r) \/ Rehydration(r)
      PROVE  TypeOK'
  BY <1>1, TypeSubmission, TypeExecution, TypeRehydration
<1>2. ASSUME NEW k \in Killers, Kill(k)
      PROVE  TypeOK'
  BY <1>2, TypeKill
<1>3. CASE Crash \/ Restart \/ Serve
  BY <1>3, TypeProcess
<1>4. CASE UNCHANGED vars
  BY <1>4 DEF vars, TypeOK
<1>5. QED
  BY <1>1, <1>2, <1>3, <1>4 DEF Next

\* Type correctness of every reachable state.
THEOREM TypeCorrect == Spec => []TypeOK
BY TypeInit, TypeNext, PTL DEF Spec

-----------------------------------------------------------------------------
(***************************************************************************)
(* Safety.  The inductive invariant speaks of one request at a time: it    *)
(* ties the handler of its submission, its record in memory, its rows, its *)
(* goroutine and its rehydration to one another.                           *)
(***************************************************************************)
BeforeStart == BeforeSlot \cup {"check", "mark", "saveRunning", "open", "register", "start"}

\* The goroutine: it exists only under an allowing decision that is stored, it
\* begins the operation once, and memory shows how far it is.
GoroutineInv(r) ==
  /\ started[r] \in {0, 1}
  /\ started[r] = 1 \/ pc[r] \in Carrying => db[r].decision \in AllowDecisions
  /\ pc[r] \in BeforeStart => started[r] = 0
  /\ mem[r].status \in {"none", "PENDING_APPROVAL"} => pc[r] = "idle"
  /\ mem[r].status = "RUNNING" => pc[r] \in Marked
  /\ pc[r] \in {"denied", "release", "done"} => mem[r].status \in TerminalStatuses

\* The record: it is shown only after its row exists, carries the decision of
\* the row unless that could not be read, and is loaded by a restart only if the
\* submission had ended.
RecordInv(r) ==
  /\ mem[r].status # "none" =>
       \/ mem[r].decision = db[r].decision
       \/ mem[r].decision = "none" /\ faults > 0
  /\ mem[r].status = "none" => mem[r].decision = "none"
  /\ submit[r] \in {"new", "rejected"} <=> db[r].status = "none"
  /\ submit[r] \in {"new", "rejected", "inserted"} =>
       db[r].decision = "none" /\ mem[r].status = "none"
  /\ load[r] # "none" =>
       up = "loading" /\ submit[r] = "answered" /\ mem[r].status = "none"
  /\ up # "up" => submit[r] \notin {"inserted", "visible"}
  /\ up = "down" => mem[r].status = "none"

\* A kill call under way has a record in memory to work on.
KillerInv == \A k \in Killers : killer[k].pc # "idle" => mem[killer[k].req].status # "none"

LifecycleInv ==
  /\ \A r \in Requests : GoroutineInv(r) /\ RecordInv(r)
  /\ KillerInv

-----------------------------------------------------------------------------
\* What the invariant reads of one request.
View(r) == <<submit[r], mem[r], db[r], load[r], pc[r], started[r]>>

\* What was refused stays counted.
Growing == faults > 0 => faults' > 0

\* A request whose view does not change keeps its part of the invariant.
LEMMA Frame ==
  ASSUME NEW r \in Requests, GoroutineInv(r), RecordInv(r), UNCHANGED <<up, View(r)>>, Growing
  PROVE  GoroutineInv(r)' /\ RecordInv(r)'
BY DEF View, Growing, GoroutineInv, RecordInv

\* The invariant is kept when one request keeps its part, the others keep their
\* view, and the kill calls keep theirs.
LEMMA OneRequest ==
  ASSUME LifecycleInv, up' = up, Growing,
         NEW r \in Requests, GoroutineInv(r)', RecordInv(r)',
         \A q \in Requests \ {r} : UNCHANGED View(q),
         KillerInv'
  PROVE  LifecycleInv'
<1>1. \A q \in Requests \ {r} : GoroutineInv(q)' /\ RecordInv(q)'
  BY Frame DEF LifecycleInv
<1>2. QED
  BY <1>1 DEF LifecycleInv

\* Kill calls that stand still are not disturbed by a record that stays.
LEMMA KillersStay ==
  ASSUME TypeOK, KillerInv, killer' = killer,
         \A r \in Requests : mem[r].status # "none" => mem'[r].status # "none"
  PROVE  KillerInv'
BY DEF KillerInv, TypeOK

\* What an assignment to some columns changes, and what it leaves.
LEMMA MemStatus ==
  ASSUME TypeOK, NEW r \in Requests, NEW s, mem' = [mem EXCEPT ![r].status = s]
  PROVE  /\ mem'[r].status = s /\ mem'[r].decision = mem[r].decision
         /\ \A q \in Requests \ {r} : mem'[q] = mem[q]
BY DEF TypeOK, MemRecord

\* The same for the status and the result of a request.
LEMMA MemResult ==
  ASSUME TypeOK, NEW r \in Requests, NEW s, NEW e,
         mem' = [mem EXCEPT ![r].status = s, ![r].result = e]
  PROVE  /\ mem'[r].status = s /\ mem'[r].decision = mem[r].decision
         /\ \A q \in Requests \ {r} : mem'[q] = mem[q]
BY DEF TypeOK, MemRecord

\* The same for a status in the database.
LEMMA DbStatus ==
  ASSUME TypeOK, NEW r \in Requests, NEW s, db' = [db EXCEPT ![r].status = s]
  PROVE  /\ db'[r].status = s /\ db'[r].decision = db[r].decision
         /\ \A q \in Requests \ {r} : db'[q] = db[q]
BY DEF TypeOK, DbRecord

\* A status write keeps every decision, and the rows of other requests.
LEMMA StatusWrite ==
  ASSUME TypeOK, NEW r \in Requests, NEW s \in Statuses, UpdateRequestStatus(r, s),
         db[r].status # "none"
  PROVE  /\ \A q \in Requests \ {r} : db'[q] = db[q]
         /\ \A q \in Requests : db'[q].decision = db[q].decision
         /\ \A q \in Requests : db'[q].status = "none" <=> db[q].status = "none"
         /\ db'[r].status \in {s, db[r].status}
<1>1. s # "none"
  BY DEF Statuses, TerminalStatuses, Outcomes
<1>2. CASE Refused
  BY <1>2 DEF Refused
<1>3. CASE db' = [db EXCEPT ![r].status = s]
  BY <1>1, <1>3, DbStatus
<1>4. QED
  BY <1>2, <1>3 DEF UpdateRequestStatus

\* An execution record changes neither a status nor a decision.
LEMMA ExecutionWrite ==
  ASSUME TypeOK, NEW r \in Requests, NEW e, InsertExecution(r, e)
  PROVE  /\ \A q \in Requests \ {r} : db'[q] = db[q]
         /\ \A q \in Requests : db'[q].decision = db[q].decision
         /\ \A q \in Requests : db'[q].status = db[q].status
<1>1. CASE Refused
  BY <1>1 DEF Refused
<1>2. CASE db' = [db EXCEPT ![r].exec = IF @ = "none" THEN e ELSE @]
  BY <1>2 DEF TypeOK, DbRecord
<1>3. QED
  BY <1>1, <1>2 DEF InsertExecution

\* Both writes may be refused, and a refusal is counted.
LEMMA WritesGrow ==
  ASSUME TypeOK, NEW r \in Requests, NEW e,
         UpdateRequestStatus(r, e) \/ InsertExecution(r, e)
  PROVE  Growing
<1>1. faults \in Nat
  BY ConstantsAssumption DEF TypeOK, ConstantsAssumption
<1>2. QED
  BY <1>1 DEF UpdateRequestStatus, InsertExecution, Refused, Growing

\* Whatever a request does, what was refused stays counted.
LEMMA RequestGrows ==
  ASSUME TypeOK, NEW r \in Requests,
         Submission(r) \/ Decision(r) \/ Execution(r) \/ Rehydration(r)
  PROVE  Growing
<1>1. CASE faults' = faults
  BY <1>1 DEF Growing
<1>2. CASE Submission(r) \/ Decision(r)
  BY <1>1, <1>2 DEF Submission, Decision, InsertRequest, InsertRequestFails, ShowRequest,
     ApproveByRule, LeaveToHuman, Decide, SubmitUnchanged
<1>3. CASE SaveQueued(r) \/ SaveRunning(r) \/ SaveOutcome(r) \/ SaveExecution(r)
  BY <1>3, WritesGrow DEF SaveQueued, SaveRunning, SaveOutcome, SaveStatusAs, SaveExecution
<1>4. CASE \/ CleanDenied(r) \/ FirstCheck(r) \/ MarkQueued(r) \/ SecondCheck(r)
           \/ MarkRunning(r) \/ CleanInput(r) \/ PublishResult(r) \/ ReleaseSlot(r)
           \/ AcquireSlot(r)
  BY <1>1, <1>4
     DEF CleanDenied, SubmitUnchanged, FirstCheck, MarkQueued, SecondCheck, ReturnIfKilled,
         MarkRunning, CleanInput, PublishResult, ReleaseSlot, AcquireSlot
<1>5. CASE \/ OpenStagedInput(r) \/ RegisterCancel(r) \/ StartProcess(r) \/ StartFails(r)
           \/ UnregisterCancel(r) \/ BeginFileOp(r) \/ RejectOp(r) \/ FinishFileOp(r)
           \/ Deadline(r) \/ FinishProcess(r) \/ LeaveChild(r) \/ ChildLetsGo(r)
  BY <1>1, <1>5
     DEF OpenStagedInput, RegisterCancel, StartProcess, StartFails, UnregisterCancel,
         BeginFileOp, RejectOp, FinishFileOp, Deadline, FinishProcess, LeaveChild, ChildLetsGo,
         RunReturns, WorkUnchanged
<1>6. CASE Rehydration(r)
  <2>1. CASE FailInterrupted(r) \/ RecordInterrupted(r)
    BY <2>1, WritesGrow DEF FailInterrupted, RecordInterrupted
  <2>2. CASE LoadRow(r)
    BY <2>2, ReadBackEffect DEF LoadRow, Growing
  <2>3. QED
    BY <1>6, <2>1, <2>2 DEF Rehydration
<1>7. QED
  BY <1>2, <1>3, <1>4, <1>5, <1>6 DEF Execution, Advance

\* So it does whatever a kill call does.
LEMMA KillGrows ==
  ASSUME TypeOK, NEW k \in Killers, Kill(k)
  PROVE  Growing
<1>1. CASE KillSaveStatus(k) \/ KillSaveExecution(k)
  <2>1. killer[k].req \in Requests
    BY <1>1, KillTarget DEF KillSaveStatus, KillSaveExecution
  <2>2. QED
    BY <1>1, <2>1, WritesGrow DEF KillSaveStatus, KillSaveExecution
<1>2. CASE (\E r \in Requests : KillRead(k, r)) \/ KillMark(k) \/ KillClean(k) \/ KillCancel(k)
  BY <1>2 DEF KillRead, KillMark, KillClean, KillCancel, Growing
<1>3. QED
  BY <1>1, <1>2 DEF Kill

\* Moving the counter of one goroutine.
LEMMA GotoMoves ==
  ASSUME TypeOK, NEW r \in Requests, NEW from, NEW to, Goto(r, from, to)
  PROVE  /\ pc[r] = from
         /\ pc'[r] = to
         /\ \A q \in Requests \ {r} : pc'[q] = pc[q]
BY DEF Goto, TypeOK

-----------------------------------------------------------------------------
\* The invariant holds initially.
LEMMA InvInit == Init => LifecycleInv
BY DEF Init, LifecycleInv, GoroutineInv, RecordInv, KillerInv, NoMem, NoRow, IdleKiller,
       Carrying, BeforeSlot, InSlot, BeforeStart

\* Consuming a pending request keeps the invariant: it had no goroutine yet.
LEMMA InvSettle ==
  ASSUME TypeOK, LifecycleInv, NEW r \in Requests, NEW d \in Decisions, Settle(r, d), up = "up",
         up' = up, load' = load, killer' = killer, started' = started, Growing,
         submit' = submit \/ submit' = [submit EXCEPT ![r] = "answered"]
  PROVE  LifecycleInv'
<1>1. /\ mem[r].status = "PENDING_APPROVAL" /\ db[r].status = "PENDING_APPROVAL"
      /\ db[r].decision = "none"
      /\ db' = [db EXCEPT ![r].status = DecidedStatus(d), ![r].decision = d]
      /\ mem' = [mem EXCEPT ![r].status = DecidedStatus(d), ![r].decision = d]
      /\ pc' = [pc EXCEPT ![r] = IF d = "DENY" THEN "denied" ELSE "spawned"]
  BY DEF Settle, CommitPendingDecision
<1>2. /\ db'[r].status = DecidedStatus(d) /\ db'[r].decision = d
      /\ mem'[r].status = DecidedStatus(d) /\ mem'[r].decision = d
      /\ \A q \in Requests \ {r} : mem'[q] = mem[q]
      /\ \A q \in Requests \ {r} : db'[q] = db[q]
  <2>1. db \in [Requests -> DbRecord] /\ mem \in [Requests -> MemRecord]
    BY DEF TypeOK
  <2>2. /\ db'[r].status = DecidedStatus(d) /\ db'[r].decision = d
        /\ \A q \in Requests \ {r} : db'[q] = db[q]
    BY <1>1, <2>1 DEF DbRecord
  <2>3. /\ mem'[r].status = DecidedStatus(d) /\ mem'[r].decision = d
        /\ \A q \in Requests \ {r} : mem'[q] = mem[q]
    BY <1>1, <2>1 DEF MemRecord
  <2>4. QED
    BY <2>2, <2>3
<1>3. /\ pc'[r] = IF d = "DENY" THEN "denied" ELSE "spawned"
      /\ \A q \in Requests \ {r} : pc'[q] = pc[q]
  BY <1>1 DEF TypeOK
<1>11. /\ \A q \in Requests \ {r} : submit'[q] = submit[q]
       /\ submit'[r] \in {submit[r], "answered"}
  BY DEF TypeOK
<1>4. GoroutineInv(r) /\ RecordInv(r) /\ KillerInv
  BY DEF LifecycleInv
<1>5. started[r] = 0
  BY <1>1, <1>4 DEF GoroutineInv, AllowDecisions, AllowActions
<1>6. GoroutineInv(r)'
  <2>1. CASE d = "DENY"
    BY <1>2, <1>3, <1>5, <2>1 DEF GoroutineInv, DecidedStatus, Carrying, BeforeSlot, InSlot,
       BeforeStart, TerminalStatuses
  <2>2. CASE d # "DENY"
    BY <1>2, <1>3, <1>5, <2>2 DEF GoroutineInv, DecidedStatus, Carrying, BeforeSlot, Decisions
  <2>3. QED
    BY <2>1, <2>2
<1>7. RecordInv(r)'
  BY <1>1, <1>2, <1>11, <1>4 DEF RecordInv, DecidedStatus
<1>8. KillerInv'
  <2>1. DecidedStatus(d) # "none"
    BY DEF DecidedStatus
  <2>2. \A q \in Requests : mem[q].status # "none" => mem'[q].status # "none"
    BY <2>1, <1>2
  <2>3. QED
    BY <2>2, <1>4, KillersStay
<1>9. \A q \in Requests \ {r} : UNCHANGED View(q)
  BY <1>2, <1>3, <1>11 DEF View
<1>10. QED
  BY <1>6, <1>7, <1>8, <1>9, OneRequest

\* The submission handler and decisions keep the invariant,
LEMMA InvSubmission ==
  ASSUME TypeOK, LifecycleInv, NEW r \in Requests, Submission(r) \/ Decision(r)
  PROVE  LifecycleInv'
<1> USE DEF SubmitUnchanged
<1> Growing
  BY RequestGrows
<1>0. GoroutineInv(r) /\ RecordInv(r) /\ KillerInv
  BY DEF LifecycleInv
<1>1. CASE InsertRequest(r)
  <2>1. /\ db'[r].status = "PENDING_APPROVAL" /\ db'[r].decision = db[r].decision
        /\ \A q \in Requests \ {r} : db'[q] = db[q]
    BY <1>1, DbStatus DEF InsertRequest
  <2>2. /\ submit[r] = "new" /\ submit'[r] = "inserted"
        /\ \A q \in Requests \ {r} : submit'[q] = submit[q]
    BY <1>1 DEF InsertRequest, TypeOK
  <2>3. GoroutineInv(r)' /\ RecordInv(r)'
    BY <1>0, <1>1, <2>1, <2>2 DEF InsertRequest, GoroutineInv, RecordInv
  <2>4. KillerInv'
    BY <1>0, <1>1, KillersStay DEF InsertRequest
  <2>5. \A q \in Requests \ {r} : UNCHANGED View(q)
    BY <1>1, <2>1, <2>2 DEF InsertRequest, View
  <2>6. QED
    BY <1>1, <2>3, <2>4, <2>5, OneRequest DEF InsertRequest
<1>2. CASE InsertRequestFails(r)
  <2>1. /\ submit[r] = "new" /\ submit'[r] = "rejected"
        /\ \A q \in Requests \ {r} : submit'[q] = submit[q]
    BY <1>2 DEF InsertRequestFails, TypeOK
  <2>2. GoroutineInv(r)' /\ RecordInv(r)'
    BY <1>0, <1>2, <2>1 DEF InsertRequestFails, GoroutineInv, RecordInv
  <2>3. KillerInv'
    BY <1>0, <1>2, KillersStay DEF InsertRequestFails
  <2>4. \A q \in Requests \ {r} : UNCHANGED View(q)
    BY <1>2, <2>1 DEF InsertRequestFails, View
  <2>5. QED
    BY <1>2, <2>2, <2>3, <2>4, OneRequest DEF InsertRequestFails
<1>3. CASE ShowRequest(r)
  <2>1. /\ mem'[r].status = "PENDING_APPROVAL" /\ mem'[r].decision = mem[r].decision
        /\ \A q \in Requests \ {r} : mem'[q] = mem[q]
    BY <1>3, MemStatus DEF ShowRequest
  <2>2. /\ submit[r] = "inserted" /\ submit'[r] = "visible"
        /\ \A q \in Requests \ {r} : submit'[q] = submit[q]
    BY <1>3 DEF ShowRequest, TypeOK
  <2>3. GoroutineInv(r)' /\ RecordInv(r)'
    BY <1>0, <1>3, <2>1, <2>2 DEF ShowRequest, GoroutineInv, RecordInv
  <2>4. KillerInv'
    BY <1>0, <1>3, <2>1, KillersStay DEF ShowRequest
  <2>5. \A q \in Requests \ {r} : UNCHANGED View(q)
    BY <1>3, <2>1, <2>2 DEF ShowRequest, View
  <2>6. QED
    BY <1>3, <2>3, <2>4, <2>5, OneRequest DEF ShowRequest
<1>4. CASE ApproveByRule(r)
  <2>1. "ALLOW_RULE" \in Decisions
    BY DEF Decisions, AllowDecisions
  <2>2. QED
    BY <1>4, <2>1, InvSettle DEF ApproveByRule
<1>5. CASE LeaveToHuman(r)
  <2>1. /\ submit[r] = "visible" /\ submit'[r] = "answered"
        /\ \A q \in Requests \ {r} : submit'[q] = submit[q]
    BY <1>5 DEF LeaveToHuman, TypeOK
  <2>2. GoroutineInv(r)' /\ RecordInv(r)'
    BY <1>0, <1>5, <2>1 DEF LeaveToHuman, GoroutineInv, RecordInv
  <2>3. KillerInv'
    BY <1>0, <1>5, KillersStay DEF LeaveToHuman
  <2>4. \A q \in Requests \ {r} : UNCHANGED View(q)
    BY <1>5, <2>1 DEF LeaveToHuman, View
  <2>5. QED
    BY <1>5, <2>2, <2>3, <2>4, OneRequest DEF LeaveToHuman
<1>6. CASE Decision(r)
  <2>1. PICK d \in LocalActions : Decide(r, d)
    BY <1>6 DEF Decision
  <2>2. d \in Decisions
    BY <2>1, ConstantsAssumption DEF ConstantsAssumption, Decisions, AllowDecisions
  <2>3. QED
    BY <2>1, <2>2, InvSettle DEF Decide
<1>7. QED
  BY <1>1, <1>2, <1>3, <1>4, <1>5, <1>6 DEF Submission

\* A step of a goroutine keeps the invariant if it keeps the part of its own
\* request that speaks of the goroutine, and the decisions.
LEMMA GoroutineStep ==
  ASSUME TypeOK, LifecycleInv, NEW r \in Requests, Growing,
         UNCHANGED <<up, submit, load, killer>>,
         GoroutineInv(r)',
         pc[r] \in Carrying \cup {"denied"},
         \A q \in Requests \ {r} : mem'[q] = mem[q],
         \A q \in Requests \ {r} : db'[q] = db[q],
         \A q \in Requests \ {r} : pc'[q] = pc[q],
         \A q \in Requests \ {r} : started'[q] = started[q],
         mem'[r].decision = mem[r].decision, mem'[r].status # "none",
         db'[r].decision = db[r].decision,
         db'[r].status = "none" <=> db[r].status = "none"
  PROVE  LifecycleInv'
<1>1. GoroutineInv(r) /\ RecordInv(r) /\ KillerInv
  BY DEF LifecycleInv
<1>2. mem[r].status # "none"
  BY <1>1 DEF GoroutineInv, Carrying, BeforeSlot, InSlot
<1>3. RecordInv(r)'
  BY <1>1, <1>2 DEF RecordInv, Growing
<1>4. KillerInv'
  BY <1>1, KillersStay
<1>5. \A q \in Requests \ {r} : UNCHANGED View(q)
  BY DEF View
<1>6. QED
  BY <1>3, <1>4, <1>5, OneRequest

\* A goroutine step that moves its counter and touches neither memory, the
\* database nor the operation.
LEMMA QuietStep ==
  ASSUME TypeOK, LifecycleInv, Growing, NEW r \in Requests, NEW from, NEW to, Goto(r, from, to),
         from \in Carrying \cup {"denied"},
         UNCHANGED <<up, submit, load, killer, mem, db, started>>,
         to \in Carrying => from \in Carrying,
         to \in BeforeStart => from \in BeforeStart,
         from \in Marked => to \in Marked,
         to \in {"denied", "release", "done"} => mem[r].status \in TerminalStatuses
  PROVE  LifecycleInv'
<1>1. pc[r] = from /\ pc'[r] = to /\ \A q \in Requests \ {r} : pc'[q] = pc[q]
  BY GotoMoves
<1>2. GoroutineInv(r) /\ mem[r].status # "none"
  BY <1>1 DEF LifecycleInv, GoroutineInv, Carrying, BeforeSlot, InSlot
<1>3. GoroutineInv(r)'
  BY <1>1, <1>2 DEF GoroutineInv, Carrying, BeforeSlot, InSlot, Marked, BeforeStart
<1>4. QED
  BY <1>1, <1>2, <1>3, GoroutineStep

\* each step of an execution goroutine that depends on nobody else does,
LEMMA InvAdvance ==
  ASSUME TypeOK, LifecycleInv, NEW r \in Requests, Advance(r)
  PROVE  LifecycleInv'
<1> USE DEF Carrying, BeforeSlot, InSlot, BeforeStart, Marked
<1> Growing
  BY RequestGrows DEF Execution
<1>0. GoroutineInv(r) /\ RecordInv(r) /\ KillerInv
  BY DEF LifecycleInv
<1>1. CASE CleanDenied(r)
  <2>1. Goto(r, "denied", "done") /\ mem[r].status \in TerminalStatuses
    BY <1>0, <1>1 DEF CleanDenied, Goto, GoroutineInv
  <2>2. QED
    BY <1>1, <2>1, QuietStep DEF CleanDenied, SubmitUnchanged
<1>2. CASE FirstCheck(r)
  <2>1. CASE mem[r].status = "KILLED"
    BY <1>2, <2>1, QuietStep DEF FirstCheck, ReturnIfKilled, TerminalStatuses, Outcomes
  <2>2. CASE mem[r].status # "KILLED"
    BY <1>2, <2>2, QuietStep DEF FirstCheck, ReturnIfKilled
  <2>3. QED
    BY <2>1, <2>2
<1>3. CASE MarkQueued(r)
  <2>1. CASE mem[r].status = "APPROVED"
    <3>1. mem' = [mem EXCEPT ![r].status = "QUEUED"] /\ Goto(r, "queue", "saveQueued")
      BY <1>3, <2>1 DEF MarkQueued
    <3>2. /\ mem'[r].status = "QUEUED" /\ mem'[r].decision = mem[r].decision
          /\ \A q \in Requests \ {r} : mem'[q] = mem[q]
      BY <3>1, MemStatus
    <3>3. /\ pc[r] = "queue" /\ pc'[r] = "saveQueued"
          /\ \A q \in Requests \ {r} : pc'[q] = pc[q]
      BY <3>1, GotoMoves
    <3>4. GoroutineInv(r)'
      BY <1>0, <1>3, <3>2, <3>3 DEF MarkQueued, GoroutineInv
    <3>5. QED
      BY <1>3, <3>2, <3>3, <3>4, GoroutineStep DEF MarkQueued
  <2>2. CASE mem[r].status # "APPROVED"
    <3>1. mem' = mem /\ Goto(r, "queue", "acquire")
      BY <1>3, <2>2 DEF MarkQueued, TypeOK, MemRecord
    <3>2. QED
      BY <1>3, <3>1, QuietStep DEF MarkQueued
  <2>3. QED
    BY <2>1, <2>2
<1>4. CASE SaveQueued(r) \/ SaveRunning(r) \/ SaveOutcome(r)
  <2>1. PICK from, to, s : /\ SaveStatusAs(r, s, from, to) /\ s \in Statuses
                           /\ \/ from = "saveQueued" /\ to = "acquire"
                              \/ from = "saveRunning" /\ to = "open"
                              \/ from = "saveStatus" /\ to = "saveExec"
    <3>1. CASE SaveQueued(r)
      BY <3>1 DEF SaveQueued, Statuses
    <3>2. CASE SaveRunning(r)
      BY <3>2 DEF SaveRunning, Statuses
    <3>3. CASE SaveOutcome(r)
      <4>1. pc[r] = "saveStatus"
        BY <3>3 DEF SaveOutcome, SaveStatusAs, Goto
      <4>2. outcome[r] \in Statuses
        BY <4>1, Counters DEF TypeOK
      <4>3. QED
        BY <3>3, <4>2 DEF SaveOutcome
    <3>4. QED
      BY <1>4, <3>1, <3>2, <3>3
  <2>2. pc[r] = from /\ pc'[r] = to /\ \A q \in Requests \ {r} : pc'[q] = pc[q]
    BY <2>1, GotoMoves DEF SaveStatusAs
  <2>3. db[r].status # "none" /\ mem[r].status # "none"
    BY <1>0, <2>1, <2>2 DEF GoroutineInv, RecordInv, AllowDecisions, AllowActions
  <2>4. /\ \A q \in Requests \ {r} : db'[q] = db[q]
        /\ db'[r].decision = db[r].decision
        /\ db'[r].status = "none" <=> db[r].status = "none"
    BY <2>1, <2>3, StatusWrite DEF SaveStatusAs
  <2>5. GoroutineInv(r)'
    BY <1>0, <2>1, <2>2, <2>4 DEF SaveStatusAs, GoroutineInv
  <2>6. QED
    BY <2>1, <2>2, <2>3, <2>4, <2>5, GoroutineStep DEF SaveStatusAs
<1>5. CASE SecondCheck(r)
  <2>1. CASE mem[r].status = "KILLED"
    BY <1>5, <2>1, QuietStep DEF SecondCheck, ReturnIfKilled, TerminalStatuses, Outcomes
  <2>2. CASE mem[r].status # "KILLED"
    BY <1>5, <2>2, QuietStep DEF SecondCheck, ReturnIfKilled
  <2>3. QED
    BY <2>1, <2>2
<1>6. CASE MarkRunning(r)
  <2>1. /\ mem'[r].status = "RUNNING" /\ mem'[r].decision = mem[r].decision
        /\ \A q \in Requests \ {r} : mem'[q] = mem[q]
    BY <1>6, MemStatus DEF MarkRunning
  <2>2. /\ pc[r] = "mark" /\ pc'[r] = "saveRunning"
        /\ \A q \in Requests \ {r} : pc'[q] = pc[q]
    BY <1>6, GotoMoves DEF MarkRunning
  <2>3. GoroutineInv(r)'
    BY <1>0, <1>6, <2>1, <2>2 DEF MarkRunning, GoroutineInv
  <2>4. QED
    BY <1>6, <2>1, <2>2, <2>3, GoroutineStep DEF MarkRunning
<1>7. CASE OpenStagedInput(r)
  BY <1>7, QuietStep DEF OpenStagedInput, WorkUnchanged
<1>8. CASE RegisterCancel(r)
  BY <1>8, QuietStep DEF RegisterCancel, WorkUnchanged
<1>9. CASE StartProcess(r) \/ BeginFileOp(r)
  <2>1. /\ pc[r] \in {"start", "open"} /\ pc'[r] = "exec"
        /\ \A q \in Requests \ {r} : pc'[q] = pc[q]
    BY <1>9, GotoMoves DEF StartProcess, BeginFileOp
  <2>2. /\ started'[r] = started[r] + 1
        /\ \A q \in Requests \ {r} : started'[q] = started[q]
    BY <1>9 DEF StartProcess, BeginFileOp, TypeOK
  <2>3. UNCHANGED <<up, submit, mem, db, load, killer>>
    BY <1>9 DEF StartProcess, BeginFileOp, WorkUnchanged
  <2>4. GoroutineInv(r)' /\ mem[r].status # "none"
    BY <1>0, <2>1, <2>2, <2>3 DEF GoroutineInv
  <2>5. QED
    BY <2>1, <2>2, <2>3, <2>4, GoroutineStep
<1>10. CASE StartFails(r)
  BY <1>10, QuietStep DEF StartFails, WorkUnchanged
<1>11. CASE UnregisterCancel(r)
  BY <1>11, QuietStep DEF UnregisterCancel, WorkUnchanged
<1>12. CASE RejectOp(r)
  BY <1>12, QuietStep DEF RejectOp, WorkUnchanged
<1>13. CASE FinishFileOp(r)
  BY <1>13, QuietStep DEF FinishFileOp, WorkUnchanged
<1>14. CASE CleanInput(r)
  BY <1>14, QuietStep DEF CleanInput
<1>15. CASE SaveExecution(r)
  <2>1. /\ pc[r] = "saveExec" /\ pc'[r] = "publish"
        /\ \A q \in Requests \ {r} : pc'[q] = pc[q]
    BY <1>15, GotoMoves DEF SaveExecution
  <2>2. /\ \A q \in Requests \ {r} : db'[q] = db[q]
        /\ db'[r].decision = db[r].decision
        /\ db'[r].status = db[r].status
    BY <1>15, ExecutionWrite DEF SaveExecution
  <2>3. GoroutineInv(r)' /\ mem[r].status # "none"
    BY <1>0, <1>15, <2>1, <2>2 DEF SaveExecution, GoroutineInv
  <2>4. QED
    BY <1>15, <2>1, <2>2, <2>3, GoroutineStep DEF SaveExecution
<1>16. CASE PublishResult(r)
  <2>1. /\ pc[r] = "publish" /\ pc'[r] = "release"
        /\ \A q \in Requests \ {r} : pc'[q] = pc[q]
    BY <1>16, GotoMoves DEF PublishResult
  <2>2. outcome[r] \in Outcomes
    BY <2>1, Counters DEF TypeOK
  <2>3. /\ mem'[r].status = outcome[r] /\ mem'[r].decision = mem[r].decision
        /\ \A q \in Requests \ {r} : mem'[q] = mem[q]
    BY <1>16, MemResult DEF PublishResult
  <2>4. GoroutineInv(r)' /\ mem'[r].status # "none"
    BY <1>0, <1>16, <2>1, <2>2, <2>3 DEF PublishResult, GoroutineInv, TerminalStatuses, Outcomes
  <2>5. QED
    BY <1>16, <2>1, <2>3, <2>4, GoroutineStep DEF PublishResult
<1>17. CASE ReleaseSlot(r)
  <2>1. pc[r] = "release"
    BY <1>17 DEF ReleaseSlot, Goto
  <2>2. mem[r].status \in TerminalStatuses
    BY <1>0, <2>1 DEF GoroutineInv
  <2>3. QED
    BY <1>17, <2>2, QuietStep DEF ReleaseSlot
<1>18. QED
  BY <1>1, <1>2, <1>3, <1>4, <1>5, <1>6, <1>7, <1>8, <1>9, <1>10, <1>11, <1>12, <1>13,
     <1>14, <1>15, <1>16, <1>17 DEF Advance

\* and so do its remaining steps,
LEMMA InvExecution ==
  ASSUME TypeOK, LifecycleInv, NEW r \in Requests, Execution(r)
  PROVE  LifecycleInv'
<1> Growing
  BY RequestGrows
<1>1. CASE Advance(r)
  BY <1>1, InvAdvance
<1>2. CASE AcquireSlot(r)
  BY <1>2, QuietStep
     DEF AcquireSlot, Carrying, BeforeSlot, InSlot, BeforeStart, Marked
<1>3. CASE Deadline(r)
  BY <1>3 DEF Deadline, WorkUnchanged, LifecycleInv, GoroutineInv, RecordInv, KillerInv
<1>4. CASE FinishProcess(r) \/ LeaveChild(r) \/ ChildLetsGo(r)
  BY <1>4, QuietStep
     DEF FinishProcess, LeaveChild, ChildLetsGo, RunReturns, WorkUnchanged, Carrying, BeforeSlot,
         InSlot, BeforeStart, Marked
<1>5. QED
  BY <1>1, <1>2, <1>3, <1>4 DEF Execution

\* What a kill call changes: the status of a record that is in memory, and the
\* status of its row, but never a decision.
LEMMA KillStep ==
  ASSUME TypeOK, LifecycleInv, NEW r \in Requests, mem[r].status # "none", Growing,
         UNCHANGED <<up, submit, load, pc, started>>,
         \A q \in Requests \ {r} : mem'[q] = mem[q],
         \A q \in Requests \ {r} : db'[q] = db[q],
         mem'[r].decision = mem[r].decision,
         mem'[r].status \in {mem[r].status, "KILLED", "CANCELED"},
         db'[r].decision = db[r].decision,
         db'[r].status = "none" <=> db[r].status = "none",
         KillerInv'
  PROVE  LifecycleInv'
<1>1. GoroutineInv(r) /\ RecordInv(r)
  BY DEF LifecycleInv
<1>2. GoroutineInv(r)' /\ RecordInv(r)'
  BY <1>1 DEF GoroutineInv, RecordInv, Growing, TerminalStatuses, Outcomes
<1>3. \A q \in Requests \ {r} : UNCHANGED View(q)
  BY DEF View
<1>4. QED
  BY <1>2, <1>3, OneRequest

\* every step of a kill call,
LEMMA InvKill ==
  ASSUME TypeOK, LifecycleInv, NEW k \in Killers, Kill(k)
  PROVE  LifecycleInv'
<1> Growing
  BY KillGrows
<1> DEFINE t == killer[k].req
<1>0. KillerInv /\ (killer[k].pc # "idle" => t \in Requests /\ mem[t].status # "none")
  BY KillTarget DEF LifecycleInv, KillerInv
<1>00. killer[k].pc # "idle" => db[t].status # "none"
  BY <1>0 DEF LifecycleInv, RecordInv
<1>1. ASSUME NEW r \in Requests, KillRead(k, r)
      PROVE  LifecycleInv'
  <2>1. KillerInv'
    BY <1>0, <1>1 DEF KillRead, KillerInv, TypeOK
  <2>2. QED
    BY <1>1, <2>1, KillStep DEF KillRead, KillUnchanged
<1>2. CASE KillMark(k)
  <2>1. killer[k].pc # "idle" /\ KillStatus(k) \in {"KILLED", "CANCELED"}
    BY <1>2, KillTarget DEF KillMark
  <2>2. /\ mem'[t].status = KillStatus(k) /\ mem'[t].decision = mem[t].decision
        /\ \A q \in Requests \ {t} : mem'[q] = mem[q]
    <3>1. CASE KillStatus(k) = "KILLED"
      <4>1. mem' = [mem EXCEPT ![t].status = KillStatus(k), ![t].result = "killed before start"]
        BY <1>2, <3>1 DEF KillMark
      <4>2. QED
        BY <1>0, <2>1, <4>1, MemResult
    <3>2. CASE KillStatus(k) # "KILLED"
      <4>1. mem' = [mem EXCEPT ![t].status = KillStatus(k)]
        BY <1>0, <1>2, <2>1, <3>2 DEF KillMark, TypeOK, MemRecord
      <4>2. QED
        BY <1>0, <2>1, <4>1, MemStatus
    <3>3. QED
      BY <3>1, <3>2
  <2>3. killer' = [killer EXCEPT ![k].pc = "clean"]
    BY <1>2 DEF KillMark
  <2>4. killer \in [Killers -> KillerRecord]
    BY DEF TypeOK
  <2>5. \A q \in Killers : killer'[q].req = killer[q].req
    BY <2>3, <2>4 DEF KillerRecord
  <2>6. \A q \in Killers : killer'[q].pc # "idle" => killer[q].pc # "idle"
    BY <2>1, <2>3, <2>4 DEF KillerRecord
  <2>7. \A q \in Killers : killer[q].pc # "idle" => killer[q].req \in Requests
    BY DEF TypeOK
  <2>8. \A q \in Requests : mem[q].status # "none" => mem'[q].status # "none"
    BY <2>1, <2>2
  <2>9. KillerInv'
    BY <1>0, <2>5, <2>6, <2>7, <2>8 DEF KillerInv
  <2>10. QED
    BY <1>0, <1>2, <2>1, <2>2, <2>9, KillStep DEF KillMark, KillUnchanged
<1>3. CASE KillClean(k) \/ KillCancel(k) \/ KillSaveExecution(k) \/ KillSaveStatus(k)
  <2>1. killer[k].pc # "idle" /\ UNCHANGED <<up, submit, load, pc, started, mem>>
    BY <1>3 DEF KillClean, KillCancel, KillSaveExecution, KillSaveStatus, KillUnchanged
  <2>2. /\ \A q \in Requests \ {t} : db'[q] = db[q]
        /\ db'[t].decision = db[t].decision
        /\ db'[t].status = "none" <=> db[t].status = "none"
    <3>1. CASE KillSaveStatus(k)
      <4>1. UpdateRequestStatus(t, KillStatus(k)) /\ KillStatus(k) \in Statuses
        BY <3>1, KillTarget DEF KillSaveStatus
      <4>2. QED
        BY <1>0, <1>00, <2>1, <4>1, StatusWrite
    <3>2. CASE KillSaveExecution(k)
      BY <1>0, <2>1, <3>2, ExecutionWrite DEF KillSaveExecution
    <3>3. CASE KillClean(k) \/ KillCancel(k)
      BY <3>3 DEF KillClean, KillCancel
    <3>4. QED
      BY <1>3, <3>1, <3>2, <3>3
  <2>3. \A q \in Killers :
          killer'[q].pc # "idle" => killer[q].pc # "idle" /\ killer'[q].req = killer[q].req
    <3>1. killer \in [Killers -> KillerRecord]
      BY DEF TypeOK
    <3>2. CASE killer' = [killer EXCEPT ![k] = IdleKiller]
      BY <3>1, <3>2, IdleKillerType
    <3>3. ASSUME NEW p \in {"saveStatus", "saveExec"}, killer' = [killer EXCEPT ![k].pc = p]
          PROVE  \A q \in Killers :
                   killer'[q].pc # "idle" => killer[q].pc # "idle" /\ killer'[q].req = killer[q].req
      BY <2>1, <3>1, <3>3 DEF KillerRecord
    <3>4. CASE killer' = [killer EXCEPT ![k].pc = "saveStatus"]
      BY <3>3, <3>4
    <3>5. CASE killer' = [killer EXCEPT ![k].pc = "saveExec"]
      BY <3>3, <3>5
    <3>6. QED
      BY <1>3, <3>2, <3>4, <3>5 DEF KillClean, KillCancel, KillSaveExecution, KillSaveStatus
  <2>4. KillerInv'
    BY <1>0, <2>1, <2>3 DEF KillerInv
  <2>5. QED
    BY <1>0, <2>1, <2>2, <2>4, KillStep
<1>4. QED
  BY <1>1, <1>2, <1>3 DEF Kill

\* the loading of rows after a restart,
LEMMA InvRehydration ==
  ASSUME TypeOK, LifecycleInv, NEW r \in Requests, Rehydration(r)
  PROVE  LifecycleInv'
<1> Growing
  BY RequestGrows
<1>0. GoroutineInv(r) /\ RecordInv(r) /\ KillerInv
  BY DEF LifecycleInv
<1>1. load[r] # "none" /\ db[r].status # "none" /\ mem[r].status = "none" /\ pc[r] = "idle"
  BY <1>0 DEF Rehydration, FailInterrupted, RecordInterrupted, LoadRow, Loadable, RecordInv,
     GoroutineInv
<1>2. /\ UNCHANGED <<up, submit, pc, killer, started>>
      /\ load'[r] \in {"none", "failed", "recorded"}
      /\ \A q \in Requests \ {r} : load'[q] = load[q]
  BY DEF Rehydration, FailInterrupted, RecordInterrupted, LoadRow, LoadUnchanged, TypeOK
<1>3. /\ \A q \in Requests \ {r} : db'[q] = db[q]
      /\ db'[r].decision = db[r].decision
      /\ db'[r].status # "none"
  <2>1. CASE FailInterrupted(r)
    <3>1. "FAILED" \in Statuses
      BY DEF Statuses, TerminalStatuses, Outcomes
    <3>2. QED
      BY <1>1, <2>1, <3>1, StatusWrite DEF FailInterrupted
  <2>2. CASE RecordInterrupted(r)
    BY <1>1, <2>2, ExecutionWrite DEF RecordInterrupted
  <2>3. CASE LoadRow(r)
    BY <1>1, <2>3 DEF LoadRow
  <2>4. QED
    BY <2>1, <2>2, <2>3 DEF Rehydration
<1>4. /\ \A q \in Requests \ {r} : mem'[q] = mem[q]
      /\ \/ mem'[r] = mem[r]
         \/ /\ load'[r] = "none"
            /\ \/ mem'[r].decision = db[r].decision
               \/ mem'[r].decision = "none" /\ faults' > 0
            /\ mem'[r].status \notin {"none", "RUNNING"}
  <2>1. CASE FailInterrupted(r) \/ RecordInterrupted(r)
    BY <2>1 DEF FailInterrupted, RecordInterrupted
  <2>2. CASE LoadRow(r)
    <3>1. Loadable(r) /\ ReadBack(r) /\ load'[r] = "none"
      BY <2>2 DEF LoadRow, TypeOK
    <3>2. QED
      BY <1>1, <3>1, ReadBackEffect
  <2>3. QED
    BY <2>1, <2>2 DEF Rehydration
<1>5. GoroutineInv(r)'
  BY <1>0, <1>1, <1>2, <1>3, <1>4
     DEF GoroutineInv, Carrying, BeforeSlot, InSlot, BeforeStart
<1>6. up = "loading"
  BY <1>0, <1>1 DEF RecordInv
<1>7. RecordInv(r)'
  BY <1>0, <1>1, <1>2, <1>3, <1>4, <1>6 DEF RecordInv
<1>8. KillerInv'
  BY <1>0, <1>1, <1>2, <1>4, KillersStay
<1>9. \A q \in Requests \ {r} : UNCHANGED View(q)
  BY <1>2, <1>3, <1>4 DEF View
<1>10. QED
  BY <1>2, <1>5, <1>7, <1>8, <1>9, OneRequest

\* crash, restart and the start of service,
LEMMA InvProcess ==
  ASSUME TypeOK, LifecycleInv, Crash \/ Restart \/ Serve
  PROVE  LifecycleInv'
<1>1. CASE Crash
  <2>1. ASSUME NEW r \in Requests
        PROVE  GoroutineInv(r)' /\ RecordInv(r)'
    <3>1. GoroutineInv(r) /\ RecordInv(r)
      BY DEF LifecycleInv
    <3>2. /\ mem'[r] = NoMem /\ pc'[r] = "idle" /\ load'[r] = "none" /\ up' = "down"
          /\ submit'[r] = IF submit[r] \in {"new", "rejected"} THEN submit[r] ELSE "answered"
          /\ UNCHANGED <<db, started, faults>>
      BY <1>1 DEF Crash
    <3>3. QED
      BY <3>1, <3>2
         DEF GoroutineInv, RecordInv, NoMem, Carrying, BeforeSlot, InSlot, BeforeStart
  <2>2. KillerInv'
    BY <1>1 DEF Crash, KillerInv, IdleKiller
  <2>3. QED
    BY <2>1, <2>2 DEF LifecycleInv
<1>2. CASE Restart
  <2>1. ASSUME NEW r \in Requests
        PROVE  GoroutineInv(r)' /\ RecordInv(r)'
    <3>1. GoroutineInv(r) /\ RecordInv(r)
      BY DEF LifecycleInv
    <3>2. /\ load'[r] # "none" => db[r].status \in Resumable
          /\ up = "down" /\ up' = "loading"
          /\ UNCHANGED <<submit, mem, db, pc, started, faults>>
      BY <1>2 DEF Restart, Unfinished
    <3>3. submit[r] \in {"new", "rejected", "answered"}
      BY <3>1, <3>2 DEF RecordInv, TypeOK
    <3>4. load'[r] # "none" => submit[r] = "answered"
      BY <3>1, <3>2, <3>3 DEF RecordInv, Resumable
    <3>5. QED
      BY <3>1, <3>2, <3>4 DEF GoroutineInv, RecordInv
  <2>2. KillerInv'
    BY <1>2 DEF Restart, KillerInv, LifecycleInv
  <2>3. QED
    BY <2>1, <2>2 DEF LifecycleInv
<1>3. CASE Serve
  BY <1>3 DEF Serve, LifecycleInv, GoroutineInv, RecordInv, KillerInv
<1>4. QED
  BY <1>1, <1>2, <1>3

\* and so every step.
LEMMA InvNext == TypeOK /\ LifecycleInv /\ [Next]_vars => LifecycleInv'
<1> SUFFICES ASSUME TypeOK, LifecycleInv, [Next]_vars PROVE LifecycleInv'
  OBVIOUS
<1>1. ASSUME NEW r \in Requests, Submission(r) \/ Decision(r) \/ Execution(r) \/ Rehydration(r)
      PROVE  LifecycleInv'
  BY <1>1, InvSubmission, InvExecution, InvRehydration
<1>2. ASSUME NEW k \in Killers, Kill(k)
      PROVE  LifecycleInv'
  BY <1>2, InvKill
<1>3. CASE Crash \/ Restart \/ Serve
  BY <1>3, InvProcess
<1>4. CASE UNCHANGED vars
  BY <1>4 DEF vars, LifecycleInv, GoroutineInv, RecordInv, KillerInv
<1>5. QED
  BY <1>1, <1>2, <1>3, <1>4 DEF Next

\* The inductive invariant holds in every reachable state.
THEOREM InvariantCorrect == Spec => []LifecycleInv
<1>1. Init => LifecycleInv
  BY InvInit
<1>2. TypeOK /\ LifecycleInv /\ [Next]_vars => LifecycleInv'
  BY InvNext
<1>3. QED
  BY <1>1, <1>2, TypeCorrect, PTL DEF Spec

-----------------------------------------------------------------------------
(***************************************************************************)
(* The safety properties.                                                  *)
(***************************************************************************)

\* The operation of a request is begun at most once, through decisions, kill
\* calls, lost writes, crashes and restarts (httpapi.go:211).
THEOREM StartedOnce == Spec => []AtMostOneStart
<1>1. LifecycleInv => AtMostOneStart
  BY DEF LifecycleInv, GoroutineInv, AtMostOneStart
<1>2. QED
  BY <1>1, InvariantCorrect, PTL

\* An operation is begun only under a stored allowing decision (httpapi.go:1738).
THEOREM StartedAllowed == Spec => []StartedOnlyIfAllowed
<1>1. LifecycleInv => StartedOnlyIfAllowed
  BY DEF LifecycleInv, GoroutineInv, StartedOnlyIfAllowed
<1>2. QED
  BY <1>1, InvariantCorrect, PTL

\* Memory never shows another decision than the database, and lacks it only after
\* SQLite refused something (httpapi.go:1738-1755, 242-278).
THEOREM DecisionsAgree == Spec => []DecisionAgreement
<1>1. LifecycleInv => DecisionAgreement
  BY DEF LifecycleInv, RecordInv, DecisionAgreement
<1>2. QED
  BY <1>1, InvariantCorrect, PTL

\* Whatever is RUNNING has a goroutine that will move it on (httpapi.go:1433,
\* 1654, 212-234).
THEOREM NoOrphans == Spec => []NoOrphanRunning
<1>1. LifecycleInv => NoOrphanRunning
  BY DEF LifecycleInv, GoroutineInv, NoOrphanRunning
<1>2. QED
  BY <1>1, InvariantCorrect, PTL

\* A request whose goroutine has returned is finished (httpapi.go:1391-1396,
\* 1425-1430, 1654-1661).
THEOREM DoneTerminal == Spec => []DoneIsTerminal
<1>1. LifecycleInv => DoneIsTerminal
  BY DEF LifecycleInv, GoroutineInv, DoneIsTerminal
<1>2. QED
  BY <1>1, InvariantCorrect, PTL

-----------------------------------------------------------------------------
(***************************************************************************)
(* The execution slots.                                                    *)
(***************************************************************************)

\* Every step adds at most one goroutine to the slot holders, when it takes a
\* token, and removes at most one, when it gives a token back.
LEMMA SlotStep ==
  ASSUME TypeOK, LifecycleInv, [Next]_vars
  PROVE  \/ HoldingSlot' = HoldingSlot /\ sem' = sem
         \/ /\ sem < MaxConcurrency /\ sem' = sem + 1
            /\ \E r \in Requests \ HoldingSlot : HoldingSlot' = HoldingSlot \cup {r}
         \/ /\ sem' = sem - 1
            /\ \E r \in HoldingSlot : HoldingSlot' = HoldingSlot \ {r}
         \/ HoldingSlot' = {} /\ sem' = 0
<1> DEFINE Goal ==
         \/ HoldingSlot' = HoldingSlot /\ sem' = sem
         \/ /\ sem < MaxConcurrency /\ sem' = sem + 1
            /\ \E r \in Requests \ HoldingSlot : HoldingSlot' = HoldingSlot \cup {r}
         \/ /\ sem' = sem - 1
            /\ \E r \in HoldingSlot : HoldingSlot' = HoldingSlot \ {r}
         \/ HoldingSlot' = {} /\ sem' = 0
<1> SUFFICES Goal
  OBVIOUS
<1>1. ASSUME NEW r \in Requests, sem' = sem,
             \A q \in Requests \ {r} : pc'[q] = pc[q],
             pc'[r] \in InSlot <=> pc[r] \in InSlot
      PROVE  Goal
  BY <1>1 DEF HoldingSlot
<1>2. ASSUME NEW r \in Requests, NEW from, NEW to, Goto(r, from, to), sem' = sem,
             from \in InSlot <=> to \in InSlot
      PROVE  Goal
  BY <1>1, <1>2, GotoMoves
<1>3. ASSUME NEW r \in Requests, Submission(r) \/ Decision(r)
      PROVE  Goal
  <2>1. CASE UNCHANGED <<pc, sem>>
    BY <2>1 DEF HoldingSlot
  <2>2. ASSUME NEW d, Settle(r, d), sem' = sem
        PROVE  Goal
    <3>1. pc[r] = "idle"
      BY <2>2 DEF Settle, LifecycleInv, GoroutineInv
    <3>2. /\ pc'[r] \in {"denied", "spawned"}
          /\ \A q \in Requests \ {r} : pc'[q] = pc[q]
      BY <2>2 DEF Settle, TypeOK
    <3>3. QED
      BY <1>1, <2>2, <3>1, <3>2 DEF InSlot
  <2>3. QED
    BY <1>3, <2>1, <2>2
       DEF Submission, InsertRequest, InsertRequestFails, ShowRequest, ApproveByRule,
           LeaveToHuman, Decision, Decide, SubmitUnchanged
<1>4. ASSUME NEW r \in Requests, Execution(r)
      PROVE  Goal
  <2>1. CASE AcquireSlot(r)
    <3>1. /\ pc[r] = "acquire" /\ pc'[r] = "check"
          /\ \A q \in Requests \ {r} : pc'[q] = pc[q]
      BY <2>1, GotoMoves DEF AcquireSlot
    <3>2. HoldingSlot' = HoldingSlot \cup {r} /\ r \notin HoldingSlot
      BY <3>1 DEF HoldingSlot, InSlot
    <3>3. QED
      BY <2>1, <3>2 DEF AcquireSlot
  <2>2. CASE ReleaseSlot(r)
    <3>1. /\ pc[r] = "release" /\ pc'[r] = "done"
          /\ \A q \in Requests \ {r} : pc'[q] = pc[q]
      BY <2>2, GotoMoves DEF ReleaseSlot
    <3>2. HoldingSlot' = HoldingSlot \ {r} /\ r \in HoldingSlot
      BY <3>1 DEF HoldingSlot, InSlot
    <3>3. QED
      BY <2>2, <3>2 DEF ReleaseSlot
  <2>3. CASE CleanDenied(r)
    <3>1. Goto(r, "denied", "done") /\ sem' = sem
      BY <2>3 DEF CleanDenied, Goto, SubmitUnchanged
    <3>2. QED
      BY <1>2, <3>1 DEF InSlot
  <2>4. CASE FirstCheck(r) \/ SecondCheck(r)
    <3>1. \E from, to : Goto(r, from, to) /\ sem' = sem /\ (from \in InSlot <=> to \in InSlot)
      BY <2>4 DEF FirstCheck, SecondCheck, ReturnIfKilled, InSlot
    <3>2. QED
      BY <1>2, <3>1
  <2>5. CASE MarkQueued(r) \/ SaveQueued(r)
    <3>1. \E from, to : Goto(r, from, to) /\ sem' = sem /\ (from \in InSlot <=> to \in InSlot)
      BY <2>5 DEF MarkQueued, SaveQueued, SaveStatusAs, InSlot
    <3>2. QED
      BY <1>2, <3>1
  <2>6. CASE Deadline(r)
    BY <2>6 DEF Deadline, WorkUnchanged, HoldingSlot
  <2>7. CASE \/ MarkRunning(r) \/ SaveRunning(r) \/ OpenStagedInput(r) \/ RegisterCancel(r)
             \/ StartProcess(r) \/ StartFails(r)
    <3>1. \E from, to : Goto(r, from, to) /\ sem' = sem /\ (from \in InSlot <=> to \in InSlot)
      BY <2>7 DEF MarkRunning, SaveRunning, OpenStagedInput, RegisterCancel, StartProcess,
         StartFails, SaveStatusAs, WorkUnchanged, InSlot
    <3>2. QED
      BY <1>2, <3>1
  <2>8. CASE \/ UnregisterCancel(r) \/ BeginFileOp(r) \/ RejectOp(r) \/ FinishFileOp(r)
             \/ FinishProcess(r) \/ LeaveChild(r) \/ ChildLetsGo(r)
    <3>1. \E from, to : Goto(r, from, to) /\ sem' = sem /\ (from \in InSlot <=> to \in InSlot)
      BY <2>8 DEF UnregisterCancel, BeginFileOp, RejectOp, FinishFileOp, FinishProcess,
         LeaveChild, ChildLetsGo, RunReturns, WorkUnchanged, InSlot
    <3>2. QED
      BY <1>2, <3>1
  <2>9. CASE CleanInput(r) \/ SaveOutcome(r) \/ SaveExecution(r) \/ PublishResult(r)
    <3>1. \E from, to : Goto(r, from, to) /\ sem' = sem /\ (from \in InSlot <=> to \in InSlot)
      BY <2>9 DEF CleanInput, SaveOutcome, SaveExecution, PublishResult, SaveStatusAs, InSlot
    <3>2. QED
      BY <1>2, <3>1
  <2>10. QED
    BY <1>4, <2>1, <2>2, <2>3, <2>4, <2>5, <2>6, <2>7, <2>8, <2>9 DEF Execution, Advance
<1>5. ASSUME NEW k \in Killers, Kill(k)
      PROVE  Goal
  BY <1>5 DEF Kill, KillRead, KillMark, KillClean, KillSaveStatus, KillSaveExecution,
     KillCancel, KillUnchanged, HoldingSlot
<1>6. ASSUME NEW r \in Requests, Rehydration(r)
      PROVE  Goal
  BY <1>6 DEF Rehydration, FailInterrupted, RecordInterrupted, LoadRow, LoadUnchanged, HoldingSlot
<1>7. CASE Crash
  BY <1>7 DEF Crash, HoldingSlot, InSlot
<1>8. CASE Restart \/ Serve \/ UNCHANGED vars
  BY <1>8 DEF Restart, Serve, vars, HoldingSlot
<1>9. QED
  BY <1>3, <1>4, <1>5, <1>6, <1>7, <1>8 DEF Next

SlotInv == SlotsCounted /\ SlotBound

\* Initially nobody holds a slot.
LEMMA SlotInit == Init => SlotInv
<1> SUFFICES ASSUME Init PROVE SlotInv
  OBVIOUS
<1>1. HoldingSlot = {}
  BY DEF Init, HoldingSlot, InSlot
<1>2. QED
  BY <1>1, FS_EmptySet, ConstantsAssumption
     DEF SlotInv, SlotsCounted, SlotBound, Init, ConstantsAssumption

\* Tokens and slot holders change together, within the capacity.
LEMMA SlotNext == TypeOK /\ LifecycleInv /\ SlotInv /\ [Next]_vars => SlotInv'
<1> SUFFICES ASSUME TypeOK, LifecycleInv, SlotInv, [Next]_vars PROVE SlotInv'
  OBVIOUS
<1>1. IsFiniteSet(HoldingSlot) /\ Cardinality(HoldingSlot) \in Nat
  BY ConstantsAssumption, FS_Subset, FS_CardinalityType DEF ConstantsAssumption, HoldingSlot
<1>2. MaxConcurrency \in Nat
  BY ConstantsAssumption DEF ConstantsAssumption
<1>3. CASE HoldingSlot' = HoldingSlot /\ sem' = sem
  BY <1>3 DEF SlotInv, SlotsCounted, SlotBound
<1>4. CASE /\ sem < MaxConcurrency /\ sem' = sem + 1
           /\ \E r \in Requests \ HoldingSlot : HoldingSlot' = HoldingSlot \cup {r}
  <2>1. PICK r \in Requests \ HoldingSlot : HoldingSlot' = HoldingSlot \cup {r}
    BY <1>4
  <2>2. Cardinality(HoldingSlot') = Cardinality(HoldingSlot) + 1
    BY <1>1, <2>1, FS_AddElement
  <2>3. QED
    BY <1>1, <1>2, <1>4, <2>2 DEF SlotInv, SlotsCounted, SlotBound
<1>5. CASE /\ sem' = sem - 1
           /\ \E r \in HoldingSlot : HoldingSlot' = HoldingSlot \ {r}
  <2>1. PICK r \in HoldingSlot : HoldingSlot' = HoldingSlot \ {r}
    BY <1>5
  <2>2. Cardinality(HoldingSlot') = Cardinality(HoldingSlot) - 1
    BY <1>1, <2>1, FS_RemoveElement
  <2>3. QED
    BY <1>1, <1>2, <1>5, <2>2 DEF SlotInv, SlotsCounted, SlotBound
<1>6. CASE HoldingSlot' = {} /\ sem' = 0
  BY <1>2, <1>6, FS_EmptySet DEF SlotInv, SlotsCounted, SlotBound
<1>7. QED
  BY <1>3, <1>4, <1>5, <1>6, SlotStep

\* Every return path gives its slot back: the channel holds one token per
\* goroutine between the send (httpapi.go:1422) and the deferred receive (1423).
THEOREM SlotsCorrect == Spec => []SlotsCounted
<1>1. Init => SlotInv
  BY SlotInit
<1>2. TypeOK /\ LifecycleInv /\ SlotInv /\ [Next]_vars => SlotInv'
  BY SlotNext
<1>3. SlotInv => SlotsCounted
  BY DEF SlotInv
<1>4. QED
  BY <1>1, <1>2, <1>3, TypeCorrect, InvariantCorrect, PTL DEF Spec

\* At most MaxConcurrency requests execute at a time (httpapi.go:1422).
THEOREM SlotsBounded == Spec => []SlotBound
<1>1. Init => SlotInv
  BY SlotInit
<1>2. TypeOK /\ LifecycleInv /\ SlotInv /\ [Next]_vars => SlotInv'
  BY SlotNext
<1>3. SlotInv => SlotBound
  BY DEF SlotInv
<1>4. QED
  BY <1>1, <1>2, <1>3, TypeCorrect, InvariantCorrect, PTL DEF Spec

-----------------------------------------------------------------------------
(***************************************************************************)
(* Memory and database agree about every settled request, without kill     *)
(* calls and as long as no write was refused.  The invariant follows the   *)
(* row of a request along its goroutine.                                   *)
(***************************************************************************)
Settled(r) ==
  /\ db[r].status \notin TerminalStatuses => db[r].exec = "none"
  /\ mem[r].status = "none" => mem[r].result = "none"
  /\ submit[r] = "inserted" => db[r].status = "PENDING_APPROVAL"
  /\ load[r] \in {"failed", "recorded"} => db[r].status = "FAILED"
  /\ pc[r] \in {"spawned", "queue"} =>
       mem[r].status = "APPROVED" /\ db[r].status = "APPROVED"
  /\ pc[r] = "saveQueued" => mem[r].status = "QUEUED" /\ db[r].status = "APPROVED"
  /\ pc[r] \in {"acquire", "check", "mark"} =>
       mem[r].status = "QUEUED" /\ db[r].status = "QUEUED"
  /\ pc[r] \in Marked \ {"saveExec", "publish"} =>
       db[r].status \in {"QUEUED", "RUNNING"}
  /\ pc[r] = "saveExec" => db[r].status = outcome[r] /\ db[r].exec = "none"
  /\ pc[r] = "publish" => db[r].status = outcome[r] /\ db[r].exec = outcome[r]
  /\ mem[r].status # "none" /\ pc[r] \notin Carrying \ {"release"} =>
       mem[r].status = db[r].status /\ mem[r].result = db[r].exec

SettledInv == faults = 0 => \A r \in Requests : Settled(r)

\* All that the invariant reads of one request.
Whole(r) == <<submit[r], mem[r], db[r], load[r], pc[r], outcome[r]>>

\* A step of one request.
LEMMA SettledOne ==
  ASSUME \A q \in Requests : Settled(q), NEW r \in Requests, Settled(r)',
         \A q \in Requests \ {r} : UNCHANGED Whole(q)
  PROVE  SettledInv'
BY DEF Settled, SettledInv, Whole

\* What a refused write would count is not refused.
LEMMA Accepted ==
  ASSUME TypeOK, faults' = 0, NEW r \in Requests, NEW e
  PROVE  /\ UpdateRequestStatus(r, e) =>
              /\ faults = 0
              /\ db'[r].status = e /\ db'[r].exec = db[r].exec
              /\ \A q \in Requests \ {r} : db'[q] = db[q]
         /\ InsertExecution(r, e) =>
              /\ faults = 0
              /\ db'[r].status = db[r].status
              /\ db'[r].exec = IF db[r].exec = "none" THEN e ELSE db[r].exec
              /\ \A q \in Requests \ {r} : db'[q] = db[q]
<1>1. ~Refused /\ db \in [Requests -> DbRecord]
  BY ConstantsAssumption DEF Refused, TypeOK, ConstantsAssumption
<1>2. ASSUME UpdateRequestStatus(r, e)
      PROVE  faults = 0 /\ db' = [db EXCEPT ![r].status = e]
  BY <1>1, <1>2 DEF UpdateRequestStatus
<1>3. ASSUME InsertExecution(r, e)
      PROVE  faults = 0 /\ db' = [db EXCEPT ![r].exec = IF @ = "none" THEN e ELSE @]
  BY <1>1, <1>3 DEF InsertExecution
<1>4. QED
  BY <1>1, <1>2, <1>3 DEF DbRecord

\* A record of memory whose status, or status and result, are assigned.
LEMMA MemFields ==
  ASSUME TypeOK, NEW r \in Requests, NEW s, NEW e
  PROVE  /\ mem' = [mem EXCEPT ![r].status = s] =>
              /\ mem'[r].status = s /\ mem'[r].result = mem[r].result
              /\ \A q \in Requests \ {r} : mem'[q] = mem[q]
         /\ mem' = [mem EXCEPT ![r].status = s, ![r].result = e] =>
              /\ mem'[r].status = s /\ mem'[r].result = e
              /\ \A q \in Requests \ {r} : mem'[q] = mem[q]
BY DEF TypeOK, MemRecord

\* A goroutine moves on; neither record of its request changes.
LEMMA SettledMove ==
  ASSUME TypeOK, \A q \in Requests : Settled(q), NEW r \in Requests, NEW to,
         Goto(r, pc[r], to), UNCHANGED <<submit, mem, db, load>>,
         \A q \in Requests \ {r} : outcome'[q] = outcome[q],
         \/ pc[r] = "denied" /\ to = "done"
         \/ pc[r] = "release" /\ to = "done"
         \/ pc[r] = "spawned" /\ to = "queue"
         \/ pc[r] = "acquire" /\ to = "check"
         \/ pc[r] = "check" /\ to = "mark"
         \/ /\ pc[r] \in Marked \ {"saveExec", "publish"}
            /\ to \in Marked \ {"saveExec", "publish"}
  PROVE  SettledInv'
<1>1. pc'[r] = to /\ \A q \in Requests \ {r} : pc'[q] = pc[q]
  BY GotoMoves
<1>2. Settled(r)'
  BY <1>1 DEF Settled, Marked, Carrying, BeforeSlot, InSlot
<1>3. QED
  BY <1>1, <1>2, SettledOne DEF Whole

\* The submission handler and decisions.
LEMMA SettledSubmission ==
  ASSUME TypeOK, LifecycleInv, SettledInv, faults' = 0, NEW r \in Requests,
         Submission(r) \/ Decision(r)
  PROVE  SettledInv'
<1>0. /\ \A q \in Requests : Settled(q)
      /\ GoroutineInv(r) /\ RecordInv(r)
      /\ mem \in [Requests -> MemRecord] /\ db \in [Requests -> DbRecord]
      /\ submit \in [Requests -> {"new", "inserted", "visible", "answered", "rejected"}]
      /\ pc \in [Requests -> ProgramCounters]
  BY DEF SubmitUnchanged, Submission, Decision, Decide, InsertRequest, InsertRequestFails,
         ShowRequest, ApproveByRule, LeaveToHuman, SettledInv, LifecycleInv, TypeOK
<1>1. ASSUME NEW d, Settle(r, d), UNCHANGED <<load, outcome>>,
             submit' = submit \/ submit' = [submit EXCEPT ![r] = "answered"]
      PROVE  SettledInv'
  <2> DEFINE to == IF d = "DENY" THEN "denied" ELSE "spawned"
             s == DecidedStatus(d)
  <2>1. /\ mem[r].status = "PENDING_APPROVAL" /\ db[r].status = "PENDING_APPROVAL"
        /\ mem' = [mem EXCEPT ![r].status = s, ![r].decision = d]
        /\ db' = [db EXCEPT ![r].status = s, ![r].decision = d]
        /\ pc' = [pc EXCEPT ![r] = to]
    BY <1>1 DEF Settle, CommitPendingDecision
  <2>2. IF d = "DENY" THEN to = "denied" /\ s = "DENIED" ELSE to = "spawned" /\ s = "APPROVED"
    BY DEF DecidedStatus
  <2> HIDE DEF to, s
  <2>3. /\ mem'[r].status = s /\ mem'[r].result = mem[r].result
        /\ \A q \in Requests \ {r} : mem'[q] = mem[q]
    BY <1>0, <2>1 DEF MemRecord
  <2>4. /\ db'[r].status = s /\ db'[r].exec = db[r].exec
        /\ \A q \in Requests \ {r} : db'[q] = db[q]
    BY <1>0, <2>1 DEF DbRecord
  <2>5. /\ pc'[r] = to /\ \A q \in Requests \ {r} : pc'[q] = pc[q]
        /\ submit'[r] \in {submit[r], "answered"}
        /\ \A q \in Requests \ {r} : submit'[q] = submit[q]
    BY <1>0, <1>1, <2>1
  <2>6. pc[r] = "idle" /\ submit[r] # "inserted" /\ load[r] = "none"
    BY <1>0, <2>1 DEF GoroutineInv, RecordInv, TypeOK
  <2>7. db[r].exec = "none" /\ mem[r].result = "none"
    BY <1>0, <2>1, <2>6 DEF Settled, Carrying, BeforeSlot, InSlot, TerminalStatuses, Outcomes
  <2>8. Settled(r)'
    BY <1>1, <2>2, <2>3, <2>4, <2>5, <2>6, <2>7 DEF Settled, Carrying, BeforeSlot, InSlot, Marked
  <2>9. QED
    BY <1>0, <1>1, <2>3, <2>4, <2>5, <2>8, SettledOne DEF Whole
<1>2. CASE InsertRequest(r)
  <2>1. /\ db'[r].status = "PENDING_APPROVAL" /\ db'[r].exec = db[r].exec
        /\ \A q \in Requests \ {r} : db'[q] = db[q]
    BY <1>0, <1>2 DEF InsertRequest, DbRecord
  <2>2. /\ submit[r] = "new" /\ submit'[r] = "inserted"
        /\ \A q \in Requests \ {r} : submit'[q] = submit[q]
        /\ UNCHANGED <<mem, pc, load, outcome>>
    BY <1>0, <1>2 DEF InsertRequest, SubmitUnchanged
  <2>3. db[r].status = "none" /\ mem[r].status = "none" /\ pc[r] = "idle" /\ load[r] = "none"
    BY <1>0, <2>2 DEF RecordInv, GoroutineInv, TypeOK
  <2>4. db[r].exec = "none"
    BY <1>0, <2>3 DEF Settled, TerminalStatuses, Outcomes
  <2>5. Settled(r)'
    BY <1>0, <2>1, <2>2, <2>3, <2>4 DEF Settled, Marked
  <2>6. QED
    BY <1>0, <2>1, <2>2, <2>5, SettledOne DEF Whole
<1>3. CASE ShowRequest(r)
  <2>1. /\ mem'[r].status = "PENDING_APPROVAL" /\ mem'[r].result = mem[r].result
        /\ \A q \in Requests \ {r} : mem'[q] = mem[q]
    BY <1>3, MemFields DEF ShowRequest
  <2>2. /\ submit[r] = "inserted" /\ submit'[r] = "visible"
        /\ \A q \in Requests \ {r} : submit'[q] = submit[q]
        /\ UNCHANGED <<db, pc, load, outcome>>
    BY <1>0, <1>3 DEF ShowRequest, SubmitUnchanged
  <2>3. mem[r].status = "none" /\ pc[r] = "idle" /\ load[r] = "none"
    BY <1>0, <2>2 DEF RecordInv, GoroutineInv, TypeOK
  <2>4. db[r].status = "PENDING_APPROVAL" /\ db[r].exec = "none" /\ mem[r].result = "none"
    BY <1>0, <2>2, <2>3 DEF Settled, TerminalStatuses, Outcomes
  <2>5. Settled(r)'
    BY <1>0, <2>1, <2>2, <2>3, <2>4 DEF Settled, Marked
  <2>6. QED
    BY <1>0, <2>1, <2>2, <2>5, SettledOne DEF Whole
<1>4. CASE InsertRequestFails(r) \/ LeaveToHuman(r)
  <2>1. /\ submit'[r] \in {"rejected", "answered"}
        /\ \A q \in Requests \ {r} : submit'[q] = submit[q]
        /\ UNCHANGED <<mem, db, pc, load, outcome>>
    BY <1>0, <1>4 DEF InsertRequestFails, LeaveToHuman, SubmitUnchanged
  <2>2. Settled(r)'
    BY <1>0, <2>1 DEF Settled
  <2>3. QED
    BY <1>0, <2>1, <2>2, SettledOne DEF Whole
<1>5. CASE ApproveByRule(r)
  BY <1>1, <1>5 DEF ApproveByRule, SubmitUnchanged
<1>6. CASE Decision(r)
  BY <1>1, <1>6 DEF Decision, Decide, SubmitUnchanged
<1>7. QED
  BY <1>2, <1>3, <1>4, <1>5, <1>6 DEF Submission

\* The steps of the goroutine that change memory or the row.
LEMMA SettledWrites ==
  ASSUME TypeOK, SettledInv, faults' = 0, NEW r \in Requests,
         \/ MarkQueued(r) \/ SaveQueued(r) \/ MarkRunning(r) \/ SaveRunning(r)
         \/ SaveOutcome(r) \/ SaveExecution(r) \/ PublishResult(r)
  PROVE  SettledInv'
<1>0. UNCHANGED <<submit, load, outcome>>
  BY DEF MarkQueued, SaveQueued, MarkRunning, SaveRunning, SaveOutcome, SaveExecution,
         PublishResult, SaveStatusAs
<1>1. CASE MarkQueued(r)
  <2>1. /\ \A q \in Requests : Settled(q) /\ UNCHANGED db
        /\ Goto(r, "queue", IF mem[r].status = "APPROVED" THEN "saveQueued" ELSE "acquire")
        /\ mem' = [mem EXCEPT ![r].status = IF @ = "APPROVED" THEN "QUEUED" ELSE @]
    BY <1>1 DEF MarkQueued, SettledInv
  <2>2. pc[r] = "queue" /\ mem[r].status = "APPROVED" /\ db[r].status = "APPROVED"
    BY <2>1 DEF Goto, Settled
  <2>3. mem' = [mem EXCEPT ![r].status = "QUEUED"]
    BY <2>1, <2>2
  <2>4. /\ mem'[r].status = "QUEUED" /\ \A q \in Requests \ {r} : mem'[q] = mem[q]
    BY <2>3, MemFields
  <2>5. /\ pc'[r] = "saveQueued" /\ \A q \in Requests \ {r} : pc'[q] = pc[q]
    BY <2>1, <2>2, GotoMoves
  <2>6. Settled(r)'
    BY <1>0, <2>1, <2>2, <2>4, <2>5 DEF Settled, Marked, Carrying, BeforeSlot, InSlot
  <2>7. QED
    BY <1>0, <2>1, <2>4, <2>5, <2>6, SettledOne DEF Whole
<1>2. CASE MarkRunning(r)
  <2>1. /\ \A q \in Requests : Settled(q) /\ UNCHANGED db
        /\ Goto(r, "mark", "saveRunning")
    BY <1>2 DEF MarkRunning, SettledInv
  <2>2. /\ mem'[r].status = "RUNNING" /\ \A q \in Requests \ {r} : mem'[q] = mem[q]
    BY <1>2, MemFields DEF MarkRunning
  <2>3. /\ pc[r] = "mark" /\ pc'[r] = "saveRunning"
        /\ \A q \in Requests \ {r} : pc'[q] = pc[q]
    BY <2>1, GotoMoves
  <2>4. Settled(r)'
    BY <1>0, <2>1, <2>2, <2>3 DEF Settled, Marked, Carrying, BeforeSlot, InSlot
  <2>5. QED
    BY <1>0, <2>1, <2>2, <2>3, <2>4, SettledOne DEF Whole
<1>3. CASE PublishResult(r)
  <2>1. /\ \A q \in Requests : Settled(q) /\ UNCHANGED db
        /\ Goto(r, "publish", "release")
    BY <1>3 DEF PublishResult, SettledInv
  <2>2. /\ mem'[r].status = outcome[r] /\ mem'[r].result = outcome[r]
        /\ \A q \in Requests \ {r} : mem'[q] = mem[q]
    BY <1>3, MemFields DEF PublishResult
  <2>3. /\ pc[r] = "publish" /\ pc'[r] = "release"
        /\ \A q \in Requests \ {r} : pc'[q] = pc[q]
    BY <2>1, GotoMoves
  <2>4. outcome[r] # "none"
    BY <2>3 DEF TypeOK, Saving, Outcomes
  <2>5. Settled(r)'
    BY <1>0, <2>1, <2>2, <2>3, <2>4 DEF Settled, Marked, Carrying, BeforeSlot, InSlot
  <2>6. QED
    BY <1>0, <2>1, <2>2, <2>3, <2>5, SettledOne DEF Whole
<1>4. ASSUME NEW s, NEW from, NEW to, SaveStatusAs(r, s, from, to),
             \/ s = "QUEUED" /\ from = "saveQueued" /\ to = "acquire"
             \/ s = "RUNNING" /\ from = "saveRunning" /\ to = "open"
             \/ s = outcome[r] /\ from = "saveStatus" /\ to = "saveExec"
      PROVE  SettledInv'
  <2>1. Goto(r, from, to) /\ UpdateRequestStatus(r, s) /\ UNCHANGED mem
    BY <1>4 DEF SaveStatusAs
  <2>2. /\ faults = 0 /\ \A q \in Requests \ {r} : db'[q] = db[q]
        /\ db'[r].status = s /\ db'[r].exec = db[r].exec
    BY <2>1, Accepted
  <2>3. \A q \in Requests : Settled(q)
    BY <2>2 DEF SettledInv
  <2>4. /\ pc[r] = from /\ pc'[r] = to /\ \A q \in Requests \ {r} : pc'[q] = pc[q]
    BY <2>1, GotoMoves
  <2>5. db[r].exec = "none"
    BY <1>4, <2>3, <2>4 DEF Settled, Marked, TerminalStatuses, Outcomes
  <2>6. Settled(r)'
    BY <1>0, <1>4, <2>1, <2>2, <2>3, <2>4, <2>5 DEF Settled, Marked, Carrying, BeforeSlot, InSlot
  <2>7. QED
    BY <1>0, <2>1, <2>2, <2>3, <2>4, <2>6, SettledOne DEF Whole
<1>5. CASE SaveExecution(r)
  <2>1. Goto(r, "saveExec", "publish") /\ InsertExecution(r, outcome[r]) /\ UNCHANGED mem
    BY <1>5 DEF SaveExecution
  <2>2. /\ faults = 0 /\ \A q \in Requests \ {r} : db'[q] = db[q]
        /\ db'[r].status = db[r].status
        /\ db'[r].exec = IF db[r].exec = "none" THEN outcome[r] ELSE db[r].exec
    BY <2>1, Accepted
  <2>3. \A q \in Requests : Settled(q)
    BY <2>2 DEF SettledInv
  <2>4. /\ pc[r] = "saveExec" /\ pc'[r] = "publish"
        /\ \A q \in Requests \ {r} : pc'[q] = pc[q]
    BY <2>1, GotoMoves
  <2>5. outcome[r] \in Outcomes
    BY <2>4 DEF TypeOK, Saving
  <2>6. /\ db[r].status = outcome[r] /\ db[r].exec = "none"
        /\ db'[r].status = outcome[r] /\ db'[r].exec = outcome[r]
    BY <2>2, <2>3, <2>4 DEF Settled
  <2>7. Settled(r)'
    BY <1>0, <2>1, <2>3, <2>4, <2>5, <2>6
       DEF Settled, Marked, Carrying, BeforeSlot, InSlot, TerminalStatuses
  <2>8. QED
    BY <1>0, <2>1, <2>2, <2>3, <2>4, <2>7, SettledOne DEF Whole
<1>6. QED
  BY <1>1, <1>2, <1>3, <1>4, <1>5 DEF SaveQueued, SaveRunning, SaveOutcome

\* Every step of a goroutine: without kill calls it never returns early.
LEMMA SettledExecution ==
  ASSUME TypeOK, SettledInv, faults' = 0, NEW r \in Requests, Execution(r)
  PROVE  SettledInv'
<1>1. CASE \/ MarkQueued(r) \/ SaveQueued(r) \/ MarkRunning(r) \/ SaveRunning(r)
           \/ SaveOutcome(r) \/ SaveExecution(r) \/ PublishResult(r)
  BY <1>1, SettledWrites
<1>2. CASE \/ CleanDenied(r) \/ ReleaseSlot(r) \/ AcquireSlot(r)
           \/ OpenStagedInput(r) \/ RegisterCancel(r) \/ StartProcess(r) \/ StartFails(r)
           \/ FinishProcess(r) \/ LeaveChild(r) \/ ChildLetsGo(r) \/ UnregisterCancel(r)
           \/ BeginFileOp(r) \/ RejectOp(r) \/ FinishFileOp(r) \/ CleanInput(r)
  <2>1. UNCHANGED <<submit, mem, db, load, faults>>
    BY <1>2 DEF CleanDenied, SubmitUnchanged, ReleaseSlot, AcquireSlot, OpenStagedInput,
       RegisterCancel, StartProcess, StartFails, FinishProcess, LeaveChild, ChildLetsGo,
       RunReturns, UnregisterCancel, BeginFileOp,
       RejectOp, FinishFileOp, CleanInput, WorkUnchanged
  <2>2. \A q \in Requests \ {r} : outcome'[q] = outcome[q]
    BY <1>2 DEF CleanDenied, SubmitUnchanged, ReleaseSlot, AcquireSlot, OpenStagedInput,
       RegisterCancel, StartProcess, StartFails, FinishProcess, LeaveChild, ChildLetsGo,
       RunReturns, UnregisterCancel, BeginFileOp,
       RejectOp, FinishFileOp, CleanInput, TypeOK
  <2>3. \E to :
          /\ Goto(r, pc[r], to)
          /\ \/ pc[r] = "denied" /\ to = "done"
             \/ pc[r] = "release" /\ to = "done"
             \/ pc[r] = "acquire" /\ to = "check"
             \/ /\ pc[r] \in Marked \ {"saveExec", "publish"}
                /\ to \in Marked \ {"saveExec", "publish"}
    BY <1>2 DEF CleanDenied, ReleaseSlot, AcquireSlot, OpenStagedInput,
       RegisterCancel, StartProcess, StartFails, FinishProcess, LeaveChild, ChildLetsGo,
       RunReturns, UnregisterCancel, BeginFileOp,
       RejectOp, FinishFileOp, CleanInput, Goto, Marked
  <2>4. QED
    BY <2>1, <2>2, <2>3, SettledMove DEF SettledInv
<1>3. CASE FirstCheck(r) \/ SecondCheck(r)
  <2>1. /\ \A q \in Requests : Settled(q)
        /\ UNCHANGED <<submit, mem, db, load, outcome>>
    BY <1>3 DEF FirstCheck, SecondCheck, ReturnIfKilled, SettledInv
  <2>2. mem[r].status # "KILLED"
    BY <1>3, <2>1 DEF FirstCheck, SecondCheck, ReturnIfKilled, Goto, Settled
  <2>3. \/ Goto(r, "spawned", "queue") \/ Goto(r, "check", "mark")
    BY <1>3, <2>2 DEF FirstCheck, SecondCheck, ReturnIfKilled
  <2>4. QED
    BY <2>1, <2>3, SettledMove DEF Goto
<1>4. CASE Deadline(r)
  BY <1>4 DEF Deadline, WorkUnchanged, SettledInv, Settled
<1>5. QED
  BY <1>1, <1>2, <1>3, <1>4 DEF Execution, Advance

\* Crash, restart, and the loading of rows.
LEMMA SettledProcess ==
  ASSUME TypeOK, LifecycleInv, SettledInv, faults' = 0, Crash \/ Restart \/ Serve
  PROVE  SettledInv'
<1>1. (\A q \in Requests : Settled(q)) /\ UNCHANGED db
  BY DEF Crash, Restart, Serve, SettledInv
<1>2. CASE Crash
  <2>1. ASSUME NEW r \in Requests
        PROVE  Settled(r)'
    <3>1. /\ mem'[r] = NoMem /\ load'[r] = "none" /\ pc'[r] = "idle"
          /\ submit'[r] # "inserted"
      BY <1>2 DEF Crash
    <3>2. QED
      BY <1>1, <3>1 DEF Settled, NoMem, Marked
  <2>2. QED
    BY <2>1 DEF SettledInv
<1>3. CASE Restart \/ Serve
  <2>1. ASSUME NEW r \in Requests
        PROVE  Settled(r)'
    <3>1. load'[r] \in {"failed", "recorded"} => load[r] \in {"failed", "recorded"}
      BY <1>3 DEF Restart, Serve
    <3>2. UNCHANGED <<submit, mem, pc, outcome>>
      BY <1>3 DEF Restart, Serve
    <3>3. QED
      BY <1>1, <3>1, <3>2 DEF Settled
  <2>2. QED
    BY <2>1 DEF SettledInv
<1>4. QED
  BY <1>2, <1>3

LEMMA SettledRehydration ==
  ASSUME TypeOK, LifecycleInv, SettledInv, faults' = 0, NEW r \in Requests, Rehydration(r)
  PROVE  SettledInv'
<1>0. UNCHANGED <<submit, pc, outcome>> /\ load[r] # "none"
  BY DEF Rehydration, FailInterrupted, RecordInterrupted, LoadRow, Loadable, LoadUnchanged
<1>1. pc[r] = "idle" /\ mem[r].status = "none" /\ submit[r] = "answered"
  BY <1>0 DEF LifecycleInv, RecordInv, GoroutineInv
<1>2. CASE FailInterrupted(r)
  <2>1. /\ db[r].status = "RUNNING" /\ UpdateRequestStatus(r, "FAILED") /\ UNCHANGED mem
        /\ load' = [load EXCEPT ![r] = "failed"]
    BY <1>2 DEF FailInterrupted
  <2>2. /\ faults = 0 /\ \A q \in Requests \ {r} : db'[q] = db[q]
        /\ db'[r].status = "FAILED" /\ db'[r].exec = db[r].exec
    BY <2>1, Accepted
  <2>3. \A q \in Requests : Settled(q)
    BY <2>2 DEF SettledInv
  <2>4. \A q \in Requests \ {r} : load'[q] = load[q]
    BY <2>1 DEF TypeOK
  <2>5. Settled(r)'
    BY <1>0, <1>1, <2>1, <2>2, <2>3, <2>4 DEF Settled, Marked, TerminalStatuses, Outcomes
  <2>6. QED
    BY <1>0, <2>1, <2>2, <2>3, <2>4, <2>5, SettledOne DEF Whole
<1>3. CASE RecordInterrupted(r)
  <2>1. /\ load[r] = "failed" /\ InsertExecution(r, "server restarted")
        /\ load' = [load EXCEPT ![r] = "recorded"] /\ UNCHANGED mem
    BY <1>3 DEF RecordInterrupted
  <2>2. /\ faults = 0 /\ \A q \in Requests \ {r} : db'[q] = db[q]
        /\ db'[r].status = db[r].status
    BY <2>1, Accepted
  <2>3. \A q \in Requests : Settled(q)
    BY <2>2 DEF SettledInv
  <2>4. db[r].status = "FAILED" /\ db'[r].status = "FAILED"
    <3>1. db[r].status = "FAILED"
      BY <2>1, <2>3 DEF Settled
    <3>2. db'[r].status = db[r].status
      BY <2>2
    <3>3. QED
      BY <3>1, <3>2
  <2>5. \A q \in Requests \ {r} : load'[q] = load[q]
    BY <2>1 DEF TypeOK
  <2>6. Settled(r)'
    BY <1>0, <1>1, <2>1, <2>3, <2>4 DEF Settled, Marked, TerminalStatuses, Outcomes
  <2>7. QED
    BY <1>0, <2>1, <2>2, <2>3, <2>5, <2>6, SettledOne DEF Whole
<1>4. CASE LoadRow(r)
  <2>1. /\ load' = [load EXCEPT ![r] = "none"] /\ UNCHANGED db
        /\ Loadable(r) /\ ReadBack(r)
    BY <1>4 DEF LoadRow
  <2>2. /\ \A q \in Requests \ {r} : mem'[q] = mem[q]
        /\ mem'[r].status = IF load[r] = "recorded" THEN "FAILED" ELSE db[r].status
        /\ faults = 0 /\ mem'[r].result = db[r].exec
    BY <2>1, ReadBackEffect
  <2>3. \A q \in Requests : Settled(q)
    BY <2>2 DEF SettledInv
  <2>4. load'[r] = "none" /\ \A q \in Requests \ {r} : load'[q] = load[q]
    BY <2>1 DEF TypeOK
  <2>5. mem'[r].status = db[r].status
    BY <2>2, <2>3 DEF Settled
  <2>6. db[r].status = "none" => db[r].exec = "none"
    BY <2>3 DEF Settled, TerminalStatuses, Outcomes
  <2>7. Settled(r)'
    BY <1>0, <1>1, <2>1, <2>2, <2>3, <2>4, <2>5, <2>6 DEF Settled, Marked
  <2>8. QED
    BY <1>0, <2>1, <2>2, <2>3, <2>4, <2>7, SettledOne DEF Whole
<1>5. QED
  BY <1>2, <1>3, <1>4 DEF Rehydration

\* Without kill calls, whenever no goroutine is working on a request, memory and
\* database tell the same story about it, through every crash and restart, as long
\* as SQLite refused no write (httpapi.go, executeApprovedRequest and
\* RehydrateFromStore); with MaxFaults = 0 it refuses none.
THEOREM SettledAgrees ==
  ASSUME Killers = {}
  PROVE  Spec => [](faults = 0 => SettledAgreement)
<1>1. Init => SettledInv
  BY DEF Init, SettledInv, Settled, NoMem, NoRow, Marked
<1>2. ASSUME TypeOK, LifecycleInv, SettledInv, [Next]_vars
      PROVE  SettledInv'
  <2>1. CASE faults' # 0
    BY <2>1 DEF SettledInv
  <2>2. CASE faults' = 0
    <3>1. ASSUME NEW r \in Requests,
                 Submission(r) \/ Decision(r) \/ Execution(r) \/ Rehydration(r)
          PROVE  SettledInv'
      BY <1>2, <2>2, <3>1, SettledSubmission, SettledExecution, SettledRehydration
    <3>2. CASE Crash \/ Restart \/ Serve
      BY <1>2, <2>2, <3>2, SettledProcess
    <3>3. CASE UNCHANGED vars
      BY <1>2, <3>3 DEF vars, SettledInv, Settled
    <3>4. QED
      BY <1>2, <3>1, <3>2, <3>3 DEF Next
  <2>3. QED
    BY <2>1, <2>2
<1>3. SettledInv => (faults = 0 => SettledAgreement)
  BY DEF SettledInv, Settled, SettledAgreement
<1>4. QED
  BY <1>1, <1>2, <1>3, TypeCorrect, InvariantCorrect, PTL DEF Spec

-----------------------------------------------------------------------------
(***************************************************************************)
(* Refinement.  The initial state maps to the initial state of the gate,   *)
(* and each step to one step of the gate or to none.                       *)
(***************************************************************************)
gateVars == <<Filed, Verdict, started>>

\* Without a new row, a new decision or a new start the gate stands still.
LEMMA GateStutter ==
  ASSUME started' = started,
         \A r \in Requests : db'[r].decision = db[r].decision,
         \A r \in Requests : db'[r].status = "none" <=> db[r].status = "none"
  PROVE  UNCHANGED gateVars
<1>1. Filed' = Filed
  BY DEF Filed
<1>2. Verdict' = Verdict
  BY DEF Verdict
<1>3. QED
  BY <1>1, <1>2 DEF gateVars

\* The initial state of the server is the initial state of the gate.
LEMMA GateInit == Init => Gate!Init
<1> SUFFICES ASSUME Init PROVE Gate!Init
  OBVIOUS
<1>1. Filed = {}
  BY DEF Init, NoRow, Filed
<1>2. Verdict = [r \in Requests |-> "none"]
  BY DEF Init, NoRow, Verdict, VerdictOf, AllowDecisions, AllowActions
<1>3. QED
  BY <1>1, <1>2 DEF Gate!Init, Init

\* Storing a request is filing it.
LEMMA GateFile ==
  ASSUME TypeOK, LifecycleInv, NEW r \in Requests, InsertRequest(r)
  PROVE  Gate!File(r)
<1>1. db[r].status = "none"
  BY DEF InsertRequest, LifecycleInv, RecordInv
<1>2. /\ db'[r].status = "PENDING_APPROVAL" /\ db'[r].decision = db[r].decision
      /\ \A q \in Requests \ {r} : db'[q] = db[q]
  BY DbStatus DEF InsertRequest
<1>3. r \notin Filed /\ Filed' = Filed \cup {r}
  BY <1>1, <1>2 DEF Filed
<1>4. Verdict' = Verdict
  BY <1>2 DEF Verdict
<1>5. started' = started
  BY DEF InsertRequest, SubmitUnchanged
<1>6. QED
  BY <1>3, <1>4, <1>5 DEF Gate!File

\* Committing a decision is giving the verdict.
LEMMA GateVerdict ==
  ASSUME TypeOK, LifecycleInv, NEW r \in Requests, NEW d \in Decisions, Settle(r, d),
         started' = started
  PROVE  Gate!GiveVerdict(r, "deny") \/ Gate!GiveVerdict(r, "allow")
<1>1. /\ db[r].status = "PENDING_APPROVAL" /\ db[r].decision = "none"
      /\ db' = [db EXCEPT ![r].status = DecidedStatus(d), ![r].decision = d]
      /\ db \in [Requests -> DbRecord]
  BY DEF Settle, CommitPendingDecision, TypeOK
<1>2. /\ db'[r].status = DecidedStatus(d) /\ db'[r].decision = d
      /\ \A q \in Requests \ {r} : db'[q] = db[q]
  BY <1>1 DEF DbRecord
<1>3. r \in Filed /\ Filed' = Filed
  BY <1>1, <1>2 DEF Filed, DecidedStatus
<1>4. VerdictOf("none") = "none" /\ VerdictOf(d) \in {"deny", "allow"}
  BY DEF VerdictOf, Decisions, AllowDecisions, AllowActions
<1>5. Verdict[r] = "none"
  BY <1>1, <1>4 DEF Verdict
<1>6. Verdict' = [Verdict EXCEPT ![r] = VerdictOf(d)]
  BY <1>2 DEF Verdict
<1>7. Gate!GiveVerdict(r, VerdictOf(d))
  BY <1>3, <1>5, <1>6 DEF Gate!GiveVerdict
<1>8. QED
  BY <1>4, <1>7

\* Starting the process, or the file operation, is the execution.
LEMMA GateExecute ==
  ASSUME TypeOK, LifecycleInv, NEW r \in Requests, StartProcess(r) \/ BeginFileOp(r)
  PROVE  Gate!Execute(r)
<1>1. /\ pc[r] \in {"start", "open"} /\ db' = db
      /\ started' = [started EXCEPT ![r] = started[r] + 1]
  BY DEF StartProcess, BeginFileOp, Goto, WorkUnchanged
<1>2. started[r] = 0 /\ db[r].decision \in AllowDecisions
  BY <1>1 DEF LifecycleInv, GoroutineInv, Carrying, InSlot, BeforeStart
<1>3. Verdict[r] = "allow"
  BY <1>2 DEF Verdict, VerdictOf, AllowDecisions, AllowActions
<1>4. Filed' = Filed /\ Verdict' = Verdict
  BY <1>1 DEF Filed, Verdict
<1>5. started' = [started EXCEPT ![r] = 1]
  BY <1>1, <1>2
<1>6. QED
  BY <1>2, <1>3, <1>4, <1>5 DEF Gate!Execute

\* A status write of a request that has a row leaves the gate alone.
LEMMA GateStatusWrite ==
  ASSUME TypeOK, NEW r \in Requests, NEW s \in Statuses, UpdateRequestStatus(r, s),
         db[r].status # "none", started' = started
  PROVE  UNCHANGED gateVars
BY StatusWrite, GateStutter

\* So does the insertion of an execution record.
LEMMA GateExecutionWrite ==
  ASSUME TypeOK, NEW r \in Requests, NEW e, InsertExecution(r, e), started' = started
  PROVE  UNCHANGED gateVars
BY ExecutionWrite, GateStutter

\* A step that leaves the database and the operation alone.
LEMMA GateQuiet ==
  ASSUME db' = db, started' = started
  PROVE  UNCHANGED gateVars
BY DEF gateVars, Filed, Verdict

\* Steps of a submission or a decision file, give a verdict, or stutter.
LEMMA GateSubmission ==
  ASSUME TypeOK, LifecycleInv, NEW r \in Requests, Submission(r) \/ Decision(r)
  PROVE  Gate!Next \/ UNCHANGED gateVars
<1>1. CASE InsertRequest(r)
  BY <1>1, GateFile DEF Gate!Next
<1>2. CASE InsertRequestFails(r) \/ ShowRequest(r) \/ LeaveToHuman(r)
  BY <1>2, GateQuiet DEF InsertRequestFails, ShowRequest, LeaveToHuman, SubmitUnchanged
<1>3. CASE ApproveByRule(r)
  <2>1. "ALLOW_RULE" \in Decisions
    BY DEF Decisions, AllowDecisions
  <2>2. QED
    BY <1>3, <2>1, GateVerdict DEF ApproveByRule, SubmitUnchanged, Gate!Next
<1>4. CASE Decision(r)
  <2>1. PICK d \in LocalActions : Decide(r, d)
    BY <1>4 DEF Decision
  <2>2. d \in Decisions
    BY <2>1, ConstantsAssumption DEF ConstantsAssumption, Decisions, AllowDecisions
  <2>3. QED
    BY <2>1, <2>2, GateVerdict DEF Decide, SubmitUnchanged, Gate!Next
<1>5. QED
  BY <1>1, <1>2, <1>3, <1>4 DEF Submission

\* Steps of an execution goroutine execute, or stutter.
LEMMA GateExecution ==
  ASSUME TypeOK, LifecycleInv, NEW r \in Requests, Execution(r)
  PROVE  Gate!Next \/ UNCHANGED gateVars
<1>1. CASE StartProcess(r) \/ BeginFileOp(r)
  BY <1>1, GateExecute DEF Gate!Next
<1>2. CASE SaveQueued(r) \/ SaveRunning(r) \/ SaveOutcome(r)
  <2>1. pc[r] \in {"saveQueued", "saveRunning", "saveStatus"}
    BY <1>2 DEF SaveQueued, SaveRunning, SaveOutcome, SaveStatusAs, Goto
  <2>2. db[r].status # "none"
    BY <2>1 DEF LifecycleInv, GoroutineInv, RecordInv, Carrying, BeforeSlot, InSlot,
       AllowDecisions, AllowActions
  <2>3. \E s \in Statuses : UpdateRequestStatus(r, s) /\ started' = started
    <3>1. {"QUEUED", "RUNNING"} \subseteq Statuses
      BY DEF Statuses
    <3>2. pc[r] = "saveStatus" => outcome[r] \in Statuses
      BY Counters DEF TypeOK
    <3>3. CASE SaveQueued(r) \/ SaveRunning(r)
      BY <3>1, <3>3 DEF SaveQueued, SaveRunning, SaveStatusAs
    <3>4. CASE SaveOutcome(r)
      BY <3>2, <3>4 DEF SaveOutcome, SaveStatusAs, Goto
    <3>5. QED
      BY <1>2, <3>3, <3>4
  <2>4. QED
    BY <2>2, <2>3, GateStatusWrite
<1>3. CASE SaveExecution(r)
  BY <1>3, GateExecutionWrite DEF SaveExecution
<1>4. CASE \/ CleanDenied(r) \/ FirstCheck(r) \/ MarkQueued(r) \/ SecondCheck(r)
           \/ MarkRunning(r) \/ CleanInput(r) \/ PublishResult(r) \/ ReleaseSlot(r)
           \/ AcquireSlot(r)
  BY <1>4, GateQuiet
     DEF CleanDenied, SubmitUnchanged, FirstCheck, MarkQueued, SecondCheck, ReturnIfKilled,
         MarkRunning, CleanInput, PublishResult, ReleaseSlot, AcquireSlot
<1>5. CASE \/ OpenStagedInput(r) \/ RegisterCancel(r) \/ StartFails(r) \/ UnregisterCancel(r)
           \/ RejectOp(r) \/ FinishFileOp(r) \/ Deadline(r) \/ FinishProcess(r)
           \/ LeaveChild(r) \/ ChildLetsGo(r)
  BY <1>5, GateQuiet
     DEF OpenStagedInput, RegisterCancel, StartFails, UnregisterCancel, RejectOp,
         FinishFileOp, Deadline, FinishProcess, LeaveChild, ChildLetsGo, RunReturns,
         WorkUnchanged
<1>6. QED
  BY <1>1, <1>2, <1>3, <1>4, <1>5 DEF Execution, Advance

\* Kill calls stutter: they change statuses, never verdicts.
LEMMA GateKill ==
  ASSUME TypeOK, LifecycleInv, NEW k \in Killers, Kill(k)
  PROVE  UNCHANGED gateVars
<1>1. CASE KillSaveStatus(k)
  <2>1. killer[k].pc # "idle" /\ killer[k].req \in Requests /\ KillStatus(k) \in Statuses
    BY <1>1, KillTarget DEF KillSaveStatus
  <2>2. db[killer[k].req].status # "none"
    BY <2>1 DEF LifecycleInv, KillerInv, RecordInv
  <2>3. QED
    BY <1>1, <2>1, <2>2, GateStatusWrite DEF KillSaveStatus, KillUnchanged
<1>2. CASE KillSaveExecution(k)
  <2>1. killer[k].req \in Requests
    BY <1>2, KillTarget DEF KillSaveExecution
  <2>2. QED
    BY <1>2, <2>1, GateExecutionWrite DEF KillSaveExecution, KillUnchanged
<1>3. CASE (\E r \in Requests : KillRead(k, r)) \/ KillMark(k) \/ KillClean(k) \/ KillCancel(k)
  BY <1>3, GateQuiet DEF KillRead, KillMark, KillClean, KillCancel, KillUnchanged
<1>4. QED
  BY <1>1, <1>2, <1>3 DEF Kill

\* Rehydration stutters: nothing is executed again.
LEMMA GateRehydration ==
  ASSUME TypeOK, LifecycleInv, NEW r \in Requests, Rehydration(r)
  PROVE  UNCHANGED gateVars
<1>1. CASE FailInterrupted(r)
  <2>1. "FAILED" \in Statuses /\ db[r].status # "none"
    BY <1>1 DEF FailInterrupted, Statuses, TerminalStatuses, Outcomes
  <2>2. QED
    BY <1>1, <2>1, GateStatusWrite DEF FailInterrupted, LoadUnchanged
<1>2. CASE RecordInterrupted(r)
  BY <1>2, GateExecutionWrite DEF RecordInterrupted, LoadUnchanged
<1>3. CASE LoadRow(r)
  BY <1>3, GateQuiet DEF LoadRow, LoadUnchanged
<1>4. QED
  BY <1>1, <1>2, <1>3 DEF Rehydration

\* Every step of the server is a step of the gate or a stutter.
LEMMA GateStep ==
  ASSUME TypeOK, LifecycleInv, [Next]_vars
  PROVE  Gate!Next \/ UNCHANGED gateVars
<1>1. CASE Crash \/ Restart \/ Serve \/ UNCHANGED vars
  BY <1>1, GateQuiet DEF Crash, Restart, Serve, vars
<1>2. QED
  BY <1>1, GateSubmission, GateExecution, GateKill, GateRehydration DEF Next

\* The server implements the gate: a request receives at most one verdict, and
\* its operation is executed at most once and only after an allowing verdict,
\* through crashes, lost writes and racing kill calls (httpapi.go:1704, 1390,
\* 702 and 192, automatic_decision.go:18).
THEOREM ImplementsGate == Spec => GateSpec
<1>1. Init => Gate!Init
  BY GateInit
<1>2. TypeOK /\ LifecycleInv /\ [Next]_vars => [Gate!Next]_<<Filed, Verdict, started>>
  BY GateStep DEF gateVars
<1>3. QED
  BY <1>1, <1>2, TypeCorrect, InvariantCorrect, PTL DEF Spec, GateSpec, Gate!Spec
=============================================================================
