------------------------------- MODULE Follow -------------------------------
(***************************************************************************)
(* A client follows its command (cli/request.go): `racg run' creates a     *)
(* request and waits for it, `request wait' takes up a request again, and  *)
(* `request tail' shows its output only.  All of them poll the server for  *)
(* the record of the request and for the live output, of which the server  *)
(* keeps the latest part in memory, with secrets masked.  The client       *)
(* prints what is new by its offset in the text of the last poll.          *)
(*                                                                         *)
(* Output is a sequence of pieces, which stand for any number of bytes: a  *)
(* secret is what lies between an "open" and the next "close", and masking *)
(* puts a placeholder in its place, which is as long as one piece.  The    *)
(* pieces of a text are the positions at which they were written, with a   *)
(* minus for a placeholder and 0 for bytes that nobody wrote.              *)
(*                                                                         *)
(* The server is RequestLifecycle as far as this client can see it, without*)
(* the kill that comes between two steps of a start (see there).           *)
(***************************************************************************)
EXTENDS Execution, FiniteSets

CONSTANT LiveMax   \* pieces of the output that the live buffer keeps

ASSUME FollowAssumption == LiveMax \in Nat \ {0}

VARIABLES
  mem,    \* the request in the memory of the server: status and exit code
  row,    \* what its rows say: the status, and the exit code of its execution
  cl      \* the client

vars == <<execution, mem, row, cl>>

Terminal == {"SUCCEEDED", "FAILED", "TIMED_OUT", "KILLED", "DENIED", "CANCELED"}
NoCode == -2
NoRecord == [status |-> "none", code |-> NoCode]

NewClient(step) ==
  [step |-> step,
   rec |-> NoRecord,   \* the record of the request, once it has ended
   lost |-> FALSE,     \* connectionLostAt is set
   late |-> FALSE,     \* --wait-timeout has passed
   offset |-> 0,       \* printedLiveBytes
   text |-> <<>>,      \* what was printed
   exit |-> -1]        \* the exit code, once it ends

Init ==
  /\ ExecutionInit
  /\ mem = NoRecord
  /\ row = NoRecord
  /\ cl = NewClient("create")

-----------------------------------------------------------------------------
(***************************************************************************)
(* The server.                                                             *)
(***************************************************************************)
Status(s, c) == mem' = [status |-> s, code |-> c]

\* UpdateRequestStatus and InsertExecution, which keeps the first of two results.
\* Either may be refused, which nobody looks at.  A crash between the two, or
\* between them and the memory, leaves what a refusal and a crash leave.
Saved(s, c) ==
  \E status \in {s, row.status},
     code1 \in {row.code, IF row.code = NoCode THEN c ELSE row.code} :
    row' = [status |-> status, code |-> code1]

\* The decision, by a rule or a human, is in its row before it counts.
Decide ==
  /\ mem.status = "PENDING_APPROVAL"
  /\ \E s \in {"APPROVED", "DENIED"} :
       Status(s, NoCode) /\ row' = [row EXCEPT !.status = s]
  /\ UNCHANGED <<execution, cl>>

\* handleKill.
Kill ==
  /\ \/ /\ mem.status = "PENDING_APPROVAL"
        /\ Status("CANCELED", NoCode) /\ Saved("CANCELED", NoCode)
        /\ UNCHANGED execution
     \/ /\ mem.status = "APPROVED"
        /\ Status("KILLED", -1) /\ Saved("KILLED", -1)
        /\ UNCHANGED execution
     \/ /\ mem.status = "RUNNING" /\ EndContext("canceled")
        /\ UNCHANGED <<mem, row>>
  /\ UNCHANGED cl

Expire ==
  /\ EndContext("expired")
  /\ UNCHANGED <<mem, row, cl>>

\* executeApprovedRequest.
Start ==
  /\ mem.status = "APPROVED" /\ StartProcess
  /\ Status("RUNNING", NoCode) /\ Saved("RUNNING", NoCode)
  /\ UNCHANGED cl

Finish ==
  /\ mem.status = "RUNNING" /\ run = "done"
  /\ Status(result.status, result.code) /\ Saved(result.status, result.code)
  /\ UNCHANGED <<execution, cl>>

\* Mutant: what was interrupted counts as a success.
MarkInterruptedAsSuccess ==
  IF row.status = "RUNNING" THEN Saved("FAILED", 0) ELSE UNCHANGED row

\* A request that was interrupted becomes FAILED, with a result unless it has one.
MarkInterrupted ==
  IF row.status = "RUNNING" THEN Saved("FAILED", -1) ELSE UNCHANGED row

\* After a restart the memory holds what was interrupted, what was pending, and
\* what was approved, which is not executed any more.  Its result may be
\* unreadable.  Of a command that ran nothing is seen again.
Restart ==
  /\ row.status # "none"
  /\ MarkInterrupted
  /\ \/ /\ row.status \in {"PENDING_APPROVAL", "APPROVED", "RUNNING"}
        /\ \E c \in {row'.code, NoCode} :
             Status(IF row.status = "RUNNING" THEN "FAILED" ELSE row.status, c)
     \/ /\ row.status \in Terminal
        /\ mem' = NoRecord
  /\ IF row.status = "PENDING_APPROVAL"
     THEN UNCHANGED execution
     ELSE /\ run' = "lost" /\ child' = "none" /\ ctx' = "live"
          /\ killer' = "none" /\ out' = <<>> /\ result' = NoResult
          /\ UNCHANGED <<leader, code>>
  /\ UNCHANGED cl

\* outputfilter.Redact on a part of the output, for what lies between an "open"
\* and the next "close".
Secret(k, part) ==
  \E i, j \in part :
    /\ i <= k /\ k <= j
    /\ out[i] = "open" /\ out[j] = "close"
    /\ \A m \in i .. j - 1 : out[m] # "close"

\* The piece at place i of a text is the one with i shown pieces up to it.
Text(part) ==
  LET shown == {k \in part : Secret(k, part) => out[k] = "close"}
      At(i) == CHOOSE k \in shown : Cardinality({m \in shown : m <= k}) = i
  IN [i \in 1 .. Cardinality(shown) |->
        IF Secret(At(i), part) THEN -At(i) ELSE At(i)]

\* Mutant: the buffer grows without bound.
WholeOutput == {k \in 1 .. Len(out) : run \notin {"none", "lost"}}

\* liveOutput.append keeps the tail.  Without a buffer there is no text.
Window ==
  {k \in 1 .. Len(out) : k + LiveMax > Len(out) /\ run \notin {"none", "lost"}}

\* GetLiveJobOutput takes the buffer and reads it without the lock, so that it
\* may see the length of the new buffer and the memory of the old one.
LiveTexts ==
  LET text == Text(Window)
  IN {text} \cup
     IF run = "waiting" /\ text # <<>> THEN {[text EXCEPT ![Len(text)] = 0]} ELSE {}

-----------------------------------------------------------------------------
(***************************************************************************)
(* The client.  Any of its calls may fail: the connection may be lost, the *)
(* server down or busy, and the answer with it.                            *)
(***************************************************************************)
\* Nothing but its exit code stays of a client that ended.
End(exit) == cl' = [NewClient("end") EXCEPT !.exit = exit]

\* createRequest.  The request may exist although the client does not learn it;
\* with --no-wait the client leaves it alone.
Create ==
  /\ cl.step = "create"
  /\ \/ /\ Status("PENDING_APPROVAL", NoCode) /\ row' = mem'
        /\ (\E s \in {"poll", "away"} : cl' = [cl EXCEPT !.step = s]) \/ End(1)
     \/ End(1) /\ UNCHANGED <<mem, row>>
  /\ UNCHANGED execution

\* `racg request wait'.
Resume ==
  /\ cl.step = "away"
  /\ cl' = NewClient("poll")
  /\ UNCHANGED <<execution, mem, row>>

\* The server has the request, and the deadline of the wait has not passed.
Answered == mem.status # "none" /\ ~cl.late

\* waitRequestWithOptions.  The restored connection is noticed here.
PollAnswered ==
  /\ cl.step = "poll" /\ Answered
  /\ cl' = IF mem.status \in Terminal
           THEN [cl EXCEPT !.lost = FALSE, !.step = "last", !.rec = mem]
           ELSE [cl EXCEPT !.lost = FALSE, !.step = "live"]
  /\ UNCHANGED <<execution, mem, row>>

\* An answer that refuses ends the wait: the request is not in memory, or the
\* session of the client has ended, which may happen at any time.
PollRefused ==
  /\ cl.step = "poll"
  /\ End(1)
  /\ UNCHANGED <<execution, mem, row>>

\* An error that may pass.
PollFails ==
  /\ cl.step = "poll" /\ ~cl.late
  /\ cl' = [cl EXCEPT !.lost = TRUE]
  /\ UNCHANGED <<execution, mem, row>>

\* Mutant: the timeout is looked at only while the request is pending.
GiveUpIfPending ==
  /\ cl.step = "poll" /\ cl.lost /\ mem.status = "PENDING_APPROVAL"
  /\ End(1)
  /\ UNCHANGED <<execution, mem, row>>

\* --reconnect-timeout has passed without an answer.
GiveUp ==
  /\ cl.step = "poll" /\ cl.lost
  /\ End(1)
  /\ UNCHANGED <<execution, mem, row>>

\* --wait-timeout has passed; this never cancels the request.
WaitTimesOut ==
  /\ cl.step = "poll" /\ cl.late
  /\ End(1)
  /\ UNCHANGED <<execution, mem, row>>

BecomeLate ==
  /\ cl.step \in {"poll", "live", "last"} /\ ~cl.late
  /\ cl' = [cl EXCEPT !.late = TRUE]
  /\ UNCHANGED <<execution, mem, row>>

\* What lies after an offset is printed.
Printed(text, offset) ==
  [cl EXCEPT !.text = @ \o SubSeq(text, offset + 1, Len(text)),
             !.offset = IF Len(text) > offset THEN Len(text) ELSE offset]

\* All of a text is new if it has become shorter.
Offset(text) == IF Len(text) < cl.offset THEN 0 ELSE cl.offset

\* While the request is under way, errors of the live output are passed over.
LookAnswered ==
  /\ cl.step = "live" /\ Answered
  /\ \E text \in LiveTexts :
       cl' = [Printed(text, Offset(text)) EXCEPT !.step = "poll"]
  /\ UNCHANGED <<execution, mem, row>>

LookFails ==
  /\ cl.step = "live"
  /\ cl' = [cl EXCEPT !.step = "poll"]
  /\ UNCHANGED <<execution, mem, row>>

\* Mutant: a request without a result counts as a success.
ExitCodeDefaultsToZero(rec) == IF rec.code \in 0 .. 255 THEN rec.code ELSE 0

\* requestExitCode; no result and a command that was killed are a 1.
ExitCode(rec) == IF rec.code \in 0 .. 255 THEN rec.code ELSE 1

\* The last look.
LastAnswered ==
  /\ cl.step = "last" /\ Answered
  /\ \E text \in LiveTexts :
       cl' = [Printed(text, Offset(text)) EXCEPT !.step = "report"]
  /\ UNCHANGED <<execution, mem, row>>

\* The report comes in any case; it shows the kept output if no live output was
\* printed, which is left out here.
LastFails ==
  /\ cl.step = "last"
  /\ End(ExitCode(cl.rec))
  /\ UNCHANGED <<execution, mem, row>>

Report ==
  /\ cl.step = "report"
  /\ End(ExitCode(cl.rec))
  /\ UNCHANGED <<execution, mem, row>>

-----------------------------------------------------------------------------
(***************************************************************************)
(* `racg request tail', which any error ends and which looks at the output *)
(* before it looks at the request.                                         *)
(***************************************************************************)
TailBegins ==
  /\ cl.step = "away"
  /\ cl' = NewClient("tail")
  /\ UNCHANGED <<execution, mem, row>>

TailLooks ==
  /\ cl.step = "tail"
  /\ \/ /\ Answered
        /\ \E text \in LiveTexts :
             cl' = [Printed(text, cl.offset) EXCEPT !.step = "tailPoll"]
     \/ cl' = NewClient("gone")
  /\ UNCHANGED <<execution, mem, row>>

TailPolls ==
  /\ cl.step = "tailPoll"
  /\ \/ /\ Answered
        /\ cl' = IF mem.status \in Terminal
                 THEN [cl EXCEPT !.step = "tailLast", !.rec = mem]
                 ELSE [cl EXCEPT !.step = "tail"]
     \/ cl' = NewClient("gone")
  /\ UNCHANGED <<execution, mem, row>>

TailLast ==
  /\ cl.step = "tailLast"
  /\ \/ /\ Answered
        /\ \E text \in LiveTexts :
             cl' = [Printed(text, cl.offset) EXCEPT !.step = "tailReport"]
     \/ cl' = NewClient("gone")
  /\ UNCHANGED <<execution, mem, row>>

Advance ==
  \/ Create \/ PollAnswered \/ PollRefused \/ PollFails \/ WaitTimesOut
  \/ LookAnswered \/ LookFails \/ LastAnswered \/ LastFails \/ Report
  \/ TailLooks \/ TailPolls \/ TailLast

Run == Proceed /\ run # "lost" /\ UNCHANGED <<mem, row, cl>>
Command == Behave /\ run # "lost" /\ UNCHANGED <<mem, row, cl>>

Next ==
  \/ Decide \/ Kill \/ Expire \/ Start \/ Finish \/ Restart
  \/ Run \/ Command
  \/ Advance \/ GiveUp \/ BecomeLate
  \/ Resume \/ TailBegins

Spec == Init /\ [][Next]_vars

\* A poll that fails once more changes nothing.
Retrying == cl.step = "poll" /\ cl.lost /\ ~cl.late

\* Goroutines run, a timer fires, and a client whose calls keep failing looks
\* at its clock.  Nothing is assumed about the network, which may fail all
\* retries, the users, the command and its child.
Fairness ==
  /\ WF_vars(Run \/ Finish)
  /\ WF_vars(~Retrying /\ Advance)
  /\ WF_vars(GiveUp)

FairSpec == Spec /\ Fairness

-----------------------------------------------------------------------------
\* The types of the variables; what is printed of a text is never more than the
\* live buffer may hold.
TypeOK ==
  /\ ExecutionTypeOK
  /\ {mem, row} \subseteq
       [status : {"none", "PENDING_APPROVAL", "APPROVED", "RUNNING"} \cup Terminal,
        code : Exits \cup {-1, NoCode}]
  /\ cl.step \in {"create", "away", "poll", "live", "last", "report", "end",
                 "tail", "tailPoll", "tailLast", "tailReport", "gone"}
  /\ cl.offset \in 0 .. LiveMax

\* README:131: the wait "returns the remote process exit code", and README:130:
\* the run waits "until it reaches a terminal status": a client that ends with
\* 0 saw a command that ended with 0 by itself, whatever restarts, refused
\* writes, lost answers, kills and timeouts came in between, also if the server
\* went down while the command ran or before its end was recorded, and loaded the
\* request again as FAILED.
ExitAgrees ==
  cl.step = "end" /\ cl.exit = 0 =>
    leader = "reaped" /\ code = 0

Torn == \E i \in DOMAIN cl.text : cl.text[i] = 0
NoSecret == \A i, j \in DOMAIN out : i < j => ~(out[i] = "open" /\ out[j] = "close")

\* README:130: "live combined output ... written to stdout".  If nothing had to
\* be masked, nothing is printed twice or out of order; and if all of it fits in
\* the live buffer and the last look at it succeeds, nothing is missing.  A look
\* that met an append is the exception, and so is a canceled request that a
\* restart brought back.
OutputInOrder ==
  run # "lost" /\ NoSecret /\ ~Torn =>
    /\ \A i, j \in DOMAIN cl.text : i < j => cl.text[i] < cl.text[j]
    /\ cl.step \in {"report", "tailReport"} /\ cl.rec.status # "CANCELED"
         => Len(out) > LiveMax \/ cl.text = [k \in 1 .. Len(out) |-> k]

Following == cl.step \in {"poll", "live", "last", "report"}

\* A client that follows ends when its wait timeout has passed.  It also ends when
\* the request has ended, even if the server never answers again, and when the
\* command was killed or ran out of time: only a child that escaped with the output
\* keeps Run, and the slot of the request, from returning, and only a restart after
\* a refused write makes a request wait again that was over or had begun.
WaitEnds ==
  /\ Following /\ cl.late ~> cl.step = "end"
  /\ Following /\ (mem.status \in Terminal \/ ctx # "live")
       ~> \/ cl.step = "end" \/ Escaped
          \/ mem.status \in {"PENDING_APPROVAL", "APPROVED"}
=============================================================================
