----------------------------- MODULE Execution -----------------------------
(***************************************************************************)
(* One command under executor.Run.  The command is the leader of a process *)
(* group of its own and may leave a child behind.  Run waits for the       *)
(* leader to end and for its output to be closed, which is when nobody     *)
(* holds it any more.  When the context of the command ends, by a kill or  *)
(* by its timeout, two goroutines act at the same time: the one of         *)
(* exec.CommandContext kills the leader, and the one that Run started      *)
(* signals the group, if the leader is still there to ask for its group.   *)
(***************************************************************************)
EXTENDS Integers, Sequences

CONSTANTS
  Exits,      \* exit codes that the command may choose
  Kinds,      \* kinds of output, see Follow
  Children,   \* kinds of processes that the command may leave behind
  MaxOut      \* bound: pieces of output

ASSUME ExecutionAssumption ==
  /\ Exits \subseteq 0 .. 255
  /\ Children \subseteq {"holder", "deaf", "apart"}
  /\ MaxOut \in Nat

VARIABLES
  run,     \* progress of Run
  leader,  \* the command
  code,    \* what the command ended with, -1 if by a signal
  child,   \* a process that it started
  ctx,     \* the context of the command
  killer,  \* the goroutine that waits for the end of the context
  out,     \* the output so far
  result   \* what Run returned

process == <<leader, code, child>>
execution == <<run, process, ctx, killer, out, result>>

\* A child has the output of the command open.  It may ignore SIGTERM, or have
\* left the group.
Alive == child \in Children
Apart == child = "apart"

NoResult == [status |-> "none", code |-> -1]
Failed == [NoResult EXCEPT !.status = "FAILED"]

ExecutionInit ==
  /\ run = "none"
  /\ leader = "none" /\ code = -1 /\ child = "none"
  /\ ctx = "live" /\ killer = "none"
  /\ out = <<>>
  /\ result = NoResult

\* cmd.Start, which may fail.
StartProcess ==
  /\ run = "none"
  /\ \/ /\ run' = "waiting" /\ leader' = "alive" /\ killer' = "waiting"
        /\ UNCHANGED result
     \/ /\ run' = "done" /\ result' = Failed
        /\ UNCHANGED <<leader, killer>>
  /\ UNCHANGED <<code, child, ctx, out>>

-----------------------------------------------------------------------------
(***************************************************************************)
(* The processes.                                                          *)
(***************************************************************************)
Fork(c) ==
  /\ leader = "alive" /\ child = "none"
  /\ child' = c
  /\ UNCHANGED <<run, leader, code, ctx, killer, out, result>>

\* streamCapture.Write hands each piece on as it comes.  A "close" without its
\* "open" would be as plain as an "open" that is never closed.
Write(kind) ==
  /\ leader = "alive" \/ Alive
  /\ Len(out) < MaxOut
  /\ kind = "close" => out # <<>> /\ out[Len(out)] = "open"
  /\ out' = Append(out, kind)
  /\ UNCHANGED <<run, process, ctx, killer, result>>

Exit(c) ==
  /\ leader = "alive"
  /\ leader' = "dead" /\ code' = c
  /\ UNCHANGED <<run, child, ctx, killer, out, result>>

ChildExits ==
  /\ Alive /\ child' = "dead"
  /\ UNCHANGED <<run, leader, code, ctx, killer, out, result>>

-----------------------------------------------------------------------------
(***************************************************************************)
(* The end of the context.                                                 *)
(***************************************************************************)
EndContext(how) ==
  /\ run \in {"waiting", "returned"} /\ ctx = "live"
  /\ ctx' = how
  /\ UNCHANGED <<run, process, killer, out, result>>

\* exec.CommandContext kills the command itself, with SIGKILL.
KillLeader ==
  /\ ctx # "live" /\ run = "waiting" /\ leader = "alive"
  /\ leader' = "dead"
  /\ UNCHANGED <<run, code, child, ctx, killer, out, result>>

\* A signal to the process group.
Signaled(deadly) ==
  /\ leader' = IF leader = "alive" THEN "dead" ELSE leader
  /\ child' = IF Alive /\ ~Apart /\ (deadly \/ child # "deaf")
              THEN "dead" ELSE child

\* killProcessGroup asks for the group of the leader, which is gone once Wait
\* has collected it, and sends SIGTERM ...
Terminate ==
  /\ killer = "waiting" /\ ctx # "live"
  /\ IF leader = "reaped"
     THEN killer' = "missed" /\ UNCHANGED <<leader, child>>
     ELSE killer' = "grace" /\ Signaled(FALSE)
  /\ UNCHANGED <<run, code, ctx, out, result>>

\* ... and SIGKILL after a while, also when Run has returned.
KillGroup ==
  /\ killer = "grace"
  /\ killer' = "gone"
  /\ Signaled(TRUE)
  /\ UNCHANGED <<run, code, ctx, out, result>>

\* The goroutine goes when Wait has returned.
KillerEnds ==
  /\ killer = "waiting" /\ run \in {"returned", "done"}
  /\ killer' = "gone"
  /\ UNCHANGED <<run, process, ctx, out, result>>

-----------------------------------------------------------------------------
(***************************************************************************)
(* cmd.Wait and the result.                                                *)
(***************************************************************************)
Reap ==
  /\ run = "waiting" /\ leader = "dead"
  /\ leader' = "reaped"
  /\ UNCHANGED <<run, code, child, ctx, killer, out, result>>

\* Mutant: the end of the output is not awaited.
WaitForLeaderOnly ==
  /\ run = "waiting" /\ leader = "reaped"
  /\ run' = "returned"
  /\ UNCHANGED <<process, ctx, killer, out, result>>

\* The leader is gone by now, so that the killProcessGroup that follows finds
\* no group to kill.
WaitReturns ==
  /\ run = "waiting" /\ leader = "reaped"
  /\ ~Alive
  /\ run' = "returned"
  /\ UNCHANGED <<process, ctx, killer, out, result>>

Outcome ==
  CASE ctx = "canceled" -> [status |-> "KILLED", code |-> -1]
    [] ctx = "expired"  -> [status |-> "TIMED_OUT", code |-> -1]
    [] OTHER -> [status |-> IF code = 0 THEN "SUCCEEDED" ELSE "FAILED", code |-> code]

\* The context counts as it is now, however the command ended.
Results ==
  /\ run = "returned"
  /\ run' = "done"
  /\ result' = Outcome
  /\ UNCHANGED <<process, ctx, killer, out>>

\* What the program does by itself, once the command and its context end.
Proceed ==
  \/ KillLeader \/ Terminate \/ KillGroup \/ KillerEnds
  \/ Reap \/ WaitReturns \/ Results

\* What the command does.
Behave ==
  \/ \E c \in Exits : Exit(c)
  \/ \E k \in Kinds : Write(k)
  \/ \E c \in Children : Fork(c)
  \/ ChildExits

ExecutionTypeOK ==
  /\ run \in {"none", "waiting", "returned", "done", "lost"}
  /\ leader \in {"none", "alive", "dead", "reaped"}
  /\ code \in Exits \cup {-1}
  /\ child \in Children \cup {"none", "dead"}
  /\ ctx \in {"live", "canceled", "expired"}
  /\ killer \in {"none", "waiting", "grace", "gone", "missed"}
  /\ out \in Seq(Kinds) /\ Len(out) <= MaxOut
  /\ result.status \in {"none", "SUCCEEDED", "FAILED", "KILLED", "TIMED_OUT"}

\* A child that has the output open escaped the signals, because it left the
\* group or because Wait had already collected the leader.
Escaped == Alive /\ (Apart \/ killer = "missed")
=============================================================================
