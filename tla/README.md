# A TLA+ development of racg

racg is a local approval gateway for privileged operations: a client asks a
server to run a command or to read, edit or transfer a file, a human (or a rule
a human made) approves or denies the request, the server executes it and keeps
an audit trail in SQLite.  This directory models the server, its terminal, its
approver devices and its command line client, checks the models with TLC and
proves theorems about them with TLAPS.

## 1. The system

| Component | State it keeps | Operations | Where it is hard |
|---|---|---|---|
| Request lifecycle (`internal/httpapi/httpapi.go`, `automatic_decision.go`) | `a.reqs` (in memory), `a.running` (cancel functions), `a.sem` (execution slots) | submit, decide, execute, kill, rehydrate | one goroutine per approved request, kill calls and decisions in between, each step its own critical section; crash between any two |
| Audit store (`internal/store`) | rows of `requests`, `decisions`, `executions`, `rules`, `sessions`, `auth_tokens`, `approver_devices` | unconditional status update, insert with primary key, one transaction per decision | callers discard most errors; the order of writes of different goroutines is open |
| Executor (`internal/executor`) | a process group per command | start, time out, cancel, capture output, upload, download | two goroutines kill at once; a child that outlives the command holds its output |
| Rules (`internal/rules`, `internal/application`) | always rules in SQLite and in the live engine, session rules in memory | match, add, enable, disable, delete, reload | store and engine are updated one after the other by several callers |
| Sessions, tokens, pairing (`internal/auth`) | tokens with sliding expiry and their mirrored rows, one pairing code | pair, open and end a session, issue, validate, revoke, restore | expiry against use, mirror callbacks after the unlock, attempts and lock |
| Approver devices (`httpapi/approver*.go`) | enrolment token, challenges, device keys | enrol, challenge, decide, revoke | single use of challenges, check and use in different critical sections |
| File transfers (`httpapi/transfers.go`, `cli/file.go`) | files in the transfer directory | stage, claim, verify, publish, expire, fetch | the same upload claimed twice, clean-up against use |
| Live output (`httpapi.go`, `outputfilter`) and the client that follows it (`cli/request.go`) | a bounded buffer; an offset, a deadline | append, mask, read from an offset, retry | truncation and masking against the offset of a reader, lost answers |
| Terminal (`internal/tui`), event hub (`internal/events`) | lists, selections, overlays, a decision in flight; bounded channels | publish, coalesce, redraw, select, decide, kill | dropped events, lists that change under the operator, keys typed ahead |
| File edits (`executor/patch_file.go`, `configedit`) | one file | read, modify, back up, write | concurrent edits, a write in place |
| Updates, Android app (`cli/update.go`, `apps/android`) | an installed version; a polling state | install; decide | outside of these models, see section 7 |

The HTTP handlers, the terminal and the approver API call the lifecycle
directly; the lifecycle calls the rules engine while it holds `reqsMu`, the
store inside and outside of it, the executor from the goroutine of the request,
and publishes events after each step.  The client sees the lifecycle through
two calls it repeats: the record of its request, and its live output.

What makes each component correct:

- lifecycle: a request gets one decision; its operation is begun at most once
  and only under a stored allowing decision; at most `max_concurrency`
  operations run; what is RUNNING is worked on; what is approved finishes;
  memory and audit agree when nobody is working; a restart never executes again;
- rules: what the live engine allows is what the store holds, a disabled or
  deleted rule does not return, a session rule does not outlive its session;
- tokens and pairing: a revoked or expired token does not come back, not even
  after a restart; a code is used once and guessing locks;
- approver devices: a challenge authorises one call, a used enrolment token
  enrols nobody else, a revoked device is silent;
- transfers: an upload serves one request, nothing but its age takes the bytes
  of a waiting request, and what is over leaves no copy behind unless the file
  system refuses the removal or the server dies before it;
- client: the exit code is the one of the command, the output it prints is in
  order and complete while it fits, and the wait ends;
- terminal: what happened is shown in the end, a decision goes to the request
  that is shown, and what was typed before a decision of the page of requests
  starts no other one there;
- edits: only a write in place leaves a file cut short, the original is saved
  before it is replaced and only edits of the same second spoil what was saved,
  and creating replaces nothing.

## 2. Modules

| Module | What it is |
|---|---|
| `RequestLifecycle` | The life of a request in one server: the submission handler, the decision, the goroutine, kill calls, crash and restart. |
| `ApprovalGate` | What the gateway promises, without saying how: a request is filed, gets one verdict, and is executed at most once after an allowing one. |
| `RequestRefinement` | The refinement mapping from `RequestLifecycle` to `ApprovalGate`. |
| `RequestLifecycleProofs` | Proofs of type correctness, of the safety properties, and that the lifecycle implements `ApprovalGate`. |
| `AgentSessions`, `AgentSessionsProofs` | Pairing codes, sessions and tokens of agents with their mirrored rows, and proofs. |
| `LiveRules`, `LiveRulesProofs` | Always rules in the table and in the live engine, and proofs. |
| `ApproverDevices`, `ApproverDevicesProofs` | Enrolment, challenges and signed calls of phones, and proofs. |
| `Transfers`, `TransfersProofs` | Staged uploads, claims, the cleanup, installing, downloads and the files of the client, and proofs. |
| `StagedUploads` | What the server promises about staged bytes: they serve one request, are used once after its approval, and stay while it waits, unless a kill took it up or they are older than a day. |
| `TransfersRefinement` | The refinement mapping from `Transfers` to `StagedUploads`. |
| `Execution` | One command under `executor.Run`: the process and a child, the end of the context, the result. |
| `Follow`, `FollowProofs` | Composes `Execution` with the record of its request, the live output, and a client that follows both, and proofs. |
| `Console`, `ConsoleProofs` | The terminal interface and the events that make it read again, and proofs. |
| `FileEdits`, `FileEditsProofs` | Concurrent patches and configuration edits of one file, and proofs. |
| `MC...` | The instances TLC checks, one module for each of the above. |

`Follow` EXTENDS `Execution`; the other models share no variable.  The code
couples them loosely.  A token gives a call its session, which the lifecycle
leaves out because it does not look at who asks.  The engine answers whether a
rule approves a request, and a device or the terminal brings a decision, which
the lifecycle leaves open (`ApproveByRule`, `LocalActions`).  `Transfers`,
`Follow` and `Console` contain the statuses of a request as far as they read
them.

### RequestLifecycle against the code

One action is one critical section of `reqsMu`, `runningMu` or `transferMu`,
one statement SQLite executes, or one call into the operating system; between
two of them every other goroutine may run.

| Variable | In the code |
|---|---|
| `mem[r]` | `a.reqs[r]`: status, decision, and of the result its status or its message |
| `db[r]` | the rows of `requests`, `decisions` and `executions` with that id |
| `submit[r]` | how far the `POST /v1/requests` handler has come |
| `pc[r]`, `outcome[r]` | the goroutine of `executeApprovedRequest` and its `rr.Status` |
| `running`, `ctx[r]` | the keys of `a.running` and the state of the command's context |
| `sem` | the tokens in the channel `a.sem` |
| `staged` | the staged stdin files that exist |
| `killer[k]` | a call of `killInternal`: where it is, its target, and the status it read |
| `up`, `load[r]` | whether the process serves, is down or rehydrates, and the rows left to load: at most `MaxLoad`, the limit of 5000 rows made small |
| `started[r]` | history: how often the operation was begun |

The program counter of the goroutine goes through `spawned` (first check for a
kill), `queue`, `saveQueued`, `acquire`, `check` (second check), `mark`,
`saveRunning`, `open` (the switch on the operation), for a command `register`,
`start`, `exec`, `unregister` and `clean`, and then `saveStatus`, `saveExec`,
`publish` and `release`.  `Settle` is the part that `approveByRule` and
`decideInternalWithSource` share: both hold `reqsMu` from the check of the
status to the write of the record, with the transaction of the store inside.
`Refused` is a write SQLite refuses; the callers discard that error.  A command
whose leader has ended while a child has its output open is `held`: `Cmd.Wait`
has no `WaitDelay`, and `Run` returns when the child lets go (`ChildLetsGo`).
`Rehydrated` is what a row becomes in memory; an error of `GetDecision` or
`GetExecution` loads the request without that part, as the code does.

Data the properties do not tell apart is abstracted: operations are commands
with or without stdin and file operations, a result is its status or its
message, events are left out.  Rules enter as the choice between
`ApproveByRule` and `LeaveToHuman`, and the decisions of the terminal and of
approver devices are both `Decide`, as they are one function in the code.

### AgentSessions against the code

One action is one critical section of the pairing code or of the token manager
together with the sink calls the manager makes inside it, or one statement of
SQLite outside of it.  One call of `/v1/session/open` mints one session with one
token, so that the call, its session and its token are one agent `a`.

| Variable | In the code |
|---|---|
| `pairing` | `auth.Pairing`: its code (a number), deadline, `used`, `failed` |
| `pc[a]` | how far `handleSessionOpen` has come: `Consume`, `InsertSession`, the locked part of `Issue`, its sink call |
| `tokens[a]`, `ttl[a]` | `TokenManager.tokens`: the deadline of the token and by how much a use moves it; a restored token has no `ttl` and does not slide |
| `issued[a]` | the claims `IssueWithRole` hands to the sink after its unlock |
| `rows[a]` | the table `auth_tokens` |
| `started`, `ended`, `ending` | the table `sessions`, and revocations between the manager and that table |
| `codeOf`, `wrongs`, `active`, `revoked`, `stale` | history the properties speak about: which code opened which session, wrong guesses, last use, revocations, rows that missed a change |

Verify, RevokeSession and ExtendSession call the sink while they hold the lock
and are one step with it; Issue calls it after the unlock and is two steps.
The sink discards errors (`WriteRow`).  Left out: roles; `lock_first_client_addr`,
which every call checks again without changing state once it is set; and
`TokenManager.Revoke` and `Extend`, which no handler calls.

### LiveRules against the code

| Variable | In the code |
|---|---|
| `rows[r]` | the row of the rule in the table `rules`: none, enabled, disabled, or deleted again |
| `always` | `Engine.always`, as a set: a reload between the two steps of a decision lets the list hold a rule twice, and nothing but a reload takes it out |
| `grant[r]` | whether the decision with this rule has committed it, and has installed it |
| `page` | the rules page of the terminal: the step of its operation, the rule, and the rows the reload has read |
| `cli` | an `racg rules presets install` under way: presets still to do, and their state in its listing |
| `adrift`, `clean` | history: rules whose changes crossed, and whether the current reload was alone |

The operations of the page run on one goroutine, those of decisions each on
their own, the command line in a process of its own.  A decision that makes
several rules stores them in one transaction and installs them in a loop; the
model lets each be stored alone, which allows more.  A restart is one step: the
command line changes the table before or after it.  Left out: rules of sessions,
which no table holds, and the expiry of timed grants.

### ApproverDevices against the code

| Variable | In the code |
|---|---|
| `registry[d]` | the row of the table `approver_devices`: the approval key, the key for reading, `enabled`; a key is the generation that made it |
| `token`, `unexpired` | `approverPairingToken` and whether its time is still to come; tokens are numbered as minted |
| `announced` | whether `serve` printed its QR code |
| `challenge[h]` | an entry of `approverChallenges` |
| `calls[c]` | a call under way: its kind, device, keys, challenge, token, and its step |
| `due`, `retired`, `spent`, `calls[c].dead` | history: the token that ought to be valid, tokens that are over, calls each challenge authorised, and whether the call arrived too late to succeed |

A pairing takes four steps (the token, the challenge with the signature, the
upsert of the row, the burn of the token), a signed call two (the row with the
signature, the challenge) and then its effect.  Nothing is locked from one to the
next.  The signature itself is the test that the key of the call is the one in
the row.  What an `act` call does is modelled where it takes effect.

### Transfers against the code

| Variable | In the code |
|---|---|
| `stage[u]`, `bin[u]`, `meta[u]` | the stage call, and the two files of an upload with their age and the claim |
| `doomed` | metadata files found old by a cleanup that has yet to remove them |
| `lock` | `transferMu` |
| `req[r]`, `row[r]`, `owns[r]` | the steps of a request that touch files, its stored status, and the upload it claimed |
| `kill[r]` | a kill call on the request: it has read the status (`KillLooks`), marked it (`KillMarks`), stored it (`KillSaves`) |
| `removing` | staged files about to be removed: for which request, data or metadata, by its own goroutine or by a kill |
| `target` | the file that uploads install and downloads copy |
| `artifact[r]` | `download-ID.bin` and `download-ID.json` |
| `known` | whether a finished request is in memory, which the download call needs |
| `client[r]`, `local[r]` | `racg file download`: its step, `--force`, and the local file |
| `swept`, `killed`, `spared` | history: what the cleanup took, what a kill marked, and the requests whose files a removal left there, by an error or by a crash |

`cleanupUploadForOp` follows the stored decision, the kill or the execution as
steps of its own: one `os.Remove` for the data and one for the metadata, each of
which may fail (`Remove`).  A crash (`Dies`) falls between any two of them, and
between the rename that installs an upload, the removal of its metadata and the
end of its request; the next start reads the requests from `row` (`Reloaded`).
A request that a kill marks between the check of the goroutine and its mark is
executed here as it is in `RequestLifecycle`.

The statuses follow `RequestLifecycle` without its slots, which do not touch
files.  `old` stands for the 24 hours; a file that is old may be removed at any
moment from then on.  Hashes are the identity of the bytes: an upload whose
bytes were exchanged has another name.

### Execution and Follow against the code

| Variable | In the code |
|---|---|
| `run`, `result` | how far `Executor.Run` has come and what it returns; `lost` when the server died |
| `leader`, `code`, `child` | the command, its exit code, and a process it leaves behind: one that holds the output, ignores SIGTERM (`deaf`), or left the process group (`apart`) |
| `ctx`, `killer` | the context of the command, and the goroutine that signals the group |
| `out` | what was written so far, as kinds of pieces |
| `mem` | the record of the request in memory: status and exit code |
| `row` | the rows of the request: status and the exit code of its execution; SQLite may refuse each write (`Saved`) |
| `cl` | the client: its place in the loop, whether its connection is lost and its deadline passed, the offset, what it printed, its exit code |

`exec.CommandContext` kills the leader and `Wait` collects it while the other
goroutine is about to ask for its group (`KillLeader`, `Reap`, `Terminate`).
`Wait` returns when nobody holds the output.  `Window` is the tail the live
buffer keeps and `Text` what masking makes of it; a piece of output is any number
of bytes, and a placeholder counts as one.  `LiveTexts` holds also what a reader
sees that met an append without the lock.  `Restart` loads the request from `row`:
what is RUNNING there comes back as FAILED with the exit code of its execution
row, if it has one, and what is still PENDING_APPROVAL there waits for a decision
again.  When its process is lost the request is not executed a second time.

### Console against the code

| Variable | In the code |
|---|---|
| `status`, `unsaid` | the requests of the API, and those whose event is not published yet |
| `channel`, `signal`, `redraw` | the events in the channel of the subscriber, the coalescer's dirty signal, the queued redraw |
| `hidden`, `pendingIDs`, `current`, `selectedPending`, `details`, `cache` | the filter, the list of pending requests with its highlighted row, the remembered selection, the request in the details pane, and the cached text |
| `jobList`, `selectedJob`, `header`, `activeJob` | the list of jobs, the remembered selection, and of the job page its header and the request it was opened for |
| `page`, `visible`, `closer`, `scopeOf`, `autoSwitch` | the page and the overlays |
| `inFlight`, `guard`, `typed` | `decisionInFlight`, the time until `decisionGuardTil`, and the input that waits in the queue of the terminal: deciding, opening a scope, or saving one; with `ahead` for what was made before the last decision of the page started, and its age |

Input is made at any time, whatever is on the screen, and meets what is there when
it is taken: the page of requests starts a decision or opens a scope with it if
it is not too old, an open scope is saved by it, everything else ignores it.  The
save of a scope decides at once, sets no guard and heeds none (`SaveScope`), as
in the code.  `Pages` and `Closable` are the pages and the overlays of an
instance; the run has all of them.  One action is one callback of the event loop.
`Publish` is the API goroutine,
`Receive` and `Take` the goroutines of the event queue.

### FileEdits against the code

| Variable | In the code |
|---|---|
| `path`, `data[i]`, `fd[e]` | the inode the name stands for, what each inode holds, the inode an edit has open |
| `step[e]`, `seen[e]`, `creating` | how far an edit has come, what it read, and whether it found no file |
| `named[e]`, `backups[s]`, `second` | the second in the name of a backup, the backups, the clock; `os.WriteFile` truncates a backup (`OpenBackup`), then writes it (`WriteBackup`), and a full disk or a crash in between leaves it cut short (`cut`) |
| `hurt`, `crashes` | history: a patch was cut short or was not alone with the empty file |

One action is one system call.  A content is the set of edits it holds and
whether the rest of the file is there, so that lost updates and lost text are
seen apart.

## 3. Runs

`CHECK_DEADLOCK FALSE` is set in the runs whose system may stop: every request
is answered and finished, the clock has reached its bound, every edit is over.
The terminal never stops, and its runs check for deadlock.

| Run | Bounds | Shows |
|---|---|---|
| `lifecycle` | one slot; two commands with staged stdin that a human approves and one kill call at a time; or one of them with two kill calls, two crashes, one refused write (`AloneOrUndisturbed`) | `SlotBound`; `NoOrphanRunning`, `DoneIsTerminal`: no interleaving leaves a request RUNNING without a goroutine, or unfinished after it; `AtMostOneStart`, `StartedOnlyIfAllowed`, `DecisionAgreement`, the refinement `GateSpec`. |
| `lifecycle_live` | one command, one file operation, one slot, one crash | `ApprovedFinishes` under fairness: unless the server crashes or a child keeps the output of a command for ever; `SettledAgreement` of memory and audit. |
| `lifecycle_kill_live` | one command which need not end and may leave a child, two kill calls | `ApprovedFinishes` while kill calls race the execution, with the same exception. |
| `sessions` | two agents, three codes, two wrong guesses burn a code, three ticks, one crash, one refused write | `CodeOpensOne`, `GuessesBounded` while open calls race for codes; `TokensHaveSessions` when the insert of the session is refused; `RowsMirror`, `IdleTokensExpire`, `RevocationHolds` through use, expiry, extension, revocation and a restart. |
| `rules` | two rules of decisions or the page, two presets; refused statements and restarts without bound | `LiveAgrees` and `GrantedFirst` through every interleaving of decisions, page, command line and restarts. |
| `devices` | one phone set up twice, once with a key for reading; two calls at once, three challenges, two tokens; restarts and refused statements without bound | `ChallengeOnce`, `RetiredTokenRefused`, `MintedStaysValid`, `RevokedStaysSilent`. |
| `transfers` | one upload, a command and two installing requests that claim it; or one download (`OneDirection`); crashes, refused writes and failing removals without bound | `OneOwner`, `WaitingHasBytes`, `StagedCopyRemoved` (the copy goes unless a removal failed or a crash came first), the refinement `UploadSpec`, `DownloadReady`, and `KeepsLocalFile` on the side of the client. |
| `follow` | one command with two exit codes, one child, one piece of output, one client that may be started again; restarts and refused writes without bound | `ExitAgrees`, also when the request comes back from its rows, and under fairness `WaitEnds`. |
| `follow_output` | one command with three pieces of output, secrets among them, of which two are kept | `TypeOK`, `OutputInOrder`. |
| `console` | two requests, a channel of one event, one tick until input is stale, two inputs that wait, a filter that hides one request; every page and overlay (`Explored`) | `StaleListWakes`, `DecidesWhatIsShown`, `TypedAheadDecidesNothing`, `TypeOK`. |
| `edits` | any three of two patches and three edits of a configuration within two seconds, and any four within one (`SomeAtOnce`); two of the edits save a backup, two may create the file, one is of JSON; one crash, failing writes without bound | `CutShortByPatchesOnly`, `BackupHoldsOriginal`, `CreateNeverReplaces`. |
| `finding_killed_runs` | one command, one kill call | a request marked KILLED or CANCELED is executed (section 5). |

Four runs have a CONSTRAINT, defined in their MC module: TLC looks at the states
that satisfy it and at their successors.  Each takes the cases named above one at a
time, which would otherwise be explored in every combination; none cuts what
happens within a case.

Why the bounds are enough:

- Requests of the lifecycle interact only through the slots, and the status of a
  request and its kill calls only through that request.  Two requests and one
  slot are a full queue; two kill calls meet each other and the goroutine at
  every pair of steps (a third only repeats what one of them does); the second
  crash meets the rehydration of the first and a request decided after it; one
  refused write makes memory and database differ, and a crash after it reveals
  the difference.  Each kill call may be repeated, so their number is the number
  of concurrent calls.
- Agents meet only at the pairing code, so two of them race for it; a third code
  is one generated while a call is under way and one after the restart; a
  lifetime of one tick and three ticks let a token be used, expire, and be found
  expired after the restart.
- With two rules, one is on its way while the page works on the other.
- Phones meet at the enrolment token, and a call carries its own device; two
  generations of one phone compete for one row and one token as two phones would
  for the token.  Two calls at once are two copies of one call, or a call and
  what overtakes it; the third challenge lets a third call follow, and the
  second token replaces the first.
- One upload is enough for claims to race, three requests to take turns with it.
  Downloads and uploads share no file and no request, so that the run takes one
  or the other.
- Three pieces are a secret (`open`, `close`) and one more; a buffer of two
  drops the oldest.  What is printed does not decide the exit code, so that
  `follow` needs one piece of output.  A client that takes up its request again
  begins anew, so that one client stands for many.
- Two requests are one that is shown and one that takes its place, in either
  order; a channel of one is full after one event; a second input that was typed
  ahead is there when the first has been handled.  Two inputs wait while nothing is
  filtered, no job is opened and no request has ended, so that the second one finds
  the next request; the pages and overlays that have no part in decisions are opened
  over one request.
- Two edits of each kind meet each other and the two of the other kind.  Two that
  save a backup share a second while one of them truncates it, writes it or is cut
  off; the second one separates them; the crash may hit any of them.

Bounds by name: `MaxCrashes`, `MaxFaults` (crashes, refused writes), `MaxTime`,
`MaxCodes` (ticks, codes generated), `MaxTokens` (enrolment tokens), `MaxOut`
(pieces of output), `MaxTyped` (inputs that wait), `MaxSeconds`.  `LiveMax`,
`MaxLoad`, `HubSize` and `MaxAge` are limits of the code, made small.

Fairness of the lifecycle (`Fairness`): each step of the goroutine that depends
on nobody else is weakly fair, because the Go scheduler runs every ready
goroutine and the calls it makes return; taking a slot is weakly fair, because a
channel send proceeds when there is room and each request takes a slot once; the
deadline is weakly fair, because the command has a timeout (`timeout_sec`, or
`default_timeout_sec` when that is not positive); and a command that was sent
SIGKILL ends, alone or leaving a child that has its output.  A command left alone
need not end, and nothing makes a child let go: `Wait` has no `WaitDelay`, and
the group of a leader that was collected is not found any more, so that the
request stays RUNNING with its slot (`TimeoutEnds`, section 5).  `ApprovedFinishes`
therefore has the premise `ChildrenLetGo`, of all requests, because one that is
held keeps the slot others wait for.  Nothing is assumed of clients, humans, kill
calls or restarts.

Fairness of the client (`Follow!Fairness`): the goroutines of `Run` go on, the
client goes on, and a client whose calls fail all the time finds its reconnect
timeout passed.  Nothing is assumed about the network, the users, the command
and its child.  `WaitEnds` names its exceptions: a child that escaped with the
output (`Escaped`), and a request that a restart after a refused write made wait
again.

## 4. Proofs

`TypeCorrect` (`RequestLifecycleProofs`) proves `TypeOK` for every number of
requests, kill calls, slots, crashes and refused writes.  `TypeOK` holds two
facts that are not types and are needed to type the next state: a kill call
under way has a target, and a goroutine past the execution has a status to
store.  The type invariants of the other models are proved as well; those of
`AgentSessions`, `LiveRules`, `Transfers` and `FileEdits` are not repeated by a
run.

The safety properties of the lifecycle follow from `LifecycleInv`, which is
needed because none of them is inductive.
`AtMostOneStart` needs that a goroutine before the start has not begun the
operation (`BeforeStart`), and that a request which can still be decided has no
goroutine and was never begun; the latter holds because the decision row is
written in the same transaction that consumes the pending status, and because
`started` implies a stored allowing decision.  `NoOrphanRunning` needs that a
request in memory that is pending has no goroutine, and that rehydration only
touches requests without one.  `DecisionAgreement` needs that a request is shown
in memory only after its row exists, that a kill call works on a record that is
in memory, and that a row is loaded only when its submission has ended.  One
lemma per action shows which part of the view of one request it changes
(`OneRequest`, `GoroutineStep`, `QuietStep`, `KillStep` carry the frame).

`SlotsCorrect` and `SlotsBounded`: `SlotStep` shows that each step adds a slot
holder exactly when it takes a token and removes one exactly when it gives one
back; the cardinality lemmas of the library do the rest.

`ImplementsGate`: the initial state maps to the initial state of
`ApprovalGate`, and each step to `File` (storing the request), `GiveVerdict`
(committing the decision), `Execute` (starting the process or file operation)
or a stutter.  The mapping reads the database only, so that a crash, which
loses everything else, stutters.

`SettledAgrees` is about servers without kill calls (`Killers = {}`, an
assumption of the theorem; with kill calls the property is false) and says that
`SettledAgreement` holds until SQLite refuses a write; the run has neither.  Its
invariant `Settled` follows the row along the goroutine: what the row says at
each program counter, that a row that is not finished has no execution, and that
rehydration fails the row before it writes the execution.  From it follows that
without kill calls neither check of the goroutine returns early.

The proofs assume `ConstantsAssumption`: finitely many requests, at least one
slot, and natural bounds.

`AgentSessionsProofs`.  `SessionsInv` has two parts.  `CodesInv` says of the
current code what was done with it: no later code exists, an unused one opened
nothing, and its wrong guesses are those it counts; a code that is replaced
keeps its history, so that both code properties become invariants.  The other
part says of each agent how progress, session, token and row fit together: no
token before the session is stored, no row before the token is issued, row and
token equal unless stale, both at most `TokenTTL` after the last use.  Every
step changes one agent (`OpenStep`, `TokenStep`) or takes down or restores all
of them (`ServerStep`); `OtherAgents` is the frame.  It assumes that lifetimes
and limits are natural numbers and that a code lives, and can be guessed, at
least once.

`LiveRulesProofs`.  `LiveAgrees` alone is not inductive: a reload installs rows
it read before and a decision a rule it committed before.  `ReadAgrees`,
`FlightAgrees` and `AddAgrees` say that these are still what the table holds,
or the rule is adrift; `OnTheWay` does the same for `GrantedFirst`.  It assumes
only that rules have ids of their own.

`ApproverDevicesProofs`.  `ChallengeInv` adds to `ChallengeOnce` that a challenge
which can still be used authorised nothing.  `TokenInv` carries both properties of
tokens: a valid token is not retired, a pairing that came too late is not past its
check, and a pairing past its check holds the token that ought to be valid, if
there is one, so that what it erases is its own.  `SilentInv` says that no row
entitles a call that came too late; a row that begins to do so forgives the call
(`Revive`), which is the exception `RevokedStaysSilent` names.  `Presented`, that
calls present minted tokens, is needed to type the retired ones.  Assumed is only
that `NoKey` is no generation and that modern generations are generations.

`FileEditsProofs`.  `BackupInv` says that an edit before its backup has no name for
one (`NamesKnown`), so that the read of one edit does not disturb the backup of
another; and that a backup is empty, or holds what an edit of its second read,
unless two of them read different things (`SavedOrShared`).  From it follows that a
write which ends puts there what every other edit of the second read, or makes the
exception of `BackupHoldsOriginal` true for them, and that only an edit that is
saving, or was cut off while it did, leaves it empty or torn.  `CutInv` is
what `CutShortByPatchesOnly` rests on: the inode an edit makes is in use only
after the edit has come that far (`OwnInode`), a temporary file that is filled is
as whole as what was read, and until a patch is hurt one patch at a time has the
file empty (`Alone`), every file that is cut short is empty because of it
(`CutByPatch`), and all edits work on complete versions (`SeenWhole`).  Assumed is
that patches and configuration edits have names of their own.

`TransfersProofs`.  None of the properties of transfers is inductive alone.  `Inv`
adds what ties the upload to its owner (`Ownership`): what is owned was staged, a
request on its way owns something and one that has not asked owns nothing, and
once a claim is written the metadata say so or are gone (`OwnedIsClaimed`); two
owners would both have read metadata that were not claimed.  `RowsFit` compares the
request with its row, `RemovalsFit` says that files are removed only for owners
that are over or were killed, so that they are not those of a request that waits.
`PairsAreWhole` says that data come first and metadata last, so that only the
cleanup leaves metadata without data; `ClaimingHasBytes` and `SavedHasData` carry
`WaitingHasBytes` and `DownloadReady` over the steps in between.  `CopiesGo` is
`StagedCopyRemoved` from the moment the end of a request is decided, and
`HalfRemoved` says that a removal which has come to the metadata has removed the
data: with both, the last `Remove` leaves nothing, and what an error or a crash
spared is remembered (`spared`).  Assumed is that `None`, uploads, requests and a
file of somebody else are different things, and that a request has one kind.

`ImplementsStagedUploads`.  The bytes of an upload are here while both its files
are, and a request serves its upload from the moment its claim is written.  Each
step of one request, each step of the cleanup and the crash is a step of
`StagedUploads` or a stutter.  The invariant is needed at three places: a claim
takes effect for bytes that are here or have expired (`ClaimingHasBytes`) and are
nobody else's (`OneOwner`); a stage call that ends has its data (`PairsAreWhole`);
and files are removed only for a request that is over or that a kill marked
(`RemovalsFit`).  A request waits as long as its row is pending, since a restart
takes it up again; otherwise its own step counts.  The bytes may outlive it:
`StagedUploads` does not promise when they go, which `StagedCopyRemoved` does as far
as the code keeps it.  The metadata of an upload that the cleanup removes while a
claim is between its read and its write come back with the claim: the promise
admits that for expired uploads and no others.

`FollowProofs`.  `ExitAgrees` rests on `ZeroIsTrue`: a result, a record, a row
or an answer that says 0 is from a command that ended with 0, so that a request
which a restart loads from its row as FAILED does not report another's 0; together
with `ProcessesOfRun` and `RunOfRecord`, which say how far the command is when the
record is so far, with `RowOfRun`, which says that a request whose row is pending
has not run, and with `EndIsSeen`.  `OutputInOrder` rests on `PrintedSoFar`:
what was printed is increasing and was written by now, and while the offset of
the client has not reached the limit of the buffer nothing beyond the offset was
printed, so that what the next answer adds is later.  Assumed are a buffer of at
least one piece and what `Execution` says of exit codes and children.

`ConsoleProofs`.  `Shown` says that the selection and the details are those of the
highlighted row, or that there is no row, and `CacheHolds` that the cached
details are those of the request they are kept for; `DecidesWhatIsShown` needs
both, after every refresh.  `NavHolds` says that the scope overlay has its
request and that the question about a kill is on the page of a job.
`DecidingHolds` is what `TypedAheadDecidesNothing` rests on: the age of input that
is older than a decision of the page and the rest of the guard exceed
`maxInputEventAge` together, which time keeps true, so that when the guard has
ended the input is stale.  It holds for input of every kind, made under every page
and overlay, and nothing of it holds for a scope that is saved, which the property
leaves out because the code does (section 5).  `StaleListWakes` is inductive with
these, for every size of the channel.  Assumed is that there are the pages
`pairing` and `dashboard` and the scope overlay, and no pages and overlays but those
of the interface; that requests are the numbers from 1, finitely many; that the
limits are natural numbers; and that the filter may hide nothing and hides
requests.

In `Console` and `Follow`, a set of numbers is put in order by rank: at place i is
the member with i members up to it (`OldestFirst`, `Text`).  `SelectSeq` and
`SortSeq` are recursive or undefined for the prover; `Places` proves that every
place has its member.  The lemma is stated in both proof modules.

Only model-checked: `ApprovedFinishes` and `WaitEnds`, because liveness under
fairness is out of reach of the prover.  Every other property of a passing run is
a theorem.

## 5. Where documentation and code disagree

With a run of its own:

- `docs/plans/2026-02-10-racg-design.md:52` promises that a request killed
  before it runs "will not be executed".  The goroutine checks for KILLED and
  writes RUNNING in two critical sections, and does not check for CANCELED
  (`KilledIsNotRun`, `finding_killed_runs`).

Stated in the modules; TLC finds each violated when a configuration names it as an
invariant (`TimeoutEnds` as a property under `FairSpec`), with constants like those of
the runs of that module:

- `design.md:38` says "Timeouts are enforced per execution", "producing terminal
  status `TIMED_OUT`".  `Cmd.Wait` waits for everybody who has the output open;
  when the command has ended and left a child with it, the deadline signals
  nobody, and the request stays RUNNING with its slot (`RequestLifecycle!TimeoutEnds`).
- `README.md:133` says of stdin that RACG "removes the staged copy after denial,
  cancellation, or execution".  The removal follows what ends the request as a
  step of its own, its errors are discarded, and no start looks for copies that
  were left: a server that dies in between keeps the copy until the cleanup finds
  it older than 24 hours (`Transfers!StdinCopyRemoved`).
- `README.md:138` says that an edit "writes a backup next to an existing file by
  default", and `configedit_test.go:35` expects it to hold what the edit replaced.
  Backups are named after the second and written in place: another edit of the
  same second truncates the backup of one that is done, and a full disk or a crash
  then leaves it so (`FileEdits!DoneIsBackedUp`).
- `RequestLifecycle!QueuedWaitsForSlot`: `docs/agent-quickstart.md:257`
  describes QUEUED as waiting for a slot.  After a restart such a request is
  loaded and never dispatched.
- `RequestLifecycle!ExecutionAudited`: `README.md:3` says execution is audited.
  A kill call that loses the race against the start leaves an execution row
  "killed before start", and the row of the real execution is refused by the
  primary key (`httpapi.go:1638`).
- `AgentSessions!RevokedStaysOut`: `server_auth_tokens_persistence_test.go:149`
  asks that a restarted server does not accept a revoked token.
  `IssueWithRole` stores the row after its unlock: a revocation in between
  deletes a row that is not there yet.
- `LiveRules!DeletedStaysDeleted`: `README.md:223` says that changes on the rules
  page take effect in the live engine immediately.  A decision installs its rule
  after it released its lock: a deletion and its reload in between are overtaken,
  and the deleted rule stays live until the next reload or restart.  The
  converse happens too: a reload that read the rows before the commit drops the
  rule just granted.  And what `racg rules disable` and `presets install` write
  reaches a running server only with the next reload.

Behaviour that the models contain and that a reader of the documentation would
not expect:

- `design.md:285` says the server applies a patch "atomically via write-to-temp +
  rename"; `patch_file.go:41` writes in place.  An edit of a configuration that
  reads the empty file in between starts from nothing and loses the rest; two
  edits of one file lose one of them.  `CutShortByPatchesOnly` therefore speaks of
  files before a patch was cut short or met another one (`hurt`).
- A kill call that meets a RUNNING request before its cancel function is
  registered, or a file operation, which has none, reports success and signals
  nothing (`httpapi.go:770`, `design.md:51`).
- `design.md:37` describes SIGTERM, a grace period, then SIGKILL to the group.
  `exec.CommandContext` sends SIGKILL to the leader at once, and when `Wait` has
  collected it, the group is not signalled at all.
- The save of a scope (`tview_ui.go:1640`) decides at once, without looking at
  `decisionGuardTil` and without setting it: a key made before it reaches the page
  of requests afterwards and decides the next request, and the save goes on while
  another decision is in flight.  It decides the request it was opened for.
- The request of a command that ended while its status could not be stored comes
  back from a restart as FAILED with the exit code of its execution row, which may
  be 0: a client that follows it ends with 0.  It is true of the command, which is
  what `ExitAgrees` says, but not of the status.
- A status that SQLite refuses is forgotten by a restart: a request canceled before
  its decision waits again and may be approved and executed, and one whose
  execution left no status is shown as APPROVED and never executed again.
- `jobs_helpers_test.go:62` keeps the selected job while the list changes.  In the
  terminal, adding the first row of the new list reports a selection
  (`tview_ui.go:1164`), so that the job page shows the header and the log of the
  newest job, while "Kill selected job?" kills the one the page was opened for.
- When somebody else decides the highlighted request, the selection moves to the
  next one (`tview_ui.go:1086`), also when the operator is about to press a key.
- The key for reading of an earlier enrolment stays valid when the phone is
  enrolled again by an app that has none (`store/approver_devices.go:24`).
- An upload of a request that waits for longer than 24 hours is removed by the
  cleanup (`transfers.go:163`).
- What changes a rule while another change of it is under way, and what the command
  line writes, may be missing in the live engine or stay there; a row of a token
  whose store call failed or was overtaken (`tokens.go:118`) misses that change; a
  call of a device that was revoked after the call passed its check still takes
  effect (`approver.go:261`).  The models contain these steps.  `LiveAgrees` and
  `RowsMirror` name the first two as exceptions (`adrift`, `stale`), and
  `RevokedStaysSilent` speaks of calls that arrive after the revocation (`dead`).
- `README.md:130`: output that was masked, that did not fit in the live buffer, or
  whose last look failed is not printed in full, and nothing says so; a look
  that meets an append may print bytes nobody wrote (`httpapi.go:175`).
- A `create` whose answer is lost leaves a request the client does not know, and
  file commands give up at the first error of the connection, while `racg run`
  goes on.

Seen in code that is not modelled: `globMatch` lets prefix and suffix of a
pattern overlap (`ab*ba` matches `aba`); always rules lose `TailAny` when they are
restored (`rules/engine.go:289`); `README.md:133` binds stdin rules to a hash,
while `docs/agent-quickstart.md:125` does not; a session rule may be installed
after its session ended (`httpapi.go:889`); a phone that asks for a new pairing
code may be given a later one (`approver.go:740`); a large `timeout_sec`
overflows (`httpapi.go:1478`); `racg update` installs an older release when the
newest one is older than the running version.

## 6. What is left

The models above follow the plan of the first version, in its order: lifecycle,
sessions, rules, approver devices, transfers, live output with the client,
events with the terminal, edits.  What remains worth doing:

1. An abstract specification of the terminal (a request is shown, then decided)
   with a proof that `Console` implements it, as `ApprovalGate` has for the
   lifecycle and `StagedUploads` for transfers.
2. Rules of sessions together with the session that owns them.
3. The composition of `Transfers` with `RequestLifecycle`, where a kill call and
   the claim of an upload meet.
4. The start of the terminal: it reads its lists (`tview_ui.go:1505`) before it
   subscribes to the hub (82), so that an event in between wakes nothing.  `Console`
   begins with a subscriber, and `StaleListWakes` says nothing about that gap.

## 7. Not modelled

- Rule matching and scopes (`internal/rules/engine.go`): pure functions on the
  texts of commands and paths.  Every model leaves open whether a rule matches;
  an operator on characters would be as long as the function.
- Updates (`cli/update.go`): a sequence of a download, a checksum and a rename.
- The Android application and the browser side of the remote approver: another
  program, whose calls `ApproverDevices` receives.
- Rendering, focus, forms, colours; argument parsing, profiles, printing; TLS and
  the selection of addresses; history queries; the stream of events over HTTP.
- The hunks of a patch and the formats of configurations: `FileEdits` has the
  edits a file holds and not the text.
