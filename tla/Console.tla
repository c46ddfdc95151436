------------------------------ MODULE Console ------------------------------
(***************************************************************************)
(* The terminal interface of `racg serve' (internal/tui) and the way it    *)
(* learns what happened: the API publishes an event after each change of a *)
(* request, the hub drops events for a subscriber whose channel is full, a *)
(* goroutine drains the channel into a coalescer with one dirty signal, a  *)
(* ticker takes the signal and queues a redraw, and the redraw reads all   *)
(* lists again.                                                            *)
(*                                                                         *)
(* The event loop handles one key, click or queued update at a time, so    *)
(* each handler is one action.  Decisions run in a goroutine and come back *)
(* as a queued update.  Keys and clicks that decide, that open the overlay *)
(* of a scope or save it wait in the queue of the terminal, whatever is on *)
(* the screen, and carry the time they were made at; other input is        *)
(* handled when it is made, after the input that waits.  Clicks that fall  *)
(* beside an overlay, on the page under it, are left out.                  *)
(*                                                                         *)
(* Requests are numbered in the order they are created.  Left out: texts,  *)
(* colours, the cycle of the focus, toasts, the title of the terminal, and *)
(* the list of all jobs (showAll): the model lists the jobs that ran.      *)
(***************************************************************************)
EXTENDS Naturals, Sequences, FiniteSets, SequencesExt

CONSTANTS
  Pages,      \* the pages
  Closable,   \* the overlays that set overlayClose
  Requests,   \* 1 .. n
  HubSize,    \* the events the channel of the subscriber holds
  MaxAge,     \* maxInputEventAge, in ticks
  Filters,    \* what the filter may hide: sets of requests
  MaxTyped    \* inputs that wait in the queue of the terminal

ASSUME ConsoleAssumption ==
  /\ {"pairing", "dashboard"} \subseteq Pages
  /\ Pages \subseteq {"pairing", "dashboard", "rules", "history", "job"}
  /\ {"rule_scope"} \subseteq Closable
  /\ Closable \subseteq {"help", "copy", "rule_scope", "manual_rule"}
  /\ IsFiniteSet(Requests) /\ Requests = 1 .. Cardinality(Requests)
  /\ HubSize \in Nat \ {0}
  /\ MaxAge \in Nat \ {0}
  /\ MaxTyped \in Nat
  /\ {} \in Filters
  /\ \A f \in Filters : f \subseteq Requests

VARIABLES
  status,           \* the requests of the API
  unsaid,           \* requests whose last change is not published yet
  channel,          \* how many events the channel holds
  signal,           \* the dirty signal of the coalescer
  redraw,           \* the ticker waits for its queued redraw
  hidden,           \* what the filter hides
  pendingIDs,       \* the list of pending requests
  current,          \* its highlighted row
  selectedPending,
  details,          \* the request the details pane shows
  cache,            \* pendingDetailsID and the request its text is of
  jobList,          \* the rows of the list of jobs
  selectedJob,
  header,           \* the request the job page shows
  activeJob,        \* the request the job page was opened for
  page,
  autoSwitch,       \* pairingAutoSwitch
  visible,          \* the overlays on the screen
  closer,           \* the overlay whose close function is overlayClose
  scopeOf,          \* the request the scope overlay was opened for
  inFlight,         \* the decision that runs
  guard,            \* ticks until decisionGuardTil
  typed             \* input that waits, oldest first

api == <<status, unsaid>>
wake == <<channel, signal, redraw>>
pending == <<pendingIDs, current, selectedPending, details, cache>>
jobs == <<jobList, selectedJob, header>>
nav == <<page, activeJob, visible, closer, scopeOf>>
deciding == <<inFlight, guard, typed>>
vars == <<api, wake, hidden, pending, jobs, nav, autoSwitch, deciding>>

None == 0
NoOverlay == "none"
NoDecision == [id |-> None, step |-> "none"]
Confirmations == {"confirm_kill", "confirm_delete_rule"}
Inputs == {"decide", "scope", "save"}
Stale == [input |-> "stale", age |-> MaxAge + 1, ahead |-> TRUE]

Init ==
  /\ status = [r \in Requests |-> "new"] /\ unsaid = {}
  /\ channel = 0 /\ signal = FALSE /\ redraw = FALSE
  /\ hidden = {} /\ pendingIDs = <<>> /\ current = 1
  /\ selectedPending = None /\ details = None
  /\ cache = [id |-> None, text |-> None]
  /\ jobList = <<>> /\ selectedJob = None
  /\ header = None /\ activeJob = None
  /\ page = "pairing" /\ autoSwitch = TRUE
  /\ visible = {} /\ closer = NoOverlay /\ scopeOf = None
  /\ inFlight = NoDecision /\ guard = 0 /\ typed = <<>>

-----------------------------------------------------------------------------
(***************************************************************************)
(* The API as the interface sees it: every change is published once the    *)
(* locks are released.                                                     *)
(***************************************************************************)
Change(r, s) ==
  /\ status' = [status EXCEPT ![r] = s]
  /\ unsaid' = unsaid \cup {r}

Create(r) ==
  /\ status[r] = "new"
  /\ \A q \in Requests : q < r => status[q] # "new"
  /\ Change(r, "pending")
  /\ UNCHANGED <<wake, hidden, pending, jobs, nav, autoSwitch, deciding>>

\* A phone, a rule, or the agent that cancels its request.
DecideElsewhere(r) ==
  /\ status[r] = "pending"
  /\ \E s \in {"running", "done"} : Change(r, s)
  /\ UNCHANGED <<wake, hidden, pending, jobs, nav, autoSwitch, deciding>>

Finish(r) ==
  /\ status[r] = "running"
  /\ Change(r, "done")
  /\ UNCHANGED <<wake, hidden, pending, jobs, nav, autoSwitch, deciding>>

\* Hub.Publish drops the event when the channel of the subscriber is full.
Deliver(room) ==
  channel' = IF room THEN channel + 1 ELSE channel
SendAlways == Deliver(TRUE)
Send == Deliver(channel < HubSize)

Publish(r) ==
  /\ r \in unsaid
  /\ unsaid' = unsaid \ {r}
  /\ Send
  /\ UNCHANGED <<status, signal, redraw, hidden, pending, jobs,
                 nav, autoSwitch, deciding>>

(***************************************************************************)
(* From the channel to a queued redraw.                                    *)
(***************************************************************************)
\* uiEventCoalescer.Add: a signal that is already there is enough.  Nothing
\* blocks between taking an event from the channel and adding it.
Receive ==
  /\ channel > 0
  /\ channel' = channel - 1 /\ signal' = TRUE
  /\ UNCHANGED <<api, redraw, hidden, pending, jobs, nav, autoSwitch,
                 deciding>>

\* QueueUpdateDraw returns when the update was drawn: the ticker waits.
Take ==
  /\ signal /\ ~redraw
  /\ signal' = FALSE /\ redraw' = TRUE
  /\ UNCHANGED <<api, channel, hidden, pending, jobs, nav,
                 autoSwitch, deciding>>

-----------------------------------------------------------------------------
(***************************************************************************)
(* Reading the lists.  The operators take the statuses they read, because  *)
(* some handlers change one first.                                         *)
(***************************************************************************)
\* The request at place i is the one with i requests of the set up to it.
OldestFirst(S) ==
  [i \in 1 .. Cardinality(S) |->
     CHOOSE r \in S : Cardinality({q \in S : q <= r}) = i]

Listed(st, hide) == OldestFirst({r \in Requests \ hide : st[r] = "pending"})

Jobs(st) ==
  LET newest == Reverse(OldestFirst({r \in Requests : st[r] \in {"running", "done"}}))
  IN [i \in DOMAIN newest |-> [id |-> newest[i], status |-> st[newest[i]]]]

PendingSelectionIndex(ids, previous, index) ==
  CASE previous \in Range(ids) -> CHOOSE i \in DOMAIN ids : ids[i] = previous
    [] previous \notin Range(ids) /\ index \in DOMAIN ids -> index
    [] OTHER -> 1

CachedPendingDetailsOfAny(r) == IF cache.id # None THEN cache.text ELSE r
CachedPendingDetails(r) == IF cache.id = r THEN cache.text ELSE r

RefreshDetails(r) ==
  /\ details' = CachedPendingDetails(r)
  /\ cache' = [id |-> r, text |-> CachedPendingDetails(r)]

Select(ids, i) ==
  /\ pendingIDs' = ids /\ current' = i
  /\ selectedPending' = ids[i]
  /\ RefreshDetails(ids[i])

RefreshPending(st, hide, previous) ==
  LET ids == Listed(st, hide) IN
  IF ids = <<>>
  THEN /\ pendingIDs' = <<>> /\ current' = 1
       /\ selectedPending' = None /\ details' = None
       /\ UNCHANGED cache
  ELSE Select(ids, PendingSelectionIndex(ids, previous, current))

\* jobListSignature: each row with its status.
SameRows(rows) ==
  /\ Len(rows) = Len(jobList)
  /\ \A i \in DOMAIN rows : rows[i].id = jobList[i].id
JobListSame(rows) == rows = jobList

(***************************************************************************)
(* The list of jobs is rebuilt when its signature changed.  Adding the     *)
(* first row fires the change callback, which sets selectedJob to it       *)
(* before jobSelectionIndex looks for the job that was selected.           *)
(***************************************************************************)
RefreshJobs(st) ==
  LET rows == Jobs(st) IN
  IF JobListSame(rows)
  THEN UNCHANGED <<jobList, selectedJob>>
  ELSE /\ jobList' = rows
       /\ selectedJob' = IF rows = <<>> THEN None ELSE rows[1].id

\* The header and the log of the job page follow selectedJob, not the job the
\* page was opened for.
RefreshHeader(p) ==
  header' = CASE p # "job" -> None
              [] p = "job" /\ selectedJob' = None -> header
              [] OTHER -> selectedJob'

Refresh(st, previous, p) ==
  /\ RefreshPending(st, hidden, previous)
  /\ RefreshJobs(st)
  /\ RefreshHeader(p)

-----------------------------------------------------------------------------
(***************************************************************************)
(* Pages and overlays.                                                     *)
(***************************************************************************)
\* closeOverlay: the close function runs, then what is on the list goes.
CloseOverlay ==
  /\ visible' = visible \ (Confirmations \cup (Closable \ {"manual_rule"})
                           \cup {closer})
  /\ closer' = NoOverlay /\ scopeOf' = None

\* closeOverlay and switchMainPage; the dashboard reads its lists again.
\* pairingAutoSwitch is read on the first page only, and showServer, which
\* clears it, is the only way back to that page.
SwitchTo(p) ==
  /\ CloseOverlay
  /\ page' = p /\ activeJob' = None /\ autoSwitch' = FALSE
  /\ IF p = "dashboard"
     THEN Refresh(status, selectedPending, p)
     ELSE UNCHANGED <<pending, jobs>>

\* The queued update: refresh, then leave the first page for a request.
Redraw ==
  /\ redraw
  /\ redraw' = FALSE /\ UNCHANGED <<channel, signal>>
  /\ IF page = "pairing" /\ autoSwitch /\ \E r \in Requests : status[r] = "pending"
     THEN SwitchTo("dashboard")
     ELSE UNCHANGED <<nav, autoSwitch>> /\ Refresh(status, selectedPending, page)
  /\ UNCHANGED <<api, hidden, deciding>>

-----------------------------------------------------------------------------
(***************************************************************************)
(* Keys and clicks on pages and overlays.                                  *)
(***************************************************************************)
Input == typed = <<>>

\* handleGlobalInput: otherwise the key goes to the overlay.
OnPage(p) ==
  Input /\ page = p /\ closer = NoOverlay /\ visible \cap Confirmations = {}

\* The main tabs and their keys; the job page has neither.
ShowPage(p) ==
  /\ \E q \in Pages \ {"job"} : OnPage(q)
  /\ SwitchTo(p)
  /\ UNCHANGED <<api, wake, hidden, deciding>>

\* Esc closes what covers the page; without that it goes back.
Escape ==
  /\ Input
  /\ IF closer # NoOverlay \/ visible # {}
     THEN CloseOverlay /\ UNCHANGED <<page, activeJob, autoSwitch, pending, jobs>>
     ELSE page \in {"job", "rules", "history"} /\ SwitchTo("dashboard")
  /\ UNCHANGED <<api, wake, hidden, deciding>>

OpenOverlay(name) ==
  /\ name \in Closable
  /\ visible' = visible \cup {name}
  /\ closer' = name /\ scopeOf' = None
  /\ UNCHANGED <<page, activeJob, api, wake, hidden, pending, jobs,
                 autoSwitch, deciding>>

OpenHelp == \E p \in Pages : OnPage(p) /\ OpenOverlay("help")
OpenCopy == OnPage("pairing") /\ OpenOverlay("copy")
OpenManualRule == OnPage("rules") /\ OpenOverlay("manual_rule")

\* Close, Cancel, and Save of a rule that was added.
CloseButton ==
  /\ Input /\ closer # NoOverlay
  /\ visible' = visible \ {closer}
  /\ closer' = NoOverlay /\ scopeOf' = None
  /\ UNCHANGED <<page, activeJob, api, wake, hidden, pending, jobs,
                 autoSwitch, deciding>>

ShowConfirmation(name) ==
  /\ visible' = visible \cup {name}
  /\ UNCHANGED <<page, activeJob, closer, scopeOf, api, wake, hidden, pending,
                 jobs, autoSwitch, deciding>>

\* The keys of the job page and of the page of rules.
AskKill == OnPage("job") /\ ShowConfirmation("confirm_kill")
AskDelete == OnPage("rules") /\ ShowConfirmation("confirm_delete_rule")

Answer(name) ==
  /\ Input /\ name \in visible
  /\ visible' = visible \ {name}
  /\ UNCHANGED <<page, activeJob, closer, scopeOf, wake, hidden, pending,
                 jobs, autoSwitch, deciding>>

\* Kill stops the job the page was opened for; Cancel, and Kill of a job that
\* ended, change no request.
AnswerKill ==
  /\ Answer("confirm_kill")
  /\ \/ UNCHANGED api
     \/ status[activeJob] = "running" /\ Change(activeJob, "done")

\* Both answers leave the requests alone.
AnswerDelete == Answer("confirm_delete_rule") /\ UNCHANGED api

SetFilter(hide) ==
  /\ OnPage("dashboard") /\ hide # hidden
  /\ hidden' = hide
  /\ RefreshPending(status, hide, selectedPending)
  /\ UNCHANGED <<api, wake, jobs, nav, autoSwitch, deciding>>

MoveTo(i) ==
  /\ OnPage("dashboard") /\ i \in DOMAIN pendingIDs /\ i # current
  /\ Select(pendingIDs, i)
  /\ UNCHANGED <<api, wake, hidden, jobs, nav, autoSwitch, deciding>>

SelectJob(i) ==
  /\ OnPage("dashboard") /\ i \in DOMAIN jobList
  /\ selectedJob' = jobList[i].id
  /\ UNCHANGED <<api, wake, hidden, pending, jobList, header, nav,
                 autoSwitch, deciding>>

\* From the list, or from one job page to another.
OpenJob(r) ==
  /\ "job" \in Pages
  /\ \/ OnPage("dashboard") /\ r = selectedJob
     \/ OnPage("job") /\ \E i \in DOMAIN jobList : r = jobList[i].id
  /\ page' = "job" /\ visible' = {} /\ UNCHANGED <<closer, scopeOf>>
  /\ activeJob' = r /\ selectedJob' = r /\ header' = r
  /\ UNCHANGED <<api, wake, hidden, pending, jobList, autoSwitch,
                 deciding>>

\* The follow switch and the views of the output read the job of the page.
ShowActive ==
  /\ OnPage("job") /\ header' = activeJob
  /\ UNCHANGED <<api, wake, hidden, pending, jobList, selectedJob, nav,
                 autoSwitch, deciding>>

-----------------------------------------------------------------------------
(***************************************************************************)
(* Decisions.                                                              *)
(***************************************************************************)
\* A key or a click, made now and handled later, whatever is on the screen.  Left
\* out is what could not do anything then: input on the pages that only other
\* input leaves, and a save without the overlay of a scope or the input that
\* opens it.
Type(input) ==
  /\ page \in {"pairing", "dashboard"}
  /\ \/ input # "save" \/ closer = "rule_scope"
     \/ \E i \in DOMAIN typed : typed[i].input = "scope"
  /\ Len(typed) < MaxTyped
  /\ typed' = Append(typed, [input |-> input, age |-> 0, ahead |-> FALSE])
  /\ UNCHANGED <<api, wake, hidden, pending, jobs, nav, autoSwitch,
                 inFlight, guard>>

\* Input that is too old is dropped when its turn comes, whatever it was.
Aged(q) == IF q.age < MaxAge THEN [q EXCEPT !.age = @ + 1] ELSE Stale

Tick ==
  /\ guard > 0 \/ \E i \in DOMAIN typed : typed[i] # Stale
  /\ guard' = IF guard > 0 THEN guard - 1 ELSE 0
  /\ typed' = [i \in DOMAIN typed |-> Aged(typed[i])]
  /\ UNCHANGED <<api, wake, hidden, pending, jobs, nav, autoSwitch,
                 inFlight>>

GuardTimeShort == MaxAge - 1
GuardTime == MaxAge

\* Input that is older than the decision is marked.
Older(q) == [q EXCEPT !.ahead = @ \/ q.age > 0]

\* The event loop takes the first input.
First(input) == typed # <<>> /\ Head(typed).input = input

Decidable ==
  /\ First("decide")
  /\ page = "dashboard" /\ closer = NoOverlay /\ selectedPending # None
  /\ inFlight = NoDecision /\ guard = 0

\* tryStartDecision.
StartDecision ==
  /\ Decidable
  /\ inFlight' = [id |-> selectedPending, step |-> "asked"]
  /\ guard' = GuardTime
  /\ typed' = [i \in DOMAIN Tail(typed) |-> Older(Tail(typed)[i])]
  /\ UNCHANGED <<api, wake, hidden, pending, jobs, nav, autoSwitch>>

Scopable ==
  /\ First("scope")
  /\ page = "dashboard" /\ closer = NoOverlay /\ selectedPending # None

\* The overlay keeps the request that was selected when it was opened.
OpenRuleScope ==
  /\ Scopable
  /\ visible' = visible \cup {"rule_scope"}
  /\ closer' = "rule_scope" /\ scopeOf' = selectedPending
  /\ typed' = Tail(typed)
  /\ UNCHANGED <<page, activeJob, api, wake, hidden, pending, jobs, autoSwitch,
                 inFlight, guard>>

\* A request that was decided already is an error, and the overlay stays.
Savable ==
  /\ First("save")
  /\ closer = "rule_scope" /\ status[scopeOf] = "pending"

\* This decides at once, whatever runs and guards, and sets no guard itself: the
\* input that waits is handled on the page under the overlay.
SaveScope ==
  /\ Savable
  /\ Change(scopeOf, "running")
  /\ visible' = visible \ {"rule_scope"}
  /\ closer' = NoOverlay /\ scopeOf' = None
  /\ Refresh(status', IF selectedPending = scopeOf THEN None ELSE selectedPending,
             page)
  /\ typed' = Tail(typed)
  /\ UNCHANGED <<page, activeJob, wake, hidden, autoSwitch, inFlight, guard>>

\* All other input does nothing.
Ignore ==
  /\ typed # <<>> /\ ~(Decidable \/ Scopable \/ Savable)
  /\ typed' = Tail(typed)
  /\ UNCHANGED <<api, wake, hidden, pending, jobs, nav, autoSwitch, inFlight,
                 guard>>

\* The goroutine decides; a request that is decided already is an error.
RunDecision ==
  /\ inFlight.step = "asked"
  /\ IF status[inFlight.id] = "pending"
     THEN /\ \E s \in {"running", "done"} : Change(inFlight.id, s)
          /\ inFlight' = [inFlight EXCEPT !.step = "applied"]
     ELSE /\ inFlight' = [inFlight EXCEPT !.step = "failed"]
          /\ UNCHANGED api
  /\ UNCHANGED <<wake, hidden, pending, jobs, nav, autoSwitch,
                 guard, typed>>

\* Its queued update.
DecisionDone ==
  /\ inFlight.step \in {"applied", "failed"}
  /\ inFlight' = NoDecision
  /\ Refresh(status, IF inFlight.step = "applied" /\ selectedPending = inFlight.id
                     THEN None ELSE selectedPending,
             page)
  /\ UNCHANGED <<api, wake, hidden, nav, autoSwitch, guard,
                 typed>>

-----------------------------------------------------------------------------
Next ==
  \/ \E r \in Requests : \/ Create(r) \/ DecideElsewhere(r) \/ Finish(r)
                         \/ Publish(r) \/ OpenJob(r)
  \/ Receive \/ Take \/ Redraw
  \/ \E p \in Pages \ {"job"} : ShowPage(p)
  \/ Escape \/ OpenHelp \/ OpenCopy \/ OpenManualRule \/ CloseButton
  \/ ShowActive \/ AskKill \/ AnswerKill \/ AskDelete \/ AnswerDelete
  \/ \E hide \in Filters : SetFilter(hide)
  \/ \E i \in Requests : MoveTo(i) \/ SelectJob(i)
  \/ \E input \in Inputs : Type(input)
  \/ Tick \/ StartDecision \/ OpenRuleScope \/ SaveScope \/ Ignore
  \/ RunDecision \/ DecisionDone

Spec == Init /\ [][Next]_vars

-----------------------------------------------------------------------------
\* Types, and what the widgets hold together: the rows are distinct requests,
\* the highlighted row is one of them, and an overlay that can be closed is
\* on the screen.
TypeOK ==
  /\ status \in [Requests -> {"new", "pending", "running", "done"}]
  /\ unsaid \subseteq Requests
  /\ channel \in 0 .. HubSize /\ {signal, redraw, autoSwitch} \subseteq BOOLEAN
  /\ hidden \in Filters
  /\ IsInjective(pendingIDs) /\ Range(pendingIDs) \subseteq Requests
  /\ current \in {1} \cup DOMAIN pendingIDs
  /\ {selectedPending, details, cache.id, cache.text, selectedJob, header,
      activeJob, scopeOf, inFlight.id} \subseteq Requests \cup {None}
  /\ page \in Pages /\ (page = "job") = (activeJob # None)
  /\ visible \subseteq Closable \cup Confirmations
  /\ closer \in visible \cup {NoOverlay}
  /\ guard \in 0 .. MaxAge
  /\ Len(typed) <= MaxTyped

\* tui/tview_ui.go 1520-1530: a decision goes to the request that the details
\* pane shows and the list highlights when it is taken, whatever refreshes,
\* filters and decisions of others came before.
DecidesWhatIsShown ==
  [][/\ inFlight.id = None /\ inFlight'.id # None =>
          inFlight'.id = details /\ inFlight'.id = pendingIDs[current]
     /\ scopeOf' \notin {scopeOf, None} =>
          scopeOf' = details /\ scopeOf' = pendingIDs[current]]_vars

\* tui/event_queue.go 10-13, tview_ui.go 206 and 1521-1527: input that was made
\* before a decision of the page of requests started never starts another one there:
\* until the guard ends it is ignored, and from then on it is stale, whatever was
\* opened, saved and selected meanwhile.  It is a promise of that page only: a scope
\* that is saved sets no guard and heeds none.
TypedAheadDecidesNothing ==
  [][inFlight.id = None /\ inFlight'.id # None => ~Head(typed).ahead]_vars

\* events/hub.go 54-68, tui/event_queue.go 29-55: dropped events and merged
\* signals lose no news: while a list differs from what the API would list,
\* something is on its way that makes the interface read it again.
StaleListWakes ==
  \/ pendingIDs = Listed(status, hidden) /\ jobList = Jobs(status)
  \/ unsaid # {} \/ channel > 0 \/ signal \/ redraw
=============================================================================
