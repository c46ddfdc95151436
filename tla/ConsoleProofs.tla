--------------------------- MODULE ConsoleProofs ---------------------------
(***************************************************************************)
(* What the terminal interface shows and decides, for any number of        *)
(* requests, any room in the channel of events and any waiting input.      *)
(***************************************************************************)
EXTENDS Console, FiniteSetTheorems, SequenceTheorems, TLAPS

Statuses == {"new", "pending", "running", "done"}
Ids == Requests \cup {None}
Rows == [id : Requests, status : Statuses]
\* Input is stale once it is too old.
Waiting ==
  {q \in [input : Inputs \cup {"stale"}, age : 0 .. MaxAge + 1, ahead : BOOLEAN] :
     q.input = "stale" \/ q.age <= MaxAge}
Steps == {"none", "asked", "applied", "failed"}

ApiTypes ==
  /\ status \in [Requests -> Statuses] /\ unsaid \subseteq Requests
  /\ channel \in 0 .. HubSize /\ signal \in BOOLEAN /\ redraw \in BOOLEAN

\* The rows are distinct requests; the details and the selection are those of
\* the highlighted row, and the cached details are those of their request.
List(ids) ==
  \E n \in Nat : ids \in [1 .. n -> Requests] /\ IsInjective(ids)

Shown ==
  \/ /\ pendingIDs = <<>> /\ current = 1
     /\ selectedPending = None /\ details = None
  \/ /\ current \in DOMAIN pendingIDs /\ selectedPending = pendingIDs[current]
     /\ details = selectedPending

CacheHolds ==
  cache \in [id : Ids, text : Ids] /\ cache.text = cache.id

PendingHolds == List(pendingIDs) /\ Shown /\ CacheHolds

JobsHold ==
  /\ \E n \in Nat : jobList \in [1 .. n -> Rows]
  /\ selectedJob \in Ids /\ header \in Ids

\* The overlays on the screen, and what their buttons act on.
NavHolds ==
  /\ page \in Pages /\ activeJob \in Ids /\ (page = "job") = (activeJob # None)
  /\ visible \subseteq Closable \cup Confirmations
  /\ closer = NoOverlay \/ closer \in visible \cap Closable
  /\ scopeOf \in Ids
  /\ closer = "rule_scope" => scopeOf # None
  /\ "confirm_kill" \in visible => page = "job"
  /\ autoSwitch \in BOOLEAN /\ hidden \in Filters

\* Input that is older than a decision is stale when the guard ends.
DecidingHolds ==
  /\ inFlight \in [id : Ids, step : Steps]
  /\ inFlight.id = None <=> inFlight.step = "none"
  /\ guard \in 0 .. MaxAge
  /\ typed \in Seq(Waiting) /\ Len(typed) <= MaxTyped
  /\ \A i \in 1 .. Len(typed) : typed[i].ahead => typed[i].age + guard > MaxAge

Inv == ApiTypes /\ PendingHolds /\ JobsHold /\ NavHolds /\ DecidingHolds

-----------------------------------------------------------------------------
(***************************************************************************)
(* The lists.                                                              *)
(***************************************************************************)
\* Of a finite set of numbers, the number of its members up to one of them names
\* that member, and every place has its member.
LEMMA Places ==
  ASSUME NEW S \in SUBSET Int, IsFiniteSet(S)
  PROVE  \A i \in 1 .. Cardinality(S) :
           \E k \in S : Cardinality({m \in S : m <= k}) = i
<1> DEFINE n == Cardinality(S)
           Place(k) == Cardinality({m \in S : m <= k})
           f == [k \in S |-> Place(k)]
<1>1. n \in Nat
  BY FS_CardinalityType
<1>2. ASSUME NEW k \in S
      PROVE  Place(k) \in 1 .. n
  <2>1. /\ {m \in S : m <= k} \in SUBSET S
        /\ {m \in S : m <= k} # {}
    OBVIOUS
  <2> HIDE DEF Place
  <2>2. /\ IsFiniteSet({m \in S : m <= k})
        /\ Place(k) <= n
    BY <2>1, FS_Subset DEF Place
  <2>3. Place(k) \in Nat /\ Place(k) # 0
    BY <2>1, <2>2, FS_CardinalityType, FS_EmptySet DEF Place
  <2> QED BY <1>1, <2>2, <2>3
<1>3. ASSUME NEW j \in S, NEW k \in S, j < k
      PROVE  Place(j) # Place(k)
  <2>1. /\ {m \in S : m <= j} \in SUBSET {m \in S : m <= k}
        /\ k \in {m \in S : m <= k} /\ k \notin {m \in S : m <= j}
    <3>1. j \in Int /\ k \in Int /\ j < k
      BY <1>3
    <3>2. \A m \in S : m \in Int /\ (m <= j => m <= k)
      BY <3>1
    <3>3. {m \in S : m <= j} \subseteq {m \in S : m <= k}
      BY <3>2
    <3>4. ~(k <= j) /\ k <= k
      BY <3>1
    <3> QED BY <3>3, <3>4
  <2>2. IsFiniteSet({m \in S : m <= k})
    BY FS_Subset
  <2> QED BY <2>1, <2>2, FS_Subset
<1>4. f \in Injection(S, 1 .. n)
  <2>1. f \in [S -> 1 .. n]
    BY <1>2
  <2>2. \A j, k \in S : f[j] = f[k] => j = k
    <3> HIDE DEF Place
    <3>1. \A j, k \in S : j < k \/ k < j \/ j = k
      OBVIOUS
    <3> QED BY <1>3, <3>1
  <2> HIDE DEF f
  <2> QED BY <2>1, <2>2 DEF Injection, IsInjective
<1>5. IsFiniteSet(1 .. n) /\ Cardinality(1 .. n) = n
  <2>1. 1 \in Int /\ n \in Int
    BY <1>1
  <2> QED BY <1>1, <2>1, FS_Interval
<1>6. f \in Surjection(S, 1 .. n)
  BY <1>4, <1>5, FS_Injection
<1>7. \A i \in 1 .. n : \E k \in S : f[k] = i
  <2> HIDE DEF f, Place, n
  <2> QED BY <1>6 DEF Surjection
<1> QED BY <1>7

\* The requests are positive numbers, and there are finitely many.
LEMMA Numbers ==
  /\ IsFiniteSet(Requests) /\ Requests \in SUBSET Int /\ None \notin Requests
  /\ HubSize \in Nat \ {0} /\ MaxAge \in Nat \ {0} /\ MaxTyped \in Nat
  /\ {} \in Filters
<1>1. Cardinality(Requests) \in Nat
  BY ConsoleAssumption, FS_CardinalityType DEF ConsoleAssumption
<1>2. Requests \in SUBSET Int /\ None \notin Requests
  BY <1>1, ConsoleAssumption DEF ConsoleAssumption, None
<1> QED BY <1>2, ConsoleAssumption DEF ConsoleAssumption

\* The requests of a set in their order are a list of them.
LEMMA OldestFirstIsList ==
  ASSUME NEW S \in SUBSET Requests
  PROVE  /\ Cardinality(S) \in Nat
         /\ OldestFirst(S) \in [1 .. Cardinality(S) -> S]
         /\ IsInjective(OldestFirst(S))
<1> DEFINE n == Cardinality(S)
           Up(k) == Cardinality({q \in S : q <= k})
           At(i) == CHOOSE r \in S : Up(r) = i
<1>1. IsFiniteSet(S) /\ n \in Nat /\ S \in SUBSET Int
  BY Numbers, FS_Subset, FS_CardinalityType
<1>2. \A i \in 1 .. n : \E r \in S : Up(r) = i
  BY <1>1, Places
<1>3. OldestFirst(S) = [i \in 1 .. n |-> At(i)]
  BY DEF OldestFirst
<1> HIDE DEF Up, n
<1>4. \A i \in 1 .. n : At(i) \in S /\ Up(At(i)) = i
  BY <1>2
<1> HIDE DEF At
<1>5. OldestFirst(S) \in [1 .. n -> S]
  BY <1>3, <1>4
<1>6. IsInjective(OldestFirst(S))
  BY <1>3, <1>4 DEF IsInjective
<1> QED BY <1>1, <1>5, <1>6 DEF n

\* What the API lists.
LEMMA ListedIsList == ASSUME NEW st, NEW hide PROVE List(Listed(st, hide))
<1> DEFINE S == {r \in Requests \ hide : st[r] = "pending"}
<1>1. S \in SUBSET Requests
  OBVIOUS
<1>2. Listed(st, hide) = OldestFirst(S)
  BY DEF Listed
<1> HIDE DEF S
<1> QED BY <1>1, <1>2, OldestFirstIsList DEF List

LEMMA JobsAreRows ==
  ASSUME NEW st \in [Requests -> Statuses]
  PROVE  \E n \in Nat : Jobs(st) \in [1 .. n -> Rows]
<1> DEFINE S == {r \in Requests : st[r] \in {"running", "done"}}
           n == Cardinality(S)
           oldest == OldestFirst(S)
           newest == Reverse(oldest)
<1>1. S \in SUBSET Requests
  OBVIOUS
<1>2. Jobs(st) = [i \in DOMAIN newest |-> [id |-> newest[i], status |-> st[newest[i]]]]
  BY DEF Jobs
<1> HIDE DEF S
<1>3. n \in Nat /\ oldest \in [1 .. n -> Requests]
  BY <1>1, OldestFirstIsList
<1> HIDE DEF n, oldest
<1>4. Len(oldest) = n
  BY <1>3
<1>5. newest = [i \in 1 .. n |-> oldest[n - i + 1]]
  BY <1>4 DEF Reverse
<1>6. \A i \in 1 .. n : newest[i] \in Requests
  BY <1>3, <1>5
<1>7. DOMAIN newest = 1 .. n
  BY <1>5
<1> HIDE DEF newest
<1> QED BY <1>2, <1>3, <1>6, <1>7 DEF Rows

\* The highlighted row is one of the rows.
LEMMA SelectionInList ==
  ASSUME NEW ids, List(ids), ids # <<>>, NEW previous, NEW index
  PROVE  PendingSelectionIndex(ids, previous, index) \in DOMAIN ids
<1>1. PICK n \in Nat : ids \in [1 .. n -> Requests]
  BY DEF List
<1>2. n # 0
  BY <1>1
<1>3. 1 \in DOMAIN ids
  BY <1>1, <1>2
<1>4. CASE previous \in Range(ids)
  <2>1. \E i \in DOMAIN ids : ids[i] = previous
    BY <1>4 DEF Range
  <2> QED BY <1>4, <2>1 DEF PendingSelectionIndex
<1>5. CASE previous \notin Range(ids)
  BY <1>3, <1>5 DEF PendingSelectionIndex
<1> QED BY <1>4, <1>5

\* A row is selected, and its details are shown.
LEMMA SelectEffect ==
  ASSUME CacheHolds, NEW ids, List(ids), NEW i \in DOMAIN ids, Select(ids, i)
  PROVE  PendingHolds' /\ pendingIDs' = ids
<1>1. ids[i] \in Requests
  BY DEF List
<1>2. details' = ids[i] /\ cache' = [id |-> ids[i], text |-> ids[i]]
  BY DEF Select, RefreshDetails, CachedPendingDetails, CacheHolds
<1>3. CacheHolds'
  BY <1>1, <1>2 DEF CacheHolds, Ids
<1>4. Shown'
  BY <1>1, <1>2 DEF Shown, Select
<1> QED BY <1>3, <1>4 DEF PendingHolds, Select

LEMMA RefreshPendingEffect ==
  ASSUME CacheHolds, NEW st, NEW hide, NEW previous, RefreshPending(st, hide, previous)
  PROVE  PendingHolds' /\ pendingIDs' = Listed(st, hide)
<1> DEFINE ids == Listed(st, hide)
<1>1. List(ids)
  BY ListedIsList
<1>2. \/ /\ ids = <<>> /\ pendingIDs' = ids /\ current' = 1
         /\ selectedPending' = None /\ details' = None /\ cache' = cache
      \/ /\ ids # <<>>
         /\ Select(ids, PendingSelectionIndex(ids, previous, current))
  BY DEF RefreshPending
<1> HIDE DEF ids
<1>3. CASE ids = <<>>
  BY <1>1, <1>2, <1>3 DEF PendingHolds, Shown, CacheHolds, ids
<1>4. CASE ids # <<>>
  BY <1>1, <1>2, <1>4, SelectionInList, SelectEffect DEF ids
<1> QED BY <1>3, <1>4

LEMMA RefreshJobsEffect ==
  ASSUME JobsHold, NEW st \in [Requests -> Statuses], RefreshJobs(st),
         NEW p, RefreshHeader(p)
  PROVE  JobsHold' /\ jobList' = Jobs(st)
<1>1. PICK n \in Nat : Jobs(st) \in [1 .. n -> Rows]
  BY JobsAreRows
<1>2. jobList' = Jobs(st) /\ selectedJob' \in Ids
  <2>1. CASE Jobs(st) = jobList
    BY <2>1 DEF RefreshJobs, JobListSame, JobsHold
  <2>2. CASE Jobs(st) # jobList
    <3>1. Jobs(st) # <<>> => Jobs(st)[1] \in Rows
      <4>1. Jobs(st) # <<>> => n # 0
        BY <1>1
      <4> QED BY <1>1, <4>1
    <3> QED BY <2>2, <3>1 DEF RefreshJobs, JobListSame, Rows, Ids
  <2> QED BY <2>1, <2>2
<1>3. header' \in Ids
  BY <1>2 DEF RefreshHeader, JobsHold, Ids
<1> QED BY <1>1, <1>2, <1>3 DEF JobsHold

\* All lists are read again.
LEMMA RefreshEffect ==
  ASSUME PendingHolds, JobsHold, NEW st \in [Requests -> Statuses], NEW previous, NEW p,
         Refresh(st, previous, p)
  PROVE  /\ PendingHolds' /\ JobsHold'
         /\ pendingIDs' = Listed(st, hidden) /\ jobList' = Jobs(st)
BY RefreshPendingEffect, RefreshJobsEffect DEF Refresh, PendingHolds

-----------------------------------------------------------------------------
(***************************************************************************)
(* The steps of the API and of the events.                                 *)
(***************************************************************************)
Good == Inv /\ StaleListWakes

\* A change of a request is announced.
LEMMA ChangeEffect ==
  ASSUME ApiTypes, NEW r \in Requests, NEW s \in Statuses, Change(r, s)
  PROVE  /\ status' \in [Requests -> Statuses]
         /\ unsaid' \subseteq Requests /\ unsaid' # {}
BY DEF ApiTypes, Change

\* What is left alone stays as it was.
LEMMA PendingFrame ==
  ASSUME PendingHolds, UNCHANGED pending
  PROVE  PendingHolds'
BY DEF PendingHolds, pending, List, Shown, CacheHolds

LEMMA JobsFrame ==
  ASSUME JobsHold, UNCHANGED jobs
  PROVE  JobsHold'
BY DEF JobsHold, jobs

LEMMA NavFrame ==
  ASSUME NavHolds, UNCHANGED <<nav, autoSwitch, hidden>>
  PROVE  NavHolds'
BY DEF NavHolds, nav

LEMMA DecidingFrame ==
  ASSUME DecidingHolds, UNCHANGED deciding
  PROVE  DecidingHolds'
BY DEF DecidingHolds, deciding

LEMMA ApiFrame ==
  ASSUME ApiTypes, UNCHANGED <<api, wake>>
  PROVE  ApiTypes'
BY DEF ApiTypes, api, wake

\* A list that was right, or about to be read again, is so if nothing changed.
LEMMA StaleFrame ==
  ASSUME StaleListWakes, UNCHANGED <<api, wake, hidden, pendingIDs, jobList>>
  PROVE  StaleListWakes'
BY DEF StaleListWakes, api, wake

\* Changes of requests, and their announcements.
LEMMA ApiStep ==
  ASSUME Good, NEW r \in Requests,
         Create(r) \/ DecideElsewhere(r) \/ Finish(r) \/ Publish(r)
  PROVE  Good'
<1>1. UNCHANGED <<hidden, pending, jobs, nav, autoSwitch, deciding>>
  BY DEF Create, DecideElsewhere, Finish, Publish
<1>2. CASE \E s \in Statuses : Change(r, s) /\ UNCHANGED wake
  <2>1. PICK s \in Statuses : Change(r, s) /\ UNCHANGED wake
    BY <1>2
  <2>2. ApiTypes' /\ unsaid' # {}
    BY <2>1, ChangeEffect DEF ApiTypes, wake, Good, Inv
  <2> QED BY <1>1, <2>2, PendingFrame, JobsFrame, NavFrame, DecidingFrame
          DEF Good, Inv, StaleListWakes
<1>3. CASE Publish(r)
  <2>1. ApiTypes' /\ channel' > 0
    BY <1>3, Numbers DEF Publish, Send, Deliver, ApiTypes, Good, Inv
  <2> QED BY <1>1, <2>1, PendingFrame, JobsFrame, NavFrame, DecidingFrame
          DEF Good, Inv, StaleListWakes
<1>4. \/ \E s \in Statuses : Change(r, s) /\ UNCHANGED wake
      \/ Publish(r)
  BY DEF Create, DecideElsewhere, Finish, Statuses
<1> QED BY <1>2, <1>3, <1>4

\* The way of an event to the redraw.
LEMMA WakeStep ==
  ASSUME Good, Receive \/ Take
  PROVE  Good'
<1>1. UNCHANGED <<hidden, pending, jobs, nav, autoSwitch, deciding, api>>
  BY DEF Receive, Take
<1>2. status' = status /\ unsaid' = unsaid
  BY <1>1 DEF api
<1>3. channel' \in 0 .. HubSize /\ signal' \in BOOLEAN /\ redraw' \in BOOLEAN
      /\ (signal' \/ redraw')
  <2>1. CASE Receive
    <3>1. channel \in 0 .. HubSize /\ channel > 0 /\ channel' = channel - 1
      BY <2>1 DEF Receive, ApiTypes, Good, Inv
    <3>2. channel' \in 0 .. HubSize
      BY <3>1, Numbers
    <3> QED BY <2>1, <3>2 DEF Receive, ApiTypes, Good, Inv
  <2>2. CASE Take
    BY <2>2 DEF Take, ApiTypes, Good, Inv
  <2> QED BY <2>1, <2>2
<1>4. ApiTypes'
  BY <1>2, <1>3 DEF ApiTypes, Good, Inv
<1> QED BY <1>1, <1>3, <1>4, PendingFrame, JobsFrame, NavFrame, DecidingFrame
        DEF Good, Inv, StaleListWakes

-----------------------------------------------------------------------------
(***************************************************************************)
(* Pages and overlays.                                                     *)
(***************************************************************************)
\* The names of pages and overlays differ.
LEMMA Names ==
  /\ Closable \cap Confirmations = {} /\ NoOverlay \notin Closable \cup Confirmations
  /\ "rule_scope" \in Closable
  /\ {"confirm_kill", "confirm_delete_rule"} = Confirmations
  /\ {"pairing", "dashboard"} \subseteq Pages
  /\ None \in Ids /\ Requests \subseteq Ids
BY ConsoleAssumption DEF ConsoleAssumption, Confirmations, NoOverlay, Ids

\* A page is left for another, which is not the page of a job.
LEMMA SwitchEffect ==
  ASSUME Good, NEW p \in Pages \ {"job"}, SwitchTo(p), UNCHANGED <<status, hidden>>
  PROVE  /\ PendingHolds' /\ JobsHold' /\ NavHolds'
         /\ \/ UNCHANGED <<pendingIDs, jobList>> /\ p # "dashboard"
            \/ pendingIDs' = Listed(status', hidden') /\ jobList' = Jobs(status')
<1>1. NavHolds'
  BY Names DEF SwitchTo, CloseOverlay, NavHolds, Good, Inv
<1>2. CASE p = "dashboard"
  <2>1. status \in [Requests -> Statuses] /\ Refresh(status, selectedPending, p)
    BY <1>2 DEF SwitchTo, Good, Inv, ApiTypes
  <2> QED BY <1>1, <2>1, RefreshEffect DEF Good, Inv
<1>3. CASE p # "dashboard"
  <2>1. UNCHANGED <<pending, jobs>>
    BY <1>3 DEF SwitchTo
  <2> QED BY <1>1, <1>3, <2>1, PendingFrame, JobsFrame DEF Good, Inv, pending, jobs
<1> QED BY <1>2, <1>3

\* The redraw reads the lists again.
LEMMA RedrawStep ==
  ASSUME Good, Redraw
  PROVE  Good'
<1>1. /\ UNCHANGED <<api, hidden, deciding>> /\ status' = status
      /\ ApiTypes' /\ status \in [Requests -> Statuses]
  BY DEF Redraw, ApiTypes, api, Good, Inv
<1>2. CASE SwitchTo("dashboard")
  <2>1. /\ PendingHolds' /\ JobsHold' /\ NavHolds'
        /\ pendingIDs' = Listed(status', hidden') /\ jobList' = Jobs(status')
    BY <1>1, <1>2, Names, SwitchEffect
  <2> QED BY <1>1, <2>1, DecidingFrame DEF Good, Inv, StaleListWakes
<1>3. CASE UNCHANGED <<nav, autoSwitch>> /\ Refresh(status, selectedPending, page)
  <2>1. /\ PendingHolds' /\ JobsHold'
        /\ pendingIDs' = Listed(status, hidden) /\ jobList' = Jobs(status)
    BY <1>1, <1>3, RefreshEffect DEF Good, Inv
  <2> QED BY <1>1, <1>3, <2>1, NavFrame, DecidingFrame DEF Good, Inv, StaleListWakes
<1> QED BY <1>2, <1>3 DEF Redraw

\* Keys of the pages, and Esc.
LEMMA PageStep ==
  ASSUME Good, (\E p \in Pages \ {"job"} : ShowPage(p)) \/ Escape
  PROVE  Good'
<1>1. UNCHANGED <<api, wake, hidden, deciding, status>>
  BY DEF ShowPage, Escape, api
<1>2. CASE \E p \in Pages \ {"job"} : SwitchTo(p)
  <2>1. PICK p \in Pages \ {"job"} : SwitchTo(p)
    BY <1>2
  <2>2. /\ PendingHolds' /\ JobsHold' /\ NavHolds'
        /\ \/ UNCHANGED <<pendingIDs, jobList>>
           \/ pendingIDs' = Listed(status', hidden') /\ jobList' = Jobs(status')
    BY <1>1, <2>1, SwitchEffect
  <2>3. StaleListWakes'
    BY <1>1, <2>2, StaleFrame DEF Good, StaleListWakes
  <2> QED BY <1>1, <2>2, <2>3, ApiFrame, DecidingFrame DEF Good, Inv
<1>3. CASE CloseOverlay /\ UNCHANGED <<page, activeJob, autoSwitch, pending, jobs>>
  <2>1. NavHolds'
    BY <1>1, <1>3, Names DEF CloseOverlay, NavHolds, Good, Inv
  <2>2. StaleListWakes'
    BY <1>1, <1>3, StaleFrame DEF Good, pending, jobs
  <2> QED BY <1>1, <1>3, <2>1, <2>2, ApiFrame, PendingFrame, JobsFrame, DecidingFrame
          DEF Good, Inv
<1> QED BY <1>2, <1>3, Names DEF ShowPage, Escape

\* Overlays open and close.
LEMMA OverlayStep ==
  ASSUME Good,
         OpenHelp \/ OpenCopy \/ OpenManualRule \/ CloseButton
           \/ AskKill \/ AskDelete \/ AnswerDelete
  PROVE  Good'
<1>1. UNCHANGED <<page, activeJob, api, wake, hidden, pending, jobs, autoSwitch, deciding>>
  BY DEF OpenHelp, OpenCopy, OpenManualRule, OpenOverlay, CloseButton,
         AskKill, AskDelete, ShowConfirmation, AnswerDelete, Answer
<1>3. \/ /\ \E name \in Closable \ {"rule_scope"} :
              visible' = visible \cup {name} /\ closer' = name /\ scopeOf' = None
      \/ visible' = visible \ {closer} /\ closer' = NoOverlay /\ scopeOf' = None
      \/ /\ UNCHANGED <<closer, scopeOf>>
         /\ \/ visible' = visible \cup {"confirm_kill"} /\ page = "job"
            \/ visible' = visible \cup {"confirm_delete_rule"}
            \/ visible' = visible \ {"confirm_delete_rule"}
  BY Names
  DEF OpenHelp, OpenCopy, OpenManualRule, OpenOverlay, CloseButton,
      AskKill, AskDelete, ShowConfirmation, AnswerDelete, Answer, OnPage
<1>4. NavHolds'
  BY <1>1, <1>3, Names DEF NavHolds, Good, Inv
<1>5. StaleListWakes'
  BY <1>1, StaleFrame DEF Good, pending, jobs
<1> QED BY <1>1, <1>4, <1>5, ApiFrame, PendingFrame, JobsFrame, DecidingFrame DEF Good, Inv

\* Kill stops the job of the page.
LEMMA AnswerKillStep ==
  ASSUME Good, AnswerKill
  PROVE  Good'
<1>1. /\ UNCHANGED <<page, activeJob, closer, scopeOf, wake, hidden, pending, jobs, autoSwitch, deciding>>
      /\ "confirm_kill" \in visible /\ visible' = visible \ {"confirm_kill"}
  BY DEF AnswerKill, Answer
<1>2. activeJob \in Requests
  BY <1>1 DEF NavHolds, Good, Inv, Ids
<1>3. NavHolds'
  BY <1>1, Names DEF NavHolds, Good, Inv
<1>4. CASE UNCHANGED api
  <2>1. StaleListWakes'
    BY <1>1, <1>4, StaleFrame DEF Good, pending, jobs
  <2> QED BY <1>1, <1>3, <1>4, <2>1, ApiFrame, PendingFrame, JobsFrame, DecidingFrame
          DEF Good, Inv
<1>5. CASE Change(activeJob, "done")
  <2>1. ApiTypes' /\ unsaid' # {}
    BY <1>1, <1>2, <1>5, ChangeEffect DEF ApiTypes, wake, Statuses, Good, Inv
  <2> QED BY <1>1, <1>3, <2>1, PendingFrame, JobsFrame, DecidingFrame
          DEF Good, Inv, StaleListWakes
<1> QED BY <1>4, <1>5 DEF AnswerKill

\* The filter reads the pending requests again.
LEMMA FilterStep ==
  ASSUME Good, NEW hide \in Filters, SetFilter(hide)
  PROVE  Good'
<1>1. /\ UNCHANGED <<api, wake, jobs, nav, autoSwitch, deciding>>
      /\ hidden' = hide /\ RefreshPending(status, hide, selectedPending)
  BY DEF SetFilter
<1>2. PendingHolds' /\ pendingIDs' = Listed(status, hide)
  BY <1>1, RefreshPendingEffect DEF Good, Inv, PendingHolds
<1>3. NavHolds'
  BY <1>1 DEF NavHolds, nav, Good, Inv
<1>4. status' = status /\ jobList' = jobList
  BY <1>1 DEF api, jobs
<1>5. StaleListWakes'
  BY <1>1, <1>2, <1>4 DEF StaleListWakes, Good, api, wake
<1> QED BY <1>1, <1>2, <1>3, <1>5, ApiFrame, JobsFrame, DecidingFrame DEF Good, Inv

\* Another row is highlighted.
LEMMA SelectionStep ==
  ASSUME Good, NEW i, MoveTo(i) \/ SelectJob(i)
  PROVE  Good'
<1>1. UNCHANGED <<api, wake, hidden, nav, autoSwitch, deciding>>
  BY DEF MoveTo, SelectJob
<1>2. CASE MoveTo(i)
  <2>1. /\ UNCHANGED jobs /\ i \in DOMAIN pendingIDs /\ Select(pendingIDs, i)
        /\ List(pendingIDs) /\ CacheHolds
    BY <1>2 DEF MoveTo, PendingHolds, Good, Inv
  <2>2. PendingHolds' /\ pendingIDs' = pendingIDs
    BY <2>1, SelectEffect
  <2>3. StaleListWakes'
    BY <1>1, <2>1, <2>2, StaleFrame DEF Good, jobs
  <2> QED BY <1>1, <2>1, <2>2, <2>3, ApiFrame, JobsFrame, NavFrame, DecidingFrame
          DEF Good, Inv
<1>3. CASE SelectJob(i)
  <2>1. /\ i \in DOMAIN jobList /\ selectedJob' = jobList[i].id
        /\ UNCHANGED <<pending, jobList, header>>
    BY <1>3 DEF SelectJob
  <2>2. JobsHold'
    BY <2>1 DEF JobsHold, Rows, Ids, Good, Inv
  <2>3. StaleListWakes'
    BY <1>1, <2>1, StaleFrame DEF Good, pending
  <2> QED BY <1>1, <2>1, <2>2, <2>3, ApiFrame, PendingFrame, NavFrame, DecidingFrame
          DEF Good, Inv
<1> QED BY <1>2, <1>3

\* The page of a job opens, or shows its job again.
LEMMA JobPageStep ==
  ASSUME Good, (\E r \in Requests : OpenJob(r)) \/ ShowActive
  PROVE  Good'
<1>1. UNCHANGED <<api, wake, hidden, pending, jobList, autoSwitch, deciding>>
  BY DEF OpenJob, ShowActive
<1>2. StaleListWakes'
  BY <1>1, StaleFrame DEF Good, pending
<1>3. CASE \E r \in Requests : OpenJob(r)
  <2>1. PICK r \in Requests : OpenJob(r)
    BY <1>3
  <2>2. /\ page' = "job" /\ visible' = {} /\ UNCHANGED <<closer, scopeOf>>
        /\ closer = NoOverlay /\ "job" \in Pages
        /\ activeJob' = r /\ selectedJob' = r /\ header' = r
    BY <2>1 DEF OpenJob, OnPage
  <2>3. JobsHold'
    BY <1>1, <2>2 DEF JobsHold, Ids, Good, Inv
  <2>4. NavHolds'
    BY <1>1, <2>2, Numbers, Names DEF NavHolds, Ids, Good, Inv
  <2> QED BY <1>1, <1>2, <2>3, <2>4, ApiFrame, PendingFrame, DecidingFrame DEF Good, Inv
<1>4. CASE ShowActive
  <2>1. header' = activeJob /\ UNCHANGED <<selectedJob, nav>>
    BY <1>4 DEF ShowActive
  <2>2. JobsHold'
    BY <1>1, <2>1 DEF JobsHold, NavHolds, Good, Inv
  <2> QED BY <1>1, <1>2, <2>1, <2>2, ApiFrame, PendingFrame, NavFrame, DecidingFrame
          DEF Good, Inv
<1> QED BY <1>3, <1>4

-----------------------------------------------------------------------------
(***************************************************************************)
(* Decisions.                                                              *)
(***************************************************************************)
\* Only the input and the decision change.
LEMMA DecidingOnly ==
  ASSUME Good, DecidingHolds',
         UNCHANGED <<api, wake, hidden, pending, jobs, nav, autoSwitch>>
  PROVE  Good'
<1>1. StaleListWakes'
  BY StaleFrame DEF Good, pending, jobs
<1> QED BY <1>1, ApiFrame, PendingFrame, JobsFrame, NavFrame DEF Good, Inv

LEMMA TypeStep ==
  ASSUME Good, NEW input \in Inputs, Type(input)
  PROVE  Good'
<1> DEFINE new == [input |-> input, age |-> 0, ahead |-> FALSE]
<1>1. /\ typed \in Seq(Waiting) /\ Len(typed) < MaxTyped
      /\ typed' = Append(typed, new) /\ inFlight' = inFlight /\ guard' = guard
      /\ guard \in 0 .. MaxAge
      /\ \A i \in 1 .. Len(typed) : typed[i].ahead => typed[i].age + guard > MaxAge
  BY DEF Type, DecidingHolds, Good, Inv
<1>2. new \in Waiting /\ ~new.ahead
  BY Numbers DEF Waiting
<1> HIDE DEF new
<1>3. /\ typed' \in Seq(Waiting) /\ Len(typed') = Len(typed) + 1
      /\ typed'[Len(typed) + 1] = new
      /\ \A i \in 1 .. Len(typed) : typed'[i] = typed[i]
  BY <1>1, <1>2, AppendProperties
<1>4. Len(typed) \in Nat /\ Len(typed') <= MaxTyped
  BY <1>1, <1>3, Numbers, LenProperties
<1>5. ASSUME NEW i \in 1 .. Len(typed'), typed'[i].ahead
      PROVE  typed'[i].age + guard' > MaxAge
  <2>1. i \in 1 .. Len(typed) \/ i = Len(typed) + 1
    BY <1>3, <1>4
  <2> QED BY <1>1, <1>2, <1>3, <1>5, <2>1
<1>6. DecidingHolds'
  BY <1>1, <1>3, <1>4, <1>5 DEF DecidingHolds, Good, Inv
<1> QED BY <1>6, DecidingOnly DEF Type

\* An input gets older by at most one, as the guard does.
LEMMA TickStep ==
  ASSUME Good, Tick
  PROVE  Good'
<1>1. /\ typed \in Seq(Waiting) /\ Len(typed) <= MaxTyped
      /\ typed' = [i \in DOMAIN typed |-> Aged(typed[i])] /\ inFlight' = inFlight
      /\ guard \in 0 .. MaxAge /\ guard' = IF guard > 0 THEN guard - 1 ELSE 0
      /\ \A i \in 1 .. Len(typed) : typed[i].ahead => typed[i].age + guard > MaxAge
  BY DEF Tick, DecidingHolds, Good, Inv
<1>2. ASSUME NEW x \in Waiting
      PROVE  /\ Aged(x) \in Waiting /\ x.age \in 0 .. MaxAge + 1
             /\ \/ Aged(x).age = MaxAge + 1
                \/ Aged(x).ahead = x.ahead /\ Aged(x).age = x.age + 1
  <2>1. /\ x.input \in Inputs \cup {"stale"} /\ x.age \in 0 .. MaxAge + 1
        /\ x.ahead \in BOOLEAN /\ MaxAge \in Nat
    BY Numbers DEF Waiting
  <2>2. CASE x.age < MaxAge
    <3>1. /\ Aged(x) = [x EXCEPT !.age = @ + 1]
          /\ [x EXCEPT !.age = @ + 1]
               = [input |-> x.input, age |-> x.age + 1, ahead |-> x.ahead]
      BY <2>2 DEF Aged, Waiting
    <3>2. x.age + 1 \in 0 .. MaxAge + 1 /\ x.age + 1 <= MaxAge
      BY <2>1, <2>2
    <3> QED BY <2>1, <3>1, <3>2 DEF Waiting
  <2>3. CASE ~(x.age < MaxAge)
    <3>1. Aged(x) = Stale
      BY <2>3 DEF Aged
    <3>2. MaxAge + 1 \in 0 .. MaxAge + 1
      BY <2>1
    <3> QED BY <2>1, <3>1, <3>2 DEF Stale, Waiting
  <2> QED BY <2>2, <2>3
<1>3. Len(typed) \in Nat /\ DOMAIN typed = 1 .. Len(typed)
      /\ \A i \in 1 .. Len(typed) : typed[i] \in Waiting
  BY <1>1, LenProperties, ElementOfSeq
<1>4. typed' \in [1 .. Len(typed) -> Waiting]
  BY <1>1, <1>2, <1>3
<1>5. typed' \in Seq(Waiting) /\ Len(typed') = Len(typed)
  BY <1>3, <1>4, SeqDef, LenProperties
<1>6. guard' \in 0 .. MaxAge
  BY <1>1, Numbers
<1>7. ASSUME NEW i \in 1 .. Len(typed), typed'[i].ahead
      PROVE  typed'[i].age + guard' > MaxAge
  <2>1. typed[i] \in Waiting /\ typed'[i] = Aged(typed[i])
    BY <1>1, <1>3
  <2>2. CASE Aged(typed[i]).age = MaxAge + 1
    <3>1. guard' \in Nat /\ MaxAge \in Nat
      BY <1>6, Numbers
    <3>2. typed'[i].age = MaxAge + 1
      BY <2>1, <2>2
    <3>3. \A g, m \in Nat : m + 1 + g > m
      OBVIOUS
    <3> QED BY <3>1, <3>2, <3>3
  <2>3. CASE /\ Aged(typed[i]).ahead = typed[i].ahead
             /\ Aged(typed[i]).age = typed[i].age + 1
    <3>1. typed[i].age + guard > MaxAge /\ typed[i].age \in 0 .. MaxAge + 1
      BY <1>1, <1>2, <1>7, <2>1, <2>3
    <3> QED BY <1>1, <2>3, <3>1, Numbers
  <2> QED BY <1>2, <2>1, <2>2, <2>3
<1>8. DecidingHolds'
  BY <1>1, <1>5, <1>6, <1>7 DEF DecidingHolds, Good, Inv
<1> QED BY <1>8, DecidingOnly DEF Tick

\* What is left of the input when the first is taken.
LEMMA TailOfTyped ==
  ASSUME DecidingHolds, typed # <<>>
  PROVE  /\ Tail(typed) \in Seq(Waiting) /\ Len(Tail(typed)) \in Nat
         /\ Len(Tail(typed)) <= MaxTyped
         /\ \A i \in 1 .. Len(Tail(typed)) :
              /\ Tail(typed)[i] \in Waiting
              /\ Tail(typed)[i].ahead => Tail(typed)[i].age + guard > MaxAge
<1>1. /\ typed \in Seq(Waiting) /\ Len(typed) <= MaxTyped
      /\ \A i \in 1 .. Len(typed) : typed[i].ahead => typed[i].age + guard > MaxAge
  BY DEF DecidingHolds
<1>2. /\ Tail(typed) \in Seq(Waiting) /\ Len(Tail(typed)) = Len(typed) - 1
      /\ \A i \in 1 .. Len(Tail(typed)) : Tail(typed)[i] = typed[i + 1]
  BY <1>1, HeadTailProperties
<1>3. Len(typed) \in Nat /\ Len(Tail(typed)) \in Nat
  BY <1>1, <1>2, LenProperties
<1>4. Len(Tail(typed)) <= MaxTyped
  BY <1>1, <1>2, <1>3, Numbers
<1>5. \A i \in 1 .. Len(Tail(typed)) : i + 1 \in 1 .. Len(typed)
  BY <1>2, <1>3
<1>6. \A i \in 1 .. Len(typed) : typed[i] \in Waiting
  BY <1>1, ElementOfSeq
<1> QED BY <1>1, <1>2, <1>3, <1>4, <1>5, <1>6

\* The first input is taken, and starts no decision.
LEMMA TakenInput ==
  ASSUME DecidingHolds, typed # <<>>, typed' = Tail(typed), UNCHANGED <<inFlight, guard>>
  PROVE  DecidingHolds'
<1> DEFINE rest == Tail(typed)
<1>1. /\ rest \in Seq(Waiting) /\ Len(rest) <= MaxTyped
      /\ \A i \in 1 .. Len(rest) : rest[i].ahead => rest[i].age + guard > MaxAge
  BY TailOfTyped
<1>2. typed' = rest
  OBVIOUS
<1> HIDE DEF rest
<1> QED BY <1>1, <1>2 DEF DecidingHolds

\* A decision starts with a guard that outlasts what was typed before it.
LEMMA StartStep ==
  ASSUME Good, StartDecision
  PROVE  Good'
<1> DEFINE rest == Tail(typed)
<1>1. DecidingHolds /\ typed # <<>> /\ selectedPending # None
  BY DEF StartDecision, Decidable, First, Good, Inv
<1>2. /\ rest \in Seq(Waiting) /\ Len(rest) \in Nat /\ Len(rest) <= MaxTyped
      /\ \A i \in 1 .. Len(rest) :
           rest[i] \in Waiting /\ (rest[i].ahead => rest[i].age + guard > MaxAge)
  BY <1>1, TailOfTyped
<1>3. /\ inFlight' = [id |-> selectedPending, step |-> "asked"] /\ guard' = MaxAge
      /\ typed' = [i \in DOMAIN rest |-> Older(rest[i])]
  BY DEF StartDecision, GuardTime
<1> HIDE DEF rest
<1>4. selectedPending \in Ids
  BY DEF Good, Inv, PendingHolds, Shown, List, Ids
<1>5. /\ inFlight' \in [id : Ids, step : Steps]
      /\ inFlight'.id = None <=> inFlight'.step = "none"
      /\ guard' \in 0 .. MaxAge
  BY <1>1, <1>3, <1>4, Numbers DEF Steps
<1>6. DOMAIN rest = 1 .. Len(rest)
  BY <1>2, LenProperties
<1>7. ASSUME NEW i \in 1 .. Len(rest)
      PROVE  /\ typed'[i] \in Waiting
             /\ typed'[i].ahead => typed'[i].age + guard' > MaxAge
  <2> DEFINE old == rest[i].ahead \/ rest[i].age > 0
  <2>1. /\ rest[i].input \in Inputs \cup {"stale"} /\ rest[i].age \in 0 .. MaxAge + 1
        /\ rest[i].ahead \in BOOLEAN
        /\ rest[i].input = "stale" \/ rest[i].age <= MaxAge
    BY <1>2 DEF Waiting
  <2>2. typed'[i] = [input |-> rest[i].input, age |-> rest[i].age, ahead |-> old]
    <3>1. typed'[i] = [rest[i] EXCEPT !.ahead = old]
      BY <1>3, <1>6 DEF Older
    <3> QED BY <1>2, <3>1 DEF Waiting
  <2>3. old => rest[i].age > 0
    <3>1. guard \in 0 .. MaxAge
      BY <1>1 DEF DecidingHolds
    <3>2. rest[i].ahead => rest[i].age + guard > MaxAge
      BY <1>2
    <3> QED BY <2>1, <3>1, <3>2, Numbers
  <2>4. old \in BOOLEAN
    OBVIOUS
  <2> HIDE DEF old
  <2>5. typed'[i] \in Waiting
    BY <2>1, <2>2, <2>4 DEF Waiting
  <2>6. typed'[i].age = rest[i].age /\ (typed'[i].ahead => rest[i].age > 0)
    BY <2>2, <2>3
  <2> QED BY <1>3, <2>1, <2>5, <2>6, Numbers
<1>8. typed' \in [1 .. Len(rest) -> Waiting]
  BY <1>3, <1>6, <1>7
<1>9. typed' \in Seq(Waiting) /\ Len(typed') = Len(rest)
  BY <1>2, <1>8, SeqDef, LenProperties
<1>10. DecidingHolds'
  BY <1>2, <1>5, <1>7, <1>9 DEF DecidingHolds
<1> QED BY <1>10, DecidingOnly DEF StartDecision

\* The overlay of a scope opens for the selected request.
LEMMA ScopeStep ==
  ASSUME Good, OpenRuleScope
  PROVE  Good'
<1>1. /\ typed # <<>> /\ selectedPending # None
      /\ visible' = visible \cup {"rule_scope"} /\ closer' = "rule_scope"
      /\ scopeOf' = selectedPending /\ typed' = Tail(typed)
      /\ UNCHANGED <<page, activeJob, api, wake, hidden, pending, jobs, autoSwitch,
                     inFlight, guard>>
  BY DEF OpenRuleScope, Scopable, First
<1>2. selectedPending \in Ids
  BY Names DEF Good, Inv, PendingHolds, Shown, List
<1>3. NavHolds'
  BY <1>1, <1>2, Names DEF NavHolds, Good, Inv
<1>4. DecidingHolds'
  BY <1>1, TakenInput DEF Good, Inv
<1>5. StaleListWakes'
  BY <1>1, StaleFrame DEF Good, pending, jobs
<1> QED BY <1>1, <1>3, <1>4, <1>5, ApiFrame, PendingFrame, JobsFrame DEF Good, Inv

\* A rule is saved for the request its overlay was opened for.
LEMMA SaveScopeStep ==
  ASSUME Good, SaveScope
  PROVE  Good'
<1>1. /\ closer = "rule_scope" /\ typed # <<>> /\ Change(scopeOf, "running")
      /\ visible' = visible \ {"rule_scope"} /\ closer' = NoOverlay /\ scopeOf' = None
      /\ Refresh(status', IF selectedPending = scopeOf THEN None ELSE selectedPending, page)
      /\ typed' = Tail(typed)
      /\ UNCHANGED <<page, activeJob, wake, hidden, autoSwitch, inFlight, guard>>
  BY DEF SaveScope, Savable, First
<1>2. scopeOf \in Requests
  BY <1>1 DEF NavHolds, Good, Inv, Ids
<1>3. ApiTypes' /\ unsaid' # {} /\ status' \in [Requests -> Statuses]
  BY <1>1, <1>2, ChangeEffect DEF ApiTypes, wake, Statuses, Good, Inv
<1>4. PendingHolds' /\ JobsHold'
  BY <1>1, <1>3, RefreshEffect DEF Good, Inv
<1>5. NavHolds'
  BY <1>1, Names DEF NavHolds, Good, Inv
<1>6. DecidingHolds'
  BY <1>1, TakenInput DEF Good, Inv
<1> QED BY <1>1, <1>3, <1>4, <1>5, <1>6 DEF Good, Inv, StaleListWakes

\* Other input is dropped.
LEMMA IgnoreStep ==
  ASSUME Good, Ignore
  PROVE  Good'
<1>1. DecidingHolds'
  BY TakenInput DEF Ignore, Good, Inv
<1> QED BY <1>1, DecidingOnly DEF Ignore

\* The decision is applied, and its update reads the lists again.
LEMMA DecisionStep ==
  ASSUME Good, RunDecision \/ DecisionDone
  PROVE  Good'
<1>1. UNCHANGED <<wake, hidden, nav, autoSwitch, guard, typed>>
  BY DEF RunDecision, DecisionDone
<1>2. inFlight \in [id : Ids, step : Steps] /\ (inFlight.id = None <=> inFlight.step = "none")
  BY DEF DecidingHolds, Good, Inv
<1>3. CASE RunDecision
  <2>1. inFlight.step = "asked" /\ UNCHANGED <<pending, jobs>>
    BY <1>3 DEF RunDecision
  <2>2. inFlight.id \in Requests
    BY <1>2, <2>1 DEF Ids
  <2>3. \/ /\ \E s \in Statuses : Change(inFlight.id, s)
           /\ inFlight' = [inFlight EXCEPT !.step = "applied"]
        \/ inFlight' = [inFlight EXCEPT !.step = "failed"] /\ UNCHANGED api
    BY <1>3 DEF RunDecision, Statuses
  <2>4. /\ inFlight' \in [id : Ids, step : Steps]
        /\ inFlight'.id = None <=> inFlight'.step = "none"
    BY <1>2, <2>1, <2>3 DEF Steps
  <2>5. DecidingHolds'
    BY <1>1, <2>4 DEF DecidingHolds, Good, Inv
  <2>6. CASE UNCHANGED api
    BY <1>1, <2>1, <2>5, <2>6, DecidingOnly
  <2>7. CASE \E s \in Statuses : Change(inFlight.id, s)
    <3>1. PICK s \in Statuses : Change(inFlight.id, s)
      BY <2>7
    <3>2. ApiTypes' /\ unsaid' # {}
      BY <1>1, <2>2, <3>1, ChangeEffect DEF ApiTypes, wake, Good, Inv
    <3> QED BY <1>1, <2>1, <2>5, <3>2, PendingFrame, JobsFrame, NavFrame
            DEF Good, Inv, StaleListWakes
  <2> QED BY <2>3, <2>6, <2>7
<1>4. CASE DecisionDone
  <2>1. /\ UNCHANGED api /\ inFlight' = NoDecision
        /\ Refresh(status, IF inFlight.step = "applied" /\ selectedPending = inFlight.id
                           THEN None ELSE selectedPending, page)
    BY <1>4 DEF DecisionDone
  <2>2. status \in [Requests -> Statuses] /\ status' = status /\ hidden' = hidden
    BY <1>1, <2>1 DEF ApiTypes, api, Good, Inv
  <2>3. /\ PendingHolds' /\ JobsHold'
        /\ pendingIDs' = Listed(status', hidden') /\ jobList' = Jobs(status')
    BY <2>1, <2>2, RefreshEffect DEF Good, Inv
  <2>4. DecidingHolds'
    BY <1>1, <2>1, Names DEF DecidingHolds, NoDecision, Steps, Good, Inv
  <2> QED BY <1>1, <2>1, <2>3, <2>4, ApiFrame, NavFrame DEF Good, Inv, StaleListWakes
<1> QED BY <1>3, <1>4

-----------------------------------------------------------------------------
(***************************************************************************)
(* The invariant.                                                          *)
(***************************************************************************)
LEMMA InitGood == Init => Good
<1> SUFFICES ASSUME Init PROVE Good
  OBVIOUS
<1>1. \A n \in Nat : n = 0 => 1 .. n = {}
  OBVIOUS
<1>2. ASSUME NEW S, S = {}
      PROVE  OldestFirst(S) = <<>>
  <2>1. 1 .. Cardinality(S) = {}
    BY <1>1, <1>2, FS_EmptySet
  <2> QED BY <2>1 DEF OldestFirst
<1>3. /\ status = [r \in Requests |-> "new"] /\ pendingIDs = <<>> /\ jobList = <<>>
  BY DEF Init
<1>4. Listed(status, hidden) = <<>>
  <2>1. {r \in Requests \ hidden : status[r] = "pending"} = {}
    BY <1>3
  <2> QED BY <1>2, <2>1 DEF Listed
<1>5. Jobs(status) = <<>>
  <2>1. {r \in Requests : status[r] \in {"running", "done"}} = {}
    BY <1>3
  <2>2. OldestFirst({r \in Requests : status[r] \in {"running", "done"}}) = <<>>
    BY <1>2, <2>1
  <2>3. Reverse(<<>>) = <<>>
    BY DEF Reverse
  <2>4. Jobs(status) = [i \in DOMAIN <<>> |-> [id |-> <<>>[i], status |-> status[<<>>[i]]]]
    BY <2>2, <2>3 DEF Jobs
  <2> QED BY <2>4
<1>6. ApiTypes
  <2>1. status \in [Requests -> Statuses] /\ unsaid \subseteq Requests
    BY DEF Init, Statuses
  <2>2. channel \in 0 .. HubSize /\ signal \in BOOLEAN /\ redraw \in BOOLEAN
    <3>1. channel = 0 /\ signal = FALSE /\ redraw = FALSE
      BY DEF Init
    <3>2. 0 \in 0 .. HubSize
      BY Numbers
    <3> QED BY <3>1, <3>2
  <2> QED BY <2>1, <2>2 DEF ApiTypes
<1>7. PendingHolds
  <2>1. List(<<>>)
    <3>1. <<>> \in [1 .. 0 -> Requests] /\ IsInjective(<<>>)
      BY DEF IsInjective
    <3> QED BY <3>1 DEF List
  <2> QED BY <2>1, Names DEF Init, PendingHolds, Shown, CacheHolds
<1>8. JobsHold
  <2>1. <<>> \in [1 .. 0 -> Rows]
    OBVIOUS
  <2> QED BY <2>1, Names DEF Init, JobsHold
<1>9. NavHolds
  BY Names, Numbers DEF Init, NavHolds
<1>10. DecidingHolds
  <2>1. typed = <<>> /\ <<>> \in Seq(Waiting) /\ Len(<<>>) = 0
    BY DEF Init
  <2> QED BY <2>1, Names, Numbers DEF Init, DecidingHolds, NoDecision, Steps
<1> QED BY <1>3, <1>4, <1>5, <1>6, <1>7, <1>8, <1>9, <1>10 DEF Good, Inv, StaleListWakes

LEMMA NextStep ==
  ASSUME Good, [Next]_vars
  PROVE  Good'
<1>1. CASE UNCHANGED vars
  <2>1. DecidingHolds'
    BY <1>1, DecidingFrame DEF vars, Good, Inv
  <2> QED BY <1>1, <2>1, DecidingOnly DEF vars
<1>2. CASE \E r \in Requests : Create(r) \/ DecideElsewhere(r) \/ Finish(r) \/ Publish(r)
  BY <1>2, ApiStep
<1>3. CASE Receive \/ Take
  BY <1>3, WakeStep
<1>4. CASE Redraw
  BY <1>4, RedrawStep
<1>5. CASE (\E p \in Pages \ {"job"} : ShowPage(p)) \/ Escape
  BY <1>5, PageStep
<1>6. CASE OpenHelp \/ OpenCopy \/ OpenManualRule \/ CloseButton
             \/ AskKill \/ AskDelete \/ AnswerDelete
  BY <1>6, OverlayStep
<1>7. CASE AnswerKill
  BY <1>7, AnswerKillStep
<1>8. CASE SaveScope
  BY <1>8, SaveScopeStep
<1>9. CASE \E hide \in Filters : SetFilter(hide)
  BY <1>9, FilterStep
<1>10. CASE \E i \in Requests : MoveTo(i) \/ SelectJob(i)
  BY <1>10, SelectionStep
<1>11. CASE (\E r \in Requests : OpenJob(r)) \/ ShowActive
  BY <1>11, JobPageStep
<1>12. CASE \E input \in Inputs : Type(input)
  BY <1>12, TypeStep
<1>13. CASE Tick
  BY <1>13, TickStep
<1>14. CASE StartDecision \/ OpenRuleScope \/ Ignore
  BY <1>14, StartStep, ScopeStep, IgnoreStep
<1>15. CASE RunDecision \/ DecisionDone
  BY <1>15, DecisionStep
<1> QED BY <1>1, <1>2, <1>3, <1>4, <1>5, <1>6, <1>7, <1>8, <1>9, <1>10, <1>11, <1>12,
           <1>13, <1>14, <1>15 DEF Next

LEMMA Invariant == Spec => []Good
<1>1. Init => Good
  BY InitGood
<1>2. Good /\ [Next]_vars => Good'
  BY NextStep
<1> QED BY <1>1, <1>2, PTL DEF Spec

-----------------------------------------------------------------------------
(***************************************************************************)
(* The theorems.                                                           *)
(***************************************************************************)
\* Types; the rows are distinct requests, the highlighted row is one of them,
\* and an overlay that can be closed is on the screen.
THEOREM ConsoleTypeCorrect == Spec => []TypeOK
<1>1. ASSUME Inv
      PROVE  TypeOK
  <2>1. List(pendingIDs) /\ Shown /\ CacheHolds
    BY <1>1 DEF Inv, PendingHolds
  <2>2. /\ IsInjective(pendingIDs) /\ Range(pendingIDs) \subseteq Requests
        /\ current \in {1} \cup DOMAIN pendingIDs
    BY <2>1 DEF List, Shown, Range
  <2>3. {selectedPending, details, cache.id, cache.text} \subseteq Ids
    BY <2>1, Names DEF List, Shown, CacheHolds
  <2>4. {selectedJob, header, activeJob, scopeOf, inFlight.id} \subseteq Ids
    BY <1>1 DEF Inv, JobsHold, NavHolds, DecidingHolds
  <2>5. /\ page \in Pages /\ (page = "job") = (activeJob # None)
        /\ visible \subseteq Closable \cup Confirmations
        /\ closer \in visible \cup {NoOverlay} /\ autoSwitch \in BOOLEAN /\ hidden \in Filters
    BY <1>1 DEF Inv, NavHolds
  <2>6. guard \in 0 .. MaxAge /\ Len(typed) <= MaxTyped
    BY <1>1 DEF Inv, DecidingHolds
  <2> QED BY <1>1, <2>2, <2>3, <2>4, <2>5, <2>6 DEF TypeOK, Inv, ApiTypes, Statuses, Ids
<1> QED BY <1>1, Invariant, PTL DEF Good

\* While a list differs from what the API would list, something is on its way that
\* makes the interface read it again: for any room in the channel of events, and
\* however many of them are dropped or merged (events/hub.go, tui/event_queue.go).
THEOREM StaleListsWake == Spec => []StaleListWakes
BY Invariant, PTL DEF Good

\* A decision and the overlay of a scope take the request that the details show and
\* the list highlights (tui/tview_ui.go, tryStartDecision and openRuleScope).
THEOREM DecisionsFollowTheScreen == Spec => DecidesWhatIsShown
<1>1. ASSUME Good, [Next]_vars, inFlight.id = None, inFlight'.id # None
      PROVE  inFlight'.id = details /\ inFlight'.id = pendingIDs[current]
  <2>1. inFlight' # inFlight
    BY <1>1
  <2>2. inFlight.step = "none" /\ NoDecision.id = None
    BY <1>1 DEF Good, Inv, DecidingHolds, NoDecision
  <2>3. StartDecision
    BY <1>1, <2>1, <2>2 
       DEF Next, vars, deciding, Create, DecideElsewhere, Finish, Publish, Receive, Take,
           Redraw, ShowPage, Escape, OpenHelp, OpenCopy, OpenRuleScope, OpenManualRule,
           OpenOverlay, CloseButton, SaveScope, AskKill, AskDelete, ShowConfirmation,
           AnswerKill, AnswerDelete, Answer, SetFilter, MoveTo, SelectJob, OpenJob,
           ShowActive, Type, Tick, Ignore, RunDecision, DecisionDone
  <2>4. inFlight'.id = selectedPending /\ selectedPending # None
    BY <2>3 DEF StartDecision, Decidable
  <2> QED BY <1>1, <2>4 DEF Good, Inv, PendingHolds, Shown
<1>2. ASSUME Good, [Next]_vars, scopeOf' \notin {scopeOf, None}
      PROVE  scopeOf' = details /\ scopeOf' = pendingIDs[current]
  <2>1. OpenRuleScope
    BY <1>2 
       DEF Next, vars, nav, Create, DecideElsewhere, Finish, Publish, Receive, Take,
           Redraw, ShowPage, Escape, OpenHelp, OpenCopy, OpenRuleScope, OpenManualRule,
           OpenOverlay, CloseButton, SaveScope, AskKill, AskDelete, ShowConfirmation,
           AnswerKill, AnswerDelete, Answer, SetFilter, MoveTo, SelectJob, OpenJob,
           ShowActive, Type, Tick, StartDecision, Ignore, RunDecision, DecisionDone, SwitchTo, CloseOverlay
  <2>2. scopeOf' = selectedPending /\ selectedPending # None
    BY <2>1 DEF OpenRuleScope, Scopable
  <2> QED BY <1>2, <2>2 DEF Good, Inv, PendingHolds, Shown
<1> QED BY <1>1, <1>2, Invariant, PTL DEF Spec, DecidesWhatIsShown

\* Input that was made before a decision started never starts another one
\* (tui/event_queue.go, maxInputEventAge; tui/tview_ui.go, decisionGuardTil).
THEOREM TypedAheadIsIgnored == Spec => TypedAheadDecidesNothing
<1>1. ASSUME Good, [Next]_vars, inFlight.id = None, inFlight'.id # None
      PROVE  ~Head(typed).ahead
  <2>1. inFlight' # inFlight /\ inFlight.step = "none" /\ NoDecision.id = None
    BY <1>1 DEF Good, Inv, DecidingHolds, NoDecision
  <2>2. StartDecision
    BY <1>1, <2>1 
       DEF Next, vars, deciding, Create, DecideElsewhere, Finish, Publish, Receive, Take,
           Redraw, ShowPage, Escape, OpenHelp, OpenCopy, OpenRuleScope, OpenManualRule,
           OpenOverlay, CloseButton, SaveScope, AskKill, AskDelete, ShowConfirmation,
           AnswerKill, AnswerDelete, Answer, SetFilter, MoveTo, SelectJob, OpenJob,
           ShowActive, Type, Tick, Ignore, RunDecision, DecisionDone
  <2>3. typed # <<>> /\ Head(typed).input # "stale" /\ guard = 0
    BY <2>2 DEF StartDecision, Decidable, First
  <2>4. /\ typed \in Seq(Waiting)
        /\ \A i \in 1 .. Len(typed) : typed[i].ahead => typed[i].age + guard > MaxAge
    BY <1>1 DEF Good, Inv, DecidingHolds
  <2>5. Head(typed) = typed[1] /\ 1 \in 1 .. Len(typed) /\ typed[1] \in Waiting
    BY <2>3, <2>4, HeadTailProperties, LenProperties, ElementOfSeq
  <2>6. typed[1].age \in Nat /\ MaxAge \in Nat /\ typed[1].age <= MaxAge
    BY <2>3, <2>5, Numbers DEF Waiting
  <2> QED BY <2>3, <2>4, <2>5, <2>6
<1> QED BY <1>1, Invariant, PTL DEF Spec, TypedAheadDecidesNothing

=============================================================================
