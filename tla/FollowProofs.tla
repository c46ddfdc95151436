---------------------------- MODULE FollowProofs ----------------------------
(***************************************************************************)
(* The exit code and the printed output of a client that follows its       *)
(* command, for any amount of output and any size of the live buffer.      *)
(***************************************************************************)
EXTENDS Follow, FiniteSetTheorems, SequenceTheorems, TLAPS

Statuses == {"none", "PENDING_APPROVAL", "APPROVED", "RUNNING"} \cup Terminal
Records == [status : Statuses, code : Exits \cup {-1, NoCode}]
RunResults ==
  [status : {"none", "SUCCEEDED", "FAILED", "KILLED", "TIMED_OUT"},
   code : Exits \cup {-1}]
ClientSteps ==
  {"create", "away", "poll", "live", "last", "report", "end",
   "tail", "tailPoll", "tailLast", "tailReport", "gone"}
Clients ==
  [step : ClientSteps, rec : Records, lost : BOOLEAN, late : BOOLEAN,
   offset : 0 .. LiveMax, text : Seq(Int), exit : 0 .. 255 \cup {-1}]

\* TypeOK, and the parts of the records it leaves out.
Types ==
  /\ ExecutionTypeOK /\ result \in RunResults
  /\ mem \in Records /\ row \in Records /\ cl \in Clients

\* Processes exist while Run waits for them; nobody writes before and after, and
\* there is a result then.
ProcessesOfRun ==
  /\ run = "none" => leader = "none" /\ child = "none" /\ out = <<>>
  /\ run \in {"returned", "done"} => leader \in {"none", "reaped"} /\ ~Alive
  /\ run = "returned" => leader = "reaped"
  /\ run = "done" => result.status \in Terminal

\* How far the record in memory is, the command is.
RunOfRecord ==
  /\ mem.status \in {"none", "PENDING_APPROVAL", "APPROVED"} => run \in {"none", "lost"}
  /\ mem.status = "RUNNING" => run \in {"waiting", "returned", "done"}
  /\ mem.status \in Terminal => run \in {"none", "done", "lost"}
  /\ cl.step = "create" => run = "none" /\ mem = NoRecord /\ row = NoRecord

\* A request that is pending in its row was not approved, and has not run.
RowOfRun ==
  row.status \in {"none", "PENDING_APPROVAL"} =>
    run = "none" /\ mem.status \in {"none", "PENDING_APPROVAL", "CANCELED"}

\* The request has ended for a client that saw its end, unless it was forgotten, or
\* canceled and brought back by a restart.
EndIsSeen ==
  cl.step \in {"last", "report", "tailLast", "tailReport"} =>
    /\ run = "lost" \/ mem.status \in Terminal \/ cl.rec.status = "CANCELED"
    /\ row.status = "PENDING_APPROVAL" => cl.rec.status = "CANCELED"

EndedWellItself == leader = "reaped" /\ code = 0

\* Whoever says 0 has it from a command that ended with 0, also the rows that the
\* server loads.
ZeroIsTrue ==
  result.code = 0 \/ mem.code = 0 \/ row.code = 0 \/ cl.rec.code = 0 => EndedWellItself

Increasing(text) == \A i, j \in DOMAIN text : i < j => text[i] < text[j]
Least(m, n) == IF m <= n THEN m ELSE n

\* What was printed is output up to now; while the buffer is not full it is all
\* output up to the offset.
PrintedSoFar ==
  /\ cl.offset <= Len(out)
  /\ Increasing(cl.text)
  /\ \A i \in DOMAIN cl.text :
       cl.text[i] <= Len(out) /\ (cl.offset < LiveMax => cl.text[i] <= cl.offset)
  /\ Len(out) <= LiveMax => cl.text = [k \in 1 .. cl.offset |-> k]
  /\ cl.step \in {"report", "tailReport"} /\ cl.rec.status # "CANCELED"
       => cl.offset = Least(Len(out), LiveMax)

Plain == run # "lost" /\ NoSecret /\ ~Torn

Inv ==
  /\ Types /\ ProcessesOfRun /\ RunOfRecord /\ RowOfRun /\ EndIsSeen
  /\ ZeroIsTrue /\ ExitAgrees
  /\ Plain => PrintedSoFar

-----------------------------------------------------------------------------
(***************************************************************************)
(* Places in a text.                                                       *)
(***************************************************************************)
\* Of a finite set of numbers, the number of its members up to one of them names
\* that member, and every place has its member.
LEMMA Places ==
  ASSUME NEW S \in SUBSET Int, IsFiniteSet(S)
  PROVE  \A i \in 1 .. Cardinality(S) :
           \E k \in S : Cardinality({m \in S : m <= k}) = i
<1> DEFINE n == Cardinality(S)
           Place(k) == Cardinality({m \in S : m <= k})
           f == [k \in S |-> Place(k)]
<1>1. n \in Nat
  BY FS_CardinalityType
<1>2. ASSUME NEW k \in S
      PROVE  Place(k) \in 1 .. n
  <2>1. /\ {m \in S : m <= k} \in SUBSET S
        /\ {m \in S : m <= k} # {}
    OBVIOUS
  <2> HIDE DEF Place
  <2>2. /\ IsFiniteSet({m \in S : m <= k})
        /\ Place(k) <= n
    BY <2>1, FS_Subset DEF Place
  <2>3. Place(k) \in Nat /\ Place(k) # 0
    BY <2>1, <2>2, FS_CardinalityType, FS_EmptySet DEF Place
  <2> QED BY <1>1, <2>2, <2>3
<1>3. ASSUME NEW j \in S, NEW k \in S, j < k
      PROVE  Place(j) # Place(k)
  <2>1. /\ {m \in S : m <= j} \in SUBSET {m \in S : m <= k}
        /\ k \in {m \in S : m <= k} /\ k \notin {m \in S : m <= j}
    <3>1. j \in Int /\ k \in Int /\ j < k
      BY <1>3
    <3>2. \A m \in S : m \in Int /\ (m <= j => m <= k)
      BY <3>1
    <3>3. {m \in S : m <= j} \subseteq {m \in S : m <= k}
      BY <3>2
    <3>4. ~(k <= j) /\ k <= k
      BY <3>1
    <3> QED BY <3>3, <3>4
  <2>2. IsFiniteSet({m \in S : m <= k})
    BY FS_Subset
  <2> QED BY <2>1, <2>2, FS_Subset
<1>4. f \in Injection(S, 1 .. n)
  <2>1. f \in [S -> 1 .. n]
    BY <1>2
  <2>2. \A j, k \in S : f[j] = f[k] => j = k
    <3> HIDE DEF Place
    <3>1. \A j, k \in S : j < k \/ k < j \/ j = k
      OBVIOUS
    <3> QED BY <1>3, <3>1
  <2> HIDE DEF f
  <2> QED BY <2>1, <2>2 DEF Injection, IsInjective
<1>5. IsFiniteSet(1 .. n) /\ Cardinality(1 .. n) = n
  <2>1. 1 \in Int /\ n \in Int
    BY <1>1
  <2> QED BY <1>1, <2>1, FS_Interval
<1>6. f \in Surjection(S, 1 .. n)
  BY <1>4, <1>5, FS_Injection
<1>7. \A i \in 1 .. n : \E k \in S : f[k] = i
  <2> HIDE DEF f, Place, n
  <2> QED BY <1>6 DEF Surjection
<1> QED BY <1>7

-----------------------------------------------------------------------------
(***************************************************************************)
(* What the server shows.                                                  *)
(***************************************************************************)
\* The window holds positions of the output, and no more than the buffer may.
LEMMA WindowBounds ==
  ASSUME Types
  PROVE  /\ Window \in SUBSET (1 .. Len(out))
         /\ \A part \in SUBSET Window :
              /\ part \in SUBSET Int /\ IsFiniteSet(part)
              /\ Cardinality(part) \in Nat /\ Cardinality(part) <= LiveMax
<1> DEFINE Tail1 == Len(out) - LiveMax + 1 .. Len(out)
<1>1. Len(out) \in Nat /\ LiveMax \in Nat \ {0}
  BY FollowAssumption DEF FollowAssumption, Types, ExecutionTypeOK
<1>2. Window \in SUBSET (1 .. Len(out)) /\ Window \in SUBSET Tail1
  BY <1>1 DEF Window
<1>3. IsFiniteSet(Tail1) /\ Cardinality(Tail1) = LiveMax
  <2>1. Len(out) - LiveMax + 1 \in Int /\ Len(out) \in Int
    BY <1>1
  <2>2. /\ ~(Len(out) - LiveMax + 1 > Len(out))
        /\ Len(out) - (Len(out) - LiveMax + 1) + 1 = LiveMax
    BY <1>1
  <2> QED BY <2>1, <2>2, FS_Interval
<1>4. ASSUME NEW part \in SUBSET Window
      PROVE  /\ part \in SUBSET Int /\ IsFiniteSet(part)
             /\ Cardinality(part) \in Nat /\ Cardinality(part) <= LiveMax
  <2>1. part \in SUBSET Tail1 /\ part \in SUBSET Int
    BY <1>1, <1>2
  <2> HIDE DEF Tail1
  <2>2. IsFiniteSet(part) /\ Cardinality(part) <= LiveMax
    BY <1>3, <2>1, FS_Subset
  <2> QED BY <2>1, <2>2, FS_CardinalityType
<1> QED BY <1>2, <1>4

\* A text is a sequence of positions that fits in the buffer.
LEMMA TextType ==
  ASSUME Types
  PROVE  /\ Text(Window) \in Seq(Int)
         /\ Len(Text(Window)) \in Nat /\ Len(Text(Window)) <= LiveMax
<1> DEFINE shown == {k \in Window : Secret(k, Window) => out[k] = "close"}
           At(i) == CHOOSE k \in shown : Cardinality({m \in shown : m <= k}) = i
           n == Cardinality(shown)
<1>1. shown \in SUBSET Window
  OBVIOUS
<1>2. /\ shown \in SUBSET Int /\ IsFiniteSet(shown)
      /\ n \in Nat /\ n <= LiveMax
  <2> HIDE DEF shown
  <2> QED BY <1>1, WindowBounds
<1>3. \A i \in 1 .. n : At(i) \in Int
  <2> HIDE DEF shown
  <2>1. \A i \in 1 .. n : \E k \in shown : Cardinality({m \in shown : m <= k}) = i
    BY <1>2, Places
  <2>2. \A i \in 1 .. n : At(i) \in shown
    BY <2>1
  <2> QED BY <1>2, <2>2
<1>4. Text(Window) =
        [i \in 1 .. n |-> IF Secret(At(i), Window) THEN -At(i) ELSE At(i)]
  BY DEF Text
<1> HIDE DEF n, At, shown
<1> QED BY <1>2, <1>3, <1>4

\* A look that meets an append sees a 0 at the end.
LEMMA LiveTextTypes ==
  ASSUME Types, NEW text \in LiveTexts
  PROVE  /\ text \in Seq(Int) /\ Len(text) \in Nat /\ Len(text) <= LiveMax
         /\ Len(text) = Len(Text(Window))
         /\ text # Text(Window) => Len(text) # 0 /\ text[Len(text)] = 0
<1> DEFINE whole == Text(Window)
<1>1. whole \in Seq(Int) /\ Len(whole) \in Nat /\ Len(whole) <= LiveMax
  BY TextType
<1>2. text = whole \/ (whole # <<>> /\ text = [whole EXCEPT ![Len(whole)] = 0])
  BY DEF LiveTexts
<1> HIDE DEF whole
<1>3. CASE text = whole
  BY <1>1, <1>3 DEF whole
<1>4. CASE whole # <<>> /\ text = [whole EXCEPT ![Len(whole)] = 0]
  <2>1. Len(whole) # 0 /\ Len(whole) \in 1 .. Len(whole)
    BY <1>1, <1>4
  <2> QED BY <1>1, <1>4, <2>1 DEF whole
<1> QED BY <1>2, <1>3, <1>4

\* Without a secret the text is the tail of the output.
LEMMA PlainText ==
  ASSUME Types, ProcessesOfRun, run # "lost", NoSecret
  PROVE  /\ Len(Text(Window)) = Least(Len(out), LiveMax)
         /\ \A i \in 1 .. Len(Text(Window)) :
              Text(Window)[i] = Len(out) - Len(Text(Window)) + i
<1> DEFINE n == Least(Len(out), LiveMax)
           low == Len(out) - n
           At(i) == CHOOSE k \in Window : Cardinality({m \in Window : m <= k}) = i
<1>1. /\ Len(out) \in Nat /\ LiveMax \in Nat \ {0} /\ n \in Nat /\ low \in Nat
      /\ low + n = Len(out) /\ (low = 0 \/ low = Len(out) - LiveMax)
      /\ low >= Len(out) - LiveMax
  BY FollowAssumption DEF FollowAssumption, Types, ExecutionTypeOK, Least
<1> HIDE DEF low, n
<1>2. Window = low + 1 .. Len(out)
  <2>1. CASE run = "none"
    <3>1. Len(out) = 0
      BY <2>1 DEF ProcessesOfRun
    <3> QED BY <1>1, <2>1, <3>1 DEF Window
  <2>2. CASE run # "none"
    BY <1>1, <2>2 DEF Window
  <2> QED BY <2>1, <2>2
<1>3. \A k \in Window : ~Secret(k, Window)
  <2> SUFFICES ASSUME NEW k \in Window, Secret(k, Window)
               PROVE  FALSE
    OBVIOUS
  <2>1. PICK i \in Window, j \in Window :
          i <= k /\ k <= j /\ out[i] = "open" /\ out[j] = "close"
    BY DEF Secret
  <2>2. i \in DOMAIN out /\ j \in DOMAIN out /\ i < j
    BY <1>1, <1>2, <2>1 DEF Types, ExecutionTypeOK
  <2> QED BY <2>1, <2>2 DEF NoSecret
<1>4. /\ Cardinality(Window) = n
      /\ \A k \in Window : Cardinality({m \in Window : m <= k}) = k - low
  <2>1. Cardinality(low + 1 .. Len(out)) = n
    <3>1. low + 1 \in Int /\ Len(out) \in Int
      BY <1>1
    <3>2. Cardinality(low + 1 .. Len(out)) =
            IF low + 1 > Len(out) THEN 0 ELSE Len(out) - (low + 1) + 1
      BY <3>1, FS_Interval
    <3> QED BY <1>1, <3>2
  <2>2. ASSUME NEW k \in Window
        PROVE  Cardinality({m \in Window : m <= k}) = k - low
    <3>1. k \in Int /\ low + 1 <= k /\ k <= Len(out)
      BY <1>1, <1>2
    <3>2. {m \in Window : m <= k} = low + 1 .. k
      BY <1>1, <1>2, <3>1
    <3>3. Cardinality(low + 1 .. k) = k - low
      <4>1. low + 1 \in Int /\ ~(low + 1 > k) /\ k - (low + 1) + 1 = k - low
        BY <1>1, <3>1
      <4> QED BY <3>1, <4>1, FS_Interval
    <3> QED BY <3>2, <3>3
  <2> QED BY <1>2, <2>1, <2>2
<1>5. \A i \in 1 .. n : At(i) = low + i /\ At(i) \in Window
  <2>1. ASSUME NEW i \in 1 .. n
        PROVE  At(i) = low + i /\ At(i) \in Window
    <3>1. low + i \in Window /\ (low + i) - low = i
      BY <1>1, <1>2
    <3>2. At(i) \in Window /\ Cardinality({m \in Window : m <= At(i)}) = i
      BY <1>4, <3>1
    <3> HIDE DEF At
    <3>3. At(i) - low = i
      BY <1>4, <3>2
    <3>4. At(i) \in Int
      BY <1>1, <1>2, <3>2
    <3> QED BY <1>1, <3>2, <3>3, <3>4
  <2> QED BY <2>1
<1>6. {k \in Window : Secret(k, Window) => out[k] = "close"} = Window
  BY <1>3
<1>7. Text(Window) =
        [i \in 1 .. n |-> IF Secret(At(i), Window) THEN -At(i) ELSE At(i)]
  <2> DEFINE shown == {k \in Window : Secret(k, Window) => out[k] = "close"}
             Shown(i) == CHOOSE k \in shown : Cardinality({m \in shown : m <= k}) = i
  <2>1. Text(Window) =
          [i \in 1 .. Cardinality(shown) |->
             IF Secret(Shown(i), Window) THEN -Shown(i) ELSE Shown(i)]
    BY DEF Text
  <2>2. shown = Window
    BY <1>6
  <2> HIDE DEF shown
  <2> QED BY <1>4, <2>1, <2>2
<1> HIDE DEF At
<1>8. Text(Window) = [i \in 1 .. n |-> low + i]
  BY <1>3, <1>5, <1>7
<1> QED BY <1>1, <1>8 DEF low, n

-----------------------------------------------------------------------------
(***************************************************************************)
(* What the client does.                                                   *)
(***************************************************************************)
Ending == {"last", "report", "tailLast", "tailReport"}
Reporting == {"report", "tailReport"}

\* The steps of the client, among them those that only time takes.
ClientActs == Advance \/ GiveUp \/ BecomeLate \/ Resume \/ TailBegins

\* A client that begins or ends has printed nothing; one that goes on keeps
\* what it printed.
LEMMA ClientUpdates ==
  /\ NoRecord \in Records /\ NoRecord.code # 0
  /\ \A s \in ClientSteps :
       /\ NewClient(s) \in Clients
       /\ NewClient(s).step = s /\ NewClient(s).rec = NoRecord
       /\ NewClient(s).text = <<>> /\ NewClient(s).offset = 0
       /\ NewClient(s).exit = -1
  /\ \A e \in 0 .. 255 :
       LET c == [NewClient("end") EXCEPT !.exit = e]
       IN c \in Clients /\ c.step = "end" /\ c.rec = NoRecord /\ c.exit = e
                        /\ c.text = <<>> /\ c.offset = 0
<1>1. 0 \in 0 .. LiveMax /\ <<>> \in Seq(Int) /\ -1 \in 0 .. 255 \cup {-1}
  BY FollowAssumption DEF FollowAssumption
<1>2. NoRecord \in Records /\ NoRecord.code # 0
  BY DEF NoRecord, Records, Statuses, NoCode
<1>3. \A s \in ClientSteps :
        /\ NewClient(s) \in Clients
        /\ NewClient(s).step = s /\ NewClient(s).rec = NoRecord
        /\ NewClient(s).text = <<>> /\ NewClient(s).offset = 0
        /\ NewClient(s).exit = -1
  BY <1>1, <1>2 DEF NewClient, Clients
<1>4. \A e \in 0 .. 255 :
        LET c == [NewClient("end") EXCEPT !.exit = e]
        IN c \in Clients /\ c.step = "end" /\ c.rec = NoRecord /\ c.exit = e
                         /\ c.text = <<>> /\ c.offset = 0
  <2>1. "end" \in ClientSteps
    BY DEF ClientSteps
  <2> QED BY <1>3, <2>1 DEF Clients
<1> QED BY <1>2, <1>3, <1>4

\* A client that keeps what it printed.
Kept(c, s, r) ==
  c \in Clients /\ c.step = s /\ c.rec = r /\ c.text = cl.text /\ c.offset = cl.offset

LEMMA KeptParts ==
  ASSUME Types
  PROVE  /\ \A s \in ClientSteps : Kept([cl EXCEPT !.step = s], s, cl.rec)
         /\ \A b \in BOOLEAN : /\ Kept([cl EXCEPT !.lost = b], cl.step, cl.rec)
                               /\ Kept([cl EXCEPT !.late = b], cl.step, cl.rec)
         /\ \A s \in ClientSteps, b \in BOOLEAN :
              Kept([cl EXCEPT !.lost = b, !.step = s], s, cl.rec)
         /\ \A s \in ClientSteps, b \in BOOLEAN :
              Kept([cl EXCEPT !.lost = b, !.step = s, !.rec = mem], s, mem)
         /\ \A s \in ClientSteps : Kept([cl EXCEPT !.step = s, !.rec = mem], s, mem)
<1>1. cl \in Clients /\ mem \in Records
  BY DEF Types
<1>2. \A s \in ClientSteps : Kept([cl EXCEPT !.step = s], s, cl.rec)
  BY <1>1 DEF Kept, Clients
<1>3. \A b \in BOOLEAN : Kept([cl EXCEPT !.lost = b], cl.step, cl.rec)
  BY <1>1 DEF Kept, Clients
<1>4. \A b \in BOOLEAN : Kept([cl EXCEPT !.late = b], cl.step, cl.rec)
  BY <1>1 DEF Kept, Clients
<1>5. \A s \in ClientSteps, b \in BOOLEAN :
        Kept([cl EXCEPT !.lost = b, !.step = s], s, cl.rec)
  BY <1>1 DEF Kept, Clients
<1>6. \A s \in ClientSteps, b \in BOOLEAN :
        Kept([cl EXCEPT !.lost = b, !.step = s, !.rec = mem], s, mem)
  BY <1>1 DEF Kept, Clients
<1>7. \A s \in ClientSteps : Kept([cl EXCEPT !.step = s, !.rec = mem], s, mem)
  BY <1>1 DEF Kept, Clients
<1> QED BY <1>2, <1>3, <1>4, <1>5, <1>6, <1>7

\* The parts of the client after it printed what lies after an offset of a text.
LEMMA PrintedParts ==
  ASSUME Types, NEW text \in LiveTexts, NEW offset \in 0 .. LiveMax,
         NEW s \in ClientSteps, cl' = [Printed(text, offset) EXCEPT !.step = s]
  PROVE  /\ cl' \in Clients /\ cl'.step = s /\ cl'.rec = cl.rec
         /\ cl'.text = cl.text \o SubSeq(text, offset + 1, Len(text))
         /\ cl'.offset = IF Len(text) > offset THEN Len(text) ELSE offset
<1> DEFINE t == cl.text \o SubSeq(text, offset + 1, Len(text))
           o == IF Len(text) > offset THEN Len(text) ELSE offset
<1>1. cl \in Clients /\ cl.text \in Seq(Int)
  BY DEF Types, Clients
<1>2. t \in Seq(Int)
  <2>1. text \in Seq(Int) /\ Len(text) \in Nat
    BY LiveTextTypes
  <2>2. SubSeq(text, offset + 1, Len(text)) \in Seq(Int)
    BY <2>1
  <2> QED BY <1>1, <2>2
<1>3. o \in 0 .. LiveMax
  BY LiveTextTypes, FollowAssumption DEF FollowAssumption
<1>4. cl' = [[cl EXCEPT !.text = t, !.offset = o] EXCEPT !.step = s]
  BY DEF Printed
<1> HIDE DEF t, o
<1>5. cl' \in Clients /\ cl'.step = s /\ cl'.rec = cl.rec /\ cl'.text = t /\ cl'.offset = o
  BY <1>1, <1>2, <1>3, <1>4 DEF Clients
<1> QED BY <1>5 DEF t, o

\* The offset from which a text is printed lies in the buffer.
LEMMA OffsetType ==
  ASSUME Types
  PROVE  /\ cl.offset \in 0 .. LiveMax
         /\ \A text : Offset(text) \in 0 .. LiveMax
BY FollowAssumption DEF FollowAssumption, Types, Clients, Offset

\* The client prints the new part of a live text.
Prints ==
  \E text \in LiveTexts, offset \in 0 .. LiveMax :
    /\ offset = cl.offset \/ offset = Offset(text)
    /\ cl'.text = cl.text \o SubSeq(text, offset + 1, Len(text))
    /\ cl'.offset = IF Len(text) > offset THEN Len(text) ELSE offset

\* The client creates the request.
Submits ==
  /\ cl.step = "create"
  /\ mem' = [NoRecord EXCEPT !.status = "PENDING_APPROVAL"] /\ row' = mem'

\* What a step of the client does.
ClientDoes ==
  /\ UNCHANGED execution
  /\ Submits \/ UNCHANGED <<mem, row>>
  /\ cl' \in Clients /\ cl'.step # "create"
  /\ cl'.rec \in {cl.rec, NoRecord, mem}
  /\ cl'.step = "end" => cl'.exit # 0 \/ cl.rec.code = 0
  /\ cl'.step \in Ending =>
       /\ \/ cl.step \in Ending /\ cl'.rec = cl.rec
          \/ mem.status \in Terminal /\ cl'.rec = mem
       /\ UNCHANGED <<mem, row>>
  /\ \/ cl'.text = <<>> /\ cl'.offset = 0 /\ cl'.step \notin Reporting
     \/ cl'.text = cl.text /\ cl'.offset = cl.offset /\ cl'.step \notin Reporting
     \/ Prints

\* A client that ends.
LEMMA EndDoes ==
  ASSUME Types, UNCHANGED execution, NEW e \in 0 .. 255, End(e),
         e # 0 \/ cl.rec.code = 0,
         Submits \/ UNCHANGED <<mem, row>>
  PROVE  ClientDoes
BY ClientUpdates DEF ClientDoes, End, Ending, Reporting

\* A client that begins anew.
LEMMA BeginDoes ==
  ASSUME Types, UNCHANGED <<execution, mem, row>>, NEW s \in {"poll", "tail", "gone"},
         cl' = NewClient(s)
  PROVE  ClientDoes
<1>1. s \in ClientSteps /\ s \notin {"create", "end"} \cup Ending \cup Reporting
  BY DEF ClientSteps, Ending, Reporting
<1>2. /\ cl' \in Clients /\ cl'.step = s /\ cl'.rec = NoRecord
      /\ cl'.text = <<>> /\ cl'.offset = 0
  BY <1>1, ClientUpdates
<1> QED BY <1>1, <1>2 DEF ClientDoes

\* A client that prints.
LEMMA PrintDoes ==
  ASSUME Types, UNCHANGED <<execution, mem, row>>, NEW text \in LiveTexts,
         NEW offset \in 0 .. LiveMax, offset = cl.offset \/ offset = Offset(text),
         NEW s \in ClientSteps \ {"create", "end"},
         cl' = [Printed(text, offset) EXCEPT !.step = s],
         s \in Ending => cl.step \in Ending
  PROVE  ClientDoes
<1>1. /\ cl' \in Clients /\ cl'.step = s /\ cl'.rec = cl.rec
      /\ cl'.text = cl.text \o SubSeq(text, offset + 1, Len(text))
      /\ cl'.offset = IF Len(text) > offset THEN Len(text) ELSE offset
  BY PrintedParts
<1>2. Prints
  BY <1>1 DEF Prints
<1> QED BY <1>1, <1>2 DEF ClientDoes

\* A client that goes on.
LEMMA KeepDoes ==
  ASSUME Types, UNCHANGED execution,
         NEW s, NEW r \in {cl.rec, mem}, Kept(cl', s, r),
         s \notin {"create", "end"} \cup Reporting,
         Submits \/ UNCHANGED <<mem, row>>,
         s \in Ending =>
           (mem.status \in Terminal /\ r = mem) \/ (cl.step \in Ending /\ r = cl.rec),
         s \in Ending => UNCHANGED <<mem, row>>
  PROVE  ClientDoes
BY DEF ClientDoes, Kept

LEMMA ClientEffect ==
  ASSUME Types, ClientActs
  PROVE  ClientDoes
<1>1. cl.rec \in Records
  BY DEF Types, Clients
<1>2. ASSUME NEW rec \in Records
      PROVE  ExitCode(rec) \in 0 .. 255 /\ (ExitCode(rec) = 0 => rec.code = 0)
  BY DEF ExitCode
<1>3. CASE Create
  <2>1. /\ cl.step = "create" /\ UNCHANGED execution
        /\ Submits \/ UNCHANGED <<mem, row>>
    BY <1>3 DEF Create, Status, NoRecord, Submits
  <2>2. CASE End(1)
    <3>1. 1 \in 0 .. 255 /\ 1 # 0
      OBVIOUS
    <3> QED BY <1>3, <2>1, <2>2, <3>1, EndDoes DEF Create
  <2>3. CASE ~End(1)
    <3>1. PICK s \in {"poll", "away"} : cl' = [cl EXCEPT !.step = s]
      BY <1>3, <2>3 DEF Create
    <3>2. s \in ClientSteps /\ s \notin {"create", "end"} \cup Reporting \cup Ending
      BY DEF ClientSteps, Ending, Reporting
    <3>3. Kept(cl', s, cl.rec)
      BY <3>1, <3>2, KeptParts
    <3> QED BY <1>3, <2>1, <2>3, <3>2, <3>3, KeepDoes DEF Create
  <2> QED BY <2>2, <2>3
<1>4. CASE PollAnswered
  <2>1. "last" \in ClientSteps /\ "live" \in ClientSteps
    BY DEF ClientSteps
  <2>2. CASE mem.status \in Terminal
    <3>1. Kept(cl', "last", mem)
      BY <1>4, <2>1, <2>2, KeptParts DEF PollAnswered
    <3> QED BY <1>4, <2>2, <3>1, KeepDoes DEF PollAnswered, Reporting
  <2>3. CASE mem.status \notin Terminal
    <3>1. Kept(cl', "live", cl.rec)
      BY <1>4, <2>1, <2>3, KeptParts DEF PollAnswered
    <3> QED BY <1>4, <3>1, KeepDoes DEF PollAnswered, Reporting, Ending
  <2> QED BY <2>2, <2>3
<1>5. CASE PollRefused \/ WaitTimesOut \/ GiveUp
  <2>1. 1 \in 0 .. 255 /\ 1 # 0 /\ End(1) /\ UNCHANGED <<execution, mem, row>>
    BY <1>5 DEF PollRefused, WaitTimesOut, GiveUp
  <2> QED BY <2>1, EndDoes
<1>6. CASE PollFails \/ BecomeLate
  <2>1. Kept(cl', cl.step, cl.rec)
    BY <1>6, KeptParts DEF PollFails, BecomeLate
  <2>2. /\ cl.step \in {"poll", "live", "last"} /\ UNCHANGED <<execution, mem, row>>
        /\ cl.step \notin {"create", "end"} \cup Reporting
    BY <1>6 DEF PollFails, BecomeLate, Reporting
  <2> QED BY <2>1, <2>2, KeepDoes
<1>7. CASE LookAnswered
  <2>1. PICK text \in LiveTexts : cl' = [Printed(text, Offset(text)) EXCEPT !.step = "poll"]
    BY <1>7 DEF LookAnswered
  <2>2. "poll" \in ClientSteps \ ({"create", "end"} \cup Ending)
    BY DEF ClientSteps, Ending
  <2> QED BY <1>7, <2>1, <2>2, PrintDoes, OffsetType DEF LookAnswered
<1>8. CASE LookFails
  <2>1. "poll" \in ClientSteps \ ({"create", "end"} \cup Ending \cup Reporting)
    BY DEF ClientSteps, Ending, Reporting
  <2>2. Kept(cl', "poll", cl.rec)
    BY <1>8, <2>1, KeptParts DEF LookFails
  <2> QED BY <1>8, <2>1, <2>2, KeepDoes DEF LookFails
<1>9. CASE LastAnswered
  <2>1. PICK text \in LiveTexts : cl' = [Printed(text, Offset(text)) EXCEPT !.step = "report"]
    BY <1>9 DEF LastAnswered
  <2>2. "report" \in ClientSteps \ {"create", "end"} /\ cl.step \in Ending
    BY <1>9 DEF ClientSteps, Ending, LastAnswered
  <2> QED BY <1>9, <2>1, <2>2, PrintDoes, OffsetType DEF LastAnswered
<1>10. CASE LastFails \/ Report
  <2>1. /\ End(ExitCode(cl.rec)) /\ UNCHANGED <<execution, mem, row>>
        /\ ExitCode(cl.rec) \in 0 .. 255
        /\ ExitCode(cl.rec) # 0 \/ cl.rec.code = 0
    BY <1>1, <1>2, <1>10 DEF LastFails, Report
  <2> QED BY <2>1, EndDoes
<1>11. CASE Resume \/ TailBegins
  BY <1>11, BeginDoes DEF Resume, TailBegins
<1>12. CASE TailLooks \/ TailLast
  <2>1. UNCHANGED <<execution, mem, row>>
    BY <1>12 DEF TailLooks, TailLast
  <2>2. CASE cl' = NewClient("gone")
    BY <2>1, <2>2, BeginDoes
  <2>3. CASE cl' # NewClient("gone")
    <3>1. PICK text \in LiveTexts, s \in {"tailPoll", "tailReport"} :
            /\ cl' = [Printed(text, cl.offset) EXCEPT !.step = s]
            /\ s = "tailReport" => cl.step = "tailLast"
      BY <1>12, <2>3 DEF TailLooks, TailLast
    <3>2. s \in ClientSteps \ {"create", "end"} /\ (s \in Ending => cl.step \in Ending)
      BY <3>1 DEF ClientSteps, Ending
    <3> QED BY <2>1, <3>1, <3>2, PrintDoes, OffsetType
  <2> QED BY <2>2, <2>3
<1>13. CASE TailPolls
  <2>1. CASE cl' = NewClient("gone")
    BY <1>13, <2>1, BeginDoes DEF TailPolls
  <2>2. CASE cl' # NewClient("gone")
    <3>1. "tailLast" \in ClientSteps /\ "tail" \in ClientSteps
      BY DEF ClientSteps
    <3>2. CASE mem.status \in Terminal
      <4>1. Kept(cl', "tailLast", mem)
        BY <1>13, <2>2, <3>1, <3>2, KeptParts DEF TailPolls
      <4> QED BY <1>13, <3>2, <4>1, KeepDoes DEF TailPolls, Reporting
    <3>3. CASE mem.status \notin Terminal
      <4>1. Kept(cl', "tail", cl.rec)
        BY <1>13, <2>2, <3>1, <3>3, KeptParts DEF TailPolls
      <4> QED BY <1>13, <4>1, KeepDoes DEF TailPolls, Reporting, Ending
    <3> QED BY <3>2, <3>3
  <2> QED BY <2>1, <2>2
<1> QED
  BY <1>3, <1>4, <1>5, <1>6, <1>7, <1>8, <1>9, <1>10, <1>11, <1>12, <1>13
  DEF ClientActs, Advance

-----------------------------------------------------------------------------
(***************************************************************************)
(* What the server and the command do.                                     *)
(***************************************************************************)
ServerActs ==
  Decide \/ Kill \/ Expire \/ Start \/ Finish \/ Restart \/ Run \/ Command

Settled ==
  /\ Types /\ ProcessesOfRun /\ RunOfRecord /\ RowOfRun /\ EndIsSeen /\ ZeroIsTrue

\* The output grows only while Run waits, and what ended well stays so.
ServerDoes ==
  /\ UNCHANGED cl
  /\ Types' /\ ProcessesOfRun' /\ RunOfRecord' /\ RowOfRun' /\ EndIsSeen'
  /\ EndedWellItself => EndedWellItself'
  /\ result'.code = 0 \/ mem'.code = 0 \/ row'.code = 0 => EndedWellItself'
  /\ run' # "lost" =>
       /\ run # "lost"
       /\ out' = out \/ (run = "waiting" /\ \E k \in Kinds : out' = Append(out, k))

\* No child is "none" or "dead".
LEMMA Kin == {"none", "dead"} \cap Children = {} /\ Exits \subseteq 0 .. 255 /\ MaxOut \in Nat
BY ExecutionAssumption DEF ExecutionAssumption

LEMMA ResultFacts ==
  /\ NoResult \in RunResults /\ NoResult.code # 0
  /\ Failed \in RunResults /\ Failed.code # 0 /\ Failed.status \in Terminal
  /\ NoCode # 0
BY DEF RunResults, NoResult, Failed, Terminal, NoCode

LEMMA RecordTypes ==
  /\ \A s \in Statuses, c \in Exits \cup {-1, NoCode} : [status |-> s, code |-> c] \in Records
  /\ [NoRecord EXCEPT !.status = "PENDING_APPROVAL"] \in Records
  /\ \A r \in RunResults : r.status \in Statuses /\ r.code \in Exits \cup {-1}
<1>1. \A s \in Statuses, c \in Exits \cup {-1, NoCode} : [status |-> s, code |-> c] \in Records
  BY DEF Records
<1>2. [NoRecord EXCEPT !.status = "PENDING_APPROVAL"] \in Records
  BY DEF Records, NoRecord, NoCode, Statuses
<1>3. \A r \in RunResults : r.status \in Statuses /\ r.code \in Exits \cup {-1}
  BY DEF RunResults, Statuses, Terminal
<1> QED BY <1>1, <1>2, <1>3

\* What a write of a status and a result leaves in the rows.
LEMMA SavedRows ==
  ASSUME Types, NEW s \in Statuses \ {"none", "PENDING_APPROVAL"},
         NEW c \in Exits \cup {-1, NoCode}, Saved(s, c)
  PROVE  /\ row' \in Records
         /\ row'.status \in {s, row.status}
         /\ row'.code \in {c, row.code}
<1>1. PICK status \in {s, row.status},
           code1 \in {row.code, IF row.code = NoCode THEN c ELSE row.code} :
        row' = [status |-> status, code |-> code1]
  BY DEF Saved
<1>2. status \in Statuses /\ code1 \in Exits \cup {-1, NoCode} /\ code1 \in {c, row.code}
  BY <1>1 DEF Types, Records
<1> QED BY <1>1, <1>2, RecordTypes

\* There is room for the output of a command that wrote nothing.
LEMMA EmptyOutput == <<>> \in Seq(Kinds) /\ Len(<<>>) = 0 /\ 0 <= MaxOut
<1>1. MaxOut \in Nat
  BY Kin
<1> QED BY <1>1

\* A step of Run.
LEMMA RunEffect ==
  ASSUME Settled, Run
  PROVE  ServerDoes
<1> USE Kin, ResultFacts DEF process, Alive
<1>1. /\ UNCHANGED <<mem, row, cl, out, ctx, code>> /\ run # "lost"
      /\ run' = run \/ (run = "waiting" /\ run' = "returned" /\ leader = "reaped" /\ ~Alive)
         \/ (run = "returned" /\ run' = "done" /\ result' = Outcome)
      /\ leader' = leader
         \/ (leader = "alive" /\ leader' = "dead")
         \/ (leader = "dead" /\ leader' = "reaped" /\ run = "waiting")
      /\ child' = child \/ (Alive /\ child' = "dead")
      /\ killer' \in {"none", "waiting", "grace", "gone", "missed"}
      /\ result' = result \/ (run = "returned" /\ result' = Outcome)
  BY DEF Run, Proceed, KillLeader, Terminate, KillGroup, KillerEnds, Reap, WaitReturns,
         Results, Signaled, Settled, Types, ExecutionTypeOK
<1>2. /\ Outcome \in RunResults /\ Outcome.status \in Terminal
      /\ Outcome.code = 0 => code = 0
  BY DEF Outcome, Terminal, RunResults, Settled, Types, ExecutionTypeOK
<1>3. Types'
  BY <1>1, <1>2 DEF Settled, Types, ExecutionTypeOK, RunResults
<1>4. ProcessesOfRun' /\ RunOfRecord' /\ RowOfRun' /\ EndIsSeen'
  <2>1. ProcessesOfRun'
    BY <1>1, <1>2 DEF Settled, ProcessesOfRun
  <2>2. RunOfRecord' /\ RowOfRun' /\ EndIsSeen'
    BY <1>1 DEF Settled, RunOfRecord, RowOfRun, EndIsSeen, Terminal
  <2> QED BY <2>1, <2>2
<1>5. EndedWellItself => EndedWellItself'
  BY <1>1 DEF EndedWellItself
<1>6. result'.code = 0 \/ mem'.code = 0 \/ row'.code = 0 => EndedWellItself'
  BY <1>1, <1>2, <1>5 DEF Settled, ZeroIsTrue, ProcessesOfRun, EndedWellItself
<1> QED BY <1>1, <1>3, <1>4, <1>5, <1>6 DEF ServerDoes

\* A step of the command or of its child.
LEMMA CommandEffect ==
  ASSUME Settled, Command
  PROVE  ServerDoes
<1> USE Kin, ResultFacts DEF process, Alive
<1>1. /\ UNCHANGED <<mem, row, cl, ctx, run, killer, result>> /\ run # "lost"
      /\ \/ leader = "alive" /\ leader' = "dead" /\ code' \in Exits /\ UNCHANGED <<child, out>>
         \/ leader = "alive" /\ child' \in Children /\ UNCHANGED <<leader, code, out>>
         \/ Alive /\ child' = "dead" /\ UNCHANGED <<leader, code, out>>
         \/ /\ leader = "alive" \/ Alive
            /\ Len(out) < MaxOut /\ \E k \in Kinds : out' = Append(out, k)
            /\ UNCHANGED <<leader, code, child>>
  <2>1. CASE \E c \in Exits : Exit(c)
    BY <2>1 DEF Command, Exit
  <2>2. CASE \E k \in Kinds : Write(k)
    BY <2>2 DEF Command, Write
  <2>3. CASE \E c \in Children : Fork(c)
    BY <2>3 DEF Command, Fork
  <2>4. CASE ChildExits
    BY <2>4 DEF Command, ChildExits
  <2> QED BY <2>1, <2>2, <2>3, <2>4 DEF Command, Behave
<1>2. run = "waiting"
  BY <1>1 DEF Settled, ProcessesOfRun, Types, ExecutionTypeOK
<1>3. Types'
  <2>1. out' \in Seq(Kinds) /\ Len(out') <= MaxOut
    <3>1. out \in Seq(Kinds) /\ Len(out) <= MaxOut
      BY DEF Settled, Types, ExecutionTypeOK
    <3> QED BY <1>1, <3>1
  <2> QED BY <1>1, <2>1 DEF Settled, Types, ExecutionTypeOK
<1>4. ProcessesOfRun' /\ RunOfRecord' /\ RowOfRun' /\ EndIsSeen'
  BY <1>1, <1>2 DEF Settled, ProcessesOfRun, RunOfRecord, RowOfRun, EndIsSeen, Terminal
<1>5. EndedWellItself => EndedWellItself'
  BY <1>1 DEF EndedWellItself
<1>6. result'.code = 0 \/ mem'.code = 0 \/ row'.code = 0 => EndedWellItself'
  BY <1>1, <1>5 DEF Settled, ZeroIsTrue
<1>7. out' = out \/ (run = "waiting" /\ \E k \in Kinds : out' = Append(out, k))
  BY <1>1, <1>2
<1> QED BY <1>1, <1>3, <1>4, <1>5, <1>6, <1>7 DEF ServerDoes

\* The server changes the record of the request.
LEMMA RecordEffect ==
  ASSUME Settled, Decide \/ Kill \/ Expire \/ Finish
  PROVE  ServerDoes
<1> USE Kin, ResultFacts DEF process, execution
<1>1. /\ UNCHANGED <<cl, run, leader, code, child, killer, out, result>>
      /\ ctx' \in {"live", "canceled", "expired"}
      /\ \/ UNCHANGED <<mem, row>>
         \/ /\ mem.status = "PENDING_APPROVAL"
            /\ \E s \in {"APPROVED", "DENIED"} :
                 mem' = [status |-> s, code |-> NoCode] /\ row' = [row EXCEPT !.status = s]
         \/ /\ mem.status = "PENDING_APPROVAL"
            /\ mem' = [status |-> "CANCELED", code |-> NoCode] /\ Saved("CANCELED", NoCode)
         \/ /\ mem.status = "APPROVED"
            /\ mem' = [status |-> "KILLED", code |-> -1] /\ Saved("KILLED", -1)
         \/ /\ mem.status = "RUNNING" /\ run = "done"
            /\ mem' = [status |-> result.status, code |-> result.code]
            /\ Saved(result.status, result.code)
  <2>1. CASE Decide
    BY <2>1 DEF Decide, Status, Settled, Types, ExecutionTypeOK
  <2>2. CASE Kill
    BY <2>2 DEF Kill, EndContext, Status, Settled, Types, ExecutionTypeOK
  <2>3. CASE Expire
    BY <2>3 DEF Expire, EndContext, Settled, Types, ExecutionTypeOK
  <2>4. CASE Finish
    BY <2>4 DEF Finish, Status, Settled, Types, ExecutionTypeOK
  <2> QED BY <2>1, <2>2, <2>3, <2>4
<1>2. /\ mem' \in Records /\ row' \in Records
      /\ \/ UNCHANGED <<mem, row>>
         \/ /\ mem.status = "PENDING_APPROVAL" /\ mem'.status \in {"APPROVED", "DENIED"}
            /\ row'.status = mem'.status /\ mem'.code = NoCode /\ row'.code = row.code
         \/ /\ mem.status = "PENDING_APPROVAL" /\ mem'.status = "CANCELED"
            /\ mem'.code = NoCode
            /\ row'.status \in {"CANCELED", row.status} /\ row'.code \in {NoCode, row.code}
         \/ /\ mem.status = "APPROVED" /\ mem'.status = "KILLED" /\ mem'.code = -1
            /\ row'.status \in {"KILLED", row.status} /\ row'.code \in {-1, row.code}
         \/ /\ mem.status = "RUNNING" /\ run = "done"
            /\ mem'.status = result.status /\ mem'.code = result.code
            /\ row'.status \in {result.status, row.status}
            /\ row'.code \in {result.code, row.code}
  <2>1. mem \in Records /\ row \in Records /\ result \in RunResults
    BY DEF Settled, Types
  <2>2. /\ "APPROVED" \in Statuses /\ "DENIED" \in Statuses
        /\ {"CANCELED", "KILLED"} \subseteq Statuses \ {"none", "PENDING_APPROVAL"}
        /\ {NoCode, -1} \subseteq Exits \cup {-1, NoCode}
    BY DEF Statuses, Terminal
  <2>3. CASE UNCHANGED <<mem, row>>
    BY <2>1, <2>3
  <2>4. CASE /\ mem.status = "PENDING_APPROVAL"
             /\ \E s \in {"APPROVED", "DENIED"} :
                  mem' = [status |-> s, code |-> NoCode] /\ row' = [row EXCEPT !.status = s]
    <3>1. PICK s \in {"APPROVED", "DENIED"} :
            mem' = [status |-> s, code |-> NoCode] /\ row' = [row EXCEPT !.status = s]
      BY <2>4
    <3>2. row' \in Records /\ row'.status = s /\ row'.code = row.code
      BY <2>1, <2>2, <3>1 DEF Records
    <3>3. mem' \in Records
      BY <2>2, <3>1, RecordTypes
    <3> QED BY <2>4, <3>1, <3>2, <3>3
  <2>5. CASE /\ mem.status = "PENDING_APPROVAL"
             /\ mem' = [status |-> "CANCELED", code |-> NoCode] /\ Saved("CANCELED", NoCode)
    BY <2>2, <2>5, SavedRows, RecordTypes DEF Settled
  <2>6. CASE /\ mem.status = "APPROVED"
             /\ mem' = [status |-> "KILLED", code |-> -1] /\ Saved("KILLED", -1)
    BY <2>2, <2>6, SavedRows, RecordTypes DEF Settled
  <2>7. CASE /\ mem.status = "RUNNING" /\ run = "done"
             /\ mem' = [status |-> result.status, code |-> result.code]
             /\ Saved(result.status, result.code)
    <3>1. result.status \in Terminal
      BY <2>7 DEF Settled, ProcessesOfRun
    <3>2. result.status \in Statuses \ {"none", "PENDING_APPROVAL"}
      BY <3>1 DEF Statuses, Terminal
    <3>3. result.code \in Exits \cup {-1, NoCode}
      BY <2>1, RecordTypes
    <3> QED BY <2>7, <3>2, <3>3, SavedRows, RecordTypes DEF Settled
  <2> QED BY <1>1, <2>3, <2>4, <2>5, <2>6, <2>7
<1>3. Types'
  BY <1>1, <1>2 DEF Settled, Types, ExecutionTypeOK
<1>4. ProcessesOfRun'
  BY <1>1 DEF Settled, ProcessesOfRun, Alive
<1>5. RunOfRecord' /\ RowOfRun' /\ EndIsSeen'
  <2>1. run = "done" => result.status \in Terminal
    BY DEF Settled, ProcessesOfRun
  <2>2. RunOfRecord'
    BY <1>1, <1>2, <2>1 DEF Settled, RunOfRecord, Terminal, NoRecord
  <2>3. RowOfRun'
    BY <1>1, <1>2, <2>1 DEF Settled, RowOfRun, Terminal
  <2>4. EndIsSeen'
    BY <1>1, <1>2, <2>1 DEF Settled, EndIsSeen, Terminal
  <2> QED BY <2>2, <2>3, <2>4
<1>6. /\ EndedWellItself => EndedWellItself'
      /\ result'.code = 0 \/ mem'.code = 0 \/ row'.code = 0 => EndedWellItself'
  BY <1>1, <1>2 DEF Settled, ZeroIsTrue, EndedWellItself
<1> QED BY <1>1, <1>3, <1>4, <1>5, <1>6 DEF ServerDoes

\* The execution of an approved request begins.
LEMMA StartEffect ==
  ASSUME Settled, Start
  PROVE  ServerDoes
<1> USE Kin, ResultFacts DEF process, Alive
<1>1. /\ UNCHANGED <<cl, code, child, ctx, out>> /\ mem.status = "APPROVED"
      /\ mem' = [status |-> "RUNNING", code |-> NoCode] /\ run = "none"
      /\ \/ run' = "waiting" /\ leader' = "alive" /\ killer' = "waiting" /\ UNCHANGED result
         \/ run' = "done" /\ result' = Failed /\ UNCHANGED <<leader, killer>>
  BY DEF Start, StartProcess, Status
<1>2. /\ mem' \in Records /\ row' \in Records
      /\ row'.status \in {"RUNNING", row.status} /\ row'.code \in {NoCode, row.code}
  <2>1. "RUNNING" \in Statuses \ {"none", "PENDING_APPROVAL"}
    BY DEF Statuses
  <2>2. Saved("RUNNING", NoCode)
    BY DEF Start
  <2> QED BY <1>1, <2>1, <2>2, RecordTypes, SavedRows DEF Settled
<1>3. Types'
  BY <1>1, <1>2 DEF Settled, Types, ExecutionTypeOK, RunResults
<1>4. ProcessesOfRun' /\ RunOfRecord' /\ RowOfRun' /\ EndIsSeen'
  <2>1. ProcessesOfRun'
    BY <1>1 DEF Settled, ProcessesOfRun
  <2>2. RunOfRecord'
    BY <1>1 DEF Settled, RunOfRecord, Terminal, NoRecord
  <2>3. EndIsSeen'
    BY <1>1, <1>2 DEF Settled, EndIsSeen, Terminal
  <2>4. RowOfRun'
    BY <1>1, <1>2 DEF Settled, RowOfRun
  <2> QED BY <2>1, <2>2, <2>3, <2>4
<1>5. ~EndedWellItself
  BY <1>1 DEF Settled, ProcessesOfRun, EndedWellItself
<1>6. result'.code # 0 /\ mem'.code # 0 /\ row'.code # 0
  BY <1>1, <1>2, <1>5 DEF Settled, ZeroIsTrue
<1> QED BY <1>1, <1>3, <1>4, <1>5, <1>6 DEF ServerDoes

\* A crash and a restart.
LEMMA RestartEffect ==
  ASSUME Settled, Restart
  PROVE  ServerDoes
<1> USE Kin, ResultFacts DEF process, execution, Alive
<1>1. /\ UNCHANGED <<cl, leader, code>> /\ row.status # "none"
      /\ \/ row.status = "PENDING_APPROVAL" /\ UNCHANGED execution
         \/ /\ row.status # "PENDING_APPROVAL"
            /\ run' = "lost" /\ child' = "none" /\ ctx' = "live"
            /\ killer' = "none" /\ out' = <<>> /\ result' = NoResult
  BY DEF Restart
<1>2. /\ row' \in Records
      /\ row.status # "RUNNING" => row' = row
      /\ row.status = "RUNNING" => row'.status \in {"FAILED", "RUNNING"}
      /\ row'.code \in {-1, row.code}
  <2>1. CASE row.status = "RUNNING"
    <3>1. "FAILED" \in Statuses \ {"none", "PENDING_APPROVAL"} /\ -1 \in Exits \cup {-1, NoCode}
      BY DEF Statuses, Terminal
    <3>2. Saved("FAILED", -1)
      BY <2>1 DEF Restart, MarkInterrupted
    <3> QED BY <2>1, <3>1, <3>2, SavedRows DEF Settled
  <2>2. CASE row.status # "RUNNING"
    BY <2>2 DEF Restart, MarkInterrupted, Settled, Types
  <2> QED BY <2>1, <2>2
<1>3. /\ mem' \in Records
      /\ mem'.code \in {row'.code, NoCode}
      /\ row.status \in {"PENDING_APPROVAL", "APPROVED"} => mem'.status = row.status
      /\ row.status \notin {"PENDING_APPROVAL", "APPROVED"} =>
           mem'.status \in {"FAILED", "none"}
  <2>1. CASE row.status \in {"PENDING_APPROVAL", "APPROVED", "RUNNING"}
    <3> DEFINE s == IF row.status = "RUNNING" THEN "FAILED" ELSE row.status
    <3>1. PICK c \in {row'.code, NoCode} : mem' = [status |-> s, code |-> c]
      <4>1. row.status \notin Terminal
        BY <2>1 DEF Terminal
      <4> QED BY <2>1, <4>1 DEF Restart, Status
    <3>2. s \in Statuses /\ c \in Exits \cup {-1, NoCode}
      BY <1>2, <2>1 DEF Records, Statuses, Terminal
    <3>3. mem' \in Records /\ mem'.status = s /\ mem'.code = c
      BY <3>1, <3>2, RecordTypes
    <3> QED BY <2>1, <3>1, <3>3
  <2>2. CASE row.status \notin {"PENDING_APPROVAL", "APPROVED", "RUNNING"}
    <3>1. mem' = NoRecord
      BY <2>2 DEF Restart
    <3> QED BY <2>2, <3>1, ClientUpdates DEF NoRecord
  <2> QED BY <2>1, <2>2
<1>4. ExecutionTypeOK'
  <2>1. <<>> \in Seq(Kinds) /\ Len(<<>>) = 0 /\ 0 <= MaxOut
    BY EmptyOutput
  <2>2. CASE UNCHANGED execution
    BY <2>2 DEF Settled, Types, ExecutionTypeOK
  <2>3. CASE ~UNCHANGED execution
    <3>1. /\ UNCHANGED <<leader, code>> /\ run' = "lost" /\ child' = "none" /\ ctx' = "live"
          /\ killer' = "none" /\ out' = <<>> /\ result'.status = "none"
      BY <1>1, <2>3 DEF NoResult
    <3>2. out' \in Seq(Kinds) /\ Len(out') <= MaxOut
      BY <2>1, <3>1
    <3> QED BY <3>1, <3>2 DEF Settled, Types, ExecutionTypeOK
  <2> QED BY <2>2, <2>3
<1>5. result' \in RunResults
  BY <1>1 DEF Settled, Types
<1>6. ProcessesOfRun'
  BY <1>1 DEF Settled, ProcessesOfRun
<1>7. RunOfRecord' /\ RowOfRun' /\ EndIsSeen'
  <2>1. RunOfRecord'
    BY <1>1, <1>3 DEF Settled, RunOfRecord, RowOfRun, Terminal, NoRecord
  <2>2. RowOfRun'
    BY <1>1, <1>2, <1>3 DEF Settled, RowOfRun
  <2>3. EndIsSeen'
    BY <1>1, <1>2, <1>3 DEF Settled, EndIsSeen
  <2> QED BY <2>1, <2>2, <2>3
<1>8. EndedWellItself => EndedWellItself'
  BY <1>1 DEF EndedWellItself
<1>9. result'.code = 0 \/ mem'.code = 0 \/ row'.code = 0 => EndedWellItself'
  <2>1. result'.code = 0 \/ row.code = 0 \/ result.code = 0 => EndedWellItself
    BY <1>1 DEF Settled, ZeroIsTrue
  <2> QED BY <1>2, <1>3, <1>8, <2>1
<1> QED BY <1>1, <1>2, <1>3, <1>4, <1>5, <1>6, <1>7, <1>8, <1>9 DEF ServerDoes, Settled, Types

LEMMA ServerEffect ==
  ASSUME Settled, ServerActs
  PROVE  ServerDoes
BY RecordEffect, StartEffect, RestartEffect, RunEffect, CommandEffect DEF ServerActs

-----------------------------------------------------------------------------
(***************************************************************************)
(* The exit code.                                                          *)
(***************************************************************************)
LEMMA InitSettled == Init => Settled /\ ExitAgrees
<1> SUFFICES ASSUME Init
             PROVE  Settled /\ ExitAgrees
  OBVIOUS
<1> USE Kin, ResultFacts
<1>1. /\ run = "none" /\ leader = "none" /\ code = -1 /\ child = "none"
      /\ ctx = "live" /\ killer = "none" /\ out = <<>> /\ result = NoResult
      /\ mem = NoRecord /\ row = NoRecord /\ cl = NewClient("create")
  BY DEF Init, ExecutionInit
<1>2. "create" \in ClientSteps /\ "create" \notin {"end"} \cup Ending
  BY DEF ClientSteps, Ending
<1>3. /\ cl \in Clients /\ cl.step = "create" /\ cl.rec = NoRecord
  BY <1>1, <1>2, ClientUpdates
<1>4. ExecutionTypeOK
  <2>1. <<>> \in Seq(Kinds) /\ Len(<<>>) = 0 /\ 0 <= MaxOut
    BY EmptyOutput
  <2> QED BY <1>1, <2>1 DEF ExecutionTypeOK, NoResult
<1>5. Types
  BY <1>1, <1>3, <1>4, ClientUpdates DEF Types
<1>6. ProcessesOfRun /\ RunOfRecord /\ RowOfRun /\ EndIsSeen /\ ZeroIsTrue
  BY <1>1, <1>3 DEF ProcessesOfRun, RunOfRecord, RowOfRun, EndIsSeen, ZeroIsTrue, NoRecord, Terminal, Alive
<1> QED BY <1>3, <1>5, <1>6 DEF Settled, ExitAgrees

\* A step of the client leaves what is settled about the request.
LEMMA ClientSettled ==
  ASSUME Settled, ClientDoes
  PROVE  Settled'
<1> USE ResultFacts
<1>1. UNCHANGED <<run, leader, code, child, ctx, killer, out, result>>
  BY DEF ClientDoes, execution, process
<1>2. mem' \in Records /\ row' \in Records /\ cl' \in Clients
  BY RecordTypes DEF ClientDoes, Submits, Settled, Types
<1>3. Types' /\ ProcessesOfRun'
  <2>1. ExecutionTypeOK' /\ result' \in RunResults
    BY <1>1 DEF Settled, Types, ExecutionTypeOK
  <2>2. ProcessesOfRun'
    BY <1>1 DEF Settled, ProcessesOfRun, Alive
  <2> QED BY <1>2, <2>1, <2>2 DEF Types
<1>4. RunOfRecord' /\ RowOfRun'
  BY <1>1 DEF ClientDoes, Submits, Settled, RunOfRecord, RowOfRun, Terminal, NoRecord
<1>5. EndIsSeen'
  BY <1>1 DEF ClientDoes, Submits, Settled, EndIsSeen, RowOfRun, Ending, Terminal, NoRecord
<1>6. ZeroIsTrue'
  BY <1>1 DEF ClientDoes, Submits, Settled, ZeroIsTrue, EndedWellItself, NoRecord
<1> QED BY <1>3, <1>4, <1>5, <1>6 DEF Settled

LEMMA NextActs == Next <=> ServerActs \/ ClientActs
BY DEF Next, ServerActs, ClientActs

LEMMA SettledStep ==
  ASSUME Settled, [Next]_vars
  PROVE  Settled'
<1>1. CASE ServerActs
  <2>1. ZeroIsTrue'
    BY <1>1, ServerEffect DEF ServerDoes, Settled, ZeroIsTrue
  <2> QED BY <1>1, <2>1, ServerEffect DEF ServerDoes, Settled
<1>2. CASE ClientActs
  BY <1>2, ClientEffect, ClientSettled DEF Settled
<1>3. CASE UNCHANGED vars
  BY <1>3 DEF vars, execution, process, Settled, Types, ExecutionTypeOK, ProcessesOfRun, Alive,
              RunOfRecord, RowOfRun, EndIsSeen, ZeroIsTrue, EndedWellItself
<1> QED BY <1>1, <1>2, <1>3, NextActs

LEMMA ExitStep ==
  ASSUME Settled, ExitAgrees, [Next]_vars
  PROVE  ExitAgrees'
<1>1. CASE ServerActs
  BY <1>1, ServerEffect DEF ServerDoes, ExitAgrees, EndedWellItself
<1>2. CASE ClientActs
  <2>1. cl'.step = "end" => cl'.exit # 0 \/ cl.rec.code = 0
    BY <1>2, ClientEffect DEF ClientDoes, Settled
  <2>2. UNCHANGED <<leader, code>>
    BY <1>2, ClientEffect DEF ClientDoes, Settled, execution, process
  <2> QED BY <2>1, <2>2 DEF Settled, ZeroIsTrue, ExitAgrees, EndedWellItself
<1>3. CASE UNCHANGED vars
  BY <1>3 DEF vars, execution, process, ExitAgrees
<1> QED BY <1>1, <1>2, <1>3, NextActs

\* Spec => Settled and ExitAgrees in every state.
LEMMA AlwaysSettled == Spec => [](Settled /\ ExitAgrees)
<1>1. Settled /\ ExitAgrees /\ [Next]_vars => (Settled /\ ExitAgrees)'
  BY SettledStep, ExitStep
<1> QED BY <1>1, InitSettled, PTL DEF Spec

\* The variables keep their types, and a client never counts more printed bytes
\* than the live buffer may hold (internal/httpapi liveOutput.append,
\* cli/request.go printedLiveBytes), for every size of the buffer.
THEOREM FollowTypeCorrect == Spec => []TypeOK
<1>1. Settled => TypeOK
  BY DEF Settled, Types, TypeOK, Records, Clients, Statuses, ClientSteps
<1> QED BY <1>1, AlwaysSettled, PTL

\* A client that ends with 0 followed a command that ended with 0 by itself
\* (README:131, cli/request.go requestExitCode), whatever kills, timeouts, failing
\* calls and refused writes came in between, and whatever RehydrateFromStore put
\* back after a restart in the place of a command that was under way.
THEOREM ExitIsTrue == Spec => []ExitAgrees
BY AlwaysSettled, PTL

-----------------------------------------------------------------------------
(***************************************************************************)
(* The printed output.                                                     *)
(***************************************************************************)
\* The output grows at its end, and only before the end of the request is seen.
LEMMA ServerPrinted ==
  ASSUME Settled, Plain => PrintedSoFar, ServerDoes
  PROVE  Plain' => PrintedSoFar'
<1> SUFFICES ASSUME Plain'
             PROVE  PrintedSoFar'
  OBVIOUS
<1>1. /\ cl' = cl /\ run # "lost"
      /\ out' = out \/ (run = "waiting" /\ \E k \in Kinds : out' = Append(out, k))
  BY DEF ServerDoes, Plain
<1>2. cl.offset \in Nat /\ Len(out) \in Nat /\ LiveMax \in Nat /\ out \in Seq(Kinds)
  BY FollowAssumption DEF FollowAssumption, Settled, Types, Clients, ExecutionTypeOK
<1>3. CASE out' = out
  BY <1>1, <1>3 DEF Plain, PrintedSoFar, NoSecret, Torn, Increasing, Least
<1>4. CASE run = "waiting" /\ \E k \in Kinds : out' = Append(out, k)
  <2>1. Len(out') = Len(out) + 1 /\ \A i \in DOMAIN out : i \in DOMAIN out' /\ out'[i] = out[i]
    BY <1>2, <1>4
  <2>2. PrintedSoFar
    BY <1>1, <2>1 DEF Plain, NoSecret, Torn
  <2>3. cl.step \in {"report", "tailReport"} => cl.rec.status = "CANCELED"
    BY <1>4 DEF Settled, EndIsSeen, RunOfRecord
  <2>4. \A i \in DOMAIN cl.text : cl.text[i] \in Int
    BY DEF Settled, Types, Clients
  <2>5. /\ cl.offset <= Len(out')
        /\ Len(out') <= LiveMax => Len(out) <= LiveMax
        /\ \A i \in DOMAIN cl.text : cl.text[i] <= Len(out')
    BY <1>2, <2>1, <2>2, <2>4 DEF PrintedSoFar
  <2> QED BY <1>1, <2>2, <2>3, <2>5 DEF PrintedSoFar, Increasing
<1> QED BY <1>1, <1>3, <1>4

\* What lies after an offset of a sequence.
LEMMA Rest ==
  ASSUME NEW t \in Seq(Int), NEW o \in Nat
  PROVE  LET part == SubSeq(t, o + 1, Len(t))
         IN /\ part \in Seq(Int)
            /\ Len(part) = IF o < Len(t) THEN Len(t) - o ELSE 0
            /\ \A i \in 1 .. Len(part) : part[i] = t[o + i]
<1> DEFINE part == SubSeq(t, o + 1, Len(t))
<1>1. Len(t) \in Nat /\ o + 1 \in Int /\ Len(t) \in Int
  BY LenProperties
<1>2. \A i \in o + 1 .. Len(t) : t[i] \in Int
  BY <1>1, ElementOfSeq
<1>3. /\ part \in Seq(Int)
      /\ Len(part) = IF o + 1 <= Len(t) THEN Len(t) - (o + 1) + 1 ELSE 0
      /\ \A i \in 1 .. Len(t) - (o + 1) + 1 : part[i] = t[o + 1 + i - 1]
  BY <1>1, <1>2, SubSeqProperties
<1> HIDE DEF part
<1>4. Len(part) = IF o < Len(t) THEN Len(t) - o ELSE 0
  BY <1>1, <1>3
<1>5. \A i \in 1 .. Len(part) : part[i] = t[o + i]
  <2>1. \A i \in 1 .. Len(part) : i \in 1 .. Len(t) - (o + 1) + 1 /\ o + 1 + i - 1 = o + i
    BY <1>1, <1>4
  <2> QED BY <1>3, <2>1
<1> QED BY <1>3, <1>4, <1>5 DEF part

\* What is printed of a text follows what was printed before it.
LEMMA PrintsInOrder ==
  ASSUME Settled, Plain => PrintedSoFar, UNCHANGED execution, cl' \in Clients,
         Prints, Plain'
  PROVE  PrintedSoFar'
<1>1. UNCHANGED <<run, out>>
  BY DEF execution
<1>2. PICK text \in LiveTexts, offset \in 0 .. LiveMax :
        /\ offset = cl.offset \/ offset = Offset(text)
        /\ cl'.text = cl.text \o SubSeq(text, offset + 1, Len(text))
        /\ cl'.offset = IF Len(text) > offset THEN Len(text) ELSE offset
  BY DEF Prints
<1> DEFINE old == Len(cl.text)
           n == Len(text)
           L == Len(out)
           part == SubSeq(text, offset + 1, n)
           new == Len(part)
<1>3. /\ cl.text \in Seq(Int) /\ cl.offset \in 0 .. LiveMax /\ offset \in Nat
      /\ LiveMax \in Nat /\ text \in Seq(Int) /\ n \in Nat
      /\ DOMAIN cl.text = 1 .. old /\ \A i \in 1 .. old : cl.text[i] \in Int
  BY LiveTextTypes, FollowAssumption DEF FollowAssumption, Settled, Types, Clients
<1>4. L \in Nat /\ old \in Nat
  BY <1>3 DEF Settled, Types, ExecutionTypeOK
<1>5. /\ cl'.text \in [1 .. old + new -> Int]
      /\ DOMAIN cl'.text = 1 .. old + new /\ new \in Nat
      /\ \A i \in 1 .. old : i \in 1 .. old + new
      /\ \A i \in 1 .. old : cl'.text[i] = cl.text[i]
      /\ \A i \in old + 1 .. old + new : cl'.text[i] = text[offset + (i - old)]
      /\ new = 0 => cl'.text = cl.text
  <2>1. /\ part \in Seq(Int) /\ new \in Nat
        /\ \A i \in 1 .. new : part[i] = text[offset + i]
    BY <1>3, Rest, LenProperties
  <2>2. cl'.text = cl.text \o part
    BY <1>2
  <2> HIDE DEF part
  <2>3. /\ cl'.text \in Seq(Int) /\ Len(cl'.text) = old + new
        /\ \A i \in 1 .. old + new :
             cl'.text[i] = IF i <= old THEN cl.text[i] ELSE part[i - old]
    BY <1>3, <2>1, <2>2, ConcatProperties
  <2>4. new = 0 => cl'.text = cl.text
    BY <1>3, <2>1, <2>2, ConcatEqualIffEmpty, EmptySeq
  <2>5. cl'.text \in [1 .. old + new -> Int]
    BY <2>3, LenProperties
  <2> HIDE DEF new, old
  <2>6. \A i \in 1 .. old : i \in 1 .. old + new /\ cl'.text[i] = cl.text[i]
    <3>1. \A i \in 1 .. old : i \in 1 .. old + new /\ i <= old
      BY <1>4, <2>1
    <3> QED BY <2>3, <3>1
  <2>7. \A i \in old + 1 .. old + new : cl'.text[i] = text[offset + (i - old)]
    <3> SUFFICES ASSUME NEW i \in old + 1 .. old + new
                 PROVE  cl'.text[i] = text[offset + (i - old)]
      OBVIOUS
    <3>1. i \in 1 .. old + new /\ ~(i <= old) /\ i - old \in 1 .. new
      BY <1>4, <2>1
    <3> QED BY <2>1, <2>3, <3>1
  <2> QED BY <2>1, <2>4, <2>5, <2>6, <2>7
<1>6. NoSecret /\ run # "lost" /\ PrintedSoFar
  <2>1. NoSecret /\ run # "lost"
    BY <1>1 DEF Plain, NoSecret
  <2>2. ~Torn
    BY <1>3, <1>4, <1>5 DEF Plain, Torn
  <2> QED BY <2>1, <2>2 DEF Plain
<1>7. /\ n = Least(L, LiveMax) /\ n = Len(Text(Window))
      /\ \A i \in 1 .. n : Text(Window)[i] = L - n + i
      /\ text # Text(Window) => n # 0 /\ text[n] = 0
  BY <1>6, PlainText, LiveTextTypes DEF Settled
<1>8. cl.offset <= n /\ offset = cl.offset /\ cl'.offset = n
  <2>1. cl.offset <= n
    BY <1>3, <1>4, <1>6, <1>7 DEF PrintedSoFar, Least
  <2>2. offset = cl.offset
    BY <1>2, <1>3, <2>1 DEF Offset
  <2> QED BY <1>2, <1>3, <2>1, <2>2
<1>9. new = IF offset < n THEN n - offset ELSE 0
  BY <1>3, Rest
<1> HIDE DEF old, n, L, new
<1>10. n <= L /\ (n < LiveMax => n = L) /\ (L <= LiveMax => n = L)
  BY <1>3, <1>4, <1>7 DEF Least
<1>11. CASE n = offset
  <2>1. cl'.text = cl.text
    BY <1>3, <1>5, <1>11, <1>9
  <2> QED BY <1>1, <1>6, <1>7, <1>8, <1>11, <2>1 DEF PrintedSoFar, Increasing, L
<1>12. CASE n > offset
  <2>1. new = n - offset /\ new \in Nat \ {0} /\ offset < LiveMax
    <3>1. n <= LiveMax
      BY <1>3, <1>4, <1>7 DEF Least
    <3> QED BY <1>3, <1>9, <1>12, <3>1
  <2>2. text = Text(Window)
    <3>1. /\ old + new \in old + 1 .. old + new /\ offset + ((old + new) - old) = n
          /\ old + new \in 1 .. old + new
      BY <1>3, <1>4, <2>1
    <3>2. cl'.text[old + new] = text[n]
      BY <1>5, <3>1
    <3>3. cl'.text[old + new] # 0
      BY <1>5, <3>1 DEF Plain, Torn
    <3> QED BY <1>7, <3>2, <3>3
  <2>3. \A i \in old + 1 .. old + new : cl'.text[i] = L - n + offset + (i - old)
    <3> SUFFICES ASSUME NEW i \in old + 1 .. old + new
                 PROVE  cl'.text[i] = L - n + offset + (i - old)
      OBVIOUS
    <3>1. offset + (i - old) \in 1 .. n
      BY <1>3, <1>4, <2>1
    <3>2. cl'.text[i] = Text(Window)[offset + (i - old)]
      BY <1>5, <2>2
    <3>3. Text(Window)[offset + (i - old)] = L - n + (offset + (i - old))
      BY <1>7, <3>1
    <3> QED BY <1>3, <1>4, <2>1, <3>2, <3>3
  <2>4. \A i \in 1 .. old : cl'.text[i] \in Int /\ cl'.text[i] <= offset
    BY <1>3, <1>5, <1>6, <1>8, <2>1 DEF PrintedSoFar
  <2>5. Increasing(cl'.text)
    <3> SUFFICES ASSUME NEW i \in 1 .. old + new, NEW j \in 1 .. old + new, i < j
                 PROVE  cl'.text[i] < cl'.text[j]
      BY <1>5 DEF Increasing
    <3>1. CASE j <= old
      <4>1. i \in 1 .. old /\ j \in 1 .. old
        BY <1>4, <2>1, <3>1
      <4>2. cl.text[i] < cl.text[j]
        BY <1>3, <1>6, <4>1 DEF PrintedSoFar, Increasing
      <4> QED BY <1>5, <4>1, <4>2
    <3>2. CASE i <= old /\ j > old
      <4>1. cl'.text[j] = L - n + offset + (j - old) /\ cl'.text[i] <= offset /\ cl'.text[i] \in Int
        BY <1>4, <2>1, <2>3, <2>4, <3>2
      <4>2. offset < L - n + offset + (j - old)
        BY <1>3, <1>4, <1>10, <2>1, <3>2
      <4>3. L - n + offset + (j - old) \in Int
        BY <1>3, <1>4, <2>1
      <4> QED BY <1>3, <4>1, <4>2, <4>3
    <3>3. CASE i > old
      <4>1. /\ cl'.text[i] = L - n + offset + (i - old)
            /\ cl'.text[j] = L - n + offset + (j - old)
        BY <1>4, <2>1, <2>3, <3>3
      <4> QED BY <1>3, <1>4, <2>1, <3>3, <4>1
    <3> QED BY <1>4, <2>1, <3>1, <3>2, <3>3
  <2>6. \A i \in 1 .. old + new : cl'.text[i] <= L
    <3> SUFFICES ASSUME NEW i \in 1 .. old + new
                 PROVE  cl'.text[i] <= L
      OBVIOUS
    <3>1. CASE i <= old
      BY <1>3, <1>4, <1>10, <1>12, <2>1, <2>4, <3>1
    <3>2. CASE i > old
      <4>1. cl'.text[i] = L - n + offset + (i - old) /\ offset + (i - old) <= n
        BY <1>3, <1>4, <2>1, <2>3, <3>2
      <4> QED BY <1>3, <1>4, <2>1, <3>2, <4>1
    <3> QED BY <1>4, <2>1, <3>1, <3>2
  <2>7. L <= LiveMax => cl'.text = [k \in 1 .. n |-> k]
    <3> SUFFICES ASSUME L <= LiveMax
                 PROVE  cl'.text = [k \in 1 .. n |-> k]
      OBVIOUS
    <3>1. n = L /\ cl.text = [k \in 1 .. offset |-> k]
      BY <1>6, <1>8, <1>10 DEF PrintedSoFar, L
    <3>2. old = offset
      BY <1>3, <3>1 DEF old
    <3>3. \A i \in 1 .. n : cl'.text[i] = i
      <4> SUFFICES ASSUME NEW i \in 1 .. n
                   PROVE  cl'.text[i] = i
        OBVIOUS
      <4>1. CASE i <= old
        BY <1>4, <1>5, <3>1, <3>2, <4>1
      <4>2. CASE i > old
        BY <1>3, <1>4, <2>1, <2>3, <3>1, <3>2, <4>2
      <4> QED BY <1>4, <4>1, <4>2
    <3>4. old + new = n
      BY <1>3, <2>1, <3>2
    <3>5. cl'.text \in [1 .. n -> Int]
      BY <1>5, <3>4
    <3> QED BY <3>3, <3>5
  <2> QED BY <1>1, <1>5, <1>7, <1>8, <1>10, <2>5, <2>6, <2>7 DEF PrintedSoFar, L
<1> QED BY <1>3, <1>8, <1>11, <1>12

\* Without secrets and torn looks the printed output is in order.
LEMMA PrintedStep ==
  ASSUME Settled, Plain => PrintedSoFar, [Next]_vars
  PROVE  Plain' => PrintedSoFar'
<1>1. CASE ServerActs
  BY <1>1, ServerEffect, ServerPrinted
<1>2. CASE ClientActs
  <2>1. ClientDoes
    BY <1>2, ClientEffect DEF Settled
  <2>2. /\ UNCHANGED <<run, out>> /\ cl' \in Clients
        /\ LiveMax \in Nat \ {0} /\ Len(out) \in Nat
    BY <2>1, FollowAssumption
    DEF ClientDoes, execution, FollowAssumption, Settled, Types, ExecutionTypeOK
  <2>3. CASE cl'.text = <<>> /\ cl'.offset = 0 /\ cl'.step \notin Reporting
    <3>1. <<>> = [k \in 1 .. 0 |-> k] /\ DOMAIN cl'.text = {}
      BY <2>3
    <3> QED BY <2>2, <2>3, <3>1 DEF PrintedSoFar, Increasing, Reporting
  <2>4. CASE cl'.text = cl.text /\ cl'.offset = cl.offset /\ cl'.step \notin Reporting
    BY <2>2, <2>4 DEF Plain, PrintedSoFar, NoSecret, Torn, Increasing, Reporting
  <2>5. CASE Prints
    BY <2>1, <2>2, <2>5, PrintsInOrder DEF ClientDoes
  <2> QED BY <2>1, <2>3, <2>4, <2>5 DEF ClientDoes
<1>3. CASE UNCHANGED vars
  BY <1>3 DEF vars, execution, Plain, PrintedSoFar, NoSecret, Torn, Increasing
<1> QED BY <1>1, <1>2, <1>3, NextActs

\* The inductive invariant.
LEMMA Invariant == Spec => []Inv
<1>1. Init => (Plain => PrintedSoFar)
  <2> SUFFICES ASSUME Init
               PROVE  PrintedSoFar
    OBVIOUS
  <2>1. /\ out = <<>> /\ cl.text = <<>> /\ cl.offset = 0 /\ cl.step = "create"
        /\ LiveMax \in Nat
    BY FollowAssumption DEF FollowAssumption, Init, ExecutionInit, NewClient
  <2>2. <<>> = [k \in 1 .. 0 |-> k] /\ DOMAIN <<>> = {} /\ Len(out) = 0
    BY <2>1
  <2> QED BY <2>1, <2>2 DEF PrintedSoFar, Increasing
<1>2. Settled /\ ExitAgrees /\ (Plain => PrintedSoFar) /\ [Next]_vars
        => (Settled /\ ExitAgrees /\ (Plain => PrintedSoFar))'
  BY SettledStep, ExitStep, PrintedStep
<1>3. Settled /\ ExitAgrees /\ (Plain => PrintedSoFar) => Inv
  BY DEF Settled, Inv
<1> QED BY <1>1, <1>2, <1>3, InitSettled, PTL DEF Spec

\* What is printed while nothing has to be masked is the output in its order,
\* nothing twice, and all of it if it fits in the live buffer and the last look
\* succeeds (README:130, cli/request.go waitRequestWithOptions), for any amount of
\* output, any size of the buffer and any calls that fail.
THEOREM OutputIsInOrder == Spec => []OutputInOrder
<1>1. Inv => OutputInOrder
  <2> SUFFICES ASSUME Inv, Plain
               PROVE  OutputInOrder
    BY DEF OutputInOrder, Plain
  <2>1. PrintedSoFar /\ Len(out) \in Nat /\ LiveMax \in Nat
    BY FollowAssumption DEF FollowAssumption, Inv, Types, ExecutionTypeOK
  <2> QED BY <2>1 DEF OutputInOrder, PrintedSoFar, Increasing, Least
<1> QED BY <1>1, Invariant, PTL

=============================================================================
