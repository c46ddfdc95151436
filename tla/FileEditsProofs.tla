--------------------------- MODULE FileEditsProofs ---------------------------
(***************************************************************************)
(* Proofs about FileEdits: type correctness, what creating leaves alone,   *)
(* what the backups hold, and who cuts a file short.                       *)
(***************************************************************************)
EXTENDS FileEdits, TLAPS

Early == {"waiting", "opened", "read"}
Middle == {"backed", "temp", "filled"}

LEMMA ContentTypes ==
  /\ Whole \in Content /\ Empty \in Content
  /\ Whole.rest /\ ~Empty.rest
  /\ \A c \in Content, e \in Edits : With(e, c) \in Content /\ With(e, c).rest = c.rest
BY DEF Whole, Empty, Content, With

\* What may be in a file that was written over.
LEMMA WrittenTypes ==
  ASSUME NEW new \in Content, NEW old \in Content, NEW c \in Written(new, old)
  PROVE  c \in Content
<1>1. new.edits \cup old.edits \in SUBSET Edits
  BY DEF Content
<1>2. Torn(new, old) \in Content
  BY <1>1 DEF Torn, Content
<1> QED
  BY <1>2 DEF Written

-----------------------------------------------------------------------------
(***************************************************************************)
(* Types.                                                                  *)
(***************************************************************************)
LEMMA InitTypes == Init => TypeOK
<1> SUFFICES ASSUME Init PROVE TypeOK
  OBVIOUS
<1>1. path \in Inodes \cup {Missing}
  BY DEF Init, Inodes
<1>2. data \in [Inodes -> Content] /\ seen \in [Edits -> Content]
  BY ContentTypes DEF Init
<1>3. /\ step = [e \in Edits |-> "waiting"]
      /\ fd \in [Edits -> Inodes \cup {Missing}]
      /\ creating \subseteq Creates
  BY DEF Init
<1>4. /\ 1 \in 1 .. MaxSeconds /\ 0 \in 0 .. MaxSeconds
      /\ 0 \in 0 .. MaxCrashes
  BY FileEditsAssumption
<1>5. /\ named \in [Edits -> 0 .. MaxSeconds]
      /\ backups \in [1 .. MaxSeconds -> Content \cup {Missing}]
      /\ second \in 1 .. MaxSeconds /\ hurt \in BOOLEAN
      /\ crashes \in 0 .. MaxCrashes
  BY <1>4 DEF Init
<1> QED
  BY <1>1, <1>2, <1>3, <1>5 DEF TypeOK

LEMMA ReadingTypes ==
  ASSUME TypeOK, NEW e \in Edits,
         OpenToRead(e) \/ FindNothing(e) \/ ReadData(e) \/ (e \in Sets /\ StartNew(e))
  PROVE  TypeOK'
<1>1. CASE OpenToRead(e)
  BY <1>1 DEF TypeOK, OpenToRead, GoTo, file, saved, run
<1>2. CASE FindNothing(e)
  BY <1>2 DEF TypeOK, FindNothing, Fails, GoTo, file, saved, run, Over
<1>3. CASE ReadData(e)
  <2>1. data[fd[e]] \in Content
    BY <1>3 DEF TypeOK, ReadData
  <2> QED
    BY <1>3, <2>1 DEF TypeOK, ReadData, GoTo, saved, run
<1>4. CASE StartNew(e)
  BY <1>4, ContentTypes DEF TypeOK, StartNew, GoTo, file, saved, run
<1> QED
  BY <1>1, <1>2, <1>3, <1>4

LEMMA PatchTypes ==
  ASSUME TypeOK, NEW p \in Patches,
         PatchRefused(p) \/ Truncate(p) \/ Rewrite(p) \/ RewriteFails(p)
  PROVE  TypeOK'
<1> p \in Edits /\ p \in Inodes
  BY DEF Edits, Inodes
<1>1. CASE PatchRefused(p)
  BY <1>1 DEF TypeOK, PatchRefused, Fails, GoTo, file, saved, run, Over
<1>2. CASE Truncate(p)
  BY <1>2, ContentTypes DEF TypeOK, Truncate, GoTo, saved, run
<1>3. CASE Rewrite(p)
  <2>1. PICK c \in Written(With(p, seen[p]), data[fd[p]]) :
          data' = [data EXCEPT ![fd[p]] = c]
    BY <1>3 DEF Rewrite
  <2>2. With(p, seen[p]) \in Content /\ data[fd[p]] \in Content
    BY <1>3, ContentTypes DEF TypeOK, Rewrite
  <2>3. c \in Content
    BY <2>1, <2>2, WrittenTypes
  <2> QED
    BY <1>3, <2>1, <2>3 DEF TypeOK, Rewrite, GoTo, saved, run, Over
<1>4. CASE RewriteFails(p)
  BY <1>4 DEF TypeOK, RewriteFails, GoTo, saved, run, Over
<1> QED
  BY <1>1, <1>2, <1>3, <1>4

\* A backup is written over, by what its edit read or part of it.
LEMMA FillTypes ==
  ASSUME TypeOK, NEW e \in Sets, step[e] = "saving", Fill(e)
  PROVE  /\ named[e] \in 1 .. MaxSeconds
         /\ \E c \in Content : backups' = [backups EXCEPT ![named[e]] = c]
<1>1. /\ e \in Edits /\ named[e] \in 0 .. MaxSeconds /\ named[e] # 0
      /\ backups[named[e]] \in Content /\ seen[e] \in Content
  BY DEF TypeOK, Edits
<1>2. PICK c \in Written(seen[e], backups[named[e]]) :
        backups' = [backups EXCEPT ![named[e]] = c]
  BY DEF Fill, SavedOriginal
<1>3. c \in Content
  BY <1>1, <1>2, WrittenTypes
<1>4. named[e] \in 1 .. MaxSeconds
  BY <1>1, FileEditsAssumption
<1> QED
  BY <1>2, <1>3, <1>4

\* The steps of a backup.
LEMMA SavingTypes ==
  ASSUME TypeOK, NEW e \in Sets, OpenBackup(e) \/ WriteBackup(e) \/ WriteBackupFails(e)
  PROVE  TypeOK'
<1> e \in Edits
  BY DEF Edits
<1>1. PICK s \in {"saving", "backed", "cut"} :
        step' = [step EXCEPT ![e] = s] /\ UNCHANGED <<file, run, fd, seen, creating>>
  BY DEF OpenBackup, WriteBackup, WriteBackupFails, GoTo
<1>2. CASE OpenBackup(e)
  <2>1. /\ second \in 1 .. MaxSeconds /\ second \in 0 .. MaxSeconds /\ second # 0
    BY FileEditsAssumption DEF TypeOK
  <2>2. /\ named' = [named EXCEPT ![e] = second] /\ e \in Sets \ Unbacked
        /\ backups' = [backups EXCEPT ![second] = Empty]
    BY <1>2 DEF OpenBackup
  <2>3. /\ named' \in [Edits -> 0 .. MaxSeconds]
        /\ backups' \in [1 .. MaxSeconds -> Content \cup {Missing}]
    BY <2>1, <2>2, ContentTypes DEF TypeOK
  <2>4. ASSUME NEW o \in Edits, step'[o] = "saving"
        PROVE  o \in Sets \ Unbacked /\ named'[o] # 0 /\ backups'[named'[o]] \in Content
    <3>1. CASE o = e
      BY <2>1, <2>2, <3>1, ContentTypes DEF TypeOK
    <3>2. CASE o # e
      <4>1. /\ step[o] = "saving" /\ named'[o] = named[o]
        BY <1>1, <2>2, <2>4, <3>2 DEF TypeOK
      <4>2. /\ o \in Sets \ Unbacked /\ named[o] \in 0 .. MaxSeconds /\ named[o] # 0
            /\ backups[named[o]] \in Content
        BY <4>1 DEF TypeOK
      <4>3. named[o] \in 1 .. MaxSeconds
        BY <4>2, FileEditsAssumption
      <4> QED
        BY <2>2, <4>1, <4>2, <4>3, ContentTypes DEF TypeOK
    <3> QED
      BY <3>1, <3>2
  <2> QED
    BY <1>1, <2>3, <2>4 DEF TypeOK, file, run, Over
<1>3. CASE WriteBackup(e) \/ WriteBackupFails(e)
  <2>1. /\ step[e] = "saving" /\ s # "saving" /\ named' = named
        /\ UNCHANGED backups \/ Fill(e)
    BY <1>1, <1>3 DEF WriteBackup, WriteBackupFails, GoTo, TypeOK
  <2>2. \/ backups' = backups
        \/ /\ named[e] \in 1 .. MaxSeconds
           /\ \E c \in Content : backups' = [backups EXCEPT ![named[e]] = c]
    BY <2>1, FillTypes
  <2>3. backups' \in [1 .. MaxSeconds -> Content \cup {Missing}]
    BY <2>2 DEF TypeOK
  <2>4. ASSUME NEW o \in Edits, step'[o] = "saving"
        PROVE  o \in Sets \ Unbacked /\ named'[o] # 0 /\ backups'[named'[o]] \in Content
    <3>1. step[o] = "saving"
      BY <1>1, <2>1, <2>4 DEF TypeOK
    <3>2. /\ o \in Sets \ Unbacked /\ named[o] \in 0 .. MaxSeconds /\ named[o] # 0
          /\ backups[named[o]] \in Content
      BY <3>1 DEF TypeOK
    <3>3. named[o] \in 1 .. MaxSeconds
      BY <3>2, FileEditsAssumption
    <3> QED
      BY <2>1, <2>2, <3>2, <3>3 DEF TypeOK
  <2> QED
    BY <1>1, <2>1, <2>3, <2>4 DEF TypeOK, file, run, Over
<1> QED
  BY <1>2, <1>3

LEMMA SetTypes ==
  ASSUME TypeOK, NEW e \in Sets,
         \/ SetRefused(e) \/ SkipBackup(e) \/ BackupFails(e) \/ MakeTemp(e)
         \/ FillTemp(e) \/ TempFails(e) \/ Land(e) \/ NameTaken(e)
  PROVE  TypeOK'
<1> e \in Edits /\ e \in Inodes
  BY DEF Edits, Inodes
<1>1. ASSUME Fails(e) PROVE TypeOK'
  BY <1>1 DEF TypeOK, Fails, GoTo, file, saved, run, Over
<1>2. CASE SkipBackup(e)
  BY <1>2 DEF TypeOK, SkipBackup, GoTo, file, saved, run
<1>3. CASE MakeTemp(e)
  BY <1>3 DEF TypeOK, MakeTemp, GoTo, file, saved, run
<1>4. CASE FillTemp(e)
  BY <1>4, ContentTypes DEF TypeOK, FillTemp, GoTo, saved, run
<1>5. CASE Land(e)
  BY <1>5 DEF TypeOK, Land, GoTo, saved, run, Over
<1> QED
  BY <1>1, <1>2, <1>3, <1>4, <1>5 DEF SetRefused, BackupFails, TempFails, NameTaken

LEMMA OtherTypes ==
  ASSUME TypeOK, Remove \/ Tick \/ Crash \/ UNCHANGED vars
  PROVE  TypeOK'
<1>1. CASE Remove
  BY <1>1 DEF TypeOK, Remove, saved, run
<1>2. CASE Tick
  BY <1>2, FileEditsAssumption DEF TypeOK, Tick, file, saved
<1>3. CASE Crash
  BY <1>3, FileEditsAssumption DEF TypeOK, Crash, Interrupted, saved, Over
<1>4. CASE UNCHANGED vars
  BY <1>4 DEF TypeOK, vars, file, saved, run
<1> QED
  BY <1>1, <1>2, <1>3, <1>4

\* The variables keep their types, whatever reads or writes in place has an inode
\* open, and whatever saves has a backup.
THEOREM TypeCorrect == Spec => []TypeOK
<1>1. TypeOK /\ [Next]_vars => TypeOK'
  <2> SUFFICES ASSUME TypeOK, [Next]_vars PROVE TypeOK'
    OBVIOUS
  <2> Patches \subseteq Edits /\ Sets \subseteq Edits
    BY DEF Edits
  <2> QED
    BY ReadingTypes, PatchTypes, SavingTypes, SetTypes, OtherTypes DEF Next
<1> QED
  BY InitTypes, <1>1, PTL DEF Spec

-----------------------------------------------------------------------------
(***************************************************************************)
(* Creating and backups.                                                   *)
(***************************************************************************)
\* An edit that found no file replaces none.
THEOREM CreatingReplacesNothing == Spec => CreateNeverReplaces
<1>1. ASSUME TypeOK, [Next]_vars, NEW e \in creating, path' = e, path # e
      PROVE  path = Missing
  <2> e \in Sets /\ e # Missing /\ e \notin Patches
    BY <1>1, FileEditsAssumption DEF TypeOK, Edits
  <2>1. CASE \E p \in Patches : Truncate(p)
    BY <1>1, <2>1 DEF Truncate
  <2>2. CASE \E o \in Sets : Land(o)
    BY <1>1, <2>2 DEF Land, MayLand
  <2>3. CASE path' = path
    BY <1>1, <2>3
  <2>4. CASE Remove
    BY <1>1, <2>4 DEF Remove
  <2> QED
    BY <1>1, <2>1, <2>2, <2>3, <2>4
    DEF Next, OpenToRead, FindNothing, ReadData, StartNew, PatchRefused, Rewrite,
        RewriteFails, SetRefused, SkipBackup, BackupFails, OpenBackup, WriteBackup,
        WriteBackupFails, MakeTemp, FillTemp,
        TempFails, NameTaken, Fails, Tick, Crash, file, vars
<1>2. TypeOK /\ [Next]_vars =>
        [\A e \in creating : path' = e /\ path # e => path = Missing]_vars
  BY <1>1
<1> QED
  BY TypeCorrect, <1>2, PTL DEF Spec, CreateNeverReplaces

\* An edit that has not come to its backup has none, and one that goes on with a
\* backup knows its name ...
NamesKnown ==
  \A e \in Sets :
    /\ step[e] \in Early => named[e] = 0
    /\ e \notin Unbacked \cup creating /\ step[e] \in Middle \cup {"done"} => named[e] # 0

\* ... which is empty, or what an edit of that second read, unless two of them read
\* different things ...
SavedOrShared ==
  \A e \in Sets : named[e] # 0 =>
    \/ backups[named[e]] = Empty
    \/ \E o \in Sets : /\ named[o] = named[e]
                       /\ backups[named[e]] = seen[o] \/ seen[o] # seen[e]

\* ... and empty or torn only while somebody writes it, or for good when that fails.
BackupInv == NamesKnown /\ SavedOrShared /\ BackupHoldsOriginal

\* Steps that leave backups alone, and what the edits that have one read.
LEMMA SavedStays ==
  ASSUME TypeOK, BackupInv, UNCHANGED saved, creating \subseteq creating',
         \A o \in Sets : seen'[o] = seen[o] \/ step[o] \in Early,
         \A e \in Sets :
           /\ step'[e] \in Early => step[e] \in Early
           /\ step'[e] \in Middle \cup {"done"} =>
                step[e] \in Middle \cup {"done"} \/ e \in Unbacked \cup creating'
           /\ step[e] \in {"saving", "cut"} => step'[e] \in {"saving", "cut"}
  PROVE  BackupInv'
<1>1. \A o \in Sets : named[o] # 0 => seen'[o] = seen[o]
  BY DEF BackupInv, NamesKnown
<1>2. named' = named /\ backups' = backups
  BY DEF saved
<1>3. NamesKnown'
  BY <1>2 DEF BackupInv, NamesKnown
<1>4. SavedOrShared'
  <2> SUFFICES ASSUME NEW e \in Sets, named[e] # 0
               PROVE  \/ backups[named[e]] = Empty
                      \/ \E o \in Sets :
                           /\ named[o] = named[e]
                           /\ backups[named[e]] = seen'[o] \/ seen'[o] # seen'[e]
    BY <1>2 DEF SavedOrShared
  <2> QED
    BY <1>1 DEF BackupInv, SavedOrShared
<1>5. BackupHoldsOriginal'
  <2> SUFFICES ASSUME NEW e \in Sets, e \notin Unbacked \cup creating',
                      step'[e] \in Middle \cup {"done"}
               PROVE  \/ backups[named[e]] = seen'[e]
                      \/ \E o \in Sets \ {e} :
                           /\ named[o] = named[e]
                           /\ seen'[o] # seen'[e] \/ step'[o] \in {"saving", "cut"}
    BY <1>2 DEF BackupHoldsOriginal, Backed, Middle
  <2>1. Backed(e) /\ named[e] # 0 /\ e \in Edits
    BY DEF Backed, BackupInv, NamesKnown, Middle, Edits
  <2>2. \/ backups[named[e]] = seen[e]
        \/ \E o \in Sets \ {e} :
             /\ named[o] = named[e]
             /\ seen[o] # seen[e] \/ step[o] \in {"saving", "cut"}
    BY <2>1 DEF BackupInv, BackupHoldsOriginal
  <2> QED
    BY <1>1, <2>1, <2>2
<1> QED
  BY <1>3, <1>4, <1>5 DEF BackupInv

\* What was saved in a second is gone when another edit of it starts to save.
LEMMA OpenStep ==
  ASSUME TypeOK, BackupInv, NEW e \in Sets, OpenBackup(e)
  PROVE  BackupInv'
<1>1. /\ e \in Edits /\ second \in 1 .. MaxSeconds /\ second # 0
      /\ step[e] \in Early /\ named[e] = 0
  BY FileEditsAssumption
  DEF TypeOK, Edits, OpenBackup, Early, BackupInv, NamesKnown
<1>2. /\ named'[e] = second /\ \A o \in Sets \ {e} : named'[o] = named[o]
      /\ step'[e] = "saving" /\ \A o \in Sets \ {e} : step'[o] = step[o]
      /\ UNCHANGED <<seen, creating>>
  BY DEF OpenBackup, GoTo, TypeOK, Edits
<1>3. /\ backups'[second] = Empty
      /\ \A s : s # second => backups'[s] = backups[s]
  BY <1>1 DEF OpenBackup, TypeOK
<1>4. NamesKnown'
  BY <1>1, <1>2 DEF BackupInv, NamesKnown, Early, Middle
<1>5. SavedOrShared'
  <2> SUFFICES ASSUME NEW o \in Sets, named'[o] # 0, named'[o] # second
               PROVE  \/ backups'[named'[o]] = Empty
                      \/ \E w \in Sets :
                           /\ named'[w] = named'[o]
                           /\ backups'[named'[o]] = seen[w] \/ seen[w] # seen[o]
    BY <1>2, <1>3 DEF SavedOrShared
  <2>1. o # e /\ named'[o] = named[o] /\ backups'[named[o]] = backups[named[o]]
    BY <1>2, <1>3
  <2> QED
    BY <1>1, <1>2, <2>1 DEF BackupInv, SavedOrShared
<1>6. BackupHoldsOriginal'
  <2> SUFFICES ASSUME NEW o \in Sets, o \notin Unbacked \cup creating,
                      step'[o] \in Middle \cup {"done"}
               PROVE  \/ backups'[named'[o]] = seen[o]
                      \/ \E w \in Sets \ {o} :
                           /\ named'[w] = named'[o]
                           /\ seen[w] # seen[o] \/ step'[w] \in {"saving", "cut"}
    BY <1>2 DEF BackupHoldsOriginal, Backed, Middle
  <2>1. o # e /\ named'[o] = named[o] /\ o \in Edits /\ Backed(o) /\ named[o] # 0
    BY <1>2 DEF Middle, Edits, Backed, BackupInv, NamesKnown
  <2>2. CASE named[o] = second
    BY <1>2, <2>1, <2>2
  <2>3. CASE named[o] # second
    <3>1. \/ backups[named[o]] = seen[o]
          \/ \E w \in Sets \ {o} :
               /\ named[w] = named[o]
               /\ seen[w] # seen[o] \/ step[w] \in {"saving", "cut"}
      BY <2>1 DEF BackupInv, BackupHoldsOriginal
    <3>2. CASE backups[named[o]] = seen[o]
      BY <1>3, <2>1, <2>3, <3>2
    <3>3. ASSUME NEW w \in Sets \ {o}, named[w] = named[o],
                 seen[w] # seen[o] \/ step[w] \in {"saving", "cut"}
          PROVE  /\ named'[w] = named'[o]
                 /\ seen[w] # seen[o] \/ step'[w] \in {"saving", "cut"}
      BY <1>1, <1>2, <2>1, <3>3
    <3> QED
      BY <3>1, <3>2, <3>3
  <2> QED
    BY <2>2, <2>3
<1> QED
  BY <1>4, <1>5, <1>6 DEF BackupInv

\* When an edit writes its backup, what is there is what it read, or an edit of the
\* same second read something else.
LEMMA FillEffect ==
  ASSUME TypeOK, BackupInv, NEW e \in Sets, step[e] = "saving", Fill(e)
  PROVE  /\ named[e] # 0
         /\ \A s : s # named[e] => backups'[s] = backups[s]
         /\ \/ backups'[named[e]] = seen[e]
            \/ \E o \in Sets : named[o] = named[e] /\ seen[o] # seen[e]
<1> e \in Edits
  BY DEF Edits
<1>1. named[e] \in 1 .. MaxSeconds /\ named[e] # 0
  BY FillTypes DEF TypeOK
<1>2. PICK c \in Written(seen[e], backups[named[e]]) :
        backups' = [backups EXCEPT ![named[e]] = c]
  BY DEF Fill, SavedOriginal
<1>3. backups'[named[e]] = c /\ \A s : s # named[e] => backups'[s] = backups[s]
  BY <1>1, <1>2 DEF TypeOK
<1>4. c = seen[e] \/ backups[named[e]] \notin {Empty, seen[e]}
  BY <1>2 DEF Written
<1>5. ASSUME backups[named[e]] \notin {Empty, seen[e]}
      PROVE  \E o \in Sets : named[o] = named[e] /\ seen[o] # seen[e]
  BY <1>1, <1>5 DEF BackupInv, SavedOrShared
<1> QED
  BY <1>1, <1>3, <1>4, <1>5

LEMMA WriteStep ==
  ASSUME TypeOK, BackupInv, NEW e \in Sets, WriteBackup(e) \/ WriteBackupFails(e)
  PROVE  BackupInv'
<1>1. /\ step[e] = "saving" /\ step'[e] \in {"backed", "cut"}
      /\ \A o \in Sets \ {e} : step'[o] = step[o]
      /\ UNCHANGED <<named, seen, creating>>
  BY DEF WriteBackup, WriteBackupFails, GoTo, TypeOK, Edits
<1>2. named[e] # 0 /\ \A s : s # named[e] => backups'[s] = backups[s]
  BY <1>1, FillEffect DEF WriteBackup, WriteBackupFails, TypeOK, Edits
<1>3. \/ backups'[named[e]] = seen[e]
      \/ \E o \in Sets : named[o] = named[e] /\ seen[o] # seen[e]
      \/ step'[e] = "cut" /\ backups' = backups
  BY <1>1, FillEffect DEF WriteBackup, WriteBackupFails, GoTo, TypeOK, Edits
<1>4. NamesKnown'
  BY <1>1, <1>2 DEF BackupInv, NamesKnown, Early
<1>5. SavedOrShared'
  <2> SUFFICES ASSUME NEW o \in Sets, named[o] # 0
               PROVE  \/ backups'[named[o]] = Empty
                      \/ \E w \in Sets :
                           /\ named[w] = named[o]
                           /\ backups'[named[o]] = seen[w] \/ seen[w] # seen[o]
    BY <1>1 DEF SavedOrShared
  <2>1. CASE backups'[named[o]] = backups[named[o]]
    BY <2>1 DEF BackupInv, SavedOrShared
  <2>2. CASE backups'[named[o]] # backups[named[o]]
    BY <1>2, <1>3, <2>2
  <2> QED
    BY <2>1, <2>2
<1>6. BackupHoldsOriginal'
  <2> SUFFICES ASSUME NEW o \in Sets, o \notin Unbacked \cup creating,
                      step'[o] \in Middle \cup {"done"}
               PROVE  \/ backups'[named[o]] = seen[o]
                      \/ \E w \in Sets \ {o} :
                           /\ named[w] = named[o]
                           /\ seen[w] # seen[o] \/ step'[w] \in {"saving", "cut"}
    BY <1>1 DEF BackupHoldsOriginal, Backed, Middle
  <2>1. CASE o = e
    <3>1. step'[e] # "cut"
      BY <2>1 DEF Middle
    <3> QED
      BY <1>3, <2>1, <3>1
  <2>2. CASE o # e /\ named[o] = named[e]
    <3>1. CASE seen[e] # seen[o] \/ step'[e] = "cut"
      BY <2>2, <3>1
    <3>2. CASE seen[e] = seen[o] /\ step'[e] # "cut"
      BY <1>3, <2>2, <3>2
    <3> QED
      BY <3>1, <3>2
  <2>3. CASE o # e /\ named[o] # named[e]
    <3>1. o \in Edits /\ Backed(o)
      BY <1>1, <2>3 DEF Backed, Middle, Edits
    <3>2. \/ backups[named[o]] = seen[o]
          \/ \E w \in Sets \ {o} :
               /\ named[w] = named[o]
               /\ seen[w] # seen[o] \/ step[w] \in {"saving", "cut"}
      BY <3>1 DEF BackupInv, BackupHoldsOriginal
    <3> QED
      BY <1>1, <1>2, <2>3, <3>2
  <2> QED
    BY <2>1, <2>2, <2>3
<1> QED
  BY <1>4, <1>5, <1>6 DEF BackupInv

\* The backup of an edit that goes on holds what it read, unless another edit took the
\* same second and read something else, writes the backup or ended while it wrote it
\* (configedit.go, writeBackup and Set).
THEOREM OriginalsSaved == Spec => []BackupHoldsOriginal
<1>1. Init => BackupInv
  BY DEF Init, BackupInv, NamesKnown, SavedOrShared, BackupHoldsOriginal, Backed,
         Edits, Early, Middle
<1>2. TypeOK /\ BackupInv /\ [Next]_vars => BackupInv'
  <2> SUFFICES ASSUME TypeOK, BackupInv, [Next]_vars PROVE BackupInv'
    OBVIOUS
  <2> USE DEF Edits, Early, Middle
  <2>1. ASSUME NEW e \in Edits, Fails(e), step[e] \notin {"done", "saving", "cut"}
        PROVE  BackupInv'
    BY <2>1, SavedStays DEF TypeOK, Fails, GoTo
  <2>2. ASSUME NEW e \in Edits, OpenToRead(e) \/ FindNothing(e) \/ ReadData(e)
        PROVE  BackupInv'
    <3>1. CASE OpenToRead(e)
      BY <3>1, SavedStays DEF TypeOK, OpenToRead, GoTo
    <3>2. CASE ReadData(e)
      BY <3>2, SavedStays DEF TypeOK, ReadData, GoTo
    <3> QED
      BY <2>1, <2>2, <3>1, <3>2 DEF FindNothing
  <2>3. ASSUME NEW p \in Patches,
               PatchRefused(p) \/ Truncate(p) \/ Rewrite(p) \/ RewriteFails(p)
        PROVE  BackupInv'
    <3> p \notin Sets
      BY FileEditsAssumption
    <3>1. /\ UNCHANGED <<named, backups, seen, creating>>
          /\ \A e \in Sets : step'[e] = step[e]
      BY <2>3 DEF TypeOK, PatchRefused, Fails, Truncate, Rewrite, RewriteFails, GoTo, saved
    <3> QED
      BY <3>1, SavedStays DEF saved
  <2>4. ASSUME NEW e \in Sets,
               \/ StartNew(e) \/ SetRefused(e) \/ SkipBackup(e) \/ BackupFails(e)
               \/ OpenBackup(e) \/ WriteBackup(e) \/ WriteBackupFails(e)
               \/ MakeTemp(e) \/ FillTemp(e) \/ TempFails(e) \/ Land(e) \/ NameTaken(e)
        PROVE  BackupInv'
    <3>1. CASE StartNew(e)
      BY <3>1, SavedStays DEF TypeOK, StartNew, GoTo
    <3>2. CASE SetRefused(e) \/ BackupFails(e) \/ TempFails(e) \/ NameTaken(e)
      BY <2>1, <3>2 DEF SetRefused, BackupFails, TempFails, NameTaken
    <3>3. CASE MakeTemp(e)
      BY <3>3, SavedStays DEF TypeOK, MakeTemp, GoTo
    <3>4. CASE FillTemp(e)
      BY <3>4, SavedStays DEF TypeOK, FillTemp, GoTo
    <3>5. CASE Land(e)
      BY <3>5, SavedStays DEF TypeOK, Land, Ready, GoTo
    <3>6. CASE SkipBackup(e)
      BY <3>6, SavedStays DEF TypeOK, SkipBackup, GoTo
    <3> QED
      BY <2>4, <3>1, <3>2, <3>3, <3>4, <3>5, <3>6, OpenStep, WriteStep
  <2>5. CASE Remove \/ Tick \/ UNCHANGED vars
    BY <2>5, SavedStays DEF Remove, Tick, vars
  <2>6. CASE Crash
    BY <2>6, SavedStays DEF TypeOK, Crash, Interrupted, Over
  <2> QED
    BY <2>2, <2>3, <2>4, <2>5, <2>6 DEF Next
<1> QED
  BY TypeCorrect, <1>1, <1>2, PTL DEF Spec, BackupInv

-----------------------------------------------------------------------------
(***************************************************************************)
(* Who cuts a file short.                                                  *)
(***************************************************************************)
InUse(i) == path = i \/ \E e \in Edits : fd[e] = i

Truncated(p, i) == step[p] = "truncated" /\ fd[p] = i

\* The inode of an edit is in use only once the edit has come that far.
OwnInode ==
  \A e \in Edits : InUse(e) =>
    step[e] \in (IF e \in Sets THEN {"done"} ELSE {"truncated"} \cup Over)

TempFilled == \A e \in Sets : step[e] = "filled" => data[e].rest = seen[e].rest

\* Until a patch is hurt, one at a time has the file empty ...
Alone ==
  \A p, q \in Patches :
    step[p] = "truncated" =>
      /\ data[fd[p]] = Empty
      /\ Truncated(q, fd[p]) => q = p

\* ... and any file that is cut short is empty because of one ...
CutByPatch ==
  \A i \in Inodes : InUse(i) /\ ~data[i].rest => \E p \in Patches : Truncated(p, i)

\* ... and all edits work on a complete version.
SeenWhole ==
  \A e \in Edits :
    step[e] \in {"read", "saving", "truncated", "done"} \cup Middle => seen[e].rest

CutInv == OwnInode /\ TempFilled /\ (~hurt => Alone /\ CutByPatch /\ SeenWhole)

\* A step of one edit that touches no file, or names a file anew.
LEMMA QuietEdit ==
  ASSUME TypeOK, CutInv, NEW e \in Edits, NEW s,
         step' = [step EXCEPT ![e] = s],
         UNCHANGED <<data, hurt, path, fd, seen>>,
         step[e] \notin {"truncated"} \cup Over,
         s \in {"failed", "cut", "saving", "backed", "temp"},
         s \notin {"failed", "cut"} => step[e] \in {"read", "saving", "backed"}
  PROVE  CutInv'
<1>1. \A o \in Edits : o # e => step'[o] = step[o]
  BY DEF TypeOK
<1>2. step'[e] = s
  BY DEF TypeOK
<1>3. \A i : InUse(i)' = InUse(i)
  BY DEF InUse
<1>4. \A p, i : p \in Edits => (Truncated(p, i)' <=> Truncated(p, i))
  BY <1>1, <1>2 DEF Truncated
<1>5. OwnInode'
  BY <1>1, <1>2, <1>3 DEF CutInv, OwnInode, Over
<1>6. TempFilled'
  BY <1>1, <1>2 DEF CutInv, TempFilled, Edits
<1>7. ASSUME ~hurt PROVE Alone' /\ CutByPatch' /\ SeenWhole'
  <2>1. Alone'
    BY <1>1, <1>2, <1>4, <1>7 DEF CutInv, Alone, Edits
  <2>2. CutByPatch'
    BY <1>3, <1>4, <1>7 DEF CutInv, CutByPatch, Edits
  <2>3. SeenWhole'
    BY <1>1, <1>2, <1>7 DEF CutInv, SeenWhole, Middle, Over
  <2> QED
    BY <2>1, <2>2, <2>3
<1> QED
  BY <1>5, <1>6, <1>7 DEF CutInv

LEMMA ReadingCut ==
  ASSUME TypeOK, CutInv, NEW e \in Edits, OpenToRead(e) \/ ReadData(e)
  PROVE  CutInv'
<1>1. \A o \in Edits : o # e => step'[o] = step[o]
  BY DEF TypeOK, OpenToRead, ReadData, GoTo
<1>2. CASE OpenToRead(e)
  <2>1. /\ step'[e] = "opened" /\ step[e] = "waiting" /\ path # Missing
        /\ UNCHANGED <<path, data, hurt, seen>>
        /\ fd' = [fd EXCEPT ![e] = path]
    BY <1>2 DEF OpenToRead, GoTo, TypeOK, file
  <2>2. \A i : InUse(i)' => InUse(i)
    BY <2>1 DEF InUse, TypeOK
  <2>3. \A p \in Edits : \A i : Truncated(p, i)' <=> Truncated(p, i)
    BY <1>1, <2>1 DEF Truncated, TypeOK
  <2>4. \A p \in Edits : step'[p] = "truncated" => step[p] = "truncated" /\ fd'[p] = fd[p]
    BY <1>1, <2>1 DEF TypeOK
  <2>5. OwnInode'
    BY <1>1, <2>1, <2>2 DEF CutInv, OwnInode, Over
  <2>6. TempFilled'
    BY <1>1, <2>1 DEF CutInv, TempFilled, Edits
  <2>7. ASSUME ~hurt PROVE Alone' /\ CutByPatch' /\ SeenWhole'
    <3>1. Alone'
      BY <2>1, <2>3, <2>4, <2>7 DEF CutInv, Alone, Edits
    <3>2. CutByPatch'
      BY <2>1, <2>2, <2>3, <2>7 DEF CutInv, CutByPatch, Edits
    <3>3. SeenWhole'
      BY <1>1, <2>1, <2>7 DEF CutInv, SeenWhole, Middle
    <3> QED
      BY <3>1, <3>2, <3>3
  <2> QED
    BY <2>1, <2>5, <2>6, <2>7 DEF CutInv
<1>3. CASE ReadData(e)
  <2>1. /\ step'[e] = "read" /\ step[e] = "opened"
        /\ UNCHANGED <<path, data, fd>>
        /\ seen' = [seen EXCEPT ![e] = data[fd[e]]]
        /\ seen'[e] = data[fd[e]] /\ fd[e] \in Inodes
        /\ hurt' = (hurt \/ seen'[e] = Empty)
    BY <1>3 DEF ReadData, GoTo, TypeOK
  <2>2. \A i : InUse(i)' = InUse(i)
    BY <2>1 DEF InUse
  <2>3. \A p \in Edits : \A i : Truncated(p, i)' <=> Truncated(p, i)
    BY <1>1, <2>1 DEF Truncated
  <2>5. OwnInode'
    BY <1>1, <2>1, <2>2 DEF CutInv, OwnInode, Over
  <2>6. TempFilled'
    BY <1>1, <2>1 DEF CutInv, TempFilled, Edits, TypeOK
  <2>7. ASSUME ~hurt' PROVE Alone' /\ CutByPatch' /\ SeenWhole'
    <3>0. ~hurt /\ data[fd[e]] # Empty /\ Alone /\ CutByPatch /\ SeenWhole
      BY <2>1, <2>7 DEF CutInv, TypeOK
    <3>1. Alone'
      BY <1>1, <2>1, <2>3, <3>0 DEF Alone, Edits
    <3>2. CutByPatch'
      BY <2>1, <2>2, <2>3, <3>0 DEF CutByPatch, Edits
    <3>3. data[fd[e]].rest
      BY <2>1, <3>0 DEF CutByPatch, Alone, InUse, Truncated
    <3>4. \A o \in Edits : o # e => seen'[o] = seen[o]
      BY <2>1 DEF TypeOK
    <3>5. SeenWhole'
      BY <1>1, <2>1, <3>0, <3>3, <3>4 DEF SeenWhole
    <3> QED
      BY <3>1, <3>2, <3>5
  <2> QED
    BY <2>5, <2>6, <2>7 DEF CutInv
<1> QED
  BY <1>2, <1>3

LEMMA NewCut ==
  ASSUME TypeOK, CutInv, NEW e \in Sets, StartNew(e)
  PROVE  CutInv'
<1> e \in Edits
  BY DEF Edits
<1>1. /\ \A o \in Edits : o # e => step'[o] = step[o] /\ seen'[o] = seen[o]
      /\ step'[e] = "backed" /\ step[e] = "waiting" /\ seen'[e].rest
      /\ UNCHANGED <<data, hurt, path, fd>>
  BY ContentTypes DEF StartNew, GoTo, TypeOK, file
<1>2. \A i : InUse(i)' = InUse(i)
  BY <1>1 DEF InUse
<1>3. \A p \in Edits : \A i : Truncated(p, i)' <=> Truncated(p, i)
  BY <1>1 DEF Truncated
<1>4. OwnInode'
  BY <1>1, <1>2 DEF CutInv, OwnInode, Over
<1>5. TempFilled'
  BY <1>1 DEF CutInv, TempFilled, Edits
<1>6. ASSUME ~hurt PROVE Alone' /\ CutByPatch' /\ SeenWhole'
  <2>1. Alone'
    BY <1>1, <1>3, <1>6 DEF CutInv, Alone, Edits
  <2>2. CutByPatch'
    BY <1>1, <1>2, <1>3, <1>6 DEF CutInv, CutByPatch, Edits
  <2>3. SeenWhole'
    BY <1>1, <1>6 DEF CutInv, SeenWhole
  <2> QED
    BY <2>1, <2>2, <2>3
<1> QED
  BY <1>1, <1>4, <1>5, <1>6 DEF CutInv

LEMMA TruncateCut ==
  ASSUME TypeOK, CutInv, NEW p \in Patches, Truncate(p)
  PROVE  CutInv'
<1> DEFINE i == IF path = Missing THEN p ELSE path
<1> p \in Edits /\ p \notin Sets /\ p # Missing
  BY FileEditsAssumption DEF Edits
<1>1. /\ \A o \in Edits : o # p => step'[o] = step[o] /\ fd'[o] = fd[o]
      /\ step'[p] = "truncated" /\ fd'[p] = i /\ step[p] = "read"
      /\ i \in Inodes /\ path' = i
      /\ data' = [data EXCEPT ![i] = Empty] /\ UNCHANGED seen
      /\ hurt' = (hurt \/ (i = path /\ data[i] = Empty))
  BY DEF Truncate, GoTo, TypeOK, Inodes
<1>2. \A j : InUse(j)' => InUse(j) \/ j = i
  BY <1>1 DEF InUse
<1>3. path = Missing => ~InUse(p)
  BY <1>1 DEF CutInv, OwnInode, Over
<1>4. \A e \in Sets : e # i \/ step[e] = "done"
  BY DEF CutInv, OwnInode, InUse, Edits
<1>5. OwnInode'
  <2> SUFFICES ASSUME NEW e \in Edits, InUse(e)'
               PROVE  step'[e] \in (IF e \in Sets THEN {"done"} ELSE {"truncated"} \cup Over)
    BY DEF OwnInode
  <2>1. CASE e = p
    BY <1>1, <2>1
  <2>2. CASE e # p
    <3>1. InUse(e)
      BY <1>2, <2>2 DEF InUse
    <3> QED
      BY <1>1, <2>2, <3>1 DEF CutInv, OwnInode
  <2> QED
    BY <2>1, <2>2
<1>6. TempFilled'
  <2> SUFFICES ASSUME NEW e \in Sets, step'[e] = "filled"
               PROVE  data'[e].rest = seen'[e].rest
    BY DEF TempFilled
  <2>1. e # p /\ e \in Edits /\ e \in Inodes
    BY DEF Edits, Inodes
  <2>2. e # i
    BY <1>1, <1>4, <2>1
  <2> QED
    BY <1>1, <2>1, <2>2 DEF CutInv, TempFilled, TypeOK
<1>7. ASSUME ~hurt' PROVE Alone' /\ CutByPatch' /\ SeenWhole'
  <2>0. ~hurt /\ Alone /\ CutByPatch /\ SeenWhole /\ (i = path => data[i] # Empty)
    BY <1>1, <1>7 DEF CutInv, TypeOK
  <2>1. \A q \in Patches : ~Truncated(q, i)
    <3> SUFFICES ASSUME NEW q \in Patches, Truncated(q, i) PROVE FALSE
      OBVIOUS
    <3>1. CASE path = Missing
      BY <1>3, <3>1 DEF InUse, Truncated, Edits
    <3>2. CASE path # Missing
      BY <2>0, <3>2 DEF Alone, Truncated
    <3> QED
      BY <3>1, <3>2
  <2>2. data'[i] = Empty /\ \A j \in Inodes : j # i => data'[j] = data[j]
    BY <1>1 DEF TypeOK
  <2>3. Alone'
    <3> SUFFICES ASSUME NEW q \in Patches, NEW r \in Patches, step'[q] = "truncated"
                 PROVE  data'[fd'[q]] = Empty /\ (Truncated(r, fd[q])' => r = q)
      BY DEF Alone
    <3> q \in Edits /\ r \in Edits
      BY DEF Edits
    <3>1. CASE q = p
      BY <1>1, <2>1, <2>2, <3>1 DEF Truncated
    <3>2. CASE q # p
      <4>1. Truncated(q, fd[q]) /\ fd[q] # i /\ fd[q] \in Inodes
        BY <1>1, <2>1, <3>2 DEF Truncated, TypeOK
      <4>2. data'[fd[q]] = Empty
        BY <2>0, <2>2, <4>1 DEF Alone, Truncated
      <4>3. Truncated(r, fd[q])' => Truncated(r, fd[q])
        BY <1>1, <3>2, <4>1 DEF Truncated
      <4> QED
        BY <1>1, <2>0, <3>2, <4>1, <4>2, <4>3 DEF Alone, Truncated
    <3> QED
      BY <3>1, <3>2
  <2>4. CutByPatch'
    <3> SUFFICES ASSUME NEW j \in Inodes, InUse(j)', ~data'[j].rest
                 PROVE  \E q \in Patches : Truncated(q, j)'
      BY DEF CutByPatch
    <3>1. CASE j = i
      BY <1>1, <3>1 DEF Truncated
    <3>2. CASE j # i
      <4>1. PICK q \in Patches : Truncated(q, j)
        BY <1>2, <2>0, <2>2, <3>2 DEF CutByPatch
      <4>2. q # p /\ q \in Edits
        BY <1>1, <4>1 DEF Truncated, Edits
      <4> QED
        BY <1>1, <4>1, <4>2 DEF Truncated
    <3> QED
      BY <3>1, <3>2
  <2>5. SeenWhole'
    BY <1>1, <2>0 DEF SeenWhole
  <2> QED
    BY <2>3, <2>4, <2>5
<1> QED
  BY <1>5, <1>6, <1>7 DEF CutInv

LEMMA RewriteCut ==
  ASSUME TypeOK, CutInv, NEW p \in Patches, Rewrite(p)
  PROVE  CutInv'
<1> p \in Edits /\ p \notin Sets
  BY FileEditsAssumption DEF Edits
<1>1. PICK c \in Written(With(p, seen[p]), data[fd[p]]) :
        data' = [data EXCEPT ![fd[p]] = c]
  BY DEF Rewrite
<1>2. /\ \A o \in Edits : o # p => step'[o] = step[o]
      /\ step[p] = "truncated" /\ step'[p] = "done" /\ fd[p] \in Inodes
      /\ UNCHANGED <<path, hurt, fd, seen>>
  BY DEF Rewrite, GoTo, TypeOK
<1>3. data'[fd[p]] = c /\ \A j \in Inodes : j # fd[p] => data'[j] = data[j]
  BY <1>1, <1>2 DEF TypeOK
<1>4. \A j : InUse(j)' = InUse(j)
  BY <1>2 DEF InUse
<1>5. OwnInode'
  BY <1>2, <1>4 DEF CutInv, OwnInode, Over
<1>6. TempFilled'
  <2> SUFFICES ASSUME NEW e \in Sets, step'[e] = "filled"
               PROVE  data'[e].rest = seen'[e].rest
    BY DEF TempFilled
  <2>1. e # p /\ e \in Edits /\ e \in Inodes /\ step[e] = "filled"
    BY <1>2 DEF Edits, Inodes
  <2>2. e # fd[p]
    BY <2>1 DEF CutInv, OwnInode, InUse
  <2> QED
    BY <1>2, <1>3, <2>1, <2>2 DEF CutInv, TempFilled
<1>7. ASSUME ~hurt PROVE Alone' /\ CutByPatch' /\ SeenWhole'
  <2>0. Alone /\ CutByPatch /\ SeenWhole
    BY <1>7 DEF CutInv
  <2>1. data[fd[p]] = Empty
    BY <1>2, <2>0 DEF Alone
  <2>2. c = With(p, seen[p])
    BY <1>1, <2>1 DEF Written
  <2>3. c.rest
    <3>1. seen[p] \in Content /\ seen[p].rest
      BY <1>2, <2>0 DEF TypeOK, SeenWhole
    <3> QED
      BY <2>2, <3>1, ContentTypes
  <2>4. \A q \in Patches : step'[q] = "truncated" =>
          q # p /\ step[q] = "truncated" /\ fd[q] # fd[p] /\ fd[q] \in Inodes
    BY <1>2, <2>0 DEF Alone, Truncated, Edits, TypeOK
  <2>5. Alone'
    BY <1>2, <1>3, <2>0, <2>4 DEF Alone, Truncated
  <2>6. CutByPatch'
    <3> SUFFICES ASSUME NEW j \in Inodes, InUse(j)', ~data'[j].rest
                 PROVE  \E q \in Patches : Truncated(q, j)'
      BY DEF CutByPatch
    <3>1. j # fd[p]
      BY <1>3, <2>3
    <3>2. PICK q \in Patches : Truncated(q, j)
      BY <1>3, <1>4, <2>0, <3>1 DEF CutByPatch
    <3> QED
      BY <1>2, <3>1, <3>2 DEF Truncated, Edits
  <2>7. SeenWhole'
    BY <1>2, <2>0 DEF SeenWhole
  <2> QED
    BY <2>5, <2>6, <2>7
<1> QED
  BY <1>2, <1>5, <1>6, <1>7 DEF CutInv

LEMMA RewriteFailsCut ==
  ASSUME TypeOK, CutInv, NEW p \in Patches, RewriteFails(p)
  PROVE  CutInv'
<1> p \in Edits /\ p \notin Sets
  BY FileEditsAssumption DEF Edits
<1>1. /\ \A o \in Edits : o # p => step'[o] = step[o]
      /\ step'[p] = "failed" /\ hurt'
      /\ UNCHANGED <<path, data, fd, seen>>
  BY DEF RewriteFails, GoTo, TypeOK
<1>2. \A i : InUse(i)' = InUse(i)
  BY <1>1 DEF InUse
<1>3. OwnInode' /\ TempFilled'
  BY <1>1, <1>2 DEF CutInv, OwnInode, TempFilled, Edits, Over
<1> QED
  BY <1>1, <1>3 DEF CutInv

LEMMA FillCut ==
  ASSUME TypeOK, CutInv, NEW e \in Sets, FillTemp(e)
  PROVE  CutInv'
<1> e \in Edits /\ e \in Inodes /\ e \notin Patches
  BY FileEditsAssumption DEF Edits, Inodes
<1>1. /\ \A o \in Edits : o # e => step'[o] = step[o]
      /\ step[e] = "temp" /\ step'[e] = "filled"
      /\ data'[e] = With(e, seen[e]) /\ \A j \in Inodes : j # e => data'[j] = data[j]
      /\ UNCHANGED <<path, hurt, fd, seen>>
  BY DEF FillTemp, GoTo, TypeOK
<1>2. \A j : InUse(j)' = InUse(j)
  BY <1>1 DEF InUse
<1>3. ~InUse(e)
  BY <1>1 DEF CutInv, OwnInode
<1>4. \A q \in Edits : \A j : Truncated(q, j)' <=> Truncated(q, j)
  BY <1>1 DEF Truncated
<1>5. OwnInode'
  BY <1>1, <1>2, <1>3 DEF CutInv, OwnInode
<1>6. TempFilled'
  <2>1. data'[e].rest = seen[e].rest
    BY <1>1, ContentTypes DEF TypeOK
  <2> QED
    BY <1>1, <2>1 DEF CutInv, TempFilled, Edits, Inodes
<1>7. ASSUME ~hurt PROVE Alone' /\ CutByPatch' /\ SeenWhole'
  <2>0. Alone /\ CutByPatch /\ SeenWhole
    BY <1>7 DEF CutInv
  <2>1. \A q \in Patches : step'[q] = "truncated" =>
          step[q] = "truncated" /\ fd[q] \in Inodes /\ fd[q] # e
    BY <1>1, <1>3 DEF TypeOK, InUse, Edits
  <2>2. Alone'
    BY <1>1, <1>4, <2>0, <2>1 DEF Alone, Edits
  <2>3. CutByPatch'
    BY <1>1, <1>2, <1>3, <1>4, <2>0 DEF CutByPatch, Edits
  <2>4. SeenWhole'
    BY <1>1, <2>0 DEF SeenWhole, Middle
  <2> QED
    BY <2>2, <2>3, <2>4
<1> QED
  BY <1>1, <1>5, <1>6, <1>7 DEF CutInv

LEMMA LandCut ==
  ASSUME TypeOK, CutInv, NEW e \in Sets, Land(e)
  PROVE  CutInv'
<1> e \in Edits /\ e \in Inodes
  BY DEF Edits, Inodes
<1>1. /\ \A o \in Edits : o # e => step'[o] = step[o]
      /\ step[e] = "filled" /\ step'[e] = "done" /\ path' = e
      /\ UNCHANGED <<data, hurt, fd, seen>>
  BY DEF Land, Ready, GoTo, TypeOK
<1>2. \A j : InUse(j)' => InUse(j) \/ j = e
  BY <1>1 DEF InUse
<1>3. \A q \in Edits : \A j : Truncated(q, j)' <=> Truncated(q, j)
  BY <1>1 DEF Truncated
<1>4. OwnInode'
  BY <1>1, <1>2 DEF CutInv, OwnInode
<1>5. TempFilled'
  BY <1>1 DEF CutInv, TempFilled, Edits
<1>6. ASSUME ~hurt PROVE Alone' /\ CutByPatch' /\ SeenWhole'
  <2>0. Alone /\ CutByPatch /\ SeenWhole
    BY <1>6 DEF CutInv
  <2>1. data[e].rest
    BY <1>1, <2>0 DEF CutInv, TempFilled, SeenWhole, Middle
  <2>2. Alone'
    BY <1>1, <1>3, <2>0 DEF Alone, Edits
  <2>3. CutByPatch'
    BY <1>1, <1>2, <1>3, <2>0, <2>1 DEF CutByPatch, Edits
  <2>4. SeenWhole'
    BY <1>1, <2>0 DEF SeenWhole, Middle
  <2> QED
    BY <2>2, <2>3, <2>4
<1> QED
  BY <1>1, <1>4, <1>5, <1>6 DEF CutInv

LEMMA OutsideCut ==
  ASSUME TypeOK, CutInv, Remove \/ Tick \/ Crash \/ UNCHANGED vars
  PROVE  CutInv'
<1>1. CASE Remove
  <2>1. /\ path' = Missing /\ UNCHANGED <<data, hurt, step, fd, seen>>
    BY <1>1 DEF Remove
  <2>2. \A i \in Inodes : InUse(i)' => InUse(i)
    BY <2>1, FileEditsAssumption DEF InUse, Inodes
  <2>3. OwnInode' /\ TempFilled'
    BY <2>1, <2>2 DEF CutInv, OwnInode, TempFilled, Inodes
  <2>4. ASSUME ~hurt PROVE Alone' /\ CutByPatch' /\ SeenWhole'
    BY <2>1, <2>2, <2>4 DEF CutInv, Alone, CutByPatch, SeenWhole, Truncated
  <2> QED
    BY <2>1, <2>3, <2>4 DEF CutInv
<1>2. CASE Tick \/ UNCHANGED vars
  <2>1. UNCHANGED <<path, data, hurt, step, fd, seen>>
    BY <1>2 DEF Tick, vars, file
  <2> QED
    BY <2>1 DEF CutInv, OwnInode, TempFilled, Alone, CutByPatch, SeenWhole, Truncated, InUse
<1>3. CASE Crash
  <2>1. /\ UNCHANGED <<path, data, fd, seen>>
        /\ \A e \in Edits :
             IF step[e] \in Over THEN step'[e] = step[e] ELSE step'[e] \in {"cut", "lost"}
        /\ hurt' = (hurt \/ \E p \in Patches : step[p] = "truncated")
    <3>1. \A s : IF s \in Over THEN Interrupted(s) = s ELSE Interrupted(s) \in {"cut", "lost"}
      BY DEF Interrupted, Over
    <3>2. /\ UNCHANGED <<path, data, fd, seen>>
          /\ \A e \in Edits : step'[e] = Interrupted(step[e])
          /\ hurt' = (hurt \/ \E p \in Patches : step[p] = "truncated")
      BY <1>3 DEF Crash
    <3> QED
      BY <3>1, <3>2
  <2>2. \A i : InUse(i)' = InUse(i)
    BY <2>1 DEF InUse
  <2>3. OwnInode'
    BY <2>1, <2>2 DEF CutInv, OwnInode, Over
  <2>4. TempFilled'
    BY <2>1 DEF CutInv, TempFilled, Edits, Over
  <2>5. ASSUME ~hurt' PROVE Alone' /\ CutByPatch' /\ SeenWhole'
    <3>1. /\ Alone /\ CutByPatch /\ SeenWhole
          /\ \A p \in Patches : step[p] # "truncated"
      BY <2>1, <2>5 DEF CutInv, TypeOK
    <3>2. Alone'
      BY <2>1, <3>1 DEF Alone, Edits, Over
    <3>3. CutByPatch'
      BY <2>1, <2>2, <3>1 DEF CutByPatch, Truncated
    <3>4. SeenWhole'
      BY <2>1, <3>1 DEF SeenWhole, Over, Middle
    <3> QED
      BY <3>2, <3>3, <3>4
  <2> QED
    BY <2>3, <2>4, <2>5 DEF CutInv
<1> QED
  BY <1>1, <1>2, <1>3

\* The file is cut short only while a patch has it, unless a patch was hurt.
THEOREM OnlyPatchesCut == Spec => []CutShortByPatchesOnly
<1>1. Init => CutInv
  <2> SUFFICES ASSUME Init PROVE CutInv
    OBVIOUS
  <2>1. \A e \in Edits : ~InUse(e)
    BY FileEditsAssumption DEF Init, InUse, Edits
  <2>2. \A i \in Inodes : InUse(i) => i = "original"
    BY <2>1 DEF Inodes
  <2>3. data["original"].rest /\ \A e \in Edits : step[e] = "waiting"
    BY ContentTypes DEF Init, Inodes
  <2> QED
    BY <2>1, <2>2, <2>3
    DEF CutInv, OwnInode, TempFilled, Alone, CutByPatch, SeenWhole, Middle, Edits
<1>2. TypeOK /\ CutInv /\ [Next]_vars => CutInv'
  <2> SUFFICES ASSUME TypeOK, CutInv, [Next]_vars PROVE CutInv'
    OBVIOUS
  <2> Patches \subseteq Edits /\ Sets \subseteq Edits
    BY DEF Edits
  <2>1. ASSUME NEW e \in Edits, Fails(e), step[e] \notin {"truncated"} \cup Over
        PROVE  CutInv'
    BY <2>1, QuietEdit DEF Fails, GoTo, file
  <2>2. ASSUME NEW e \in Edits, OpenToRead(e) \/ FindNothing(e) \/ ReadData(e)
        PROVE  CutInv'
    BY <2>1, <2>2, ReadingCut DEF FindNothing, Over
  <2>3. ASSUME NEW p \in Patches,
               PatchRefused(p) \/ Truncate(p) \/ Rewrite(p) \/ RewriteFails(p)
        PROVE  CutInv'
    BY <2>1, <2>3, TruncateCut, RewriteCut, RewriteFailsCut DEF PatchRefused, Over
  <2>4. ASSUME NEW e \in Sets, SetRefused(e) \/ BackupFails(e) \/ TempFails(e) \/ NameTaken(e)
        PROVE  CutInv'
    BY <2>1, <2>4 DEF SetRefused, BackupFails, TempFails, NameTaken, Over
  <2>5. ASSUME NEW e \in Sets,
               \/ SkipBackup(e) \/ OpenBackup(e) \/ WriteBackup(e)
               \/ WriteBackupFails(e) \/ MakeTemp(e)
        PROVE  CutInv'
    <3>1. PICK s \in {"cut", "saving", "backed", "temp"} :
            /\ step' = [step EXCEPT ![e] = s]
            /\ UNCHANGED <<data, hurt, path, fd, seen>>
            /\ step[e] \in {"read", "saving", "backed"}
      BY <2>5
      DEF SkipBackup, OpenBackup, WriteBackup, WriteBackupFails, MakeTemp, GoTo, file
    <3> QED
      BY <3>1, QuietEdit DEF Over
  <2> QED
    BY <2>2, <2>3, <2>4, <2>5, NewCut, FillCut, LandCut, OutsideCut DEF Next
<1>3. TypeOK /\ CutInv => CutShortByPatchesOnly
  <2> SUFFICES ASSUME TypeOK, CutInv, ~hurt PROVE CutShortByPatchesOnly
    BY DEF CutShortByPatchesOnly
  <2>1. path # Missing /\ ~data[path].rest => \E p \in Patches : Truncated(p, path)
    BY DEF TypeOK, CutInv, CutByPatch, InUse
  <2> QED
    BY <2>1 DEF CutInv, SeenWhole, Truncated, Middle, CutShortByPatchesOnly
<1> QED
  BY TypeCorrect, <1>1, <1>2, <1>3, PTL DEF Spec
=============================================================================
