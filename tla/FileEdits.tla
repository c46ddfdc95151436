------------------------------ MODULE FileEdits ------------------------------
(***************************************************************************)
(* The operations that change one file of the host and run in the server:  *)
(* fs.patch_unified (internal/executor) and conf.set (internal/configedit).*)
(* Approved requests run at once in goroutines of their own, and nothing   *)
(* orders two of them that name the same path.  fs.read does what the      *)
(* first part of an edit does, and no more.                                *)
(*                                                                         *)
(* A patch reads the file and writes it back in place: the file is empty   *)
(* between the truncation and the write.  An edit of a configuration reads *)
(* the file, writes a backup and a temporary file and renames it; an edit  *)
(* that creates the file links it, which fails when the name is taken.     *)
(* Backups are written in place as well, under a name that ends with the   *)
(* second: edits of one second write to one backup.                        *)
(*                                                                         *)
(* Each edit changes a part of the file of its own: the content of a file  *)
(* is the set of the edits that it holds and whether everything nobody     *)
(* edited is still there.  The file is small: one call reads or writes all *)
(* of it.  Edits that name a directory of their own for the backup never   *)
(* share one and are left out, as are permissions, formats and messages.   *)
(***************************************************************************)
EXTENDS Naturals, FiniteSets

CONSTANTS
  Patches,      \* fs.patch_unified
  Sets,         \* conf.set
  Creates,      \* the conf.set with create
  Strict,       \* the conf.set of JSON: an empty file does not parse
  Unbacked,     \* the conf.set without backup
  MaxSeconds,   \* the seconds the instance lasts: backups are named by them
  MaxCrashes,
  Missing

Edits == Patches \cup Sets

ASSUME FileEditsAssumption ==
  /\ Creates \subseteq Sets /\ Strict \subseteq Sets /\ Unbacked \subseteq Sets
  /\ Patches \cap Sets = {}
  /\ Missing \notin Edits \cup {"original"}
  /\ "original" \notin Edits
  /\ MaxSeconds \in Nat \ {0} /\ MaxCrashes \in Nat

VARIABLES
  path,       \* the inode the name stands for
  data,       \* the content of each inode; one is named after who made it
  step,       \* where each edit is
  fd,         \* the inode it has open
  seen,       \* what it read
  creating,   \* the edits that found no file
  named,      \* the second in the name of their backup
  backups,    \* the content of the backups, by second
  second,
  hurt,       \* a patch was cut short, or was not alone while the file was
              \* empty (history)
  crashes

file == <<path, data, hurt>>
saved == <<named, backups>>
run == <<second, crashes>>
vars == <<file, saved, run, step, fd, seen, creating>>

Content == [rest : BOOLEAN, edits : SUBSET Edits]
Whole == [rest |-> TRUE, edits |-> {}]
Empty == [rest |-> FALSE, edits |-> {}]
With(e, c) == [c EXCEPT !.edits = @ \cup {e}]

\* What is there after new text went to the start of a file: what others wrote since
\* it was truncated may stick out behind it.
Torn(new, old) == [rest |-> FALSE, edits |-> new.edits \cup old.edits]
Written(new, old) == {new} \cup {Torn(new, o) : o \in {old} \ {Empty, new}}

Inodes == {"original"} \cup Edits
Over == {"done", "failed", "lost", "cut"}

Init ==
  /\ path \in {"original", Missing}
  /\ data = [i \in Inodes |-> IF i = "original" THEN Whole ELSE Empty]
  /\ step = [e \in Edits |-> "waiting"]
  /\ fd = [e \in Edits |-> Missing] /\ seen = [e \in Edits |-> Empty]
  /\ creating = {}
  /\ named = [e \in Edits |-> 0] /\ backups = [s \in 1 .. MaxSeconds |-> Missing]
  /\ second = 1 /\ hurt = FALSE /\ crashes = 0

GoTo(e, s) == step' = [step EXCEPT ![e] = s]

\* An error of the edit: the request fails.
Fails(e) ==
  /\ GoTo(e, "failed")
  /\ UNCHANGED <<file, saved, run, fd, seen, creating>>

-----------------------------------------------------------------------------
(***************************************************************************)
(* Reading, the first part of every edit.                                  *)
(***************************************************************************)
OpenToRead(e) ==
  /\ step[e] = "waiting" /\ path # Missing
  /\ fd' = [fd EXCEPT ![e] = path]
  /\ GoTo(e, "opened")
  /\ UNCHANGED <<file, saved, run, seen, creating>>

FindNothing(e) ==
  /\ step[e] = "waiting" /\ path = Missing /\ e \notin Creates
  /\ Fails(e)

\* conf.set with create starts from an empty configuration.
StartNew(e) ==
  /\ step[e] = "waiting" /\ path = Missing /\ e \in Creates
  /\ creating' = creating \cup {e}
  /\ seen' = [seen EXCEPT ![e] = Whole]
  /\ GoTo(e, "backed")
  /\ UNCHANGED <<file, saved, run, fd>>

ReadData(e) ==
  /\ step[e] = "opened"
  /\ seen' = [seen EXCEPT ![e] = data[fd[e]]]
  /\ hurt' = (hurt \/ seen'[e] = Empty)
  /\ GoTo(e, "read")
  /\ UNCHANGED <<path, data, saved, run, fd, creating>>

-----------------------------------------------------------------------------
(***************************************************************************)
(* fs.patch_unified.                                                       *)
(***************************************************************************)
\* The context of a hunk is not where it should be: never in a whole file.
PatchRefused(p) ==
  /\ p \in Patches /\ step[p] = "read" /\ ~seen[p].rest
  /\ Fails(p)

\* os.WriteFile makes the file if it is gone.
Truncate(p) ==
  /\ p \in Patches /\ step[p] = "read" /\ seen[p] # Empty
  /\ \E i \in {IF path = Missing THEN p ELSE path} :
       /\ path' = i
       /\ data' = [data EXCEPT ![i] = Empty]
       /\ fd' = [fd EXCEPT ![p] = i]
       /\ hurt' = (hurt \/ (i = path /\ data[i] = Empty))
  /\ GoTo(p, "truncated")
  /\ UNCHANGED <<saved, run, seen, creating>>

Rewrite(p) ==
  /\ step[p] = "truncated"
  /\ \E c \in Written(With(p, seen[p]), data[fd[p]]) :
       data' = [data EXCEPT ![fd[p]] = c]
  /\ GoTo(p, "done")
  /\ UNCHANGED <<path, hurt, saved, run, fd, seen, creating>>

\* The disk is full: the file stays empty.
RewriteFails(p) ==
  /\ step[p] = "truncated"
  /\ hurt' = TRUE
  /\ GoTo(p, "failed")
  /\ UNCHANGED <<path, data, saved, run, fd, seen, creating>>

-----------------------------------------------------------------------------
(***************************************************************************)
(* conf.set.                                                               *)
(***************************************************************************)
\* A file that lost its rest may still parse.
Parses(e) == seen[e] # Empty \/ e \notin Strict

SetRefused(e) ==
  /\ e \in Sets /\ step[e] = "read" /\ ~seen[e].rest
  /\ seen[e] = Empty => e \in Strict
  /\ Fails(e)

SkipBackup(e) ==
  /\ e \in Unbacked /\ step[e] = "read" /\ Parses(e)
  /\ GoTo(e, "backed")
  /\ UNCHANGED <<file, saved, run, fd, seen, creating>>

\* The directory cannot be made or the backup not opened.
BackupFails(e) ==
  /\ e \in Sets \ Unbacked /\ step[e] = "read" /\ Parses(e)
  /\ Fails(e)

\* os.WriteFile opens the backup and truncates it: what an edit of the same second
\* saved is gone.
OpenBackup(e) ==
  /\ e \in Sets \ Unbacked /\ step[e] = "read" /\ Parses(e)
  /\ named' = [named EXCEPT ![e] = second]
  /\ backups' = [backups EXCEPT ![second] = Empty]
  /\ GoTo(e, "saving")
  /\ UNCHANGED <<file, run, fd, seen, creating>>

\* It writes what the edit read.
SavedUpdated(e) == With(e, seen[e])
SavedOriginal(e) == seen[e]

Fill(e) ==
  \E c \in Written(SavedOriginal(e), backups[named[e]]) :
    backups' = [backups EXCEPT ![named[e]] = c]

WriteBackup(e) ==
  /\ step[e] = "saving"
  /\ Fill(e)
  /\ GoTo(e, "backed")
  /\ UNCHANGED <<named, file, run, fd, seen, creating>>

\* The disk is full, before or behind the first bytes.
WriteBackupFails(e) ==
  /\ step[e] = "saving"
  /\ UNCHANGED backups \/ (backups[named[e]] # Empty /\ Fill(e))
  /\ GoTo(e, "cut")
  /\ UNCHANGED <<named, file, run, fd, seen, creating>>

\* writeFileAtomic: the temporary file, its bytes, its name.  The permissions
\* of a file that is replaced are looked up first.
MakeTemp(e) ==
  /\ step[e] = "backed"
  /\ e \in creating \/ path # Missing
  /\ GoTo(e, "temp")
  /\ UNCHANGED <<file, saved, run, fd, seen, creating>>

FillTemp(e) ==
  /\ step[e] = "temp"
  /\ data' = [data EXCEPT ![e] = With(e, seen[e])]
  /\ GoTo(e, "filled")
  /\ UNCHANGED <<path, hurt, saved, run, fd, seen, creating>>

TempFails(e) == step[e] \in {"backed", "temp", "filled"} /\ Fails(e)

ReadyEarly(e) == step[e] \in {"temp", "filled"}
Ready(e) == step[e] = "filled"
MayLandAnyway(e) == TRUE
MayLand(e) == e \in creating => path = Missing

Land(e) ==
  /\ Ready(e) /\ MayLand(e)
  /\ path' = e
  /\ GoTo(e, "done")
  /\ UNCHANGED <<data, hurt, saved, run, fd, seen, creating>>

NameTaken(e) == step[e] = "filled" /\ ~MayLand(e) /\ Fails(e)

-----------------------------------------------------------------------------
\* A command, or somebody else on the host, removes the file.
Remove ==
  /\ path # Missing
  /\ path' = Missing
  /\ UNCHANGED <<data, hurt, saved, run, step, fd, seen, creating>>

Tick ==
  /\ second < MaxSeconds
  /\ second' = second + 1
  /\ UNCHANGED <<file, saved, crashes, step, fd, seen, creating>>

\* A restart runs none of them again.
Interrupted(s) ==
  CASE s \in Over -> s
    [] s = "saving" -> "cut"
    [] OTHER -> "lost"

Crash ==
  /\ crashes < MaxCrashes
  /\ crashes' = crashes + 1
  /\ step' = [e \in Edits |-> Interrupted(step[e])]
  /\ hurt' = (hurt \/ \E p \in Patches : step[p] = "truncated")
  /\ UNCHANGED <<path, data, saved, second, fd, seen, creating>>

Next ==
  \/ \E e \in Edits : OpenToRead(e) \/ FindNothing(e) \/ ReadData(e)
  \/ \E p \in Patches : \/ PatchRefused(p) \/ Truncate(p)
                        \/ Rewrite(p) \/ RewriteFails(p)
  \/ \E e \in Sets : \/ StartNew(e) \/ SetRefused(e) \/ SkipBackup(e)
                     \/ BackupFails(e) \/ OpenBackup(e)
                     \/ WriteBackup(e) \/ WriteBackupFails(e)
                     \/ MakeTemp(e) \/ FillTemp(e) \/ TempFails(e)
                     \/ Land(e) \/ NameTaken(e)
  \/ Remove \/ Tick \/ Crash

Spec == Init /\ [][Next]_vars

-----------------------------------------------------------------------------
\* Types; an edit that reads, or writes in place, has an inode open, and one that
\* saves has a backup.
TypeOK ==
  /\ path \in Inodes \cup {Missing}
  /\ data \in [Inodes -> Content] /\ seen \in [Edits -> Content]
  /\ step \in [Edits -> {"waiting", "opened", "read", "truncated", "saving",
                         "backed", "temp", "filled"} \cup Over]
  /\ fd \in [Edits -> Inodes \cup {Missing}]
  /\ \A e \in Edits :
       /\ step[e] \in {"opened", "read", "truncated"} => fd[e] \in Inodes
       /\ step[e] = "saving" =>
            e \in Sets \ Unbacked /\ named[e] # 0 /\ backups[named[e]] \in Content
  /\ creating \subseteq Creates
  /\ named \in [Edits -> 0 .. MaxSeconds]
  /\ backups \in [1 .. MaxSeconds -> Content \cup {Missing}]
  /\ second \in 1 .. MaxSeconds /\ hurt \in BOOLEAN
  /\ crashes \in 0 .. MaxCrashes

\* configedit.go 325-359, patch_file.go 41: the file is cut short only while a
\* patch writes it back, and nothing is lost from it for good unless that patch
\* fails or dies there, or another edit reads or truncates the empty file.
\* Edits of the configuration are never the cause: whatever they do at the same
\* time and wherever they die, the name stands for a complete version.
CutShortByPatchesOnly ==
  ~hurt =>
    /\ path # Missing /\ ~data[path].rest =>
         \E p \in Patches : step[p] = "truncated" /\ fd[p] = path
    /\ \A e \in Edits : step[e] \in {"read", "saving", "backed", "temp", "filled", "done"} =>
         seen[e].rest

\* configedit.go 353-357: an edit that found no file never replaces one that
\* another edit made meanwhile.
CreateNeverReplaces ==
  [][\A e \in creating : path' = e /\ path # e => path = Missing]_vars

Backed(e) ==
  /\ e \in Sets \ (Unbacked \cup creating)
  /\ step[e] \in {"backed", "temp", "filled", "done"}

\* configedit.go 88-95 and 309-323: a file is replaced only when what it held is
\* saved.  From its backup on, the backup of an edit holds what that edit read,
\* unless another edit that took the same second read something else, is writing the
\* same backup or ended while it wrote it.  Nothing else touches it, whatever fails and
\* wherever the server dies.
BackupHoldsOriginal ==
  \A e \in Edits : Backed(e) =>
    \/ backups[named[e]] = seen[e]
    \/ \E o \in Sets \ {e} :
         /\ named[o] = named[e]
         /\ seen[o] # seen[e] \/ step[o] \in {"saving", "cut"}

\* README.md 138 and configedit_test.go 35: an edit that is done has a backup of what
\* it read, once nobody writes one.  Not so: an edit of the same second replaces it.
DoneIsBackedUp ==
  (\A o \in Sets : step[o] # "saving") =>
    \A e \in Edits : Backed(e) /\ step[e] = "done" => backups[named[e]] = seen[e]
=============================================================================
