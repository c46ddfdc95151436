-------------------------- MODULE TransfersProofs --------------------------
(***************************************************************************)
(* Uploads and downloads for any number of them, with any kills, crashes,  *)
(* failing writes and any timing of the cleanup.                           *)
(***************************************************************************)
EXTENDS TransfersRefinement, TLAPS

\* The steps at which a request waits for its decision or its slot, those at
\* which it is not stored, and those of a request that removes its own files.
Waiting == {"prepared", "pending", "approved"}
Unstored == {"new", "claiming", "prepared", "REFUSED"}
Cleaning == {"REFUSED", "DENIED", "succeeding", "failing"}

\* A request that has not asked yet owns nothing; one that claims or that was
\* stored owns something.
OwnsOnTheWay ==
  \A r \in Claimers :
    /\ req[r] = "new" => owns[r] = None
    /\ req[r] \in {"claiming", "prepared"} \/ row[r] # "none" => owns[r] # None

\* What is owned was staged, so that nobody stages it again.
OwnedIsStaged ==
  \A r \in Claimers : owns[r] # None => stage[owns[r]] = "staged"

\* Once the claim is written, the metadata of the upload says so or is gone.
OwnedIsClaimed ==
  \A r \in Claimers :
    owns[r] # None /\ lock # r /\ meta[owns[r]].there => meta[owns[r]].claimed

\* A row is pending as long as the request is, except that a kill marks it in
\* memory first; and kills work on stored requests.
RowsFit ==
  \A r \in Requests :
    /\ row[r] = "none" => req[r] \in Unstored \cup {"lost"} /\ kill[r] = "none"
    /\ req[r] \in Unstored => row[r] = "none"
    /\ row[r] = "pending" => req[r] \in {"pending", "KILLED"}
    /\ req[r] = "pending" => row[r] = "pending"
    /\ kill[r] = "marked" => r \in killed /\ req[r] \notin {"pending", "stranded"}
    /\ req[r] = "KILLED" => r \in killed

\* Files are removed for owners that are over or were killed.
RemovalsFit ==
  \A r \in Claimers, by \in Removers, f \in Files :
    <<r, by, f>> \in removing =>
      /\ owns[r] # None
      /\ by = "own" => req[r] \in Cleaning
      /\ by = "kill" => kill[r] = "marked"

\* Data come first and metadata last; only the cleanup breaks a pair that
\* nobody has claimed.
PairsAreWhole ==
  \A u \in Uploads :
    /\ stage[u] # "staged" => ~meta[u].there
    /\ stage[u] = "data" /\ u \notin swept => bin[u].there
    /\ meta[u].there /\ ~meta[u].claimed /\ u \notin swept => bin[u].there

\* The upload that is being claimed is whole.
ClaimingHasBytes ==
  \A r \in Claimers : req[r] = "claiming" /\ owns[r] \notin swept => Readable(owns[r])

\* A removal that has come to the metadata has removed the data.
HalfRemoved ==
  \A r \in Claimers, by \in Removers :
    <<r, by, "meta">> \in removing /\ <<r, "error">> \notin spared
      => ~bin[owns[r]].there

\* The copy of a request that is over, or about to be, is gone or being removed,
\* with the exceptions of StagedCopyRemoved.
CopiesGo ==
  \A r \in Claimers :
    /\ owns[r] # None
    /\ req[r] \in Final \cup {"succeeding", "failing"}
    /\ \A by \in Removers : ~Cleans(r, by)
    /\ <<r, "error">> \notin spared /\ <<r, "crash">> \notin spared
    /\ ~(r \in UploadRequests /\ req[r] \in {"failing", "FAILED"})
    => Removed(owns[r])

\* The files of a download that has yet to end, or to write its metadata.
SavedHasData ==
  \A r \in DownloadRequests : r \notin swept =>
    /\ req[r] = "saved" => artifact[r].data.there
    /\ req[r] = "succeeding" => artifact[r].data.there /\ artifact[r].meta.there

\* The command asks for its request once.
AsksOnce ==
  \A r \in DownloadRequests : client[r].step = "new" => req[r] = "new"

Ownership == OneOwner /\ OwnsOnTheWay /\ OwnedIsStaged /\ OwnedIsClaimed
Statuses == RowsFit /\ RemovalsFit
Bytes == PairsAreWhole /\ ClaimingHasBytes /\ WaitingHasBytes
Copies == HalfRemoved /\ CopiesGo
Downloads == SavedHasData /\ DownloadReady /\ AsksOnce

Inv == TypeOK /\ Ownership /\ Statuses /\ Bytes /\ Copies /\ Downloads

-----------------------------------------------------------------------------
(***************************************************************************)
(* Types.                                                                  *)
(***************************************************************************)
\* The constants name different things.
LEMMA Disjoint ==
  /\ UploadRequests \cap StdinRequests = {}
  /\ DownloadRequests \cap Claimers = {}
  /\ None \notin Uploads /\ None \notin Requests
  /\ "theirs" \notin Uploads /\ "older" \notin Uploads
  /\ None \notin {"theirs", "older"}
  /\ Claimers \subseteq Requests /\ DownloadRequests \subseteq Requests
BY ConstantsAssumption DEF ConstantsAssumption, Requests, Claimers

\* The initial state is well typed.
LEMMA InitType == Init => TypeOK
BY Disjoint
DEF Init, TypeOK, Absent, NoArtifact, Artifacts, Contents, Clients, ClientSteps, Steps,
    Rows, Final, Requests, Claimers

\* What the proofs use of the types.
LEMMA Functions ==
  ASSUME TypeOK
  PROVE  /\ req \in [Requests -> Steps] /\ row \in [Requests -> Rows]
         /\ kill \in [Requests -> {"none", "looked", "marked"}]
         /\ owns \in [Claimers -> Uploads \cup {None}]
         /\ stage \in [Uploads -> {"new", "data", "staged", "failed"}]
         /\ bin \in [Uploads -> {Absent} \cup File]
         /\ meta \in [Uploads -> {Absent} \cup MetaFile]
         /\ \A r \in Claimers : req[r] = "claiming" <=> lock = r
BY DEF TypeOK

\* A clean-up that begins is of an upload of the request itself.
LEMMA CleanUpEffect ==
  ASSUME TypeOK, NEW r \in Requests, NEW by \in Removers, CleanUp(r, by)
  PROVE  /\ removing' \in SUBSET (Claimers \X Removers \X Files)
         /\ removing \subseteq removing'
         /\ r \in Claimers => <<r, by, "data">> \in removing'
         /\ \A q \in Claimers, b \in Removers, f \in Files :
              <<q, b, f>> \in removing' =>
                <<q, b, f>> \in removing \/ (q = r /\ b = by /\ f = "data")
BY DEF CleanUp, TypeOK, Files

\* The status of a request is written or not.
LEMMA RowType ==
  ASSUME TypeOK, NEW r \in Requests, NEW w \in Rows, Stores(r, w)
  PROVE  row' \in [Requests -> Rows]
BY DEF TypeOK, Stores, Stored

\* What is written as a file is one.
LEMMA FileTypes ==
  /\ NewFile \in File /\ NewMeta(FALSE) \in MetaFile /\ NewMeta(TRUE) \in MetaFile
  /\ \A f \in File : f.there /\ [f EXCEPT !.old = TRUE] \in File
  /\ \A f \in MetaFile :
       f.there /\ f.claimed \in BOOLEAN /\ [f EXCEPT !.old = TRUE] \in MetaFile
  /\ ~Absent.there
BY DEF NewFile, NewMeta, File, MetaFile, Absent

\* Each part of a record may be written by itself.
LEMMA RecordUpdates ==
  /\ NoArtifact \in Artifacts
  /\ \A a \in Artifacts :
       /\ a.bytes \in Contents
       /\ a.data \in {Absent} \cup File /\ a.meta \in {Absent} \cup File
       /\ \A b \in Contents : [a EXCEPT !.bytes = b] \in Artifacts
       /\ \A f \in {Absent} \cup File :
            [a EXCEPT !.data = f] \in Artifacts /\ [a EXCEPT !.meta = f] \in Artifacts
  /\ \A c \in Clients :
       /\ c.bytes \in Contents
       /\ \A s \in ClientSteps :
            /\ [c EXCEPT !.step = s] \in Clients
            /\ \A b \in Contents : [c EXCEPT !.step = s, !.bytes = b] \in Clients
            /\ \A force \in BOOLEAN : [c EXCEPT !.step = s, !.force = force] \in Clients
BY DEF Artifacts, Clients, ClientSteps, NoArtifact, Contents

\* The step of one download command.
LEMMA ClientType ==
  ASSUME TypeOK, NEW r \in DownloadRequests, NEW s \in ClientSteps, Client(r, s)
  PROVE  client' \in [DownloadRequests -> Clients]
<1>1. client \in [DownloadRequests -> Clients]
  BY DEF TypeOK
<1>2. [client[r] EXCEPT !.step = s] \in Clients
  BY <1>1, RecordUpdates
<1> QED BY <1>1, <1>2 DEF Client

\* One artifact is replaced.
LEMMA ArtifactType ==
  ASSUME TypeOK, NEW r \in DownloadRequests, NEW a \in Artifacts,
         artifact' = [artifact EXCEPT ![r] = a]
  PROVE  artifact' \in [DownloadRequests -> Artifacts]
BY DEF TypeOK

\* The steps that a request takes after its claim.
LaterSteps == Steps \ {"claiming"}

\* One step of one request, other than the steps of a claim.
LEMMA StepType ==
  ASSUME TypeOK, NEW r \in Requests, NEW s \in LaterSteps, Step(r, s),
         r \in Claimers => req[r] # "claiming"
  PROVE  /\ req' \in [Requests -> Steps]
         /\ \A c \in Claimers : req'[c] = "claiming" <=> lock = c
<1>1. /\ req \in [Requests -> Steps] /\ req' = [req EXCEPT ![r] = s]
      /\ \A c \in Claimers : c \in Requests /\ (req[c] = "claiming" <=> lock = c)
  BY Disjoint DEF TypeOK, Step
<1> QED BY <1>1 DEF LaterSteps

\* A file that grows old is still a file.
LEMMA GrowOldType ==
  ASSUME TypeOK, GrowOld
  PROVE  /\ bin' \in [Uploads -> {Absent} \cup File]
         /\ meta' \in [Uploads -> {Absent} \cup MetaFile]
         /\ artifact' \in [DownloadRequests -> Artifacts]
<1>1. /\ bin' \in [Uploads -> {Absent} \cup File]
      /\ meta' \in [Uploads -> {Absent} \cup MetaFile]
  BY FileTypes DEF GrowOld, Grows, TypeOK, files
<1>2. artifact' \in [DownloadRequests -> Artifacts]
  <2>1. CASE artifact' = artifact
    BY <2>1 DEF TypeOK
  <2>2. ASSUME NEW r \in DownloadRequests, Grows(artifact[r].data),
               artifact' = [artifact EXCEPT ![r].data.old = TRUE]
        PROVE  artifact' \in [DownloadRequests -> Artifacts]
    <3>1. artifact \in [DownloadRequests -> Artifacts] /\ artifact[r] \in Artifacts
      BY DEF TypeOK
    <3>2. [artifact[r].data EXCEPT !.old = TRUE] \in File
      BY <2>2, <3>1, FileTypes, RecordUpdates DEF Grows
    <3>3. [artifact[r] EXCEPT !.data = [artifact[r].data EXCEPT !.old = TRUE]] \in Artifacts
      BY <3>1, <3>2, RecordUpdates
    <3> QED BY <2>2, <3>1, <3>3
  <2>3. ASSUME NEW r \in DownloadRequests, Grows(artifact[r].meta),
               artifact' = [artifact EXCEPT ![r].meta.old = TRUE]
        PROVE  artifact' \in [DownloadRequests -> Artifacts]
    <3>1. artifact \in [DownloadRequests -> Artifacts] /\ artifact[r] \in Artifacts
      BY DEF TypeOK
    <3>2. [artifact[r].meta EXCEPT !.old = TRUE] \in File
      BY <2>3, <3>1, FileTypes, RecordUpdates DEF Grows
    <3>3. [artifact[r] EXCEPT !.meta = [artifact[r].meta EXCEPT !.old = TRUE]] \in Artifacts
      BY <3>1, <3>2, RecordUpdates
    <3> QED BY <2>3, <3>1, <3>3
  <2> QED BY <2>1, <2>2, <2>3 DEF GrowOld
<1> QED BY <1>1, <1>2

\* The files of uploads come and go.
LEMMA FilesType ==
  ASSUME TypeOK, NEW u \in Uploads,
         \/ StageData(u) \/ StageMeta(u) \/ SweepData(u) \/ SweepLook(u) \/ SweepMeta(u)
  PROVE  TypeOK'
<1>1. /\ UNCHANGED <<lock, req, row, known, kill, killed, owns, removing, target, artifact>>
      /\ UNCHANGED <<client, local, spared>>
  BY DEF StageData, StageMeta, SweepData, SweepLook, SweepMeta, status, kills, up, files, peer
<1>2. /\ bin' \in [Uploads -> {Absent} \cup File]
      /\ meta' \in [Uploads -> {Absent} \cup MetaFile]
  <2>1. CASE StageData(u)
    BY <2>1, FileTypes DEF StageData, TypeOK
  <2>2. CASE StageMeta(u)
    <3>1. bin' \in [Uploads -> {Absent} \cup File]
      BY <2>2 DEF StageMeta, TypeOK
    <3>2. meta' \in [Uploads -> {Absent} \cup MetaFile]
      BY <2>2, FileTypes DEF StageMeta, TypeOK
    <3> QED BY <3>1, <3>2
  <2>3. CASE SweepData(u) \/ SweepLook(u) \/ SweepMeta(u)
    BY <2>3 DEF SweepData, SweepLook, SweepMeta, files, TypeOK
  <2> QED BY <2>1, <2>2, <2>3
<1>3. /\ stage' \in [Uploads -> {"new", "data", "staged", "failed"}]
      /\ doomed' \in SUBSET Uploads
  BY DEF StageData, StageMeta, SweepData, SweepLook, SweepMeta, up, TypeOK
<1>4. swept' \in SUBSET (Uploads \cup DownloadRequests)
  BY DEF StageData, StageMeta, SweepData, SweepLook, SweepMeta, TypeOK
<1> QED BY <1>1, <1>2, <1>3, <1>4 DEF TypeOK

\* A request is claimed, decided, killed or executed.
LEMMA RequestType ==
  ASSUME TypeOK, NEW r \in Requests, Submit(r) \/ Kill(r) \/ Execute(r)
  PROVE  TypeOK'
<1> USE DEF files, peer, up, status, kills, Tells
<1> DEFINE ReqOK == /\ req' \in [Requests -> Steps]
                    /\ \A c \in Claimers : req'[c] = "claiming" <=> lock' = c
           RowOK == row' \in [Requests -> Rows]
           RemovingOK == removing' \in SUBSET (Claimers \X Removers \X Files)
<1>0. /\ {"REFUSED", "pending", "approved", "DENIED", "KILLED", "running", "open", "saved",
          "FAILED", "SUCCEEDED", "prepared", "succeeding", "failing"} \subseteq LaterSteps
      /\ {"pending", "approved", "running", "over"} \subseteq Rows
      /\ "own" \in Removers /\ "kill" \in Removers
  BY DEF LaterSteps, Steps, Final, Rows, Removers
<1>1. CASE ClaimWrite(r)
  <2>1. meta' \in [Uploads -> {Absent} \cup MetaFile]
    BY <1>1, FileTypes DEF ClaimWrite, TypeOK
  <2>2. r \in Claimers /\ lock = r /\ lock' = None
    BY <1>1, Disjoint DEF TypeOK, ClaimWrite
  <2>3. /\ req \in [Requests -> Steps]
        /\ req' = [req EXCEPT ![r] = "prepared"] \/ req' = [req EXCEPT ![r] = "REFUSED"]
    BY <1>1 DEF TypeOK, ClaimWrite, Step
  <2>4. \A c \in Claimers : c \in Requests /\ c # None /\ (req[c] = "claiming" <=> lock = c)
    BY Disjoint DEF TypeOK
  <2>5. ReqOK
    BY <1>0, <2>2, <2>3, <2>4 DEF LaterSteps
  <2>6. owns' \in [Claimers -> Uploads \cup {None}]
    BY <1>1 DEF TypeOK, ClaimWrite
  <2> QED BY <1>1, <2>1, <2>2, <2>5, <2>6 DEF ClaimWrite, TypeOK
<1>2. CASE Insert(r)
  <2>1. ReqOK
    BY <1>0, <1>2, StepType DEF Insert
  <2>2. RowOK
    BY <1>0, <1>2, RowType DEF Insert, Stores, TypeOK
  <2>3. RemovingOK
    BY <1>0, <1>2, CleanUpEffect DEF Insert, TypeOK
  <2> QED BY <1>2, <2>1, <2>2, <2>3 DEF Insert, TypeOK
<1>3. CASE Decide(r)
  <2>1. ReqOK
    BY <1>0, <1>3, StepType DEF Decide
  <2>2. RowOK
    BY <1>0, <1>3, RowType DEF Decide, Stores
  <2>3. RemovingOK
    BY <1>0, <1>3, CleanUpEffect DEF Decide, TypeOK
  <2> QED BY <1>3, <2>1, <2>2, <2>3 DEF Decide, TypeOK
<1>4. CASE KillLooks(r)
  BY <1>4 DEF KillLooks, TypeOK
<1>5. CASE KillMarks(r)
  <2>1. ReqOK
    BY <1>0, <1>5, StepType DEF KillMarks, TypeOK, Idle
  <2>2. RemovingOK
    BY <1>0, <1>5, CleanUpEffect DEF KillMarks
  <2>3. /\ kill' \in [Requests -> {"none", "looked", "marked"}] /\ killed' \in SUBSET Requests
        /\ known' \in SUBSET DownloadRequests
    BY <1>5 DEF KillMarks, TypeOK
  <2> QED BY <1>5, <2>1, <2>2, <2>3 DEF KillMarks, TypeOK
<1>6. CASE KillSaves(r)
  <2>1. RowOK
    BY <1>0, <1>6, RowType DEF KillSaves
  <2> QED BY <1>6, <2>1 DEF KillSaves, TypeOK
<1>7. CASE Start(r)
  <2>1. ReqOK
    BY <1>0, <1>7, StepType DEF Start
  <2>2. RowOK
    BY <1>0, <1>7, RowType DEF Start
  <2> QED BY <1>7, <2>1, <2>2 DEF Start, TypeOK
<1>8. CASE OpenStdin(r)
  <2>1. ReqOK
    BY <1>0, <1>8, StepType DEF OpenStdin
  <2>2. RemovingOK
    BY <1>0, <1>8, CleanUpEffect DEF OpenStdin, TypeOK
  <2> QED BY <1>8, <2>1, <2>2 DEF OpenStdin, TypeOK
<1>9. CASE RunEnds(r)
  <2>1. ReqOK
    BY <1>0, <1>9, StepType DEF RunEnds
  <2>2. RemovingOK
    BY <1>0, <1>9, CleanUpEffect DEF RunEnds
  <2> QED BY <1>9, <2>1, <2>2 DEF RunEnds, TypeOK
<1>10. CASE OpenUpload(r)
  <2>1. ReqOK
    BY <1>0, <1>10, StepType DEF OpenUpload
  <2> QED BY <1>10, <2>1 DEF OpenUpload, TypeOK
<1>11. CASE Install(r)
  <2>1. ReqOK
    BY <1>0, <1>11, StepType DEF Install
  <2>2. RemovingOK
    BY <1>0, <1>11, CleanUpEffect DEF Install, TypeOK
  <2>3. target' \in Contents
    BY <1>11 DEF Install, TypeOK, Claimers, Contents
  <2> QED BY <1>11, <2>1, <2>2, <2>3 DEF Install, TypeOK
<1>12. CASE Snapshot(r)
  <2>1. artifact \in [DownloadRequests -> Artifacts] /\ target \in Contents
    BY DEF TypeOK
  <2>2. r \in DownloadRequests /\ [artifact[r] EXCEPT !.bytes = target] \in Artifacts
    BY <1>12, <2>1, RecordUpdates DEF Snapshot
  <2>3. artifact' \in [DownloadRequests -> Artifacts]
    BY <1>12, <2>1, <2>2 DEF Snapshot
  <2>4. ReqOK
    BY <1>0, <1>12, StepType DEF Snapshot
  <2> QED BY <1>12, <2>3, <2>4 DEF Snapshot, TypeOK
<1>13. CASE SaveData(r)
  <2>1. artifact \in [DownloadRequests -> Artifacts]
    BY DEF TypeOK
  <2>2. r \in DownloadRequests /\ [artifact[r] EXCEPT !.data = NewFile] \in Artifacts
    BY <1>13, <2>1, RecordUpdates, FileTypes DEF SaveData
  <2>3. artifact' \in [DownloadRequests -> Artifacts]
    BY <1>13, <2>1, <2>2 DEF SaveData
  <2>4. ReqOK
    BY <1>0, <1>13, StepType DEF SaveData
  <2> QED BY <1>13, <2>3, <2>4 DEF SaveData, TypeOK
<1>14. CASE SaveMeta(r)
  <2>1. artifact \in [DownloadRequests -> Artifacts]
    BY DEF TypeOK
  <2>2. /\ r \in DownloadRequests
        /\ [artifact[r] EXCEPT !.meta = NewFile] \in Artifacts
        /\ [artifact[r] EXCEPT !.data = Absent] \in Artifacts
    BY <1>14, <2>1, RecordUpdates, FileTypes DEF SaveMeta
  <2>3. artifact' \in [DownloadRequests -> Artifacts]
    BY <1>14, <2>1, <2>2 DEF SaveMeta
  <2>4. ReqOK
    BY <1>0, <1>14, StepType DEF SaveMeta
  <2> QED BY <1>14, <2>3, <2>4 DEF SaveMeta, TypeOK
<1>15. CASE End(r)
  <2>1. ReqOK
    BY <1>0, <1>15, StepType DEF End
  <2>2. RowOK
    BY <1>0, <1>15, RowType DEF End
  <2> QED BY <1>15, <2>1, <2>2 DEF End, TypeOK
<1> QED
  BY <1>1, <1>2, <1>3, <1>4, <1>5, <1>6, <1>7, <1>8, <1>9, <1>10, <1>11, <1>12, <1>13,
     <1>14, <1>15
  DEF Submit, Kill, Execute

\* Every step, stuttering steps included, preserves the types.
LEMMA NextType == TypeOK /\ [Next]_vars => TypeOK'
<1> SUFFICES ASSUME TypeOK, [Next]_vars PROVE TypeOK'
  OBVIOUS
<1> USE DEF files, peer, up, server, status, kills
<1> DEFINE ReqOK == /\ req' \in [Requests -> Steps]
                    /\ \A c \in Claimers : req'[c] = "claiming" <=> lock' = c
<1>0. {"REFUSED", "prepared"} \subseteq LaterSteps
  BY DEF LaterSteps, Steps, Final
<1>1. ASSUME NEW u \in Uploads,
             \/ StageData(u) \/ StageMeta(u) \/ SweepData(u) \/ SweepLook(u) \/ SweepMeta(u)
      PROVE  TypeOK'
  BY <1>1, FilesType
<1>2. ASSUME NEW u \in Uploads, NEW r \in Claimers, Claim(r, u) PROVE TypeOK'
  <2>1. r \in Requests /\ req \in [Requests -> Steps] /\ "claiming" \in Steps
    BY Disjoint DEF TypeOK, Steps
  <2>2. CASE Claimable(u)
    <3>1. lock' = r /\ req' = [req EXCEPT ![r] = "claiming"]
      BY <1>2, <2>2 DEF Claim, Step
    <3>2. \A c \in Claimers : c \in Requests /\ req[c] # "claiming"
      BY <1>2, Disjoint DEF Claim, TypeOK
    <3>3. ReqOK
      BY <2>1, <3>1, <3>2
    <3> QED BY <1>2, <2>2, <3>1, <3>3 DEF Claim, TypeOK
  <2>3. CASE ~Claimable(u)
    <3>1. ReqOK
      BY <1>0, <1>2, <2>1, <2>3, StepType DEF Claim
    <3> QED BY <1>2, <2>3, <3>1 DEF Claim, TypeOK
  <2> QED BY <2>2, <2>3
<1>3. ASSUME NEW r \in Requests, Submit(r) \/ Kill(r) \/ Execute(r) PROVE TypeOK'
  BY <1>3, RequestType
<1>4. ASSUME NEW r \in Claimers, NEW by \in Removers, NEW f \in Files, Remove(r, by, f)
      PROVE  TypeOK'
  <2>1. /\ bin' \in [Uploads -> {Absent} \cup File]
        /\ meta' \in [Uploads -> {Absent} \cup MetaFile]
    BY <1>4 DEF Remove, TypeOK
  <2>2. /\ removing' \in SUBSET (Claimers \X Removers \X Files)
        /\ spared' \in SUBSET (Claimers \X {"error", "crash"})
    BY <1>4 DEF Remove, TypeOK, Files
  <2> QED BY <1>4, <2>1, <2>2 DEF Remove, TypeOK
<1>5. ASSUME NEW r \in DownloadRequests, SweepArtifact(r) PROVE TypeOK'
  <2>1. artifact \in [DownloadRequests -> Artifacts]
    BY DEF TypeOK
  <2>2. /\ [artifact[r] EXCEPT !.data = Absent] \in Artifacts
        /\ [artifact[r] EXCEPT !.meta = Absent] \in Artifacts
    BY <2>1, RecordUpdates
  <2>3. artifact' \in [DownloadRequests -> Artifacts]
    BY <1>5, <2>1, <2>2 DEF SweepArtifact
  <2> QED BY <1>5, <2>3 DEF SweepArtifact, TypeOK
<1>6. ASSUME NEW r \in DownloadRequests, NEW force \in BOOLEAN, Begin(r, force)
      PROVE  TypeOK'
  <2>1. CASE local[r] # None /\ ~force
    <3>1. client' \in [DownloadRequests -> Clients]
      BY <1>6, <2>1, ClientType DEF Begin, ClientSteps
    <3> QED BY <1>6, <2>1, <3>1 DEF Begin, TypeOK
  <2>2. CASE ~(local[r] # None /\ ~force)
    <3>1. client \in [DownloadRequests -> Clients] /\ r \in Requests
      BY Disjoint DEF TypeOK
    <3>2. [client[r] EXCEPT !.step = "waiting", !.force = force] \in Clients
      BY <3>1, RecordUpdates DEF ClientSteps
    <3>3. client' \in [DownloadRequests -> Clients]
      BY <1>6, <2>2, <3>1, <3>2 DEF Begin
    <3>4. ReqOK
      BY <1>0, <1>6, <2>2, <3>1, StepType, Disjoint DEF Begin
    <3> QED BY <1>6, <2>2, <3>3, <3>4 DEF Begin, TypeOK
  <2> QED BY <2>1, <2>2
<1>7. ASSUME NEW r \in DownloadRequests, ServeMeta(r) PROVE TypeOK'
  <2>1. client' \in [DownloadRequests -> Clients]
    BY <1>7, ClientType DEF ServeMeta, ClientSteps
  <2> QED BY <1>7, <2>1 DEF ServeMeta, TypeOK
<1>8. ASSUME NEW r \in DownloadRequests, ServeData(r) PROVE TypeOK'
  <2>1. client \in [DownloadRequests -> Clients] /\ artifact[r] \in Artifacts
    BY DEF TypeOK
  <2>2. [client[r] EXCEPT !.step = "received", !.bytes = artifact[r].bytes] \in Clients
    BY <2>1, RecordUpdates DEF ClientSteps
  <2>3. client' \in [DownloadRequests -> Clients]
    BY <1>8, <2>1, <2>2, ClientType DEF ServeData, ClientSteps
  <2> QED BY <1>8, <2>3 DEF ServeData, TypeOK
<1>9. ASSUME NEW r \in DownloadRequests, Place(r) PROVE TypeOK'
  <2>1. client' \in [DownloadRequests -> Clients]
    BY <1>9, ClientType DEF Place, ClientSteps
  <2>2. client[r].bytes \in Contents
    BY RecordUpdates DEF TypeOK
  <2>3. local' \in [DownloadRequests -> Contents \cup {"theirs"}]
    BY <1>9, <2>2 DEF Place, TypeOK
  <2> QED BY <1>9, <2>1, <2>3 DEF Place, TypeOK
<1>10. ASSUME NEW r \in DownloadRequests, MakeLocal(r) PROVE TypeOK'
  BY <1>10 DEF MakeLocal, TypeOK
<1>11. CASE GrowOld
  <2>1. /\ bin' \in [Uploads -> {Absent} \cup File]
        /\ meta' \in [Uploads -> {Absent} \cup MetaFile]
        /\ artifact' \in [DownloadRequests -> Artifacts]
    BY <1>11, GrowOldType
  <2> QED BY <1>11, <2>1 DEF GrowOld, TypeOK
<1>12. CASE Crash
  <2>1. req' \in [Requests -> Steps]
    BY <1>12 DEF Crash, Reloaded, TypeOK, Steps, Final
  <2>2. \A c \in Claimers : req'[c] # "claiming" /\ c # None
    BY <1>12, Disjoint DEF Crash, Reloaded, Final
  <2>3. /\ stage' \in [Uploads -> {"new", "data", "staged", "failed"}]
        /\ owns' \in [Claimers -> Uploads \cup {None}]
        /\ row' \in [Requests -> Rows]
        /\ kill' \in [Requests -> {"none", "looked", "marked"}]
    BY <1>12 DEF Crash, Dies, TypeOK, Rows
  <2>4. /\ removing' = {} /\ known' = {} /\ lock' = None /\ doomed' = {}
        /\ spared' \in SUBSET (Claimers \X {"error", "crash"})
        /\ UNCHANGED <<bin, meta, killed, target, artifact, client, local, swept>>
    BY <1>12 DEF Crash, Dies, TypeOK
  <2> QED BY <2>1, <2>2, <2>3, <2>4 DEF TypeOK
<1>13. CASE UNCHANGED vars
  BY <1>13 DEF vars, TypeOK
<1> QED
  BY <1>1, <1>2, <1>3, <1>4, <1>5, <1>6, <1>7, <1>8, <1>9, <1>10, <1>11, <1>12, <1>13
  DEF Next, Download

-----------------------------------------------------------------------------
(***************************************************************************)
(* What each kind of step leaves alone.                                    *)
(***************************************************************************)
\* A request that is stored, decided, killed or executed touches no staged file.
LEMMA RequestFrame ==
  ASSUME NEW r \in Requests, Insert(r) \/ Decide(r) \/ Kill(r) \/ Execute(r)
  PROVE  UNCHANGED <<stage, doomed, lock, bin, meta, owns, swept, spared, client, local>>
BY DEF Insert, Decide, Kill, KillLooks, KillMarks, KillSaves, Execute, Start, OpenStdin, RunEnds,
       OpenUpload, Install, Snapshot, SaveData, SaveMeta, End, up, files, peer

\* ... and concerns that request only.
LEMMA RequestAlone ==
  ASSUME TypeOK, NEW r \in Requests, Insert(r) \/ Decide(r) \/ Kill(r) \/ Execute(r)
  PROVE  /\ req' \in [Requests -> Steps] /\ row' \in [Requests -> Rows]
         /\ kill' \in [Requests -> {"none", "looked", "marked"}]
         /\ killed \subseteq killed'
         /\ \A q \in Requests : q # r =>
              /\ req'[q] = req[q] /\ row'[q] = row[q] /\ kill'[q] = kill[q]
              /\ q \in killed' => q \in killed
         /\ \A q \in Claimers, by \in Removers, f \in Files :
              q # r => (<<q, by, f>> \in removing' <=> <<q, by, f>> \in removing)
<1>1. TypeOK'
  BY RequestType DEF Submit
<1>a. /\ req' \in [Requests -> Steps] /\ row' \in [Requests -> Rows]
      /\ kill' \in [Requests -> {"none", "looked", "marked"}]
  BY <1>1 DEF TypeOK
<1>2. /\ req \in [Requests -> Steps] /\ row \in [Requests -> Rows]
      /\ kill \in [Requests -> {"none", "looked", "marked"}]
  BY Functions
<1>3. req' = req \/ \E s : Step(r, s)
  BY DEF Insert, Decide, Kill, KillLooks, KillMarks, KillSaves, Execute, Start, OpenStdin, RunEnds,
         OpenUpload, Install, Snapshot, SaveData, SaveMeta, End, status
<1>4. row' = row \/ \E s : row' = [row EXCEPT ![r] = s]
  BY DEF Insert, Decide, Kill, KillLooks, KillMarks, KillSaves, Execute, Start, OpenStdin, RunEnds,
         OpenUpload, Install, Snapshot, SaveData, SaveMeta, End, Stores, Stored, status
<1>5. /\ kill' = kill \/ \E s : kill' = [kill EXCEPT ![r] = s]
      /\ killed' = killed \/ killed' = killed \cup {r}
  BY DEF Insert, Decide, Kill, KillLooks, KillMarks, KillSaves, Execute, Start, OpenStdin, RunEnds,
         OpenUpload, Install, Snapshot, SaveData, SaveMeta, End, kills
<1>6. removing' = removing \/ \E by \in Removers : CleanUp(r, by)
  BY DEF Insert, Decide, Kill, KillLooks, KillMarks, KillSaves, Execute, Start, OpenStdin, RunEnds,
         OpenUpload, Install, Snapshot, SaveData, SaveMeta, End, Removers
<1>7. \A q \in Claimers, by \in Removers, f \in Files :
        q # r => (<<q, by, f>> \in removing' <=> <<q, by, f>> \in removing)
  BY <1>6, CleanUpEffect
<1>8. \A q \in Requests : q # r => req'[q] = req[q]
  BY <1>2, <1>3 DEF Step
<1>9. \A q \in Requests : q # r => row'[q] = row[q] /\ kill'[q] = kill[q]
  BY <1>2, <1>4, <1>5
<1> QED BY <1>a, <1>5, <1>7, <1>8, <1>9

\* Steps of files and of clients, other than submissions, concern no request.
LEMMA QuietFrame ==
  ASSUME NEW u \in Uploads,
         \/ StageData(u) \/ StageMeta(u) \/ SweepData(u) \/ SweepLook(u) \/ SweepMeta(u)
  PROVE  UNCHANGED <<lock, req, row, kill, killed, owns, removing, target, artifact, spared, client, local>>
BY DEF StageData, StageMeta, SweepData, SweepLook, SweepMeta, status, kills, up, files, peer

LEMMA ClientFrame ==
  ASSUME NEW r \in DownloadRequests, Download(r) \/ SweepArtifact(r)
  PROVE  /\ UNCHANGED <<stage, doomed, lock, bin, meta, req, row, kill, killed, owns, removing>>
         /\ UNCHANGED <<target, spared>>
         /\ swept \subseteq swept' /\ swept' \subseteq swept \cup {r}
BY DEF Download, ServeMeta, ServeData, Place, MakeLocal, SweepArtifact, server, status, kills, up, files

LEMMA BeginFrame ==
  ASSUME NEW r \in DownloadRequests, NEW force \in BOOLEAN, Begin(r, force)
  PROVE  /\ UNCHANGED <<stage, doomed, lock, bin, meta, row, kill, killed, owns, removing>>
         /\ UNCHANGED <<target, swept, spared, artifact>>
         /\ client[r].step = "new"
         /\ req' = req \/ Step(r, "prepared")
BY DEF Begin, kills, up, files

\* A file that grows old is otherwise as it was.
LEMMA GrowOldEffect ==
  ASSUME TypeOK, GrowOld
  PROVE  /\ UNCHANGED <<stage, doomed, lock, req, row, kill, killed, owns, removing, swept, spared>>
         /\ UNCHANGED <<target, client, local>>
         /\ \A u \in Uploads : /\ bin'[u].there = bin[u].there
                               /\ meta'[u].there = meta[u].there
                               /\ meta[u].there => meta'[u].claimed = meta[u].claimed
         /\ \A r \in DownloadRequests : /\ artifact'[r].data.there = artifact[r].data.there
                                        /\ artifact'[r].meta.there = artifact[r].meta.there
<1>1. /\ bin \in [Uploads -> {Absent} \cup File] /\ meta \in [Uploads -> {Absent} \cup MetaFile]
      /\ artifact \in [DownloadRequests -> Artifacts]
  BY DEF TypeOK
<1>2. /\ UNCHANGED <<stage, doomed, lock, req, row, kill, killed, owns, removing, swept, spared>>
      /\ UNCHANGED <<target, client, local>>
  BY DEF GrowOld, up, peer, status, kills
<1>3. \A f \in File : [f EXCEPT !.old = TRUE].there = f.there
  BY DEF File
<1>4. \A f \in MetaFile : /\ [f EXCEPT !.old = TRUE].there = f.there
                          /\ [f EXCEPT !.old = TRUE].claimed = f.claimed
  BY DEF MetaFile
<1>5. \A u \in Uploads : bin'[u].there = bin[u].there
  BY <1>1, <1>3, FileTypes DEF GrowOld, Grows, files
<1>6. \A u \in Uploads : /\ meta'[u].there = meta[u].there
                         /\ meta[u].there => meta'[u].claimed = meta[u].claimed
  <2>1. \A u \in Uploads : \/ meta'[u] = meta[u]
                           \/ /\ meta[u] \in MetaFile
                              /\ meta'[u] = [meta[u] EXCEPT !.old = TRUE]
    BY <1>1, FileTypes DEF GrowOld, Grows, files
  <2> QED BY <1>4, <2>1
<1>7. \A r \in DownloadRequests : /\ artifact'[r].data.there = artifact[r].data.there
                                  /\ artifact'[r].meta.there = artifact[r].meta.there
  <2>1. \A a \in Artifacts : \A f \in File :
          /\ [a EXCEPT !.data = f].data = f /\ [a EXCEPT !.data = f].meta = a.meta
          /\ [a EXCEPT !.meta = f].meta = f /\ [a EXCEPT !.meta = f].data = a.data
    BY DEF Artifacts
  <2>2. CASE artifact' = artifact
    BY <2>2
  <2>3. ASSUME NEW q \in DownloadRequests, Grows(artifact[q].data),
               artifact' = [artifact EXCEPT ![q].data.old = TRUE]
        PROVE  \A r \in DownloadRequests : /\ artifact'[r].data.there = artifact[r].data.there
                                           /\ artifact'[r].meta.there = artifact[r].meta.there
    <3>1. artifact[q] \in Artifacts /\ artifact[q].data \in File
      BY <1>1, <2>3, FileTypes, RecordUpdates DEF Grows
    <3>2. [artifact[q].data EXCEPT !.old = TRUE] \in File
      BY <3>1, FileTypes
    <3>3. artifact'[q] = [artifact[q] EXCEPT !.data = [artifact[q].data EXCEPT !.old = TRUE]]
      BY <1>1, <2>3
    <3>4. \A r \in DownloadRequests : r # q => artifact'[r] = artifact[r]
      BY <1>1, <2>3
    <3>5. /\ artifact'[q].data = [artifact[q].data EXCEPT !.old = TRUE]
          /\ artifact'[q].meta = artifact[q].meta
      BY <2>1, <3>1, <3>2, <3>3
    <3>6. artifact'[q].data.there = artifact[q].data.there
      BY <1>3, <3>1, <3>5
    <3> QED BY <3>4, <3>5, <3>6
  <2>4. ASSUME NEW q \in DownloadRequests, Grows(artifact[q].meta),
               artifact' = [artifact EXCEPT ![q].meta.old = TRUE]
        PROVE  \A r \in DownloadRequests : /\ artifact'[r].data.there = artifact[r].data.there
                                           /\ artifact'[r].meta.there = artifact[r].meta.there
    <3>1. artifact[q] \in Artifacts /\ artifact[q].meta \in File
      BY <1>1, <2>4, FileTypes, RecordUpdates DEF Grows
    <3>2. [artifact[q].meta EXCEPT !.old = TRUE] \in File
      BY <3>1, FileTypes
    <3>3. artifact'[q] = [artifact[q] EXCEPT !.meta = [artifact[q].meta EXCEPT !.old = TRUE]]
      BY <1>1, <2>4
    <3>4. \A r \in DownloadRequests : r # q => artifact'[r] = artifact[r]
      BY <1>1, <2>4
    <3>5. /\ artifact'[q].meta = [artifact[q].meta EXCEPT !.old = TRUE]
          /\ artifact'[q].data = artifact[q].data
      BY <2>1, <3>1, <3>2, <3>3
    <3>6. artifact'[q].meta.there = artifact[q].meta.there
      BY <1>3, <3>1, <3>5
    <3> QED BY <3>4, <3>5, <3>6
  <2> QED BY <2>2, <2>3, <2>4 DEF GrowOld
<1> QED BY <1>2, <1>5, <1>6, <1>7

-----------------------------------------------------------------------------
(***************************************************************************)
(* Who owns an upload.                                                     *)
(***************************************************************************)
\* Steps that write no metadata and claim nothing leave ownership alone.
LEMMA OwnershipFrame ==
  ASSUME Inv, UNCHANGED <<stage, lock, owns>>, OwnsOnTheWay',
         \A u \in Uploads :
           meta'[u].there => meta[u].there /\ (meta[u].claimed => meta'[u].claimed)
  PROVE  Ownership'
<1>1. \A r \in Claimers : owns[r] \in Uploads \cup {None}
  BY Functions DEF Inv
<1> QED BY <1>1 DEF Inv, Ownership, OneOwner, OwnedIsStaged, OwnedIsClaimed

\* A claim takes an upload whose metadata are there and unclaimed, which are
\* those of no owner.
LEMMA ClaimOwnership ==
  ASSUME Inv, NEW u \in Uploads, NEW r \in Claimers, Claim(r, u)
  PROVE  Ownership'
<1>1. TypeOK /\ Ownership /\ r \in Requests
  BY Disjoint DEF Inv
<1>2. CASE Claimable(u)
  <2>1. /\ lock = None /\ lock' = r /\ stage[u] = "staged" /\ req[r] = "new"
        /\ owns' = [owns EXCEPT ![r] = u] /\ req' = [req EXCEPT ![r] = "claiming"]
        /\ stage' = stage /\ meta' = meta /\ row' = row
    BY <1>2 DEF Claim, Offered, Step, files
  <2>2. \A s \in Claimers : owns[s] # u
    BY <1>1, <1>2, <2>1, Disjoint DEF Ownership, OwnedIsClaimed, Claimable
  <2>3. OneOwner' /\ OwnedIsStaged'
    BY <1>1, <2>1, <2>2, Functions DEF Ownership, OneOwner, OwnedIsStaged
  <2>4. OwnsOnTheWay'
    <3>1. /\ \A s \in Claimers : s # r => owns'[s] = owns[s] /\ req'[s] = req[s]
          /\ owns'[r] = u /\ req'[r] = "claiming" /\ u # None
      BY <1>1, <2>1, Functions, Disjoint
    <3> QED BY <1>1, <2>1, <3>1 DEF Ownership, OwnsOnTheWay
  <2>5. OwnedIsClaimed'
    BY <1>1, <2>1, Functions, Disjoint DEF Ownership, OwnedIsClaimed
  <2> QED BY <2>3, <2>4, <2>5 DEF Ownership
<1>3. CASE ~Claimable(u)
  <2>1. OwnsOnTheWay'
    <3>1. /\ owns' = owns /\ row' = row /\ req'[r] = "REFUSED"
          /\ \A s \in Claimers : s # r => req'[s] = req[s]
          /\ row[r] = "none"
      BY <1>1, <1>3, Functions, Disjoint DEF Claim, Step, Inv, Statuses, RowsFit, Unstored
    <3> QED BY <1>1, <3>1 DEF Ownership, OwnsOnTheWay
  <2> QED BY <1>3, <2>1, OwnershipFrame DEF Claim, files
<1> QED BY <1>2, <1>3

\* Writing the claim marks the metadata of the upload that is claimed, even if
\* they were removed meanwhile.
LEMMA ClaimWriteOwnership ==
  ASSUME Inv, NEW r \in Requests, ClaimWrite(r)
  PROVE  Ownership'
<1>1. TypeOK /\ Ownership
  BY DEF Inv
<1>2. /\ r \in Claimers /\ req[r] = "claiming" /\ owns[r] \in Uploads
      /\ lock = r /\ lock' = None /\ stage' = stage /\ row' = row /\ row[r] = "none"
  <2>1. r \in Claimers /\ req[r] = "claiming"
    BY <1>1, Functions, Disjoint DEF ClaimWrite, TypeOK
  <2>2. row[r] = "none"
    BY <2>1 DEF Inv, Statuses, RowsFit, Unstored
  <2>3. owns[r] \in Uploads
    BY <1>1, <2>1, Functions DEF Ownership, OwnsOnTheWay
  <2> QED BY <2>1, <2>2, <2>3 DEF ClaimWrite
<1>3. ASSUME meta' = [meta EXCEPT ![owns[r]] = NewMeta(TRUE)], Step(r, "prepared"), owns' = owns
      PROVE  Ownership'
  <2>1. OneOwner' /\ OwnedIsStaged'
    BY <1>1, <1>2, <1>3 DEF Ownership, OneOwner, OwnedIsStaged
  <2>2. OwnsOnTheWay'
    <3>1. /\ req'[r] = "prepared" /\ owns[r] # None
          /\ \A s \in Claimers : s # r => req'[s] = req[s]
      BY <1>1, <1>2, <1>3, Functions, Disjoint DEF Step
    <3> QED BY <1>1, <1>2, <1>3, <3>1 DEF Ownership, OwnsOnTheWay
  <2>3. meta'[owns[r]].claimed
    BY <1>1, <1>2, <1>3, Functions DEF NewMeta
  <2>4. \A s \in Claimers : s # r /\ owns[s] # None => owns[s] # owns[r] /\ lock # s
    BY <1>1, <1>2 DEF Ownership, OneOwner
  <2>5. OwnedIsClaimed'
    BY <1>1, <1>2, <1>3, <2>3, <2>4, Functions DEF Ownership, OwnedIsClaimed
  <2> QED BY <2>1, <2>2, <2>5 DEF Ownership
<1>4. ASSUME Step(r, "REFUSED"), owns' = [owns EXCEPT ![r] = None], meta' = meta
      PROVE  Ownership'
  <2>1. OneOwner' /\ OwnedIsStaged'
    BY <1>1, <1>2, <1>4, Functions DEF Ownership, OneOwner, OwnedIsStaged
  <2>2. OwnsOnTheWay'
    <3>1. /\ req'[r] = "REFUSED"
          /\ \A s \in Claimers : s # r => req'[s] = req[s] /\ owns'[s] = owns[s]
      BY <1>1, <1>2, <1>4, Functions, Disjoint DEF Step
    <3> QED BY <1>1, <1>2, <3>1 DEF Ownership, OwnsOnTheWay
  <2>3. OwnedIsClaimed'
    BY <1>1, <1>2, <1>4, Functions DEF Ownership, OwnedIsClaimed
  <2> QED BY <2>1, <2>2, <2>3 DEF Ownership
<1> QED BY <1>3, <1>4 DEF ClaimWrite

\* An upload that was not staged is not owned.
LEMMA StageOwnership ==
  ASSUME Inv, NEW u \in Uploads, StageData(u) \/ StageMeta(u)
  PROVE  Ownership'
<1>1. TypeOK /\ Ownership
  BY DEF Inv
<1>2. /\ stage[u] # "staged" /\ UNCHANGED <<lock, req, row, owns>>
      /\ \A v \in Uploads : v # u => stage'[v] = stage[v] /\ meta'[v] = meta[v]
  BY <1>1, Functions DEF StageData, StageMeta, status
<1>3. \A r \in Claimers : owns[r] # u
  BY <1>1, <1>2, Functions, Disjoint DEF Ownership, OwnedIsStaged
<1>4. \A r \in Claimers : owns[r] \in Uploads \cup {None}
  BY <1>1, Functions
<1> QED BY <1>1, <1>2, <1>3, <1>4
        DEF Ownership, OneOwner, OwnsOnTheWay, OwnedIsStaged, OwnedIsClaimed

\* A removal takes no more than files of an upload that is owned.
LEMMA RemoveEffect ==
  ASSUME Inv, NEW r \in Claimers, NEW by \in Removers, NEW f \in Files, Remove(r, by, f)
  PROVE  /\ UNCHANGED <<stage, doomed, lock, req, row, kill, killed, owns, target, artifact>>
         /\ UNCHANGED <<client, local, swept>>
         /\ owns[r] \in Uploads /\ req[r] # "claiming" /\ lock # r
         /\ \A u \in Uploads : u # owns[r] => bin'[u] = bin[u] /\ meta'[u] = meta[u]
         /\ \A u \in Uploads : bin'[u] = bin[u] \/ bin'[u] = Absent
         /\ \A u \in Uploads : meta'[u] = meta[u] \/ meta'[u] = Absent
<1>1. UNCHANGED <<stage, doomed, lock, req, row, kill, killed, owns, target, artifact, client, local, swept>>
  BY DEF Remove, up, peer, status, kills
<1>2. owns[r] # None /\ owns[r] \in Uploads
  BY Functions DEF Remove, Inv, Statuses, RemovalsFit
<1>3. req[r] # "claiming"
  <2>1. r \in Requests /\ (kill[r] = "marked" => row[r] # "none")
    BY Disjoint DEF Inv, Statuses, RowsFit
  <2>2. row[r] # "none" => req[r] \notin Unstored
    BY <2>1 DEF Inv, Statuses, RowsFit
  <2>3. req[r] \in Cleaning \/ kill[r] = "marked"
    BY DEF Remove, Inv, Statuses, RemovalsFit, Removers
  <2> QED BY <2>1, <2>2, <2>3 DEF Cleaning, Unstored
<1>4. /\ bin \in [Uploads -> {Absent} \cup File] /\ meta \in [Uploads -> {Absent} \cup MetaFile]
      /\ bin' = bin \/ bin' = [bin EXCEPT ![owns[r]] = Absent]
      /\ meta' = meta \/ meta' = [meta EXCEPT ![owns[r]] = Absent]
  BY Functions DEF Remove, files, Inv
<1> QED BY <1>1, <1>2, <1>3, <1>4, Functions DEF Inv

\* A restart forgets the claim that was being written, and nothing else.
LEMMA CrashOwnership ==
  ASSUME Inv, Crash
  PROVE  Ownership'
<1>1. TypeOK /\ Ownership /\ RowsFit /\ \A r \in Claimers : r \in Requests
  BY Disjoint DEF Inv, Statuses
<1>2. /\ lock' = None /\ meta' = meta
      /\ \A r \in Claimers : owns'[r] = IF lock = r THEN None ELSE owns[r]
      /\ \A u \in Uploads : stage[u] = "staged" => stage'[u] = "staged"
      /\ \A r \in Claimers : row'[r] # "none" => row[r] # "none"
  BY <1>1 DEF Crash, Dies, files
<1>3. /\ \A r \in Claimers : req'[r] = "new" => req[r] = "new"
      /\ \A r \in Claimers : req'[r] \notin {"claiming", "prepared"}
  BY <1>1 DEF Crash, Reloaded, Final
<1>4. \A r \in Claimers : owns[r] \in Uploads \cup {None} /\ (req[r] = "claiming" <=> lock = r)
  BY <1>1, Functions
<1>5. OwnsOnTheWay'
  <2>1. \A r \in Claimers : row[r] # "none" => lock # r
    BY <1>1, <1>4 DEF RowsFit, Unstored
  <2> QED BY <1>1, <1>2, <1>3, <1>4, <2>1 DEF Ownership, OwnsOnTheWay
<1> QED BY <1>1, <1>2, <1>4, <1>5
        DEF Ownership, OneOwner, OwnedIsStaged, OwnedIsClaimed

\* What is stored was prepared or stored before.
LEMMA StoredOwns ==
  ASSUME Inv, NEW r \in Requests, Insert(r) \/ Decide(r) \/ Kill(r) \/ Execute(r)
  PROVE  OwnsOnTheWay'
<1>1. /\ TypeOK /\ OwnsOnTheWay /\ RowsFit /\ \A q \in Claimers : q \in Requests
      /\ owns' = owns
  BY Disjoint, RequestFrame DEF Inv, Ownership, Statuses
<1>2. \A q \in Requests : q # r => req'[q] = req[q] /\ row'[q] = row[q]
  BY <1>1, RequestAlone
<1>3. req'[r] # "new" /\ req'[r] # "claiming"
  BY <1>1, Functions
  DEF RowsFit, Unstored, Idle, Insert, Decide, Kill, KillLooks, KillMarks, KillSaves, Execute, Start, OpenStdin,
      RunEnds, OpenUpload, Install, Snapshot, SaveData, SaveMeta, End, status, Step
<1>4. req'[r] # "prepared"
  BY <1>1, Functions
  DEF RowsFit, Unstored, Idle, Insert, Decide, Kill, KillLooks, KillMarks, KillSaves, Execute, Start, OpenStdin,
      RunEnds, OpenUpload, Install, Snapshot, SaveData, SaveMeta, End, status, Step
<1>5. row'[r] # "none" => row[r] # "none" \/ req[r] = "prepared"
  <2>1. CASE Insert(r)
    BY <2>1 DEF Insert
  <2>2. CASE Decide(r) \/ Start(r) \/ End(r)
    BY <1>1, <2>2 DEF RowsFit, Unstored, Decide, Start, End
  <2>3. CASE Kill(r)
    BY <1>1, <2>3 DEF RowsFit, Kill, KillLooks, KillMarks, KillSaves, status
  <2>4. CASE row' = row
    BY <2>4
  <2> QED BY <2>1, <2>2, <2>3, <2>4
      DEF Execute, OpenStdin, RunEnds, OpenUpload, Install, Snapshot, SaveData, SaveMeta
<1> QED BY <1>1, <1>2, <1>3, <1>4, <1>5 DEF OwnsOnTheWay

\* No step gives an upload a second owner, or makes a claimed one look free.
LEMMA OwnershipStep == Inv /\ [Next]_vars => Ownership'
<1> SUFFICES ASSUME Inv, [Next]_vars PROVE Ownership'
  OBVIOUS
<1>a. TypeOK /\ Ownership /\ OwnsOnTheWay
  BY DEF Inv, Ownership
<1>1. ASSUME NEW u \in Uploads, StageData(u) \/ StageMeta(u) PROVE Ownership'
  BY <1>1, StageOwnership
<1>2. ASSUME NEW u \in Uploads, SweepData(u) \/ SweepLook(u) \/ SweepMeta(u) PROVE Ownership'
  <2>1. UNCHANGED <<stage, lock, req, row, owns>>
    BY <1>2 DEF SweepData, SweepLook, SweepMeta, up, status
  <2>2. \A v \in Uploads : meta'[v] = meta[v] \/ meta'[v] = Absent
    BY <1>a, <1>2, Functions DEF SweepData, SweepLook, SweepMeta, files
  <2>3. \A v \in Uploads :
          meta'[v].there => meta[v].there /\ (meta[v].claimed => meta'[v].claimed)
    BY <2>2, FileTypes
  <2>4. OwnsOnTheWay'
    BY <1>a, <2>1 DEF OwnsOnTheWay
  <2> QED BY <2>1, <2>3, <2>4, OwnershipFrame
<1>3. ASSUME NEW u \in Uploads, NEW r \in Claimers, Claim(r, u) PROVE Ownership'
  BY <1>3, ClaimOwnership
<1>4. ASSUME NEW r \in Requests, ClaimWrite(r) PROVE Ownership'
  BY <1>4, ClaimWriteOwnership
<1>5. ASSUME NEW r \in Requests, Insert(r) \/ Decide(r) \/ Kill(r) \/ Execute(r)
      PROVE  Ownership'
  <2>1. UNCHANGED <<stage, lock, meta, owns>>
    BY <1>5, RequestFrame
  <2> QED BY <1>5, <2>1, StoredOwns, OwnershipFrame
<1>6. ASSUME NEW r \in Claimers, NEW by \in Removers, NEW f \in Files, Remove(r, by, f)
      PROVE  Ownership'
  <2>1. UNCHANGED <<stage, lock, req, row, owns>>
    BY <1>6, RemoveEffect
  <2>2. \A v \in Uploads :
          meta'[v].there => meta[v].there /\ (meta[v].claimed => meta'[v].claimed)
    BY <1>6, RemoveEffect, FileTypes
  <2>3. OwnsOnTheWay'
    BY <1>a, <2>1 DEF OwnsOnTheWay
  <2> QED BY <2>1, <2>2, <2>3, OwnershipFrame
<1>7. ASSUME NEW r \in DownloadRequests, NEW force \in BOOLEAN, Begin(r, force)
      PROVE  Ownership'
  <2>1. /\ UNCHANGED <<stage, lock, meta, owns, row>>
        /\ \A c \in Claimers : req'[c] = req[c]
    BY <1>a, <1>7, BeginFrame, Functions, Disjoint DEF Step
  <2>2. OwnsOnTheWay'
    BY <1>a, <2>1 DEF OwnsOnTheWay
  <2> QED BY <2>1, <2>2, OwnershipFrame
<1>8. CASE GrowOld
  <2>1. OwnsOnTheWay'
    BY <1>a, <1>8, GrowOldEffect DEF OwnsOnTheWay
  <2>2. UNCHANGED <<stage, lock, owns>>
    BY <1>a, <1>8, GrowOldEffect
  <2>3. \A u \in Uploads :
          meta'[u].there => meta[u].there /\ (meta[u].claimed => meta'[u].claimed)
    BY <1>a, <1>8, GrowOldEffect
  <2> QED BY <2>1, <2>2, <2>3, OwnershipFrame
<1>9. CASE Crash
  BY <1>9, CrashOwnership
<1>10. CASE UNCHANGED <<stage, meta, lock, req, row, owns>>
  BY <1>a, <1>10 DEF Ownership, OneOwner, OwnsOnTheWay, OwnedIsStaged, OwnedIsClaimed
<1>11. ASSUME NEW r \in DownloadRequests, Download(r) \/ SweepArtifact(r) PROVE Ownership'
  BY <1>10, <1>11, ClientFrame
<1>12. CASE UNCHANGED vars
  BY <1>10, <1>12 DEF vars, server, up, files, status
<1> QED
  BY <1>1, <1>2, <1>3, <1>4, <1>5, <1>6, <1>7, <1>8, <1>9, <1>11, <1>12 DEF Next, Submit


-----------------------------------------------------------------------------
(***************************************************************************)
(* Rows, marks and removals.                                               *)
(***************************************************************************)
\* Statuses that do not change, with no removal for anybody new, are as before.
LEMMA StatusesFrame ==
  ASSUME Inv, UNCHANGED <<row, kill, owns>>,
         killed' = killed, req' = req,
         \A q \in Claimers, by \in Removers, f \in Files :
           <<q, by, f>> \in removing' => Cleans(q, by)
  PROVE  Statuses'
<1>1. RowsFit'
  BY DEF Inv, Statuses, RowsFit
<1>2. \A q \in Claimers, by \in Removers :
        Cleans(q, by) => /\ owns[q] # None
                         /\ by = "own" => req[q] \in Cleaning
                         /\ by = "kill" => kill[q] = "marked"
  BY DEF Inv, Statuses, RemovalsFit, Cleans
<1>3. RemovalsFit'
  BY <1>2 DEF RemovalsFit
<1> QED BY <1>1, <1>3 DEF Statuses

\* Rows follow what one request does.
LEMMA RequestRows ==
  ASSUME Inv, NEW r \in Requests, Insert(r) \/ Decide(r) \/ Kill(r) \/ Execute(r)
  PROVE  RowsFit'
<1>1. /\ TypeOK /\ RowsFit
      /\ req \in [Requests -> Steps] /\ row \in [Requests -> Rows]
      /\ kill \in [Requests -> {"none", "looked", "marked"}]
  BY Functions DEF Inv, Statuses
<1>2. \A q \in Requests : q # r =>
        /\ req'[q] = req[q] /\ row'[q] = row[q] /\ kill'[q] = kill[q]
        /\ q \in killed => q \in killed'
  BY <1>1, RequestAlone
<1> DEFINE Fits == /\ row'[r] = "none" => req'[r] \in Unstored \cup {"lost"} /\ kill'[r] = "none"
                   /\ req'[r] \in Unstored => row'[r] = "none"
                   /\ row'[r] = "pending" => req'[r] \in {"pending", "KILLED"}
                   /\ req'[r] = "pending" => row'[r] = "pending"
                   /\ kill'[r] = "marked" => r \in killed' /\ req'[r] \notin {"pending", "stranded"}
                   /\ req'[r] = "KILLED" => r \in killed'
<1>3. /\ row[r] = "none" => req[r] \in Unstored \cup {"lost"} /\ kill[r] = "none"
      /\ req[r] \in Unstored => row[r] = "none"
      /\ row[r] = "pending" => req[r] \in {"pending", "KILLED"}
      /\ req[r] = "pending" => row[r] = "pending"
      /\ kill[r] = "marked" => r \in killed /\ req[r] \notin {"pending", "stranded"}
      /\ req[r] = "KILLED" => r \in killed
  BY <1>1 DEF RowsFit
<1>12. \A q \in Requests : q # r =>
         /\ row'[q] = "none" => req'[q] \in Unstored \cup {"lost"} /\ kill'[q] = "none"
         /\ req'[q] \in Unstored => row'[q] = "none"
         /\ row'[q] = "pending" => req'[q] \in {"pending", "KILLED"}
         /\ req'[q] = "pending" => row'[q] = "pending"
         /\ kill'[q] = "marked" => q \in killed' /\ req'[q] \notin {"pending", "stranded"}
         /\ req'[q] = "KILLED" => q \in killed'
  BY <1>1, <1>2 DEF RowsFit
<1> SUFFICES Fits
  BY <1>12 DEF RowsFit
<1>4. CASE Insert(r)
  BY <1>1, <1>3, <1>4 DEF Insert, Step, Stored, Unstored, kills
<1>5. CASE Decide(r)
  BY <1>1, <1>3, <1>5 DEF Decide, Step, Stored, Unstored, kills
<1>6. CASE KillLooks(r)
  BY <1>1, <1>3, <1>6 DEF KillLooks, Idle, status, Unstored
<1>7. CASE KillMarks(r)
  BY <1>1, <1>3, <1>7 DEF KillMarks, Idle, Step, Unstored
<1>8. CASE KillSaves(r)
  BY <1>1, <1>3, <1>8 DEF KillSaves, Stores, Stored, Unstored
<1>9. CASE Start(r)
  BY <1>1, <1>3, <1>9 DEF Start, Step, Stores, Stored, kills, Unstored
<1>10. CASE End(r)
  BY <1>1, <1>3, <1>10 DEF End, Step, Stores, Stored, kills, Unstored
<1>11. CASE \/ OpenStdin(r) \/ RunEnds(r) \/ OpenUpload(r) \/ Install(r)
            \/ Snapshot(r) \/ SaveData(r) \/ SaveMeta(r)
  <2>1. /\ UNCHANGED <<row, kill, killed>>
        /\ req[r] \in {"running", "open", "saved"}
        /\ \E s \in {"open", "saved", "failing", "succeeding"} : Step(r, s)
    BY <1>11 DEF OpenStdin, RunEnds, OpenUpload, Install, Snapshot, SaveData, SaveMeta, kills
  <2>2. req'[r] \in {"open", "saved", "failing", "succeeding"}
    BY <1>1, <2>1 DEF Step
  <2> QED BY <1>3, <2>1, <2>2 DEF Unstored
<1> QED
  BY <1>4, <1>5, <1>6, <1>7, <1>8, <1>9, <1>10, <1>11 DEF Kill, Execute

\* A removal begins for the request that ends or is killed, and a request does
\* not go on before its removal has.
LEMMA RequestRemovals ==
  ASSUME Inv, NEW r \in Requests, Insert(r) \/ Decide(r) \/ Kill(r) \/ Execute(r)
  PROVE  RemovalsFit'
<1>1. /\ TypeOK /\ RemovalsFit /\ RowsFit /\ OwnsOnTheWay /\ owns' = owns
      /\ \A q \in Claimers : q \in Requests
      /\ req \in [Requests -> Steps] /\ kill \in [Requests -> {"none", "looked", "marked"}]
  BY Functions, Disjoint, RequestFrame DEF Inv, Statuses, Ownership
<1>2. \A q \in Claimers : q # r =>
        /\ req'[q] = req[q] /\ kill'[q] = kill[q]
        /\ \A by \in Removers, f \in Files : <<q, by, f>> \in removing' => <<q, by, f>> \in removing
  BY <1>1, RequestAlone
<1>3. \A q \in Claimers, by \in Removers, f \in Files : q # r /\ <<q, by, f>> \in removing' =>
        /\ owns'[q] # None
        /\ by = "own" => req'[q] \in Cleaning
        /\ by = "kill" => kill'[q] = "marked"
  BY <1>1, <1>2 DEF RemovalsFit
<1> DEFINE Fits(by) == /\ owns[r] # None
                       /\ by = "own" => req'[r] \in Cleaning
                       /\ by = "kill" => kill'[r] = "marked"
<1> SUFFICES ASSUME r \in Claimers PROVE \A by \in Removers : Cleans(r, by)' => Fits(by)
  BY <1>1, <1>3 DEF RemovalsFit, Cleans
<1> HIDE DEF Fits
<1>4. /\ Cleans(r, "own") => req[r] \in Cleaning
      /\ Cleans(r, "kill") => kill[r] = "marked"
      /\ \A by \in Removers : Cleans(r, by) => owns[r] # None
  BY <1>1 DEF RemovalsFit, Cleans, Removers
<1>5. owns[r] # None
  <2>1. row[r] # "none" \/ req[r] = "prepared" \/ req[r] \notin Unstored
    BY <1>1 DEF RowsFit, Insert, Decide, Kill, KillLooks, KillMarks, KillSaves, Execute,
                Start, OpenStdin, RunEnds, OpenUpload, Install, Snapshot, SaveData,
                SaveMeta, End, Unstored, Idle
  <2>2. row[r] = "none" => req[r] # "lost"
    BY <1>1 DEF RowsFit, Insert, Decide, Kill, KillLooks, KillMarks, KillSaves, Execute,
                Start, OpenStdin, RunEnds, OpenUpload, Install, Snapshot, SaveData,
                SaveMeta, End, Unstored, Idle
  <2>3. row[r] # "none" \/ req[r] = "prepared"
    BY <1>1, <2>1, <2>2 DEF RowsFit
  <2> QED BY <1>1, <2>3 DEF OwnsOnTheWay
\* A step of the request itself that comes with a clean-up.
<1>6. ASSUME NEW s \in Cleaning, Step(r, s), CleanUp(r, "own"), kill' = kill
      PROVE  \A by \in Removers : Cleans(r, by)' => Fits(by)
  <2>1. req'[r] \in Cleaning
    BY <1>1, <1>6 DEF Step
  <2>2. Cleans(r, "kill")' => Cleans(r, "kill")
    BY <1>1, <1>6, CleanUpEffect DEF Cleans, Removers
  <2> QED BY <1>4, <1>5, <1>6, <2>1, <2>2 DEF Fits, Removers
\* One that comes without.
<1>7. ASSUME removing' = removing, kill' = kill, ~Cleans(r, "own") \/ req'[r] = req[r]
      PROVE  \A by \in Removers : Cleans(r, by)' => Fits(by)
  <2>1. \A by \in Removers : Cleans(r, by)' => Cleans(r, by)
    BY <1>7 DEF Cleans
  <2> QED BY <1>4, <1>7, <2>1 DEF Fits, Removers
<1>8. CASE Insert(r)
  <2>1. ~Cleans(r, "own") /\ kill' = kill
    BY <1>4, <1>8 DEF Insert, Cleaning, kills
  <2> QED BY <1>6, <1>7, <1>8, <2>1 DEF Insert, Cleaning
<1>9. CASE Decide(r)
  <2>1. ~Cleans(r, "own") /\ kill' = kill
    BY <1>4, <1>9 DEF Decide, Cleaning, kills
  <2> QED BY <1>6, <1>7, <1>9, <2>1 DEF Decide, Cleaning
<1>10. CASE KillLooks(r)
  <2>1. ~Cleans(r, "kill") /\ ~Cleans(r, "own") /\ removing' = removing
    BY <1>4, <1>10 DEF KillLooks, Idle, Cleaning
  <2>2. \A by \in Removers : ~Cleans(r, by)'
    BY <2>1 DEF Cleans, Removers
  <2> QED BY <2>2
<1>11. CASE KillMarks(r)
  <2>1. kill'[r] = "marked" /\ CleanUp(r, "kill")
    BY <1>1, <1>11 DEF KillMarks
  <2>2. Cleans(r, "own")' => Cleans(r, "own")
    BY <1>1, <2>1, CleanUpEffect DEF Cleans, Removers
  <2>3. Cleans(r, "own") => req'[r] = req[r]
    BY <1>4, <1>11 DEF KillMarks, Idle, Cleaning
  <2> QED BY <1>4, <1>5, <2>1, <2>2, <2>3 DEF Fits, Removers
<1>12. CASE KillSaves(r)
  <2>1. ~Cleans(r, "kill") /\ removing' = removing /\ req' = req
    BY <1>12 DEF KillSaves
  <2>2. ~Cleans(r, "kill")' /\ (Cleans(r, "own")' => Cleans(r, "own"))
    BY <2>1 DEF Cleans
  <2> QED BY <1>4, <2>1, <2>2 DEF Fits, Removers
<1>13. CASE Start(r) \/ OpenUpload(r) \/ Snapshot(r) \/ SaveData(r) \/ SaveMeta(r)
  <2>1. req[r] \notin Cleaning /\ removing' = removing /\ kill' = kill
    BY <1>13 DEF Start, OpenUpload, Snapshot, SaveData, SaveMeta, Cleaning, kills
  <2> QED BY <1>4, <1>7, <2>1
<1>14. CASE OpenStdin(r)
  <2>1. ~Cleans(r, "own") /\ kill' = kill
    BY <1>4, <1>14 DEF OpenStdin, Cleaning, kills
  <2> QED BY <1>6, <1>7, <1>14, <2>1 DEF OpenStdin, Cleaning
<1>15. CASE RunEnds(r)
  BY <1>6, <1>15 DEF RunEnds, Cleaning, kills
<1>16. CASE Install(r)
  <2>1. ~Cleans(r, "own") /\ kill' = kill
    BY <1>4, <1>16 DEF Install, Cleaning, kills
  <2> QED BY <1>6, <1>7, <1>16, <2>1 DEF Install, Cleaning
<1>17. CASE End(r)
  BY <1>7, <1>17 DEF End, kills
<1> QED
  BY <1>8, <1>9, <1>10, <1>11, <1>12, <1>13, <1>14, <1>15, <1>16, <1>17 DEF Kill, Execute

\* A restart loads what the rows say and forgets every removal.
LEMMA CrashStatuses ==
  ASSUME Inv, Crash
  PROVE  Statuses'
<1>1. RowsFit /\ row \in [Requests -> Rows]
  BY Functions DEF Inv, Statuses
<1>2. /\ \A r \in Requests : /\ kill'[r] = "none"
                             /\ row'[r] = IF row[r] = "running" THEN "over" ELSE row[r]
                             /\ req'[r] = Reloaded(r)
      /\ killed' = killed /\ removing' = {}
  BY DEF Crash, Dies
<1>3. \A r \in Requests :
        /\ row'[r] = "none" => Reloaded(r) \in Unstored \cup {"lost"}
        /\ Reloaded(r) \in Unstored => row'[r] = "none"
        /\ row'[r] = "pending" => Reloaded(r) = "pending"
        /\ Reloaded(r) = "pending" => row'[r] = "pending"
        /\ Reloaded(r) = "KILLED" => r \in killed
  BY <1>1, <1>2 DEF RowsFit, Reloaded, Unstored, Final
<1>4. RowsFit'
  BY <1>2, <1>3 DEF RowsFit
<1>5. RemovalsFit'
  BY <1>2 DEF RemovalsFit
<1> QED BY <1>4, <1>5 DEF Statuses

\* A request that claims, or asks for a download, is not stored yet.
LEMMA UnstoredStatuses ==
  ASSUME Inv, NEW r \in Requests, req[r] \in Unstored \ {"REFUSED"},
         req' = req \/ \E s \in Unstored : Step(r, s),
         UNCHANGED <<row, kill, killed, removing>>,
         \A q \in Claimers : q # r => owns'[q] = owns[q]
  PROVE  Statuses'
<1>1. /\ RowsFit /\ RemovalsFit /\ row[r] = "none" /\ kill[r] = "none"
      /\ \A q \in Claimers : q \in Requests
  BY Disjoint DEF Inv, Statuses, RowsFit, Unstored
<1>2. /\ \A q \in Requests : q # r => req'[q] = req[q]
      /\ req'[r] \in Unstored
  BY Functions DEF Inv, Step
<1>3. RowsFit'
  BY <1>1, <1>2 DEF RowsFit, Unstored
<1>4. \A by \in Removers, f \in Files : r \in Claimers => <<r, by, f>> \notin removing
  BY <1>1 DEF RemovalsFit, Cleaning, Unstored, Removers
<1>5. RemovalsFit'
  BY <1>1, <1>2, <1>4 DEF RemovalsFit
<1> QED BY <1>3, <1>5 DEF Statuses

\* Rows and removals fit after every step.
LEMMA StatusesStep == Inv /\ [Next]_vars => Statuses'
<1> SUFFICES ASSUME Inv, [Next]_vars PROVE Statuses'
  OBVIOUS
<1>a. TypeOK /\ \A r \in Claimers : r \in Requests
  BY Disjoint DEF Inv
<1>0. ASSUME UNCHANGED <<req, row, kill, killed, owns, removing>> PROVE Statuses'
  BY <1>0, StatusesFrame DEF Cleans
<1>1. ASSUME NEW u \in Uploads,
             \/ StageData(u) \/ StageMeta(u) \/ SweepData(u) \/ SweepLook(u) \/ SweepMeta(u)
      PROVE  Statuses'
  BY <1>0, <1>1, QuietFrame
<1>2. ASSUME NEW u \in Uploads, NEW r \in Claimers, Claim(r, u) PROVE Statuses'
  <2>1. /\ \E s \in Unstored : Step(r, s)
        /\ UNCHANGED <<row, kill, killed, removing>>
        /\ req[r] = "new"
    BY <1>2 DEF Claim, Unstored, kills
  <2>2. \A q \in Claimers : q # r => owns'[q] = owns[q]
    BY <1>a, <1>2, Functions DEF Claim
  <2> QED BY <1>a, <2>1, <2>2, UnstoredStatuses DEF Unstored
<1>3. ASSUME NEW r \in Requests, ClaimWrite(r) PROVE Statuses'
  <2>1. /\ \E s \in Unstored : Step(r, s)
        /\ UNCHANGED <<row, kill, killed, removing>>
        /\ req[r] = "claiming"
    BY <1>3, Disjoint DEF ClaimWrite, Unstored, kills, Inv, TypeOK
  <2>2. \A q \in Claimers : q # r => owns'[q] = owns[q]
    BY <1>a, <1>3, Functions DEF ClaimWrite
  <2> QED BY <2>1, <2>2, UnstoredStatuses DEF Unstored
<1>4. ASSUME NEW r \in Requests, Insert(r) \/ Decide(r) \/ Kill(r) \/ Execute(r)
      PROVE  Statuses'
  BY <1>4, RequestRows, RequestRemovals DEF Statuses
<1>5. ASSUME NEW r \in Claimers, NEW by \in Removers, NEW f \in Files, Remove(r, by, f)
      PROVE  Statuses'
  <2>1. UNCHANGED <<req, row, kill, killed, owns>>
    BY <1>5, RemoveEffect
  <2>2. \A q \in Claimers, b \in Removers, g \in Files :
          <<q, b, g>> \in removing' => Cleans(q, b)
    BY <1>5 DEF Remove, Cleans, Files
  <2> QED BY <2>1, <2>2, StatusesFrame
<1>6. ASSUME NEW r \in DownloadRequests, NEW force \in BOOLEAN, Begin(r, force)
      PROVE  Statuses'
  <2>1. r \in Requests /\ req[r] = "new"
    BY <1>6, Disjoint, BeginFrame DEF Inv, Downloads, AsksOnce
  <2>2. /\ req' = req \/ Step(r, "prepared")
        /\ UNCHANGED <<row, kill, killed, removing, owns>>
    BY <1>6, BeginFrame
  <2> QED BY <2>1, <2>2, UnstoredStatuses DEF Unstored
<1>7. CASE GrowOld
  BY <1>0, <1>7, <1>a, GrowOldEffect
<1>8. CASE Crash
  BY <1>8, CrashStatuses
<1>9. ASSUME NEW r \in DownloadRequests, Download(r) \/ SweepArtifact(r) PROVE Statuses'
  BY <1>0, <1>9, ClientFrame
<1>10. CASE UNCHANGED vars
  BY <1>0, <1>10 DEF vars, server, status, kills
<1> QED
  BY <1>1, <1>2, <1>3, <1>4, <1>5, <1>6, <1>7, <1>8, <1>9, <1>10 DEF Next, Submit

-----------------------------------------------------------------------------
(***************************************************************************)
(* The bytes of requests that wait.                                        *)
(***************************************************************************)
\* Nothing is lost when no file goes and no request comes to wait.
LEMMA BytesFrame ==
  ASSUME Inv,
         \A u \in Uploads : /\ bin'[u].there = bin[u].there
                            /\ meta'[u].there = meta[u].there
                            /\ meta[u].there => meta'[u].claimed = meta[u].claimed
                            /\ stage'[u] = stage[u],
         owns' = owns, swept \subseteq swept', killed \subseteq killed',
         \A r \in Claimers : req'[r] \in Waiting => req[r] \in Waiting,
         \A r \in Claimers : req'[r] = "claiming" => req[r] = "claiming"
  PROVE  Bytes'
<1>1. \A r \in Claimers : owns[r] # None => owns[r] \in Uploads
  BY Functions DEF Inv
<1>2. \A r \in Claimers : req[r] \in Waiting \cup {"claiming"} => owns[r] # None
  BY Disjoint DEF Inv, Ownership, OwnsOnTheWay, Statuses, RowsFit, Waiting, Unstored
<1>3. PairsAreWhole'
  BY DEF Inv, Bytes, PairsAreWhole
<1>4. ClaimingHasBytes'
  BY <1>1, <1>2 DEF Inv, Bytes, ClaimingHasBytes, Readable
<1>5. WaitingHasBytes'
  BY <1>1, <1>2 DEF Inv, Bytes, WaitingHasBytes, Readable, Waiting
<1> QED BY <1>3, <1>4, <1>5 DEF Bytes

\* An upload that is being staged serves nobody; a file that the cleanup takes
\* is excused.
LEMMA FilesBytes ==
  ASSUME Inv, NEW u \in Uploads,
         \/ StageData(u) \/ StageMeta(u) \/ SweepData(u) \/ SweepLook(u) \/ SweepMeta(u)
  PROVE  Bytes'
<1>1. /\ TypeOK /\ UNCHANGED <<lock, req, row, owns, killed>> /\ swept \subseteq swept'
  BY QuietFrame DEF Inv, StageData, StageMeta, SweepData, SweepLook, SweepMeta
<1>2. \A v \in Uploads : v # u =>
        bin'[v] = bin[v] /\ meta'[v] = meta[v] /\ stage'[v] = stage[v]
  BY <1>1, Functions DEF StageData, StageMeta, SweepData, SweepLook, SweepMeta, files, up
<1>3. u \in swept' \/ (\A r \in Claimers : owns[r] # u) \/ SweepLook(u)
  <2>1. stage[u] # "staged" => \A r \in Claimers : owns[r] # u
    BY Disjoint DEF Inv, Ownership, OwnedIsStaged
  <2> QED BY <2>1 DEF StageData, StageMeta, SweepData, SweepMeta
<1>4. /\ stage'[u] # "staged" => ~meta'[u].there
      /\ stage'[u] = "data" /\ u \notin swept' => bin'[u].there
      /\ meta'[u].there /\ ~meta'[u].claimed /\ u \notin swept' => bin'[u].there
  <2>1. /\ stage[u] # "staged" => ~meta[u].there
        /\ stage[u] = "data" /\ u \notin swept => bin[u].there
        /\ meta[u].there /\ ~meta[u].claimed /\ u \notin swept => bin[u].there
    BY DEF Inv, Bytes, PairsAreWhole
  <2>2. CASE StageData(u)
    BY <1>1, <2>1, <2>2, Functions DEF StageData, NewFile
  <2>3. CASE StageMeta(u)
    BY <1>1, <2>1, <2>3, Functions DEF StageMeta, Absent
  <2>4. CASE SweepData(u)
    BY <1>1, <2>1, <2>4, Functions DEF SweepData, up
  <2>5. CASE SweepMeta(u)
    BY <1>1, <2>1, <2>5, Functions DEF SweepMeta, Absent
  <2>6. CASE SweepLook(u)
    BY <1>1, <2>1, <2>6 DEF SweepLook, files
  <2> QED BY <2>2, <2>3, <2>4, <2>5, <2>6
<1>5. PairsAreWhole'
  BY <1>1, <1>2, <1>4 DEF Inv, Bytes, PairsAreWhole
<1>6. SweepLook(u) => UNCHANGED <<bin, meta>>
  BY DEF SweepLook, files
<1>7. \A r \in Claimers : req[r] \in Waiting \cup {"claiming"} => owns[r] \in Uploads
  BY <1>1, Functions, Disjoint
  DEF Inv, Ownership, OwnsOnTheWay, Statuses, RowsFit, Waiting, Unstored
<1>8. ClaimingHasBytes'
  BY <1>1, <1>2, <1>3, <1>6, <1>7 DEF Inv, Bytes, ClaimingHasBytes, Readable
<1>9. WaitingHasBytes'
  BY <1>1, <1>2, <1>3, <1>6, <1>7 DEF Inv, Bytes, WaitingHasBytes, Readable, Waiting
<1> QED BY <1>5, <1>8, <1>9 DEF Bytes

\* What can be claimed is whole.
LEMMA ClaimBytes ==
  ASSUME Inv, NEW u \in Uploads, NEW r \in Claimers, Claim(r, u)
  PROVE  Bytes'
<1>1. /\ TypeOK /\ UNCHANGED <<bin, meta, stage, killed, swept, row>>
      /\ r \in Requests /\ \A s \in Claimers : s \in Requests
  BY Disjoint DEF Inv, Claim, files, kills
<1>2. /\ \A s \in Claimers : s # r => owns'[s] = owns[s] /\ req'[s] = req[s]
      /\ req'[r] \in {"claiming", "REFUSED"}
      /\ req'[r] = "claiming" => Claimable(u) /\ owns'[r] = u
  BY <1>1, Functions DEF Claim, Step
<1>3. PairsAreWhole'
  BY <1>1 DEF Inv, Bytes, PairsAreWhole
<1>4. ClaimingHasBytes'
  BY <1>1, <1>2 DEF Inv, Bytes, ClaimingHasBytes, PairsAreWhole, Claimable, Readable
<1>5. WaitingHasBytes'
  BY <1>1, <1>2 DEF Inv, Bytes, WaitingHasBytes, Readable
<1> QED BY <1>3, <1>4, <1>5 DEF Bytes

\* Writing the claim writes the metadata again.
LEMMA ClaimWriteBytes ==
  ASSUME Inv, NEW r \in Requests, ClaimWrite(r)
  PROVE  Bytes'
<1>1. /\ TypeOK /\ UNCHANGED <<bin, stage, killed, swept, row>>
      /\ r \in Claimers /\ lock = r /\ req[r] = "claiming" /\ \A s \in Claimers : s \in Requests
  BY Disjoint DEF Inv, TypeOK, ClaimWrite, kills
<1>2. /\ owns[r] \in Uploads /\ stage[owns[r]] = "staged"
      /\ \A s \in Claimers : s # r /\ owns[s] # None => owns[s] # owns[r]
      /\ \A s \in Claimers : req[s] \in Waiting => owns[s] \in Uploads
  BY <1>1, Functions
  DEF Inv, Ownership, OneOwner, OwnsOnTheWay, OwnedIsStaged, Statuses, RowsFit, Waiting, Unstored
<1>3. \A s \in Claimers : s # r => req'[s] = req[s] /\ owns'[s] = owns[s] /\ req[s] # "claiming"
  BY <1>1, Functions DEF ClaimWrite, Step
<1>4. \/ /\ meta' = [meta EXCEPT ![owns[r]] = NewMeta(TRUE)] /\ owns' = owns
         /\ req'[r] = "prepared"
      \/ meta' = meta /\ req'[r] = "REFUSED"
  BY <1>1, Functions DEF ClaimWrite, Step
<1>5. /\ \A u \in Uploads : u # owns[r] => meta'[u] = meta[u]
      /\ meta'[owns[r]] = NewMeta(TRUE) \/ meta' = meta
  BY <1>1, <1>2, <1>4, Functions
<1>6. PairsAreWhole'
  BY <1>1, <1>2, <1>5 DEF Inv, Bytes, PairsAreWhole, NewMeta
<1>7. ClaimingHasBytes'
  BY <1>3, <1>4 DEF ClaimingHasBytes
<1>8. owns[r] \notin swept => Readable(owns[r])
  BY <1>1 DEF Inv, Bytes, ClaimingHasBytes
<1>9. req'[r] \in Waiting => owns'[r] = owns[r] /\ meta'[owns[r]].there
  BY <1>2, <1>4, <1>1, Functions DEF Waiting, NewMeta
<1>10. WaitingHasBytes'
  <2>1. \A s \in Claimers : s # r /\ req[s] \in Waiting =>
          meta'[owns[s]] = meta[owns[s]] /\ bin'[owns[s]] = bin[owns[s]]
    BY <1>1, <1>2, <1>5, Disjoint
  <2>2. \A s \in Claimers :
          s # r /\ req'[s] \in Waiting /\ owns'[s] \notin swept' /\ s \notin killed'
            => meta'[owns'[s]].there /\ bin'[owns'[s]].there
    BY <1>1, <1>3, <2>1 DEF Inv, Bytes, WaitingHasBytes, Readable, Waiting
  <2>3. req'[r] \in Waiting /\ owns[r] \notin swept
          => meta'[owns[r]].there /\ bin'[owns[r]].there
    BY <1>1, <1>8, <1>9 DEF Readable
  <2> QED BY <1>1, <1>9, <2>2, <2>3 DEF WaitingHasBytes, Readable, Waiting
<1> QED BY <1>6, <1>7, <1>10 DEF Bytes

\* Nobody begins to wait.
LEMMA RequestBytes ==
  ASSUME Inv, NEW r \in Requests, Insert(r) \/ Decide(r) \/ Kill(r) \/ Execute(r)
  PROVE  Bytes'
<1>1. TypeOK /\ UNCHANGED <<stage, bin, meta, owns, swept>> /\ killed \subseteq killed'
  BY RequestFrame, RequestAlone DEF Inv
<1>2. req \in [Requests -> Steps] /\ \A s \in Claimers : s \in Requests
  BY <1>1, Functions, Disjoint
<1>3. \A s \in Requests : s # r => req'[s] = req[s]
  BY <1>1, RequestAlone
<1>4. req'[r] \in Waiting => req[r] \in Waiting
  BY <1>2
  DEF Waiting, Insert, Decide, Kill, KillLooks, KillMarks, KillSaves, Execute, Start, OpenStdin,
      RunEnds, OpenUpload, Install, Snapshot, SaveData, SaveMeta, End, status, Step
<1>5. req'[r] = "claiming" => req[r] = "claiming"
  BY <1>2
  DEF Waiting, Insert, Decide, Kill, KillLooks, KillMarks, KillSaves, Execute, Start, OpenStdin,
      RunEnds, OpenUpload, Install, Snapshot, SaveData, SaveMeta, End, status, Step
<1> QED BY <1>1, <1>2, <1>3, <1>4, <1>5, BytesFrame

\* What is removed belongs to a request that is over or was killed.
LEMMA RemoveBytes ==
  ASSUME Inv, NEW r \in Claimers, NEW by \in Removers, NEW f \in Files, Remove(r, by, f)
  PROVE  Bytes'
<1>1. /\ TypeOK /\ UNCHANGED <<stage, req, row, owns, killed, swept>>
      /\ owns[r] \in Uploads /\ req[r] # "claiming" /\ lock # r
      /\ \A u \in Uploads : u # owns[r] => bin'[u] = bin[u] /\ meta'[u] = meta[u]
      /\ meta'[owns[r]] = meta[owns[r]] \/ meta'[owns[r]] = Absent
  BY RemoveEffect DEF Inv
<1>2. owns[r] # None
  BY DEF Remove, Inv, Statuses, RemovalsFit
<1>3. stage[owns[r]] = "staged" /\ (meta[owns[r]].there => meta[owns[r]].claimed)
  BY <1>1, <1>2 DEF Inv, Ownership, OwnedIsStaged, OwnedIsClaimed
<1>4. PairsAreWhole'
  BY <1>1, <1>3, FileTypes DEF Inv, Bytes, PairsAreWhole
<1>5. \A s \in Claimers : s # r /\ owns[s] # None => owns[s] # owns[r]
  BY <1>2 DEF Inv, Ownership, OneOwner
<1>6. req[r] \in Waiting => r \in killed
  BY Disjoint DEF Remove, Inv, Statuses, RemovalsFit, RowsFit, Removers, Cleaning, Waiting
<1>7. \A s \in Claimers : req[s] \in Waiting \cup {"claiming"} => owns[s] \in Uploads
  BY <1>1, Functions, Disjoint
  DEF Inv, Ownership, OwnsOnTheWay, Statuses, RowsFit, Waiting, Unstored
<1>8. ClaimingHasBytes'
  BY <1>1, <1>5, <1>7, Disjoint DEF Inv, Bytes, ClaimingHasBytes, Readable
<1>9. WaitingHasBytes'
  BY <1>1, <1>5, <1>6, <1>7, Disjoint DEF Inv, Bytes, WaitingHasBytes, Readable, Waiting
<1> QED BY <1>4, <1>8, <1>9 DEF Bytes

\* Of the requests that wait after a restart all but those that were killed
\* waited before.
LEMMA CrashBytes ==
  ASSUME Inv, Crash
  PROVE  Bytes'
<1>1. /\ TypeOK /\ RowsFit /\ UNCHANGED <<bin, meta, killed, swept>>
      /\ \A r \in Claimers : r \in Requests
  BY Disjoint DEF Inv, Statuses, Crash, Dies, files
<1>2. \A u \in Uploads : stage'[u] = stage[u] \/ (stage[u] = "data" /\ stage'[u] = "failed")
  BY DEF Crash, Dies
<1>3. PairsAreWhole'
  BY <1>1, <1>2 DEF Inv, Bytes, PairsAreWhole
<1>4. \A r \in Claimers : req'[r] = Reloaded(r)
  BY <1>1 DEF Crash
<1>5. ClaimingHasBytes'
  BY <1>4 DEF ClaimingHasBytes, Reloaded, Final
<1>6. \A r \in Claimers : req'[r] \in Waiting => req[r] = "pending" \/ r \in killed
  BY <1>1, <1>4 DEF Reloaded, Final, RowsFit, Waiting
<1>7. \A r \in Claimers : req[r] = "pending" => owns'[r] = owns[r]
  BY <1>1, Functions DEF Crash, Dies
<1>8. \A r \in Claimers : req[r] = "pending" => owns[r] \in Uploads
  BY <1>1, Functions DEF Inv, Ownership, OwnsOnTheWay, Statuses, RowsFit
<1>9. WaitingHasBytes'
  BY <1>1, <1>6, <1>7, <1>8 DEF Inv, Bytes, WaitingHasBytes, Readable, Waiting
<1> QED BY <1>3, <1>5, <1>9 DEF Bytes

\* No step takes the bytes of a request that waits.
LEMMA BytesStep == Inv /\ [Next]_vars => Bytes'
<1> SUFFICES ASSUME Inv, [Next]_vars PROVE Bytes'
  OBVIOUS
<1>a. TypeOK /\ \A r \in Claimers : r \in Requests
  BY Disjoint DEF Inv
<1>0. ASSUME UNCHANGED <<stage, bin, meta, req, owns, killed>>, swept \subseteq swept'
      PROVE  Bytes'
  BY <1>0, BytesFrame
<1>1. ASSUME NEW u \in Uploads,
             \/ StageData(u) \/ StageMeta(u) \/ SweepData(u) \/ SweepLook(u) \/ SweepMeta(u)
      PROVE  Bytes'
  BY <1>1, FilesBytes
<1>2. ASSUME NEW u \in Uploads, NEW r \in Claimers, Claim(r, u) PROVE Bytes'
  BY <1>2, ClaimBytes
<1>3. ASSUME NEW r \in Requests, ClaimWrite(r) PROVE Bytes'
  BY <1>3, ClaimWriteBytes
<1>4. ASSUME NEW r \in Requests, Insert(r) \/ Decide(r) \/ Kill(r) \/ Execute(r)
      PROVE  Bytes'
  BY <1>4, RequestBytes
<1>5. ASSUME NEW r \in Claimers, NEW by \in Removers, NEW f \in Files, Remove(r, by, f)
      PROVE  Bytes'
  BY <1>5, RemoveBytes
<1>6. ASSUME NEW r \in DownloadRequests, NEW force \in BOOLEAN, Begin(r, force)
      PROVE  Bytes'
  <2>1. \A c \in Claimers : req'[c] = req[c]
    BY <1>a, <1>6, BeginFrame, Functions, Disjoint DEF Step
  <2>2. UNCHANGED <<stage, bin, meta, owns, killed, swept>>
    BY <1>6, BeginFrame
  <2> QED BY <2>1, <2>2, BytesFrame
<1>7. CASE GrowOld
  <2>1. /\ UNCHANGED <<stage, req, owns, killed, swept>>
        /\ \A u \in Uploads : /\ bin'[u].there = bin[u].there
                              /\ meta'[u].there = meta[u].there
                              /\ meta[u].there => meta'[u].claimed = meta[u].claimed
    BY <1>7, <1>a, GrowOldEffect
  <2> QED BY <2>1, BytesFrame
<1>8. CASE Crash
  BY <1>8, CrashBytes
<1>9. ASSUME NEW r \in DownloadRequests, Download(r) \/ SweepArtifact(r) PROVE Bytes'
  BY <1>0, <1>9, ClientFrame
<1>10. CASE UNCHANGED vars
  BY <1>0, <1>10 DEF vars, server, up, files, status, kills
<1> QED
  BY <1>1, <1>2, <1>3, <1>4, <1>5, <1>6, <1>7, <1>8, <1>9, <1>10 DEF Next, Submit

-----------------------------------------------------------------------------
(***************************************************************************)
(* The copies of requests that are over.                                   *)
(***************************************************************************)
\* Copies that are owned stay away while nothing ends and no removal does.
LEMMA CopiesFrame ==
  ASSUME Inv, UNCHANGED <<req, owns, removing, spared>>,
         \A r \in Claimers : owns[r] # None =>
           /\ bin'[owns[r]].there => bin[owns[r]].there
           /\ meta'[owns[r]].there => meta[owns[r]].there
  PROVE  Copies'
<1>1. HalfRemoved'
  BY DEF Inv, Copies, HalfRemoved, Statuses, RemovalsFit, Files
<1>2. CopiesGo'
  BY DEF Inv, Copies, CopiesGo, Removed, Cleans
<1> QED BY <1>1, <1>2 DEF Copies

\* Staging touches nothing that is owned, and the cleanup only takes files away.
LEMMA FilesCopies ==
  ASSUME Inv, NEW u \in Uploads,
         \/ StageData(u) \/ StageMeta(u) \/ SweepData(u) \/ SweepLook(u) \/ SweepMeta(u)
  PROVE  Copies'
<1>1. TypeOK /\ UNCHANGED <<req, owns, removing, spared>>
  BY QuietFrame DEF Inv
<1>2. \A v \in Uploads : v # u => bin'[v] = bin[v] /\ meta'[v] = meta[v]
  BY <1>1, Functions DEF StageData, StageMeta, SweepData, SweepLook, SweepMeta, files
<1>3. CASE StageData(u) \/ StageMeta(u)
  <2>1. \A r \in Claimers : owns[r] # u
    BY <1>3, Disjoint DEF StageData, StageMeta, Inv, Ownership, OwnedIsStaged
  <2>2. \A r \in Claimers : owns[r] # None => owns[r] \in Uploads
    BY <1>1, Functions
  <2> QED BY <1>1, <1>2, <2>1, <2>2, CopiesFrame
<1>4. CASE SweepData(u) \/ SweepLook(u) \/ SweepMeta(u)
  <2>1. /\ bin'[u] = bin[u] \/ bin'[u] = Absent
        /\ meta'[u] = meta[u] \/ meta'[u] = Absent
    BY <1>1, <1>4, Functions DEF SweepData, SweepLook, SweepMeta, files
  <2>2. \A r \in Claimers : owns[r] # None => owns[r] \in Uploads
    BY <1>1, Functions
  <2> QED BY <1>1, <1>2, <2>1, <2>2, FileTypes, CopiesFrame
<1> QED BY <1>3, <1>4

\* A request that claims is not over, and nobody else owns what it claims.
LEMMA ClaimCopies ==
  ASSUME Inv, NEW r \in Claimers, ClaimWrite(r) \/ \E u \in Uploads : Claim(r, u)
  PROVE  Copies'
<1>1. /\ TypeOK /\ UNCHANGED <<bin, removing, spared>> /\ r \in Requests
      /\ \A s \in Claimers : s \in Requests
  BY Disjoint DEF Inv, Claim, ClaimWrite, files
<1>2. /\ req[r] \in {"new", "claiming"}
      /\ \A s \in Claimers : s # r => req'[s] = req[s] /\ owns'[s] = owns[s]
      /\ req'[r] \in {"claiming", "prepared"} \/ (req'[r] = "REFUSED" /\ owns'[r] = None)
  <2>1. ASSUME NEW u \in Uploads, Claim(r, u)
        PROVE  /\ req[r] \in {"new", "claiming"}
               /\ \A s \in Claimers : s # r => req'[s] = req[s] /\ owns'[s] = owns[s]
               /\ \/ req'[r] \in {"claiming", "prepared"}
                  \/ req'[r] = "REFUSED" /\ owns'[r] = None
    <3>1. req[r] = "new" => owns[r] = None
      BY DEF Inv, Ownership, OwnsOnTheWay
    <3> QED BY <1>1, <2>1, <3>1, Functions DEF Claim, Step
  <2>2. CASE ClaimWrite(r)
    BY <1>1, <2>2, Functions DEF ClaimWrite, Step
  <2> QED BY <2>1, <2>2
<1>3. \A by \in Removers, f \in Files : <<r, by, f>> \notin removing
  BY <1>1, <1>2 DEF Inv, Statuses, RemovalsFit, RowsFit, Removers, Cleaning, Unstored
<1>4. HalfRemoved'
  BY <1>1, <1>2, <1>3 DEF Inv, Copies, HalfRemoved, Files
<1>5. \A s \in Claimers : s # r /\ owns[s] # None => meta'[owns[s]] = meta[owns[s]]
  <2>1. ASSUME NEW s \in Claimers, s # r, owns[s] # None, ClaimWrite(r)
        PROVE  meta'[owns[s]] = meta[owns[s]]
    <3>1. owns[r] # None
      BY <1>1, <2>1, Functions DEF ClaimWrite, Inv, Ownership, OwnsOnTheWay
    <3>2. owns[s] # owns[r] /\ owns[s] \in Uploads
      BY <1>1, <2>1, <3>1, Functions DEF Inv, Ownership, OneOwner
    <3> QED BY <1>1, <2>1, <3>2, Functions DEF ClaimWrite
  <2>2. ASSUME NEW u \in Uploads, Claim(r, u) PROVE meta' = meta
    BY <2>2 DEF Claim, files
  <2> QED BY <2>1, <2>2
<1>6. CopiesGo'
  <2>1. ASSUME NEW s \in Claimers, s # r, owns[s] # None
        PROVE  Removed(owns[s]) => ~bin'[owns'[s]].there /\ ~meta'[owns'[s]].there
    BY <1>1, <1>2, <1>5, <2>1 DEF Removed
  <2>2. \A s \in Claimers, by \in Removers : Cleans(s, by)' <=> Cleans(s, by)
    BY <1>1 DEF Cleans
  <2> QED BY <1>1, <1>2, <2>1, <2>2 DEF Inv, Copies, CopiesGo, Removed, Final
<1> QED BY <1>4, <1>6 DEF Copies

\* What ends begins to remove its copy.
LEMMA RequestCopies ==
  ASSUME Inv, NEW r \in Requests, Insert(r) \/ Decide(r) \/ Kill(r) \/ Execute(r)
  PROVE  Copies'
<1>1. /\ TypeOK /\ UNCHANGED <<bin, meta, owns, spared>> /\ req \in [Requests -> Steps]
      /\ \A s \in Claimers : s \in Requests
  BY RequestFrame, Functions, Disjoint DEF Inv
<1>2. /\ \A q \in Requests : q # r => req'[q] = req[q]
      /\ \A q \in Claimers, by \in Removers, f \in Files :
           q # r => (<<q, by, f>> \in removing' <=> <<q, by, f>> \in removing)
  BY <1>1, RequestAlone
<1>3. removing' = removing \/ \E by \in Removers : CleanUp(r, by)
  BY DEF Insert, Decide, Kill, KillLooks, KillMarks, KillSaves, Execute, Start, OpenStdin, RunEnds,
         OpenUpload, Install, Snapshot, SaveData, SaveMeta, End, Removers
<1>4. HalfRemoved'
  <2>1. \A q \in Claimers, by \in Removers :
          <<q, by, "meta">> \in removing' => <<q, by, "meta">> \in removing
    BY <1>1, <1>3, CleanUpEffect DEF Files
  <2> QED BY <1>1, <2>1 DEF Inv, Copies, HalfRemoved
<1> DEFINE Over(s) == s \in Final \cup {"succeeding", "failing"}
           Kept(s) == r \in UploadRequests /\ s \in {"failing", "FAILED"}
           Quiet == \A by \in Removers : ~Cleans(r, by)
<1>5. ASSUME r \in Claimers, Over(req'[r]), ~Kept(req'[r]), Quiet'
      PROVE  Over(req[r]) /\ ~Kept(req[r]) /\ Quiet
  <2>1. ASSUME NEW by \in Removers, CleanUp(r, by) PROVE FALSE
    <3>1. <<r, by, "data">> \in removing'
      BY <1>1, <1>5, <2>1, CleanUpEffect
    <3> QED BY <1>5, <3>1 DEF Cleans, Files
  <2>2. "own" \in Removers /\ "kill" \in Removers
    BY DEF Removers
  <2>3. removing' = removing /\ Quiet
    BY <1>3, <1>5, <2>1 DEF Cleans
  <2> SUFFICES Over(req[r]) /\ ~Kept(req[r])
    BY <2>3
  <2>4. CASE Insert(r) \/ Decide(r) \/ KillMarks(r) \/ RunEnds(r)
    BY <1>1, <1>5, <2>1, <2>2, <2>4 DEF Insert, Decide, KillMarks, RunEnds, Step, Final
  <2>5. CASE KillLooks(r) \/ KillSaves(r)
    BY <1>5, <2>5 DEF KillLooks, KillSaves, status
  <2>6. CASE Start(r)
    BY <1>1, <1>5, <2>6 DEF Start, Step, Final
  <2>7. CASE OpenStdin(r) \/ OpenUpload(r) \/ Install(r)
    BY <1>1, <1>5, <2>1, <2>2, <2>7 DEF OpenStdin, OpenUpload, Install, Step, Final
  <2>8. CASE Snapshot(r) \/ SaveData(r) \/ SaveMeta(r)
    BY <1>5, <2>8, Disjoint DEF Snapshot, SaveData, SaveMeta
  <2>9. CASE End(r)
    BY <1>1, <1>5, <2>9 DEF End, Step, Final
  <2> QED BY <2>4, <2>5, <2>6, <2>7, <2>8, <2>9 DEF Kill, Execute
<1>6. CopiesGo'
  <2>1. ASSUME NEW q \in Claimers, q # r
        PROVE  req'[q] = req[q] /\ \A by \in Removers : Cleans(q, by)' <=> Cleans(q, by)
    BY <1>1, <1>2, <2>1 DEF Cleans
  <2>2. \A q \in Claimers : Removed(owns[q]) <=> Removed(owns[q])'
    BY <1>1 DEF Removed
  <2>3. ASSUME r \in Claimers, owns[r] # None, Over(req'[r]), ~Kept(req'[r]), Quiet',
               <<r, "error">> \notin spared, <<r, "crash">> \notin spared
        PROVE  Removed(owns[r])
    BY <1>5, <2>3 DEF Inv, Copies, CopiesGo
  <2>4. ASSUME NEW q \in Claimers, q # r
        PROVE  /\ owns[q] # None
               /\ req'[q] \in Final \cup {"succeeding", "failing"}
               /\ \A by \in Removers : ~Cleans(q, by)'
               /\ <<q, "error">> \notin spared /\ <<q, "crash">> \notin spared
               /\ ~(q \in UploadRequests /\ req'[q] \in {"failing", "FAILED"})
               => Removed(owns[q])
    BY <2>1, <2>4 DEF Inv, Copies, CopiesGo
  <2> QED BY <1>1, <2>2, <2>3, <2>4 DEF CopiesGo, Removed
<1> QED BY <1>4, <1>6 DEF Copies

\* A removal that ends has removed both files, or left one for an error.
LEMMA RemoveCopies ==
  ASSUME Inv, NEW r \in Claimers, NEW by \in Removers, NEW f \in Files, Remove(r, by, f)
  PROVE  Copies'
<1>1. /\ TypeOK /\ UNCHANGED <<req, owns>> /\ owns[r] \in Uploads
      /\ \A u \in Uploads : u # owns[r] => bin'[u] = bin[u] /\ meta'[u] = meta[u]
      /\ \A u \in Uploads : bin'[u] = bin[u] \/ bin'[u] = Absent
      /\ \A u \in Uploads : meta'[u] = meta[u] \/ meta'[u] = Absent
  BY RemoveEffect DEF Inv
<1>2. /\ spared \subseteq spared'
      /\ removing' = (removing \ {<<r, by, f>>})
                       \cup (IF f = "data" THEN {<<r, by, "meta">>} ELSE {})
      /\ \/ f = "data" /\ bin' = [bin EXCEPT ![owns[r]] = Absent]
         \/ f = "meta" /\ meta' = [meta EXCEPT ![owns[r]] = Absent] /\ bin' = bin
         \/ <<r, "error">> \in spared'
      /\ <<r, by, f>> \in removing
  BY DEF Remove
<1>3. \A q \in Claimers : owns[q] # None => owns[q] \in Uploads
  BY <1>1, Functions
<1>4. /\ \A u \in Uploads : bin'[u].there => bin[u].there
      /\ \A u \in Uploads : meta'[u].there => meta[u].there
  BY <1>1, FileTypes
<1>5. HalfRemoved'
  <2>1. f = "data" /\ <<r, "error">> \notin spared' => ~bin'[owns[r]].there
    BY <1>1, <1>2, Functions, FileTypes
  <2>2. \A q \in Claimers, b \in Removers : <<q, b, "meta">> \in removing' =>
          <<q, b, "meta">> \in removing \/ (q = r /\ f = "data")
    BY <1>2
  <2>3. \A q \in Claimers, b \in Removers :
          <<q, b, "meta">> \in removing => owns[q] # None
    BY DEF Inv, Statuses, RemovalsFit, Files
  <2> QED BY <1>1, <1>2, <1>3, <1>4, <2>1, <2>2, <2>3 DEF Inv, Copies, HalfRemoved
<1>6. CopiesGo'
  <2>1. ASSUME NEW q \in Claimers, q # r, \A b \in Removers : ~Cleans(q, b)'
        PROVE  \A b \in Removers : ~Cleans(q, b)
    BY <1>2, <2>1 DEF Cleans
  <2>2. ASSUME \A b \in Removers : ~Cleans(r, b)', <<r, "error">> \notin spared'
        PROVE  ~bin'[owns[r]].there /\ ~meta'[owns[r]].there
    <3>1. f = "meta"
      BY <1>2, <2>2 DEF Cleans, Files
    <3>2. ~meta'[owns[r]].there
      BY <1>1, <1>2, <2>2, <3>1, Functions, FileTypes
    <3>3. ~bin[owns[r]].there
      BY <1>2, <2>2, <3>1 DEF Inv, Copies, HalfRemoved
    <3> QED BY <1>1, <1>4, <3>2, <3>3
  <2>3. ASSUME NEW q \in Claimers, q # r
        PROVE  /\ owns[q] # None
               /\ req[q] \in Final \cup {"succeeding", "failing"}
               /\ \A b \in Removers : ~Cleans(q, b)'
               /\ <<q, "error">> \notin spared' /\ <<q, "crash">> \notin spared'
               /\ ~(q \in UploadRequests /\ req[q] \in {"failing", "FAILED"})
               => ~bin'[owns[q]].there /\ ~meta'[owns[q]].there
    BY <1>2, <1>3, <1>4, <2>1, <2>3 DEF Inv, Copies, CopiesGo, Removed
  <2> QED BY <1>1, <2>2, <2>3 DEF CopiesGo, Removed
<1> QED BY <1>5, <1>6 DEF Copies

\* What was being removed when the server died is remembered.
LEMMA CrashCopies ==
  ASSUME Inv, Crash
  PROVE  Copies'
<1>1. /\ TypeOK /\ UNCHANGED <<bin, meta>> /\ removing' = {}
      /\ \A r \in Claimers : r \in Requests
      /\ \A r \in Claimers : owns'[r] = IF lock = r THEN None ELSE owns[r]
      /\ \A r \in Claimers : req'[r] = Reloaded(r)
  BY Disjoint DEF Inv, Crash, Dies, files
<1>2. \A r \in Claimers :
        /\ <<r, "crash">> \notin spared' => \A by \in Removers : ~Cleans(r, by)
        /\ spared \subseteq spared'
  BY DEF Crash, Dies
<1>3. HalfRemoved'
  BY <1>1 DEF HalfRemoved
<1>4. \A r \in Claimers :
        req'[r] \in Final \cup {"succeeding", "failing"} => req[r] = req'[r]
  BY <1>1 DEF Reloaded, Final
<1>5. CopiesGo'
  <2>1. \A r \in Claimers : owns'[r] # None => owns'[r] = owns[r]
    BY <1>1
  <2> QED BY <1>1, <1>2, <1>4, <2>1 DEF Inv, Copies, CopiesGo, Removed
<1> QED BY <1>3, <1>5 DEF Copies

\* No step leaves a copy behind, with the exceptions stated.
LEMMA CopiesStep == Inv /\ [Next]_vars => Copies'
<1> SUFFICES ASSUME Inv, [Next]_vars PROVE Copies'
  OBVIOUS
<1>a. TypeOK /\ \A r \in Claimers : r \in Requests
  BY Disjoint DEF Inv
<1>0. ASSUME UNCHANGED <<bin, meta, req, owns, removing, spared>> PROVE Copies'
  BY <1>0, CopiesFrame
<1>1. ASSUME NEW u \in Uploads,
             \/ StageData(u) \/ StageMeta(u) \/ SweepData(u) \/ SweepLook(u) \/ SweepMeta(u)
      PROVE  Copies'
  BY <1>1, FilesCopies
<1>2. ASSUME NEW u \in Uploads, NEW r \in Claimers, Claim(r, u) PROVE Copies'
  BY <1>2, ClaimCopies
<1>3. ASSUME NEW r \in Requests, ClaimWrite(r) PROVE Copies'
  <2>1. r \in Claimers
    BY <1>3, Disjoint DEF ClaimWrite, Inv, TypeOK
  <2> QED BY <1>3, <2>1, ClaimCopies
<1>4. ASSUME NEW r \in Requests, Insert(r) \/ Decide(r) \/ Kill(r) \/ Execute(r)
      PROVE  Copies'
  BY <1>4, RequestCopies
<1>5. ASSUME NEW r \in Claimers, NEW by \in Removers, NEW f \in Files, Remove(r, by, f)
      PROVE  Copies'
  BY <1>5, RemoveCopies
<1>6. ASSUME NEW r \in DownloadRequests, NEW force \in BOOLEAN, Begin(r, force)
      PROVE  Copies'
  <2>1. /\ UNCHANGED <<bin, meta, owns, removing, spared>>
        /\ \A c \in Claimers : req'[c] = req[c]
    BY <1>a, <1>6, BeginFrame, Functions, Disjoint DEF Step
  <2> QED BY <2>1 DEF Inv, Copies, HalfRemoved, CopiesGo, Removed, Cleans
<1>7. CASE GrowOld
  <2>1. /\ UNCHANGED <<req, owns, removing, spared>>
        /\ \A u \in Uploads : bin'[u].there = bin[u].there /\ meta'[u].there = meta[u].there
        /\ \A r \in Claimers : owns[r] # None => owns[r] \in Uploads
    BY <1>7, <1>a, GrowOldEffect, Functions
  <2> QED BY <2>1, CopiesFrame
<1>8. CASE Crash
  BY <1>8, CrashCopies
<1>9. ASSUME NEW r \in DownloadRequests, Download(r) \/ SweepArtifact(r) PROVE Copies'
  BY <1>0, <1>9, ClientFrame
<1>10. CASE UNCHANGED vars
  BY <1>0, <1>10 DEF vars, server, up, files, status, kills
<1> QED
  BY <1>1, <1>2, <1>3, <1>4, <1>5, <1>6, <1>7, <1>8, <1>9, <1>10 DEF Next, Submit

-----------------------------------------------------------------------------
(***************************************************************************)
(* Downloads.                                                              *)
(***************************************************************************)
\* Requests other than downloads, and steps that touch no artifact.
LEMMA DownloadsFrame ==
  ASSUME Inv, UNCHANGED artifact, swept \subseteq swept',
         \A r \in DownloadRequests :
           /\ req'[r] \in {"saved", "succeeding"} => req'[r] = req[r]
           /\ req'[r] = "SUCCEEDED" => req[r] \in {"succeeding", "SUCCEEDED"}
           /\ client'[r].step = "new" => client[r].step = "new" /\ req'[r] = req[r]
  PROVE  Downloads'
BY DEF Inv, Downloads, SavedHasData, DownloadReady, AsksOnce

\* The execution of a download writes its data and then its metadata.
LEMMA ArtifactDownloads ==
  ASSUME Inv, NEW r \in Requests, Snapshot(r) \/ SaveData(r) \/ SaveMeta(r)
  PROVE  Downloads'
<1>1. /\ TypeOK /\ Downloads /\ artifact \in [DownloadRequests -> Artifacts]
      /\ req \in [Requests -> Steps]
      /\ \A q \in DownloadRequests : q \in Requests
      /\ r \in DownloadRequests /\ req[r] \in {"running", "open", "saved"}
      /\ UNCHANGED <<client, swept>>
  BY Disjoint DEF Inv, TypeOK, Snapshot, SaveData, SaveMeta, peer
<1>2. \A a \in Artifacts : \A f \in {Absent} \cup File :
        /\ [a EXCEPT !.data = f].data = f /\ [a EXCEPT !.data = f].meta = a.meta
        /\ [a EXCEPT !.meta = f].meta = f /\ [a EXCEPT !.meta = f].data = a.data
  BY DEF Artifacts
<1>3. NewFile.there /\ NewFile \in {Absent} \cup File
  BY FileTypes
<1>4. \A q \in DownloadRequests : q # r => artifact'[q] = artifact[q] /\ req'[q] = req[q]
  BY <1>1 DEF Snapshot, SaveData, SaveMeta, Step
<1>5. client[r].step # "new"
  BY <1>1 DEF Downloads, AsksOnce
<1> SUFFICES r \notin swept =>
        /\ req'[r] = "saved" => artifact'[r].data.there
        /\ req'[r] = "succeeding" => artifact'[r].data.there /\ artifact'[r].meta.there
        /\ req'[r] # "SUCCEEDED"
  BY <1>1, <1>4, <1>5 DEF Downloads, SavedHasData, DownloadReady, AsksOnce
<1>6. CASE Snapshot(r)
  BY <1>1, <1>6 DEF Snapshot, Step
<1>7. CASE SaveData(r)
  <2>1. req'[r] = "failing" \/ (req'[r] = "saved" /\ artifact' = [artifact EXCEPT ![r].data = NewFile])
    BY <1>1, <1>7 DEF SaveData, Step
  <2>2. artifact' = [artifact EXCEPT ![r].data = NewFile] => artifact'[r].data = NewFile
    BY <1>1
  <2> QED BY <1>3, <2>1, <2>2
<1>8. CASE SaveMeta(r)
  <2>1. /\ req[r] = "saved"
        /\ \/ req'[r] = "failing"
           \/ req'[r] = "succeeding" /\ artifact'[r] = [artifact[r] EXCEPT !.meta = NewFile]
    BY <1>1, <1>8 DEF SaveMeta, Step
  <2>2. artifact[r] \in Artifacts /\ (r \notin swept => artifact[r].data.there)
    BY <1>1, <2>1 DEF Downloads, SavedHasData
  <2>3. LET b == [artifact[r] EXCEPT !.meta = NewFile]
        IN  b.meta = NewFile /\ b.data = artifact[r].data
    BY <1>2, <1>3, <2>2
  <2>4. req'[r] = "succeeding" => artifact'[r].meta = NewFile /\ artifact'[r].data = artifact[r].data
    BY <2>1, <2>3
  <2> QED BY <1>3, <2>1, <2>2, <2>4
<1> QED BY <1>6, <1>7, <1>8

\* The data of a download are in place before its metadata, and both before it
\* counts as a success.
LEMMA DownloadsStep == Inv /\ [Next]_vars => Downloads'
<1> SUFFICES ASSUME Inv, [Next]_vars PROVE Downloads'
  OBVIOUS
<1>a. /\ TypeOK /\ Downloads /\ artifact \in [DownloadRequests -> Artifacts]
      /\ req \in [Requests -> Steps] /\ client \in [DownloadRequests -> Clients]
      /\ \A r \in DownloadRequests : r \in Requests
      /\ \A r \in Claimers : r \in Requests /\ r \notin DownloadRequests
  BY Disjoint DEF Inv, TypeOK
<1>1. CASE UNCHANGED <<artifact, req, client>> /\ swept \subseteq swept'
  BY <1>1, DownloadsFrame
<1>2. ASSUME NEW u \in Uploads,
             \/ StageData(u) \/ StageMeta(u) \/ SweepData(u) \/ SweepLook(u) \/ SweepMeta(u)
      PROVE  Downloads'
  <2>1. swept \subseteq swept'
    BY <1>2 DEF StageData, StageMeta, SweepData, SweepLook, SweepMeta
  <2> QED BY <1>1, <1>2, <2>1, QuietFrame
<1>3. ASSUME NEW r \in Claimers, ClaimWrite(r) \/ \E u \in Uploads : Claim(r, u)
      PROVE  Downloads'
  <2>1. /\ UNCHANGED <<artifact, client, swept>>
        /\ \A q \in DownloadRequests : req'[q] = req[q]
    BY <1>a, <1>3 DEF Claim, ClaimWrite, Step, peer
  <2> QED BY <2>1, DownloadsFrame
<1>4. ASSUME NEW r \in Requests, ClaimWrite(r) PROVE Downloads'
  <2>1. r \in Claimers
    BY <1>4, Disjoint DEF ClaimWrite, Inv, TypeOK
  <2> QED BY <1>3, <1>4, <2>1
<1>5. ASSUME NEW r \in Requests, Insert(r) \/ Decide(r) \/ Kill(r) \/ Execute(r)
      PROVE  Downloads'
  <2>1. CASE Snapshot(r) \/ SaveData(r) \/ SaveMeta(r)
    BY <2>1, ArtifactDownloads
  <2>2. CASE ~(Snapshot(r) \/ SaveData(r) \/ SaveMeta(r))
    <3>1. /\ \A q \in DownloadRequests : q # r => req'[q] = req[q]
          /\ UNCHANGED <<client, swept>>
      BY <1>5, <1>a, RequestAlone, RequestFrame
    <3>2. artifact' = artifact
      BY <1>5, <2>2
      DEF Insert, Decide, Kill, KillLooks, KillMarks, KillSaves, Execute, Start, OpenStdin,
          RunEnds, OpenUpload, Install, End
    <3>3. r \in DownloadRequests =>
            /\ req'[r] \in {"saved", "succeeding"} => req'[r] = req[r]
            /\ req'[r] = "SUCCEEDED" => req[r] \in {"succeeding", "SUCCEEDED"}
      BY <1>5, <1>a, <2>2, Disjoint
      DEF Insert, Decide, Kill, KillLooks, KillMarks, KillSaves, Execute, Start, OpenStdin,
          RunEnds, OpenUpload, Install, End, Step, status, Claimers
    <3>4. r \in DownloadRequests /\ client[r].step = "new" => req'[r] = req[r]
      <4>1. r \in DownloadRequests /\ client[r].step = "new" => req[r] = "new" /\ row[r] = "none"
        BY <1>a DEF Downloads, AsksOnce, Inv, Statuses, RowsFit, Unstored
      <4>2. r \in DownloadRequests /\ client[r].step = "new" => kill[r] = "none"
        BY <1>a, <4>1 DEF Inv, Statuses, RowsFit
      <4> QED BY <1>5, <2>2, <4>1, <4>2
          DEF Insert, Decide, Kill, KillLooks, KillMarks, KillSaves, Execute, Start, OpenStdin,
              RunEnds, OpenUpload, Install, End, status
    <3> QED BY <3>1, <3>2, <3>3, <3>4, DownloadsFrame
  <2> QED BY <2>1, <2>2
<1>6. ASSUME NEW r \in Claimers, NEW by \in Removers, NEW f \in Files, Remove(r, by, f)
      PROVE  Downloads'
  BY <1>1, <1>6, RemoveEffect
<1>7. ASSUME NEW r \in DownloadRequests, SweepArtifact(r) PROVE Downloads'
  <2>1. /\ \A q \in DownloadRequests : q # r => artifact'[q] = artifact[q]
        /\ swept' = swept \cup {r} /\ UNCHANGED <<req, client>>
    BY <1>a, <1>7 DEF SweepArtifact, status, peer
  <2> QED BY <1>a, <2>1 DEF Downloads, SavedHasData, DownloadReady, AsksOnce
<1>8. ASSUME NEW r \in DownloadRequests, NEW force \in BOOLEAN, Begin(r, force)
      PROVE  Downloads'
  <2>1. /\ \A q \in DownloadRequests : q # r => client'[q] = client[q] /\ req'[q] = req[q]
        /\ client'[r].step \in {"failed", "waiting"} /\ req'[r] \in {req[r], "prepared"}
        /\ UNCHANGED <<artifact, swept>>
    BY <1>a, <1>8 DEF Begin, Client, Clients, Step
  <2> QED BY <2>1, DownloadsFrame
<1>9. ASSUME NEW r \in DownloadRequests, Download(r) PROVE Downloads'
  <2>1. \A q \in DownloadRequests : client'[q].step = "new" => client[q].step = "new"
    BY <1>a, <1>9 DEF Download, ServeMeta, ServeData, Place, MakeLocal, Client, Clients
  <2>2. UNCHANGED <<artifact, req, swept>>
    BY <1>9 DEF Download, ServeMeta, ServeData, Place, MakeLocal, server, status
  <2> QED BY <2>1, <2>2, DownloadsFrame
<1>10. CASE GrowOld
  <2>1. /\ UNCHANGED <<req, client, swept>>
        /\ \A r \in DownloadRequests : /\ artifact'[r].data.there = artifact[r].data.there
                                       /\ artifact'[r].meta.there = artifact[r].meta.there
    BY <1>a, <1>10, GrowOldEffect
  <2> QED BY <1>a, <2>1 DEF Downloads, SavedHasData, DownloadReady, AsksOnce
<1>11. CASE Crash
  <2>1. \A r \in DownloadRequests : req'[r] = Reloaded(r)
    BY <1>a, <1>11 DEF Crash
  <2>2. \A r \in DownloadRequests :
          /\ req'[r] \notin {"saved", "succeeding"}
          /\ req'[r] = "SUCCEEDED" => req[r] = "SUCCEEDED"
    BY <2>1 DEF Reloaded, Final
  <2>3. \A r \in DownloadRequests : client[r].step = "new" => req'[r] = req[r]
    <3>1. \A r \in DownloadRequests : client[r].step = "new" => req[r] = "new" /\ row[r] = "none"
      BY <1>a DEF Downloads, AsksOnce, Inv, Statuses, RowsFit, Unstored
    <3> QED BY <2>1, <3>1 DEF Reloaded
  <2>4. UNCHANGED <<artifact, client, swept>>
    BY <1>11 DEF Crash, Dies, peer
  <2> QED BY <2>2, <2>3, <2>4, DownloadsFrame
<1>12. CASE UNCHANGED vars
  BY <1>1, <1>12 DEF vars, server, status, peer
<1> QED
  BY <1>2, <1>3, <1>4, <1>5, <1>6, <1>7, <1>8, <1>9, <1>10, <1>11, <1>12 DEF Next, Submit

-----------------------------------------------------------------------------
(***************************************************************************)
(* Results.                                                                *)
(***************************************************************************)
\* Nothing is staged, claimed or fetched at first.
LEMMA InitInv == Init => Inv
<1> SUFFICES ASSUME Init PROVE Inv
  OBVIOUS
<1>1. TypeOK
  BY InitType
<1>2. /\ \A r \in Requests : req[r] = "new" /\ row[r] = "none" /\ kill[r] = "none"
      /\ \A r \in Claimers : req[r] = "new" /\ row[r] = "none" /\ owns[r] = None
      /\ \A u \in Uploads : stage[u] = "new" /\ ~bin[u].there /\ ~meta[u].there
      /\ \A r \in DownloadRequests : req[r] = "new"
      /\ removing = {}
  BY Disjoint, FileTypes DEF Init
<1>3. Ownership
  BY <1>2 DEF Ownership, OneOwner, OwnsOnTheWay, OwnedIsStaged, OwnedIsClaimed
<1>4. Statuses
  BY <1>2 DEF Statuses, RowsFit, RemovalsFit, Unstored
<1>5. Bytes
  BY <1>2 DEF Bytes, PairsAreWhole, ClaimingHasBytes, WaitingHasBytes
<1>6. Copies
  BY <1>2 DEF Copies, HalfRemoved, CopiesGo
<1>7. Downloads
  BY <1>2 DEF Downloads, SavedHasData, DownloadReady, AsksOnce
<1> QED BY <1>1, <1>3, <1>4, <1>5, <1>6, <1>7 DEF Inv

\* The variables keep their types, and the lock is held by the request that
\* claims.
THEOREM TransfersTypeCorrect == Spec => []TypeOK
<1>1. Init => TypeOK
  BY InitType
<1>2. TypeOK /\ [Next]_vars => TypeOK'
  BY NextType
<1> QED BY <1>1, <1>2, PTL DEF Spec

\* The invariant is inductive.
THEOREM TransfersInvariant == Spec => []Inv
<1>1. Inv /\ [Next]_vars => Inv'
  <2>1. Inv /\ [Next]_vars => TypeOK'
    BY NextType DEF Inv
  <2> QED BY <2>1, OwnershipStep, StatusesStep, BytesStep, CopiesStep, DownloadsStep DEF Inv
<1> QED BY InitInv, <1>1, PTL DEF Spec

\* Two requests never own one upload, however claims, kills, crashes and the
\* cleanup interleave.
THEOREM UploadsHaveOneOwner == Spec => []OneOwner
<1>1. Inv => OneOwner
  BY DEF Inv, Ownership
<1> QED BY <1>1, TransfersInvariant, PTL

\* Only the cleanup, or a kill of the request itself, takes the bytes of a
\* request that waits.
THEOREM WaitingKeepsBytes == Spec => []WaitingHasBytes
<1>1. Inv => WaitingHasBytes
  BY DEF Inv, Bytes
<1> QED BY <1>1, TransfersInvariant, PTL

\* A staged copy whose removal is over is gone, both its files, although the
\* removal takes them one by one after the end of the request is known and may
\* meet a second one; the exceptions are an error of a removal, a crash before
\* its end and an upload that could not be installed.
THEOREM StagedCopiesGo == Spec => []StagedCopyRemoved
<1>1. Inv => StagedCopyRemoved
  BY DEF Inv, Copies, CopiesGo, StagedCopyRemoved, Final
<1> QED BY <1>1, TransfersInvariant, PTL

\* A download that succeeded has its data and its metadata.
THEOREM DownloadsComplete == Spec => []DownloadReady
<1>1. Inv => DownloadReady
  BY DEF Inv, Downloads
<1> QED BY <1>1, TransfersInvariant, PTL

\* Without force, a file that somebody else made at the destination stays.
THEOREM LocalFilesKept == Spec => KeepsLocalFile
<1>1. TypeOK /\ [Next]_vars =>
        [\A r \in DownloadRequests :
           local[r] = "theirs" /\ ~client[r].force => local'[r] = "theirs"]_vars
  <2> SUFFICES ASSUME TypeOK, Next, NEW r \in DownloadRequests,
                      local[r] = "theirs", ~client[r].force
               PROVE  local'[r] = "theirs"
    BY DEF vars, peer
  <2>1. local \in [DownloadRequests -> Contents \cup {"theirs"}] /\ local[r] # None
    BY Disjoint DEF TypeOK
  <2>2. CASE local' = local
    BY <2>2
  <2>3. ASSUME NEW q \in DownloadRequests, Place(q) \/ MakeLocal(q)
        PROVE  local'[r] = "theirs"
    BY <2>1, <2>3 DEF Place, MakeLocal
  <2>4. ASSUME NEW q \in DownloadRequests, ServeMeta(q) \/ ServeData(q) \/ SweepArtifact(q)
        PROVE  local' = local
    BY <2>4 DEF ServeMeta, ServeData, SweepArtifact, peer
  <2>5. ASSUME NEW q \in DownloadRequests, NEW force \in BOOLEAN, Begin(q, force)
        PROVE  local' = local
    BY <2>5 DEF Begin
  <2>6. ASSUME NEW q \in Requests, Submit(q) \/ Kill(q) \/ Execute(q)
        PROVE  local' = local
    <3>1. ClaimWrite(q) => local' = local
      BY DEF ClaimWrite, peer
    <3> QED BY <2>6, <3>1, RequestFrame DEF Submit
  <2>7. ASSUME NEW u \in Uploads, NEW q \in Claimers, Claim(q, u) PROVE local' = local
    BY <2>7 DEF Claim, peer
  <2>8. ASSUME NEW u \in Uploads,
               \/ StageData(u) \/ StageMeta(u) \/ SweepData(u) \/ SweepLook(u) \/ SweepMeta(u)
        PROVE  local' = local
    BY <2>8, QuietFrame
  <2>9. CASE GrowOld \/ Crash
    BY <2>2, <2>9 DEF GrowOld, Crash, Dies, peer
  <2>10. ASSUME NEW q \in Claimers, NEW by \in Removers, NEW f \in Files, Remove(q, by, f)
         PROVE  local' = local
    BY <2>10 DEF Remove, peer
  <2> QED BY <2>2, <2>3, <2>4, <2>5, <2>6, <2>7, <2>8, <2>9, <2>10 DEF Next, Download
<1> QED BY <1>1, TransfersTypeCorrect, PTL DEF Spec, KeepsLocalFile

-----------------------------------------------------------------------------
(***************************************************************************)
(* Transfers implements StagedUploads.                                     *)
(***************************************************************************)
stagedVars == <<Held, Expired, Serves, Phase, Killed, target>>

\* Where each step of a request is in the eyes of StagedUploads.
LEMMA Phases ==
  /\ \A s \in Steps : PhaseOf(s, "pending") = "waiting"
  /\ \A w \in Rows \ {"pending"} :
       /\ PhaseOf("new", w) = "idle" /\ PhaseOf("claiming", w) = "idle"
       /\ PhaseOf("prepared", w) = "waiting" /\ PhaseOf("approved", w) = "allowed"
       /\ PhaseOf("running", w) = "running" /\ PhaseOf("open", w) = "using"
       /\ \A s \in Final \cup {"saved", "succeeding", "failing", "stranded", "lost"} :
            PhaseOf(s, w) = "over"
BY DEF PhaseOf, Final

\* What the files say of each upload.
LEMMA HeldSame ==
  ASSUME UNCHANGED stage,
         \A u \in Uploads : bin'[u].there = bin[u].there /\ meta'[u].there = meta[u].there
  PROVE  Held' = Held
BY DEF Held, BytesOf, Readable

\* A step of one request is a step of its phase.
LEMMA PhaseStep ==
  ASSUME Inv, NEW r \in Claimers,
         \A q \in Claimers : q # r => req'[q] = req[q] /\ row'[q] = row[q]
  PROVE  Phase' = [Phase EXCEPT ![r] = PhaseOf(req'[r], row'[r])]
BY DEF Phase

\* A request on its way serves a staged upload.
LEMMA Serving ==
  ASSUME Inv, NEW r \in Claimers, owns[r] # None, req[r] # "claiming"
  PROVE  /\ owns[r] \in Uploads /\ Serves[r] = owns[r] /\ lock # r
         /\ stage[owns[r]] = "staged"
         /\ Held[owns[r]] = IF Readable(owns[r]) THEN "here" ELSE "gone"
<1>1. owns[r] \in Uploads /\ lock # r
  BY Functions DEF Inv
<1>2. stage[owns[r]] = "staged"
  BY DEF Inv, Ownership, OwnedIsStaged
<1> QED BY <1>1, <1>2 DEF Serves, Held, BytesOf

\* Nothing is staged at first.
LEMMA StagedInit == Init => Staged!Init
<1> SUFFICES ASSUME Init PROVE Staged!Init
  OBVIOUS
<1>1. \A u \in Uploads : BytesOf(u) = "none"
  BY DEF Init, BytesOf
<1>2. \A r \in Claimers : lock # r /\ owns[r] = None /\ PhaseOf(req[r], row[r]) = "idle"
  BY Disjoint, Phases DEF Init, Rows
<1> QED BY <1>1, <1>2 DEF Init, Staged!Init, Held, Expired, Serves, Phase, Killed

\* Staging, and the cleanup of the files of an upload.
LEMMA StagedFiles ==
  ASSUME Inv, NEW u \in Uploads,
         StageData(u) \/ StageMeta(u) \/ SweepData(u) \/ SweepLook(u) \/ SweepMeta(u)
  PROVE  Staged!Next \/ UNCHANGED stagedVars
<1>1. UNCHANGED <<lock, req, row, owns, killed, target>>
  BY QuietFrame
<1>2. UNCHANGED <<Serves, Phase, Killed, target>>
  BY <1>1 DEF Serves, Phase, Killed
<1>a. /\ stage \in [Uploads -> {"new", "data", "staged", "failed"}]
      /\ bin \in [Uploads -> {Absent} \cup File]
      /\ meta \in [Uploads -> {Absent} \cup MetaFile]
  BY Functions DEF Inv
<1>3. CASE StageData(u)
  <2>1. \A v \in Uploads : BytesOf(v)' = BytesOf(v)
    BY <1>3, <1>a DEF StageData, BytesOf, Readable
  <2> QED BY <1>2, <1>3, <2>1 DEF StageData, stagedVars, Held, Expired
<1>4. CASE StageMeta(u)
  <2>1. /\ stage[u] = "data" /\ UNCHANGED swept
        /\ \A v \in Uploads : v # u => BytesOf(v)' = BytesOf(v)
    BY <1>4, <1>a DEF StageMeta, BytesOf, Readable
  <2>2. BytesOf(u) = "none" /\ Expired' = Expired
    BY <2>1 DEF BytesOf, Expired
  <2>3. CASE stage' = [stage EXCEPT ![u] = "failed"]
    <3>1. BytesOf(u)' = "none"
      BY <1>a, <2>3 DEF BytesOf
    <3> QED BY <1>2, <2>1, <2>2, <3>1 DEF stagedVars, Held
  <2>4. CASE /\ stage' = [stage EXCEPT ![u] = "staged"]
             /\ meta' = [meta EXCEPT ![u] = NewMeta(FALSE)]
             /\ UNCHANGED bin
    <3>1. BytesOf(u)' = IF bin[u].there THEN "here" ELSE "gone"
      BY <1>a, <2>4 DEF BytesOf, Readable, NewMeta
    <3>2. u \notin swept => bin[u].there
      BY <2>1 DEF Inv, Bytes, PairsAreWhole
    <3>3. Held' = [Held EXCEPT ![u] = BytesOf(u)'] /\ Held[u] = "none"
      BY <2>1, <2>2 DEF Held
    <3>4. Staged!Stage(u)
      BY <1>2, <2>2, <3>1, <3>2, <3>3 DEF Staged!Stage, Expired
    <3> QED BY <3>4 DEF Staged!Next
  <2> QED BY <1>4, <2>3, <2>4 DEF StageMeta
<1>5. CASE SweepData(u) \/ SweepMeta(u)
  <2>1. UNCHANGED stage /\ swept' = swept \cup {u}
    BY <1>5 DEF SweepData, SweepMeta, up
  <2>2. \A v \in Uploads : v # u => bin'[v] = bin[v] /\ meta'[v] = meta[v]
    BY <1>5, <1>a DEF SweepData, SweepMeta
  <2>3. bin'[u] = Absent \/ meta'[u] = Absent
    BY <1>5, <1>a DEF SweepData, SweepMeta
  <2>4. \A v \in Uploads : v # u => BytesOf(v)' = BytesOf(v)
    BY <2>1, <2>2 DEF BytesOf, Readable
  <2>5. BytesOf(u)' \in {BytesOf(u), "gone"}
    BY <2>1, <2>3, FileTypes DEF BytesOf, Readable
  <2>6. Held' \in {Held, [Held EXCEPT ![u] = "gone"]}
    BY <2>4, <2>5 DEF Held
  <2>7. Staged!Expire(u)
    BY <1>2, <2>1, <2>6 DEF Staged!Expire, Expired
  <2> QED BY <2>7 DEF Staged!Next
<1>6. CASE SweepLook(u)
  <2>1. Held' = Held
    BY <1>6, HeldSame DEF SweepLook, files
  <2> QED BY <1>2, <1>6, <2>1 DEF SweepLook, stagedVars, Expired
<1> QED BY <1>3, <1>4, <1>5, <1>6

\* A claim takes effect when it is written.
LEMMA StagedClaim ==
  ASSUME Inv, NEW r \in Requests, ClaimWrite(r)
  PROVE  Staged!Next
<1>1. r \in Claimers /\ lock = r /\ lock' = None /\ req[r] = "claiming"
  BY Disjoint, Functions DEF Inv, TypeOK, ClaimWrite
<1>2. owns[r] \in Uploads /\ stage[owns[r]] = "staged" /\ row[r] \in Rows /\ row[r] = "none"
  BY <1>1, Functions, Disjoint
  DEF Inv, Ownership, OwnsOnTheWay, OwnedIsStaged, Statuses, RowsFit, Unstored
<1>3. /\ req \in [Requests -> Steps] /\ owns \in [Claimers -> Uploads \cup {None}]
      /\ meta \in [Uploads -> {Absent} \cup MetaFile]
      /\ \A q \in Claimers : q \in Requests
  BY Functions, Disjoint DEF Inv
<1>4. /\ UNCHANGED <<stage, bin, row, killed, swept, target>>
      /\ Phase[r] = "idle"
  BY <1>1, <1>2, Phases DEF ClaimWrite, Phase, kills
<1>5. CASE meta' = [meta EXCEPT ![owns[r]] = NewMeta(TRUE)] /\ Step(r, "prepared") /\ UNCHANGED owns
  <2>1. PICK u \in Uploads : u = owns[r]
    BY <1>2
  <2>2. \A s \in Claimers : Serves[s] # u
    BY <1>1, <2>1, Disjoint DEF Inv, Ownership, OneOwner, Serves
  <2>3. Serves' = [Serves EXCEPT ![r] = u]
    BY <1>1, <1>3, <1>5, <2>1, Disjoint DEF Serves
  <2>4. Phase' = [Phase EXCEPT ![r] = "waiting"]
    <3>1. req'[r] = "prepared" /\ \A q \in Claimers : q # r => req'[q] = req[q]
      BY <1>1, <1>3, <1>5 DEF Step
    <3> QED BY <1>1, <1>2, <1>4, <3>1, PhaseStep, Phases
  <2>5. /\ BytesOf(u) = IF Readable(u) THEN "here" ELSE "gone"
        /\ BytesOf(u)' = IF bin[u].there THEN "here" ELSE "gone"
    BY <1>2, <1>3, <1>4, <1>5, <2>1 DEF BytesOf, Readable, NewMeta
  <2>6. Readable(u) => bin[u].there
    BY DEF Readable
  <2>7. \A v \in Uploads : v # u => BytesOf(v)' = BytesOf(v)
    BY <1>3, <1>4, <1>5, <2>1 DEF BytesOf, Readable
  <2>8. Held' \in {Held, [Held EXCEPT ![u] = "here"]}
    BY <2>5, <2>6, <2>7 DEF Held
  <2>9. u \notin swept => Readable(u)
    BY <1>1, <2>1 DEF Inv, Bytes, ClaimingHasBytes
  <2>10. Held[u] = "here" \/ (Held[u] = "gone" /\ u \in Expired)
    BY <2>5, <2>9 DEF Held, Expired
  <2>11. Staged!Claim(r, u)
    BY <1>4, <2>2, <2>3, <2>4, <2>8, <2>10 DEF Staged!Claim, Staged!Becomes, Expired, Killed
  <2> QED BY <1>1, <2>11 DEF Staged!Next
<1>6. CASE Step(r, "REFUSED") /\ owns' = [owns EXCEPT ![r] = None] /\ UNCHANGED meta
  <2>1. Serves' = Serves
    BY <1>1, <1>3, <1>6, Disjoint DEF Serves
  <2>2. Phase' = [Phase EXCEPT ![r] = "over"]
    <3>1. req'[r] = "REFUSED" /\ \A q \in Claimers : q # r => req'[q] = req[q]
      BY <1>1, <1>3, <1>6 DEF Step
    <3> QED BY <1>1, <1>2, <1>4, <3>1, PhaseStep, Phases DEF Final
  <2>3. Held' = Held
    BY <1>4, <1>6, HeldSame
  <2>4. Staged!Refuse(r)
    BY <1>4, <2>1, <2>2, <2>3 DEF Staged!Refuse, Staged!Becomes, Expired, Killed
  <2> QED BY <1>1, <2>4 DEF Staged!Next
<1> QED BY <1>5, <1>6 DEF ClaimWrite

\* Until then it is nobody's, and may be refused.
LEMMA StagedAsk ==
  ASSUME Inv, NEW r \in Claimers, NEW u \in Uploads, Claim(r, u)
  PROVE  Staged!Next \/ UNCHANGED stagedVars
<1>1. /\ r \in Requests /\ req[r] = "new" /\ lock = None /\ owns[r] = None
      /\ row[r] = "none" /\ row[r] \in Rows
      /\ UNCHANGED <<stage, bin, meta, swept, row, killed, target>>
      /\ \A q \in Claimers : q \in Requests
  BY Disjoint
  DEF Inv, Ownership, OwnsOnTheWay, Statuses, RowsFit, Unstored, Claim, files, kills, Rows
<1>2. Held' = Held /\ Expired' = Expired /\ Killed' = Killed /\ Phase[r] = "idle"
  BY <1>1, HeldSame, Phases DEF Expired, Killed, Phase
<1>3. CASE Claimable(u)
  <2>1. /\ lock' = r /\ owns' = [owns EXCEPT ![r] = u]
        /\ req'[r] = "claiming" /\ \A q \in Claimers : q # r => req'[q] = req[q]
    BY <1>1, <1>3, Functions DEF Claim, Step, Inv
  <2>2. Serves' = Serves
    BY <1>1, <2>1, Functions, Disjoint DEF Inv, Serves
  <2>3. Phase' = Phase
    <3>1. Phase' = [Phase EXCEPT ![r] = "idle"]
      BY <1>1, <2>1, PhaseStep, Phases
    <3> QED BY <1>2, <3>1 DEF Phase
  <2> QED BY <1>1, <1>2, <2>2, <2>3 DEF stagedVars
<1>4. CASE ~Claimable(u)
  <2>1. /\ UNCHANGED <<lock, owns>>
        /\ req'[r] = "REFUSED" /\ \A q \in Claimers : q # r => req'[q] = req[q]
    BY <1>1, <1>4, Functions DEF Claim, Step, Inv
  <2>2. Phase' = [Phase EXCEPT ![r] = "over"] /\ Serves' = Serves
    BY <1>1, <2>1, PhaseStep, Phases DEF Final, Serves
  <2>3. Staged!Refuse(r)
    BY <1>1, <1>2, <2>2 DEF Staged!Refuse, Staged!Becomes
  <2> QED BY <2>3 DEF Staged!Next
<1> QED BY <1>3, <1>4

\* Requests without staged files do not concern StagedUploads.
LEMMA StagedOthers ==
  ASSUME Inv, NEW r \in Requests \ Claimers, Insert(r) \/ Decide(r) \/ Kill(r) \/ Execute(r)
  PROVE  UNCHANGED stagedVars
<1>1. UNCHANGED <<stage, lock, bin, meta, owns, swept>>
  BY RequestFrame
<1>2. /\ \A q \in Claimers : req'[q] = req[q] /\ row'[q] = row[q]
      /\ \A q \in Claimers : q \in killed' <=> q \in killed
  BY RequestAlone, Disjoint DEF Inv
<1>3. UNCHANGED target
  BY DEF Insert, Decide, Kill, KillLooks, KillMarks, KillSaves, Execute, Start,
         OpenStdin, RunEnds, OpenUpload, Install, Snapshot, SaveData, SaveMeta, End, Claimers
<1>4. Held' = Held /\ Phase' = Phase /\ Killed' = Killed
  BY <1>1, <1>2, HeldSame DEF Phase, Killed
<1> QED BY <1>1, <1>3, <1>4 DEF stagedVars, Expired, Serves

\* What is the same for every step of a request with staged files.
LEMMA StagedRequest ==
  ASSUME Inv, NEW r \in Claimers, Insert(r) \/ Decide(r) \/ Kill(r) \/ Execute(r)
  PROVE  /\ UNCHANGED <<Held, Expired, Serves>>
         /\ Phase' = [Phase EXCEPT ![r] = PhaseOf(req'[r], row'[r])]
         /\ Phase[r] = PhaseOf(req[r], row[r])
         /\ req[r] \in Steps /\ req'[r] \in Steps /\ row[r] \in Rows /\ row'[r] \in Rows
         /\ req \in [Requests -> Steps] /\ row \in [Requests -> Rows] /\ r \in Requests
         /\ row[r] = "pending" => req[r] \in {"pending", "KILLED"}
         /\ req[r] = "pending" => row[r] = "pending"
<1>1. r \in Requests /\ \A q \in Claimers : q \in Requests
  BY Disjoint
<1>2. UNCHANGED <<stage, lock, bin, meta, owns, swept>>
  BY <1>1, RequestFrame
<1>3. /\ \A q \in Claimers : q # r => req'[q] = req[q] /\ row'[q] = row[q]
      /\ req'[r] \in Steps /\ row'[r] \in Rows
  BY <1>1, RequestAlone DEF Inv
<1>4. UNCHANGED <<Held, Expired, Serves>>
  BY <1>2, HeldSame DEF Expired, Serves
<1>5. Phase' = [Phase EXCEPT ![r] = PhaseOf(req'[r], row'[r])]
  BY <1>3, PhaseStep
<1> QED BY <1>1, <1>3, <1>4, <1>5, Functions DEF Inv, Statuses, RowsFit, Phase

\* A request with staged files is stored and decided.
LEMMA StagedDecide ==
  ASSUME Inv, NEW r \in Claimers, Insert(r) \/ Decide(r)
  PROVE  Staged!Next \/ UNCHANGED stagedVars
<1>a. UNCHANGED <<killed, target>>
  BY DEF Insert, Decide, kills
<1> DEFINE p == PhaseOf(req'[r], row'[r])
<1>b. /\ UNCHANGED <<Held, Expired, Serves, Killed, target>>
      /\ Phase' = [Phase EXCEPT ![r] = p] /\ Phase[r] = "waiting"
      /\ row'[r] \in Rows /\ req \in [Requests -> Steps] /\ row \in [Requests -> Rows] /\ r \in Requests
  BY <1>a, StagedRequest, Phases DEF Insert, Decide, Killed
<1>c. ASSUME p = "over" PROVE Staged!Next
  <2>1. Staged!End(r)
    BY <1>b, <1>c DEF Staged!End, Staged!Becomes
  <2> QED BY <2>1 DEF Staged!Next
<1>1. CASE Insert(r) /\ Step(r, "pending") /\ Stored(r, "pending")
  <2>1. p = "waiting"
    BY <1>1, <1>b, Phases DEF Step, Stored, Steps
  <2>2. Phase' = Phase
    BY <1>b, <2>1 DEF Phase
  <2> QED BY <1>b, <2>2 DEF stagedVars
<1>2. CASE Insert(r) /\ Step(r, "REFUSED") /\ row' = row
  <2>1. row[r] = "none"
    BY <1>2, <1>b DEF Insert, Inv, Statuses, RowsFit, Unstored
  <2>2. p = "over"
    BY <1>2, <1>b, <2>1, Phases DEF Step, Rows, Final
  <2> QED BY <1>c, <2>2
<1>3. CASE Step(r, "approved") /\ Stored(r, "approved")
  <2>1. p = "allowed"
    BY <1>3, <1>b, Phases DEF Step, Stored, Rows
  <2>2. Staged!Allow(r)
    BY <1>b, <2>1 DEF Staged!Allow, Staged!Becomes
  <2> QED BY <2>2 DEF Staged!Next
<1>4. CASE Step(r, "DENIED") /\ Stored(r, "over")
  <2>1. p = "over"
    BY <1>4, <1>b, Phases DEF Step, Stored, Rows, Final
  <2> QED BY <1>c, <2>1
<1> QED BY <1>1, <1>2, <1>3, <1>4 DEF Insert, Decide

\* ... or killed.
LEMMA StagedKill ==
  ASSUME Inv, NEW r \in Claimers, Kill(r)
  PROVE  Staged!Next \/ UNCHANGED stagedVars
<1>a. target' = target
  BY DEF Kill, KillLooks, KillMarks, KillSaves
<1> DEFINE p == PhaseOf(req'[r], row'[r])
<1>b. /\ UNCHANGED <<Held, Expired, Serves>> /\ Phase' = [Phase EXCEPT ![r] = p]
      /\ Phase[r] = PhaseOf(req[r], row[r])
      /\ req[r] \in Steps /\ row[r] \in Rows /\ row'[r] \in Rows
      /\ req \in [Requests -> Steps] /\ row \in [Requests -> Rows] /\ r \in Requests
      /\ row[r] = "pending" => req[r] \in {"pending", "KILLED"}
      /\ req[r] = "pending" => row[r] = "pending"
  BY StagedRequest
<1>c. p = Phase[r] => Phase' = Phase
  BY <1>b DEF Phase
<1>1. CASE KillLooks(r)
  <2>1. UNCHANGED <<req, row, killed>>
    BY <1>1 DEF KillLooks, status
  <2> QED BY <1>a, <1>b, <2>1 DEF stagedVars, Phase, Killed
<1>2. CASE KillMarks(r)
  <2>1. /\ row' = row /\ Killed' = Killed \cup {r}
    BY <1>2 DEF KillMarks, Killed
  <2>2. Phase[r] # "idle"
    <3>1. row[r] # "none"
      BY <1>2, <1>b DEF KillMarks, Inv, Statuses, RowsFit
    <3>2. req[r] \notin {"new", "claiming"}
      BY <1>b, <3>1 DEF Inv, Statuses, RowsFit, Unstored
    <3> QED BY <1>b, <3>2 DEF PhaseOf
  <2>3. CASE req' = req
    <3>1. Staged!Kill(r)
      BY <1>a, <1>b, <1>c, <2>1, <2>2, <2>3 DEF Staged!Kill
    <3> QED BY <3>1 DEF Staged!Next
  <2>4. CASE req[r] \in Idle /\ Step(r, "KILLED")
    <3>1. req'[r] = "KILLED"
      BY <1>b, <2>4 DEF Step
    <3>2. CASE req[r] = "approved"
      <4>1. Phase[r] = "allowed" /\ p = "over"
        BY <1>b, <2>1, <3>1, <3>2, Phases DEF Final
      <4>2. Staged!Kill(r)
        BY <1>a, <1>b, <2>1, <2>2, <4>1 DEF Staged!Kill, Staged!Becomes
      <4> QED BY <4>2 DEF Staged!Next
    <3>3. CASE req[r] \in {"pending", "stranded"}
      <4>1. p = Phase[r]
        BY <1>b, <2>1, <3>1, <3>3, Phases DEF Final, Steps
      <4>2. Staged!Kill(r)
        BY <1>a, <1>b, <1>c, <2>1, <2>2, <4>1 DEF Staged!Kill
      <4> QED BY <4>2 DEF Staged!Next
    <3> QED BY <2>4, <3>2, <3>3 DEF Idle
  <2> QED BY <1>2, <2>3, <2>4 DEF KillMarks
<1>3. CASE KillSaves(r)
  <2>1. /\ UNCHANGED <<req, killed>> /\ Killed' = Killed
        /\ row'[r] = row[r] \/ row'[r] = "over"
    BY <1>3, <1>b DEF KillSaves, Stores, Stored, Killed
  <2>2. CASE row[r] = "pending" /\ row'[r] = "over"
    <3>1. req[r] = "KILLED"
      BY <1>3, <1>b, <2>2 DEF KillSaves, Inv, Statuses, RowsFit
    <3>2. Phase[r] = "waiting" /\ p = "over"
      BY <1>b, <2>1, <2>2, <3>1, Phases DEF Final, Steps
    <3>3. Staged!End(r)
      BY <1>a, <1>b, <2>1, <3>2 DEF Staged!End, Staged!Becomes
    <3> QED BY <3>3 DEF Staged!Next
  <2>3. CASE row'[r] = row[r] \/ row[r] # "pending"
    <3>1. p = Phase[r]
      BY <1>b, <2>1, <2>3 DEF PhaseOf
    <3> QED BY <1>a, <1>b, <1>c, <2>1, <3>1 DEF stagedVars
  <2> QED BY <2>1, <2>2, <2>3
<1> QED BY <1>1, <1>2, <1>3 DEF Kill

\* A request with staged files is executed.
LEMMA StagedExecute ==
  ASSUME Inv, NEW r \in Claimers, Execute(r)
  PROVE  Staged!Next \/ UNCHANGED stagedVars
<1>1. ~Snapshot(r) /\ ~SaveData(r) /\ ~SaveMeta(r)
  BY Disjoint DEF Snapshot, SaveData, SaveMeta
<1> DEFINE p == PhaseOf(req'[r], row'[r])
<1>2. /\ UNCHANGED <<Held, Expired, Serves, Killed>> /\ Phase' = [Phase EXCEPT ![r] = p]
      /\ Phase[r] = PhaseOf(req[r], row[r])
      /\ row[r] \in Rows /\ row'[r] \in Rows /\ row[r] # "pending"
      /\ req \in [Requests -> Steps] /\ row \in [Requests -> Rows] /\ r \in Requests
  <2>1. req[r] \notin {"pending", "KILLED"} /\ killed' = killed
    BY <1>1 DEF Execute, Start, OpenStdin, RunEnds, OpenUpload, Install, End, kills
  <2> QED BY <2>1, StagedRequest DEF Killed
<1>3. row'[r] # "pending"
  BY <1>1, <1>2
  DEF Execute, Start, OpenStdin, RunEnds, OpenUpload, Install, End, Stores, Stored
<1>4. owns[r] \in Uploads /\ Serves[r] = owns[r]
      /\ Held[owns[r]] = IF Readable(owns[r]) THEN "here" ELSE "gone"
  <2>1. req[r] \notin Unstored \cup {"lost"}
    BY <1>1 DEF Execute, Start, OpenStdin, RunEnds, OpenUpload, Install, End, Unstored
  <2>2. owns[r] # None
    BY <1>2, <2>1 DEF Inv, Statuses, RowsFit, Ownership, OwnsOnTheWay
  <2> QED BY <2>1, <2>2, Serving DEF Unstored
<1>5. ASSUME req[r] \in {"running", "open"}, req'[r] \in {"succeeding", "failing"},
             target' = target \/ (req[r] = "open" /\ target' = owns[r])
      PROVE  Staged!Next
  <2>1. /\ p = "over" /\ Phase[r] \in {"running", "using"}
        /\ req[r] = "open" => Phase[r] = "using"
    BY <1>2, <1>3, <1>5, Phases
  <2>2. Staged!End(r)
    BY <1>2, <1>4, <1>5, <2>1 DEF Staged!End, Staged!Becomes
  <2> QED BY <2>2 DEF Staged!Next
<1>6. CASE Start(r)
  <2>1. req[r] = "approved" /\ req'[r] = "running" /\ target' = target
    BY <1>2, <1>6 DEF Start, Step
  <2>2. Phase[r] = "allowed" /\ p = "running"
    BY <1>2, <1>3, <2>1, Phases
  <2>3. Staged!Begin(r)
    BY <1>2, <2>1, <2>2 DEF Staged!Begin, Staged!Becomes
  <2> QED BY <2>3 DEF Staged!Next
<1>7. CASE OpenStdin(r) \/ OpenUpload(r)
  <2>1. /\ req[r] = "running" /\ target' = target
        /\ req'[r] = "failing" \/ (req'[r] = "open" /\ Readable(owns[r]))
    BY <1>2, <1>7 DEF OpenStdin, OpenUpload, Step
  <2>2. CASE req'[r] = "failing"
    BY <1>5, <2>1, <2>2
  <2>3. CASE req'[r] = "open" /\ Readable(owns[r])
    <3>1. Phase[r] = "running" /\ p = "using"
      BY <1>2, <1>3, <2>1, <2>3, Phases
    <3>2. Staged!Use(r)
      BY <1>2, <1>4, <2>1, <2>3, <3>1 DEF Staged!Use, Staged!Becomes
    <3> QED BY <3>2 DEF Staged!Next
  <2> QED BY <2>1, <2>2, <2>3
<1>8. CASE RunEnds(r) \/ Install(r)
  <2>1. /\ req[r] = "open" /\ req'[r] \in {"succeeding", "failing"}
        /\ target' = target \/ target' = owns[r]
    BY <1>2, <1>8 DEF RunEnds, Install, Step
  <2> QED BY <1>5, <2>1
<1>9. CASE End(r)
  <2>1. /\ req[r] \in {"succeeding", "failing"} /\ req'[r] \in {"SUCCEEDED", "FAILED"}
        /\ target' = target
    BY <1>2, <1>9 DEF End, Step
  <2>2. Phase[r] = "over" /\ p = "over"
    BY <1>2, <1>3, <2>1, Phases DEF Final
  <2>3. Phase' = Phase
    BY <1>2, <2>2 DEF Phase
  <2> QED BY <1>2, <2>1, <2>3 DEF stagedVars
<1> QED BY <1>1, <1>6, <1>7, <1>8, <1>9 DEF Execute

\* A file is removed for a request that is over or was killed.
LEMMA StagedRemove ==
  ASSUME Inv, NEW r \in Claimers, NEW by \in Removers, NEW f \in Files, Remove(r, by, f)
  PROVE  Staged!Next \/ UNCHANGED stagedVars
<1>1. /\ UNCHANGED <<stage, lock, req, row, killed, owns, target, swept>>
      /\ owns[r] \in Uploads /\ req[r] # "claiming" /\ lock # r /\ owns[r] # None
      /\ \A u \in Uploads : u # owns[r] => bin'[u] = bin[u] /\ meta'[u] = meta[u]
  BY RemoveEffect, Disjoint
<1>2. UNCHANGED <<Expired, Serves, Phase, Killed, target>>
  BY <1>1 DEF Expired, Serves, Phase, Killed
<1>3. Serves[r] = owns[r] /\ stage[owns[r]] = "staged"
  BY <1>1, Serving
<1>4. Phase[r] = "over" \/ r \in Killed
  <2>1. /\ by = "own" => req[r] \in Cleaning
        /\ by = "kill" => r \in killed
        /\ r \in Requests
    BY Disjoint DEF Remove, Inv, Statuses, RemovalsFit, RowsFit
  <2>2. row[r] \in Rows /\ (req[r] \in Cleaning => row[r] # "pending")
    BY <2>1, Functions DEF Inv, Statuses, RowsFit, Cleaning
  <2>3. req[r] \in Cleaning => Phase[r] = "over"
    BY <2>2, Phases DEF Phase, Cleaning, Final
  <2> QED BY <2>1, <2>3 DEF Removers, Killed
<1>5. CASE UNCHANGED files
  <2>1. Held' = Held
    BY <1>1, <1>5, HeldSame DEF files
  <2> QED BY <1>2, <2>1 DEF stagedVars
<1>6. CASE bin' = [bin EXCEPT ![owns[r]] = Absent] \/ meta' = [meta EXCEPT ![owns[r]] = Absent]
  <2>1. bin'[owns[r]] = Absent \/ meta'[owns[r]] = Absent
    BY <1>1, <1>6, Functions DEF Inv
  <2>2. \A u \in Uploads : u = owns[r] => BytesOf(u)' = "gone"
    BY <1>1, <1>3, <2>1, FileTypes DEF BytesOf, Readable
  <2>3. \A u \in Uploads : u # owns[r] => BytesOf(u)' = BytesOf(u)
    BY <1>1 DEF BytesOf, Readable
  <2>4. Held' = [Held EXCEPT ![owns[r]] = "gone"]
    BY <1>1, <2>2, <2>3 DEF Held
  <2>5. Staged!Remove(r)
    BY <1>1, <1>2, <1>3, <1>4, <2>4 DEF Staged!Remove
  <2> QED BY <2>5 DEF Staged!Next
<1> QED BY <1>5, <1>6 DEF Remove

\* A crash ends what was begun or allowed.
LEMMA StagedCrash ==
  ASSUME Inv, Crash
  PROVE  Staged!Crash
<1>0. /\ req \in [Requests -> Steps] /\ row \in [Requests -> Rows]
      /\ owns \in [Claimers -> Uploads \cup {None}]
      /\ stage \in [Uploads -> {"new", "data", "staged", "failed"}]
      /\ Claimers \subseteq Requests /\ None \notin Claimers
  BY Functions, Disjoint DEF Inv
<1>1. /\ \A r \in Claimers : lock' # r /\ owns'[r] = IF lock = r THEN None ELSE owns[r]
      /\ UNCHANGED <<bin, meta, swept, killed, target>>
  BY <1>0 DEF Crash, Dies, files
<1>2. Serves' = Serves /\ Expired' = Expired /\ Killed' = Killed
  BY <1>1 DEF Serves, Expired, Killed
<1>3. \A u \in Uploads : BytesOf(u)' = BytesOf(u)
  BY <1>0, <1>1 DEF Crash, Dies, BytesOf, Readable
<1>4. Held' = Held
  BY <1>3 DEF Held
<1> DEFINE lost == {r \in Claimers : Phase'[r] = "over"}
<1>5. ASSUME NEW r \in Claimers
      PROVE  /\ Phase[r] \in {"allowed", "running", "using"} => Phase'[r] = "over"
             /\ Phase'[r] \in {Phase[r], "over"}
  <2>1. r \in Requests /\ req[r] \in Steps /\ row[r] \in Rows
    BY <1>0
  <2>2. Phase[r] = PhaseOf(req[r], row[r]) /\ Phase'[r] = PhaseOf(req'[r], row'[r])
    BY DEF Phase
  <2>3. req'[r] = Reloaded(r) /\ row'[r] = IF row[r] = "running" THEN "over" ELSE row[r]
    BY <2>1 DEF Crash, Dies
  <2>4. row[r] = "pending" => req[r] \in {"pending", "KILLED"}
    BY <2>1 DEF Inv, Statuses, RowsFit
  <2>5. req[r] = "pending" => row[r] = "pending"
    BY <2>1 DEF Inv, Statuses, RowsFit
  <2>6. req[r] \in Unstored => row[r] = "none"
    BY <2>1 DEF Inv, Statuses, RowsFit
  <2>7. CASE row[r] = "pending"
    BY <2>2, <2>3, <2>4, <2>7 DEF PhaseOf, Reloaded
  <2>8. CASE row[r] # "pending"
    <3>1. row'[r] # "pending" /\ (req'[r] \in {"stranded", "lost"} \/
            (req'[r] = req[r] /\ req[r] \in {"new"} \cup Final))
      BY <2>1, <2>3, <2>8 DEF Reloaded
    <3>2. CASE req'[r] \in {"stranded", "lost"}
      BY <2>2, <3>1, <3>2 DEF PhaseOf
    <3>3. CASE req'[r] = req[r] /\ req[r] \in {"new"} \cup Final
      BY <2>2, <2>8, <3>1, <3>3 DEF PhaseOf, Final
    <3> QED BY <3>1, <3>2, <3>3
  <2> QED BY <2>7, <2>8
<1>6. /\ lost \in SUBSET Claimers
      /\ \A r \in Claimers : Phase[r] \in {"allowed", "running", "using"} => r \in lost
  BY <1>5
<1>7. Phase' = [r \in Claimers |-> IF r \in lost THEN "over" ELSE Phase[r]]
  <2>1. Phase' = [r \in Claimers |-> Phase'[r]]
    BY DEF Phase
  <2>2. \A r \in Claimers : Phase'[r] = IF r \in lost THEN "over" ELSE Phase[r]
    BY <1>5
  <2> QED BY <2>1, <2>2
<1> HIDE DEF lost
<1> QED BY <1>1, <1>2, <1>4, <1>6, <1>7 DEF Staged!Crash

\* The command of a client, and the cleanup of what it fetches.
LEMMA StagedClients ==
  ASSUME Inv, NEW r \in DownloadRequests,
         Download(r) \/ SweepArtifact(r) \/ \E force \in BOOLEAN : Begin(r, force)
  PROVE  Staged!Next \/ UNCHANGED stagedVars
<1>0. r \in Requests /\ r \notin Claimers /\ Claimers \subseteq Requests
  BY Disjoint
<1>1. /\ UNCHANGED <<stage, bin, meta, lock, row, owns, killed, target>>
      /\ req' = req \/ Step(r, "prepared")
  BY ClientFrame, BeginFrame
<1>2. \A q \in Claimers : req'[q] = req[q]
  BY <1>0, <1>1, Functions DEF Step, Inv
<1>3. Held' = Held /\ Serves' = Serves /\ Phase' = Phase /\ Killed' = Killed
  BY <1>1, <1>2, HeldSame DEF Serves, Phase, Killed
<1>4. CASE UNCHANGED swept
  BY <1>1, <1>3, <1>4 DEF stagedVars, Expired
<1>5. CASE SweepArtifact(r)
  <2>1. Expired' = Expired \/ (r \in Uploads /\ Expired' = Expired \cup {r})
    BY <1>5 DEF SweepArtifact, Expired
  <2>2. CASE r \in Uploads /\ Expired' = Expired \cup {r}
    BY <1>1, <1>3, <2>2 DEF Staged!Next, Staged!Expire
  <2> QED BY <1>1, <1>3, <2>1, <2>2 DEF stagedVars
<1> QED BY <1>4, <1>5
  DEF Download, ServeMeta, ServeData, Place, MakeLocal, Begin, server

\* Every step of the server and of its clients is a step of StagedUploads or
\* none.
LEMMA StagedStep ==
  ASSUME Inv, [Next]_vars
  PROVE  Staged!Next \/ UNCHANGED stagedVars
<1>1. CASE GrowOld
  BY <1>1, GrowOldEffect, HeldSame DEF Inv, stagedVars, Expired, Serves, Phase, Killed
<1>2. CASE UNCHANGED vars
  BY <1>2, HeldSame
  DEF vars, server, up, files, status, kills, stagedVars, Expired, Serves, Phase, Killed
<1>3. CASE Crash
  BY <1>3, StagedCrash DEF Staged!Next
<1>4. ASSUME NEW r \in Requests, Insert(r) \/ Decide(r) \/ Kill(r) \/ Execute(r)
      PROVE  Staged!Next \/ UNCHANGED stagedVars
  BY <1>4, StagedDecide, StagedKill, StagedExecute, StagedOthers
<1> QED BY <1>1, <1>2, <1>3, <1>4, StagedFiles, StagedClaim, StagedAsk, StagedRemove, StagedClients
    DEF Next, Submit

\* The server keeps its promise about staged bytes: they serve one request, are
\* used once, whole and after its approval, and stay until it is over or killed,
\* whatever claims, kills, removals, crashes and the cleanup interleave.
THEOREM ImplementsStagedUploads == Spec => UploadSpec
<1>1. Inv /\ [Next]_vars => [Staged!Next]_stagedVars
  BY StagedStep
<1> QED BY StagedInit, <1>1, TransfersInvariant, PTL
    DEF Spec, UploadSpec, Staged!Spec, stagedVars
=============================================================================
