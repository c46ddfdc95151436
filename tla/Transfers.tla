----------------------------- MODULE Transfers -----------------------------
(***************************************************************************)
(* File transfers (httpapi/transfers.go, executor/transfers.go and the     *)
(* client in cli/file.go).  Bytes travel outside the requests: a client    *)
(* stages an upload, which is a data file and a metadata file beside it,   *)
(* and then asks for a request that claims it, as stdin of a command or to *)
(* be installed at a path.  A download is copied into two such files when  *)
(* its request is executed, and fetched afterwards.                        *)
(*                                                                         *)
(* Requests pass through the steps of RequestLifecycle, here only as far   *)
(* as files depend on them.  Every stage call and every download starts by *)
(* removing files older than 24 hours, so that this may happen at any      *)
(* time, to each file by itself and without any lock.                      *)
(*                                                                         *)
(* Bytes are named by the upload that brought them.  All uploads are       *)
(* installed at one path, which is also the path of the downloads and may  *)
(* have held older bytes before.                                           *)
(***************************************************************************)

CONSTANTS
  Uploads,
  StdinRequests, UploadRequests, DownloadRequests,
  None

Requests == StdinRequests \cup UploadRequests \cup DownloadRequests
Claimers == StdinRequests \cup UploadRequests

ASSUME ConstantsAssumption ==
  /\ UploadRequests \cap StdinRequests = {}
  /\ DownloadRequests \cap Claimers = {}
  /\ None \notin Uploads \cup Requests
  /\ {"theirs", "older"} \cap (Uploads \cup {None}) = {}

VARIABLES
  stage,    \* progress of the call that stages each upload
  bin,      \* upload-ID.bin
  meta,     \* upload-ID.json
  doomed,   \* metadata files that the cleanup found old and has yet to remove
  lock,     \* transferMu: the request whose claim holds it
  req,      \* progress of each request
  row,      \* the stored status of each request
  owns,     \* the upload that each request claimed
  kill,     \* the kill call that works on each request
  removing, \* staged files that are about to be removed, for whom and by whom
  target,   \* the bytes at the path on the server
  artifact, \* download-ID.bin and download-ID.json
  known,    \* finished downloads that are still in memory
  client,   \* the download command of each client
  local,    \* the file that it downloads to
  swept,    \* history: uploads and downloads of which the cleanup took a file
  killed,   \* history: requests that a kill marked
  spared    \* history: requests whose files a removal left there, and why

up == <<stage, doomed, lock>>
files == <<bin, meta>>
status == <<req, row, known>>
kills == <<kill, killed>>
peer == <<client, local>>
server == <<up, files, status, kills, owns, removing, target, artifact, swept, spared>>
vars == <<server, peer>>

Absent == [there |-> FALSE]
File == [there : {TRUE}, old : BOOLEAN]
NewFile == [there |-> TRUE, old |-> FALSE]
MetaFile == [there : {TRUE}, old : BOOLEAN, claimed : BOOLEAN]
NewMeta(claimed) == [there |-> TRUE, old |-> FALSE, claimed |-> claimed]

NoArtifact == [bytes |-> None, data |-> Absent, meta |-> Absent]
Final == {"REFUSED", "DENIED", "KILLED", "SUCCEEDED", "FAILED"}

Init ==
  /\ stage = [u \in Uploads |-> "new"]
  /\ bin = [u \in Uploads |-> Absent]
  /\ meta = [u \in Uploads |-> Absent]
  /\ doomed = {}
  /\ lock = None
  /\ req = [r \in Requests |-> "new"]
  /\ row = [r \in Requests |-> "none"]
  /\ owns = [r \in Claimers |-> None]
  /\ kill = [r \in Requests |-> "none"]
  /\ removing = {}
  /\ target \in {None, "older"}
  /\ artifact = [r \in DownloadRequests |-> NoArtifact]
  /\ known = {}
  /\ client = [r \in DownloadRequests |->
                 [step |-> "new", force |-> FALSE, bytes |-> None]]
  /\ local = [r \in DownloadRequests |-> None]
  /\ swept = {}
  /\ killed = {}
  /\ spared = {}

Step(r, s) == req' = [req EXCEPT ![r] = s]
Stored(r, s) == row' = [row EXCEPT ![r] = s]
\* The status of a request is written, or SQLite refuses it.
Stores(r, s) == Stored(r, s) \/ UNCHANGED row
\* The client of a download learns of its end from memory.
Tells(r) == known' = known \cup ({r} \cap DownloadRequests)

-----------------------------------------------------------------------------
(***************************************************************************)
(* Staging and the cleanup of old files.                                   *)
(***************************************************************************)
\* handleUploadStage puts the data in place ...
StageData(u) ==
  /\ stage[u] = "new"
  /\ stage' = [stage EXCEPT ![u] = "data"]
  /\ bin' = [bin EXCEPT ![u] = NewFile]
  /\ UNCHANGED <<meta, doomed, lock, status, kills, owns, removing, target, artifact>>
  /\ UNCHANGED <<peer, swept, spared>>

\* ... and then the metadata, or else takes the data away.
StageMeta(u) ==
  /\ stage[u] = "data"
  /\ \/ /\ stage' = [stage EXCEPT ![u] = "staged"]
        /\ meta' = [meta EXCEPT ![u] = NewMeta(FALSE)]
        /\ UNCHANGED bin
     \/ /\ stage' = [stage EXCEPT ![u] = "failed"]
        /\ bin' \in {bin, [bin EXCEPT ![u] = Absent]}
        /\ UNCHANGED meta
  /\ UNCHANGED <<doomed, lock, status, kills, owns, removing, target, artifact>>
  /\ UNCHANGED <<peer, swept, spared>>

Grows(f) == f.there /\ ~f.old

\* A file becomes older than 24 hours, the data before the metadata, which was
\* written after it and is written again when the upload is claimed.
GrowOld ==
  /\ \/ \E u \in Uploads :
          \/ /\ Grows(bin[u])
             /\ bin' = [bin EXCEPT ![u].old = TRUE] /\ UNCHANGED <<meta, artifact>>
          \/ /\ Grows(meta[u]) /\ ~Grows(bin[u])
             /\ meta' = [meta EXCEPT ![u].old = TRUE] /\ UNCHANGED <<bin, artifact>>
     \/ \E r \in DownloadRequests :
          /\ \/ /\ Grows(artifact[r].data)
                /\ artifact' = [artifact EXCEPT ![r].data.old = TRUE]
             \/ /\ Grows(artifact[r].meta) /\ ~Grows(artifact[r].data)
                /\ artifact' = [artifact EXCEPT ![r].meta.old = TRUE]
          /\ UNCHANGED files
  /\ UNCHANGED <<up, peer, status, kills, owns, removing, target, swept, spared>>

\* cleanupExpiredTransfers on a data file, which nothing writes twice.
SweepData(u) ==
  /\ bin[u].there /\ bin[u].old
  /\ bin' = [bin EXCEPT ![u] = Absent]
  /\ swept' = swept \cup {u}
  /\ UNCHANGED <<up, peer, meta, status, kills, owns, removing, target, artifact, spared>>

\* A metadata file may be written again after the cleanup looked at its age.
SweepLook(u) ==
  /\ meta[u].there /\ meta[u].old
  /\ doomed' = doomed \cup {u}
  /\ UNCHANGED <<files, stage, lock, status, kills, owns, removing, target, artifact>>
  /\ UNCHANGED <<peer, swept, spared>>

SweepMeta(u) ==
  /\ u \in doomed
  /\ doomed' = doomed \ {u}
  /\ meta' = [meta EXCEPT ![u] = Absent]
  /\ swept' = swept \cup {u}
  /\ UNCHANGED <<stage, bin, lock, status, kills, owns, removing, target, artifact>>
  /\ UNCHANGED <<peer, spared>>

SweepArtifact(r) ==
  /\ \/ /\ artifact[r].data.there /\ artifact[r].data.old
        /\ artifact' = [artifact EXCEPT ![r].data = Absent]
     \/ /\ artifact[r].meta.there /\ artifact[r].meta.old
        /\ artifact' = [artifact EXCEPT ![r].meta = Absent]
  /\ swept' = swept \cup {r}
  /\ UNCHANGED <<up, files, peer, status, kills, owns, removing, target, spared>>

-----------------------------------------------------------------------------
(***************************************************************************)
(* Removing the two files of an upload.  The denial and the execution of a *)
(* request do it themselves, and so does a kill, at the same time maybe.   *)
(***************************************************************************)
Files == {"data", "meta"}
Removers == {"own", "kill"}

\* cleanupUploadForOp of a request that claimed an upload starts ...
CleanUp(r, by) ==
  removing' = removing \cup (({r} \cap Claimers) \X {by} \X {"data"})

Cleans(r, by) == \E f \in Files : <<r, by, f>> \in removing

\* ... removes the data, and then the metadata.  Errors are discarded.
Remove(r, by, f) ==
  /\ <<r, by, f>> \in removing
  /\ removing' = (removing \ {<<r, by, f>>})
                   \cup (IF f = "data" THEN {<<r, by, "meta">>} ELSE {})
  /\ \/ /\ f = "data" /\ bin' = [bin EXCEPT ![owns[r]] = Absent]
        /\ UNCHANGED <<meta, spared>>
     \/ /\ f = "meta" /\ meta' = [meta EXCEPT ![owns[r]] = Absent]
        /\ UNCHANGED <<bin, spared>>
     \/ /\ spared' = spared \cup {<<r, "error">>}
        /\ UNCHANGED files
  /\ UNCHANGED <<up, peer, status, kills, owns, target, artifact, swept>>

-----------------------------------------------------------------------------
(***************************************************************************)
(* Submission: prepareTransferOp claims the upload, handleRequests inserts *)
(* the request.                                                            *)
(***************************************************************************)
\* A client asks for a request with an upload that it was told is staged.
Offered(u) == stage[u] = "staged"

Claimable(u) == meta[u].there /\ ~meta[u].claimed

\* Mutant: the mark of an earlier claim is not looked at.
ClaimTwice(r, u) ==
  /\ req[r] = "new" /\ lock = None /\ Offered(u)
  /\ IF meta[u].there
     THEN /\ lock' = r
          /\ owns' = [owns EXCEPT ![r] = u]
          /\ Step(r, "claiming")
     ELSE Step(r, "REFUSED") /\ UNCHANGED <<lock, owns>>
  /\ UNCHANGED <<files, peer, stage, doomed, row, known, kills, removing, target>>
  /\ UNCHANGED <<artifact, swept, spared>>

\* Mutant: a claim that is refused removes the upload.
ClaimRefusedCleansUp(r, u) ==
  /\ req[r] = "new" /\ lock = None /\ Offered(u)
  /\ IF Claimable(u)
     THEN /\ lock' = r
          /\ owns' = [owns EXCEPT ![r] = u]
          /\ Step(r, "claiming")
          /\ UNCHANGED files
     ELSE /\ Step(r, "REFUSED")
          /\ bin' = [bin EXCEPT ![u] = Absent]
          /\ meta' = [meta EXCEPT ![u] = Absent]
          /\ UNCHANGED <<lock, owns>>
  /\ UNCHANGED <<peer, stage, doomed, row, known, kills, removing, target>>
  /\ UNCHANGED <<artifact, swept, spared>>

\* claimStagedUpload reads the metadata under transferMu ...
Claim(r, u) ==
  /\ req[r] = "new" /\ lock = None /\ Offered(u)
  /\ IF Claimable(u)
     THEN /\ lock' = r
          /\ owns' = [owns EXCEPT ![r] = u]
          /\ Step(r, "claiming")
     ELSE Step(r, "REFUSED") /\ UNCHANGED <<lock, owns>>
  /\ UNCHANGED <<files, peer, stage, doomed, row, known, kills, removing, target>>
  /\ UNCHANGED <<artifact, swept, spared>>

\* ... and writes it, whether or not it is still there.
ClaimWrite(r) ==
  /\ lock = r
  /\ lock' = None
  /\ \/ /\ meta' = [meta EXCEPT ![owns[r]] = NewMeta(TRUE)]
        /\ Step(r, "prepared")
        /\ UNCHANGED owns
     \/ /\ Step(r, "REFUSED")
        /\ owns' = [owns EXCEPT ![r] = None]
        /\ UNCHANGED meta
  /\ UNCHANGED <<peer, stage, bin, doomed, row, known, kills, removing, target>>
  /\ UNCHANGED <<artifact, swept, spared>>

\* The request is stored and pending, or SQLite refuses it.
Insert(r) ==
  /\ req[r] = "prepared"
  /\ \/ Step(r, "pending") /\ Stored(r, "pending") /\ UNCHANGED removing
     \/ Step(r, "REFUSED") /\ CleanUp(r, "own") /\ UNCHANGED row
  /\ UNCHANGED <<up, files, peer, known, kills, owns, target, artifact, swept, spared>>

\* Mutant: a denied request leaves its upload where it is.
DecideLeavesFiles(r) ==
  /\ req[r] = "pending"
  /\ \/ Step(r, "approved") /\ Stored(r, "approved") /\ UNCHANGED known
     \/ Step(r, "DENIED") /\ Stored(r, "over") /\ Tells(r)
  /\ UNCHANGED <<up, files, peer, kills, owns, removing, target, artifact, swept, spared>>

\* decideInternal commits the decision; it removes what was denied afterwards.
Decide(r) ==
  /\ req[r] = "pending"
  /\ \/ Step(r, "approved") /\ Stored(r, "approved") /\ UNCHANGED <<known, removing>>
     \/ Step(r, "DENIED") /\ Stored(r, "over") /\ Tells(r) /\ CleanUp(r, "own")
  /\ UNCHANGED <<up, files, peer, kills, owns, target, artifact, swept, spared>>

Idle == {"pending", "approved", "stranded"}

\* killInternal finds the request not yet running ...
KillLooks(r) ==
  /\ kill[r] = "none" /\ req[r] \in Idle
  /\ kill' = [kill EXCEPT ![r] = "looked"]
  /\ UNCHANGED <<up, files, peer, status, owns, removing, target, artifact, swept>>
  /\ UNCHANGED <<killed, spared>>

\* ... marks it and goes on to remove its files, although it may be running by
\* now.  An approved request runs in spite of the mark if it is CANCELED, or if
\* executeApprovedRequest looked at it before.
KillMarks(r) ==
  /\ kill[r] = "looked"
  /\ kill' = [kill EXCEPT ![r] = "marked"]
  /\ killed' = killed \cup {r}
  /\ CleanUp(r, "kill")
  /\ \/ req[r] \in Idle /\ Step(r, "KILLED") /\ Tells(r)
     \/ req[r] \notin {"pending", "stranded"} /\ UNCHANGED <<req, known>>
  /\ UNCHANGED <<up, files, peer, row, owns, target, artifact, swept, spared>>

\* Last it stores the status, unless SQLite refuses it or the execution stores
\* its own after it.
KillSaves(r) ==
  /\ kill[r] = "marked" /\ ~Cleans(r, "kill")
  /\ kill' = [kill EXCEPT ![r] = "none"]
  /\ Stores(r, "over")
  /\ UNCHANGED <<up, files, peer, req, known, owns, removing, target, artifact, swept>>
  /\ UNCHANGED <<killed, spared>>

-----------------------------------------------------------------------------
(***************************************************************************)
(* Execution.  A file that was opened stays readable when it is removed.   *)
(***************************************************************************)
\* executeApprovedRequest marks the request RUNNING, in memory and in its row.
Start(r) ==
  /\ req[r] = "approved"
  /\ Step(r, "running") /\ Stores(r, "running")
  /\ UNCHANGED <<up, files, peer, known, kills, owns, removing, target, artifact>>
  /\ UNCHANGED <<swept, spared>>

Readable(u) == meta[u].there /\ bin[u].there

\* openStagedCommandInput: without its bytes the command is not run.
OpenStdin(r) ==
  /\ r \in StdinRequests /\ req[r] = "running"
  /\ \/ Readable(owns[r]) /\ Step(r, "open") /\ UNCHANGED removing
     \/ Step(r, "failing") /\ CleanUp(r, "own")
  /\ UNCHANGED <<up, files, peer, row, known, kills, owns, target, artifact, swept, spared>>

\* The command ends, in whatever way, and its stdin is to be removed.
RunEnds(r) ==
  /\ r \in StdinRequests /\ req[r] = "open"
  /\ \E s \in {"succeeding", "failing"} : Step(r, s)
  /\ CleanUp(r, "own")
  /\ UNCHANGED <<up, files, peer, row, known, kills, owns, target, artifact, swept, spared>>

\* executeFileUpload opens the staged data ...
OpenUpload(r) ==
  /\ r \in UploadRequests /\ req[r] = "running"
  /\ \/ Readable(owns[r]) /\ Step(r, "open")
     \/ Step(r, "failing")
  /\ UNCHANGED <<up, files, peer, row, known, kills, owns, removing, target, artifact>>
  /\ UNCHANGED <<swept, spared>>

\* ... and UploadFile renames a verified copy of it to the path.  The staged
\* files go then.  What could not be installed stays where it is, and no request
\* can claim it again.
Install(r) ==
  /\ r \in UploadRequests /\ req[r] = "open"
  /\ \/ target' = owns[r] /\ Step(r, "succeeding") /\ CleanUp(r, "own")
     \/ Step(r, "failing") /\ UNCHANGED <<target, removing>>
  /\ UNCHANGED <<up, files, peer, row, known, kills, owns, artifact, swept, spared>>

\* DownloadFile copies the file that it opened, whatever is renamed over it.
Snapshot(r) ==
  /\ r \in DownloadRequests /\ req[r] = "running"
  /\ \/ /\ target # None
        /\ artifact' = [artifact EXCEPT ![r].bytes = target]
        /\ Step(r, "open")
     \/ Step(r, "failing") /\ UNCHANGED artifact
  /\ UNCHANGED <<up, files, peer, row, known, kills, owns, removing, target, swept, spared>>

SaveData(r) ==
  /\ r \in DownloadRequests /\ req[r] = "open"
  /\ \/ artifact' = [artifact EXCEPT ![r].data = NewFile] /\ Step(r, "saved")
     \/ Step(r, "failing") /\ UNCHANGED artifact
  /\ UNCHANGED <<up, files, peer, row, known, kills, owns, removing, target, swept, spared>>

\* Mutant: an error of the metadata does not fail the request.
SaveMetaGoesOn(r) ==
  /\ r \in DownloadRequests /\ req[r] = "saved"
  /\ artifact' \in {[artifact EXCEPT ![r].meta = NewFile], artifact}
  /\ Step(r, "succeeding")
  /\ UNCHANGED <<up, files, peer, row, known, kills, owns, removing, target, swept, spared>>

\* executeFileDownload: no metadata, no download.  The removal of the data may
\* fail.
SaveMeta(r) ==
  /\ r \in DownloadRequests /\ req[r] = "saved"
  /\ \/ /\ artifact' = [artifact EXCEPT ![r].meta = NewFile]
        /\ Step(r, "succeeding")
     \/ /\ artifact' \in {artifact, [artifact EXCEPT ![r].data = Absent]}
        /\ Step(r, "failing")
  /\ UNCHANGED <<up, files, peer, row, known, kills, owns, removing, target, swept, spared>>

\* The outcome is stored and published, after the execution has cleaned up.
End(r) ==
  /\ req[r] \in {"succeeding", "failing"} /\ ~Cleans(r, "own")
  /\ Step(r, IF req[r] = "succeeding" THEN "SUCCEEDED" ELSE "FAILED")
  /\ Stores(r, "over") /\ Tells(r)
  /\ UNCHANGED <<up, files, peer, kills, owns, removing, target, artifact, swept, spared>>

-----------------------------------------------------------------------------
\* The requests that RehydrateFromStore loads: one that has not been decided is
\* pending again, whatever became of it in memory, and one that was approved is
\* there but nobody executes it.  What was being executed counts as failed, and
\* of what had ended the server knows nothing more.
Reloaded(r) ==
  CASE row[r] = "pending" -> "pending"
    [] row[r] = "approved" -> "stranded"
    [] row[r] \in {"none", "over"} /\ req[r] \in {"new"} \cup Final -> req[r]
    [] OTHER -> "lost"

Dies ==
  /\ stage' = [u \in Uploads |-> IF stage[u] = "data" THEN "failed" ELSE stage[u]]
  /\ doomed' = {} /\ removing' = {} /\ known' = {}
  /\ lock' = None
  /\ kill' = [r \in Requests |-> "none"]
  /\ row' = [r \in Requests |-> IF row[r] = "running" THEN "over" ELSE row[r]]
  /\ owns' = [r \in Claimers |-> IF lock = r THEN None ELSE owns[r]]
  /\ spared' = spared \cup
       ({r \in Claimers : \E by \in Removers : Cleans(r, by)} \X {"crash"})
  /\ UNCHANGED <<files, killed, target, artifact, peer, swept>>

\* Mutant: a request that was being executed is taken up again with those that
\* were not decided.
CrashStartsOver ==
  /\ Dies
  /\ req' = [r \in Requests |-> IF req[r] = "open" THEN "pending" ELSE Reloaded(r)]

\* The server dies at any point and comes back.
Crash ==
  /\ Dies
  /\ req' = [r \in Requests |-> Reloaded(r)]

-----------------------------------------------------------------------------
(***************************************************************************)
(* `racg file download'.                                                   *)
(***************************************************************************)
Client(r, s) == client' = [client EXCEPT ![r].step = s]

\* runDownload refuses to start if the destination is there, unless forced.
Begin(r, force) ==
  /\ client[r].step = "new"
  /\ IF local[r] # None /\ ~force
     THEN Client(r, "failed") /\ UNCHANGED req
     ELSE /\ client' = [client EXCEPT ![r].step = "waiting", ![r].force = force]
          /\ Step(r, "prepared")
  /\ UNCHANGED <<up, files, row, known, kills, owns, removing, target, artifact, local>>
  /\ UNCHANGED <<swept, spared>>

\* handleRequestFile reads the metadata of a download in memory that succeeded.
\* The client may also be told that there is none, or give up.
ServeMeta(r) ==
  /\ client[r].step = "waiting"
  /\ \/ /\ req[r] = "SUCCEEDED" /\ r \in known /\ artifact[r].meta.there
        /\ Client(r, "header")
     \/ Client(r, "failed")
  /\ UNCHANGED <<server, local>>

\* Then it streams the data, which may be gone by now; the client takes them
\* if their hash is the one that the header announced.
ServeData(r) ==
  /\ client[r].step = "header"
  /\ \/ /\ artifact[r].data.there
        /\ client' = [client EXCEPT ![r].step = "received",
                                    ![r].bytes = artifact[r].bytes]
     \/ Client(r, "failed")
  /\ UNCHANGED <<server, local>>

\* Mutant: the file takes its place by a rename in either case.
PlaceReplaces(r) ==
  /\ client[r].step = "received"
  /\ local' = [local EXCEPT ![r] = client[r].bytes]
  /\ Client(r, "done")
  /\ UNCHANGED server

\* downloadRequestFile renames the complete file to its place if forced; else
\* it links it there, which fails if somebody made the file meanwhile.
Place(r) ==
  /\ client[r].step = "received"
  /\ IF local[r] = None \/ client[r].force
     THEN local' = [local EXCEPT ![r] = client[r].bytes] /\ Client(r, "done")
     ELSE UNCHANGED local /\ Client(r, "failed")
  /\ UNCHANGED server

\* Somebody else makes a file at the destination.
MakeLocal(r) ==
  /\ local[r] = None
  /\ local' = [local EXCEPT ![r] = "theirs"]
  /\ UNCHANGED <<server, client>>

Submit(r) == ClaimWrite(r) \/ Insert(r) \/ Decide(r)
Kill(r) == KillLooks(r) \/ KillMarks(r) \/ KillSaves(r)
Execute(r) ==
  \/ Start(r) \/ OpenStdin(r) \/ RunEnds(r) \/ OpenUpload(r) \/ Install(r)
  \/ Snapshot(r) \/ SaveData(r) \/ SaveMeta(r) \/ End(r)
Download(r) == ServeMeta(r) \/ ServeData(r) \/ Place(r) \/ MakeLocal(r)

Next ==
  \/ \E u \in Uploads :
       \/ StageData(u) \/ StageMeta(u) \/ SweepData(u) \/ SweepLook(u) \/ SweepMeta(u)
       \/ \E r \in Claimers : Claim(r, u)
  \/ \E r \in Requests : Submit(r) \/ Kill(r) \/ Execute(r)
  \/ \E r \in Claimers, by \in Removers, f \in Files : Remove(r, by, f)
  \/ \E r \in DownloadRequests :
       Download(r) \/ SweepArtifact(r) \/ \E force \in BOOLEAN : Begin(r, force)
  \/ GrowOld \/ Crash

Spec == Init /\ [][Next]_vars

-----------------------------------------------------------------------------
Steps == {"new", "claiming", "prepared", "pending", "approved", "running", "open", "saved",
          "succeeding", "failing", "stranded", "lost"} \cup Final
Rows == {"none", "pending", "approved", "running", "over"}
Contents == Uploads \cup {None, "older"}
Artifacts ==
  [bytes : Contents, data : {Absent} \cup File, meta : {Absent} \cup File]
ClientSteps == {"new", "waiting", "header", "received", "done", "failed"}
Clients == [step : ClientSteps, force : BOOLEAN, bytes : Contents]

\* The types of the variables; the lock is held by exactly the request that
\* claims.
TypeOK ==
  /\ stage \in [Uploads -> {"new", "data", "staged", "failed"}]
  /\ bin \in [Uploads -> {Absent} \cup File]
  /\ meta \in [Uploads -> {Absent} \cup MetaFile]
  /\ doomed \in SUBSET Uploads
  /\ lock \in Claimers \cup {None}
  /\ \A r \in Claimers : req[r] = "claiming" <=> lock = r
  /\ req \in [Requests -> Steps]
  /\ row \in [Requests -> Rows]
  /\ owns \in [Claimers -> Uploads \cup {None}]
  /\ kill \in [Requests -> {"none", "looked", "marked"}]
  /\ removing \in SUBSET (Claimers \X Removers \X Files)
  /\ target \in Contents
  /\ artifact \in [DownloadRequests -> Artifacts]
  /\ known \in SUBSET DownloadRequests
  /\ client \in [DownloadRequests -> Clients]
  /\ local \in [DownloadRequests -> Contents \cup {"theirs"}]
  /\ swept \in SUBSET (Uploads \cup DownloadRequests)
  /\ killed \in SUBSET Requests
  /\ spared \in SUBSET (Claimers \X {"error", "crash"})

\* Two requests never own one upload, although claims race with each other and
\* with the cleanup that removes the file in which the claim is kept: "already
\* claimed by another request" (transfers.go:297).
OneOwner ==
  \A r, s \in Claimers : owns[r] = owns[s] /\ owns[r] # None => r = s

\* The bytes of a request that waits for its decision or its slot are there:
\* no other request that is refused, denied, killed or finished takes them
\* away.  Only the cleanup does, when the request waits longer than a day, and
\* a kill, after which it may be waiting all the same.  (A stranded request
\* waits in vain.)
WaitingHasBytes ==
  \A r \in Claimers :
    req[r] \in {"prepared", "pending", "approved"} /\ owns[r] \notin swept /\ r \notin killed
      => Readable(owns[r])

Removed(u) == ~bin[u].there /\ ~meta[u].there

\* README:133: RACG "removes the staged copy after denial, cancellation, or
\* execution", whatever the kills, the claims and the cleanup did meanwhile,
\* unless the file system refused it or the server died before it was done.
\* An upload that could not be installed is kept.
StagedCopyRemoved ==
  \A r \in Claimers :
    /\ owns[r] # None
    /\ req[r] \in Final
    /\ \A by \in Removers : ~Cleans(r, by)
    /\ <<r, "error">> \notin spared /\ <<r, "crash">> \notin spared
    /\ ~(r \in UploadRequests /\ req[r] = "FAILED")
    => Removed(owns[r])

\* README:133 of the stdin of a command, without the exception for a crash:
\* the staged copy is removed "after denial, cancellation, or execution".
StdinCopyRemoved ==
  \A r \in StdinRequests :
    /\ owns[r] # None
    /\ req[r] \in Final \ {"REFUSED"}
    /\ \A by \in Removers : ~Cleans(r, by)
    /\ <<r, "error">> \notin spared
    => Removed(owns[r])

\* A download that succeeded can be fetched, until a day later.
DownloadReady ==
  \A r \in DownloadRequests :
    req[r] = "SUCCEEDED" /\ r \notin swept
      => artifact[r].data.there /\ artifact[r].meta.there

\* README:140: "Download refuses to replace a local file unless --force is
\* passed", even one that was made while the request was under way.
KeepsLocalFile ==
  [][\A r \in DownloadRequests :
       local[r] = "theirs" /\ ~client[r].force => local'[r] = "theirs"]_vars
=============================================================================
