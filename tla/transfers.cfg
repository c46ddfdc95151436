CONSTANTS
  u1 = u1 s1 = s1 w1 = w1 w2 = w2 d1 = d1 None = None
  Uploads = {u1}
  StdinRequests = {s1}
  UploadRequests = {w1, w2}
  DownloadRequests = {d1}
SPECIFICATION Spec
CHECK_DEADLOCK FALSE
SYMMETRY Symmetry
CONSTRAINT OneDirection
INVARIANTS OneOwner WaitingHasBytes StagedCopyRemoved DownloadReady
PROPERTIES UploadSpec KeepsLocalFile
