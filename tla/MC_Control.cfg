SPECIFICATION Spec
CONSTANTS
  speech1 = speech1
  file1 = file1
  Requests = {speech1, file1}
  Kind <- MCKind
  Chunks = 2
  MaxTokens = 2
  MaxSockets = 2
CHECK_DEADLOCK FALSE
INVARIANTS WaitersAreReachable DownloadsAreWhole
PROPERTIES KeepsPromise
