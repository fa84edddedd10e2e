SPECIFICATION VSpec
CONSTANTS
  Path = {"p", "q"}
  Place <- Places
  Word <- Words
  Session = {a}
  Batches <- OneEdit
  Contents <- NewFile
  Created <- NewFile
  Folds <- NewFile
  Typed = {"u"}
  FirstText <- FileAtP
  MaxOps = 1
  MaxFaults = 0
  MaxLost = 0
  MaxMishaps = 0
  MaxRestarts = 1
  MaxJobs = 2
  None = None
INVARIANTS
  FilesFollow
  QueuesFollow
PROPERTY
  KeepsReview
CHECK_DEADLOCK FALSE
