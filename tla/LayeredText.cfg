SPECIFICATION ReopenSpec
CONSTANTS
  Path = {"p"}
  Place <- Places
  Word <- Words
  Session = {a}
  Batches <- Edits
  Contents <- Outside
  Created <- Outside
  Folds <- Outside
  Typed = {"u"}
  FirstText <- OneFile
  MaxOps = 3
  MaxFaults = 1
  MaxLost = 1
  MaxMishaps = 1
  MaxRestarts = 1
  None = None
INVARIANTS
  DiskIsAccepted
  QueueOnDisk
  OpsKept
  WorkingIsAcceptedPlusTyped
PROPERTIES
  TypingSurvives
  DependenciesFirst
CHECK_DEADLOCK FALSE
