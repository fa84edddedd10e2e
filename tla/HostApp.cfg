SPECIFICATION AppLoops
CONSTANTS
  TaskId = {a, b, m}
  Managed = {m}
  Tasks <- MixedRows
  Kind = {"mutation"}
  Stamp = {1, 2}
  Worker = {w}
  Client = {c}
  LeaseSecs = {1}
  DefaultLease = 1
  SelfLease = 1
  Grace <- MCGrace
  Retention = 1
  Configs <- AutoOn
  MaxCrashes = 1
  None = None
INVARIANTS
  LeaseHasWorker
  OneRunner
  HolderSettles
PROPERTIES
  CancelFreesWorker
  DirectTasksSettle
CHECK_DEADLOCK FALSE
