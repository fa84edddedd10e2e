SPECIFICATION Spec
CONSTANTS
  TaskId = {a, b, m}
  Managed = {m}
  Tasks <- MCTasks
  Kind = {"mutation"}
  Stamp = {1, 2}
  Worker = {w}
  LeaseSecs = {1}
  SelfLease = 2
  Grace <- MCGrace
  Retention = 1
  Configs <- MCConfigs
  None = None
INVARIANTS
  RowsConsistent
  NobodyLeftWaiting
  SelfManagedStaysPut
  LiveLeaseNotStopped
PROPERTIES
  FirstOutcomeWins
  KeepsPromise
CHECK_DEADLOCK FALSE
