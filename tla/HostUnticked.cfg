SPECIFICATION AppServes
CONSTANTS
  TaskId = {a}
  Managed = {}
  Tasks <- MixedRows
  Kind = {"mutation"}
  Stamp = {1, 2}
  Worker = {w}
  Client = {c, d}
  LeaseSecs = {1}
  DefaultLease = 1
  SelfLease = 1
  Grace <- MCGrace
  Retention = 1
  Configs <- AutoOn
  MaxCrashes = 1
  None = None
PROPERTIES
  ExpiredLeaseEnds
CHECK_DEADLOCK FALSE
