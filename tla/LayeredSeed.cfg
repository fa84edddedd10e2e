SPECIFICATION AppRestartSpec
CONSTANTS
  Path = {"p"}
  Place <- Places
  Word <- Words
  Session = {a}
  Batches <- OneEdit
  Contents <- NoTexts
  Created <- NoTexts
  Folds <- NoTexts
  Typed = {}
  FirstText <- OneFile
  MaxOps = 1
  MaxFaults = 0
  MaxLost = 0
  MaxMishaps = 0
  MaxRestarts = 1
  None = None
INVARIANTS
  OpsKept
CHECK_DEADLOCK FALSE
