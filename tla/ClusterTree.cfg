SPECIFICATION Spec
CONSTANTS
  c1 = c1
  c2 = c2
  bucket = bucket
  l1 = l1
  l2 = l2
  h1 = h1
  h2 = h2
  Node = {bucket, c1, c2, l1, l2, h1, h2}
  Halves <- Halved
  FirstTrees <- Trees
  UserText = {"u"}
  ModelText = {"n"}
  MaxSpent = 3
  None = None
SYMMETRY Notes
INVARIANTS
  NotesHang
  StackInStep
  UserTextStands
CHECK_DEADLOCK FALSE
