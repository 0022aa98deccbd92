SPECIFICATION Spec
CONSTANTS
  c1 = c1
  c2 = c2
  a = a
  pre = pre
  Sessions = {a, pre}
  Prewarm = {pre}
  Starts = {0, 1}
  Jobs = {j1, j2}
  NoJob = NoJob
  Calls = {c1, c2}
  Plans <- Pairs
  NoKey = NoKey
  Limits = {1, 2}
INVARIANTS
  TypeOK
  WorkspaceLifetime
  BoundNotStopped
  OneShareable
  OverLimitAttended
CHECK_DEADLOCK FALSE
