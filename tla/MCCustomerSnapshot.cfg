SPECIFICATION Spec
CONSTANTS
  Calls = {a, b, c}
  SnapshotTtl = 1
  MaxWait = 1
  PollInterval = 1
  LockTtl = 3
  FanoutTimeout = 2
  MaxLag = 1
  MaxEvictions = 1
  StartBy = 3
  MaxTime = 8
CHECK_DEADLOCK FALSE
INVARIANTS
  OneFlight
  AnswersAreRecent
PROPERTY EveryCallEnds
