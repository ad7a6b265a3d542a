SPECIFICATION GuardSpec
CONSTANTS
  Families = {pricebook}
  Identities = {}
  NoIdentity = NoIdentity
  Window = 2
  AggregateCap = 3
  FamilyCap = 2
  IdentityWindow = 2
  MaxTracked = 1
  MinPenalty = 2
  RetryAfters = {1}
  MaxTime = 99
  Callers = {a, b, c}
  FamilyOf <- SameFamily
  IdentityOf <- NoReports
  NoCaller = NoCaller
  MaxPaceWait = 3
  Jitters = {0}
  MaxPaceAttempts = 1
  MaxLag = 1
CHECK_DEADLOCK FALSE
INVARIANTS
  FanOutAbsorbed
PROPERTY EveryCallEnds
