SPECIFICATION Spec
CONSTANTS
  Plans <- MCPlans
  Ids <- MCIds
  Before <- MCBefore
  Attempts = 3
  CaughtUpBy = 3
  MaxOthers = 1
  OtherAmounts <- MCOther
  Absent = Absent
  Omitted = Omitted
CHECK_DEADLOCK FALSE
INVARIANTS
  VerifiedIsTrue
  LagIsNoAlarm
  FailuresNameWhatLanded
