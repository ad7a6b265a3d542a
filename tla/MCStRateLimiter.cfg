SPECIFICATION Spec
CONSTANTS
  Families = {crm}
  Identities = {r1, r2}
  NoIdentity = NoIdentity
  Window = 2
  AggregateCap = 3
  FamilyCap = 2
  IdentityWindow = 3
  MaxTracked = 1
  MinPenalty = 1
  RetryAfters = {0, 3}
  MaxTime = 3
SYMMETRY ReportSymmetry
CONSTRAINT FewPenalties
INVARIANTS
  TypeOK
  SlidingBurst
  FamilySlidingBurst
  BackoffHonoured
  SameReportSpacing
