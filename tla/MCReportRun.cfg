SPECIFICATION Spec
CONSTANTS
  a = a
  b = b
  c = c
  d = d
  r = r
  s = s
  i = i
  j = j
  Calls <- MCCalls
  Reports <- MCReports
  Isolates <- MCIsolates
  ReportOf <- MCReportOf
  IsolateOf <- MCIsolateOf
  IdentityWindow = 2
  MaxTracked = 1
  CacheTtl = 3
  RetryAfters = {1, 2}
  MaxLag = 1
  MaxTime = 5
SYMMETRY CallSymmetry
CONSTRAINT OtherReportInHealth
CHECK_DEADLOCK FALSE
INVARIANTS
  SameReportOncePerWindow
  AnswersNeverGoBack
  RepeatsDoNotBlockOthers
