SPECIFICATION GateSpec
CONSTANTS
  x = x
  y = y
  ann = ann
  bob = bob
  note = note
  price = price
  Previews = {p1, p2}
  Confirms = {c1, c2}
  NoRequest = NoRequest
  Requests <- MCRequests
  Ttl <- MCTtl
  MaxTokenTtl = 2
  MaxTime = 3
SYMMETRY MCSymmetry
CHECK_DEADLOCK FALSE
INVARIANTS
  AtMostOneWrite
  WritesWhatWasPreviewed
PROPERTIES
  ClaimsAreFinal
  ImplementsPreviewedWrite
