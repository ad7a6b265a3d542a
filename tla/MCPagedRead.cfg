SPECIFICATION Spec
CONSTANTS
  historical = historical
  recent = recent
  Historical = historical
  Recent = recent
  Reads <- MCReads
  Rows <- MCRows
  Lists <- MCLists
  CustomerOf <- MCCustomerOf
  PageSize = 1
  MaxPages = 2
  Retries = 1
  Unpaid = {1, 3}
  Needed = 2
  Categorised = {1, 2}
  NoRead = NoRead
  MaxEdits = 1
CHECK_DEADLOCK FALSE
INVARIANTS
  PartialListsSaySo
  CountsAreExact
  LapsedMeansUnserved
  UnpaidScanIsHonest
PROPERTIES
  EveryReadEnds
