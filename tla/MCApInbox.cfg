SPECIFICATION Spec
CONSTANTS
    Docs = {1, 2, 3}
    Readings <- MCReadings
    PrintedBills <- MCBills
    PageSize = 1
    EnrichLimit = 2
    MAX_PAGES = 4
    MaxMoves = 3
    MaxCalls = 2
INVARIANTS
    ClearMeansNoTwin
    DuplicateIsAnotherDocument
    LinesPostedAsCharged
CHECK_DEADLOCK FALSE
