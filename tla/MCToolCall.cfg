SPECIFICATION Spec
CONSTANTS
    STALE_THRESHOLD_HOURS = 48
    GOLD_STALE_THRESHOLD_HOURS = 26
    FUTURE_SKEW_TOLERANCE_HOURS = 1
    NoTime = NoTime
    Times <- MCTimes
    MAX_RETRIES = 2
INVARIANTS
    FreshIsEarned
    AbsenceIsEarned
    HolesAreNamed
    ReadersNeverWrite
    AnswerIsWhole
CHECK_DEADLOCK FALSE
