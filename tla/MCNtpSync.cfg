CONSTANTS
    MillisWord = 8
    HourMillis = 2
    Hours = {0, 1, 4}
    Timeout = 2
    Poll = 1
    MaxPause = 1
    Life = 1
SPECIFICATION Spec
INVARIANTS
    TypeOK
    SyncingWhileQuerying
    FreshTime
PROPERTIES
    IntervalRespected
    SyncEnds
    AutoSyncRecurs
