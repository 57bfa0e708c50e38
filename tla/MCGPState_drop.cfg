\* A session that connected and dropped before the next attempt.
CONSTANTS
    Traces <- DroppedThenRetried
    TeardownWithin = 2
    NoAttempt = NoAttempt
    Logs <- NoLogs
    Bounds <- MCBounds
    LogSniffLines = 2
    ThisYear = 2024
    NoTime = NoTime
    Collections <- NoLogs
    Names <- MCNames
    Feeds <- NoFeeds
    MaxFed = 5
SPECIFICATION MCSpec
CHECK_DEADLOCK FALSE
INVARIANT
    DropIsMarked
