\* All logs of up to four lines, and of five lines that cut attempts.
CONSTANTS
    Traces <- AllTraces
    TeardownWithin = 2
    NoAttempt = NoAttempt
    Logs <- MCLogs
    Bounds <- MCBounds
    LogSniffLines = 2
    ThisYear = 2024
    NoTime = NoTime
    Collections <- MCCollections
    Names <- MCNames
    Feeds <- MCFeeds
    MaxFed = 5
SPECIFICATION MCSpec
CHECK_DEADLOCK FALSE
INVARIANTS
    PreloginsReported
    OutcomeIsOwn
    BestReasonWins
    FiltersAlike
    YearsAreStated
    AuthenticationsAsLogged
    NewestRoundPerPortal
    PortalsKeepTheirOwn
