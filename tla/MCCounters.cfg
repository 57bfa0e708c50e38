\* Up to five lines, of one log or three of two; and small systems.
CONSTANTS
    Alphabets <- MCAlphabets
    Archive <- MCArchive
    MaxLines = 5
    Systems <- MCSystems
    MaxSuspects = 2
SPECIFICATION MCSpec
CHECK_DEADLOCK FALSE
INVARIANTS
    SamplesDated
    SamplesInContext
    NamesFollowNesting
    NetstatFlushed
    BlameFollowsEvidence
