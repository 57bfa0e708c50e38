\* Anchors the filter drops use up the result limit.
CONSTANTS
    Searches <- FilteredSearch
    PerFileCap = 2
    CheckEvery = 2
SPECIFICATION Spec
CHECK_DEADLOCK FALSE
INVARIANT
    CompleteUnlessReported
