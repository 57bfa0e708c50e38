\* The deadline passes inside the last file.
CONSTANTS
    Searches <- ShortDeadline
    PerFileCap = 2
    CheckEvery = 2
SPECIFICATION Spec
CHECK_DEADLOCK FALSE
INVARIANT
    CompleteUnlessReported
