\* Two nodes built over the leaves reach the limit of alternatives and pass it.
CONSTANTS
    a = a
    b = b
    MaxLen = 4
    Chars = {a, b}
    Texts <- MCTexts
    Literals <- MCLiterals
    MaxTriGroups = 2
    MaxNodes = 2
    MaxParts = 2
    NoConcat = NoConcat
    Drafts <- MCDrafts
    MaxTyped = 6
    MaxContextLines = 50
    LogLines <- MCLogLines
SPECIFICATION MCSpec
CHECK_DEADLOCK FALSE
INVARIANTS
    PlanSound
    GateSound
    ParsedAsWritten
    NothingTypedIsLost
    HalfTypedShowsAll
