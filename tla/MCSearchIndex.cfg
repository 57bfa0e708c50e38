\* Archives of up to five members, read and stored.  Lists of two files, a budget
\* that runs out and is handed back, a full blob.  Searches with windows, entries
\* on both paths, and a deadline between any two steps.
CONSTANTS
    Trigrams = {a, b}
    Members <- SmallMembers
    MaxMembers = 5
    MaxBlobBytes = 5
    MaxPostingsPerTrigram = 2
    MaxTotalPostings = 3
    Zips <- MCZips
    Tars <- MCTars
    MaxInflatedBytes = 32
    BlockBytes = 2
    MaxHeadBlocks = 3
    MaxConfigSize = 8
    MaxTries = 2
    Searches <- AllSearches
    PerFileCap = 2
    CheckEvery = 2
SPECIFICATION MCSpec
CHECK_DEADLOCK FALSE
INVARIANTS
    CandidatesSound
    CandidatesExact
    NothingSkipped
    BlobTiled
    ZipIsListed
    KindOfContents
    ConfigIsTopRanked
    SameAsFullScan
    ResultsAreHits
    NoOtherQuietLoss
