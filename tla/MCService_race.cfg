\* One file and two concurrent requests, every archive.
CONSTANTS
    Ids = {f1}
    Clients = {c1, c2}
    Tables = {"archive", "searchIdx", "gp", "sysinfo", "counters", "config", "logsigs", "anomalies", "memory", "appstats", "licenses"}
    Kinds <- MCKinds
    NoKind = NoKind
    Absent = Absent
    NoFile = NoFile
    Nobody = Nobody
    Bundles <- AllBundles
SPECIFICATION Spec
SYMMETRY ClientSymmetry
INVARIANTS
    ListedHasArchive
    IndexHasBlob
    NoSpuriousError
    DeletedOnce
    NoUploadLeftovers
    Cascade
PROPERTY
    NoResurrection
