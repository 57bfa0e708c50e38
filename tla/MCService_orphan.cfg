\* A DELETE races the parser: is the search blob deleted with its file?
CONSTANTS
    Ids = {f1}
    Clients = {c1}
    Tables = {"archive", "searchIdx", "gp", "sysinfo", "counters", "config", "logsigs", "anomalies", "memory", "appstats", "licenses"}
    Kinds <- MCKinds
    NoKind = NoKind
    Absent = Absent
    NoFile = NoFile
    Nobody = Nobody
    Bundles <- OneBundle
SPECIFICATION Spec
INVARIANT
    NoOrphanBlob
