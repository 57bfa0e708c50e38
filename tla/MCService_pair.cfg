\* Two files whose parsers compete, one request at a time.
CONSTANTS
    Ids = {f1, f2}
    Clients = {c1}
    Tables = {"archive", "searchIdx", "gp", "sysinfo", "counters", "config", "logsigs", "anomalies", "memory", "appstats", "licenses"}
    Kinds <- MCKinds
    NoKind = NoKind
    Absent = Absent
    NoFile = NoFile
    Nobody = Nobody
    Bundles <- PairBundles
SPECIFICATION Spec
INVARIANTS
    OneParseAtATime
    ConfigOfOwnFile
PROPERTY
    ImplementsRegistry
