\* Progress: parsers that compete for the slot, and requests that compete for
\* cfgMu, whose holder may meet a config that does not parse or an archive that is
\* deleted under it.
CONSTANTS
    Ids = {f1, f2}
    Clients = {c1, c2}
    Tables = {"archive", "searchIdx", "gp", "sysinfo", "counters", "config", "logsigs", "anomalies", "memory", "appstats", "licenses"}
    Kinds <- MCKinds
    NoKind = NoKind
    Absent = Absent
    NoFile = NoFile
    Nobody = Nobody
    Bundles <- LiveBundles
SPECIFICATION LiveSpec
PROPERTIES
    EventuallySettled
    EveryRequestAnswered
