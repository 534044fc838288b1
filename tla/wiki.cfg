SPECIFICATION FairSpec
CONSTANTS
    Paths <- McPaths
    KindOf <- McKindOf
    Calls = {"c1", "c2"}
    ReadOnly = {"c2"}
    Nobody = Nobody
    Core = Core
    Stale = Stale
    MaxVersions <- McMaxVersions
    MaxEdits = 2
    MaxStops = 1
INVARIANTS SearchIsCurrent CommittedIsKept NothingHeldAtRest
PROPERTIES CallsEnd
