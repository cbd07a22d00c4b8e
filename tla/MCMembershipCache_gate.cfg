SPECIFICATION FairSpec
CONSTANTS
    None = None
    r1 = r1
    r2 = r2
    a = a
    w1 = w1
    w2 = w2
    Requests = {r1, r2}
    Loaders = {a}
    LoaderOf <- MCLoaderOf
    Writers = {w1, w2}
    Failures = TRUE
    RowBound = 2
INVARIANTS
    TypeOK
    StaleOnlyByRace
PROPERTIES
    EventuallyFresh
    GateSpec
