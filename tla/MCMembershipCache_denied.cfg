SPECIFICATION Spec
CONSTANTS
    None = None
    r1 = r1
    r2 = r2
    a = a
    w1 = w1
    w2 = w2
    Requests = {r1}
    Loaders = {a}
    LoaderOf <- MCLoaderOf
    Writers = {w1}
    Failures = FALSE
    RowBound = 1
INVARIANTS
    EnrolledIsNotDenied
