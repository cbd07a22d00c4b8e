\* One content, one request, no fault.
SPECIFICATION Spec
CONSTANTS
    c1 = c1
    t1 = t1
    Content = {c1}
    Triggers = {t1}
    Publishers = {}
    Resets = {}
    MaxMishaps = 0
INVARIANT IndexedIsSearchable
CHECK_DEADLOCK FALSE
