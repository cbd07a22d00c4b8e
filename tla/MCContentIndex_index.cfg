\* One content, a publication and a request of a teacher that is a trigger or a reset,
\* one mishap.
SPECIFICATION FairSpec
CONSTANTS
    c1 = c1
    t1 = t1
    p1 = p1
    Content = {c1}
    Triggers = {t1}
    Publishers = {p1}
    Resets = {t1}
    MaxMishaps = 1
INVARIANTS
    TypeOK
    AckedIsFinished
    IndexedIsAccountedFor
PROPERTIES
    RetryOpens
    UploadsDrain
\* Every request is bounded: the system comes to rest.
CHECK_DEADLOCK FALSE
