\* Three versions, one of them with errors, two validations and two
\* publications that may name the same version.
SPECIFICATION FairSpec
CONSTANTS
    v1 = v1
    v2 = v2
    v3 = v3
    p1 = p1
    p2 = p2
    q1 = q1
    q2 = q2
    None = None
    Version = {v1, v2, v3}
    Sound = {v1, v2}
    Publish = {p1, p2}
    Validate = {q1, q2}
INVARIANTS
    TypeOK
    OnePublished
PROPERTIES
    PublishedIsFinal
    PublishEnds
\* Every call is made at most once: the system comes to rest.
CHECK_DEADLOCK FALSE
