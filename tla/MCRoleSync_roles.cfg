\* Two edits of one user, two tries each, two failures, one call of the administrator.
SPECIFICATION Spec
CONSTANTS
    student = student
    teacher = teacher
    t1 = t1
    t2 = t2
    Role = {student, teacher}
    Task = {t1, t2}
    MaxTries = 2
    MaxMishaps = 2
    MaxAdmin = 1
    None = None
SYMMETRY Interchangeable
INVARIANTS
    TypeOK
    RolesFromOverlap
    LastSyncIsThere
PROPERTY
    ManualSurvivesSync
CHECK_DEADLOCK FALSE
