SPECIFICATION Spec
CONSTANTS
    None = None
    ann = ann
    essay = essay
    essay2 = essay2
    choice = choice
    right = right
    wrong = wrong
    s1 = s1
    s2 = s2
    s3 = s3
    Students = {ann}
    Questions = {choice}
    AutoQuestions = {choice}
    Points <- MCPoints
    Data = {right, wrong}
    RightData = {right}
    MaxAttempts = 0
    AutoGrade = TRUE
    Slots = {s1, s2}
    Role <- StudentRole
    GradeListedOnly = TRUE
    Failures = FALSE
    AttemptBound = 2
INVARIANTS
    TypeOK
    OneOpenAttempt
    AutoPointsMatchData
PROPERTIES
    NoReopen
SYMMETRY SlotSymmetry
