SPECIFICATION Spec
CONSTANTS
    None = None
    ann = ann
    essay = essay
    essay2 = essay2
    choice = choice
    right = right
    wrong = wrong
    s1 = s1
    s2 = s2
    s3 = s3
    Students = {ann}
    Questions = {essay, essay2}
    AutoQuestions = {}
    Points <- MCPoints
    Data = {right}
    RightData = {right}
    MaxAttempts = 0
    AutoGrade = FALSE
    Slots = {s1, s2, s3}
    Role <- OneTabRole
    GradeListedOnly = TRUE
    Failures = FALSE
    AttemptBound = 1
INVARIANTS
    ScoreIsCurrent
