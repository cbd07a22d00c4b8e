SPECIFICATION FairSpec
CONSTANTS
    None = None
    ann = ann
    essay = essay
    essay2 = essay2
    choice = choice
    right = right
    wrong = wrong
    s1 = s1
    s2 = s2
    s3 = s3
    Students = {ann}
    Questions = {essay, choice}
    AutoQuestions = {choice}
    Points <- MCUnitPoints
    Data = {right, wrong}
    RightData = {right}
    MaxAttempts = 2
    AutoGrade = TRUE
    Slots = {s1, s2}
    Role <- OneTabRole
    GradeListedOnly = TRUE
    Failures = FALSE
    AttemptBound = 3
INVARIANTS
    ScoreIsCurrent
PROPERTIES
    AnswersFrozen
    SubmittedContentCompletes
