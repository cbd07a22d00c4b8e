\* Two overlapping submissions, a test case that comes and goes, one mishap.
SPECIFICATION FairSpec
CONSTANTS
    Call = {c1, c2}
    TestCase = {1}
    Verdict = {"PASSED", "WRONG_ANSWER", "COMPILER_ERROR"}
    Runtime = {1, 2}
    MaxSubmissions = 1
    MaxMishaps = 1
    None = None
INVARIANTS
    TypeOK
    BoardIsBest
    PendingIsExplained
PROPERTY
    AcceptedIsCounted
CHECK_DEADLOCK FALSE
