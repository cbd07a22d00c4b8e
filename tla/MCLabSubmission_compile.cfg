\* The same system without failures.
SPECIFICATION Spec
CONSTANTS
    Call = {c1, c2}
    TestCase = {1}
    Verdict = {"PASSED", "WRONG_ANSWER", "COMPILER_ERROR"}
    Runtime = {1, 2}
    MaxSubmissions = 1
    MaxMishaps = 0
    None = None
INVARIANT GradedIsRecorded
CHECK_DEADLOCK FALSE
