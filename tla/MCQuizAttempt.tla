--------------------------- MODULE MCQuizAttempt ---------------------------
(* Instances of QuizAttempt for TLC. *)
EXTENDS QuizAttempt, TLC

CONSTANTS ann,          \* the student
          essay, essay2, \* questions a teacher grades
          choice,       \* a question the program grades
          right, wrong, \* answers
          s1, s2, s3    \* requests served at the same time

MCPoints == [q \in Questions |-> IF q = choice THEN 1 ELSE 2]

MCUnitPoints == [q \in Questions |-> 1]

\* Every slot serves every operation.
AnyRole == [s \in Slots |-> Operations]

\* The student's browser sends one request at a time (s1); teachers grade
\* beside it (the other slots).
OneTabRole == [s \in Slots |-> IF s = s1 THEN {"start", "answer", "submit"}
                                         ELSE {"grade"}]

\* Several browser tabs of the student, no teacher.
StudentRole == [s \in Slots |-> {"start", "answer", "submit"}]

SlotSymmetry == Permutations(Slots)
GraderSymmetry == Permutations(Slots \ {s1})
=============================================================================
