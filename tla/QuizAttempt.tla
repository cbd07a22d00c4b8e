----------------------------- MODULE QuizAttempt -----------------------------
(***************************************************************************)
(* The life of the attempts at ONE quiz in the lms-service: a student      *)
(* starts an attempt, answers questions and submits; a teacher grades the  *)
(* answers no program can grade.  The handlers of QuizService run as       *)
(* concurrent HTTP requests on any replica, every repository call is a     *)
(* single SQL statement, and no handler opens a transaction or locks a     *)
(* row.  A request is therefore a small process: one step per statement    *)
(* that reads or writes a row somebody else may change, with the copies it *)
(* took kept in its record until it writes them back.                      *)
(*                                                                         *)
(* Reads of rows that no modelled handler writes (the quiz, its questions, *)
(* the course owner) are folded into the step before them; what such a     *)
(* read decides from the clock or the caller (published, window, time      *)
(* limit, permission) is an input: a request it refuses ends right there   *)
(* and changes nothing.                                                    *)
(***************************************************************************)
EXTENDS Naturals, FiniteSets, FiniteSetsExt

CONSTANTS
    Students,        \* students enrolled in the course of the quiz
    Questions,       \* the questions of the quiz
    AutoQuestions,   \* those whose type canAutoGrade accepts
    Points,          \* [Questions -> Nat \ {0}], QuizQuestion.Points
    Data,            \* the answers a student can send
    RightData,       \* those the auto-grader finds correct
    MaxAttempts,     \* Quiz.MaxAttempts, or NoLimit when the column is NULL
    AutoGrade,       \* Quiz.AutoGrade
    Slots,           \* requests the service handles at the same time
    Role,            \* [Slots -> SUBSET Operations]: what each slot serves
    GradeListedOnly, \* graders open only what ListStudentAnswersForGrading shows
    Failures,        \* a statement may fail or a request be cancelled
    AttemptBound,    \* bound: attempts of one student that are modelled
    None             \* a model value: no row, a NULL column

Operations == {"start", "answer", "submit", "grade"}
NoLimit == 0
Nums == 1..AttemptBound

ASSUME QuizAssumption ==
    /\ AutoQuestions \subseteq Questions
    /\ Points \in [Questions -> Nat \ {0}]
    /\ RightData \subseteq Data
    /\ MaxAttempts \in Nat
    /\ AutoGrade \in BOOLEAN
    /\ Role \in [Slots -> SUBSET Operations]
    /\ GradeListedOnly \in BOOLEAN
    /\ Failures \in BOOLEAN
    /\ AttemptBound \in Nat \ {0}

VARIABLES
    attempts,   \* quiz_attempts: [Students -> [Nums -> row or None]]
    answers,    \* quiz_student_answers: [Students -> [Nums -> [Questions -> row or None]]]
    req,        \* [Slots -> the request in progress]
    jobs,       \* goroutines SubmitQuiz left behind: <<kind, student, number, slot>>
    completed,  \* students with a content_progress row for the quiz's content
    aggregates  \* rows of quiz_analytics for the quiz

vars == <<attempts, answers, req, jobs, completed, aggregates>>

(***************************************************************************)
(* Rows.  `tally` stands for total_points, earned_points, percentage and   *)
(* is_passed together: all four are computed from the points that          *)
(* calculateAttemptScore read, question by question, and tally is exactly  *)
(* that reading (None while the columns are NULL).                         *)
(***************************************************************************)
Status == {"IN_PROGRESS", "SUBMITTED", "GRADED"}
Tally == [Questions -> Nat \cup {None}]
Attempt == [status : Status, submitted : BOOLEAN, manual : BOOLEAN,
            tally : Tally \cup {None}]
Answer == [data : Data, pts : Nat \cup {None}, byTeacher : BOOLEAN]

ASSUME NoneAssumption ==
    None \notin Students \cup Questions \cup Data \cup Nat \cup Tally \cup Attempt \cup Answer

\* Mutant: the row is inserted with a status no reader knows.
NewAttempt_Started == [status |-> "STARTED", submitted |-> FALSE, manual |-> FALSE,
                       tally |-> None]

\* The columns CreateAttempt leaves at their defaults.
NewAttempt == [status |-> "IN_PROGRESS", submitted |-> FALSE, manual |-> FALSE,
               tally |-> None]

Idle == [pc |-> "idle", stu |-> None, num |-> 0, q |-> None, in |-> None,
         row |-> None, old |-> None, snap |-> [q \in Questions |-> None]]

StartPC  == {"stCount", "stLatest", "stInsert"}
AnswerPC == {"anRead", "anWrite", "anAuto"}
SubmitPC == {"sbList", "sbAuto", "sbScore", "sbSave"}
GradePC  == {"grAttempt", "grWrite", "grScore", "grSave"}

Request == [pc   : {"idle"} \cup StartPC \cup AnswerPC \cup SubmitPC \cup GradePC,
            stu  : Students \cup {None},
            num  : Nat,
            q    : Questions \cup {None},
            in   : Data \cup Nat \cup {None},
            row  : Attempt \cup {None},
            old  : Answer \cup {None},
            snap : [Questions -> Answer \cup {None}]]

Exists(u, n) == n \in Nums /\ attempts[u][n] # None

Finished(u, n) == attempts[u][n] # None /\ attempts[u][n].status # "IN_PROGRESS"

\* GetStudentAttemptCount and GetStudentLatestAttempt: COUNT(*) and
\* ORDER BY attempt_number DESC LIMIT 1.
Count(u) == Cardinality({n \in Nums : Exists(u, n)})
Latest(u) == Max({0} \cup {n \in Nums : Exists(u, n)})

Goto(s, pc) == req' = [req EXCEPT ![s].pc = pc]
Finish(s)   == req' = [req EXCEPT ![s] = Idle]
Begin(s, op, r) == /\ req[s].pc = "idle"
                   /\ op \in Role[s]
                   /\ req' = [req EXCEPT ![s] = r]

-----------------------------------------------------------------------------
(* StartQuizAttempt *)

StartBegin(s) ==
    \E u \in Students :
        /\ Begin(s, "start", [Idle EXCEPT !.pc = "stCount", !.stu = u])
        /\ UNCHANGED <<attempts, answers, jobs, completed, aggregates>>

\* Check max attempts.
StartCount(s) ==
    /\ req[s].pc = "stCount"
    /\ IF MaxAttempts # NoLimit /\ Count(req[s].stu) >= MaxAttempts
       THEN Finish(s)
       ELSE Goto(s, "stLatest")
    /\ UNCHANGED <<attempts, answers, jobs, completed, aggregates>>

\* Mutant: the in-progress attempt is not looked for.
StartLatest_NoResume(s) ==
    /\ req[s].pc = "stLatest"
    /\ LET n == Latest(req[s].stu) IN
       IF n = AttemptBound
       THEN Finish(s)
       ELSE req' = [req EXCEPT ![s].pc = "stInsert", ![s].num = n + 1]
    /\ UNCHANGED <<attempts, answers, jobs, completed, aggregates>>

\* Check for in-progress attempt: an existing one is returned as it is.
StartLatest(s) ==
    /\ req[s].pc = "stLatest"
    /\ LET u == req[s].stu  n == Latest(u) IN
       IF \/ n # 0 /\ attempts[u][n].status = "IN_PROGRESS"
          \/ n = AttemptBound                      \* bound: no further attempt
       THEN Finish(s)
       ELSE req' = [req EXCEPT ![s].pc = "stInsert", ![s].num = n + 1]
    /\ UNCHANGED <<attempts, answers, jobs, completed, aggregates>>

\* Mutant: an upsert instead of the UNIQUE error.
StartInsert_Upsert(s) ==
    /\ req[s].pc = "stInsert"
    /\ Finish(s)
    /\ attempts' = [attempts EXCEPT ![req[s].stu][req[s].num] = NewAttempt]
    /\ UNCHANGED <<answers, jobs, completed, aggregates>>

\* CreateAttempt; UNIQUE(quiz_id, student_id, attempt_number) refuses a taken
\* number and the request returns the error.
StartInsert(s) ==
    /\ req[s].pc = "stInsert"
    /\ Finish(s)
    /\ LET u == req[s].stu  n == req[s].num IN
       attempts' = IF attempts[u][n] = None
                   THEN [attempts EXCEPT ![u][n] = NewAttempt]
                   ELSE attempts
    /\ UNCHANGED <<answers, jobs, completed, aggregates>>

-----------------------------------------------------------------------------
(* Auto-grading of one answer row: the points follow from the data alone,  *)
(* graded_by is left as it was, and the WHOLE row is written back.         *)

Graded(q, d) == IF d \in RightData THEN Points[q] ELSE 0
AutoGraded(q, a) == [a EXCEPT !.pts = Graded(q, a.data)]
GradesNow(q) == AutoGrade /\ q \in AutoQuestions

WriteAnswer(u, n, q, a) == answers' = [answers EXCEPT ![u][n][q] = a]

(* SubmitAnswer *)

\* Mutant: the status of the attempt is not checked.
AnswerBegin_AnyStatus(s) ==
    \E u \in Students, n \in Nums, q \in Questions, d \in Data :
        /\ Exists(u, n)
        /\ Begin(s, "answer", [Idle EXCEPT !.pc = "anRead", !.stu = u, !.num = n,
                                           !.q = q, !.in = d])
        /\ UNCHANGED <<attempts, answers, jobs, completed, aggregates>>

\* GetAttempt, the ownership and status checks, the time limit and the format.
AnswerBegin(s) ==
    \E u \in Students, n \in Nums, q \in Questions, d \in Data :
        /\ Exists(u, n)
        /\ attempts[u][n].status = "IN_PROGRESS"
        /\ Begin(s, "answer", [Idle EXCEPT !.pc = "anRead", !.stu = u, !.num = n,
                                           !.q = q, !.in = d])
        /\ UNCHANGED <<attempts, answers, jobs, completed, aggregates>>

\* GetStudentAnswerByQuestion.
AnswerRead(s) ==
    /\ req[s].pc = "anRead"
    /\ req' = [req EXCEPT ![s].pc = "anWrite",
                          ![s].old = answers[req[s].stu][req[s].num][req[s].q]]
    /\ UNCHANGED <<attempts, answers, jobs, completed, aggregates>>

\* Mutant: an answer that already has points is not graded again.
AnswerWrite_GradeOnce(s) ==
    /\ req[s].pc = "anWrite"
    /\ LET r == req[s]
           a == IF r.old # None
                THEN [r.old EXCEPT !.data = r.in]
                ELSE [data |-> r.in, pts |-> None, byTeacher |-> FALSE]
       IN IF r.old = None /\ answers[r.stu][r.num][r.q] # None
          THEN Finish(s) /\ UNCHANGED answers
          ELSE /\ WriteAnswer(r.stu, r.num, r.q, a)
               /\ IF GradesNow(r.q) /\ a.pts = None
                  THEN req' = [req EXCEPT ![s].pc = "anAuto", ![s].old = a]
                  ELSE Finish(s)
    /\ UNCHANGED <<attempts, jobs, completed, aggregates>>

\* UpdateStudentAnswer with the copy's grading columns, or CreateStudentAnswer,
\* which UNIQUE(attempt_id, question_id) may refuse.
AnswerWrite(s) ==
    /\ req[s].pc = "anWrite"
    /\ LET r == req[s]
           a == IF r.old # None
                THEN [r.old EXCEPT !.data = r.in]
                ELSE [data |-> r.in, pts |-> None, byTeacher |-> FALSE]
       IN IF r.old = None /\ answers[r.stu][r.num][r.q] # None
          THEN Finish(s) /\ UNCHANGED answers
          ELSE /\ WriteAnswer(r.stu, r.num, r.q, a)
               /\ IF GradesNow(r.q)
                  THEN req' = [req EXCEPT ![s].pc = "anAuto", ![s].old = a]
                  ELSE Finish(s)
    /\ UNCHANGED <<attempts, jobs, completed, aggregates>>

\* autoGradeAnswer on the copy in hand.
AnswerAuto(s) ==
    /\ req[s].pc = "anAuto"
    /\ LET r == req[s] IN WriteAnswer(r.stu, r.num, r.q, AutoGraded(r.q, r.old))
    /\ Finish(s)
    /\ UNCHANGED <<attempts, jobs, completed, aggregates>>

-----------------------------------------------------------------------------
(* calculateAttemptScore: what it reads, and the status that follows.      *)

Scores(u, n) == [q \in Questions |->
                    IF answers[u][n][q] = None THEN None ELSE answers[u][n][q].pts]

\* GRADED unless some answer to a question only a person can grade has no points.
AllGraded(u, n) == \A q \in Questions \ AutoQuestions :
                      answers[u][n][q] # None => answers[u][n][q].pts # None

\* Mutant: an answer without points never blocks the GRADED status.
Scored_AlwaysGraded(row, u, n) ==
    [row EXCEPT !.tally = Scores(u, n), !.status = "GRADED"]

Scored(row, u, n) ==
    [row EXCEPT !.tally = Scores(u, n),
                !.status = IF AllGraded(u, n) THEN "GRADED" ELSE "SUBMITTED"]

\* Mutant: only the score and the status columns are written.
SaveAttempt_ScoreOnly(r) ==
    attempts' = [attempts EXCEPT ![r.stu][r.num].tally = r.row.tally,
                                 ![r.stu][r.num].status = r.row.status]

\* UpdateAttempt writes every mutable column of the copy, WHERE id = $11.
SaveAttempt(r) == attempts' = [attempts EXCEPT ![r.stu][r.num] = r.row]

(* SubmitQuiz *)

\* GetAttempt; already submitted is an error.  The copy is marked submitted.
SubmitBegin(s) ==
    \E u \in Students, n \in Nums :
        /\ Exists(u, n)
        /\ attempts[u][n].status = "IN_PROGRESS"
        /\ Begin(s, "submit",
                 [Idle EXCEPT !.pc = IF AutoGrade THEN "sbList" ELSE "sbScore",
                              !.stu = u, !.num = n,
                              !.row = [attempts[u][n] EXCEPT !.submitted = TRUE,
                                                             !.status = "SUBMITTED"]])
        /\ UNCHANGED <<attempts, answers, jobs, completed, aggregates>>

\* ListAttemptAnswers: the rows the errgroup will grade.
SubmitList(s) ==
    /\ req[s].pc = "sbList"
    /\ req' = [req EXCEPT ![s].pc = "sbAuto",
                          ![s].snap = [q \in Questions |->
                                         IF q \in AutoQuestions
                                         THEN answers[req[s].stu][req[s].num][q]
                                         ELSE None]]
    /\ UNCHANGED <<attempts, answers, jobs, completed, aggregates>>

\* One goroutine of the errgroup, in any order: grade the copy, write the row.
SubmitAutoOne(s) ==
    /\ req[s].pc = "sbAuto"
    /\ \E q \in Questions :
        /\ req[s].snap[q] # None
        /\ WriteAnswer(req[s].stu, req[s].num, q, AutoGraded(q, req[s].snap[q]))
        /\ req' = [req EXCEPT ![s].snap[q] = None]
    /\ UNCHANGED <<attempts, jobs, completed, aggregates>>

\* g.Wait returned.
SubmitWait(s) ==
    /\ req[s].pc = "sbAuto"
    /\ \A q \in Questions : req[s].snap[q] = None
    /\ Goto(s, "sbScore")
    /\ UNCHANGED <<attempts, answers, jobs, completed, aggregates>>

SubmitScore(s) ==
    /\ req[s].pc = "sbScore"
    /\ req' = [req EXCEPT ![s].pc = "sbSave",
                          ![s].row = Scored(req[s].row, req[s].stu, req[s].num)]
    /\ UNCHANGED <<attempts, answers, jobs, completed, aggregates>>

\* Mutant: the content is not marked complete.
SubmitSave_NoComplete(s) ==
    /\ req[s].pc = "sbSave"
    /\ SaveAttempt(req[s])
    /\ jobs' = jobs \cup {<<"analytics", req[s].stu, req[s].num, s>>}
    /\ Finish(s)
    /\ UNCHANGED <<answers, completed, aggregates>>

\* UpdateAttempt, then the two detached goroutines are started.
SubmitSave(s) ==
    /\ req[s].pc = "sbSave"
    /\ SaveAttempt(req[s])
    /\ jobs' = jobs \cup {<<kind, req[s].stu, req[s].num, s>> :
                             kind \in {"analytics", "complete"}}
    /\ Finish(s)
    /\ UNCHANGED <<answers, completed, aggregates>>

-----------------------------------------------------------------------------
(* GradeAnswer; BulkGrade calls it once per answer, the answers of one     *)
(* attempt one after another, as one slot does here.                       *)

\* What ListStudentAnswersForGrading has shown at some time: the attempt was
\* SUBMITTED then, and it never is in progress again (NoReopen).
Listed(u, n, q) == /\ attempts[u][n].status # "IN_PROGRESS"
                   /\ q \notin AutoQuestions

\* GetStudentAnswer; the points asked for never exceed the question's.
GradeBegin(s) ==
    \E u \in Students, n \in Nums, q \in Questions :
        /\ Exists(u, n)
        /\ answers[u][n][q] # None
        /\ GradeListedOnly => Listed(u, n, q)
        /\ \E p \in 0..Points[q] :
             Begin(s, "grade", [Idle EXCEPT !.pc = "grAttempt", !.stu = u, !.num = n,
                                            !.q = q, !.in = p,
                                            !.old = answers[u][n][q]])
        /\ UNCHANGED <<attempts, answers, jobs, completed, aggregates>>

\* GetAttempt: the copy that UpdateAttempt will write back.
GradeAttempt(s) ==
    /\ req[s].pc = "grAttempt"
    /\ req' = [req EXCEPT ![s].pc = "grWrite",
                          ![s].row = attempts[req[s].stu][req[s].num]]
    /\ UNCHANGED <<attempts, answers, jobs, completed, aggregates>>

GradeWrite(s) ==
    /\ req[s].pc = "grWrite"
    /\ LET r == req[s] IN
       WriteAnswer(r.stu, r.num, r.q, [r.old EXCEPT !.pts = r.in, !.byTeacher = TRUE])
    /\ Goto(s, "grScore")
    /\ UNCHANGED <<attempts, jobs, completed, aggregates>>

\* Mutant: the score is not recalculated after grading.
GradeScore_Keep(s) ==
    /\ req[s].pc = "grScore"
    /\ req' = [req EXCEPT ![s].pc = "grSave", ![s].row.manual = TRUE]
    /\ UNCHANGED <<attempts, answers, jobs, completed, aggregates>>

\* Always recalculate attempt score after grading.
GradeScore(s) ==
    /\ req[s].pc = "grScore"
    /\ req' = [req EXCEPT ![s].pc = "grSave",
                          ![s].row = Scored([req[s].row EXCEPT !.manual = TRUE],
                                            req[s].stu, req[s].num)]
    /\ UNCHANGED <<attempts, answers, jobs, completed, aggregates>>

GradeSave(s) ==
    /\ req[s].pc = "grSave"
    /\ SaveAttempt(req[s])
    /\ Finish(s)
    /\ UNCHANGED <<answers, jobs, completed, aggregates>>

-----------------------------------------------------------------------------
(* The goroutines SubmitQuiz leaves behind.                                *)

\* INSERT ... ON CONFLICT (quiz_id, question_id): the row has a NULL question_id,
\* NULLs are distinct in the UNIQUE index, so the statement always inserts.
UpdateQuizAnalytics ==
    \E j \in jobs :
        /\ j[1] = "analytics"
        /\ jobs' = jobs \ {j}
        /\ aggregates' = aggregates + 1
        /\ UNCHANGED <<attempts, answers, req, completed>>

\* INSERT ... ON CONFLICT DO NOTHING.
MarkComplete ==
    \E j \in jobs :
        /\ j[1] = "complete"
        /\ jobs' = jobs \ {j}
        /\ completed' = completed \cup {j[2]}
        /\ UNCHANGED <<attempts, answers, req, aggregates>>

-----------------------------------------------------------------------------
(* Failures: the statement of a request fails, its context is cancelled or *)
(* the process dies between two statements; a detached goroutine runs out  *)
(* of its five seconds; one row of the errgroup is not graded (the error   *)
(* is only logged).                                                        *)

Abort(s) ==
    /\ Failures
    /\ req[s].pc # "idle"
    /\ Finish(s)
    /\ UNCHANGED <<attempts, answers, jobs, completed, aggregates>>

SubmitAutoSkip(s) ==
    /\ Failures
    /\ req[s].pc = "sbAuto"
    /\ \E q \in Questions : /\ req[s].snap[q] # None
                            /\ req' = [req EXCEPT ![s].snap[q] = None]
    /\ UNCHANGED <<attempts, answers, jobs, completed, aggregates>>

JobLost ==
    /\ Failures
    /\ \E j \in jobs : jobs' = jobs \ {j}
    /\ UNCHANGED <<attempts, answers, req, completed, aggregates>>

-----------------------------------------------------------------------------
Init ==
    /\ attempts = [u \in Students |-> [n \in Nums |-> None]]
    /\ answers = [u \in Students |-> [n \in Nums |-> [q \in Questions |-> None]]]
    /\ req = [s \in Slots |-> Idle]
    /\ jobs = {}
    /\ completed = {}
    /\ aggregates = 0

Serve(s) ==
    \/ StartBegin(s)  \/ StartCount(s) \/ StartLatest(s)   \/ StartInsert(s)
    \/ AnswerBegin(s) \/ AnswerRead(s) \/ AnswerWrite(s)   \/ AnswerAuto(s)
    \/ SubmitBegin(s) \/ SubmitList(s) \/ SubmitAutoOne(s) \/ SubmitWait(s)
    \/ SubmitScore(s) \/ SubmitSave(s)
    \/ GradeBegin(s)  \/ GradeAttempt(s) \/ GradeWrite(s)  \/ GradeScore(s)
    \/ GradeSave(s)
    \/ Abort(s)       \/ SubmitAutoSkip(s)

Next == \/ \E s \in Slots : Serve(s)
        \/ UpdateQuizAnalytics
        \/ MarkComplete
        \/ JobLost

Spec == Init /\ [][Next]_vars

(***************************************************************************)
(* Fairness: the Go scheduler runs every request and every detached        *)
(* goroutine to its next statement, and the database answers.  Nobody is   *)
(* forced to send a request, and no failure is forced to happen.           *)
(***************************************************************************)
Progress(s) == \/ StartCount(s)   \/ StartLatest(s)  \/ StartInsert(s)
               \/ AnswerRead(s)   \/ AnswerWrite(s)  \/ AnswerAuto(s)
               \/ SubmitList(s)   \/ SubmitAutoOne(s) \/ SubmitWait(s)
               \/ SubmitScore(s)  \/ SubmitSave(s)
               \/ GradeAttempt(s) \/ GradeWrite(s)   \/ GradeScore(s) \/ GradeSave(s)

Fairness == /\ \A s \in Slots : WF_vars(Progress(s))
            /\ WF_vars(UpdateQuizAnalytics)
            /\ WF_vars(MarkComplete)

FairSpec == Spec /\ Fairness

-----------------------------------------------------------------------------
(* Properties *)

\* Every row and every request in flight is well formed.
TypeOK ==
    /\ attempts \in [Students -> [Nums -> Attempt \cup {None}]]
    /\ answers \in [Students -> [Nums -> [Questions -> Answer \cup {None}]]]
    /\ req \in [Slots -> Request]
    /\ jobs \subseteq {"analytics", "complete"} \X Students \X Nat \X Slots
    /\ completed \subseteq Students
    /\ aggregates \in Nat

\* However many starts and submits of a student overlap, attempts are numbered
\* without gaps and only the latest can be in progress: StartQuizAttempt's
\* read-then-insert never opens a second attempt beside an open one.
OneOpenAttempt ==
    \A u \in Students, n \in Nums : attempts[u][n] # None =>
        \A m \in 1..(n - 1) : Finished(u, m)

\* No interleaving of full-row UpdateAttempt writes takes a finished attempt
\* back to IN_PROGRESS or removes it.
NoReopen ==
    [][\A u \in Students, n \in Nums :
          /\ attempts[u][n] # None => attempts'[u][n] # None
          /\ Finished(u, n) => Finished(u, n)']_vars

\* A finished attempt always has its submission time and a score, although
\* graders and submitters write back rows they read earlier.
FinishedIsStamped ==
    \A u \in Students, n \in Nums :
        Finished(u, n) => attempts[u][n].submitted /\ attempts[u][n].tally # None

\* Status GRADED is shown only when no answer waits for a teacher, although the
\* status was computed from answers read before the write and several graders and
\* a submit overlap. (Only while the student's requests come one at a time: an essay
\* answer that passed the status check (quiz_service.go:710) may be inserted, without
\* points, after another tab's submit has saved GRADED.)
GradedIsComplete ==
    \A u \in Students, n \in Nums :
        attempts[u][n] # None /\ attempts[u][n].status = "GRADED"
            => AllGraded(u, n)

\* The points of an auto-graded answer belong to the data beside them, except
\* while a SubmitAnswer is between its write of the data and its grading.
AutoPointsMatchData ==
    \A u \in Students, n \in Nums, q \in AutoQuestions :
        LET a == answers[u][n][q] IN
        a # None /\ a.pts # None /\ a.pts # Graded(q, a.data)
            => \E s \in Slots : /\ req[s].pc = "anAuto"
                                /\ <<req[s].stu, req[s].num, req[s].q>> = <<u, n, q>>

\* earned_points of a reading of the answers.
Earned(t) == MapThenSumSet(LAMBDA q : IF t[q] = None THEN 0 ELSE t[q], Questions)

Quiet == \A s \in Slots : req[s].pc = "idle"

\* When no request is running, the score of a finished attempt is the sum of
\* the points its answers have now, and GRADED says whether all have points.
ScoreIsCurrent ==
    Quiet => \A u \in Students, n \in Nums :
        Finished(u, n) =>
            /\ Earned(attempts[u][n].tally) = Earned(Scores(u, n))
            /\ attempts[u][n].status = "GRADED" <=> AllGraded(u, n)

\* A submitted quiz ends up as completed content of the student, whatever runs
\* beside it, provided no statement fails.
SubmittedContentCompletes ==
    \A u \in Students, n \in Nums :
        Finished(u, n) ~> (u \in completed)

\* "Submit (finalize) a quiz attempt": what the student answered in a finalized
\* attempt stays, although graders and the errgroup write whole answer rows back.
\* (Only while the student's requests come one at a time: an answer that passed
\* the status check may be written after a submit that overtook it.)
AnswersFrozen ==
    [][\A u \in Students, n \in Nums, q \in Questions :
          Finished(u, n) =>
             /\ answers[u][n][q] = None <=> answers'[u][n][q] = None
             /\ answers[u][n][q] # None =>
                   answers'[u][n][q].data = answers[u][n][q].data]_vars

-----------------------------------------------------------------------------
(* What a comment says and the code does not ensure                        *)

\* "Check for in-progress attempt ... Return existing attempt": the attempt limit
\* does not keep a student from resuming the attempt that is open.
ResumeNotRefused ==
    [][\A s \in Slots :
          (/\ req[s].pc = "stCount"
           /\ Latest(req[s].stu) # 0
           /\ attempts[req[s].stu][Latest(req[s].stu)].status = "IN_PROGRESS")
             => req'[s].pc # "idle"]_vars

\* "Check max attempts": a student never has more attempts than the quiz allows.
\* (Only while the student's starts come one at a time: the attempts are counted
\* two statements before the row is inserted.)
LimitKept ==
    MaxAttempts # NoLimit =>
        \A u \in Students, n \in Nums : attempts[u][n] # None => n <= MaxAttempts
=============================================================================
