---------------------------- MODULE LabSubmission ----------------------------
(***************************************************************************)
(* One learner's submissions to one lab and the learner's leaderboard row  *)
(* (SubmissionService, SubmissionRepository, LeaderboardRepository).       *)
(*                                                                         *)
(* A submission is graded inside its HTTP request by separate statements,  *)
(* without a transaction, and most of their errors are dropped.  A         *)
(* statement can fail, because the client hung up (every later statement   *)
(* of that request then fails too) or for a reason of the database's; the  *)
(* service can stop in the middle of a request.  The MaxMishaps bound      *)
(* counts these events.                                                    *)
(***************************************************************************)
EXTENDS Naturals, FiniteSets, FiniteSetsExt

CONSTANTS
    Call,            \* requests to SubmitCode or SubmitHPCJob
    TestCase,        \* ids a test case can get, in their order_index order
    Verdict,         \* what the runtime answers for one test case
    Runtime,         \* total run times, in milliseconds
    MaxSubmissions,  \* labs.max_submissions, 0 when there is no limit
    MaxMishaps,      \* bound on failures
    None

ASSUME SubmissionAssumption ==
    /\ TestCase \subseteq Nat /\ IsFiniteSet(TestCase) /\ Runtime \subseteq Nat
    /\ "PASSED" \in Verdict /\ "PENDING" \notin Verdict
    /\ {MaxSubmissions, MaxMishaps} \subseteq Nat

ASSUME NoneAssumption ==
    None \notin [sub : Call, score : Nat, runtime : Runtime, attempts : Nat]

VARIABLES
    labType,   \* labs.lab_type
    tests,     \* lab_test_cases of the lab
    enrolled,  \* is the learner's lab_enrollments row ACCEPTED
    sub,       \* the lab_submissions row each call has inserted
    saved,     \* submission_test_results rows of each submission
    board,     \* the learner's lab_leaderboard row
    cluster,   \* calls for which Slurm has queued a job
    call,      \* where each request stands
    mishaps,
    counted    \* history: calls whose upsert into lab_leaderboard was committed

tables == <<tests, sub, saved, board>>
vars == <<labType, enrolled, tables, cluster, call, mishaps, counted>>

\* The CHECK constraints of lab_submissions.status and submission_test_results.status.
RowStatuses == {"PENDING", "RUNNING", "ACCEPTED", "WRONG_ANSWER", "TIME_LIMIT", "MEMORY_LIMIT",
                "RUNTIME_ERROR", "COMPILE_ERROR", "COMPLETED", "FAILED", "CANCELLED"}
ResultStatuses == {"PENDING", "PASSED", "WRONG_ANSWER", "TIME_LIMIT", "MEMORY_LIMIT",
                   "RUNTIME_ERROR"}

Waiting == {"count", "create", "list", "execute", "save", "mark", "upsert", "get",
            "hpcExecute", "hpcMark", "fail"}

Fresh == [pc |-> "idle", cutOff |-> FALSE, failed |-> {}, tests |-> {}, results |-> <<>>,
          runtime |-> 0, reply |-> 0]
At(r, pc) == call[r].pc = pc
Goto(r, pc) == call' = [call EXCEPT ![r].pc = pc]
Answer(r, code) == call' = [call EXCEPT ![r].pc = "done", ![r].reply = code]
Works(r) == ~call[r].cutOff
Rows == {r \in Call : sub[r] # None}

\* The statement of step pc fails; the request goes on at next, or ends with a code.
Mishap(r) ==
    \/ call[r].cutOff /\ UNCHANGED mishaps
    \/ ~call[r].cutOff /\ mishaps < MaxMishaps /\ mishaps' = mishaps + 1
FailsTo(r, pc, next) ==
    /\ Mishap(r)
    /\ call' = [call EXCEPT ![r].pc = next, ![r].failed = @ \cup {pc}]
FailsWith(r, pc, code) ==
    /\ Mishap(r)
    /\ call' = [call EXCEPT ![r].pc = "done", ![r].reply = code, ![r].failed = @ \cup {pc}]

Init ==
    /\ labType \in {"CODING", "HPC", "CHEMISTRY"}
    /\ tests \in SUBSET TestCase
    /\ enrolled = TRUE
    /\ sub = [r \in Call |-> None]
    /\ saved = [r \in Call |-> {}]
    /\ board = None
    /\ cluster = {}
    /\ call = [r \in Call |-> Fresh]
    /\ mishaps = 0
    /\ counted = {}
-----------------------------------------------------------------------------
(* What the runtime answers for a set of test cases.                         *)

Failing(results) == {t \in DOMAIN results : results[t] # "PASSED"}

\* The overall status is that of the first test case that does not pass.
Overall(results) ==
    IF Failing(results) = {} THEN "ACCEPTED" ELSE results[Min(Failing(results))]

\* A percentage of the weights, here one per test case.
Score(results) ==
    IF DOMAIN results = {} THEN 0
    ELSE (100 * Cardinality(DOMAIN results \ Failing(results)))
            \div Cardinality(DOMAIN results)
-----------------------------------------------------------------------------
(* The author's side and the learner's enrollment.                           *)

CreateTestCase(t) ==
    /\ t \in TestCase \ tests
    /\ tests' = tests \cup {t}
    /\ UNCHANGED <<labType, enrolled, sub, saved, board, cluster, call, mishaps, counted>>

\* submission_test_results has a foreign key without CASCADE: a test case with
\* results stays.
DeleteTestCase(t) ==
    /\ t \in tests
    /\ \A r \in Call : \A row \in saved[r] : row.test # t
    /\ tests' = tests \ {t}
    /\ UNCHANGED <<labType, enrolled, sub, saved, board, cluster, call, mishaps, counted>>

CancelEnrollment ==
    /\ enrolled
    /\ enrolled' = FALSE
    /\ UNCHANGED <<labType, tables, cluster, call, mishaps, counted>>
-----------------------------------------------------------------------------
(* SubmitCode and SubmitHPCJob up to the insertion of the row.               *)

\* GetByID and IsEnrolled; an error of IsEnrolled counts as not enrolled.
Begin(r) ==
    /\ At(r, "idle")
    /\ \/ enrolled /\ Goto(r, "count") /\ UNCHANGED mishaps
       \/ ~enrolled /\ Answer(r, 403) /\ UNCHANGED mishaps
       \/ FailsWith(r, "begin", 403)
    /\ UNCHANGED <<labType, enrolled, tables, cluster, counted>>

\* CountByLabAndUser; when it fails the count is 0 and the limit lets the call pass.
Count(r) ==
    /\ At(r, "count")
    /\ \/ /\ Works(r)
          /\ IF MaxSubmissions > 0 /\ Cardinality(Rows) >= MaxSubmissions
             THEN Answer(r, 429)
             ELSE Goto(r, "create")
          /\ UNCHANGED mishaps
       \/ FailsTo(r, "count", "create")
    /\ UNCHANGED <<labType, enrolled, tables, cluster, counted>>

\* INSERT ... 'PENDING'.  A lab type without an adapter is found out after it.
Create(r) ==
    /\ At(r, "create")
    /\ \/ /\ Works(r)
          /\ sub' = [sub EXCEPT ![r] = [status |-> "PENDING", score |-> 0, passed |-> 0,
                                        runtime |-> 0, job |-> FALSE]]
          /\ Goto(r, IF labType = "HPC" THEN "hpcExecute" ELSE "list")
          /\ UNCHANGED mishaps
       \/ FailsWith(r, "create", 500) /\ UNCHANGED sub
    /\ UNCHANGED <<labType, enrolled, tests, saved, board, cluster, counted>>
-----------------------------------------------------------------------------
(* SubmitCode from there on.                                                 *)

\* ListByLab and registry.Get: an error leaves the row as it is.
List(r) ==
    /\ At(r, "list")
    /\ \/ /\ Works(r)
          /\ IF labType = "CODING"
             THEN call' = [call EXCEPT ![r].pc = "execute", ![r].tests = tests]
             ELSE Answer(r, 400)
          /\ UNCHANGED mishaps
       \/ FailsWith(r, "list", 500)
    /\ UNCHANGED <<labType, enrolled, tables, cluster, counted>>

\* adapter.Execute runs every test case that was listed; its error is not the
\* context's, which shows as RUNTIME_ERROR of the test cases left.
Execute(r) ==
    /\ At(r, "execute")
    /\ \/ \E results \in [call[r].tests -> Verdict], t \in Runtime :
            /\ call' = [call EXCEPT ![r].pc = "save", ![r].results = results,
                                   ![r].runtime = t]
            /\ UNCHANGED mishaps
       \/ FailsTo(r, "execute", "fail")
    /\ UNCHANGED <<labType, enrolled, tables, cluster, counted>>

\* One INSERT per test case, errors dropped: a status the CHECK does not know
\* and a test case deleted meanwhile are refused by the database.
Save(r) ==
    /\ At(r, "save")
    /\ LET rowsOf == {[test |-> t, status |-> call[r].results[t]] :
                        t \in {u \in call[r].tests \cap tests :
                                 call[r].results[u] \in ResultStatuses}}
       IN \/ /\ Works(r)
             /\ saved' = [saved EXCEPT ![r] = rowsOf]
             /\ Goto(r, "mark")
             /\ UNCHANGED mishaps
          \/ /\ FailsTo(r, "save", "mark")
             /\ \E part \in SUBSET rowsOf : saved' = [saved EXCEPT ![r] = part]
    /\ UNCHANGED <<labType, enrolled, tests, sub, board, cluster, counted>>

AfterMark(r) == IF Overall(call[r].results) = "ACCEPTED" THEN "upsert" ELSE "get"

\* Mutant: only an accepted submission is marked.
Mark_AcceptedOnly(r) ==
    /\ At(r, "mark")
    /\ LET status == Overall(call[r].results)
           graded == [sub[r] EXCEPT !.status = status, !.score = Score(call[r].results),
                          !.passed = Cardinality(call[r].tests \ Failing(call[r].results)),
                          !.runtime = call[r].runtime]
       IN \/ /\ Works(r)
             /\ sub' = IF status = "ACCEPTED" THEN [sub EXCEPT ![r] = graded] ELSE sub
             /\ Goto(r, AfterMark(r))
             /\ UNCHANGED mishaps
          \/ FailsTo(r, "mark", AfterMark(r)) /\ UNCHANGED sub
    /\ UNCHANGED <<labType, enrolled, tests, saved, board, cluster, counted>>

\* Mutant: the runtime's status is written whether the column allows it or not.
Mark_Unchecked(r) ==
    /\ At(r, "mark")
    /\ LET graded == [sub[r] EXCEPT !.status = Overall(call[r].results),
                          !.score = Score(call[r].results),
                          !.passed = Cardinality(call[r].tests \ Failing(call[r].results)),
                          !.runtime = call[r].runtime]
       IN \/ /\ Works(r)
             /\ sub' = [sub EXCEPT ![r] = graded]
             /\ Goto(r, AfterMark(r))
             /\ UNCHANGED mishaps
          \/ FailsTo(r, "mark", AfterMark(r)) /\ UNCHANGED sub
    /\ UNCHANGED <<labType, enrolled, tests, saved, board, cluster, counted>>

\* UpdateStatus, its error dropped: the CHECK refuses a status it does not know.
Mark(r) ==
    /\ At(r, "mark")
    /\ LET status == Overall(call[r].results)
           graded == [sub[r] EXCEPT !.status = status, !.score = Score(call[r].results),
                          !.passed = Cardinality(call[r].tests \ Failing(call[r].results)),
                          !.runtime = call[r].runtime]
       IN \/ /\ Works(r)
             /\ sub' = IF status \in RowStatuses THEN [sub EXCEPT ![r] = graded] ELSE sub
             /\ Goto(r, AfterMark(r))
             /\ UNCHANGED mishaps
          \/ FailsTo(r, "mark", AfterMark(r)) /\ UNCHANGED sub
    /\ UNCHANGED <<labType, enrolled, tests, saved, board, cluster, counted>>

Entry(r) == [sub |-> r, score |-> Score(call[r].results), runtime |-> call[r].runtime,
             attempts |-> 1]

\* A higher score, or the same one in less time.
Better(e, f) == e.score > f.score \/ (e.score = f.score /\ e.runtime < f.runtime)

\* Mutant: the columns are compared one by one.
Merged_PerColumn(old, new) ==
    [sub |-> IF Better(new, old) THEN new.sub ELSE old.sub,
     score |-> Max({old.score, new.score}),
     runtime |-> Min({old.runtime, new.runtime}),
     attempts |-> old.attempts + 1]

\* ON CONFLICT (lab_id, user_id) DO UPDATE.
Merged(old, new) ==
    [(IF Better(new, old) THEN new ELSE old) EXCEPT !.attempts = old.attempts + 1]

\* Mutant: a submission that does not beat the row is not sent.
Upsert_BetterOnly(r) ==
    /\ At(r, "upsert")
    /\ \/ /\ Works(r)
          /\ IF board = None \/ Better(Entry(r), board)
             THEN /\ board' = IF board = None THEN Entry(r) ELSE Merged(board, Entry(r))
                  /\ counted' = counted \cup {r}
             ELSE UNCHANGED <<board, counted>>
          /\ Goto(r, "get")
          /\ UNCHANGED mishaps
       \/ FailsTo(r, "upsert", "get") /\ UNCHANGED <<board, counted>>
    /\ UNCHANGED <<labType, enrolled, tests, sub, saved, cluster>>

\* UpsertEntry, one statement, its error dropped.
Upsert(r) ==
    /\ At(r, "upsert")
    /\ \/ /\ Works(r)
          /\ board' = IF board = None THEN Entry(r) ELSE Merged(board, Entry(r))
          /\ counted' = counted \cup {r}
          /\ Goto(r, "get")
          /\ UNCHANGED mishaps
       \/ FailsTo(r, "upsert", "get") /\ UNCHANGED <<board, counted>>
    /\ UNCHANGED <<labType, enrolled, tests, sub, saved, cluster>>

\* The answer shows the row as GetByID reads it.
Get(r) ==
    /\ At(r, "get")
    /\ \/ Works(r) /\ Answer(r, IF labType = "HPC" THEN 202 ELSE 200) /\ UNCHANGED mishaps
       \/ FailsWith(r, "get", 500)
    /\ UNCHANGED <<labType, enrolled, tables, cluster, counted>>
-----------------------------------------------------------------------------
(* SubmitHPCJob from the insertion on.                                       *)

\* sbatch over ssh: it may fail, and it may fail after Slurm took the job.
HPCExecute(r) ==
    /\ At(r, "hpcExecute")
    /\ \/ Goto(r, "hpcMark") /\ cluster' = cluster \cup {r} /\ UNCHANGED mishaps
       \/ /\ FailsTo(r, "hpcExecute", "fail")
          /\ cluster' \in {cluster, cluster \cup {r}}
    /\ UNCHANGED <<labType, enrolled, tables, counted>>

\* MarkHPCSubmitted: the row stays PENDING, with the id of the job.
HPCMark(r) ==
    /\ At(r, "hpcMark")
    /\ \/ /\ Works(r)
          /\ sub' = [sub EXCEPT ![r].status = "PENDING", ![r].job = TRUE]
          /\ Goto(r, "get")
          /\ UNCHANGED mishaps
       \/ FailsWith(r, "hpcMark", 500) /\ UNCHANGED sub
    /\ UNCHANGED <<labType, enrolled, tests, saved, board, cluster, counted>>

\* The runtime has failed: status FAILED (UpdateStatus or MarkHPCFailed), whose
\* own error is dropped.
Fail(r) ==
    /\ At(r, "fail")
    /\ LET code == IF labType = "HPC" THEN 502 ELSE 500
       IN \/ /\ Works(r)
             /\ sub' = [sub EXCEPT ![r].status = "FAILED"]
             /\ Answer(r, code)
             /\ UNCHANGED mishaps
          \/ FailsWith(r, "fail", code) /\ UNCHANGED sub
    /\ UNCHANGED <<labType, enrolled, tests, saved, board, cluster, counted>>
-----------------------------------------------------------------------------
\* The client hangs up: the request's context is cancelled.
HangUp(r) ==
    /\ call[r].pc \in Waiting
    /\ ~call[r].cutOff /\ mishaps < MaxMishaps
    /\ call' = [call EXCEPT ![r].cutOff = TRUE]
    /\ mishaps' = mishaps + 1
    /\ UNCHANGED <<labType, enrolled, tables, cluster, counted>>

\* The process stops; nothing resumes the requests it was serving.
Crash ==
    /\ mishaps < MaxMishaps
    /\ \E r \in Call : call[r].pc \in Waiting
    /\ mishaps' = mishaps + 1
    /\ call' = [r \in Call |-> IF call[r].pc \in Waiting
                               THEN [call[r] EXCEPT !.pc = "done",
                                                    !.failed = @ \cup {"crash"}]
                               ELSE call[r]]
    /\ UNCHANGED <<labType, enrolled, tables, cluster, counted>>

Step(r) ==
    \/ Count(r) \/ Create(r) \/ List(r) \/ Execute(r) \/ Save(r) \/ Mark(r) \/ Upsert(r)
    \/ Get(r) \/ HPCExecute(r) \/ HPCMark(r) \/ Fail(r)

Next ==
    \/ \E t \in TestCase : CreateTestCase(t) \/ DeleteTestCase(t)
    \/ CancelEnrollment
    \/ \E r \in Call : Begin(r) \/ Step(r) \/ HangUp(r)
    \/ Crash

Spec == Init /\ [][Next]_vars

\* A request that has begun goes on: its goroutine runs and every call it makes
\* returns (the runtimes have deadlines of their own).
FairSpec == Spec /\ \A r \in Call : WF_vars(Step(r))
-----------------------------------------------------------------------------
\* The rows and the requests have the shapes the tables and the code give them.
TypeOK ==
    /\ labType \in {"CODING", "HPC", "CHEMISTRY"}
    /\ tests \subseteq TestCase
    /\ enrolled \in BOOLEAN
    /\ \A r \in Call :
         /\ sub[r] = None \/ sub[r] \in [status : RowStatuses, score : 0..100, passed : Nat,
                                         runtime : Runtime \cup {0}, job : BOOLEAN]
         /\ \A row \in saved[r] : row.test \in TestCase /\ row.status \in ResultStatuses
         /\ call[r].pc \in Waiting \cup {"idle", "done"}
         /\ call[r].reply \in {0, 200, 202, 400, 403, 429, 500, 502}
    /\ board = None \/ board \in [sub : Call, score : 0..100, runtime : Runtime, attempts : Nat]
    /\ cluster \cup counted \subseteq Call
    /\ mishaps \in 0..MaxMishaps

\* The leaderboard row is the best of the submissions it was told of, whatever
\* the order overlapping requests arrive in: its score and time are those of one
\* submission, no other is better, and attempt_count is their number.
BoardIsBest ==
    /\ board = None <=> counted = {}
    /\ board # None =>
         /\ board.sub \in counted
         /\ board.score = Score(call[board.sub].results)
         /\ board.runtime = call[board.sub].runtime
         /\ \A r \in counted : ~Better(Entry(r), board)
         /\ board.attempts = Cardinality(counted)

\* A submission that is still PENDING when its request has ended is one of
\* these: the lab's type has no runtime, Slurm has its job, the runtime's status
\* is refused by the CHECK, or the process or a statement failed on the way.
\* Nothing else leaves a row behind.
PendingIsExplained ==
    \A r \in Rows : At(r, "done") /\ sub[r].status = "PENDING" =>
        \/ labType = "CHEMISTRY"
        \/ sub[r].job
        \/ labType = "CODING" /\ Overall(call[r].results) \notin RowStatuses
        \/ call[r].failed \cap {"crash", "list", "mark", "hpcMark", "fail"} # {}

\* An accepted submission reaches the leaderboard, unless its request broke.
AcceptedIsCounted ==
    \A r \in Call :
        (r \in Rows /\ sub[r].status = "ACCEPTED")
            ~> (r \in counted \/ call[r].failed # {})

\* The row behind a leaderboard entry says so itself: false when the update of
\* the submission fails and the upsert after it does not.
BoardIsAccepted == board # None => sub[board.sub].status = "ACCEPTED"

\* "executes against ALL test cases, records submission": a request that is
\* answered 200 has left the status of the run in its row.
GradedIsRecorded == \A r \in Call : call[r].reply = 200 => sub[r].status # "PENDING"
=============================================================================
