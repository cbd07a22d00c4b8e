# TLA+ models of BDC Hub CoreApplication

BDC Hub is a learning platform of several services. These modules model the
parts of it whose correctness depends on the order of things: the life of quiz
attempts, the cached membership check in front of almost every request, the
WebSocket hub of the chat, the indexing of course content across three services,
the submissions and experiments of the lab service, and the roles that the auth
service pushes to the LMS. TLC checks them on small instances; TLAPS proves the
theorems listed below for every value of the constants.

Paths below are relative to the repository.

## 1. Inventory

| Component | State it keeps | Operations | Hard behaviour | Here |
|---|---|---|---|---|
| lms-service: quiz attempts (`lms-service/internal/service/quiz_service.go`, `quiz_repo.go`) | PostgreSQL rows of `quiz_attempts`, `quiz_student_answers`, `quiz_analytics`, `content_progress` | StartQuizAttempt, SubmitAnswer, SubmitQuiz, GradeAnswer, BulkGrade | no transactions: every handler reads, computes and writes whole rows back; errgroups; detached goroutines | `QuizAttempt` |
| lms-service: enrollment and membership cache (`enrollment_service.go`, `enrollment_repo.go`, `pkg/cache/loader.go`) | one row per (student, course), one Redis key with a TTL, a singleflight group per service object | EnrollCourse, BulkEnroll, Accept, Reject, Cancel; VerifyAccess and every visibility check | cache-aside races, lost deletions, shared flights, replicas | `MembershipCache`, `AccessGate` |
| chat-service: hub (`chat-service/pkg/hub`) | rooms map, four bounded Go channels, a send buffer per connection, Redis subscription | connect, disconnect, publish, fan out, Shutdown | goroutines, bounded channels, closing channels others send on | `ChatHub` |
| lms-service: AI job events (`cmd/api/main.go`, `pkg/kafka`), and the course content they are about (`ai_handler.go`, `micro_lesson_service.go`, `course_repo.go`) | `section_content.ai_index_status`, Kafka topics | TriggerContentAutoIndex, PublishLesson, DeleteContent, the status consumer | publish, then mark; offset committed before the handler runs; goroutine with a time limit | `ContentIndex` |
| ai-service: Kafka worker and job pipeline (`ai-service/app/worker/kafka_worker.py`, `auto_index_service.py`, `api/endpoints/auto_index.py`) | consumer offset, `content_index_status`, `document_chunks` | process_document_event with heartbeat, timeout, cancellation; trigger_auto_index_text; process-document, force and DELETE, which drop chunks; DELETE_CONTENT | offset committed after the handler, so work is repeated; two stores and a topic written one after the other | `ContentIndex` |
| lab-service: experiments (`experiment_service.go`, `experiment_repo.go`) | `lab_versions`, `lab_runs`, `experiment_trials`, `evidence_events` | CreateVersion, ValidateVersion, PublishVersion; CreateRun, CreateTrial, AppendEvidence, CompleteRun | row locks taken in two orders, idempotent retries, checks before the write | `LabVersions`, `ExperimentRun` |
| lab-service: submissions and leaderboard (`submission_service.go`, `submission_repo.go`, `leaderboard_repo.go`) | submissions, test results, one leaderboard row per user and lab | SubmitCode, SubmitHPCJob (RunCode writes nothing) | count, then insert; early returns that leave PENDING; dropped errors; upsert order | `LabSubmission` |
| lms-service: user synchronisation and roles (`sync_service.go`, `user_repo.go`, `role_admin_service.go`); auth-and-management-service (`UserSyncService.java`, `UserServiceImpl.java`) | roles in the auth service, `user_roles` in the LMS, tasks in memory | updateRole, deleteUser, the asynchronous push and its retries; SyncUser, DeleteUser, assignment and removal by an administrator | clear, then add, in separate statements; unordered tasks; a request that timed out goes on | `RoleSync` |
| chat-service: REST | channels, messages, reactions, pins in PostgreSQL | CRUD, each followed by Hub.Publish | little: one statement or transaction each | not modelled |
| lms-service: courses and sections, organizations, permissions, forum, flashcards, analytics, learning events | PostgreSQL rows | CRUD and reports | little beyond single statements | not modelled |
| lab-service: runtimes and terminals | processes, Kubernetes jobs, Slurm jobs | execution of code | outside of the service; its outcomes are inputs of `LabSubmission` | not modelled |
| ai-service agents and RAG, personalize-service, recommender-service | prompts, vectors, Parquet | model calls, estimation, ranking | numeric and model behaviour | not modelled |
| frontend, da-analytics, k3s, scripts, performance-tests | configuration; the first two are empty submodules | - | - | not modelled |

How they interact: the browser calls the services over HTTP (and the chat over
WebSocket); services call each other over HTTP (LMS to AI, auth to LMS) or send
Kafka events (LMS, AI worker, personalize); replicas of one service share only
PostgreSQL and Redis. Handlers of the LMS share rows; readers and writers of an
enrollment share a row and a key; the goroutines of the hub share the rooms and
its channels; the LMS and the AI service share three topics and write two copies
of one status; a new version of an experiment (`LabVersions`) is the `Supersede`
step of `ExperimentRun`; a role push ends with the deletion of a cache entry of
the kind `MembershipCache` is about.

What makes each modelled component correct:

* quiz attempts: at most one attempt of a student is open, a finished attempt
  stays finished and keeps its submission time and a score, GRADED means that no
  answer waits for a teacher, the score is the sum of the points, a submitted
  attempt's answers stay, submitted content is completed in the end;
* membership: an entry that contradicts the row has a reason that passes, an
  answer is (or was, and is still remembered) true, and the cache agrees with
  the row once the row stops changing;
* hub: nobody gets a message twice, a connection joins all its rooms, a
  message in flight reaches those who stay, send channels are closed once and
  never used afterwards, Shutdown returns;
* content indexing: no document is acknowledged before its handler has ended,
  "indexed" is shown only for a content that a run has taken through its storing step,
  and chunks are missing then only because no piece was worth storing or a request
  dropped them, a content that is stuck in "processing" can be asked for again, the
  topic is worked off;
* experiments: one version is published and it does not change, two publications
  that wait for each other end; evidence is numbered without gaps, a retry gets its
  first event, a completed run has its evidence and is sealed;
* lab submissions: the leaderboard shows the best entry in whatever order entries
  arrive, a row left PENDING has a known reason, an accepted submission is counted;
* roles: the synced roles come from the pushes that overlapped the last clear, the
  last one leaves all of its roles, what an administrator assigned by hand stays.

## 2. Modules

| Module | What it is |
|---|---|
| `QuizAttempt`, `MCQuizAttempt` | one quiz; each HTTP request is a small process with one step per SQL statement that reads or writes a contended row |
| `QuizAttemptProofs` | inductive invariant and theorems about `QuizAttempt` |
| `AccessGate` | abstract specification: what a cached membership check promises |
| `MembershipCache`, `MCMembershipCache` | the cache-aside code, step by step; refines `AccessGate` |
| `MembershipCacheProofs` | inductive invariant, staleness theorem and refinement proof |
| `ChatHub`, `MCChatHub`, `ChatHubProofs` | one replica of the chat hub, its instances, its invariants |
| `ContentIndex`, `MCContentIndex`, `ContentIndexProofs` | LMS, Kafka and AI worker around the index status of contents |
| `EvidenceLog` | abstract specification: the evidence of a run as an append-only list whose places callers are told |
| `LabVersions`, `MCLabVersions`, `LabVersionsProofs` | publication of experiment versions under row locks |
| `ExperimentRun`, `MCExperimentRun`, `ExperimentRunProofs` | trials, evidence and completion of one run; refines `EvidenceLog` |
| `LabSubmission`, `MCLabSubmission`, `LabSubmissionProofs` | submissions of one learner to one lab, and the leaderboard row |
| `RoleSync`, `MCRoleSync`, `RoleSyncProofs` | role pushes from the auth service to the LMS |

The MC modules only name model values, tables and symmetries. The definitions whose
names end in an underscore and a word, commented "Mutant", are plausible bugs used to
test that a property can fail; no specification uses them.

### QuizAttempt

`attempts` and `answers` are the tables, `req[s]` is the request that slot `s` is
serving: its program counter and the copies it took (`row` of the attempt, `old` of
the answer, `snap` for the answers the errgroup of SubmitQuiz will grade). The
number of slots is the number of requests that may overlap; a slot serves one
request after another. Program counters read `st...` (StartQuizAttempt), `an...`
(SubmitAnswer), `sb...` (SubmitQuiz), `gr...` (GradeAnswer), and the step names
follow the code's order. BulkGrade runs GradeAnswer for the answers of one attempt
one after another, which is what a slot does; several attempts are several slots.
UpdateStudentAnswer and UpdateAttempt write all mutable columns of the copy, so
`WriteAnswer` and `SaveAttempt` replace the row. `jobs` are the goroutines SubmitQuiz
detaches.

Abstracted: `tally`, the points per question that calculateAttemptScore read,
stands for total, earned, percentage and is_passed, which are computed from it;
an answer's data is a model value, right or wrong for an auto-graded question;
clock, permission and format checks only decide whether a request ends at once,
and such a request changes nothing; sending reviews to the AI service changes
nothing here. `max_attempts` NULL is 0. Nothing in the code ever writes the status ABANDONED.

### MembershipCache

One (student, course) pair. `flight[l]` is the singleflight call of loader `l` (each
service object of each replica owns one), `req[r]` a request that asks again and
again, `writer[w]` an enrollment handler: change the row, then delete the key.
`excused` is a history variable: the entry was stored by a load that a write
overtook, or its deletion was lost. The status WAITING exists in the code's
constants but nothing writes it. Reading the row again after UpdateStatus
(`DecideFetch`) and the ignored error of the duplicate check are modelled.

### ChatHub

`register`, `unregister`, `incoming` and `send[c]` are the bounded Go channels, a
send to a full one waits, drops or unregisters as in the code. `reader`, `writer`,
`worker`, `loop`, `forwarder` and `stage` are the program counters of ReadPump,
WritePump, broadcastWorker/fanOut, Run, the Redis forwarder and Shutdown. What Go
defines as a panic (second close, send on a closed channel) sets `crash`, after
which nothing moves: none of the hub's goroutines recovers. A peer's disconnect,
a network failure and a missed read deadline are one action. Presence keys
(best-effort strings with a TTL) and pings are left out.

### ContentIndex

`row`, `lms` are `section_content` and its index status; `ai` and `chunks` are the AI
service's `content_index_status` and `document_chunks`. `uploads`, `commands` and
`statuses` are the three topics, from the first record that is not committed.
`req[r]` is a call of TriggerContentAutoIndex (check, send, mark) or of PublishLesson
(create, mark, then a goroutine that calls the AI service: `pc` is the caller,
`server` the endpoint), or a Reset: POST /process-document (TriggerDocumentProcess
of the LMS), POST /auto-index with `force` (no caller in the repository), DELETE. A Reset
drops the chunks, writes "pending" or "processing" into the AI service's row and queues the
document; a DELETE, or one that fails on the way, stops after the first step. It never
touches the row of the LMS. `worker` is process_document_event: it writes "processing",
runs the document, writes the final status and commits; `fin`, `again`, `replay` are
the status it is about to write, whether the failure inside auto_index was already
written, and whether the record stays uncommitted after a cancellation. `beat` is
the heartbeat task, which the event loop can run between any two steps of the
handler until its finally block. The LMS consumer (`ConsumeStatus`) has committed
what it reads, so a failed update loses the event.

Abstracted: the clock is one flag per row (`fresh`), cleared by `AgeLms` and `AgeAi` as
long as no worker runs the document, because the heartbeat keeps rewriting both
rows; the pipeline from text to chunks is `WorkerStore`, which ends in an upsert by hash
that keeps what an earlier run stored, or stores nothing because the chunker kept no
piece, and goes on to "indexed" in both cases. `chunks[c]` is "stored" or not; the three
other values are one state of the program, history that tells why there is none. The two
stores of a chunk (PostgreSQL and Qdrant) are one. Mishaps share one bound: failed sends and writes,
crashes, cancellations and heartbeats. Left out: the `ai_jobs` rows, graph linking and
the graph and node-merged handlers, course-wide reindexing, AI generation commands.

### LabVersions

`row` and `lab` are the row locks, held until the transaction ends; a transaction's
writes appear with its commit. CreateVersion is one step because it holds the labs row
from start to end. The partial unique index on the published version is left out on
purpose: OnePublished then says that the locks are enough. `Deadlocked` is the one
cycle the lock order allows (a publication that holds the published version waits
for the lab whose holder wants to supersede that version).

### ExperimentRun

`lock` is the lab_runs row lock of AppendEvidence; CreateTrial holds it for one step.
CompleteRun reads, lists and then updates without a lock. `Supersede` is another
publication. As above the unique indexes are left out, so that the properties speak
of the locking. The list CompleteRun reads is the first `Page` events. Under `Log` the
committed events, in the order of their numbers, are the list of `EvidenceLog`; a
commit is its Record, a retry that finds its event its Repeat, an append that is done
has its reply, and every other step of an append is a stutter. The list takes nothing
back, takes nothing once the run is completed, and still answers retries then. That a
completed run is sealed (CompletedIsSealed) follows from it and is also proved by itself.

### LabSubmission

One learner and one lab. `call[r]` is a request, with one step per statement; `failed`
collects the statements that failed in it and `cutOff` says that its client hung up,
after which each of its statements fails. `sub[r]` and `saved[r]` are what it inserted,
`board` the leaderboard row, `cluster` the jobs Slurm has. The statuses a CHECK
constraint refuses are refused here (`RowStatuses`, `ResultStatuses`). Verdicts and run times
are the runtime's choice. `counted` is history: whose upsert was committed. The mock runners
of WORKSPACE, JUPYTER and CUSTOM labs are left out; CHEMISTRY stands for a lab type
that has no adapter.

### RoleSync

One user. `task[t]` is an edit in the auth service and its push; `post[<<t, n>>]` is the
`n`-th request of it, at the LMS. A push that times out is tried again while the
LMS still works on the first request. `rows` is `user_roles`. History: `last`, the request
whose DELETE came last, `mixed`, that one and those that were inserting at the time,
and `excused`, the roles lost to a failed INSERT or an administrator since.

## 3. Runs

All cfgs are named `<MC module>_<run>.cfg`. A run switches the deadlock check off where the
system really comes to rest: a hub with nothing to do, stopped or crashed, and
the models whose calls are bounded.

| Run | Question | Bounds | Result |
|---|---|---|---|
| `tabs` | two tabs of one student start, answer and submit at once | 1 student, 1 auto-graded question, 2 answers, 2 attempts, 2 slots | TypeOK, OneOpenAttempt, AutoPointsMatchData, NoReopen hold |
| `graders` | a student with one tab beside two teachers, statements fail, requests are cut off | 1 attempt, one essay and one choice question, 3 slots, one of them the student's | FinishedIsStamped, GradedIsComplete hold |
| `one_grader` | a student beside one teacher, no failures | limit 2, 3 attempts modelled, 2 questions, 2 slots | ScoreIsCurrent, AnswersFrozen, SubmittedContentCompletes hold |
| `fanout` | disconnects, drops and shutdown with tiny buffers | 2 clients, 2 channels, 2 messages, 2 workers, buffers of 1 or 2 | TypeOK (no queue over its capacity), AtMostOnce hold |
| `delivery` | the same without slow clients and shutdown | buffers of 2 for 2 messages | NoDoubleClose, Delivered, Joined hold |
| `gate` | two readers sharing a loader, two writers, failures | 2 enrollments ever created | TypeOK, StaleOnlyByRace, EventuallyFresh, GateSpec hold |
| `index` | a publication of one content and a request that is a trigger or a reset, one mishap | 1 content, 1 slot for trigger or reset, 1 publisher | TypeOK, AckedIsFinished, IndexedIsAccountedFor, RetryOpens, UploadsDrain hold |
| `publish` | two publications beside two validations | 3 versions, one with errors | TypeOK, OnePublished, PublishedIsFinal, PublishEnds hold |
| `evidence` | retried evidence races two completions | 3 appends with 3 client ids, 2 kinds, 2 trials | TypeOK, EvidenceNumbered, RetryReturnsOriginal, CompletedIsProven, LogSpec hold |
| `submit` | two submissions, one failure anywhere | limit 1, one test case that comes and goes, 3 verdicts, 2 run times | TypeOK, BoardIsBest, PendingIsExplained, AcceptedIsCounted hold |
| `roles` | two edits beside an administrator, two failures | 2 roles, 2 tries, 1 administrator's call | TypeOK, RolesFromOverlap, LastSyncIsThere, ManualSurvivesSync hold |
| `compile` | does an answered submission have its result? | as `submit`, without failures | GradedIsRecorded violated |

Why the bounds are enough. The quiz model needs two requests on one row for every
race the code has, since a step touches one row of one student; a third slot lets
a second teacher overlap a submit. The hub needs two workers for two fan-outs at once, two
channels for a client in two rooms, two clients so that one's removal can harm the
other. Queue capacities are scaled down (512 and 4096 in the code): what happens at
a full queue does not depend on its size. The cache needs two readers for a shared
flight and two writers for a write that overtakes another's invalidation; two
row ids let a deleted enrollment be created again. Contents do not share rows, only the
order of the topics, so one content with two records of its own has every race of
the status, and a mishap anywhere is enough to repeat, lose or delay one of them. A trigger and
a reset overlap the publication, not each other: that pair is left to the proofs.
Two publications make the lock cycle and a third version is what they may find
published. Three appends are needed for a refusal or rollback between two others,
two trials for the ITERATE rule. Two submissions are two writers of one board row; the
limit of one is reached by the first. Two pushes of two tries are up to four
requests in the LMS at once. What exceeds these instances is what the proofs cover.

What the quiz runs do not claim. GradedIsComplete, ScoreIsCurrent and AnswersFrozen
are checked with one browser tab (a student's requests come one at a time): with
two, TLC finds the answer written after a submit that overtook it. If it is an essay answer
it stands without points in an attempt that is shown as GRADED (`MCQuizAttempt_two_tabs`).
Two tabs also pass `max_attempts` together with overlapping starts (`MCQuizAttempt_limit`).
All of these are listed as hazards. AutoPointsMatchData
is checked without failures and without a teacher who grades auto-graded answers.
Graders open only answers that the grading list has shown (`GradeListedOnly`); the
endpoint itself accepts any answer id, also of an attempt in progress.

What the run `index` does not claim: that a content shown as "indexed" can be found. A document
with no piece of 80 characters that is not boilerplate is reported as indexed with no chunk
(`MCContentIndex_blank`), and a Reset leaves the LMS saying "indexed" while, and if it fails
after, it has dropped the chunks. IndexedIsAccountedFor says that nothing else does: no late
event, replay, stale row, overlapping run or deletion command.

### Fairness

* QuizAttempt: a started request gets to its next statement and detached goroutines
  run: Go schedules them and the database answers. Nobody is forced to send a
  request.
* ChatHub: weak fairness for every goroutine that can move; strong fairness for
  the cases of Run's select, because Go picks at random among ready cases.
  Connecting, disconnecting, publishing and stopping are not forced.
* MembershipCache: started requests and flights move on, Redis expires keys.
* ContentIndex: the worker takes records, gets through the statements of its
  handler and honours the limit of `document_index_timeout_minutes`; nothing forces a
  document to be finished, so a hanging one is included. The LMS reads its topic,
  and time passes.
* LabVersions: a statement that can run does, and PostgreSQL's deadlock detection fails
  one transaction of a cycle (`Deadlocked(p) /\ PublishRollback(p)`). No other
  rollback is forced.
* LabSubmission: a request that has begun goes on, with success or error, because the
  runtimes have deadlines of their own.

Requests, failures and crashes are never under fairness. ExperimentRun and RoleSync state
safety only.

### Finding

`compile`: a source that does not compile gets the overall status COMPILER_ERROR, which the CHECK
of `lab_submissions.status` does not know (it has COMPILE_ERROR). The update fails, its
error is dropped, the caller is answered 200 and the row stays PENDING and counts
against the limit. PROJECT.json quotes the places.

### Further configurations

These cfgs belong to no listed run. Each shows, on a small instance, a property that the code
does not have; the place it concerns is given with it. They are run by hand:
`tlc -config <cfg> <MC module>`.

| Configuration | Property TLC finds violated | Place |
|---|---|---|
| `MCQuizAttempt_resume` | ResumeNotRefused: an open attempt that uses up the limit cannot be resumed | `quiz_service.go:655-672` |
| `MCQuizAttempt_limit` | LimitKept with two tabs: the attempts are counted two statements before the row is inserted | `quiz_service.go:655-672` |
| `MCQuizAttempt_two_tabs` | GradedIsComplete with two tabs: an answer that passed the status check is inserted after the other tab's submit saved GRADED | `quiz_service.go:710`, `1548` |
| `MCQuizAttempt_grade_race` | ScoreIsCurrent with two teachers: the last save may hold the older score | `quiz_service.go:1015`, `1033` |
| `MCChatHub_slow_client` | NoDoubleClose: a slow client is unregistered by a worker and by ReadPump | `hub.go:351` |
| `MCChatHub_disconnect` | NoSendAfterClose: fanOut sends to a client that was removed after the room was copied | `client.go:27` |
| `MCChatHub_shutdown_hang` | ShutdownReturns: workers wait for room in a queue nobody reads | `hub.go:205` |
| `MCMembershipCache_denied` | EnrolledIsNotDenied: a cached "not found" denies a student for up to a minute | `loader.go:23` |
| `MCContentIndex_index_stuck` | NotLeftProcessing: the mark after the send overwrites the final status of a fast worker | `ai_handler.go:866` |
| `MCContentIndex_blank` | IndexedIsSearchable: a document without a piece worth storing is reported as indexed | `auto_index_service.py:1765`, `chunker.py:626-630` |
| `MCExperimentRun_paged` | RefusedIsMissing: CompleteRun sees the first page of 500 events | `experiment_service.go:285` |

Two more statements are defined and not checked by a cfg: AssignedIsManual (RoleSync) is false
for a role that is already there as 'sync', because of ON CONFLICT DO NOTHING
(`role_admin_service.go:55`), and BoardIsAccepted (LabSubmission) is false when the update
of a submission fails and the upsert after it does not.

## 4. Proofs

| Module | Theorem | States | Rests on |
|---|---|---|---|
| QuizAttemptProofs | `TypeCorrect` | `Spec => []TypeOK` | `IInv` |
| | `AttemptsInOrder` | `Spec => []OneOpenAttempt` | `IInv` |
| | `FinishedForGood` | `Spec => NoReopen` | `IInv`, step by step (`Kept`) |
| | `FinishedKeepsStamp` | `Spec => []FinishedIsStamped` (G) | `IInv`, `StampInv` |
| | `FinishedAnswersStay` | `Spec /\ []SubmitsAlone => AnswersFrozen` (G) | `IInv`, `Claims`, step by step |
| | `GradedHasAllPoints` | `Spec /\ []SubmitsAlone => []GradedIsComplete` (G) | `Claims`, `GradedInv` |
| | `QuietScoreIsCurrent` | `Spec /\ []SubmitsAlone /\ []OneGrader => []ScoreIsCurrent` (G, F) | `Claims`, `ScoreInv` |
| | `AutoPointsAreRight` | `Spec => []AutoPointsMatchData` (G, F) | `IInv`, `PointsInv` |
| | `LimitIsKept` | `Spec /\ []StartsAlone => []LimitKept` | `IInv`, `LimitInv` |
| | `OneTabIsSafe` | `Spec => AnswersFrozen /\ []GradedIsComplete` (G, OneTab) | the above, `ServesItsRole` |
| | `OneTabOneGraderScores` | `Spec => []ScoreIsCurrent` (G, F, OneTab, OneGraderSlot) | the above, `ServesItsRole` |
| | `OneStarterKeepsLimit` | `Spec => []LimitKept` (OneStarter) | the above, `ServesItsRole` |
| MembershipCacheProofs | `TypeCorrect` | `Spec => []TypeOK` | `Shape`, the row ids, who waits for which flight |
| | `StalenessExplained` | `Spec => []StaleOnlyByRace` | `Shape` and StaleOnlyByRace together |
| | `CacheImplementsGate` | `Spec => GateSpec` (refinement of AccessGate) | `Shape` |
| ChatHubProofs | `TypeCorrect` | `Spec => []TypeOK` | `Types` |
| | `NobodyHearsTwice` | `Spec => []AtMostOnce` | `Types`, `Line` |
| | `ClosedOnceUnlessSlow` | `Spec /\ []NobodySlow => []NoDoubleClose` | `Types`, `AskedOnce` |
| | `ClosedOnceWithRoom` | `Spec => []NoDoubleClose`, no more messages than a send buffer holds | `Types`, `Line`, a count of the buffer |
| ContentIndexProofs | `TypeCorrect` | `Spec => []TypeOK` | `Inv` |
| | `NothingIsAckedEarly` | `Spec => []AckedIsFinished` | `Inv` |
| | `IndexedHasReason` | `Spec => []IndexedIsAccountedFor` | `Inv` |
| LabVersionsProofs | `TypeCorrect` | `Spec => []TypeOK` | `LockInv`, `Numbered` |
| | `NumberedOnce` | `Spec => []NumbersAreUnique` | `Numbered` |
| | `NeverTwoPublished` | `Spec => []OnePublished` | `LockInv` |
| | `PublicationIsFinal` | `Spec => PublishedIsFinal` | `LockInv`, step by step |
| ExperimentRunProofs | `TypeCorrect` | `Spec => []TypeOK` | `Inv` |
| | `NumbersHaveNoGap` | `Spec => []EvidenceNumbered` | `Inv` |
| | `RetriesAgree` | `Spec => []RetryReturnsOriginal` | `Inv` |
| | `CompletionIsProven` | `Spec => []CompletedIsProven` | `Inv`, `ProvesMore` |
| | `CompletionSeals` | `Spec => CompletedIsSealed` | `Inv`, step by step |
| | `RefusalIsJust` | `Spec /\ [](lastSeq <= Page) => RefusedIsMissing` | `Inv`, `PageHasAll` |
| | `RunKeepsLog` | `Spec => LogSpec` (refinement of EvidenceLog) | `Inv`, one lemma per kind of step |
| LabSubmissionProofs | `TypeCorrect` | `Spec => []TypeOK` | `Inv` |
| | `BoardKeepsTheBest` | `Spec => []BoardIsBest` | `Inv` |
| | `PendingHasAReason` | `Spec => []PendingIsExplained` | `Inv` |
| RoleSyncProofs | `TypeCorrect` | `Spec => []TypeOK` | `Inv` |
| | `RolesExplained` | `Spec => []RolesFromOverlap` | `Inv` |
| | `LastPushArrives` | `Spec => []LastSyncIsThere` | `Inv` |
| | `ManualIsKept` | `Spec => ManualSurvivesSync` | `Inv`, step by step |

G stands for the hypothesis `GradeListedOnly`, F for `~Failures`. The theorems about
`Spec` hold for the fair specifications too, which only add conditions. Each module
assumes nothing but the named assumptions of the module it is about; numbers of
processes, rows, tries and failures are arbitrary (there are finitely many versions).
What some theorems assume besides is in their statement, because without it the
property is false, and the further configurations and the hazards show how:

* G: a grader opens answers from the grading list, which is where the service offers them
  for grading; the endpoint itself takes any id.
* F: no statement fails and no request is cut off. A grader cut off between the points and
  the row leaves the old score, and a submit cut off after some answers leaves points beside
  data the student may still change.
* SubmitsAlone, OneGrader and StartsAlone speak of the requests in flight: no other answer
  or submit of an attempt beside its submit, no two graders of one attempt, no two starts of
  one student. Different students, graders of different attempts and everything else may
  overlap. The three theorems named after OneTab, OneStarter and OneGraderSlot derive
  them from who sends the requests (`Role`), and are the ones the runs instantiate:
  `one_grader` has one such tab and one teacher.
* NobodySlow: no worker has found a full send buffer. ClosedOnceWithRoom derives it
  from the capacity, as in the run `delivery`.
* `lastSeq <= Page`: the run has no more events than CompleteRun reads.

QuizAttempt. OneOpenAttempt is not inductive: a start that has read the latest
attempt inserts its number several steps later. `ReqOK` remembers, per request in
flight, what its earlier reads still guarantee: below the number about to be
inserted every attempt is finished, and the row about to be saved is a finished
one of an attempt that exists. That nobody reopens an attempt keeps the first
fact true while others move (lemma `Frame`), which is why the invariant and NoReopen
are proved together, one lemma per handler. FinishedIsStamped adds what the copies in
flight contain (`Stamps`): a submit's copy is marked submitted, a grader's copy was read
from a finished attempt, and both have a score before they are saved. It needs the
hypothesis `GradeListedOnly`: a grader who opens an attempt in progress holds an
unstamped copy.

The other quiz theorems share a description of the handlers by what a step does to the
tables and to its request (`Effect`: it enters, reads, sums, ends, inserts, saves a row,
writes an answer, grades the snapshot or marks the points); one lemma per handler shows that
each step is one of these, and the invariants are then kept effect by effect. `Claims`
is what a request may rely on under SubmitsAlone: an answer or a submit works on an
attempt that is still open, a grader on one that is finished and on the data that is
in the row. Frozen answers are a consequence of it. `GradedInv` adds that points, once
all there, do not go away again, so that GRADED stays right after the copy it was computed
from is old. `ScoreInv` adds that the score of a finished attempt fits its answers unless a
grader has still to sum up. `PointsInv` needs no hypothesis about overlap: every copy of
an auto-graded answer pairs points with the data they were given for. `LimitInv` says what a
count still guarantees two statements later.

ChatHub. As far as one connection is concerned a message is in one place: the Redis
subscription, `incoming`, the copy of one worker, or the connection's own buffer and what
its peer has read (`Line`). An action moves it from one to the next; a drop loses it.
Type correctness (`Types`) is needed for the sequences, and has to know the capacities,
because sending to a full channel is what the guards exclude. NoDoubleClose rests on who asks
for a removal (`AskedOnce`): ReadPump does, once, when it ends, and a worker does only
when a buffer is full; so a client is in `unregister` or removed, never both, and never
twice. With room for every message in every buffer no buffer is ever full, since `Line` puts a
message there at most once.

MembershipCache. `Shape` is the type invariant without the bound on row ids. The
staleness theorem says which handlers may forget an entry: none. The row ids and the readers that
wait for a flight complete the type invariant: nobody waits for a flight that has landed. In the refinement
the truth is the row's answer and the values that may still be told are the row's,
the entry's and those of loads between their query and their SetJSON; a load is
then a step of the gate because it makes a true value remembered a little longer,
and a value once forgotten returns only by becoming true.

ContentIndex. Whatever says "indexed" has to be right before it reaches a table: the
invariant speaks of the event on its way (`Announced`) and of the worker about to write
(`Working`) as of the tables (`Reported`), and needs that a command to erase chunks is only
about a deleted content (`Commanded`). Acknowledgement needs that a record leaves the
topic only with its handler ended (`Logged`, `Finishing`). Topics are treated as
sets of records (`AppendElems`, `TailElems`).

LabVersions. `LockInv` says who holds what: past the labs row a publication is
alone, its own version stays VALIDATED, and before it commits it holds every published
row, so nobody else can publish or supersede under it. The version numbers play no
part in that and `Shape` leaves them out; `Numbered` says that the versions created so far have the
numbers from 1 to their count, so the next one is new, and is why the versions must be finitely
many.

ExperimentRun. The lock is held exactly by the append in progress (`LockHeld`), so what it
has looked up stays true (`Looked`) and its number is the next one (`Numbering`). Completion
is safe without a lock because events are only added and more events prove more
(`ProvesMore`, over the cardinality of the set of trials). A refusal is just while the page
has all events, because fewer than n events have a number below n (`PageHasAll`). In the
refinement a number has one event (`EntryOf`), so a commit leaves the entries before it
where they are (`LogCommit`), and what a retry is told is the place of an entry with its key
(`LogTurns`).

LabSubmission. `Fits(r)` ties a request's program counter to the row it inserted, the
results it holds and the failures it has seen; `Better` being a strict order on (score, time)
makes the merged row the best of the counted ones.

RoleSync. Whoever inserts is counted in `mixed` (`Overlap`), and the last request's roles are
there except those it has still to insert (`LastIsComing`).

Only model-checked: the liveness properties (SubmittedContentCompletes, Delivered, Joined,
EventuallyFresh, RetryOpens, UploadsDrain, PublishEnds, AcceptedIsCounted), which are out of the
prover's reach as far as they rest on fairness. Every invariant a passing run checks has a theorem.

## 5. Not modelled, and what comes next

Left out because one statement or transaction does the whole work and a unit test
reaches it: the CRUD of courses, forums, organizations, permissions, flashcards, chat messages,
tasks. Left out because the behaviour is in a model, a number or another system: agents,
RAG, mastery estimation, recommender, the execution of code. Left out of modelled
components: quiz authoring, chat presence and pings, graph linking and AI generation
commands, mock lab runners, the `ai_jobs` rows.

Next, in this order:

1. `QuizGrading`: the four grading functions as operators, checked against references
   that do not depend on the order of options and keys.
2. The AI generation jobs: `ai_jobs` rows, command topic and their consumer, as an abstract
   job that `ContentIndex` and the generation pipeline both implement.
3. Proofs: GradedIsComplete without GradeListedOnly for attempts that were submitted before
   they are graded; the safety part of Delivered (a message is lost only with its client).
4. `ContentIndex` with the graph handlers, `LabSubmission` with the callbacks of HPC jobs once
   the service has them.
