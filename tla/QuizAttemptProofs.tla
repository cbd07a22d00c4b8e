------------------------- MODULE QuizAttemptProofs -------------------------
(* Proofs about QuizAttempt, for every value of its constants. *)
EXTENDS QuizAttempt, FiniteSetTheorems, WellFoundedInduction, TLAPS

(* A non-empty bounded set of naturals has a maximum, and Max returns it. *)
LEMMA MaxOfBounded ==
    ASSUME NEW N \in Nat, NEW S \in SUBSET (0..N), S # {}
    PROVE  Max(S) \in S /\ \A y \in S : y <= Max(S)
<1> DEFINE R == OpToRel(<, Nat)
           T == {N - x : x \in S}
<1>1. IsWellFoundedOn(R, Nat)
  BY NatLessThanWellFounded
<1> HIDE DEF R
<1>2. T \subseteq Nat /\ T # {}
  <2>1. \A x \in S : N - x \in Nat
    OBVIOUS
  <2>2. PICK x \in S : TRUE
    OBVIOUS
  <2>3. N - x \in T
    OBVIOUS
  <2> QED
    BY <2>1, <2>3
<1> HIDE DEF T
<1>3. \E t \in T : \A y \in T : ~ (<<y, t>> \in R)
  BY <1>1, <1>2, WFMin
<1>4. PICK t \in T : \A y \in T : ~ (<<y, t>> \in R)
  BY <1>3
<1>5. \A y \in T : ~ (y < t)
  <2> SUFFICES ASSUME NEW y \in T, y < t PROVE FALSE
    OBVIOUS
  <2>1. <<y, t>> \in R
    BY <1>2 DEF R, OpToRel
  <2> QED
    BY <2>1, <1>4
<1>6. PICK m \in S : t = N - m
  BY <1>4 DEF T
<1>7. \A y \in S : m >= y
  <2> SUFFICES ASSUME NEW y \in S PROVE m >= y
    OBVIOUS
  <2>1. N - y \in T
    BY DEF T
  <2> QED
    BY <2>1, <1>5, <1>6
<1> QED
  BY <1>6, <1>7 DEF Max

-----------------------------------------------------------------------------
(***************************************************************************)
(* The inductive invariant.  OneOpenAttempt alone is not inductive: a      *)
(* StartQuizAttempt that has read the latest attempt inserts its number    *)
(* later, so the finished attempts below that number must be remembered in *)
(* ReqOK, and a request about to write a whole attempt row must hold a     *)
(* finished one for an attempt that exists.                                *)
(***************************************************************************)
ReqOK(s) ==
    LET r == req[s] IN
    /\ r.pc \in StartPC => r.stu \in Students
    /\ r.pc = "stInsert" => /\ r.num \in Nums
                            /\ \A m \in 1..(r.num - 1) : Finished(r.stu, m)
    /\ r.pc \in AnswerPC \cup SubmitPC \cup GradePC =>
          r.stu \in Students /\ r.num \in Nums /\ attempts[r.stu][r.num] # None
    /\ r.pc \in AnswerPC => r.q \in Questions /\ r.in \in Data
    /\ r.pc = "anAuto" => r.old \in Answer
    /\ r.pc \in SubmitPC \cup {"grWrite", "grScore", "grSave"} => r.row \in Attempt
    /\ r.pc \in {"sbSave", "grSave"} => r.row.status # "IN_PROGRESS"
    /\ r.pc \in GradePC => r.q \in Questions /\ r.in \in Nat /\ r.old \in Answer

IInv == TypeOK /\ OneOpenAttempt /\ \A s \in Slots : ReqOK(s)

\* What NoReopen says of one step.
Kept == \A u \in Students, n \in Nums :
           /\ attempts[u][n] # None => attempts'[u][n] # None
           /\ Finished(u, n) => Finished(u, n)'

PCs == {"idle"} \cup StartPC \cup AnswerPC \cup SubmitPC \cup GradePC

\* The initial state satisfies the inductive invariant.
LEMMA InitIInv == Init => IInv
<1> SUFFICES ASSUME Init PROVE IInv
  OBVIOUS
<1> USE QuizAssumption, NoneAssumption
<1>1. Idle \in Request
  BY DEF Idle, Request
<1>2. TypeOK
  BY <1>1 DEF Init, TypeOK
<1>3. OneOpenAttempt
  BY DEF Init, OneOpenAttempt
<1>4. \A s \in Slots : ReqOK(s)
  BY DEF Init, ReqOK, Idle, StartPC, AnswerPC, SubmitPC, GradePC
<1> QED
  BY <1>2, <1>3, <1>4 DEF IInv


(* One slot moves: the others keep their requests, and what they rely on. *)
LEMMA Frame ==
    ASSUME IInv, NEW s \in Slots,
           req' \in [Slots -> Request],
           \A t \in Slots \ {s} : req'[t] = req[t],
           attempts' \in [Students -> [Nums -> Attempt \cup {None}]],
           answers' \in [Students -> [Nums -> [Questions -> Answer \cup {None}]]],
           jobs' \subseteq {"analytics", "complete"} \X Students \X Nat \X Slots,
           UNCHANGED <<completed, aggregates>>,
           Kept, OneOpenAttempt', ReqOK(s)'
    PROVE  IInv'
<1>1. TypeOK'
  BY DEF IInv, TypeOK
<1>2. ASSUME NEW t \in Slots \ {s} PROVE ReqOK(t)'
  <2>1. ReqOK(t) /\ req'[t] = req[t]
    BY DEF IInv
  <2>2. ASSUME req[t].pc = "stInsert"
        PROVE  \A m \in 1..(req[t].num - 1) : Finished(req[t].stu, m)'
    <3>1. req[t].stu \in Students /\ req[t].num \in Nums
      BY <2>1, <2>2 DEF ReqOK, StartPC
    <3>2. \A m \in 1..(req[t].num - 1) : m \in Nums /\ Finished(req[t].stu, m)
      BY <2>1, <2>2, <3>1, QuizAssumption DEF ReqOK, Nums
    <3> QED
      BY <3>1, <3>2, <2>1 DEF Kept
  <2>3. req[t].pc \in AnswerPC \cup SubmitPC \cup GradePC
           => attempts'[req[t].stu][req[t].num] # None
    BY <2>1 DEF ReqOK, Kept
  <2> QED
    BY <2>1, <2>2, <2>3 DEF ReqOK
<1> QED
  BY <1>1, <1>2 DEF IInv

(* ... and the attempts are as they were. *)
LEMMA FrameReq ==
    ASSUME IInv, NEW s \in Slots, NEW r \in Request,
           req' = [req EXCEPT ![s] = r],
           answers' \in [Students -> [Nums -> [Questions -> Answer \cup {None}]]],
           UNCHANGED <<attempts, jobs, completed, aggregates>>,
           ReqOK(s)'
    PROVE  IInv' /\ Kept
<1>1. Kept /\ OneOpenAttempt'
  BY DEF IInv, OneOpenAttempt, Kept, Finished
<1> QED
  BY <1>1, Frame DEF IInv, TypeOK

\* A slot that serves nobody is a well-formed request.
LEMMA IdleOK == Idle \in Request /\ Idle.pc = "idle"
BY NoneAssumption DEF Idle, Request

(* A request that ends leaves nothing to rely on. *)
LEMMA FrameFinish ==
    ASSUME IInv, NEW s \in Slots, Finish(s),
           answers' \in [Students -> [Nums -> [Questions -> Answer \cup {None}]]],
           UNCHANGED <<attempts, jobs, completed, aggregates>>
    PROVE  IInv' /\ Kept
<1>1. req'[s] = Idle
  BY DEF Finish, IInv, TypeOK
<1>2. ReqOK(s)'
  BY <1>1, IdleOK DEF ReqOK, StartPC, AnswerPC, SubmitPC, GradePC
<1> QED
  BY <1>2, IdleOK, FrameReq DEF Finish

-----------------------------------------------------------------------------
(* One lemma per kind of request. *)

\* GetStudentLatestAttempt returns no row or one that exists.
LEMMA LatestIsLast ==
    ASSUME TypeOK, NEW u \in Students
    PROVE  /\ Latest(u) \in 0..AttemptBound
           /\ Latest(u) # 0 => Latest(u) \in Nums /\ Exists(u, Latest(u))
<1> DEFINE S == {0} \cup {n \in Nums : Exists(u, n)}
<1>1. S \in SUBSET (0..AttemptBound) /\ S # {} /\ AttemptBound \in Nat
  BY QuizAssumption DEF Nums
<1>2. Max(S) \in S
  BY <1>1, MaxOfBounded
<1> QED
  BY <1>1, <1>2 DEF Latest

\* StartQuizAttempt keeps the invariant and the finished attempts.
LEMMA StartStep ==
    ASSUME IInv, NEW s \in Slots,
           StartBegin(s) \/ StartCount(s) \/ StartLatest(s) \/ StartInsert(s)
    PROVE  IInv' /\ Kept
<1> USE DEF IInv, TypeOK
<1>0. ReqOK(s) /\ req[s] \in Request /\ QuizAssumption /\ NoneAssumption
  BY QuizAssumption, NoneAssumption
<1>1. CASE StartBegin(s)
  <2>1. PICK u \in Students :
          req' = [req EXCEPT ![s] = [Idle EXCEPT !.pc = "stCount", !.stu = u]]
    BY <1>1 DEF StartBegin, Begin
  <2>2. [Idle EXCEPT !.pc = "stCount", !.stu = u] \in Request
    BY <1>0 DEF Idle, Request, StartPC
  <2>3. ReqOK(s)'
    BY <2>1 DEF ReqOK, Idle, StartPC, AnswerPC, SubmitPC, GradePC
  <2> QED
    BY <1>1, <2>1, <2>2, <2>3, FrameReq DEF StartBegin
<1>2. CASE StartCount(s)
  <2>1. CASE Finish(s)
    BY <1>2, <2>1, FrameFinish DEF StartCount
  <2>2. CASE Goto(s, "stLatest")
    <3>1. req' = [req EXCEPT ![s] = [req[s] EXCEPT !.pc = "stLatest"]]
      BY <2>2 DEF Goto
    <3>2. [req[s] EXCEPT !.pc = "stLatest"] \in Request
      BY <1>0 DEF Request, StartPC
    <3>3. ReqOK(s)'
      BY <1>0, <1>2, <3>1 DEF StartCount, ReqOK, StartPC, AnswerPC, SubmitPC, GradePC, Request
    <3> QED
      BY <1>2, <3>1, <3>2, <3>3, FrameReq DEF StartCount
  <2> QED
    BY <1>2, <2>1, <2>2 DEF StartCount
<1>3. CASE StartLatest(s)
  <2>0. PICK u \in Students : u = req[s].stu
    BY <1>0, <1>3 DEF StartLatest, ReqOK, StartPC
  <2>1. PICK n \in 0..AttemptBound :
           /\ n = Latest(u)
           /\ n # 0 => n \in Nums /\ attempts[u][n] # None
    BY LatestIsLast DEF Exists
  <2>2. CASE Finish(s)
    BY <1>3, <2>2, FrameFinish DEF StartLatest
  <2>3. CASE /\ ~ (n # 0 /\ attempts[u][n].status = "IN_PROGRESS")
             /\ n # AttemptBound
             /\ req' = [req EXCEPT ![s].pc = "stInsert", ![s].num = n + 1]
    <3> DEFINE r == [req[s] EXCEPT !.pc = "stInsert", !.num = n + 1]
    <3>1. n + 1 \in Nums /\ n + 1 \in Nat
      BY <2>3, QuizAssumption DEF Nums
    <3>2. \A m \in 1..n : Finished(u, m)
      <4> SUFFICES ASSUME NEW m \in 1..n PROVE Finished(u, m)
        OBVIOUS
      <4>1. n \in Nums /\ attempts[u][n] # None
        BY <2>1
      <4>2. CASE m = n
        BY <4>1, <4>2, <2>3 DEF Finished
      <4>3. CASE m # n
        <5>1. m \in 1..(n - 1)
          BY <4>3
        <5> QED
          BY <4>1, <5>1 DEF OneOpenAttempt
      <4> QED
        BY <4>2, <4>3
    <3>3. r \in Request
      BY <1>0, <3>1 DEF Request, StartPC
    <3>4. req' = [req EXCEPT ![s] = r]
      BY <2>3
    <3>5. /\ req'[s] = r /\ r.pc = "stInsert" /\ r.num = n + 1 /\ r.stu = u
      BY <1>0, <2>0, <3>4 DEF Request
    <3> HIDE DEF r
    <3>6. \A m \in 1..((n + 1) - 1) : Finished(u, m)'
      BY <1>3, <3>2 DEF StartLatest, Finished
    <3>7. ReqOK(s)'
      BY <3>1, <3>5, <3>6 DEF ReqOK, StartPC, AnswerPC, SubmitPC, GradePC
    <3> QED
      BY <1>3, <3>3, <3>4, <3>7, FrameReq DEF StartLatest
  <2> QED
    BY <1>3, <2>0, <2>1, <2>2, <2>3 DEF StartLatest
<1>4. CASE StartInsert(s)
  <2> DEFINE u == req[s].stu
             n == req[s].num
  <2>1. /\ u \in Students /\ n \in Nums
        /\ \A m \in 1..(n - 1) : Finished(u, m)
    BY <1>0, <1>4 DEF StartInsert, ReqOK, StartPC
  <2>2. CASE attempts[u][n] # None
    BY <1>4, <2>2, FrameFinish DEF StartInsert
  <2>3. CASE attempts[u][n] = None
    <3>1. attempts' = [attempts EXCEPT ![u][n] = NewAttempt]
      BY <1>4, <2>3 DEF StartInsert
    <3>2. NewAttempt \in Attempt /\ NewAttempt # None
      <4>1. NewAttempt \in Attempt
        BY DEF NewAttempt, Attempt, Status
      <4> QED
        BY <4>1, NoneAssumption
    <3>3. attempts' \in [Students -> [Nums -> Attempt \cup {None}]]
      BY <3>1, <3>2
    <3>4. Kept
      BY <2>1, <2>3, <3>1, <3>2 DEF Kept, Finished
    <3>5. OneOpenAttempt'
      <4> SUFFICES ASSUME NEW v \in Students, NEW k \in Nums, attempts'[v][k] # None,
                          NEW m \in 1..(k - 1)
                   PROVE  Finished(v, m)'
        BY DEF OneOpenAttempt
      <4>1. m \in Nums
        BY <1>0 DEF Nums
      <4>2. Finished(v, m)
        <5>1. CASE v = u /\ k = n
          BY <2>1, <5>1
        <5>2. CASE ~ (v = u /\ k = n)
          <6>1. attempts[v][k] # None
            BY <2>1, <3>1, <5>2
          <6> QED
            BY <6>1 DEF OneOpenAttempt
        <5> QED
          BY <5>1, <5>2
      <4> QED
        BY <3>4, <4>1, <4>2 DEF Kept
    <3>6. req' = [req EXCEPT ![s] = Idle]
      BY <1>4 DEF StartInsert, Finish
    <3>7. ReqOK(s)'
      BY <3>6, IdleOK DEF ReqOK, StartPC, AnswerPC, SubmitPC, GradePC
    <3> QED
      BY <1>4, <3>3, <3>4, <3>5, <3>6, <3>7, IdleOK, Frame DEF StartInsert
  <2> QED
    BY <2>2, <2>3
<1> QED
  BY <1>1, <1>2, <1>3, <1>4

\* Auto-grading yields a number of points, whatever the data is.
LEMMA GradedType == \A d : \A q \in Questions : Graded(q, d) \in Nat
BY QuizAssumption DEF Graded

\* SubmitAnswer keeps the invariant and the attempts.
LEMMA AnswerStep ==
    ASSUME IInv, NEW s \in Slots,
           AnswerBegin(s) \/ AnswerRead(s) \/ AnswerWrite(s) \/ AnswerAuto(s)
    PROVE  IInv' /\ Kept
<1> USE DEF IInv, TypeOK
<1>0. ReqOK(s) /\ req[s] \in Request
  OBVIOUS
<1>1. CASE AnswerBegin(s)
  <2>1. PICK u \in Students, n \in Nums, q \in Questions, d \in Data :
          /\ attempts[u][n] # None
          /\ req' = [req EXCEPT ![s] = [Idle EXCEPT !.pc = "anRead", !.stu = u,
                                        !.num = n, !.q = q, !.in = d]]
    <3>1. PICK u \in Students, n \in Nums, q \in Questions, d \in Data :
             /\ Exists(u, n)
             /\ Begin(s, "answer", [Idle EXCEPT !.pc = "anRead", !.stu = u, !.num = n,
                                                !.q = q, !.in = d])
      BY <1>1 DEF AnswerBegin
    <3> QED
      BY <3>1 DEF Begin, Exists
  <2> DEFINE r == [Idle EXCEPT !.pc = "anRead", !.stu = u, !.num = n, !.q = q, !.in = d]
  <2>2. r \in Request
    <3>1. n \in Nat
      BY QuizAssumption DEF Nums
    <3> QED
      BY <3>1, IdleOK DEF Request, AnswerPC
  <2>3. ReqOK(s)'
    BY <1>1, <2>1 DEF AnswerBegin, ReqOK, Idle, StartPC, AnswerPC, SubmitPC, GradePC
  <2> QED
    BY <1>1, <2>1, <2>2, <2>3, FrameReq DEF AnswerBegin
<1>2. CASE AnswerRead(s)
  <2> DEFINE a == answers[req[s].stu][req[s].num][req[s].q]
             r == [req[s] EXCEPT !.pc = "anWrite", !.old = a]
  <2>1. a \in Answer \cup {None}
    BY <1>0, <1>2 DEF AnswerRead, ReqOK, AnswerPC
  <2>2. r \in Request
    BY <1>0, <2>1 DEF Request, AnswerPC
  <2>3. req' = [req EXCEPT ![s] = r]
    BY <1>2 DEF AnswerRead
  <2>4. ReqOK(s)'
    BY <1>0, <1>2, <2>3 DEF AnswerRead, ReqOK, Request, StartPC, AnswerPC, SubmitPC, GradePC
  <2> QED
    BY <1>2, <2>2, <2>3, <2>4, FrameReq DEF AnswerRead
<1>3. CASE AnswerWrite(s)
  <2> DEFINE r == req[s]
             a == IF r.old # None
                  THEN [r.old EXCEPT !.data = r.in]
                  ELSE [data |-> r.in, pts |-> None, byTeacher |-> FALSE]
  <2>1. r.stu \in Students /\ r.num \in Nums /\ r.q \in Questions /\ r.in \in Data
    BY <1>0, <1>3 DEF AnswerWrite, ReqOK, AnswerPC
  <2>2. a \in Answer
    BY <1>0, <2>1 DEF Request, Answer
  <2>3. CASE Finish(s) /\ UNCHANGED answers
    BY <1>3, <2>3, FrameFinish DEF AnswerWrite
  <2>4. CASE /\ WriteAnswer(r.stu, r.num, r.q, a)
             /\ Finish(s)
    <3>1. answers' \in [Students -> [Nums -> [Questions -> Answer \cup {None}]]]
      BY <2>1, <2>2, <2>4 DEF WriteAnswer
    <3> QED
      BY <1>3, <2>4, <3>1, FrameFinish DEF AnswerWrite
  <2>5. CASE /\ WriteAnswer(r.stu, r.num, r.q, a)
             /\ req' = [req EXCEPT ![s].pc = "anAuto", ![s].old = a]
    <3> DEFINE rr == [req[s] EXCEPT !.pc = "anAuto", !.old = a]
    <3> HIDE DEF a
    <3>1. answers' \in [Students -> [Nums -> [Questions -> Answer \cup {None}]]]
      BY <2>1, <2>2, <2>5 DEF WriteAnswer
    <3>2. rr \in Request
      BY <1>0, <2>2 DEF Request, AnswerPC
    <3>3. req' = [req EXCEPT ![s] = rr]
      BY <2>5
    <3>4. ReqOK(s)'
      BY <1>0, <1>3, <2>2, <3>3
         DEF AnswerWrite, ReqOK, Request, StartPC, AnswerPC, SubmitPC, GradePC
    <3> QED
      BY <1>3, <3>1, <3>2, <3>3, <3>4, FrameReq DEF AnswerWrite
  <2> QED
    BY <1>3, <2>3, <2>4, <2>5 DEF AnswerWrite
<1>4. CASE AnswerAuto(s)
  <2>1. /\ req[s].stu \in Students /\ req[s].num \in Nums /\ req[s].q \in Questions
        /\ req[s].old \in Answer
    BY <1>0, <1>4 DEF AnswerAuto, ReqOK, AnswerPC
  <2>2. AutoGraded(req[s].q, req[s].old) \in Answer
    BY <2>1, GradedType DEF AutoGraded, Answer
  <2>3. answers' \in [Students -> [Nums -> [Questions -> Answer \cup {None}]]]
    BY <1>4, <2>1, <2>2 DEF AnswerAuto, WriteAnswer
  <2> QED
    BY <1>4, <2>3, FrameFinish DEF AnswerAuto
<1> QED
  BY <1>1, <1>2, <1>3, <1>4

\* calculateAttemptScore yields a well-formed, finished row.
LEMMA ScoredType ==
    ASSUME TypeOK, NEW u \in Students, NEW n \in Nums, NEW row \in Attempt
    PROVE  Scored(row, u, n) \in Attempt /\ Scored(row, u, n).status # "IN_PROGRESS"
<1>1. Scores(u, n) \in Tally
  BY DEF Scores, Tally, TypeOK, Answer
<1> QED
  BY <1>1 DEF Scored, Attempt, Status

(* UpdateAttempt of a finished copy over a row that exists. *)
LEMMA SaveAttemptOK ==
    ASSUME IInv, NEW s \in Slots, SaveAttempt(req[s]), Finish(s),
           req[s].stu \in Students, req[s].num \in Nums,
           attempts[req[s].stu][req[s].num] # None,
           req[s].row \in Attempt, req[s].row.status # "IN_PROGRESS",
           jobs' \subseteq {"analytics", "complete"} \X Students \X Nat \X Slots,
           UNCHANGED <<answers, completed, aggregates>>
    PROVE  IInv' /\ Kept
<1> USE DEF IInv, TypeOK
<1> DEFINE u == req[s].stu
           n == req[s].num
           row == req[s].row
<1>1. attempts' = [attempts EXCEPT ![u][n] = row]
  BY DEF SaveAttempt
<1>2. row # None
  BY NoneAssumption
<1>3. attempts' \in [Students -> [Nums -> Attempt \cup {None}]]
  BY <1>1
<1>4. Kept
  BY <1>1, <1>2 DEF Kept, Finished
<1>5. OneOpenAttempt'
  <2> SUFFICES ASSUME NEW v \in Students, NEW k \in Nums, attempts'[v][k] # None,
                      NEW m \in 1..(k - 1)
               PROVE  Finished(v, m)'
    BY DEF OneOpenAttempt
  <2>1. m \in Nums
    BY QuizAssumption DEF Nums
  <2>2. attempts[v][k] # None
    BY <1>1
  <2>3. Finished(v, m)
    BY <2>2 DEF OneOpenAttempt
  <2> QED
    BY <1>4, <2>1, <2>3 DEF Kept
<1>6. req' = [req EXCEPT ![s] = Idle]
  BY DEF Finish
<1>7. ReqOK(s)'
  BY <1>6, IdleOK DEF ReqOK, StartPC, AnswerPC, SubmitPC, GradePC
<1> QED
  BY <1>3, <1>4, <1>5, <1>6, <1>7, IdleOK, Frame

\* SubmitQuiz keeps the invariant and the finished attempts.
LEMMA SubmitStep ==
    ASSUME IInv, NEW s \in Slots,
           \/ SubmitBegin(s) \/ SubmitList(s) \/ SubmitAutoOne(s) \/ SubmitAutoSkip(s)
           \/ SubmitWait(s) \/ SubmitScore(s) \/ SubmitSave(s)
    PROVE  IInv' /\ Kept
<1> USE DEF IInv, TypeOK
<1>0. ReqOK(s) /\ req[s] \in Request
  OBVIOUS
<1>1. CASE SubmitBegin(s)
  <2>1. PICK u \in Students, n \in Nums :
          /\ Exists(u, n)
          /\ Begin(s, "submit",
                   [Idle EXCEPT !.pc = IF AutoGrade THEN "sbList" ELSE "sbScore",
                                !.stu = u, !.num = n,
                                !.row = [attempts[u][n] EXCEPT !.submitted = TRUE,
                                                               !.status = "SUBMITTED"]])
    BY <1>1 DEF SubmitBegin
  <2> DEFINE row == [attempts[u][n] EXCEPT !.submitted = TRUE, !.status = "SUBMITTED"]
             r == [Idle EXCEPT !.pc = IF AutoGrade THEN "sbList" ELSE "sbScore",
                               !.stu = u, !.num = n, !.row = row]
  <2>2. attempts[u][n] \in Attempt
    BY <2>1 DEF Exists
  <2>3. row \in Attempt
    BY <2>2 DEF Attempt, Status
  <2>4. r \in Request
    <3>1. n \in Nat
      BY QuizAssumption DEF Nums
    <3> HIDE DEF row
    <3> QED
      BY <2>3, <3>1, IdleOK DEF Request, SubmitPC
  <2>5. req' = [req EXCEPT ![s] = r]
    BY <2>1 DEF Begin
  <2>6. /\ r.pc \in {"sbList", "sbScore"} /\ r.stu = u /\ r.num = n /\ r.row = row
    BY IdleOK DEF Request
  <2> HIDE DEF r, row
  <2>7. ReqOK(s)'
    BY <1>1, <2>1, <2>3, <2>5, <2>6
       DEF SubmitBegin, Exists, ReqOK, StartPC, AnswerPC, SubmitPC, GradePC
  <2> QED
    BY <1>1, <2>4, <2>5, <2>7, FrameReq DEF SubmitBegin
<1>2. ASSUME req[s].pc \in {"sbList", "sbAuto", "sbScore"},
             NEW r \in Request,
             r.pc \in {"sbAuto", "sbScore"},
             r.stu = req[s].stu, r.num = req[s].num, r.row = req[s].row,
             req' = [req EXCEPT ![s] = r], UNCHANGED attempts
      PROVE  ReqOK(s)'
  BY <1>0, <1>2 DEF ReqOK, StartPC, AnswerPC, SubmitPC, GradePC
<1>3. CASE SubmitList(s)
  <2> DEFINE snap == [q \in Questions |-> IF q \in AutoQuestions
                                         THEN answers[req[s].stu][req[s].num][q]
                                         ELSE None]
             r == [req[s] EXCEPT !.pc = "sbAuto", !.snap = snap]
  <2>1. snap \in [Questions -> Answer \cup {None}]
    BY <1>0, <1>3 DEF SubmitList, ReqOK, SubmitPC
  <2>2. r \in Request
    BY <1>0, <2>1 DEF Request, SubmitPC
  <2>3. req' = [req EXCEPT ![s] = r]
    BY <1>3 DEF SubmitList
  <2>4. /\ r.pc = "sbAuto" /\ r.stu = req[s].stu /\ r.num = req[s].num
        /\ r.row = req[s].row
    BY <1>0 DEF Request
  <2> HIDE DEF r
  <2> QED
    BY <1>2, <1>3, <2>2, <2>3, <2>4, FrameReq DEF SubmitList
<1>4. CASE SubmitAutoOne(s) \/ SubmitAutoSkip(s)
  <2>1. PICK q \in Questions :
          /\ req[s].pc = "sbAuto"
          /\ req[s].snap[q] # None
          /\ req' = [req EXCEPT ![s].snap[q] = None]
          /\ \/ UNCHANGED answers
             \/ WriteAnswer(req[s].stu, req[s].num, q, AutoGraded(q, req[s].snap[q]))
    BY <1>4 DEF SubmitAutoOne, SubmitAutoSkip
  <2> DEFINE r == [req[s] EXCEPT !.snap = [req[s].snap EXCEPT ![q] = None]]
  <2>2. r \in Request
    BY <1>0 DEF Request
  <2>3. req' = [req EXCEPT ![s] = r]
    BY <2>1, <1>0 DEF Request
  <2>4. /\ r.pc = "sbAuto" /\ r.stu = req[s].stu /\ r.num = req[s].num
        /\ r.row = req[s].row
    BY <1>0, <2>1 DEF Request
  <2>5. answers' \in [Students -> [Nums -> [Questions -> Answer \cup {None}]]]
    <3>1. req[s].snap[q] \in Answer
      BY <1>0, <2>1 DEF Request
    <3>2. AutoGraded(q, req[s].snap[q]) \in Answer
      BY <3>1, GradedType DEF AutoGraded, Answer
    <3>3. req[s].stu \in Students /\ req[s].num \in Nums
      BY <1>0, <2>1 DEF ReqOK, SubmitPC
    <3>4. CASE UNCHANGED answers
      BY <3>4
    <3>5. CASE WriteAnswer(req[s].stu, req[s].num, q, AutoGraded(q, req[s].snap[q]))
      <4> DEFINE a == AutoGraded(q, req[s].snap[q])
                 u == req[s].stu
                 n == req[s].num
      <4>1. answers' = [answers EXCEPT ![u][n][q] = a]
        BY <3>5 DEF WriteAnswer
      <4>2. a \in Answer /\ u \in Students /\ n \in Nums
        BY <3>2, <3>3
      <4> HIDE DEF a, u, n, r
      <4> QED
        BY <4>1, <4>2
    <3> QED
      BY <2>1, <3>4, <3>5
  <2> HIDE DEF r
  <2> QED
    BY <1>2, <1>4, <2>1, <2>2, <2>3, <2>4, <2>5, FrameReq
       DEF SubmitAutoOne, SubmitAutoSkip
<1>5. CASE SubmitWait(s)
  <2> DEFINE r == [req[s] EXCEPT !.pc = "sbScore"]
  <2>1. r \in Request
    BY <1>0 DEF Request, SubmitPC
  <2>2. req' = [req EXCEPT ![s] = r]
    BY <1>5 DEF SubmitWait, Goto
  <2>3. /\ r.pc = "sbScore" /\ r.stu = req[s].stu /\ r.num = req[s].num
        /\ r.row = req[s].row
    BY <1>0 DEF Request
  <2> HIDE DEF r
  <2> QED
    BY <1>2, <1>5, <2>1, <2>2, <2>3, FrameReq DEF SubmitWait
<1>6. CASE SubmitScore(s)
  <2> DEFINE row == Scored(req[s].row, req[s].stu, req[s].num)
             r == [req[s] EXCEPT !.pc = "sbSave", !.row = row]
  <2>1. /\ req[s].stu \in Students /\ req[s].num \in Nums /\ req[s].row \in Attempt
        /\ attempts[req[s].stu][req[s].num] # None
    BY <1>0, <1>6 DEF SubmitScore, ReqOK, SubmitPC
  <2>2. row \in Attempt /\ row.status # "IN_PROGRESS"
    BY <2>1, ScoredType
  <2> HIDE DEF row
  <2>3. r \in Request
    BY <1>0, <2>2 DEF Request, SubmitPC
  <2>4. req' = [req EXCEPT ![s] = r]
    BY <1>6 DEF SubmitScore, row
  <2>5. /\ r.pc = "sbSave" /\ r.stu = req[s].stu /\ r.num = req[s].num
        /\ r.row = row
    BY <1>0 DEF Request
  <2> HIDE DEF r
  <2>6. ReqOK(s)'
    BY <1>6, <2>1, <2>2, <2>4, <2>5
       DEF SubmitScore, ReqOK, StartPC, AnswerPC, SubmitPC, GradePC
  <2> QED
    BY <1>6, <2>3, <2>4, <2>6, FrameReq DEF SubmitScore
<1>7. CASE SubmitSave(s)
  <2>1. /\ req[s].stu \in Students /\ req[s].num \in Nums /\ req[s].row \in Attempt
        /\ attempts[req[s].stu][req[s].num] # None
        /\ req[s].row.status # "IN_PROGRESS"
    BY <1>0, <1>7 DEF SubmitSave, ReqOK, SubmitPC
  <2>2. jobs' \subseteq {"analytics", "complete"} \X Students \X Nat \X Slots
    BY <1>7, <2>1, QuizAssumption DEF SubmitSave, Nums
  <2> QED
    BY <1>7, <2>1, <2>2, SaveAttemptOK DEF SubmitSave
<1> QED
  BY <1>1, <1>3, <1>4, <1>5, <1>6, <1>7

\* GradeAnswer keeps the invariant and the finished attempts.
LEMMA GradeStep ==
    ASSUME IInv, NEW s \in Slots,
           \/ GradeBegin(s) \/ GradeAttempt(s) \/ GradeWrite(s) \/ GradeScore(s)
           \/ GradeSave(s)
    PROVE  IInv' /\ Kept
<1> USE DEF IInv, TypeOK
<1>0. ReqOK(s) /\ req[s] \in Request
  OBVIOUS
<1>h. ASSUME req[s].pc \in GradePC
      PROVE  /\ req[s].stu \in Students /\ req[s].num \in Nums /\ req[s].q \in Questions
             /\ req[s].in \in Nat /\ req[s].old \in Answer
             /\ attempts[req[s].stu][req[s].num] # None
             /\ req[s].pc # "grAttempt" => req[s].row \in Attempt
  BY <1>0, <1>h DEF ReqOK, GradePC
<1>1. CASE GradeBegin(s)
  <2>0. PICK u \in Students, n \in Nums, q \in Questions :
          /\ Exists(u, n)
          /\ answers[u][n][q] # None
          /\ \E d \in 0..Points[q] :
               Begin(s, "grade", [Idle EXCEPT !.pc = "grAttempt", !.stu = u, !.num = n,
                                              !.q = q, !.in = d,
                                              !.old = answers[u][n][q]])
    BY <1>1 DEF GradeBegin
  <2>1. PICK d \in 0..Points[q] :
          Begin(s, "grade", [Idle EXCEPT !.pc = "grAttempt", !.stu = u, !.num = n,
                                         !.q = q, !.in = d,
                                         !.old = answers[u][n][q]])
    BY <2>0
  <2> DEFINE r == [Idle EXCEPT !.pc = "grAttempt", !.stu = u, !.num = n,
                               !.q = q, !.in = d, !.old = answers[u][n][q]]
  <2>2. answers[u][n][q] \in Answer /\ d \in Nat /\ n \in Nat
    BY <2>0, <2>1, QuizAssumption DEF Nums
  <2>3. r \in Request
    BY <2>2, IdleOK DEF Request, GradePC
  <2>4. req' = [req EXCEPT ![s] = r]
    BY <2>1 DEF Begin
  <2>5. /\ r.pc = "grAttempt" /\ r.stu = u /\ r.num = n /\ r.q = q /\ r.in = d
        /\ r.old = answers[u][n][q]
    BY IdleOK DEF Request
  <2> HIDE DEF r
  <2>6. ReqOK(s)'
    BY <1>1, <2>0, <2>2, <2>4, <2>5
       DEF GradeBegin, Exists, ReqOK, StartPC, AnswerPC, SubmitPC, GradePC
  <2> QED
    BY <1>1, <2>3, <2>4, <2>6, FrameReq DEF GradeBegin
<1>2. ASSUME req[s].pc \in GradePC, NEW r \in Request,
             r.pc \in GradePC, r.stu = req[s].stu, r.num = req[s].num, r.q = req[s].q,
             r.in = req[s].in, r.old = req[s].old, r.row \in Attempt,
             r.pc = "grSave" => r.row.status # "IN_PROGRESS",
             req' = [req EXCEPT ![s] = r], UNCHANGED attempts
      PROVE  ReqOK(s)'
  BY <1>h, <1>2 DEF ReqOK, StartPC, AnswerPC, SubmitPC, GradePC
<1>3. CASE GradeAttempt(s)
  <2> DEFINE row == attempts[req[s].stu][req[s].num]
             r == [req[s] EXCEPT !.pc = "grWrite", !.row = row]
  <2>1. row \in Attempt /\ req[s].pc \in GradePC
    BY <1>h, <1>3 DEF GradeAttempt, GradePC
  <2>2. r \in Request
    BY <1>0, <2>1 DEF Request, GradePC
  <2>3. req' = [req EXCEPT ![s] = r]
    BY <1>3 DEF GradeAttempt
  <2>4. /\ r.pc = "grWrite" /\ r.stu = req[s].stu /\ r.num = req[s].num /\ r.row = row
        /\ r.q = req[s].q /\ r.in = req[s].in /\ r.old = req[s].old
    BY <1>0 DEF Request
  <2> HIDE DEF r, row
  <2>5. ReqOK(s)'
    BY <1>2, <1>3, <2>1, <2>2, <2>3, <2>4 DEF GradeAttempt, GradePC
  <2> QED
    BY <1>3, <2>2, <2>3, <2>5, FrameReq DEF GradeAttempt
<1>4. CASE GradeWrite(s)
  <2> DEFINE a == [req[s].old EXCEPT !.pts = req[s].in, !.byTeacher = TRUE]
             r == [req[s] EXCEPT !.pc = "grScore"]
  <2>1. req[s].pc \in GradePC /\ req[s].pc # "grAttempt"
    BY <1>4 DEF GradeWrite, GradePC
  <2>2. a \in Answer
    BY <1>h, <2>1 DEF Answer
  <2>3. answers' \in [Students -> [Nums -> [Questions -> Answer \cup {None}]]]
    BY <1>4, <1>h, <2>1, <2>2 DEF GradeWrite, WriteAnswer
  <2>4. r \in Request
    BY <1>0 DEF Request, GradePC
  <2>5. req' = [req EXCEPT ![s] = r]
    BY <1>4 DEF GradeWrite, Goto
  <2>6. /\ r.pc = "grScore" /\ r.stu = req[s].stu /\ r.num = req[s].num
        /\ r.row = req[s].row /\ r.q = req[s].q /\ r.in = req[s].in /\ r.old = req[s].old
    BY <1>0 DEF Request
  <2> HIDE DEF r, a
  <2>7. ReqOK(s)'
    BY <1>2, <1>4, <1>h, <2>1, <2>4, <2>5, <2>6 DEF GradeWrite, GradePC
  <2> QED
    BY <1>4, <2>3, <2>4, <2>5, <2>7, FrameReq DEF GradeWrite
<1>5. CASE GradeScore(s)
  <2> DEFINE row == Scored([req[s].row EXCEPT !.manual = TRUE], req[s].stu, req[s].num)
             r == [req[s] EXCEPT !.pc = "grSave", !.row = row]
  <2>1. req[s].pc \in GradePC /\ req[s].pc # "grAttempt"
    BY <1>5 DEF GradeScore, GradePC
  <2>2. row \in Attempt /\ row.status # "IN_PROGRESS"
    <3>1. [req[s].row EXCEPT !.manual = TRUE] \in Attempt
      BY <1>h, <2>1 DEF Attempt
    <3> QED
      BY <1>h, <2>1, <3>1, ScoredType
  <2> HIDE DEF row
  <2>3. r \in Request
    BY <1>0, <2>2 DEF Request, GradePC
  <2>4. req' = [req EXCEPT ![s] = r]
    BY <1>5 DEF GradeScore, row
  <2>5. /\ r.pc = "grSave" /\ r.stu = req[s].stu /\ r.num = req[s].num /\ r.row = row
        /\ r.q = req[s].q /\ r.in = req[s].in /\ r.old = req[s].old
    BY <1>0 DEF Request
  <2> HIDE DEF r
  <2>6. ReqOK(s)'
    BY <1>2, <1>5, <2>1, <2>2, <2>3, <2>4, <2>5 DEF GradeScore, GradePC
  <2> QED
    BY <1>5, <2>3, <2>4, <2>6, FrameReq DEF GradeScore
<1>6. CASE GradeSave(s)
  <2>1. req[s].pc \in GradePC /\ req[s].pc # "grAttempt"
    BY <1>6 DEF GradeSave, GradePC
  <2>2. req[s].row.status # "IN_PROGRESS"
    BY <1>0, <1>6 DEF GradeSave, ReqOK
  <2> QED
    BY <1>h, <1>6, <2>1, <2>2, SaveAttemptOK DEF GradeSave
<1> QED
  BY <1>1, <1>3, <1>4, <1>5, <1>6

-----------------------------------------------------------------------------
\* A request that is cut short keeps the invariant and the finished attempts.
LEMMA AbortStep ==
    ASSUME IInv, NEW s \in Slots, Abort(s)
    PROVE  IInv' /\ Kept
BY FrameFinish DEF Abort, IInv, TypeOK

(* The detached goroutines touch neither attempts nor requests. *)
LEMMA JobStep ==
    ASSUME IInv, UpdateQuizAnalytics \/ MarkComplete \/ JobLost
    PROVE  IInv' /\ Kept
<1>1. UNCHANGED <<attempts, answers, req>>
  BY DEF UpdateQuizAnalytics, MarkComplete, JobLost
<1>2. /\ jobs' \subseteq {"analytics", "complete"} \X Students \X Nat \X Slots
      /\ completed' \subseteq Students
      /\ aggregates' \in Nat
  <2>1. CASE UpdateQuizAnalytics
    BY <2>1 DEF UpdateQuizAnalytics, IInv, TypeOK
  <2>2. CASE MarkComplete
    BY <2>2 DEF MarkComplete, IInv, TypeOK
  <2>3. CASE JobLost
    BY <2>3 DEF JobLost, IInv, TypeOK
  <2> QED
    BY <2>1, <2>2, <2>3
<1>3. TypeOK'
  BY <1>1, <1>2 DEF IInv, TypeOK
<1>4. OneOpenAttempt' /\ Kept
  BY <1>1 DEF IInv, OneOpenAttempt, Kept, Finished
<1>5. ASSUME NEW s \in Slots PROVE ReqOK(s)'
  BY <1>1 DEF IInv, ReqOK, Finished
<1> QED
  BY <1>3, <1>4, <1>5 DEF IInv

\* So does a step that changes nothing.
LEMMA StutterStep ==
    ASSUME IInv, UNCHANGED vars
    PROVE  IInv' /\ Kept
<1>1. TypeOK'
  BY DEF IInv, TypeOK, vars
<1>2. OneOpenAttempt' /\ Kept
  BY DEF IInv, OneOpenAttempt, Kept, Finished, vars
<1>3. ASSUME NEW s \in Slots PROVE ReqOK(s)'
  BY DEF IInv, ReqOK, Finished, vars
<1> QED
  BY <1>1, <1>2, <1>3 DEF IInv

\* Every step keeps the invariant and the finished attempts.
LEMMA NextStep == IInv /\ [Next]_vars => IInv' /\ Kept
<1> SUFFICES ASSUME IInv, [Next]_vars PROVE IInv' /\ Kept
  OBVIOUS
<1>1. ASSUME NEW s \in Slots, Serve(s) PROVE IInv' /\ Kept
  BY <1>1, StartStep, AnswerStep, SubmitStep, GradeStep, AbortStep DEF Serve
<1> QED
  BY <1>1, JobStep, StutterStep DEF Next

-----------------------------------------------------------------------------
(* The theorems. *)

\* The inductive invariant holds in every reachable state.
LEMMA Invariance == Spec => []IInv
<1>1. Init => IInv
  BY InitIInv
<1>2. IInv /\ [Next]_vars => IInv'
  BY NextStep
<1> QED
  BY <1>1, <1>2, PTL DEF Spec

(* Every reachable row and request is well formed, for any number of students,
   questions and concurrent requests. *)
THEOREM TypeCorrect == Spec => []TypeOK
<1>1. IInv => TypeOK
  BY DEF IInv
<1> QED
  BY <1>1, Invariance, PTL

(* StartQuizAttempt (read the latest, insert the next number) never leaves a
   student with two open attempts or a gap in the numbering, however many of its
   requests and of SubmitQuiz and GradeAnswer overlap or are cut short. *)
THEOREM AttemptsInOrder == Spec => []OneOpenAttempt
<1>1. IInv => OneOpenAttempt
  BY DEF IInv
<1> QED
  BY <1>1, Invariance, PTL

(* No write of a whole attempt row, from however old a copy, reopens a finished
   attempt. *)
THEOREM FinishedForGood == Spec => NoReopen
<1>1. IInv /\ [Next]_vars => [Kept]_vars
  BY NextStep
<1>2. [Kept]_vars =>
        [\A u \in Students, n \in Nums :
           /\ attempts[u][n] # None => attempts'[u][n] # None
           /\ Finished(u, n) => Finished(u, n)']_vars
  BY DEF Kept
<1> QED
  BY <1>1, <1>2, Invariance, PTL DEF Spec, NoReopen

-----------------------------------------------------------------------------
(***************************************************************************)
(* Graders who open only what the grading list shows write back copies of  *)
(* finished attempts, so the submission time and the score stay.           *)
(***************************************************************************)
\* What a request holds of the attempt it will write.
Stamps(r) ==
    /\ r.pc \in SubmitPC => r.row.submitted
    /\ r.pc \in {"sbSave", "grSave"} => r.row.tally # None
    /\ r.pc = "grAttempt" => Finished(r.stu, r.num)
    /\ r.pc \in {"grWrite", "grScore", "grSave"} => r.row.submitted

StampInv == FinishedIsStamped /\ \A s \in Slots : Stamps(req[s])

\* A slot moves on and the attempts stay.
LEMMA StampFrame ==
    ASSUME IInv, StampInv, NEW s \in Slots, NEW r, req' = [req EXCEPT ![s] = r],
           UNCHANGED attempts, Stamps(r)
    PROVE  StampInv'
<1>1. FinishedIsStamped' BY DEF StampInv, FinishedIsStamped, Finished
<1>2. ASSUME NEW t \in Slots PROVE Stamps(req'[t])
  BY <1>2 DEF StampInv, IInv, TypeOK
<1>3. \A t \in Slots : Stamps(req[t])' <=> Stamps(req'[t]) BY DEF Stamps, Finished
<1> QED BY <1>1, <1>2, <1>3 DEF StampInv

\* A request that does not hold a row yet.
LEMMA StampFree ==
    ASSUME IInv, StampInv, NEW s \in Slots, NEW r, req' = [req EXCEPT ![s] = r],
           UNCHANGED attempts, r.pc \in {"idle"} \cup StartPC \cup AnswerPC
    PROVE  StampInv'
<1>1. Stamps(r) BY DEF Stamps, StartPC, AnswerPC, SubmitPC
<1> QED BY <1>1, StampFrame

\* A row is inserted or written.
LEMMA StampSave ==
    ASSUME IInv, StampInv, Kept, NEW s \in Slots, Finish(s),
           NEW u \in Students, NEW n \in Nums, NEW row,
           attempts' = [attempts EXCEPT ![u][n] = row], row # None,
           row.status # "IN_PROGRESS" => row.submitted /\ row.tally # None
    PROVE  StampInv'
<1>1. \A v \in Students, k \in Nums :
        attempts'[v][k] = IF v = u /\ k = n THEN row ELSE attempts[v][k]
  BY DEF IInv, TypeOK
<1>2. FinishedIsStamped' BY <1>1 DEF StampInv, FinishedIsStamped, Finished
<1>3. ASSUME NEW t \in Slots PROVE Stamps(req[t])'
  <2>1. CASE t = s
    <3>1. req'[s].pc = "idle" BY IdleOK DEF Finish, IInv, TypeOK
    <3> QED BY <2>1, <3>1 DEF Stamps, SubmitPC
  <2>2. CASE t # s
    <3>1. req'[t] = req[t] /\ ReqOK(t) BY <2>2 DEF Finish, IInv, TypeOK
    <3>2. req[t].pc = "grAttempt" => req[t].stu \in Students /\ req[t].num \in Nums
      BY <3>1 DEF ReqOK, GradePC
    <3> QED BY <3>1, <3>2 DEF StampInv, Stamps, Kept
  <2> QED BY <2>1, <2>2
<1> QED BY <1>2, <1>3 DEF StampInv

LEMMA StampStart ==
    ASSUME IInv, StampInv, Kept, NEW s \in Slots,
           StartBegin(s) \/ StartCount(s) \/ StartLatest(s) \/ StartInsert(s) \/ Abort(s)
    PROVE  StampInv'
<1>0. req[s] \in Request /\ ReqOK(s) BY DEF IInv, TypeOK
<1>1. CASE StartBegin(s)
  <2>1. PICK u \in Students :
          req' = [req EXCEPT ![s] = [Idle EXCEPT !.pc = "stCount", !.stu = u]]
    BY <1>1 DEF StartBegin, Begin
  <2>2. [Idle EXCEPT !.pc = "stCount", !.stu = u].pc = "stCount" BY DEF Idle
  <2> QED BY <1>1, <2>1, <2>2, StampFree DEF StartBegin, StartPC
<1>2. ASSUME Finish(s), UNCHANGED attempts PROVE StampInv'
  BY <1>2, IdleOK, StampFree DEF Finish
<1>3. CASE StartCount(s)
  <2>1. CASE req' = [req EXCEPT ![s] = [req[s] EXCEPT !.pc = "stLatest"]]
    <3>1. [req[s] EXCEPT !.pc = "stLatest"].pc = "stLatest" BY <1>0 DEF Request
    <3> QED BY <1>3, <2>1, <3>1, StampFree DEF StartCount, StartPC
  <2> QED BY <1>2, <1>3, <2>1 DEF StartCount, Goto
<1>4. CASE StartLatest(s)
  <2>1. PICK n : n = Latest(req[s].stu) + 1 OBVIOUS
  <2>2. CASE req' = [req EXCEPT ![s] = [req[s] EXCEPT !.pc = "stInsert", !.num = n]]
    <3>1. [req[s] EXCEPT !.pc = "stInsert", !.num = n].pc = "stInsert" BY <1>0 DEF Request
    <3> QED BY <1>4, <2>2, <3>1, StampFree DEF StartLatest, StartPC
  <2> QED BY <1>2, <1>4, <2>1, <2>2 DEF StartLatest
<1>5. CASE StartInsert(s)
  <2>1. req[s].stu \in Students /\ req[s].num \in Nums
    BY <1>0, <1>5 DEF StartInsert, ReqOK, StartPC
  <2>2. NewAttempt # None /\ NewAttempt.status = "IN_PROGRESS"
    <3>1. NewAttempt \in Attempt BY DEF NewAttempt, Attempt, Status
    <3> QED BY <3>1, NoneAssumption DEF NewAttempt
  <2>3. CASE UNCHANGED attempts BY <1>2, <1>5, <2>3 DEF StartInsert
  <2>4. CASE attempts' = [attempts EXCEPT ![req[s].stu][req[s].num] = NewAttempt]
    <3>1. Finish(s) BY <1>5 DEF StartInsert
    <3> DEFINE u == req[s].stu
               n == req[s].num
    <3>2. u \in Students /\ n \in Nums BY <2>1
    <3>3. attempts' = [attempts EXCEPT ![u][n] = NewAttempt] BY <2>4
    <3> HIDE DEF u, n
    <3> QED BY <2>2, <3>1, <3>2, <3>3, StampSave
  <2> QED BY <1>5, <2>3, <2>4 DEF StartInsert
<1>6. CASE Abort(s) BY <1>2, <1>6 DEF Abort
<1> QED BY <1>1, <1>3, <1>4, <1>5, <1>6

LEMMA StampAnswer ==
    ASSUME IInv, StampInv, NEW s \in Slots,
           AnswerBegin(s) \/ AnswerRead(s) \/ AnswerWrite(s) \/ AnswerAuto(s)
    PROVE  StampInv'
<1>0. req[s] \in Request /\ UNCHANGED attempts
  BY DEF IInv, TypeOK, AnswerBegin, AnswerRead, AnswerWrite, AnswerAuto
<1>1. ASSUME Finish(s) PROVE StampInv'
  BY <1>0, <1>1, IdleOK, StampFree DEF Finish
<1>2. CASE AnswerBegin(s)
  <2>1. PICK u \in Students, n \in Nums, q \in Questions, d \in Data :
          Begin(s, "answer", [Idle EXCEPT !.pc = "anRead", !.stu = u, !.num = n,
                                          !.q = q, !.in = d])
    BY <1>2 DEF AnswerBegin
  <2>2. [Idle EXCEPT !.pc = "anRead", !.stu = u, !.num = n, !.q = q, !.in = d].pc = "anRead"
    BY DEF Idle
  <2> QED BY <1>0, <2>1, <2>2, StampFree DEF Begin, AnswerPC
<1>3. CASE AnswerRead(s)
  <2>1. PICK a : req' = [req EXCEPT ![s] = [req[s] EXCEPT !.pc = "anWrite", !.old = a]]
    BY <1>3 DEF AnswerRead
  <2>2. [req[s] EXCEPT !.pc = "anWrite", !.old = a].pc = "anWrite" BY <1>0 DEF Request
  <2> QED BY <1>0, <2>1, <2>2, StampFree DEF AnswerPC
<1>4. CASE AnswerWrite(s)
  <2>1. \/ Finish(s)
        \/ \E a : req' = [req EXCEPT ![s] = [req[s] EXCEPT !.pc = "anAuto", !.old = a]]
    BY <1>4 DEF AnswerWrite
  <2>2. ASSUME NEW a, req' = [req EXCEPT ![s] = [req[s] EXCEPT !.pc = "anAuto", !.old = a]]
        PROVE  StampInv'
    <3>1. [req[s] EXCEPT !.pc = "anAuto", !.old = a].pc = "anAuto" BY <1>0 DEF Request
    <3> QED BY <1>0, <2>2, <3>1, StampFree DEF AnswerPC
  <2> QED BY <1>1, <2>1, <2>2
<1>5. CASE AnswerAuto(s) BY <1>1, <1>5 DEF AnswerAuto
<1> QED BY <1>2, <1>3, <1>4, <1>5

\* The columns calculateAttemptScore leaves alone, and the score it sets.
LEMMA ScoredStamp ==
    ASSUME NEW row \in Attempt, NEW u, NEW n
    PROVE  /\ Scored(row, u, n).submitted = row.submitted
           /\ Scored(row, u, n).tally = Scores(u, n)
  BY DEF Scored, Attempt

LEMMA ScoresExist ==
    ASSUME IInv, NEW u \in Students, NEW n \in Nums
    PROVE  Scores(u, n) # None
<1>1. ASSUME NEW q \in Questions
      PROVE  IF answers[u][n][q] = None THEN TRUE
             ELSE answers[u][n][q].pts \in Nat \cup {None}
  BY DEF IInv, TypeOK, Answer
<1>2. Scores(u, n) \in Tally BY <1>1 DEF Scores, Tally
<1> QED BY <1>2, NoneAssumption

LEMMA StampSubmit ==
    ASSUME IInv, StampInv, Kept, NEW s \in Slots,
           \/ SubmitBegin(s) \/ SubmitList(s)  \/ SubmitAutoOne(s) \/ SubmitWait(s)
           \/ SubmitScore(s) \/ SubmitSave(s)  \/ SubmitAutoSkip(s)
    PROVE  StampInv'
<1>0. req[s] \in Request /\ ReqOK(s) /\ Stamps(req[s]) BY DEF IInv, TypeOK, StampInv
<1>1. CASE SubmitBegin(s)
  <2>1. PICK u \in Students, n \in Nums :
          /\ Exists(u, n)
          /\ Begin(s, "submit",
                   [Idle EXCEPT !.pc = IF AutoGrade THEN "sbList" ELSE "sbScore",
                                !.stu = u, !.num = n,
                                !.row = [attempts[u][n] EXCEPT !.submitted = TRUE,
                                                               !.status = "SUBMITTED"]])
    BY <1>1 DEF SubmitBegin
  <2> DEFINE row == [attempts[u][n] EXCEPT !.submitted = TRUE, !.status = "SUBMITTED"]
             r == [Idle EXCEPT !.pc = IF AutoGrade THEN "sbList" ELSE "sbScore",
                               !.stu = u, !.num = n, !.row = row]
  <2>2. row.submitted
    <3>1. attempts[u][n] \in Attempt BY <2>1 DEF Exists, IInv, TypeOK
    <3> QED BY <3>1 DEF Attempt
  <2>3. r.pc \in {"sbList", "sbScore"} /\ r.row = row BY DEF Idle
  <2> HIDE DEF row
  <2>4. Stamps(r)
    <3> HIDE DEF r
    <3> QED BY <2>2, <2>3 DEF Stamps
  <2>5. req' = [req EXCEPT ![s] = r] BY <2>1 DEF Begin, row
  <2> HIDE DEF r
  <2> QED BY <1>1, <2>4, <2>5, StampFrame DEF SubmitBegin
<1>2. ASSUME NEW r, req' = [req EXCEPT ![s] = r], UNCHANGED attempts,
             r.pc \in {"sbAuto", "sbScore"}, r.row = req[s].row, req[s].pc \in SubmitPC
      PROVE  StampInv'
  <2>1. Stamps(r) BY <1>0, <1>2 DEF Stamps
  <2> QED BY <1>2, <2>1, StampFrame
<1>3. CASE SubmitList(s)
  <2>1. PICK f : req' = [req EXCEPT ![s] = [req[s] EXCEPT !.pc = "sbAuto", !.snap = f]]
    BY <1>3 DEF SubmitList
  <2> DEFINE r == [req[s] EXCEPT !.pc = "sbAuto", !.snap = f]
  <2>2. r.pc = "sbAuto" /\ r.row = req[s].row BY <1>0 DEF Request
  <2> HIDE DEF r
  <2> QED BY <1>2, <1>3, <2>1, <2>2 DEF SubmitList, SubmitPC, r
<1>4. CASE SubmitAutoOne(s) \/ SubmitAutoSkip(s)
  <2>1. PICK q \in Questions : req' = [req EXCEPT ![s].snap[q] = None]
    BY <1>4 DEF SubmitAutoOne, SubmitAutoSkip
  <2> DEFINE r == [req[s] EXCEPT !.snap[q] = None]
  <2>2. r.pc = "sbAuto" /\ r.row = req[s].row /\ req[s].pc = "sbAuto"
    BY <1>0, <1>4 DEF Request, SubmitAutoOne, SubmitAutoSkip
  <2>3. req' = [req EXCEPT ![s] = r] BY <2>1
  <2>4. UNCHANGED attempts BY <1>4 DEF SubmitAutoOne, SubmitAutoSkip
  <2> HIDE DEF r
  <2> QED BY <1>2, <2>2, <2>3, <2>4 DEF SubmitPC
<1>5. CASE SubmitWait(s)
  <2> DEFINE r == [req[s] EXCEPT !.pc = "sbScore"]
  <2>1. r.pc = "sbScore" /\ r.row = req[s].row BY <1>0 DEF Request
  <2>2. req' = [req EXCEPT ![s] = r] BY <1>5 DEF SubmitWait, Goto
  <2> HIDE DEF r
  <2> QED BY <1>2, <1>5, <2>1, <2>2 DEF SubmitWait, SubmitPC
<1>6. CASE SubmitScore(s)
  <2>1. /\ req[s].stu \in Students /\ req[s].num \in Nums /\ req[s].row \in Attempt
        /\ req[s].row.submitted
    BY <1>0, <1>6 DEF SubmitScore, ReqOK, Stamps, SubmitPC
  <2> DEFINE row == Scored(req[s].row, req[s].stu, req[s].num)
             r == [req[s] EXCEPT !.pc = "sbSave", !.row = row]
  <2>2. row.submitted /\ row.tally # None BY <2>1, ScoredStamp, ScoresExist
  <2> HIDE DEF row
  <2>3. r.pc = "sbSave" /\ r.row = row BY <1>0 DEF Request
  <2>4. req' = [req EXCEPT ![s] = r] BY <1>6 DEF SubmitScore, row
  <2> HIDE DEF r
  <2>5. Stamps(r) BY <2>2, <2>3 DEF Stamps
  <2> QED BY <1>6, <2>4, <2>5, StampFrame DEF SubmitScore
<1>7. CASE SubmitSave(s)
  <2>1. /\ req[s].stu \in Students /\ req[s].num \in Nums /\ req[s].row \in Attempt
        /\ req[s].row.submitted /\ req[s].row.tally # None
    BY <1>0, <1>7 DEF SubmitSave, ReqOK, Stamps, SubmitPC
  <2>2. req[s].row # None BY <2>1, NoneAssumption
  <2> QED BY <1>7, <2>1, <2>2, StampSave DEF SubmitSave, SaveAttempt
<1> QED BY <1>1, <1>3, <1>4, <1>5, <1>6, <1>7

LEMMA StampGrade ==
    ASSUME GradeListedOnly, IInv, StampInv, Kept, NEW s \in Slots,
           \/ GradeBegin(s) \/ GradeAttempt(s) \/ GradeWrite(s) \/ GradeScore(s)
           \/ GradeSave(s)
    PROVE  StampInv'
<1>0. req[s] \in Request /\ ReqOK(s) /\ Stamps(req[s]) BY DEF IInv, TypeOK, StampInv
<1>1. CASE GradeBegin(s)
  <2>1. PICK u \in Students, n \in Nums, q \in Questions :
          /\ Exists(u, n)
          /\ Listed(u, n, q)
          /\ \E p \in 0..Points[q] :
               Begin(s, "grade", [Idle EXCEPT !.pc = "grAttempt", !.stu = u, !.num = n,
                                              !.q = q, !.in = p,
                                              !.old = answers[u][n][q]])
    BY <1>1 DEF GradeBegin
  <2>2. PICK p \in 0..Points[q] :
          Begin(s, "grade", [Idle EXCEPT !.pc = "grAttempt", !.stu = u, !.num = n,
                                         !.q = q, !.in = p, !.old = answers[u][n][q]])
    BY <2>1
  <2> DEFINE r == [Idle EXCEPT !.pc = "grAttempt", !.stu = u, !.num = n,
                               !.q = q, !.in = p, !.old = answers[u][n][q]]
  <2>3. r.pc = "grAttempt" /\ r.stu = u /\ r.num = n BY DEF Idle
  <2>4. req' = [req EXCEPT ![s] = r] BY <2>2 DEF Begin
  <2> HIDE DEF r
  <2>5. Stamps(r) BY <2>1, <2>3 DEF Stamps, SubmitPC, Listed, Exists, Finished
  <2> QED BY <1>1, <2>4, <2>5, StampFrame DEF GradeBegin
<1>2. CASE GradeAttempt(s)
  <2> DEFINE row == attempts[req[s].stu][req[s].num]
             r == [req[s] EXCEPT !.pc = "grWrite", !.row = row]
  <2>1. row.submitted
    BY <1>0, <1>2 DEF GradeAttempt, ReqOK, GradePC, Stamps, StampInv, FinishedIsStamped
  <2>2. req' = [req EXCEPT ![s] = r] BY <1>2 DEF GradeAttempt
  <2> HIDE DEF row
  <2>3. r.pc = "grWrite" /\ r.row = row BY <1>0 DEF Request
  <2> HIDE DEF r
  <2>4. Stamps(r) BY <2>1, <2>3 DEF Stamps, SubmitPC
  <2> QED BY <1>2, <2>2, <2>4, StampFrame DEF GradeAttempt
<1>3. CASE GradeWrite(s)
  <2> DEFINE r == [req[s] EXCEPT !.pc = "grScore"]
  <2>1. r.pc = "grScore" /\ r.row = req[s].row BY <1>0 DEF Request
  <2>2. req' = [req EXCEPT ![s] = r] BY <1>3 DEF GradeWrite, Goto
  <2> HIDE DEF r
  <2>3. Stamps(r) BY <1>0, <1>3, <2>1 DEF GradeWrite, Stamps, SubmitPC
  <2> QED BY <1>3, <2>2, <2>3, StampFrame DEF GradeWrite
<1>4. CASE GradeScore(s)
  <2> DEFINE copy == [req[s].row EXCEPT !.manual = TRUE]
             row == Scored(copy, req[s].stu, req[s].num)
             r == [req[s] EXCEPT !.pc = "grSave", !.row = row]
  <2>1. /\ req[s].stu \in Students /\ req[s].num \in Nums
        /\ req[s].row \in Attempt /\ req[s].row.submitted
    BY <1>0, <1>4 DEF GradeScore, ReqOK, GradePC, Stamps
  <2>2. copy \in Attempt /\ copy.submitted BY <2>1 DEF Attempt
  <2>3. req' = [req EXCEPT ![s] = r] BY <1>4 DEF GradeScore
  <2> HIDE DEF copy
  <2>4. row.submitted /\ row.tally # None BY <2>1, <2>2, ScoredStamp, ScoresExist
  <2> HIDE DEF row
  <2>5. r.pc = "grSave" /\ r.row = row BY <1>0 DEF Request
  <2> HIDE DEF r
  <2>6. Stamps(r) BY <2>4, <2>5 DEF Stamps, SubmitPC
  <2> QED BY <1>4, <2>3, <2>6, StampFrame DEF GradeScore
<1>5. CASE GradeSave(s)
  <2>1. /\ req[s].stu \in Students /\ req[s].num \in Nums /\ req[s].row \in Attempt
        /\ req[s].row.submitted /\ req[s].row.tally # None
    BY <1>0, <1>5 DEF GradeSave, ReqOK, Stamps, GradePC
  <2>2. req[s].row # None BY <2>1, NoneAssumption
  <2> QED BY <1>5, <2>1, <2>2, StampSave DEF GradeSave, SaveAttempt
<1> QED BY <1>1, <1>2, <1>3, <1>4, <1>5

\* Requests aside, nothing touches an attempt.
LEMMA StampRest ==
    ASSUME IInv, StampInv,
           UpdateQuizAnalytics \/ MarkComplete \/ JobLost \/ UNCHANGED vars
    PROVE  StampInv'
BY DEF StampInv, FinishedIsStamped, Stamps, Finished, vars,
       UpdateQuizAnalytics, MarkComplete, JobLost

(* For graders who open what the grading list shows: a finished attempt has its
   submission time and its score, whichever of several overlapping submits and
   gradings writes its whole row last. *)
THEOREM FinishedKeepsStamp ==
    ASSUME GradeListedOnly
    PROVE  Spec => []FinishedIsStamped
<1>1. Init => StampInv
  <2> SUFFICES ASSUME Init PROVE StampInv
    OBVIOUS
  <2>1. FinishedIsStamped BY DEF Init, FinishedIsStamped, Finished
  <2>2. ASSUME NEW s \in Slots PROVE Stamps(req[s])
    BY <2>2, IdleOK DEF Init, Stamps, SubmitPC
  <2> QED BY <2>1, <2>2 DEF StampInv
<1>2. IInv /\ StampInv /\ [Next]_vars => StampInv'
  <2> SUFFICES ASSUME IInv, StampInv, [Next]_vars PROVE StampInv'
    OBVIOUS
  <2>1. Kept BY NextStep
  <2>2. ASSUME NEW s \in Slots, Serve(s) PROVE StampInv'
    BY <2>1, <2>2, StampStart, StampAnswer, StampSubmit, StampGrade DEF Serve
  <2> QED BY <2>2, StampRest DEF Next
<1>3. StampInv => FinishedIsStamped BY DEF StampInv
<1> QED BY <1>1, <1>2, <1>3, Invariance, PTL DEF Spec

-----------------------------------------------------------------------------
(***************************************************************************)
(* What the statements of a request do to the two tables, whatever handler *)
(* they belong to.  Every step of a request is one of the eight kinds      *)
(* below; the invariants that follow only look at the kind.                *)
(***************************************************************************)
Open(u, n) == attempts[u][n] # None /\ attempts[u][n].status = "IN_PROGRESS"

\* The request goes on with the same attempt.
OnSame(s) == req'[s].stu = req[s].stu /\ req'[s].num = req[s].num

\* A request is accepted.
Enters(s) ==
    LET r == req'[s] IN
    /\ req[s].pc = "idle"
    /\ UNCHANGED <<attempts, answers>>
    /\ \/ r.pc = "stCount" /\ r.stu \in Students /\ "start" \in Role[s]
       \/ /\ r.pc \in {"anRead", "sbList", "sbScore"} /\ r.stu \in Students /\ r.num \in Nums
          /\ Role[s] \cap {"answer", "submit"} # {}
          /\ Open(r.stu, r.num) /\ (r.pc = "sbList" => AutoGrade)
       \/ /\ r.pc = "grAttempt" /\ "grade" \in Role[s]
          /\ r.stu \in Students /\ r.num \in Nums /\ r.q \in Questions
          /\ attempts[r.stu][r.num] # None /\ answers[r.stu][r.num][r.q] # None
          /\ r.old = answers[r.stu][r.num][r.q]
          /\ GradeListedOnly => Listed(r.stu, r.num, r.q)

\* A request reads, or moves on.
Reads(s) ==
    LET r == req[s] IN
    /\ UNCHANGED <<attempts, answers>>
    /\ r.pc # "stLatest" => OnSame(s)
    /\ \/ /\ r.pc = "stCount" /\ req'[s].pc = "stLatest"
          /\ MaxAttempts # NoLimit => ~ (Count(r.stu) >= MaxAttempts)
       \/ /\ r.pc = "stLatest" /\ req'[s].pc = "stInsert" /\ req'[s].stu = r.stu
          /\ req'[s].num = Latest(r.stu) + 1
       \/ /\ r.pc = "anRead" /\ req'[s].pc = "anWrite" /\ req'[s].q = r.q
          /\ req'[s].old = answers[r.stu][r.num][r.q]
       \/ r.pc \in {"sbList", "sbAuto"} /\ req'[s].pc \in {"sbAuto", "sbScore"}
       \/ /\ r.pc = "grAttempt" /\ req'[s].pc = "grWrite" /\ req'[s].q = r.q
          /\ req'[s].old = r.old

\* calculateAttemptScore on the copy of the attempt.
Sums(s) ==
    LET r == req[s] IN
    /\ UNCHANGED <<attempts, answers>>
    /\ OnSame(s)
    /\ \E row \in Attempt : req'[s].row = Scored(row, r.stu, r.num)
    /\ \/ r.pc = "sbScore" /\ req'[s].pc = "sbSave"
       \/ /\ r.pc = "grScore" /\ req'[s].pc = "grSave" /\ req'[s].q = r.q
          /\ req'[s].old = r.old

\* A request ends without writing: refused, or cut short.
Ends(s) ==
    /\ UNCHANGED <<attempts, answers>>
    /\ req'[s].pc = "idle"
    /\ req[s].pc \in {"anAuto", "grScore", "grSave"} => Failures

\* An attempt is inserted.
Inserts(s) ==
    LET r == req[s] IN
    /\ r.pc = "stInsert" /\ req'[s].pc = "idle"
    /\ r.stu \in Students /\ r.num \in Nums /\ attempts[r.stu][r.num] = None
    /\ attempts' = [attempts EXCEPT ![r.stu][r.num] = NewAttempt]
    /\ UNCHANGED answers

\* The copy of the attempt is written over the row.
Saves(s) ==
    LET r == req[s] IN
    /\ r.pc \in {"sbSave", "grSave"} /\ req'[s].pc = "idle"
    /\ r.stu \in Students /\ r.num \in Nums /\ r.row \in Attempt
    /\ attempts' = [attempts EXCEPT ![r.stu][r.num] = r.row]
    /\ UNCHANGED answers

\* The student's data is written.
Answers(s) ==
    LET r == req[s] IN
    /\ r.pc = "anWrite"
    /\ r.stu \in Students /\ r.num \in Nums /\ r.q \in Questions
    /\ \E a : /\ WriteAnswer(r.stu, r.num, r.q, a)
              /\ a.pts = IF r.old = None THEN None ELSE r.old.pts
    /\ IF GradesNow(r.q) THEN req'[s].pc = "anAuto" /\ OnSame(s) /\ req'[s].q = r.q
                         ELSE req'[s].pc = "idle"
    /\ UNCHANGED attempts

\* The program's points are written.
AutoGrades(s) ==
    LET r == req[s] IN
    /\ \/ r.pc = "anAuto" /\ req'[s].pc = "idle"
       \/ r.pc = "sbAuto" /\ req'[s].pc = "sbAuto" /\ OnSame(s)
    /\ r.stu \in Students /\ r.num \in Nums
    /\ \E q \in Questions, a \in Answer :
          /\ WriteAnswer(r.stu, r.num, q, AutoGraded(q, a))
          /\ r.pc = "anAuto" => q = r.q
    /\ UNCHANGED attempts

\* A teacher's points are written.
Marks(s) ==
    LET r == req[s] IN
    /\ r.pc = "grWrite" /\ req'[s].pc = "grScore" /\ OnSame(s)
    /\ req'[s].q = r.q /\ req'[s].old = r.old
    /\ r.stu \in Students /\ r.num \in Nums /\ r.q \in Questions
    /\ r.in \in Nat /\ r.old \in Answer
    /\ WriteAnswer(r.stu, r.num, r.q, [r.old EXCEPT !.pts = r.in, !.byTeacher = TRUE])
    /\ UNCHANGED attempts

Effect(s) ==
    /\ \A t \in Slots \ {s} : req'[t] = req[t]
    /\ \/ Enters(s) \/ Reads(s) \/ Sums(s) \/ Ends(s)
       \/ Inserts(s) \/ Saves(s) \/ Answers(s) \/ AutoGrades(s) \/ Marks(s)

\* A slot's record changes and the others stay.
LEMMA SlotMoves ==
    ASSUME IInv, NEW s \in Slots, NEW r, req' = [req EXCEPT ![s] = r]
    PROVE  req'[s] = r /\ \A t \in Slots \ {s} : req'[t] = req[t]
  BY DEF IInv, TypeOK

\* The rest of a request's record when some of it changes.
LEMMA RequestFields ==
    ASSUME NEW r \in Request
    PROVE  /\ \A pc : LET e == [r EXCEPT !.pc = pc] IN
                 /\ e.pc = pc /\ e.stu = r.stu /\ e.num = r.num /\ e.q = r.q
                 /\ e.old = r.old /\ e.row = r.row
           /\ \A pc, old : LET e == [r EXCEPT !.pc = pc, !.old = old] IN
                 /\ e.pc = pc /\ e.stu = r.stu /\ e.num = r.num /\ e.q = r.q /\ e.old = old
           /\ \A pc, row : LET e == [r EXCEPT !.pc = pc, !.row = row] IN
                 /\ e.pc = pc /\ e.stu = r.stu /\ e.num = r.num /\ e.q = r.q
                 /\ e.old = r.old /\ e.row = row
           /\ \A pc, snap : LET e == [r EXCEPT !.pc = pc, !.snap = snap] IN
                 e.pc = pc /\ e.stu = r.stu /\ e.num = r.num
           /\ \A q : LET e == [r EXCEPT !.snap[q] = None] IN
                 e.pc = r.pc /\ e.stu = r.stu /\ e.num = r.num
           /\ \A pc, num : LET e == [r EXCEPT !.pc = pc, !.num = num] IN
                 e.pc = pc /\ e.stu = r.stu /\ e.num = num
  BY DEF Request

LEMMA EndEffect ==
    ASSUME IInv, NEW s \in Slots, Finish(s), UNCHANGED <<attempts, answers>>,
           req[s].pc \in {"anAuto", "grScore", "grSave"} => Failures
    PROVE  Effect(s)
<1>1. req'[s] = Idle /\ \A t \in Slots \ {s} : req'[t] = req[t]
  BY SlotMoves DEF Finish
<1> QED BY <1>1, IdleOK DEF Effect, Ends

LEMMA StartEffect ==
    ASSUME IInv, NEW s \in Slots,
           StartBegin(s) \/ StartCount(s) \/ StartLatest(s) \/ StartInsert(s)
    PROVE  Effect(s)
<1>0. req[s] \in Request /\ ReqOK(s) BY DEF IInv, TypeOK
<1>1. CASE StartBegin(s)
  <2>1. PICK u \in Students :
          Begin(s, "start", [Idle EXCEPT !.pc = "stCount", !.stu = u])
    BY <1>1 DEF StartBegin
  <2> DEFINE r == [Idle EXCEPT !.pc = "stCount", !.stu = u]
  <2>2. r.pc = "stCount" /\ r.stu = u BY DEF Idle
  <2>3. req' = [req EXCEPT ![s] = r] /\ req[s].pc = "idle" /\ "start" \in Role[s]
    BY <2>1 DEF Begin
  <2> HIDE DEF r
  <2>4. req'[s] = r /\ \A t \in Slots \ {s} : req'[t] = req[t] BY <2>3, SlotMoves
  <2> QED BY <1>1, <2>2, <2>3, <2>4 DEF StartBegin, Effect, Enters
<1>2. CASE StartCount(s)
  <2>1. CASE Finish(s) BY <1>2, <2>1, EndEffect DEF StartCount
  <2>2. CASE /\ Goto(s, "stLatest")
             /\ ~ (MaxAttempts # NoLimit /\ Count(req[s].stu) >= MaxAttempts)
    <3> DEFINE r == [req[s] EXCEPT !.pc = "stLatest"]
    <3>1. r.pc = "stLatest" /\ r.stu = req[s].stu /\ r.num = req[s].num
      BY <1>0, RequestFields
    <3>2. req' = [req EXCEPT ![s] = r] BY <2>2 DEF Goto
    <3> HIDE DEF r
    <3>3. req'[s] = r /\ \A t \in Slots \ {s} : req'[t] = req[t] BY <3>2, SlotMoves
    <3> QED BY <1>2, <3>1, <2>2, <3>3 DEF StartCount, Effect, Reads, OnSame
  <2> QED BY <1>2, <2>1, <2>2 DEF StartCount
<1>3. CASE StartLatest(s)
  <2>1. CASE Finish(s) BY <1>3, <2>1, EndEffect DEF StartLatest
  <2>2. ASSUME NEW n, req' = [req EXCEPT ![s].pc = "stInsert", ![s].num = n],
               n = Latest(req[s].stu) + 1
        PROVE  Effect(s)
    <3> DEFINE r == [req[s] EXCEPT !.pc = "stInsert", !.num = n]
    <3>1. r.pc = "stInsert" /\ r.stu = req[s].stu /\ r.num = n BY <1>0, RequestFields
    <3>2. req' = [req EXCEPT ![s] = r] BY <2>2
    <3> HIDE DEF r
    <3>3. req'[s] = r /\ \A t \in Slots \ {s} : req'[t] = req[t] BY <3>2, SlotMoves
    <3> QED BY <1>3, <2>2, <3>1, <3>3 DEF StartLatest, Effect, Reads
  <2> QED BY <1>3, <2>1, <2>2 DEF StartLatest
<1>4. CASE StartInsert(s)
  <2>1. req[s].stu \in Students /\ req[s].num \in Nums
    BY <1>0, <1>4 DEF StartInsert, ReqOK, StartPC
  <2>2. CASE attempts[req[s].stu][req[s].num] # None
    BY <1>4, <2>2, EndEffect DEF StartInsert
  <2>3. CASE attempts[req[s].stu][req[s].num] = None
    <3>1. req'[s] = Idle /\ \A t \in Slots \ {s} : req'[t] = req[t]
      BY <1>4, SlotMoves DEF StartInsert, Finish
    <3> QED BY <1>4, <2>1, <2>3, <3>1, IdleOK DEF StartInsert, Effect, Inserts
  <2> QED BY <2>2, <2>3
<1> QED BY <1>1, <1>2, <1>3, <1>4

LEMMA AnswerEffect ==
    ASSUME IInv, NEW s \in Slots,
           AnswerBegin(s) \/ AnswerRead(s) \/ AnswerWrite(s) \/ AnswerAuto(s)
    PROVE  Effect(s)
<1>0. req[s] \in Request /\ ReqOK(s) BY DEF IInv, TypeOK
<1>1. CASE AnswerBegin(s)
  <2>1. PICK u \in Students, n \in Nums, q \in Questions, d \in Data :
          /\ Exists(u, n) /\ attempts[u][n].status = "IN_PROGRESS"
          /\ Begin(s, "answer", [Idle EXCEPT !.pc = "anRead", !.stu = u, !.num = n,
                                             !.q = q, !.in = d])
    BY <1>1 DEF AnswerBegin
  <2> DEFINE r == [Idle EXCEPT !.pc = "anRead", !.stu = u, !.num = n, !.q = q, !.in = d]
  <2>2. r.pc = "anRead" /\ r.stu = u /\ r.num = n BY DEF Idle
  <2>3. req' = [req EXCEPT ![s] = r] /\ req[s].pc = "idle" /\ "answer" \in Role[s]
    BY <2>1 DEF Begin
  <2> HIDE DEF r
  <2>4. req'[s] = r /\ \A t \in Slots \ {s} : req'[t] = req[t] BY <2>3, SlotMoves
  <2>5. Open(u, n) BY <2>1 DEF Exists, Open
  <2> QED BY <1>1, <2>2, <2>3, <2>4, <2>5 DEF AnswerBegin, Effect, Enters
<1>2. CASE AnswerRead(s)
  <2> DEFINE a == answers[req[s].stu][req[s].num][req[s].q]
             r == [req[s] EXCEPT !.pc = "anWrite", !.old = a]
  <2> HIDE DEF a
  <2>1. /\ r.pc = "anWrite" /\ r.stu = req[s].stu /\ r.num = req[s].num
        /\ r.q = req[s].q /\ r.old = a
    BY <1>0, RequestFields
  <2>2. req' = [req EXCEPT ![s] = r] BY <1>2 DEF AnswerRead, a
  <2> HIDE DEF r
  <2>3. req'[s] = r /\ \A t \in Slots \ {s} : req'[t] = req[t] BY <2>2, SlotMoves
  <2> QED BY <1>2, <2>1, <2>3 DEF AnswerRead, Effect, Reads, OnSame, a
<1>3. CASE AnswerWrite(s)
  <2> DEFINE a == IF req[s].old # None
                  THEN [req[s].old EXCEPT !.data = req[s].in]
                  ELSE [data |-> req[s].in, pts |-> None, byTeacher |-> FALSE]
  <2>1. req[s].stu \in Students /\ req[s].num \in Nums /\ req[s].q \in Questions
    BY <1>0, <1>3 DEF AnswerWrite, ReqOK, AnswerPC
  <2>2. a.pts = IF req[s].old = None THEN None ELSE req[s].old.pts
    <3>1. req[s].old \in Answer \cup {None} BY <1>0 DEF Request
    <3> QED BY <3>1 DEF Answer
  <2>3. /\ req[s].pc = "anWrite" /\ UNCHANGED attempts
        /\ \/ Finish(s) /\ UNCHANGED answers
           \/ /\ WriteAnswer(req[s].stu, req[s].num, req[s].q, a)
              /\ IF GradesNow(req[s].q)
                 THEN req' = [req EXCEPT ![s].pc = "anAuto", ![s].old = a]
                 ELSE Finish(s)
    BY <1>3 DEF AnswerWrite
  <2> HIDE DEF a
  <2>4. CASE Finish(s) /\ UNCHANGED answers BY <2>3, <2>4, EndEffect
  <2>5. CASE WriteAnswer(req[s].stu, req[s].num, req[s].q, a) /\ GradesNow(req[s].q)
             /\ req' = [req EXCEPT ![s].pc = "anAuto", ![s].old = a]
    <3> DEFINE r == [req[s] EXCEPT !.pc = "anAuto", !.old = a]
    <3>1. /\ r.pc = "anAuto" /\ r.stu = req[s].stu /\ r.num = req[s].num
          /\ r.q = req[s].q
      BY <1>0, RequestFields
    <3>2. req' = [req EXCEPT ![s] = r] BY <2>5
    <3> HIDE DEF r
    <3>3. req'[s] = r /\ \A t \in Slots \ {s} : req'[t] = req[t] BY <3>2, SlotMoves
    <3>4. Answers(s) BY <2>1, <2>2, <2>3, <2>5, <3>1, <3>3 DEF Answers, OnSame
    <3> QED BY <3>3, <3>4 DEF Effect
  <2>6. CASE WriteAnswer(req[s].stu, req[s].num, req[s].q, a) /\ ~ GradesNow(req[s].q)
             /\ Finish(s)
    <3>1. req'[s] = Idle /\ \A t \in Slots \ {s} : req'[t] = req[t]
      BY <2>6, SlotMoves DEF Finish
    <3>2. Answers(s) BY <2>1, <2>2, <2>3, <2>6, <3>1, IdleOK DEF Answers
    <3> QED BY <3>1, <3>2 DEF Effect
  <2> QED BY <2>3, <2>4, <2>5, <2>6
<1>4. CASE AnswerAuto(s)
  <2>1. /\ req[s].stu \in Students /\ req[s].num \in Nums /\ req[s].q \in Questions
        /\ req[s].old \in Answer
    BY <1>0, <1>4 DEF AnswerAuto, ReqOK, AnswerPC
  <2>2. req'[s] = Idle /\ \A t \in Slots \ {s} : req'[t] = req[t]
    BY <1>4, SlotMoves DEF AnswerAuto, Finish
  <2>3. AutoGrades(s) BY <1>4, <2>1, <2>2, IdleOK DEF AnswerAuto, AutoGrades
  <2> QED BY <2>2, <2>3 DEF Effect
<1> QED BY <1>1, <1>2, <1>3, <1>4

LEMMA SubmitEffect ==
    ASSUME IInv, NEW s \in Slots,
           \/ SubmitBegin(s) \/ SubmitList(s)  \/ SubmitAutoOne(s) \/ SubmitWait(s)
           \/ SubmitScore(s) \/ SubmitSave(s)  \/ SubmitAutoSkip(s)
    PROVE  Effect(s)
<1>0. req[s] \in Request /\ ReqOK(s) BY DEF IInv, TypeOK
<1>1. CASE SubmitBegin(s)
  <2>0. PICK u \in Students, n \in Nums :
          /\ Exists(u, n) /\ attempts[u][n].status = "IN_PROGRESS"
          /\ \E row : Begin(s, "submit",
                            [Idle EXCEPT !.pc = IF AutoGrade THEN "sbList" ELSE "sbScore",
                                         !.stu = u, !.num = n, !.row = row])
    BY <1>1 DEF SubmitBegin
  <2>1. PICK row : Begin(s, "submit",
                         [Idle EXCEPT !.pc = IF AutoGrade THEN "sbList" ELSE "sbScore",
                                      !.stu = u, !.num = n, !.row = row])
    BY <2>0
  <2> DEFINE r == [Idle EXCEPT !.pc = IF AutoGrade THEN "sbList" ELSE "sbScore",
                               !.stu = u, !.num = n, !.row = row]
  <2>2. /\ r.pc \in {"sbList", "sbScore"} /\ r.stu = u /\ r.num = n
        /\ r.pc = "sbList" => AutoGrade
    BY DEF Idle
  <2>3. req' = [req EXCEPT ![s] = r] /\ req[s].pc = "idle" /\ "submit" \in Role[s]
    BY <2>1 DEF Begin
  <2> HIDE DEF r
  <2>4. req'[s] = r /\ \A t \in Slots \ {s} : req'[t] = req[t] BY <2>3, SlotMoves
  <2>5. Open(u, n) BY <2>0 DEF Exists, Open
  <2> QED BY <1>1, <2>2, <2>3, <2>4, <2>5 DEF SubmitBegin, Effect, Enters
<1>2. ASSUME NEW r, req' = [req EXCEPT ![s] = r], UNCHANGED <<attempts, answers>>,
             r.pc \in {"sbAuto", "sbScore"}, r.stu = req[s].stu, r.num = req[s].num,
             req[s].pc \in {"sbList", "sbAuto"}
      PROVE  Effect(s)
  <2>1. req'[s] = r /\ \A t \in Slots \ {s} : req'[t] = req[t] BY <1>2, SlotMoves
  <2> QED BY <1>2, <2>1 DEF Effect, Reads, OnSame, StartPC
<1>3. CASE SubmitList(s)
  <2>1. PICK f : req' = [req EXCEPT ![s] = [req[s] EXCEPT !.pc = "sbAuto", !.snap = f]]
    BY <1>3 DEF SubmitList
  <2> DEFINE r == [req[s] EXCEPT !.pc = "sbAuto", !.snap = f]
  <2>2. r.pc = "sbAuto" /\ r.stu = req[s].stu /\ r.num = req[s].num BY <1>0, RequestFields
  <2> HIDE DEF r
  <2> QED BY <1>2, <1>3, <2>1, <2>2 DEF SubmitList, r
<1>4. CASE SubmitAutoSkip(s)
  <2>1. PICK q \in Questions : req' = [req EXCEPT ![s].snap[q] = None]
    BY <1>4 DEF SubmitAutoSkip
  <2> DEFINE r == [req[s] EXCEPT !.snap[q] = None]
  <2>2. r.pc = "sbAuto" /\ r.stu = req[s].stu /\ r.num = req[s].num
    BY <1>0, <1>4, RequestFields DEF SubmitAutoSkip
  <2>3. req' = [req EXCEPT ![s] = r] BY <2>1
  <2> HIDE DEF r
  <2> QED BY <1>2, <1>4, <2>2, <2>3 DEF SubmitAutoSkip
<1>5. CASE SubmitAutoOne(s)
  <2>1. PICK q \in Questions :
          /\ req[s].snap[q] # None
          /\ WriteAnswer(req[s].stu, req[s].num, q, AutoGraded(q, req[s].snap[q]))
          /\ req' = [req EXCEPT ![s].snap[q] = None]
    BY <1>5 DEF SubmitAutoOne
  <2> DEFINE r == [req[s] EXCEPT !.snap[q] = None]
  <2>2. r.pc = "sbAuto" /\ r.stu = req[s].stu /\ r.num = req[s].num
    BY <1>0, <1>5, RequestFields DEF SubmitAutoOne
  <2>3. req' = [req EXCEPT ![s] = r] BY <2>1
  <2> HIDE DEF r
  <2>4. req'[s] = r /\ \A t \in Slots \ {s} : req'[t] = req[t] BY <2>3, SlotMoves
  <2>5. req[s].stu \in Students /\ req[s].num \in Nums /\ req[s].snap[q] \in Answer
    BY <1>0, <1>5, <2>1 DEF SubmitAutoOne, ReqOK, SubmitPC, Request
  <2>6. AutoGrades(s)
    BY <1>5, <2>1, <2>2, <2>4, <2>5 DEF SubmitAutoOne, AutoGrades, OnSame
  <2> QED BY <2>4, <2>6 DEF Effect
<1>6. CASE SubmitWait(s)
  <2> DEFINE r == [req[s] EXCEPT !.pc = "sbScore"]
  <2>1. r.pc = "sbScore" /\ r.stu = req[s].stu /\ r.num = req[s].num
    BY <1>0, RequestFields
  <2>2. req' = [req EXCEPT ![s] = r] BY <1>6 DEF SubmitWait, Goto
  <2> HIDE DEF r
  <2> QED BY <1>2, <1>6, <2>1, <2>2 DEF SubmitWait
<1>7. CASE SubmitScore(s)
  <2> DEFINE row == Scored(req[s].row, req[s].stu, req[s].num)
             r == [req[s] EXCEPT !.pc = "sbSave", !.row = row]
  <2>1. req[s].row \in Attempt BY <1>0, <1>7 DEF SubmitScore, ReqOK, SubmitPC
  <2> HIDE DEF row
  <2>2. r.pc = "sbSave" /\ r.stu = req[s].stu /\ r.num = req[s].num /\ r.row = row
    BY <1>0, RequestFields
  <2>3. req' = [req EXCEPT ![s] = r] BY <1>7 DEF SubmitScore, row
  <2> HIDE DEF r
  <2>4. req'[s] = r /\ \A t \in Slots \ {s} : req'[t] = req[t] BY <2>3, SlotMoves
  <2>5. Sums(s) BY <1>7, <2>1, <2>2, <2>4 DEF SubmitScore, Sums, OnSame, row
  <2> QED BY <2>4, <2>5 DEF Effect
<1>8. CASE SubmitSave(s)
  <2>1. req[s].stu \in Students /\ req[s].num \in Nums /\ req[s].row \in Attempt
    BY <1>0, <1>8 DEF SubmitSave, ReqOK, SubmitPC
  <2>2. req'[s] = Idle /\ \A t \in Slots \ {s} : req'[t] = req[t]
    BY <1>8, SlotMoves DEF SubmitSave, Finish
  <2>3. Saves(s) BY <1>8, <2>1, <2>2, IdleOK DEF SubmitSave, SaveAttempt, Saves
  <2> QED BY <2>2, <2>3 DEF Effect
<1> QED BY <1>1, <1>3, <1>4, <1>5, <1>6, <1>7, <1>8

LEMMA GradeEffect ==
    ASSUME IInv, NEW s \in Slots,
           \/ GradeBegin(s) \/ GradeAttempt(s) \/ GradeWrite(s) \/ GradeScore(s)
           \/ GradeSave(s)
    PROVE  Effect(s)
<1>0. req[s] \in Request /\ ReqOK(s) BY DEF IInv, TypeOK
<1>1. CASE GradeBegin(s)
  <2>1. PICK u \in Students, n \in Nums, q \in Questions :
          /\ Exists(u, n) /\ answers[u][n][q] # None
          /\ GradeListedOnly => Listed(u, n, q)
          /\ \E p \in 0..Points[q] :
               Begin(s, "grade", [Idle EXCEPT !.pc = "grAttempt", !.stu = u, !.num = n,
                                              !.q = q, !.in = p,
                                              !.old = answers[u][n][q]])
    BY <1>1 DEF GradeBegin
  <2>2. PICK p \in 0..Points[q] :
          Begin(s, "grade", [Idle EXCEPT !.pc = "grAttempt", !.stu = u, !.num = n,
                                         !.q = q, !.in = p, !.old = answers[u][n][q]])
    BY <2>1
  <2> DEFINE r == [Idle EXCEPT !.pc = "grAttempt", !.stu = u, !.num = n,
                               !.q = q, !.in = p, !.old = answers[u][n][q]]
  <2>3. /\ r.pc = "grAttempt" /\ r.stu = u /\ r.num = n /\ r.q = q
        /\ r.old = answers[u][n][q]
    BY DEF Idle
  <2>4. req' = [req EXCEPT ![s] = r] /\ req[s].pc = "idle" /\ "grade" \in Role[s]
    BY <2>2 DEF Begin
  <2> HIDE DEF r
  <2>5. req'[s] = r /\ \A t \in Slots \ {s} : req'[t] = req[t] BY <2>4, SlotMoves
  <2> QED BY <1>1, <2>1, <2>3, <2>4, <2>5 DEF GradeBegin, Effect, Enters, Exists
<1>2. CASE GradeAttempt(s)
  <2> DEFINE row == attempts[req[s].stu][req[s].num]
             r == [req[s] EXCEPT !.pc = "grWrite", !.row = row]
  <2>1. req' = [req EXCEPT ![s] = r] BY <1>2 DEF GradeAttempt
  <2> HIDE DEF row
  <2>2. /\ r.pc = "grWrite" /\ r.stu = req[s].stu /\ r.num = req[s].num
        /\ r.q = req[s].q /\ r.old = req[s].old
    BY <1>0, RequestFields
  <2> HIDE DEF r
  <2>3. req'[s] = r /\ \A t \in Slots \ {s} : req'[t] = req[t] BY <2>1, SlotMoves
  <2> QED BY <1>2, <2>2, <2>3 DEF GradeAttempt, Effect, Reads, OnSame
<1>3. CASE GradeWrite(s)
  <2> DEFINE r == [req[s] EXCEPT !.pc = "grScore"]
  <2>1. /\ r.pc = "grScore" /\ r.stu = req[s].stu /\ r.num = req[s].num
        /\ r.q = req[s].q /\ r.old = req[s].old
    BY <1>0, RequestFields
  <2>2. req' = [req EXCEPT ![s] = r] BY <1>3 DEF GradeWrite, Goto
  <2> HIDE DEF r
  <2>3. req'[s] = r /\ \A t \in Slots \ {s} : req'[t] = req[t] BY <2>2, SlotMoves
  <2>4. /\ req[s].stu \in Students /\ req[s].num \in Nums /\ req[s].q \in Questions
        /\ req[s].in \in Nat /\ req[s].old \in Answer
    BY <1>0, <1>3 DEF GradeWrite, ReqOK, GradePC
  <2>5. Marks(s) BY <1>3, <2>1, <2>3, <2>4 DEF GradeWrite, Marks, OnSame
  <2> QED BY <2>3, <2>5 DEF Effect
<1>4. CASE GradeScore(s)
  <2> DEFINE copy == [req[s].row EXCEPT !.manual = TRUE]
             row == Scored(copy, req[s].stu, req[s].num)
             r == [req[s] EXCEPT !.pc = "grSave", !.row = row]
  <2>1. req[s].row \in Attempt BY <1>0, <1>4 DEF GradeScore, ReqOK
  <2>2. copy \in Attempt BY <2>1 DEF Attempt
  <2>3. req' = [req EXCEPT ![s] = r] BY <1>4 DEF GradeScore
  <2> HIDE DEF row
  <2>4. /\ r.pc = "grSave" /\ r.stu = req[s].stu /\ r.num = req[s].num
        /\ r.q = req[s].q /\ r.old = req[s].old /\ r.row = row
    BY <1>0, RequestFields
  <2> HIDE DEF r, copy
  <2>5. req'[s] = r /\ \A t \in Slots \ {s} : req'[t] = req[t] BY <2>3, SlotMoves
  <2>6. Sums(s) BY <1>4, <2>2, <2>4, <2>5 DEF GradeScore, Sums, OnSame, row
  <2> QED BY <2>5, <2>6 DEF Effect
<1>5. CASE GradeSave(s)
  <2>1. req[s].stu \in Students /\ req[s].num \in Nums /\ req[s].row \in Attempt
    BY <1>0, <1>5 DEF GradeSave, ReqOK, GradePC
  <2>2. req'[s] = Idle /\ \A t \in Slots \ {s} : req'[t] = req[t]
    BY <1>5, SlotMoves DEF GradeSave, Finish
  <2>3. Saves(s) BY <1>5, <2>1, <2>2, IdleOK DEF GradeSave, SaveAttempt, Saves
  <2> QED BY <2>2, <2>3 DEF Effect
<1> QED BY <1>1, <1>2, <1>3, <1>4, <1>5

\* What a request can do to the tables in one step.
LEMMA ServeEffect ==
    ASSUME IInv, NEW s \in Slots, Serve(s)
    PROVE  Effect(s)
<1>1. CASE Abort(s) BY <1>1, EndEffect DEF Abort
<1> QED BY <1>1, StartEffect, AnswerEffect, SubmitEffect, GradeEffect DEF Serve

\* The detached goroutines touch neither table and no request.
LEMMA RestEffect ==
    ASSUME UpdateQuizAnalytics \/ MarkComplete \/ JobLost \/ UNCHANGED vars
    PROVE  UNCHANGED <<attempts, answers, req>>
  BY DEF UpdateQuizAnalytics, MarkComplete, JobLost, vars

\* UPDATE ... WHERE id: one cell of a table changes.
LEMMA WrittenAnswer ==
    ASSUME IInv, NEW u \in Students, NEW n \in Nums, NEW q \in Questions, NEW a,
           WriteAnswer(u, n, q, a)
    PROVE  /\ answers'[u][n][q] = a
           /\ \A v \in Students, m \in Nums, p \in Questions :
                 <<v, m, p>> # <<u, n, q>> => answers'[v][m][p] = answers[v][m][p]
  BY DEF IInv, TypeOK, WriteAnswer

LEMMA SavedRow ==
    ASSUME IInv, NEW u \in Students, NEW n \in Nums, NEW row,
           attempts' = [attempts EXCEPT ![u][n] = row]
    PROVE  /\ attempts'[u][n] = row
           /\ \A v \in Students, m \in Nums :
                 <<v, m>> # <<u, n>> => attempts'[v][m] = attempts[v][m]
  BY DEF IInv, TypeOK

\* UpdateAttempt leaves the copy in the row.
LEMMA SavedCopy ==
    ASSUME IInv, NEW s \in Slots, Saves(s)
    PROVE  attempts'[req[s].stu][req[s].num] = req[s].row
<1>1. PICK u \in Students, n \in Nums : u = req[s].stu /\ n = req[s].num
  BY DEF Saves
<1> SUFFICES ASSUME NEW row, row = req[s].row
             PROVE  attempts'[req[s].stu][req[s].num] = row
  OBVIOUS
<1>2. attempts' = [attempts EXCEPT ![u][n] = row] BY <1>1 DEF Saves
<1>3. attempts'[u][n] = row BY <1>2 DEF IInv, TypeOK
<1> QED BY <1>1, <1>3

-----------------------------------------------------------------------------
(***************************************************************************)
(* What a request may rely on while it runs.  A student whose submit of an *)
(* attempt overlaps no other answer or submit of that attempt answers and  *)
(* submits an open attempt to the end; a grader who opened a listed answer *)
(* works on a finished attempt, and on the data that is in the row.        *)
(***************************************************************************)
SubmitsAlone ==
    \A s, t \in Slots :
        s # t /\ req[s].pc \in SubmitPC /\ req[t].pc \in AnswerPC \cup SubmitPC
            => <<req[s].stu, req[s].num>> # <<req[t].stu, req[t].num>>

OpensClaim(s) ==
    req[s].pc \in AnswerPC \cup SubmitPC => Open(req[s].stu, req[s].num)

GradesClaim(s) ==
    LET r == req[s] IN
    r.pc \in GradePC =>
        /\ Finished(r.stu, r.num)
        /\ r.q \notin AutoQuestions
        /\ answers[r.stu][r.num][r.q] # None
        /\ answers[r.stu][r.num][r.q].data = r.old.data

Claims == \A s \in Slots : OpensClaim(s) /\ GradesClaim(s)

\* The attempt and the question a request works on are rows' keys.
LEMMA Keys ==
    ASSUME IInv, NEW s \in Slots
    PROVE  /\ req[s].pc \in AnswerPC \cup SubmitPC \cup GradePC =>
                 req[s].stu \in Students /\ req[s].num \in Nums
           /\ req[s].pc \in AnswerPC \cup GradePC => req[s].q \in Questions
           /\ req[s].pc \in GradePC => req[s].old \in Answer
  BY DEF IInv, ReqOK

LEMMA OpensClaimStep ==
    ASSUME IInv, SubmitsAlone, Claims, NEW s \in Slots, Effect(s), NEW t \in Slots
    PROVE  OpensClaim(t)'
<1> SUFFICES ASSUME req'[t].pc \in AnswerPC \cup SubmitPC
             PROVE  OpensClaim(t)'
  BY DEF OpensClaim
<1> USE DEF StartPC, AnswerPC, SubmitPC, GradePC
<1>1. CASE t = s
  <2>1. UNCHANGED attempts
    BY <1>1 DEF Effect, Enters, Reads, Sums, Ends, Inserts, Saves, Answers, AutoGrades, Marks
  <2>2. Open(req'[s].stu, req'[s].num)
    <3>1. CASE Enters(s) BY <1>1, <3>1 DEF Enters
    <3>2. CASE ~ Enters(s)
      <4>1. req[s].pc \in AnswerPC \cup SubmitPC /\ OnSame(s)
        BY <1>1, <3>2
           DEF Effect, Reads, Sums, Ends, Inserts, Saves, Answers, AutoGrades, Marks
      <4> QED BY <4>1 DEF Claims, OpensClaim, OnSame
    <3> QED BY <3>1, <3>2
  <2> QED BY <1>1, <2>1, <2>2 DEF OpensClaim, Open
<1>2. CASE t # s
  <2> DEFINE u == req[t].stu
             n == req[t].num
  <2>1. req'[t] = req[t] BY <1>2 DEF Effect
  <2>2. u \in Students /\ n \in Nums /\ Open(u, n) BY <2>1, Keys DEF Claims, OpensClaim
  <2>3. attempts'[u][n] = attempts[u][n]
    <3>1. CASE UNCHANGED attempts BY <3>1
    <3>2. CASE Inserts(s)
      <4>1. <<u, n>> # <<req[s].stu, req[s].num>> BY <2>2, <3>2 DEF Inserts, Open
      <4> QED BY <2>2, <3>2, <4>1, SavedRow DEF Inserts
    <3>3. CASE Saves(s)
      <4>1. req[s].pc = "grSave" => Finished(req[s].stu, req[s].num)
        BY DEF Claims, GradesClaim
      <4>2. <<u, n>> # <<req[s].stu, req[s].num>>
        BY <1>2, <2>1, <2>2, <3>3, <4>1 DEF Saves, SubmitsAlone, Open, Finished
      <4> QED BY <2>2, <3>3, <4>2, SavedRow DEF Saves
    <3> QED
      BY <3>1, <3>2, <3>3 DEF Effect, Enters, Reads, Sums, Ends, Answers, AutoGrades, Marks
  <2> QED BY <2>1, <2>2, <2>3 DEF OpensClaim, Open
<1> QED BY <1>1, <1>2

\* Only a grader touches the answers of a finished attempt, and leaves the data.
LEMMA DataStays ==
    ASSUME IInv, Claims, NEW s \in Slots, Effect(s),
           NEW u \in Students, NEW n \in Nums, NEW q \in Questions, Finished(u, n)
    PROVE  /\ answers[u][n][q] = None <=> answers'[u][n][q] = None
           /\ answers[u][n][q] # None => answers'[u][n][q].data = answers[u][n][q].data
<1> USE DEF AnswerPC, SubmitPC, GradePC
<1>1. CASE UNCHANGED answers BY <1>1
<1>2. CASE Answers(s) \/ AutoGrades(s)
  <2>1. /\ req[s].stu \in Students /\ req[s].num \in Nums
        /\ \E p \in Questions : \E a : WriteAnswer(req[s].stu, req[s].num, p, a)
    BY <1>2 DEF Answers, AutoGrades
  <2>2. Open(req[s].stu, req[s].num)
    BY <1>2 DEF Answers, AutoGrades, Claims, OpensClaim
  <2>3. <<u, n>> # <<req[s].stu, req[s].num>> BY <2>2 DEF Open, Finished
  <2> QED BY <2>1, <2>3, WrittenAnswer
<1>3. CASE Marks(s)
  <2> DEFINE r == req[s]
             a == [r.old EXCEPT !.pts = r.in, !.byTeacher = TRUE]
  <2>1. /\ r.stu \in Students /\ r.num \in Nums /\ r.q \in Questions /\ r.in \in Nat
        /\ r.old \in Answer /\ WriteAnswer(r.stu, r.num, r.q, a)
    BY <1>3 DEF Marks
  <2>2. /\ answers[r.stu][r.num][r.q] # None
        /\ answers[r.stu][r.num][r.q].data = r.old.data
    BY <1>3 DEF Marks, Claims, GradesClaim
  <2>3. a \in Answer /\ a.data = r.old.data BY <2>1 DEF Answer
  <2>4. a # None BY <2>3, NoneAssumption
  <2> HIDE DEF a, r
  <2> QED BY <2>1, <2>2, <2>3, <2>4, WrittenAnswer
<1> QED BY <1>1, <1>2, <1>3 DEF Effect, Enters, Reads, Sums, Ends, Inserts, Saves

LEMMA GradesClaimStep ==
    ASSUME GradeListedOnly, IInv, Kept, Claims, NEW s \in Slots, Effect(s), NEW t \in Slots
    PROVE  GradesClaim(t)'
<1> SUFFICES ASSUME req'[t].pc \in GradePC PROVE GradesClaim(t)'
  BY DEF GradesClaim
<1> USE DEF StartPC, AnswerPC, SubmitPC, GradePC
<1>1. CASE t = s /\ Enters(s)
  <2> DEFINE r == req'[s]
  <2>1. /\ r.stu \in Students /\ r.num \in Nums /\ r.q \in Questions
        /\ attempts[r.stu][r.num] # None /\ answers[r.stu][r.num][r.q] # None
        /\ r.old = answers[r.stu][r.num][r.q] /\ Listed(r.stu, r.num, r.q)
        /\ UNCHANGED <<attempts, answers>>
    BY <1>1 DEF Enters
  <2> QED BY <1>1, <2>1 DEF GradesClaim, Listed, Finished
<1>2. CASE ~ (t = s /\ Enters(s))
  <2> DEFINE r == req[t]
  <2>1. /\ r.pc \in GradePC /\ req'[t].stu = r.stu /\ req'[t].num = r.num
        /\ req'[t].q = r.q /\ req'[t].old = r.old
    <3>1. CASE t = s
      BY <1>2, <3>1
         DEF Effect, Reads, Sums, Ends, Inserts, Saves, Answers, AutoGrades, Marks, OnSame
    <3>2. CASE t # s BY <3>2 DEF Effect
    <3> QED BY <3>1, <3>2
  <2>2. r.stu \in Students /\ r.num \in Nums /\ r.q \in Questions BY <2>1, Keys
  <2>3. /\ Finished(r.stu, r.num) /\ r.q \notin AutoQuestions
        /\ answers[r.stu][r.num][r.q] # None
        /\ answers[r.stu][r.num][r.q].data = r.old.data
    BY <2>1 DEF Claims, GradesClaim
  <2>4. /\ answers'[r.stu][r.num][r.q] # None
        /\ answers'[r.stu][r.num][r.q].data = r.old.data
    BY <2>2, <2>3, DataStays
  <2>5. Finished(r.stu, r.num)' BY <2>1, <2>2, <2>3 DEF Kept, Finished
  <2> QED BY <2>1, <2>3, <2>4, <2>5 DEF GradesClaim, Finished
<1> QED BY <1>1, <1>2

LEMMA InitClaims == Init => Claims
<1> SUFFICES ASSUME Init, NEW s \in Slots PROVE OpensClaim(s) /\ GradesClaim(s)
  BY DEF Claims
<1>1. req[s].pc = "idle" BY IdleOK DEF Init
<1> QED BY <1>1 DEF OpensClaim, GradesClaim, AnswerPC, SubmitPC, GradePC

LEMMA NextClaims ==
    ASSUME GradeListedOnly, IInv, SubmitsAlone, Claims, [Next]_vars
    PROVE  Claims'
<1>1. Kept BY NextStep
<1>2. ASSUME NEW s \in Slots, Serve(s) PROVE Claims'
  BY <1>1, <1>2, ServeEffect, OpensClaimStep, GradesClaimStep DEF Claims
<1>3. CASE UpdateQuizAnalytics \/ MarkComplete \/ JobLost \/ UNCHANGED vars
  <2>1. UNCHANGED <<attempts, answers, req>> BY <1>3, RestEffect
  <2> QED BY <2>1 DEF Claims, OpensClaim, GradesClaim, Open, Finished
<1> QED BY <1>2, <1>3 DEF Next

(* For graders who open what the grading list shows, and while a submit of an
   attempt runs beside no other answer or submit of it: what the student answered
   in a finished attempt stays, whatever statements fail and however many graders
   write whole answer rows back. *)
THEOREM FinishedAnswersStay ==
    ASSUME GradeListedOnly
    PROVE  Spec /\ []SubmitsAlone => AnswersFrozen
<1> DEFINE Frozen ==
        \A u \in Students, n \in Nums, q \in Questions :
          Finished(u, n) =>
             /\ answers[u][n][q] = None <=> answers'[u][n][q] = None
             /\ answers[u][n][q] # None =>
                   answers'[u][n][q].data = answers[u][n][q].data
<1>1. IInv /\ Claims /\ [Next]_vars => [Frozen]_vars
  <2> SUFFICES ASSUME IInv, Claims, [Next]_vars PROVE [Frozen]_vars
    OBVIOUS
  <2>1. ASSUME NEW s \in Slots, Serve(s) PROVE Frozen
    BY <2>1, ServeEffect, DataStays
  <2>2. CASE UpdateQuizAnalytics \/ MarkComplete \/ JobLost \/ UNCHANGED vars
    <3>1. UNCHANGED answers BY <2>2, RestEffect
    <3> QED BY <3>1
  <2> QED BY <2>1, <2>2 DEF Next
<1>2. IInv /\ SubmitsAlone /\ Claims /\ [Next]_vars => Claims'
  BY NextClaims
<1> QED BY <1>1, <1>2, InitClaims, Invariance, PTL DEF Spec, AnswersFrozen

-----------------------------------------------------------------------------
(***************************************************************************)
(* The status and the score of an attempt follow from its answers.  A      *)
(* request computes them into its copy of the row first and writes the row *)
(* in a later step, so the copy must be true of the answers as well: from  *)
(* calculateAttemptScore to UpdateAttempt nobody may write an answer the   *)
(* copy does not know of.                                                  *)
(***************************************************************************)
Fits(row, u, n) == /\ row.tally = Scores(u, n)
                   /\ row.status = "GRADED" <=> AllGraded(u, n)

Saving == {"sbSave", "grSave"}

CopyComplete(s) ==
    req[s].pc \in Saving /\ req[s].row.status = "GRADED"
        => AllGraded(req[s].stu, req[s].num)

GradedInv == GradedIsComplete /\ \A s \in Slots : CopyComplete(s)

LEMMA SumsFit ==
    ASSUME NEW s \in Slots, Sums(s)
    PROVE  Fits(req'[s].row, req[s].stu, req[s].num)
<1>1. PICK row \in Attempt : req'[s].row = Scored(row, req[s].stu, req[s].num)
  BY DEF Sums
<1> QED BY <1>1 DEF Scored, Fits, Attempt

\* Rows of the same data and points give the same score and the same status.
LEMMA SameAnswers ==
    ASSUME NEW u \in Students, NEW n \in Nums,
           \A q \in Questions : answers'[u][n][q] = answers[u][n][q]
    PROVE  Scores(u, n)' = Scores(u, n) /\ (AllGraded(u, n)' <=> AllGraded(u, n))
  BY DEF Scores, AllGraded

\* SubmitAnswer and the errgroup write answers of an open attempt whose score
\* nobody is about to save.
LEMMA StudentWrites ==
    ASSUME IInv, SubmitsAlone, Claims, NEW s \in Slots, Answers(s) \/ AutoGrades(s)
    PROVE  /\ Open(req[s].stu, req[s].num)
           /\ \A t \in Slots : req[t].pc \in Saving =>
                 <<req[t].stu, req[t].num>> # <<req[s].stu, req[s].num>>
           /\ \A u \in Students, n \in Nums : <<u, n>> # <<req[s].stu, req[s].num>> =>
                 \A q \in Questions : answers'[u][n][q] = answers[u][n][q]
<1> USE DEF AnswerPC, SubmitPC, GradePC, Saving
<1>1. req[s].pc \in {"anWrite", "anAuto", "sbAuto"} BY DEF Answers, AutoGrades
<1>2. Open(req[s].stu, req[s].num) BY <1>1 DEF Claims, OpensClaim
<1>3. ASSUME NEW t \in Slots, req[t].pc \in Saving
      PROVE  <<req[t].stu, req[t].num>> # <<req[s].stu, req[s].num>>
  <2>1. CASE req[t].pc = "sbSave" BY <1>1, <2>1 DEF SubmitsAlone
  <2>2. CASE req[t].pc = "grSave"
    <3>1. Finished(req[t].stu, req[t].num) BY <2>2 DEF Claims, GradesClaim
    <3> QED BY <1>2, <3>1 DEF Open, Finished
  <2> QED BY <1>3, <2>1, <2>2
<1>4. PICK q \in Questions : /\ req[s].stu \in Students /\ req[s].num \in Nums
                             /\ \E a : WriteAnswer(req[s].stu, req[s].num, q, a)
  BY DEF Answers, AutoGrades
<1>5. \A u \in Students, n \in Nums : <<u, n>> # <<req[s].stu, req[s].num>> =>
         \A p \in Questions : answers'[u][n][p] = answers[u][n][p]
  BY <1>4, WrittenAnswer
<1> QED BY <1>2, <1>3, <1>5

\* A grader writes one row, and it has points.
LEMMA GraderWrites ==
    ASSUME IInv, NEW s \in Slots, Marks(s), NEW u \in Students, NEW n \in Nums
    PROVE  /\ AllGraded(u, n) => AllGraded(u, n)'
           /\ <<u, n>> # <<req[s].stu, req[s].num>> =>
                 \A q \in Questions : answers'[u][n][q] = answers[u][n][q]
<1> DEFINE r == req[s]
           a == [r.old EXCEPT !.pts = r.in, !.byTeacher = TRUE]
<1>1. /\ r.stu \in Students /\ r.num \in Nums /\ r.q \in Questions /\ r.in \in Nat
      /\ r.old \in Answer /\ WriteAnswer(r.stu, r.num, r.q, a)
  BY DEF Marks
<1>2. a.pts # None
  <2>1. a.pts \in Nat BY <1>1 DEF Answer
  <2> QED BY <2>1, NoneAssumption
<1> HIDE DEF a, r
<1>3. /\ answers'[r.stu][r.num][r.q] = a
      /\ \A v \in Students, m \in Nums, p \in Questions :
            <<v, m, p>> # <<r.stu, r.num, r.q>> => answers'[v][m][p] = answers[v][m][p]
  BY <1>1, WrittenAnswer
<1>4. AllGraded(u, n) => AllGraded(u, n)'
  <2> SUFFICES ASSUME AllGraded(u, n), NEW q \in Questions \ AutoQuestions,
                      answers'[u][n][q] # None
               PROVE  answers'[u][n][q].pts # None
    BY DEF AllGraded
  <2>1. CASE <<u, n, q>> = <<r.stu, r.num, r.q>> BY <1>2, <1>3, <2>1
  <2>2. CASE <<u, n, q>> # <<r.stu, r.num, r.q>>
    BY <1>3, <2>2 DEF AllGraded
  <2> QED BY <2>1, <2>2
<1>5. <<u, n>> # <<r.stu, r.num>> =>
         \A q \in Questions : answers'[u][n][q] = answers[u][n][q]
  BY <1>3
<1> QED BY <1>4, <1>5 DEF r

\* Completeness is only ever gained, but for what the student writes.
LEMMA CompleteStays ==
    ASSUME IInv, SubmitsAlone, Claims, NEW s \in Slots, Effect(s),
           NEW u \in Students, NEW n \in Nums, AllGraded(u, n),
           Answers(s) \/ AutoGrades(s) => <<u, n>> # <<req[s].stu, req[s].num>>
    PROVE  AllGraded(u, n)'
<1>1. CASE UNCHANGED answers BY <1>1 DEF AllGraded
<1>2. CASE Answers(s) \/ AutoGrades(s) BY <1>2, StudentWrites, SameAnswers
<1>3. CASE Marks(s) BY <1>3, GraderWrites
<1> QED BY <1>1, <1>2, <1>3 DEF Effect, Enters, Reads, Sums, Ends, Inserts, Saves

LEMMA GradedStep ==
    ASSUME GradeListedOnly, IInv, SubmitsAlone, Claims, GradedInv,
           NEW s \in Slots, Effect(s)
    PROVE  GradedInv'
<1> USE DEF StartPC, AnswerPC, SubmitPC, GradePC, Saving
<1>1. ASSUME NEW u \in Students, NEW n \in Nums,
             attempts'[u][n] # None, attempts'[u][n].status = "GRADED"
      PROVE  AllGraded(u, n)'
  <2>1. CASE Inserts(s)
    <3>1. <<u, n>> # <<req[s].stu, req[s].num>>
      BY <1>1, <2>1, SavedRow DEF Inserts, NewAttempt
    <3>2. attempts'[u][n] = attempts[u][n] BY <2>1, <3>1, SavedRow DEF Inserts
    <3> QED BY <1>1, <2>1, <3>2 DEF Inserts, GradedInv, GradedIsComplete, AllGraded
  <2>2. CASE Saves(s)
    <3>1. CASE <<u, n>> = <<req[s].stu, req[s].num>>
      <4>1. attempts'[u][n] = req[s].row
        <5>1. u = req[s].stu /\ n = req[s].num BY <3>1
        <5> QED BY <2>2, <5>1, SavedCopy
      <4>2. AllGraded(u, n)
        BY <1>1, <2>2, <3>1, <4>1 DEF Saves, GradedInv, CopyComplete
      <4> QED BY <2>2, <4>2 DEF Saves, AllGraded
    <3>2. CASE <<u, n>> # <<req[s].stu, req[s].num>>
      <4>1. attempts'[u][n] = attempts[u][n] BY <2>2, <3>2, SavedRow DEF Saves
      <4> QED BY <1>1, <2>2, <4>1 DEF Saves, GradedInv, GradedIsComplete, AllGraded
    <3> QED BY <3>1, <3>2
  <2>3. CASE UNCHANGED attempts
    <3>1. AllGraded(u, n) /\ ~ Open(u, n)
      BY <1>1, <2>3 DEF GradedInv, GradedIsComplete, Open
    <3>2. Answers(s) \/ AutoGrades(s) => <<u, n>> # <<req[s].stu, req[s].num>>
      BY <3>1, StudentWrites
    <3> QED BY <3>1, <3>2, CompleteStays
  <2> QED
    BY <2>1, <2>2, <2>3 DEF Effect, Enters, Reads, Sums, Ends, Answers, AutoGrades, Marks
<1>2. ASSUME NEW t \in Slots PROVE CopyComplete(t)'
  <2> SUFFICES ASSUME req'[t].pc \in Saving, req'[t].row.status = "GRADED"
               PROVE  CopyComplete(t)'
    BY DEF CopyComplete
  <2>1. CASE t = s
    <3>1. Sums(s)
      BY <2>1 DEF Effect, Enters, Reads, Ends, Inserts, Saves, Answers, AutoGrades, Marks
    <3>2. AllGraded(req[s].stu, req[s].num) BY <2>1, <3>1, SumsFit DEF Fits
    <3> QED BY <2>1, <3>1, <3>2 DEF Sums, OnSame, CopyComplete, AllGraded
  <2>2. CASE t # s
    <3>1. req'[t] = req[t] BY <2>2 DEF Effect
    <3>2. req[t].stu \in Students /\ req[t].num \in Nums BY <3>1, Keys
    <3>3. AllGraded(req[t].stu, req[t].num) BY <3>1 DEF GradedInv, CopyComplete
    <3>4. Answers(s) \/ AutoGrades(s)
             => <<req[t].stu, req[t].num>> # <<req[s].stu, req[s].num>>
      BY <3>1, StudentWrites
    <3> DEFINE u == req[t].stu
               n == req[t].num
    <3>5. \E v \in Students, m \in Nums : v = u /\ m = n /\ AllGraded(v, m)'
      <4>1. PICK v \in Students, m \in Nums : v = u /\ m = n BY <3>2
      <4>2. AllGraded(v, m)' BY <3>3, <3>4, <4>1, CompleteStays
      <4> QED BY <4>1, <4>2
    <3> QED BY <3>1, <3>5 DEF CopyComplete
  <2> QED BY <2>1, <2>2
<1> QED BY <1>1, <1>2 DEF GradedInv, GradedIsComplete

LEMMA InitGraded == Init => GradedInv
<1> SUFFICES ASSUME Init PROVE GradedInv
  OBVIOUS
<1>1. GradedIsComplete BY DEF Init, GradedIsComplete
<1>2. ASSUME NEW s \in Slots PROVE CopyComplete(s)
  BY IdleOK DEF Init, CopyComplete, Saving
<1> QED BY <1>1, <1>2 DEF GradedInv

(* Under the same conditions the status GRADED is never shown while an answer
   waits for a teacher, however many graders save copies of the row, and
   whichever of their statements fail. *)
THEOREM GradedHasAllPoints ==
    ASSUME GradeListedOnly
    PROVE  Spec /\ []SubmitsAlone => []GradedIsComplete
<1>1. IInv /\ SubmitsAlone /\ Claims /\ GradedInv /\ [Next]_vars => GradedInv'
  <2> SUFFICES ASSUME IInv, SubmitsAlone, Claims, GradedInv, [Next]_vars PROVE GradedInv'
    OBVIOUS
  <2>1. ASSUME NEW s \in Slots, Serve(s) PROVE GradedInv'
    BY <2>1, ServeEffect, GradedStep
  <2>2. CASE UpdateQuizAnalytics \/ MarkComplete \/ JobLost \/ UNCHANGED vars
    <3>1. UNCHANGED <<attempts, answers, req>> BY <2>2, RestEffect
    <3> QED BY <3>1 DEF GradedInv, GradedIsComplete, CopyComplete, AllGraded
  <2> QED BY <2>1, <2>2 DEF Next
<1>2. IInv /\ SubmitsAlone /\ Claims /\ [Next]_vars => Claims'
  BY NextClaims
<1>3. GradedInv => GradedIsComplete BY DEF GradedInv
<1> QED BY <1>1, <1>2, <1>3, InitClaims, InitGraded, Invariance, PTL DEF Spec

-----------------------------------------------------------------------------
(***************************************************************************)
(* ScoreIsCurrent speaks of quiet states.  What holds in between: the      *)
(* score of a finished attempt fits its answers unless a grader has        *)
(* written points and will save a new score, and the copy of the row a     *)
(* request is about to save fits them.  A second grader of the same        *)
(* attempt, or a grader cut short, breaks this.                            *)
(***************************************************************************)
OneGrader ==
    \A s, t \in Slots :
        s # t /\ req[s].pc \in GradePC /\ req[t].pc \in GradePC
            => <<req[s].stu, req[s].num>> # <<req[t].stu, req[t].num>>

Rescores(s, u, n) == /\ req[s].pc \in {"grScore", "grSave"}
                     /\ req[s].stu = u /\ req[s].num = n

Recorded(u, n) ==
    Finished(u, n) => \/ Fits(attempts[u][n], u, n)
                      \/ \E s \in Slots : Rescores(s, u, n)

CopyFits(s) == req[s].pc \in Saving => Fits(req[s].row, req[s].stu, req[s].num)

ScoreInv == /\ \A u \in Students, n \in Nums : Recorded(u, n)
            /\ \A s \in Slots : CopyFits(s)

LEMMA RecordedStep ==
    ASSUME ~ Failures, IInv, SubmitsAlone, Claims, ScoreInv, NEW s \in Slots, Effect(s),
           NEW u \in Students, NEW n \in Nums, Finished(u, n)'
    PROVE  Recorded(u, n)'
<1> USE DEF StartPC, AnswerPC, SubmitPC, GradePC, Saving
<1>1. CASE Marks(s) /\ <<u, n>> = <<req[s].stu, req[s].num>>
  BY <1>1 DEF Marks, OnSame, Recorded, Rescores
<1>2. CASE Saves(s) /\ <<u, n>> = <<req[s].stu, req[s].num>>
  <2>1. u = req[s].stu /\ n = req[s].num BY <1>2
  <2>2. attempts'[u][n] = req[s].row BY <1>2, <2>1, SavedCopy
  <2>3. Fits(req[s].row, u, n) BY <1>2, <2>1 DEF Saves, ScoreInv, CopyFits
  <2>4. Scores(u, n)' = Scores(u, n) /\ (AllGraded(u, n)' <=> AllGraded(u, n))
    BY <1>2 DEF Saves, Scores, AllGraded
  <2> QED BY <2>2, <2>3, <2>4 DEF Recorded, Fits
<1>3. CASE ~ (Marks(s) \/ Saves(s)) \/ <<u, n>> # <<req[s].stu, req[s].num>>
  <2>1. attempts'[u][n] = attempts[u][n]
    <3>1. CASE Inserts(s)
      <4>1. <<u, n>> # <<req[s].stu, req[s].num>>
        BY <3>1, SavedRow DEF Inserts, NewAttempt, Finished
      <4> QED BY <3>1, <4>1, SavedRow DEF Inserts
    <3>2. CASE Saves(s) BY <1>3, <3>2, SavedRow DEF Saves
    <3>3. CASE UNCHANGED attempts BY <3>3
    <3> QED
      BY <3>1, <3>2, <3>3 DEF Effect, Enters, Reads, Sums, Ends, Answers, AutoGrades, Marks
  <2>2. Finished(u, n) BY <2>1 DEF Finished
  <2>3. \A q \in Questions : answers'[u][n][q] = answers[u][n][q]
    <3>1. CASE UNCHANGED answers BY <3>1
    <3>2. CASE Marks(s) BY <1>3, <3>2, GraderWrites
    <3>3. CASE Answers(s) \/ AutoGrades(s)
      <4>1. <<u, n>> # <<req[s].stu, req[s].num>>
        BY <2>2, <3>3, StudentWrites DEF Open, Finished
      <4> QED BY <3>3, <4>1, StudentWrites
    <3> QED BY <3>1, <3>2, <3>3 DEF Effect, Enters, Reads, Sums, Ends, Inserts, Saves
  <2>4. Scores(u, n)' = Scores(u, n) /\ (AllGraded(u, n)' <=> AllGraded(u, n))
    BY <2>3, SameAnswers
  <2>5. CASE Fits(attempts[u][n], u, n) BY <2>1, <2>4, <2>5 DEF Recorded, Fits
  <2>6. ASSUME NEW t \in Slots, Rescores(t, u, n) PROVE Rescores(t, u, n)'
    <3>1. CASE t # s BY <2>6, <3>1 DEF Effect, Rescores
    <3>2. CASE t = s
      <4>1. ~ Saves(s) /\ ~ Ends(s) BY <1>3, <2>6, <3>2 DEF Rescores, Ends
      <4> QED
        BY <2>6, <3>2, <4>1
           DEF Effect, Enters, Reads, Sums, Inserts, Answers, AutoGrades, Marks, OnSame, Rescores
    <3> QED BY <3>1, <3>2
  <2> QED BY <2>2, <2>5, <2>6 DEF ScoreInv, Recorded
<1> QED BY <1>1, <1>2, <1>3

LEMMA CopyFitsStep ==
    ASSUME IInv, SubmitsAlone, OneGrader, Claims, ScoreInv, NEW s \in Slots, Effect(s),
           NEW t \in Slots
    PROVE  CopyFits(t)'
<1> USE DEF StartPC, AnswerPC, SubmitPC, GradePC, Saving
<1> SUFFICES ASSUME req'[t].pc \in Saving PROVE CopyFits(t)'
  BY DEF CopyFits
<1>1. CASE t = s
  <2>1. Sums(s)
    BY <1>1 DEF Effect, Enters, Reads, Ends, Inserts, Saves, Answers, AutoGrades, Marks
  <2>2. Fits(req'[s].row, req[s].stu, req[s].num) BY <2>1, SumsFit
  <2>3. /\ UNCHANGED answers
        /\ req'[t].row = req'[s].row
        /\ req'[t].stu = req[s].stu /\ req'[t].num = req[s].num
    BY <1>1, <2>1 DEF Sums, OnSame
  <2> QED BY <2>2, <2>3 DEF CopyFits, Fits, Scores, AllGraded
<1>2. CASE t # s
  <2>1. req'[t] = req[t] BY <1>2 DEF Effect
  <2>2. PICK u \in Students, n \in Nums : u = req[t].stu /\ n = req[t].num BY <2>1, Keys
  <2>3. Fits(req[t].row, u, n) BY <2>1, <2>2 DEF ScoreInv, CopyFits
  <2>4. \A q \in Questions : answers'[u][n][q] = answers[u][n][q]
    <3>1. CASE UNCHANGED answers BY <3>1
    <3>2. CASE Marks(s)
      <4>1. Finished(req[s].stu, req[s].num) BY <3>2 DEF Marks, Claims, GradesClaim
      <4>2. req[t].pc = "sbSave" => Open(u, n) BY <2>2 DEF Claims, OpensClaim
      <4>3. req[t].pc = "grSave" => <<u, n>> # <<req[s].stu, req[s].num>>
        BY <1>2, <2>2, <3>2 DEF Marks, OneGrader
      <4>4. <<u, n>> # <<req[s].stu, req[s].num>>
        BY <2>1, <4>1, <4>2, <4>3 DEF Open, Finished
      <4> QED BY <3>2, <4>4, GraderWrites
    <3>3. CASE Answers(s) \/ AutoGrades(s) BY <2>1, <2>2, <3>3, StudentWrites
    <3> QED BY <3>1, <3>2, <3>3 DEF Effect, Enters, Reads, Sums, Ends, Inserts, Saves
  <2>5. Scores(u, n)' = Scores(u, n) /\ (AllGraded(u, n)' <=> AllGraded(u, n))
    BY <2>4, SameAnswers
  <2> QED BY <2>1, <2>2, <2>3, <2>5 DEF CopyFits, Fits
<1> QED BY <1>1, <1>2

LEMMA InitScore == Init => ScoreInv
<1> SUFFICES ASSUME Init PROVE ScoreInv
  OBVIOUS
<1>1. \A u \in Students, n \in Nums : Recorded(u, n) BY DEF Init, Recorded, Finished
<1>2. ASSUME NEW s \in Slots PROVE CopyFits(s)
  BY IdleOK DEF Init, CopyFits, Saving
<1> QED BY <1>1, <1>2 DEF ScoreInv

(* When no statement fails, a submit runs beside no other answer or submit of its
   attempt and an attempt is graded by one grader at a time: whenever the service
   is quiet, the score and the status of every finished attempt are those of the
   answers as they are. *)
THEOREM QuietScoreIsCurrent ==
    ASSUME GradeListedOnly, ~ Failures
    PROVE  Spec /\ []SubmitsAlone /\ []OneGrader => []ScoreIsCurrent
<1>1. IInv /\ SubmitsAlone /\ OneGrader /\ Claims /\ ScoreInv /\ [Next]_vars => ScoreInv'
  <2> SUFFICES ASSUME IInv, SubmitsAlone, OneGrader, Claims, ScoreInv, [Next]_vars
               PROVE  ScoreInv'
    OBVIOUS
  <2>1. ASSUME NEW s \in Slots, Serve(s) PROVE ScoreInv'
    <3>1. Effect(s) BY <2>1, ServeEffect
    <3>2. \A t \in Slots : CopyFits(t)' BY <3>1, CopyFitsStep
    <3>3. ASSUME NEW u \in Students, NEW n \in Nums PROVE Recorded(u, n)'
      <4>1. CASE Finished(u, n)' BY <3>1, <4>1, RecordedStep
      <4>2. CASE ~ Finished(u, n)' BY <4>2 DEF Recorded
      <4> QED BY <4>1, <4>2
    <3> QED BY <3>2, <3>3 DEF ScoreInv
  <2>2. CASE UpdateQuizAnalytics \/ MarkComplete \/ JobLost \/ UNCHANGED vars
    <3>1. UNCHANGED <<attempts, answers, req>> BY <2>2, RestEffect
    <3> QED
      BY <3>1 DEF ScoreInv, Recorded, CopyFits, Rescores, Fits, Finished, Scores, AllGraded
  <2> QED BY <2>1, <2>2 DEF Next
<1>2. IInv /\ SubmitsAlone /\ Claims /\ [Next]_vars => Claims'
  BY NextClaims
<1>3. ScoreInv => ScoreIsCurrent
  <2> SUFFICES ASSUME ScoreInv, Quiet, NEW u \in Students, NEW n \in Nums, Finished(u, n)
               PROVE  /\ Earned(attempts[u][n].tally) = Earned(Scores(u, n))
                      /\ attempts[u][n].status = "GRADED" <=> AllGraded(u, n)
    BY DEF ScoreIsCurrent
  <2>1. \A s \in Slots : ~ Rescores(s, u, n) BY DEF Quiet, Rescores
  <2>2. Fits(attempts[u][n], u, n) BY <2>1 DEF ScoreInv, Recorded
  <2> QED BY <2>2 DEF Fits
<1> QED BY <1>1, <1>2, <1>3, InitClaims, InitScore, Invariance, PTL DEF Spec

-----------------------------------------------------------------------------
(***************************************************************************)
(* Points and data of an auto-graded answer.  SubmitAnswer writes the new  *)
(* data beside the points it read, and grades the row again in a later     *)
(* step; every other writer of the row grades what it writes.  A quiz      *)
(* without auto-grading has no points in these rows at all.                *)
(***************************************************************************)
Grades(s, u, n, q) == req[s].pc = "anAuto" /\ <<req[s].stu, req[s].num, req[s].q>> = <<u, n, q>>

\* The row of an auto-graded question is right, or being graded.
RowGraded(u, n, q) ==
    LET a == answers[u][n][q] IN
    a # None /\ a.pts # None =>
        /\ AutoGrade
        /\ \/ a.pts = Graded(q, a.data)
           \/ \E s \in Slots : Grades(s, u, n, q)

GradingClaim(s) ==
    LET r == req[s] IN
    /\ r.pc = "anWrite" /\ r.q \in AutoQuestions /\ r.old # None /\ r.old.pts # None
          => AutoGrade
    /\ r.pc \in {"sbList", "sbAuto"} => AutoGrade
    /\ r.pc = "anAuto" => GradesNow(r.q)
    /\ r.pc \in GradePC => r.q \notin AutoQuestions

PointsInv == /\ \A u \in Students, n \in Nums, q \in AutoQuestions : RowGraded(u, n, q)
             /\ \A s \in Slots : GradingClaim(s)

\* The rows of the questions no person grades keep to it.
LEMMA RowGradedStep ==
    ASSUME ~ Failures, IInv, PointsInv, NEW s \in Slots, Effect(s),
           NEW u \in Students, NEW n \in Nums, NEW q \in AutoQuestions
    PROVE  RowGraded(u, n, q)'
<1> USE DEF StartPC, AnswerPC, SubmitPC, GradePC
<1>0. q \in Questions /\ RowGraded(u, n, q) /\ GradingClaim(s)
  BY QuizAssumption DEF PointsInv
<1>1. CASE answers'[u][n][q] = answers[u][n][q] /\ ~ (AutoGrades(s) /\ Grades(s, u, n, q))
  <2>1. ASSUME NEW t \in Slots, Grades(t, u, n, q) PROVE Grades(t, u, n, q)'
    <3>1. CASE t # s BY <2>1, <3>1 DEF Effect, Grades
    <3>2. CASE t = s
      BY <1>1, <2>1, <3>2
         DEF Effect, Enters, Reads, Sums, Ends, Inserts, Saves, Answers, AutoGrades, Marks,
             Grades
    <3> QED BY <3>1, <3>2
  <2> QED BY <1>0, <1>1, <2>1 DEF RowGraded
<1>2. CASE Answers(s) /\ answers'[u][n][q] # answers[u][n][q]
  <2> DEFINE r == req[s]
  <2>1. PICK a : /\ WriteAnswer(r.stu, r.num, r.q, a)
                 /\ a.pts = IF r.old = None THEN None ELSE r.old.pts
    BY <1>2 DEF Answers
  <2>2. r.stu \in Students /\ r.num \in Nums /\ r.q \in Questions BY <1>2 DEF Answers
  <2>3. <<u, n, q>> = <<r.stu, r.num, r.q>> /\ answers'[u][n][q] = a
    BY <1>0, <1>2, <2>1, <2>2, WrittenAnswer
  <2>4. CASE AutoGrade
    <3>1. GradesNow(r.q) BY <2>3, <2>4 DEF GradesNow
    <3>2. Grades(s, u, n, q)' BY <1>2, <2>3, <3>1 DEF Answers, OnSame, Grades
    <3> QED BY <2>4, <3>2 DEF RowGraded
  <2>5. CASE ~ AutoGrade
    <3>1. a.pts = None BY <1>0, <1>2, <2>1, <2>3, <2>5 DEF Answers, GradingClaim
    <3> QED BY <2>3, <3>1 DEF RowGraded
  <2> QED BY <2>4, <2>5
<1>3. CASE AutoGrades(s) /\ (answers'[u][n][q] # answers[u][n][q] \/ Grades(s, u, n, q))
  <2>1. PICK p \in Questions, a \in Answer :
           /\ WriteAnswer(req[s].stu, req[s].num, p, AutoGraded(p, a))
           /\ req[s].pc = "anAuto" => p = req[s].q
    BY <1>3 DEF AutoGrades
  <2>2. req[s].stu \in Students /\ req[s].num \in Nums BY <1>3 DEF AutoGrades
  <2> DEFINE b == AutoGraded(p, a)
  <2>3. b.pts = Graded(p, b.data) BY DEF AutoGraded, Answer
  <2> HIDE DEF b
  <2>4. /\ answers'[req[s].stu][req[s].num][p] = b
        /\ \A v \in Students, m \in Nums, x \in Questions :
              <<v, m, x>> # <<req[s].stu, req[s].num, p>>
                 => answers'[v][m][x] = answers[v][m][x]
    BY <2>1, <2>2, WrittenAnswer DEF b
  <2>5. u = req[s].stu /\ n = req[s].num /\ q = p
    BY <1>0, <1>3, <2>1, <2>4 DEF Grades
  <2>6. AutoGrade BY <1>0, <1>3 DEF AutoGrades, GradingClaim, GradesNow
  <2> QED BY <2>3, <2>4, <2>5, <2>6 DEF RowGraded
<1>4. CASE Marks(s)
  <2>1. /\ req[s].stu \in Students /\ req[s].num \in Nums /\ req[s].q \in Questions
        /\ \E a : WriteAnswer(req[s].stu, req[s].num, req[s].q, a)
    BY <1>4 DEF Marks
  <2>2. req[s].q # q BY <1>0, <1>4 DEF Marks, GradingClaim
  <2>3. answers'[u][n][q] = answers[u][n][q] BY <1>0, <2>1, <2>2, WrittenAnswer
  <2>4. ~ AutoGrades(s) BY <1>4 DEF Marks, AutoGrades
  <2> QED BY <1>1, <2>3, <2>4
<1> QED
  BY <1>1, <1>2, <1>3, <1>4 DEF Effect, Enters, Reads, Sums, Ends, Inserts, Saves

\* So do the requests.
LEMMA GradingClaimStep ==
    ASSUME GradeListedOnly, IInv, PointsInv, NEW s \in Slots, Effect(s), NEW t \in Slots
    PROVE  GradingClaim(t)'
<1> USE DEF StartPC, AnswerPC, SubmitPC, GradePC
<1>0. GradingClaim(t) BY DEF PointsInv
<1>1. CASE t # s BY <1>0, <1>1 DEF Effect, GradingClaim, GradesNow
<1>2. CASE t = s
  <2>1. CASE Enters(s) BY <1>2, <2>1 DEF Enters, GradingClaim, Listed
  <2>2. CASE Reads(s)
    <3>1. CASE req[s].pc = "anRead"
      <4>1. req[s].stu \in Students /\ req[s].num \in Nums /\ req[s].q \in Questions
        BY <3>1, Keys
      <4>2. req[s].q \in AutoQuestions => RowGraded(req[s].stu, req[s].num, req[s].q)
        BY <4>1 DEF PointsInv
      <4> QED BY <1>2, <2>2, <3>1, <4>2 DEF Reads, RowGraded, GradingClaim
    <3>2. CASE req[s].pc # "anRead"
      BY <1>0, <1>2, <2>2, <3>2 DEF Reads, GradingClaim
    <3> QED BY <3>1, <3>2
  <2>3. CASE ~ Enters(s) /\ ~ Reads(s)
    BY <1>0, <1>2, <2>3
       DEF Effect, Sums, Ends, Inserts, Saves, Answers, AutoGrades, Marks, OnSame,
           GradingClaim, GradesNow
  <2> QED BY <2>1, <2>2, <2>3
<1> QED BY <1>1, <1>2

LEMMA InitPoints == Init => PointsInv
<1> SUFFICES ASSUME Init PROVE PointsInv
  OBVIOUS
<1>1. \A u \in Students, n \in Nums, q \in AutoQuestions : RowGraded(u, n, q)
  BY QuizAssumption DEF Init, RowGraded
<1>2. ASSUME NEW s \in Slots PROVE GradingClaim(s)
  BY IdleOK DEF Init, GradingClaim, GradePC
<1> QED BY <1>1, <1>2 DEF PointsInv

(* For graders who open what the grading list shows, and while no statement fails:
   however many answers and submits of an attempt overlap, the points of an
   auto-graded answer are those of the data beside them, unless the SubmitAnswer
   that will grade the row has not come to it yet. *)
THEOREM AutoPointsAreRight ==
    ASSUME GradeListedOnly, ~ Failures
    PROVE  Spec => []AutoPointsMatchData
<1>1. IInv /\ PointsInv /\ [Next]_vars => PointsInv'
  <2> SUFFICES ASSUME IInv, PointsInv, [Next]_vars PROVE PointsInv'
    OBVIOUS
  <2>1. ASSUME NEW s \in Slots, Serve(s) PROVE PointsInv'
    BY <2>1, ServeEffect, RowGradedStep, GradingClaimStep DEF PointsInv
  <2>2. CASE UpdateQuizAnalytics \/ MarkComplete \/ JobLost \/ UNCHANGED vars
    <3>1. UNCHANGED <<attempts, answers, req>> BY <2>2, RestEffect
    <3> QED BY <3>1 DEF PointsInv, RowGraded, Grades, GradingClaim, GradesNow
  <2> QED BY <2>1, <2>2 DEF Next
<1>2. PointsInv => AutoPointsMatchData
  BY DEF PointsInv, RowGraded, Grades, AutoPointsMatchData
<1> QED BY <1>1, <1>2, InitPoints, Invariance, PTL DEF Spec

-----------------------------------------------------------------------------
(***************************************************************************)
(* The attempt limit.  What the count has promised is used two statements  *)
(* later: that no attempt with the last number or a higher one exists, and *)
(* then that the number to insert is within the limit.                     *)
(***************************************************************************)
StartsAlone ==
    \A s, t \in Slots :
        s # t /\ req[s].pc \in StartPC /\ req[t].pc \in StartPC
            => req[s].stu # req[t].stu

Counted(s) == /\ req[s].pc = "stLatest" =>
                    \A n \in Nums : n >= MaxAttempts => attempts[req[s].stu][n] = None
              /\ req[s].pc = "stInsert" => req[s].num <= MaxAttempts

LimitInv == MaxAttempts # NoLimit => LimitKept /\ \A s \in Slots : Counted(s)

\* Numbers have no gap, so a count below the limit leaves the last number free.
LEMMA CountBelow ==
    ASSUME IInv, NEW u \in Students, ~ (Count(u) >= MaxAttempts),
           NEW n \in Nums, n >= MaxAttempts
    PROVE  attempts[u][n] = None
<1> SUFFICES ASSUME attempts[u][n] # None PROVE FALSE
  OBVIOUS
<1> DEFINE S == {m \in Nums : Exists(u, m)}
<1>1. AttemptBound \in Nat /\ n \in 1..AttemptBound /\ MaxAttempts \in Nat
  BY QuizAssumption DEF Nums
<1>2. 1..n \subseteq S
  <2> SUFFICES ASSUME NEW m \in 1..n PROVE m \in S
    OBVIOUS
  <2>1. m \in Nums BY <1>1 DEF Nums
  <2>2. CASE m = n BY <2>1, <2>2 DEF Exists
  <2>3. CASE m # n
    <3>1. m \in 1..(n - 1) BY <1>1, <2>3
    <3>2. Finished(u, m) BY <3>1 DEF IInv, OneOpenAttempt
    <3> QED BY <2>1, <3>2 DEF Exists, Finished
  <2> QED BY <2>2, <2>3
<1>3. IsFiniteSet(S)
  <2>1. IsFiniteSet(1..AttemptBound) BY <1>1, FS_Interval
  <2> QED BY <2>1, FS_Subset DEF Nums
<1>4. Cardinality(1..n) = n BY <1>1, FS_Interval
<1>5. Cardinality(1..n) <= Cardinality(S) /\ Cardinality(S) \in Nat
  BY <1>2, <1>3, FS_Subset, FS_CardinalityType
<1>6. Count(u) = Cardinality(S) BY DEF Count
<1> HIDE DEF S
<1> QED BY <1>1, <1>4, <1>5, <1>6

LEMMA LimitStep ==
    ASSUME IInv, StartsAlone, LimitInv, NEW s \in Slots, Effect(s)
    PROVE  LimitInv'
<1> USE DEF StartPC, AnswerPC, SubmitPC, GradePC
<1> SUFFICES ASSUME MaxAttempts # NoLimit PROVE LimitKept' /\ \A t \in Slots : Counted(t)'
  BY DEF LimitInv
<1>0. MaxAttempts \in Nat /\ MaxAttempts >= 1 BY QuizAssumption DEF NoLimit
<1>1. ASSUME NEW u \in Students, NEW n \in Nums, attempts'[u][n] # None
      PROVE  n <= MaxAttempts
  <2>1. CASE attempts[u][n] # None BY <2>1 DEF LimitInv, LimitKept
  <2>2. CASE attempts[u][n] = None
    <3>1. CASE Inserts(s)
      <4>1. <<u, n>> = <<req[s].stu, req[s].num>>
        BY <1>1, <2>2, <3>1, SavedRow DEF Inserts
      <4> QED BY <3>1, <4>1 DEF Inserts, LimitInv, Counted
    <3>2. CASE Saves(s)
      <4>1. <<u, n>> = <<req[s].stu, req[s].num>>
        BY <1>1, <2>2, <3>2, SavedRow DEF Saves
      <4> QED BY <2>2, <3>2, <4>1 DEF Saves, IInv, ReqOK
    <3>3. CASE UNCHANGED attempts BY <1>1, <2>2, <3>3
    <3> QED
      BY <3>1, <3>2, <3>3 DEF Effect, Enters, Reads, Sums, Ends, Answers, AutoGrades, Marks
  <2> QED BY <2>1, <2>2
<1>2. ASSUME NEW t \in Slots PROVE Counted(t)'
  <2>1. CASE t = s /\ req'[s].pc = "stLatest"
    <3>1. /\ req[s].pc = "stCount" /\ req'[s].stu = req[s].stu /\ UNCHANGED attempts
          /\ ~ (Count(req[s].stu) >= MaxAttempts)
      BY <2>1 DEF Effect, Enters, Reads, Sums, Ends, Inserts, Saves, Answers, AutoGrades,
                  Marks, OnSame
    <3>2. req[s].stu \in Students BY <3>1 DEF IInv, ReqOK
    <3>3. \A n \in Nums : n >= MaxAttempts => attempts[req[s].stu][n] = None
      BY <3>1, <3>2, CountBelow
    <3> QED BY <2>1, <3>1, <3>3 DEF Counted
  <2>2. CASE t = s /\ req'[s].pc = "stInsert"
    <3>1. /\ req[s].pc = "stLatest" /\ req'[s].num = Latest(req[s].stu) + 1
      BY <2>2 DEF Effect, Enters, Reads, Sums, Ends, Inserts, Saves, Answers, AutoGrades,
                  Marks, OnSame
    <3>2. req[s].stu \in Students BY <3>1 DEF IInv, ReqOK
    <3>3. /\ Latest(req[s].stu) \in 0..AttemptBound
          /\ Latest(req[s].stu) # 0 => /\ Latest(req[s].stu) \in Nums
                                       /\ Exists(req[s].stu, Latest(req[s].stu))
      BY <3>2, LatestIsLast DEF IInv
    <3>4. \A n \in Nums : n >= MaxAttempts => attempts[req[s].stu][n] = None
      BY <3>1 DEF LimitInv, Counted
    <3>5. AttemptBound \in Nat BY QuizAssumption
    <3>6. ~ (Latest(req[s].stu) >= MaxAttempts) BY <1>0, <3>3, <3>4 DEF Exists
    <3>7. req'[s].num <= MaxAttempts BY <1>0, <3>1, <3>3, <3>5, <3>6
    <3> QED BY <2>2, <3>7 DEF Counted
  <2>3. CASE t # s
    <3>1. req'[t] = req[t] BY <2>3 DEF Effect
    <3>2. ASSUME req[t].pc = "stLatest", NEW n \in Nums, n >= MaxAttempts
          PROVE  attempts'[req[t].stu][n] = None
      <4>1. req[t].stu \in Students /\ attempts[req[t].stu][n] = None
        BY <3>2 DEF IInv, ReqOK, LimitInv, Counted
      <4>2. CASE Inserts(s)
        <5>1. req[s].stu # req[t].stu BY <2>3, <3>2, <4>2 DEF Inserts, StartsAlone
        <5> QED BY <4>1, <4>2, <5>1, SavedRow DEF Inserts
      <4>3. CASE Saves(s)
        <5>1. <<req[t].stu, n>> # <<req[s].stu, req[s].num>>
          BY <4>1, <4>3 DEF Saves, IInv, ReqOK
        <5> QED BY <4>1, <4>3, <5>1, SavedRow DEF Saves
      <4>4. CASE UNCHANGED attempts BY <4>1, <4>4
      <4> QED
        BY <4>2, <4>3, <4>4 DEF Effect, Enters, Reads, Sums, Ends, Answers, AutoGrades, Marks
    <3> QED BY <3>1, <3>2 DEF LimitInv, Counted
  <2>4. CASE t = s /\ req'[s].pc \notin {"stLatest", "stInsert"} BY <2>4 DEF Counted
  <2> QED BY <2>1, <2>2, <2>3, <2>4
<1> QED BY <1>0, <1>1, <1>2 DEF LimitKept

(* While the starts of a student come one at a time the attempt limit is kept,
   with any number of submits and gradings between the count and the insert. *)
THEOREM LimitIsKept == Spec /\ []StartsAlone => []LimitKept
<1>1. Init => LimitInv
  <2> SUFFICES ASSUME Init PROVE LimitInv
    OBVIOUS
  <2>1. LimitKept BY DEF Init, LimitKept
  <2>2. \A s \in Slots : Counted(s) BY IdleOK DEF Init, Counted
  <2> QED BY <2>1, <2>2 DEF LimitInv
<1>2. IInv /\ StartsAlone /\ LimitInv /\ [Next]_vars => LimitInv'
  <2> SUFFICES ASSUME IInv, StartsAlone, LimitInv, [Next]_vars PROVE LimitInv'
    OBVIOUS
  <2>1. ASSUME NEW s \in Slots, Serve(s) PROVE LimitInv'
    BY <2>1, ServeEffect, LimitStep
  <2>2. CASE UpdateQuizAnalytics \/ MarkComplete \/ JobLost \/ UNCHANGED vars
    <3>1. UNCHANGED <<attempts, answers, req>> BY <2>2, RestEffect
    <3> QED BY <3>1 DEF LimitInv, LimitKept, Counted
  <2> QED BY <2>1, <2>2 DEF Next
<1>3. LimitInv => LimitKept BY DEF LimitInv, LimitKept
<1> QED BY <1>1, <1>2, <1>3, Invariance, PTL DEF Spec

-----------------------------------------------------------------------------
(***************************************************************************)
(* Who serves what.  When only one slot serves the student (the browser    *)
(* sends one request at a time) the hypothesis SubmitsAlone holds of every *)
(* behavior, and when one slot serves the graders so does OneGrader: the   *)
(* theorems above then hold of the specification as it is.                 *)
(***************************************************************************)
OneTab == \A s, t \in Slots :
             s # t => \/ Role[s] \cap {"answer", "submit"} = {}
                      \/ Role[t] \cap {"answer", "submit"} = {}

OneStarter == \A s, t \in Slots : "start" \in Role[s] \cap Role[t] => s = t

OneGraderSlot == \A s, t \in Slots : "grade" \in Role[s] \cap Role[t] => s = t

Serves(s) ==
    /\ req[s].pc \in StartPC => "start" \in Role[s]
    /\ req[s].pc \in AnswerPC \cup SubmitPC => Role[s] \cap {"answer", "submit"} # {}
    /\ req[s].pc \in GradePC => "grade" \in Role[s]

LEMMA ServesItsRole == Spec => []\A s \in Slots : Serves(s)
<1> USE DEF StartPC, AnswerPC, SubmitPC, GradePC
<1>1. Init => \A s \in Slots : Serves(s)
  BY IdleOK DEF Init, Serves
<1>2. IInv /\ (\A s \in Slots : Serves(s)) /\ [Next]_vars => (\A s \in Slots : Serves(s))'
  <2> SUFFICES ASSUME IInv, \A s \in Slots : Serves(s), [Next]_vars, NEW t \in Slots
               PROVE  Serves(t)'
    OBVIOUS
  <2>1. ASSUME NEW s \in Slots, Serve(s) PROVE Serves(t)'
    <3>1. Effect(s) BY <2>1, ServeEffect
    <3>2. CASE t # s BY <3>1, <3>2 DEF Effect, Serves
    <3>3. CASE t = s
      BY <3>1, <3>3
         DEF Effect, Enters, Reads, Sums, Ends, Inserts, Saves, Answers, AutoGrades, Marks,
             Serves
    <3> QED BY <3>2, <3>3
  <2>2. CASE UpdateQuizAnalytics \/ MarkComplete \/ JobLost \/ UNCHANGED vars
    <3>1. UNCHANGED req BY <2>2, RestEffect
    <3> QED BY <3>1 DEF Serves
  <2> QED BY <2>1, <2>2 DEF Next
<1> QED BY <1>1, <1>2, Invariance, PTL DEF Spec

(* With one tab per student and graders who open what the grading list shows, a
   finished attempt keeps the student's data and GRADED means that every answer
   has points, for any number of graders and whatever fails. *)
THEOREM OneTabIsSafe ==
    ASSUME GradeListedOnly, OneTab
    PROVE  Spec => AnswersFrozen /\ []GradedIsComplete
<1>1. (\A s \in Slots : Serves(s)) => SubmitsAlone
  BY DEF Serves, SubmitsAlone, OneTab
<1> QED BY <1>1, ServesItsRole, FinishedAnswersStay, GradedHasAllPoints, PTL

(* With one grader beside that, and while no statement fails, the score of every
   finished attempt is that of its answers whenever the service is quiet. *)
THEOREM OneTabOneGraderScores ==
    ASSUME GradeListedOnly, ~ Failures, OneTab, OneGraderSlot
    PROVE  Spec => []ScoreIsCurrent
<1>1. (\A s \in Slots : Serves(s)) => SubmitsAlone /\ OneGrader
  <2> SUFFICES ASSUME \A s \in Slots : Serves(s) PROVE SubmitsAlone /\ OneGrader
    OBVIOUS
  <2>1. SubmitsAlone BY DEF Serves, SubmitsAlone, OneTab
  <2>2. OneGrader BY DEF Serves, OneGrader, OneGraderSlot
  <2> QED BY <2>1, <2>2
<1> QED BY <1>1, ServesItsRole, QuietScoreIsCurrent, PTL

(* One slot that starts attempts keeps to the attempt limit. *)
THEOREM OneStarterKeepsLimit ==
    ASSUME OneStarter
    PROVE  Spec => []LimitKept
<1>1. (\A s \in Slots : Serves(s)) => StartsAlone
  BY DEF Serves, StartsAlone, OneStarter
<1> QED BY <1>1, ServesItsRole, LimitIsKept, PTL
=============================================================================
