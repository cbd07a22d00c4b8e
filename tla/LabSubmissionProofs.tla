------------------------- MODULE LabSubmissionProofs -------------------------
(***************************************************************************)
(* Proofs about LabSubmission for any number of requests, test cases,      *)
(* verdicts and failures: the leaderboard row is the best of what it was   *)
(* told in any order, and a row left PENDING has one of the known reasons. *)
(***************************************************************************)
EXTENDS LabSubmission, FiniteSetTheorems, WellFoundedInduction, TLAPS

Results == UNION {[S -> Verdict] : S \in SUBSET TestCase}
Pcs == Waiting \cup {"idle", "done"}
Replies == {0, 200, 202, 400, 403, 429, 500, 502}
Steps == {"begin", "count", "create", "list", "execute", "save", "mark", "upsert", "get",
          "hpcExecute", "hpcMark", "fail", "crash"}
CallType == [pc : Pcs, cutOff : BOOLEAN, failed : SUBSET Steps, tests : SUBSET TestCase,
             results : Results, runtime : Runtime \cup {0}, reply : Replies]
SubType == [status : RowStatuses, score : 0..100, passed : Nat, runtime : Runtime \cup {0},
            job : BOOLEAN]
BoardType == [sub : Call, score : 0..100, runtime : Runtime, attempts : Nat]

Reasons == {"crash", "list", "mark", "hpcMark", "fail"}

\* What PendingIsExplained asks of one row.
Explained(r) ==
    sub[r].status = "PENDING" =>
        \/ labType = "CHEMISTRY"
        \/ sub[r].job
        \/ labType = "CODING" /\ Overall(call[r].results) \notin RowStatuses
        \/ call[r].failed \cap Reasons # {}

\* What each point of a request knows of its row and of the lab.
Fits(r) ==
    /\ call[r].pc \in {"idle", "count", "create"} => sub[r] = None
    /\ call[r].pc \in Waiting \ {"count", "create"} => sub[r] \in SubType
    /\ call[r].pc = "list" => labType # "HPC"
    /\ call[r].pc \in {"execute", "save", "mark", "upsert"} => labType = "CODING"
    /\ call[r].pc \in {"save", "mark", "upsert"} => call[r].runtime \in Runtime
    /\ call[r].pc \in {"upsert", "get"} => Explained(r)
    /\ call[r].pc = "done" /\ sub[r] # None => Explained(r)
    /\ r \in counted => call[r].pc \in {"get", "done"} /\ call[r].runtime \in Runtime

Surroundings ==
    /\ labType \in {"CODING", "HPC", "CHEMISTRY"}
    /\ tests \in SUBSET TestCase
    /\ enrolled \in BOOLEAN
    /\ \A r \in Call : \A row \in saved[r] : row.test \in TestCase /\ row.status \in ResultStatuses
    /\ cluster \subseteq Call
    /\ mishaps \in 0..MaxMishaps

Shape ==
    /\ call \in [Call -> CallType]
    /\ sub \in [Call -> SubType \cup {None}]
    /\ saved \in [Call -> SUBSET [test : TestCase, status : ResultStatuses]]
    /\ counted \subseteq Call /\ IsFiniteSet(counted)
    /\ board = None \/ board \in BoardType

Inv == Surroundings /\ Shape /\ (\A r \in Call : Fits(r)) /\ BoardIsBest
-----------------------------------------------------------------------------
\* The first failing test case exists, so the overall status is a verdict.
LEMMA OverallIsVerdict ==
    ASSUME NEW results \in Results
    PROVE  Overall(results) \in Verdict \cup {"ACCEPTED"}
<1> DEFINE F == Failing(results)
<1>1. PICK S \in SUBSET TestCase : results \in [S -> Verdict] BY DEF Results
<1>2. F \subseteq S BY <1>1 DEF Failing
<1>3. F \subseteq Nat BY <1>2, SubmissionAssumption
<1>4. CASE F = {} BY <1>4 DEF Overall
<1>5. CASE F # {}
  <2> DEFINE R == OpToRel(<, Nat)
  <2>1. IsWellFoundedOn(R, Nat) BY NatLessThanWellFounded
  <2> HIDE DEF R, F
  <2>2. PICK m \in F : \A y \in F : ~(<<y, m>> \in R)
    BY <2>1, <1>3, <1>5, WFMin
  <2>3. \A y \in F : m <= y
    <3> SUFFICES ASSUME NEW y \in F, y < m PROVE FALSE
      BY <1>3
    <3>1. <<y, m>> \in R BY <1>3 DEF R, OpToRel
    <3> QED BY <2>2, <3>1
  <2>4. Min(F) \in F BY <2>3 DEF Min
  <2>5. results[Min(F)] \in Verdict BY <1>1, <1>2, <2>4
  <2> QED BY <1>5, <2>5 DEF Overall, F
<1> QED BY <1>4, <1>5

\* A score is a percentage.
LEMMA ScoreIsPercentage ==
    ASSUME NEW results \in Results
    PROVE  Score(results) \in 0..100
<1> DEFINE D == DOMAIN results
           P == D \ Failing(results)
<1>1. D \subseteq TestCase
  <2>1. PICK S \in SUBSET TestCase : results \in [S -> Verdict] BY DEF Results
  <2> QED BY <2>1
<1>2. IsFiniteSet(D) BY <1>1, SubmissionAssumption, FS_Subset
<1>3. P \subseteq D OBVIOUS
<1> HIDE DEF D, P
<1>4. /\ Cardinality(D) \in Nat /\ Cardinality(P) \in Nat
      /\ Cardinality(P) <= Cardinality(D)
  BY <1>2, <1>3, FS_Subset, FS_CardinalityType
<1>5. CASE D = {} BY <1>5 DEF Score, D
<1>6. CASE D # {}
  <2>1. Cardinality(D) > 0 BY <1>2, <1>4, <1>6, FS_EmptySet
  <2>2. \A d, n \in Nat : d > 0 /\ n <= d => (100 * n) \div d \in 0..100
    <3> SUFFICES ASSUME NEW d \in Nat, NEW n \in Nat, d > 0, n <= d
                 PROVE  (100 * n) \div d \in 0..100
      OBVIOUS
    <3> DEFINE q == (100 * n) \div d
    <3>1. q \in Int /\ d * q <= 100 * n /\ 100 * n < d * q + d OBVIOUS
    <3> HIDE DEF q
    <3>2. q >= 0
      <4> SUFFICES ASSUME q <= -1 PROVE FALSE BY <3>1
      <4>1. d * q <= d * (-1) BY <3>1
      <4> QED BY <3>1, <4>1
    <3>3. q <= 100
      <4> SUFFICES ASSUME q >= 101 PROVE FALSE BY <3>1
      <4>1. d * q >= d * 101 BY <3>1
      <4> QED BY <3>1, <4>1
    <3> QED BY <3>1, <3>2, <3>3 DEF q
  <2> QED BY <1>4, <1>6, <2>1, <2>2 DEF Score, D, P
<1> QED BY <1>5, <1>6
-----------------------------------------------------------------------------
\* A request moves on: where it is and what failed change, what it holds does not.
Moved(r, pc, F) ==
    /\ call' \in [Call -> CallType]
    /\ \A q \in Call : q # r => call'[q] = call[q]
    /\ call'[r].pc = pc /\ call'[r].failed = call[r].failed \cup F
    /\ call'[r].results = call[r].results /\ call'[r].runtime = call[r].runtime
    /\ mishaps' \in 0..MaxMishaps

\* The new record of one request decides all that Moved says.
LEMMA MovedTo ==
    ASSUME Shape, NEW r \in Call, NEW pc \in Pcs, NEW F \in SUBSET Steps, NEW c \in Replies,
           call'[r] = [pc |-> pc, cutOff |-> call[r].cutOff, failed |-> call[r].failed \cup F,
                       tests |-> call[r].tests, results |-> call[r].results,
                       runtime |-> call[r].runtime, reply |-> c],
           \A q \in Call : q # r => call'[q] = call[q],
           call' = [q \in Call |-> call'[q]],
           mishaps' \in 0..MaxMishaps
    PROVE  Moved(r, pc, F)
<1>1. call[r] \in CallType BY DEF Shape
<1>2. call'[r] \in CallType BY <1>1 DEF CallType
<1>3. \A q \in Call : call'[q] \in CallType BY <1>2 DEF Shape
<1>4. call' \in [Call -> CallType] BY <1>3
<1> QED BY <1>4 DEF Moved

LEMMA GotoMoves ==
    ASSUME Shape, Surroundings, NEW r \in Call, NEW pc \in Pcs, Goto(r, pc), UNCHANGED mishaps
    PROVE  Moved(r, pc, {})
<1>1. call[r] \in CallType /\ call[r].reply \in Replies BY DEF Shape, CallType
<1>2. /\ call'[r] = [pc |-> pc, cutOff |-> call[r].cutOff, failed |-> call[r].failed,
                     tests |-> call[r].tests, results |-> call[r].results,
                     runtime |-> call[r].runtime, reply |-> call[r].reply]
      /\ \A q \in Call : q # r => call'[q] = call[q]
      /\ call' = [q \in Call |-> call'[q]]
  BY <1>1 DEF Goto, Shape, CallType
<1>3. call[r].failed \cup {} = call[r].failed OBVIOUS
<1> QED BY <1>1, <1>2, <1>3, MovedTo DEF Surroundings

LEMMA AnswerMoves ==
    ASSUME Shape, Surroundings, NEW r \in Call, NEW c \in Replies, Answer(r, c),
           UNCHANGED mishaps
    PROVE  Moved(r, "done", {})
<1>1. call[r] \in CallType BY DEF Shape
<1>2. /\ call'[r] = [pc |-> "done", cutOff |-> call[r].cutOff, failed |-> call[r].failed,
                     tests |-> call[r].tests, results |-> call[r].results,
                     runtime |-> call[r].runtime, reply |-> c]
      /\ \A q \in Call : q # r => call'[q] = call[q]
      /\ call' = [q \in Call |-> call'[q]]
  BY <1>1 DEF Answer, Shape, CallType
<1>3. call[r].failed \cup {} = call[r].failed OBVIOUS
<1> QED BY <1>2, <1>3, MovedTo DEF Surroundings, Pcs

LEMMA MishapCounts ==
    ASSUME Surroundings, NEW r \in Call, Mishap(r)
    PROVE  mishaps' \in 0..MaxMishaps
BY SubmissionAssumption DEF Surroundings, Mishap

LEMMA FailsToMoves ==
    ASSUME Shape, Surroundings, NEW r \in Call, NEW st \in Steps, NEW pc \in Pcs,
           FailsTo(r, st, pc)
    PROVE  Moved(r, pc, {st})
<1> DEFINE X == call[r].failed \cup {st}
<1>1. call[r] \in CallType /\ call[r].reply \in Replies BY DEF Shape, CallType
<1>2. call' = [call EXCEPT ![r].pc = pc, ![r].failed = X] BY DEF FailsTo, Shape
<1> HIDE DEF X
<1>3. /\ call'[r] = [pc |-> pc, cutOff |-> call[r].cutOff, failed |-> X,
                     tests |-> call[r].tests, results |-> call[r].results,
                     runtime |-> call[r].runtime, reply |-> call[r].reply]
      /\ \A q \in Call : q # r => call'[q] = call[q]
      /\ call' = [q \in Call |-> call'[q]]
  BY <1>1, <1>2 DEF Shape, CallType
<1>4. mishaps' \in 0..MaxMishaps BY MishapCounts DEF FailsTo
<1> QED BY <1>1, <1>3, <1>4, MovedTo DEF X

LEMMA FailsWithMoves ==
    ASSUME Shape, Surroundings, NEW r \in Call, NEW st \in Steps, NEW c \in Replies,
           FailsWith(r, st, c)
    PROVE  Moved(r, "done", {st})
<1> DEFINE X == call[r].failed \cup {st}
<1>1. call[r] \in CallType BY DEF Shape
<1>2. call' = [call EXCEPT ![r].pc = "done", ![r].reply = c, ![r].failed = X]
  BY DEF FailsWith, Shape
<1> HIDE DEF X
<1>3. /\ call'[r] = [pc |-> "done", cutOff |-> call[r].cutOff, failed |-> X,
                     tests |-> call[r].tests, results |-> call[r].results,
                     runtime |-> call[r].runtime, reply |-> c]
      /\ \A q \in Call : q # r => call'[q] = call[q]
      /\ call' = [q \in Call |-> call'[q]]
  BY <1>1, <1>2 DEF Shape, CallType
<1>4. mishaps' \in 0..MaxMishaps BY MishapCounts DEF FailsWith
<1> QED BY <1>3, <1>4, MovedTo DEF X, Pcs

\* One request's step that does not touch the leaderboard.
LEMMA Frame ==
    ASSUME Inv, NEW r \in Call, Surroundings', call' \in [Call -> CallType],
           \A q \in Call : q # r => call'[q] = call[q] /\ sub'[q] = sub[q],
           sub' \in [Call -> SubType \cup {None}],
           saved' \in [Call -> SUBSET [test : TestCase, status : ResultStatuses]],
           UNCHANGED <<labType, board, counted>>, Fits(r)',
           r \in counted => call'[r].results = call[r].results /\ call'[r].runtime = call[r].runtime
    PROVE  Inv'
<1>1. Shape' BY DEF Inv, Shape
<1>2. \A q \in Call : q # r => Fits(q)'
  BY DEF Inv, Fits, Explained
<1>3. \A q \in counted : call'[q].results = call[q].results /\ call'[q].runtime = call[q].runtime
  BY DEF Inv, Shape
<1>4. BoardIsBest'
  <2>1. \A q \in counted : Entry(q)' = Entry(q) BY <1>3 DEF Entry
  <2> QED BY <1>3, <2>1 DEF Inv, BoardIsBest, Better
<1> QED BY <1>1, <1>2, <1>4 DEF Inv

\* Nothing is there at the start.
LEMMA InitInv == Init => Inv
<1> SUFFICES ASSUME Init PROVE Inv OBVIOUS
<1>1. Fresh \in CallType
  <2>1. <<>> \in [{} -> Verdict] OBVIOUS
  <2>2. <<>> \in Results BY <2>1 DEF Results
  <2> QED BY <2>2 DEF Fresh, CallType, Pcs, Replies
<1>2. Surroundings BY SubmissionAssumption DEF Init, Surroundings
<1>3. counted = {} /\ IsFiniteSet(counted) BY FS_EmptySet DEF Init
<1>4. Shape BY <1>1, <1>3 DEF Init, Shape
<1>5. \A r \in Call : Fits(r) BY <1>3 DEF Init, Fits, Fresh, Waiting
<1>6. BoardIsBest BY <1>3 DEF Init, BoardIsBest
<1> QED BY <1>2, <1>4, <1>5, <1>6 DEF Inv
-----------------------------------------------------------------------------
\* The test cases, the enrollment and a hang-up leave the rows alone.
LEMMA OthersInv ==
    ASSUME Inv, \/ \E t \in TestCase : CreateTestCase(t) \/ DeleteTestCase(t)
                \/ CancelEnrollment
    PROVE  Inv'
<1>1. UNCHANGED <<labType, sub, saved, board, cluster, call, mishaps, counted>>
  BY DEF CreateTestCase, DeleteTestCase, CancelEnrollment, tables
<1>2. Surroundings'
  BY <1>1 DEF Inv, Surroundings, CreateTestCase, DeleteTestCase, CancelEnrollment, tables
<1>3. Shape' BY <1>1 DEF Inv, Shape
<1>4. \A r \in Call : Fits(r)' BY <1>1 DEF Inv, Fits, Explained
<1>5. BoardIsBest' BY <1>1 DEF Inv, BoardIsBest, Entry, Better
<1> QED BY <1>2, <1>3, <1>4, <1>5 DEF Inv

\* Up to the insertion there is no row.
LEMMA BeforeInv ==
    ASSUME Inv, NEW r \in Call, Begin(r) \/ Count(r) \/ Create(r)
    PROVE  Inv'
<1> USE DEF Inv
<1>0. /\ Surroundings /\ Shape /\ Fits(r)
      /\ call[r].pc \in {"idle", "count", "create"} /\ sub[r] = None
      /\ UNCHANGED <<labType, enrolled, tests, saved, board, cluster, counted>>
  BY DEF Begin, Count, Create, tables, At, Fits
<1>1. r \notin counted BY <1>0 DEF Fits
<1>2. ASSUME NEW pc \in {"count", "create", "done"}, NEW F, Moved(r, pc, F), UNCHANGED sub
      PROVE  Inv'
  <2>1. /\ call' \in [Call -> CallType] /\ call'[r].pc = pc
        /\ \A q \in Call : q # r => call'[q] = call[q]
        /\ mishaps' \in 0..MaxMishaps
    BY <1>2 DEF Moved
  <2>2. Surroundings' BY <1>0, <2>1 DEF Surroundings
  <2>3. Fits(r)' BY <1>0, <1>1, <1>2, <2>1 DEF Fits, Waiting
  <2> QED BY <1>0, <1>1, <1>2, <2>1, <2>2, <2>3, Frame DEF Shape
<1>p. {"count", "create", "done"} \subseteq Pcs /\ {403, 429, 500} \subseteq Replies
  BY DEF Pcs, Waiting, Replies
<1>3. CASE Begin(r) /\ UNCHANGED sub
  <2>1. CASE Goto(r, "count") /\ UNCHANGED mishaps
    <3>1. Moved(r, "count", {}) BY <1>0, <1>p, <2>1, GotoMoves
    <3> QED BY <1>2, <1>3, <3>1
  <2>2. CASE Answer(r, 403) /\ UNCHANGED mishaps
    <3>1. Moved(r, "done", {}) BY <1>0, <1>p, <2>2, AnswerMoves
    <3> QED BY <1>2, <1>3, <3>1
  <2>3. CASE FailsWith(r, "begin", 403)
    <3>1. Moved(r, "done", {"begin"}) BY <1>0, <1>p, <2>3, FailsWithMoves DEF Steps
    <3> QED BY <1>2, <1>3, <3>1
  <2> QED BY <1>3, <2>1, <2>2, <2>3 DEF Begin
<1>4. CASE Count(r) /\ UNCHANGED sub
  <2>1. CASE Goto(r, "create") /\ UNCHANGED mishaps
    <3>1. Moved(r, "create", {}) BY <1>0, <1>p, <2>1, GotoMoves
    <3> QED BY <1>2, <1>4, <3>1
  <2>2. CASE Answer(r, 429) /\ UNCHANGED mishaps
    <3>1. Moved(r, "done", {}) BY <1>0, <1>p, <2>2, AnswerMoves
    <3> QED BY <1>2, <1>4, <3>1
  <2>3. CASE FailsTo(r, "count", "create")
    <3>1. Moved(r, "create", {"count"}) BY <1>0, <1>p, <2>3, FailsToMoves DEF Steps
    <3> QED BY <1>2, <1>4, <3>1
  <2> QED BY <1>4, <2>1, <2>2, <2>3 DEF Count
<1>5. CASE Create(r)
  <2>1. CASE FailsWith(r, "create", 500) /\ UNCHANGED sub
    <3>1. Moved(r, "done", {"create"}) BY <1>0, <1>p, <2>1, FailsWithMoves DEF Steps
    <3> QED BY <1>2, <2>1, <3>1
  <2>2. CASE /\ sub' = [sub EXCEPT ![r] = [status |-> "PENDING", score |-> 0, passed |-> 0,
                                          runtime |-> 0, job |-> FALSE]]
             /\ Goto(r, IF labType = "HPC" THEN "hpcExecute" ELSE "list")
             /\ UNCHANGED mishaps
    <3> DEFINE pc == IF labType = "HPC" THEN "hpcExecute" ELSE "list"
               row == [status |-> "PENDING", score |-> 0, passed |-> 0, runtime |-> 0,
                       job |-> FALSE]
    <3>0. pc \in Pcs BY DEF Pcs, Waiting
    <3>1. /\ call' \in [Call -> CallType] /\ call'[r].pc = pc
          /\ \A q \in Call : q # r => call'[q] = call[q]
          /\ mishaps' \in 0..MaxMishaps
      <4>1. Moved(r, pc, {}) BY <1>0, <2>2, <3>0, GotoMoves
      <4> QED BY <4>1 DEF Moved
    <3>2. row \in SubType BY DEF SubType, RowStatuses
    <3>3. /\ sub' \in [Call -> SubType \cup {None}] /\ sub'[r] = row
          /\ \A q \in Call : q # r => sub'[q] = sub[q]
      BY <2>2, <3>2 DEF Shape
    <3>4. Surroundings' BY <1>0, <3>1 DEF Surroundings
    <3>5. Fits(r)' BY <1>0, <1>1, <3>1, <3>2, <3>3 DEF Fits, Waiting
    <3> QED BY <1>0, <1>1, <3>1, <3>3, <3>4, <3>5, Frame DEF Shape
  <2> QED BY <1>5, <2>1, <2>2 DEF Create
<1> QED BY <1>3, <1>4, <1>5 DEF Begin, Count, tables, Create

\* A step of a graded request that leaves the row alone, or changes it to a
\* row with a reason or a final status.
LEMMA GradedMove ==
    ASSUME Inv, NEW r \in Call,
           NEW pc \in {"execute", "save", "mark", "upsert", "get", "hpcMark", "fail", "done"},
           NEW F, NEW s \in SubType, Moved(r, pc, F),
           call[r].pc \in Waiting \ {"count", "create", "upsert"},
           sub' = [sub EXCEPT ![r] = s],
           UNCHANGED <<labType, enrolled, tests, board, counted>>,
           saved' \in [Call -> SUBSET [test : TestCase, status : ResultStatuses]],
           cluster' \subseteq Call,
           pc \in {"execute", "save", "mark", "upsert"} => labType = "CODING",
           pc \in {"save", "mark", "upsert"} => call[r].runtime \in Runtime,
           pc \in {"upsert", "get", "done"} =>
               (s.status = "PENDING" =>
                   \/ labType = "CHEMISTRY" \/ s.job
                   \/ labType = "CODING" /\ Overall(call[r].results) \notin RowStatuses
                   \/ (call[r].failed \cup F) \cap Reasons # {}),
           r \in counted => pc = "done"
    PROVE  Inv'
<1>0. Surroundings /\ Shape /\ Fits(r) BY DEF Inv
<1>2. /\ call' \in [Call -> CallType]
      /\ \A q \in Call : q # r => call'[q] = call[q]
      /\ call'[r].pc = pc /\ call'[r].failed = call[r].failed \cup F
      /\ call'[r].results = call[r].results /\ call'[r].runtime = call[r].runtime
      /\ mishaps' \in 0..MaxMishaps
  BY DEF Moved
<1>3. /\ sub' \in [Call -> SubType \cup {None}] /\ sub'[r] = s
      /\ \A q \in Call : q # r => sub'[q] = sub[q]
  BY <1>0 DEF Shape
<1>4. Surroundings'
  <2>1. \A q \in Call : \A row \in saved'[q] : row.test \in TestCase /\ row.status \in ResultStatuses
    OBVIOUS
  <2> QED BY <1>0, <1>2, <2>1 DEF Surroundings
<1>5. Explained(r)' <=>
        (s.status = "PENDING" =>
           \/ labType = "CHEMISTRY" \/ s.job
           \/ labType = "CODING" /\ Overall(call[r].results) \notin RowStatuses
           \/ (call[r].failed \cup F) \cap Reasons # {})
  BY <1>2, <1>3 DEF Explained
<1>6. Fits(r)'
  BY <1>0, <1>2, <1>3, <1>5 DEF Fits, Waiting
<1> QED BY <1>0, <1>2, <1>3, <1>4, <1>6, Frame

\* SubmitCode from the listing of the test cases to the update of the row.
LEMMA GradeInv ==
    ASSUME Inv, NEW r \in Call, List(r) \/ Execute(r) \/ Save(r) \/ Mark(r)
    PROVE  Inv'
<1> USE DEF Inv
<1>0. /\ Surroundings /\ Shape /\ Fits(r) /\ call[r] \in CallType
      /\ call[r].pc \in {"list", "execute", "save", "mark"} /\ sub[r] \in SubType
      /\ r \notin counted
      /\ UNCHANGED <<labType, enrolled, tests, board, cluster, counted>>
      /\ sub = [sub EXCEPT ![r] = sub[r]]
  BY DEF List, Execute, Save, Mark, tables, At, Fits, Waiting, Shape
<1>1. call[r].pc \in Waiting \ {"count", "create", "upsert"} BY <1>0 DEF Waiting
<1>2. /\ cluster' \subseteq Call /\ {400, 500} \subseteq Replies
      /\ {"execute", "save", "mark", "upsert", "get", "fail", "done"} \subseteq Pcs
  BY <1>0 DEF Surroundings, Replies, Pcs, Waiting
<1>3. CASE List(r)
  <2>1. At(r, "list") /\ UNCHANGED <<sub, saved>> BY <1>3 DEF List, tables
  <2>2. CASE labType = "CODING" /\ UNCHANGED mishaps
             /\ call' = [call EXCEPT ![r].pc = "execute", ![r].tests = tests]
    <3> DEFINE w == [pc |-> "execute", cutOff |-> call[r].cutOff, failed |-> call[r].failed,
                     tests |-> tests, results |-> call[r].results,
                     runtime |-> call[r].runtime, reply |-> call[r].reply]
    <3>1. w \in CallType BY <1>0 DEF CallType, Surroundings, Pcs, Waiting
    <3>2. call'[r] = w /\ (\A q \in Call : q # r => call'[q] = call[q])
          /\ call' = [q \in Call |-> call'[q]]
      BY <1>0, <2>2 DEF Shape, CallType
    <3>3. call'[r].pc = "execute" BY <3>2
    <3> HIDE DEF w
    <3>4. call' \in [Call -> CallType]
      <4>1. \A q \in Call : call'[q] \in CallType BY <1>0, <3>1, <3>2 DEF Shape
      <4> QED BY <3>2, <4>1
    <3>5. Surroundings' BY <1>0, <2>1, <2>2 DEF Surroundings
    <3>6. Fits(r)' BY <1>0, <2>1, <2>2, <3>3 DEF Fits, Waiting
    <3> QED BY <1>0, <2>1, <3>2, <3>4, <3>5, <3>6, Frame DEF Shape
  <2>3. CASE labType # "CODING" /\ Answer(r, 400) /\ UNCHANGED mishaps
    <3>1. labType = "CHEMISTRY" BY <1>0, <2>1, <2>3 DEF Fits, Surroundings, At
    <3>2. Moved(r, "done", {}) BY <1>0, <1>2, <2>3, AnswerMoves
    <3> QED BY <1>0, <1>1, <1>2, <2>1, <3>1, <3>2, GradedMove DEF Shape
  <2>4. CASE FailsWith(r, "list", 500)
    <3>1. (call[r].failed \cup {"list"}) \cap Reasons # {} BY DEF Reasons
    <3>2. Moved(r, "done", {"list"}) BY <1>0, <1>2, <2>4, FailsWithMoves DEF Steps
    <3> QED BY <1>0, <1>1, <1>2, <2>1, <3>1, <3>2, GradedMove DEF Shape
  <2> QED BY <1>3, <2>2, <2>3, <2>4 DEF List
<1>4. CASE Execute(r)
  <2>1. At(r, "execute") /\ UNCHANGED <<sub, saved>> /\ labType = "CODING"
    BY <1>0, <1>4 DEF Execute, tables, Fits, At
  <2>2. ASSUME NEW results \in [call[r].tests -> Verdict], NEW t \in Runtime,
               call' = [call EXCEPT ![r].pc = "save", ![r].results = results, ![r].runtime = t],
               UNCHANGED mishaps
        PROVE  Inv'
    <3> DEFINE w == [pc |-> "save", cutOff |-> call[r].cutOff, failed |-> call[r].failed,
                     tests |-> call[r].tests, results |-> results, runtime |-> t,
                     reply |-> call[r].reply]
    <3>0. results \in Results BY <1>0 DEF Results, CallType
    <3>1. w \in CallType BY <1>0, <3>0 DEF CallType, Pcs, Waiting
    <3>2. call'[r] = w /\ (\A q \in Call : q # r => call'[q] = call[q])
          /\ call' = [q \in Call |-> call'[q]]
      BY <1>0, <2>2 DEF Shape, CallType
    <3>3. call'[r].pc = "save" /\ call'[r].runtime = t BY <3>2
    <3> HIDE DEF w
    <3>4. call' \in [Call -> CallType]
      <4>1. \A q \in Call : call'[q] \in CallType BY <1>0, <3>1, <3>2 DEF Shape
      <4> QED BY <3>2, <4>1
    <3>5. Surroundings' BY <1>0, <2>1, <2>2 DEF Surroundings
    <3>6. Fits(r)' BY <1>0, <2>1, <2>2, <3>3 DEF Fits, Waiting
    <3> QED BY <1>0, <2>1, <3>2, <3>4, <3>5, <3>6, Frame DEF Shape
  <2>3. CASE FailsTo(r, "execute", "fail")
    <3>1. Moved(r, "fail", {"execute"}) BY <1>0, <1>2, <2>3, FailsToMoves DEF Steps
    <3> QED BY <1>0, <1>1, <1>2, <2>1, <3>1, GradedMove DEF Shape
  <2> QED BY <1>4, <2>2, <2>3 DEF Execute
<1>5. CASE Save(r)
  <2> DEFINE rowsOf == {[test |-> t, status |-> call[r].results[t]] :
                          t \in {u \in call[r].tests \cap tests :
                                   call[r].results[u] \in ResultStatuses}}
  <2>1. /\ call[r].pc = "save" /\ UNCHANGED sub /\ labType = "CODING"
        /\ call[r].runtime \in Runtime
    BY <1>0, <1>5 DEF Save, Fits, At
  <2>2. rowsOf \subseteq [test : TestCase, status : ResultStatuses]
    BY <1>0 DEF Surroundings
  <2>3. PICK part \in SUBSET rowsOf :
          /\ saved' = [saved EXCEPT ![r] = part]
          /\ (Goto(r, "mark") /\ UNCHANGED mishaps) \/ FailsTo(r, "save", "mark")
    BY <1>5 DEF Save
  <2>4. saved' \in [Call -> SUBSET [test : TestCase, status : ResultStatuses]]
    BY <1>0, <2>2, <2>3 DEF Shape
  <2>5. PICK F \in {{}, {"save"}} : Moved(r, "mark", F)
    <3>1. CASE Goto(r, "mark") /\ UNCHANGED mishaps
      <4>1. Moved(r, "mark", {}) BY <1>0, <1>2, <3>1, GotoMoves
      <4> QED BY <4>1
    <3>2. CASE FailsTo(r, "save", "mark")
      <4>1. Moved(r, "mark", {"save"}) BY <1>0, <1>2, <3>2, FailsToMoves DEF Steps
      <4> QED BY <4>1
    <3> QED BY <2>3, <3>1, <3>2
  <2> QED BY <1>0, <1>1, <1>2, <2>1, <2>4, <2>5, GradedMove
<1>6. CASE Mark(r)
  <2> DEFINE status == Overall(call[r].results)
             graded == [sub[r] EXCEPT !.status = status, !.score = Score(call[r].results),
                          !.passed = Cardinality(call[r].tests \ Failing(call[r].results)),
                          !.runtime = call[r].runtime]
  <2>1. /\ call[r].pc = "mark" /\ labType = "CODING" /\ call[r].runtime \in Runtime
        /\ UNCHANGED saved
    BY <1>0, <1>6 DEF Mark, Fits, At
  <2>2. call[r].results \in Results /\ call[r].tests \subseteq TestCase BY <1>0 DEF CallType
  <2>3. status \in Verdict \cup {"ACCEPTED"} /\ status # "PENDING"
    BY <2>2, OverallIsVerdict, SubmissionAssumption
  <2>4. Cardinality(call[r].tests \ Failing(call[r].results)) \in Nat
    <3>1. IsFiniteSet(call[r].tests \ Failing(call[r].results))
      BY <2>2, SubmissionAssumption, FS_Subset
    <3> QED BY <3>1, FS_CardinalityType
  <2>5. status \in RowStatuses => graded \in SubType /\ graded.status = status
    <3>1. Score(call[r].results) \in 0..100 BY <2>2, ScoreIsPercentage
    <3> HIDE DEF status
    <3> QED BY <1>0, <2>1, <2>4, <3>1 DEF SubType
  <2>6. AfterMark(r) \in {"upsert", "get"} BY DEF AfterMark
  <2>7. saved' \in [Call -> SUBSET [test : TestCase, status : ResultStatuses]]
    BY <1>0, <2>1 DEF Shape
  <2>8. CASE /\ sub' = IF status \in RowStatuses THEN [sub EXCEPT ![r] = graded] ELSE sub
             /\ Goto(r, AfterMark(r)) /\ UNCHANGED mishaps
    <3>0. Moved(r, AfterMark(r), {}) BY <1>0, <1>2, <2>6, <2>8, GotoMoves
    <3> HIDE DEF graded
    <3>1. CASE status \in RowStatuses
      <4> HIDE DEF status
      <4> QED BY <1>0, <1>1, <1>2, <2>1, <2>3, <2>5, <2>6, <2>7, <2>8, <3>0, <3>1, GradedMove
    <3>2. CASE status \notin RowStatuses
      <4>1. sub' = [sub EXCEPT ![r] = sub[r]] BY <1>0, <2>8, <3>2
      <4>2. labType = "CODING" /\ Overall(call[r].results) \notin RowStatuses
        BY <2>1, <3>2
      <4> HIDE DEF status
      <4> QED BY <1>0, <1>1, <1>2, <2>1, <2>6, <2>7, <3>0, <4>1, <4>2, GradedMove
    <3> QED BY <3>1, <3>2
  <2>9. CASE FailsTo(r, "mark", AfterMark(r)) /\ UNCHANGED sub
    <3>1. (call[r].failed \cup {"mark"}) \cap Reasons # {} BY DEF Reasons
    <3>2. Moved(r, AfterMark(r), {"mark"}) BY <1>0, <1>2, <2>6, <2>9, FailsToMoves DEF Steps
    <3>3. sub' = [sub EXCEPT ![r] = sub[r]] BY <1>0, <2>9
    <3>4. \/ Moved(r, "upsert", {"mark"})
          \/ Moved(r, "get", {"mark"})
      BY <2>6, <3>2
    <3> HIDE DEF status, graded
    <3>5. CASE Moved(r, "upsert", {"mark"})
      BY <1>0, <1>1, <1>2, <2>1, <2>7, <3>1, <3>3, <3>5, GradedMove
    <3>6. CASE Moved(r, "get", {"mark"})
      BY <1>0, <1>1, <1>2, <2>1, <2>7, <3>1, <3>3, <3>6, GradedMove
    <3> QED BY <3>4, <3>5, <3>6
  <2> QED BY <1>6, <2>8, <2>9 DEF Mark
<1> QED BY <1>3, <1>4, <1>5, <1>6

\* The ends of the two handlers, but for the leaderboard.
LEMMA EndInv ==
    ASSUME Inv, NEW r \in Call, Get(r) \/ HPCExecute(r) \/ HPCMark(r) \/ Fail(r)
    PROVE  Inv'
<1> USE DEF Inv
<1>0. /\ Surroundings /\ Shape /\ Fits(r)
      /\ call[r].pc \in {"get", "hpcExecute", "hpcMark", "fail"} /\ sub[r] \in SubType
      /\ UNCHANGED <<labType, enrolled, tests, saved, board, counted>>
      /\ sub = [sub EXCEPT ![r] = sub[r]]
  BY DEF Get, HPCExecute, HPCMark, Fail, tables, At, Fits, Waiting, Shape
<1>1. call[r].pc \in Waiting \ {"count", "create", "upsert"} BY <1>0 DEF Waiting
<1>2. {200, 202, 500, 502} \subseteq Replies /\ {"get", "hpcMark", "fail", "done"} \subseteq Pcs
  BY DEF Replies, Pcs, Waiting
<1>3. saved' \in [Call -> SUBSET [test : TestCase, status : ResultStatuses]]
  BY <1>0 DEF Shape
<1>4. r \in counted => call[r].pc = "get" BY <1>0 DEF Fits
<1>5. CASE Get(r)
  <2>1. /\ call[r].pc = "get" /\ UNCHANGED <<sub, cluster>> /\ cluster' \subseteq Call
        /\ Explained(r)
    BY <1>0, <1>5 DEF Get, At, tables, Surroundings, Fits
  <2>2. CASE Answer(r, IF labType = "HPC" THEN 202 ELSE 200) /\ UNCHANGED mishaps
    <3>1. (IF labType = "HPC" THEN 202 ELSE 200) \in Replies BY <1>2
    <3>2. Moved(r, "done", {}) BY <1>0, <2>2, <3>1, AnswerMoves
    <3> QED BY <1>0, <1>1, <1>3, <2>1, <3>2, GradedMove DEF Explained
  <2>3. CASE FailsWith(r, "get", 500)
    <3>1. Moved(r, "done", {"get"}) BY <1>0, <1>2, <2>3, FailsWithMoves DEF Steps
    <3> QED BY <1>0, <1>1, <1>3, <2>1, <3>1, GradedMove DEF Explained
  <2> QED BY <1>5, <2>2, <2>3 DEF Get
<1>6. CASE HPCExecute(r)
  <2>1. call[r].pc = "hpcExecute" /\ UNCHANGED sub /\ cluster' \subseteq Call
    BY <1>0, <1>6 DEF HPCExecute, At, tables, Surroundings
  <2>2. (Goto(r, "hpcMark") /\ UNCHANGED mishaps) \/ FailsTo(r, "hpcExecute", "fail")
    BY <1>6 DEF HPCExecute
  <2>3. PICK pc \in {"hpcMark", "fail"} : \E F : Moved(r, pc, F)
    <3>1. CASE Goto(r, "hpcMark") /\ UNCHANGED mishaps
      <4>1. Moved(r, "hpcMark", {}) BY <1>0, <1>2, <3>1, GotoMoves
      <4> QED BY <4>1
    <3>2. CASE FailsTo(r, "hpcExecute", "fail")
      <4>1. Moved(r, "fail", {"hpcExecute"}) BY <1>0, <1>2, <3>2, FailsToMoves DEF Steps
      <4> QED BY <4>1
    <3> QED BY <2>2, <3>1, <3>2
  <2>4. PICK F : Moved(r, pc, F) BY <2>3
  <2> QED BY <1>0, <1>1, <1>3, <1>4, <2>1, <2>4, GradedMove
<1>7. CASE HPCMark(r)
  <2>1. call[r].pc = "hpcMark" /\ UNCHANGED cluster /\ cluster' \subseteq Call
    BY <1>0, <1>7 DEF HPCMark, At, Surroundings
  <2>2. CASE /\ sub' = [sub EXCEPT ![r].status = "PENDING", ![r].job = TRUE]
             /\ Goto(r, "get") /\ UNCHANGED mishaps
    <3> DEFINE s == [sub[r] EXCEPT !.status = "PENDING", !.job = TRUE]
    <3>1. s \in SubType /\ s.job BY <1>0 DEF SubType, RowStatuses
    <3>2. sub' = [sub EXCEPT ![r] = s] BY <2>2, <1>0 DEF Shape
    <3> HIDE DEF s
    <3>3. Moved(r, "get", {}) BY <1>0, <1>2, <2>2, GotoMoves
    <3> QED BY <1>0, <1>1, <1>3, <1>4, <2>1, <3>1, <3>2, <3>3, GradedMove
  <2>3. CASE FailsWith(r, "hpcMark", 500) /\ UNCHANGED sub
    <3>1. (call[r].failed \cup {"hpcMark"}) \cap Reasons # {} BY DEF Reasons
    <3>2. Moved(r, "done", {"hpcMark"}) BY <1>0, <1>2, <2>3, FailsWithMoves DEF Steps
    <3> QED BY <1>0, <1>1, <1>3, <1>4, <2>1, <2>3, <3>1, <3>2, GradedMove
  <2> QED BY <1>7, <2>2, <2>3 DEF HPCMark
<1>8. CASE Fail(r)
  <2> DEFINE code == IF labType = "HPC" THEN 502 ELSE 500
  <2>1. /\ call[r].pc = "fail" /\ UNCHANGED cluster /\ cluster' \subseteq Call
        /\ code \in Replies
    BY <1>0, <1>2, <1>8 DEF Fail, At, Surroundings
  <2>2. CASE /\ sub' = [sub EXCEPT ![r].status = "FAILED"]
             /\ Answer(r, code) /\ UNCHANGED mishaps
    <3> DEFINE s == [sub[r] EXCEPT !.status = "FAILED"]
    <3>1. s \in SubType /\ s.status = "FAILED" BY <1>0 DEF SubType, RowStatuses
    <3>2. sub' = [sub EXCEPT ![r] = s] BY <2>2, <1>0 DEF Shape
    <3> HIDE DEF s, code
    <3>3. Moved(r, "done", {}) BY <1>0, <2>1, <2>2, AnswerMoves
    <3> QED BY <1>0, <1>1, <1>3, <1>4, <2>1, <3>1, <3>2, <3>3, GradedMove
  <2>3. CASE FailsWith(r, "fail", code) /\ UNCHANGED sub
    <3>1. (call[r].failed \cup {"fail"}) \cap Reasons # {} BY DEF Reasons
    <3> HIDE DEF code
    <3>2. Moved(r, "done", {"fail"}) BY <1>0, <2>1, <2>3, FailsWithMoves DEF Steps
    <3> QED BY <1>0, <1>1, <1>3, <1>4, <2>1, <2>3, <3>1, <3>2, GradedMove
  <2> QED BY <1>8, <2>2, <2>3 DEF Fail
<1> QED BY <1>5, <1>6, <1>7, <1>8
-----------------------------------------------------------------------------
\* The upsert keeps the best of the row and the new entry.
LEMMA BestOfBoth ==
    ASSUME NEW f \in BoardType, NEW e \in BoardType
    PROVE  /\ Merged(f, e) \in BoardType
           /\ Merged(f, e).attempts = f.attempts + 1
           /\ \/ Merged(f, e).sub = e.sub /\ Merged(f, e).score = e.score
                 /\ Merged(f, e).runtime = e.runtime
              \/ Merged(f, e).sub = f.sub /\ Merged(f, e).score = f.score
                 /\ Merged(f, e).runtime = f.runtime
           /\ ~Better(e, Merged(f, e)) /\ ~Better(f, Merged(f, e))
           /\ \A g \in BoardType : ~Better(g, f) => ~Better(g, Merged(f, e))
<1> DEFINE m == Merged(f, e)
<1>1. \A g \in BoardType : g.score \in Nat /\ g.runtime \in Nat
  <2>1. Runtime \subseteq Nat /\ 0..100 \subseteq Nat BY SubmissionAssumption
  <2> QED BY <2>1 DEF BoardType
<1>a. f.attempts + 1 \in Nat BY DEF BoardType
<1>2. CASE Better(e, f)
  <2>1. m = [sub |-> e.sub, score |-> e.score, runtime |-> e.runtime,
             attempts |-> f.attempts + 1]
    BY <1>2 DEF Merged, BoardType
  <2>2. ASSUME NEW g \in BoardType, ~Better(g, f) PROVE ~Better(g, e)
    BY <1>1, <1>2, <2>2 DEF Better
  <2>3. ~Better(e, e) /\ ~Better(f, e) BY <1>1, <1>2 DEF Better
  <2>4. m \in BoardType BY <1>a, <2>1 DEF BoardType
  <2>5. m.sub = e.sub /\ m.score = e.score /\ m.runtime = e.runtime
        /\ m.attempts = f.attempts + 1
    BY <2>1
  <2> HIDE DEF m
  <2>6. \A g : Better(g, m) <=> Better(g, e) BY <2>5 DEF Better
  <2> QED BY <2>2, <2>3, <2>4, <2>5, <2>6 DEF m
<1>3. CASE ~Better(e, f)
  <2>1. m = [sub |-> f.sub, score |-> f.score, runtime |-> f.runtime,
             attempts |-> f.attempts + 1]
    BY <1>3 DEF Merged, BoardType
  <2>2. ~Better(f, f) BY <1>1 DEF Better
  <2>4. m \in BoardType BY <1>a, <2>1 DEF BoardType
  <2>5. m.sub = f.sub /\ m.score = f.score /\ m.runtime = f.runtime
        /\ m.attempts = f.attempts + 1
    BY <2>1
  <2> HIDE DEF m
  <2>6. \A g : Better(g, m) <=> Better(g, f) BY <2>5 DEF Better
  <2> QED BY <1>3, <2>2, <2>4, <2>5, <2>6 DEF m
<1> QED BY <1>2, <1>3

LEMMA UpsertInv ==
    ASSUME Inv, NEW r \in Call, Upsert(r)
    PROVE  Inv'
<1> USE DEF Inv
<1> DEFINE e == Entry(r)
<1>0. /\ Surroundings /\ Shape /\ Fits(r) /\ call[r] \in CallType
      /\ call[r].pc = "upsert" /\ sub[r] \in SubType /\ r \notin counted
      /\ call[r].runtime \in Runtime /\ Explained(r)
      /\ UNCHANGED <<labType, enrolled, tests, sub, saved, cluster>>
  BY DEF Upsert, At, Fits, Waiting, Shape
<1>1. "get" \in Pcs BY DEF Pcs, Waiting
<1>2. PICK F : Moved(r, "get", F)
  <2>1. CASE Goto(r, "get") /\ UNCHANGED mishaps
    <3>1. Moved(r, "get", {}) BY <1>0, <1>1, <2>1, GotoMoves
    <3> QED BY <3>1
  <2>2. CASE FailsTo(r, "upsert", "get")
    <3>1. Moved(r, "get", {"upsert"}) BY <1>0, <1>1, <2>2, FailsToMoves DEF Steps
    <3> QED BY <3>1
  <2> QED BY <2>1, <2>2 DEF Upsert
<1>3. /\ call' \in [Call -> CallType]
      /\ \A q \in Call : q # r => call'[q] = call[q]
      /\ call'[r].pc = "get" /\ call'[r].failed = call[r].failed \cup F
      /\ call'[r].results = call[r].results /\ call'[r].runtime = call[r].runtime
      /\ mishaps' \in 0..MaxMishaps
  BY <1>2 DEF Moved
<1>4. Surroundings' BY <1>0, <1>3 DEF Surroundings
<1>5. Explained(r)' BY <1>0, <1>3 DEF Explained
<1>6. ASSUME UNCHANGED <<board, counted>> PROVE Inv'
  <2>1. Fits(r)' BY <1>0, <1>3, <1>5, <1>6 DEF Fits, Waiting
  <2> QED BY <1>0, <1>3, <1>4, <1>6, <2>1, Frame DEF Shape
<1>7. ASSUME board' = IF board = None THEN e ELSE Merged(board, e),
             counted' = counted \cup {r}
      PROVE  Inv'
  <2>1. e \in BoardType /\ e.sub = r /\ e.score = Score(call[r].results)
        /\ e.runtime = call[r].runtime /\ e.attempts = 1
    <3>1. Score(call[r].results) \in 0..100 BY <1>0, ScoreIsPercentage DEF CallType
    <3> QED BY <1>0, <3>1 DEF Entry, BoardType
  <2>2. \A q \in Call : Entry(q)' = Entry(q) BY <1>3 DEF Entry
  <2>3. \A q \in counted : Entry(q) \in BoardType
    <3> SUFFICES ASSUME NEW q \in counted PROVE Entry(q) \in BoardType OBVIOUS
    <3>1. q \in Call /\ call[q] \in CallType /\ call[q].runtime \in Runtime
      BY <1>0 DEF Shape, Fits
    <3>2. Score(call[q].results) \in 0..100 BY <3>1, ScoreIsPercentage DEF CallType
    <3> QED BY <3>1, <3>2 DEF Entry, BoardType
  <2> HIDE DEF e
  <2>4. IsFiniteSet(counted') /\ Cardinality(counted') = Cardinality(counted) + 1
        /\ Cardinality(counted) \in Nat
    BY <1>0, <1>7, FS_AddElement, FS_CardinalityType DEF Shape
  <2>5. \A q \in Call : Score(call'[q].results) = Score(call[q].results)
                        /\ call'[q].runtime = call[q].runtime
    BY <1>3
  <2>6. board' \in BoardType /\ BoardIsBest'
    <3>1. CASE board = None
      <4>1. counted = {} /\ counted' = {r} /\ board' = e BY <1>7, <3>1 DEF BoardIsBest
      <4>2. Cardinality(counted) = 0 BY <4>1, FS_EmptySet
      <4>3. ~Better(e, e)
        <5>1. e.score \in Nat /\ e.runtime \in Nat
          <6>1. Runtime \subseteq Nat /\ 0..100 \subseteq Nat BY SubmissionAssumption
          <6> QED BY <2>1, <6>1 DEF BoardType
        <5> QED BY <5>1 DEF Better
      <4>4. board' # None
        BY <2>1, <4>1, NoneAssumption DEF BoardType
      <4>5. \A q \in counted' : ~Better(Entry(q)', board')
        BY <2>2, <4>1, <4>3 DEF e
      <4>6. \A q \in counted' : ~Better(Entry(q), board)'
        BY <4>5 DEF Better
      <4> QED BY <2>1, <2>4, <2>5, <4>1, <4>2, <4>4, <4>6 DEF BoardIsBest
    <3>2. CASE board # None
      <4>0. board \in BoardType /\ board.sub \in counted
        /\ board.score = Score(call[board.sub].results)
        /\ board.runtime = call[board.sub].runtime
        /\ (\A q \in counted : ~Better(Entry(q), board))
        /\ board.attempts = Cardinality(counted)
        BY <1>0, <3>2 DEF BoardIsBest, Shape
      <4>1. board' = Merged(board, e) BY <1>7, <3>2
      <4>2. /\ board' \in BoardType
            /\ board'.attempts = board.attempts + 1
            /\ \/ board'.sub = r /\ board'.score = e.score /\ board'.runtime = e.runtime
               \/ board'.sub = board.sub /\ board'.score = board.score
                  /\ board'.runtime = board.runtime
            /\ ~Better(e, board')
            /\ \A g \in BoardType : ~Better(g, board) => ~Better(g, board')
        BY <2>1, <4>0, <4>1, BestOfBoth
      <4>3. board' # None BY <4>2, NoneAssumption DEF BoardType
      <4>4. \A q \in counted' : ~Better(Entry(q), board')
        BY <1>7, <2>3, <4>0, <4>2 DEF e
      <4>5. \A q \in counted' : ~Better(Entry(q), board)'
        <5>1. counted' \subseteq Call BY <1>0, <1>7 DEF Shape
        <5> QED BY <2>2, <4>4, <5>1 DEF Better
      <4>6. board'.sub \in counted' BY <1>7, <4>0, <4>2
      <4>7. board'.score = Score(call'[board'.sub].results)
            /\ board'.runtime = call'[board'.sub].runtime
        <5>1. board.sub \in Call BY <1>0, <4>0 DEF Shape
        <5> QED BY <2>1, <2>5, <4>0, <4>2, <5>1
      <4>8. counted' # {} BY <1>7
      <4> QED BY <2>4, <4>0, <4>2, <4>3, <4>5, <4>6, <4>7, <4>8 DEF BoardIsBest
    <3> QED BY <3>1, <3>2
  <2>7. Shape' BY <1>0, <1>3, <1>7, <2>4, <2>6 DEF Shape
  <2>8. \A q \in Call : Fits(q)'
    <3> SUFFICES ASSUME NEW q \in Call PROVE Fits(q)' OBVIOUS
    <3>1. CASE q = r BY <1>0, <1>3, <1>5, <3>1 DEF Fits, Waiting
    <3>2. CASE q # r
      <4>1. call'[q] = call[q] /\ (q \in counted' <=> q \in counted) BY <1>3, <1>7, <3>2
      <4> QED BY <1>0, <4>1 DEF Fits, Explained
    <3> QED BY <3>1, <3>2
  <2> QED BY <1>4, <2>6, <2>7, <2>8
<1> QED BY <1>6, <1>7 DEF Upsert
-----------------------------------------------------------------------------
\* A request that is cut off, or lost with the process, keeps what it had.
LEMMA BrokenInv ==
    ASSUME Inv, (\E r \in Call : HangUp(r)) \/ Crash
    PROVE  Inv'
<1> USE DEF Inv
<1>0. /\ UNCHANGED <<labType, enrolled, tests, sub, saved, board, cluster, counted>>
      /\ mishaps < MaxMishaps /\ mishaps' = mishaps + 1
  BY DEF HangUp, Crash, tables
<1>1. Surroundings' BY <1>0, SubmissionAssumption DEF Surroundings
<1>2. ASSUME call' \in [Call -> CallType],
             \A q \in Call :
               /\ call'[q].results = call[q].results /\ call'[q].runtime = call[q].runtime
               /\ \/ call'[q].pc = call[q].pc /\ call'[q].failed = call[q].failed
                  \/ /\ call[q].pc \in Waiting /\ call'[q].pc = "done"
                     /\ call'[q].failed = call[q].failed \cup {"crash"}
      PROVE  Inv'
  <2>1. Shape' BY <1>0, <1>2 DEF Shape
  <2>2. \A q \in Call : Fits(q)'
    <3> SUFFICES ASSUME NEW q \in Call PROVE Fits(q)' OBVIOUS
    <3>0. Fits(q) OBVIOUS
    <3>1. CASE call'[q].pc = call[q].pc /\ call'[q].failed = call[q].failed
      BY <1>0, <1>2, <3>0, <3>1 DEF Fits, Explained
    <3>2. CASE /\ call[q].pc \in Waiting /\ call'[q].pc = "done"
               /\ call'[q].failed = call[q].failed \cup {"crash"}
      <4>1. Explained(q)' BY <3>2 DEF Explained, Reasons
      <4>2. q \in counted' => call'[q].runtime \in Runtime BY <1>0, <1>2, <3>0 DEF Fits
      <4> QED BY <3>2, <4>1, <4>2 DEF Fits, Waiting
    <3> QED BY <1>2, <3>1, <3>2
  <2>3. BoardIsBest'
    <3>1. \A q \in counted : Entry(q)' = Entry(q) BY <1>2 DEF Entry, Shape
    <3>2. counted \subseteq Call BY DEF Shape
    <3> QED BY <1>0, <1>2, <3>1, <3>2 DEF BoardIsBest, Better
  <2> QED BY <1>1, <2>1, <2>2, <2>3
<1>3. CASE \E r \in Call : HangUp(r)
  <2>1. PICK r \in Call : call' = [call EXCEPT ![r].cutOff = TRUE] BY <1>3 DEF HangUp
  <2> QED BY <1>2, <2>1 DEF Shape, CallType
<1>4. CASE Crash
  <2>1. call' = [r \in Call |-> IF call[r].pc \in Waiting
                                THEN [call[r] EXCEPT !.pc = "done",
                                                     !.failed = call[r].failed \cup {"crash"}]
                                ELSE call[r]]
    BY <1>4 DEF Crash
  <2>2. call' \in [Call -> CallType]
    <3> SUFFICES ASSUME NEW q \in Call PROVE call'[q] \in CallType BY <2>1
    <3>1. call[q] \in CallType BY DEF Shape
    <3>2. CASE call[q].pc \in Waiting
      <4> DEFINE X == call[q].failed \cup {"crash"}
      <4>1. call'[q] = [call[q] EXCEPT !.pc = "done", !.failed = X]
        BY <2>1, <3>2
      <4>2. X \in SUBSET Steps BY <3>1 DEF CallType, Steps
      <4> HIDE DEF X
      <4>3. call'[q] = [pc |-> "done", cutOff |-> call[q].cutOff, failed |-> X,
                        tests |-> call[q].tests, results |-> call[q].results,
                        runtime |-> call[q].runtime, reply |-> call[q].reply]
        BY <3>1, <4>1 DEF CallType
      <4> QED BY <3>1, <4>2, <4>3 DEF CallType, Pcs
    <3>3. CASE call[q].pc \notin Waiting BY <2>1, <3>1, <3>3
    <3> QED BY <3>2, <3>3
  <2>3. \A q \in Call :
               /\ call'[q].results = call[q].results /\ call'[q].runtime = call[q].runtime
               /\ \/ call'[q].pc = call[q].pc /\ call'[q].failed = call[q].failed
                  \/ /\ call[q].pc \in Waiting /\ call'[q].pc = "done"
                     /\ call'[q].failed = call[q].failed \cup {"crash"}
    <3> SUFFICES ASSUME NEW q \in Call
                 PROVE  /\ call'[q].results = call[q].results
                        /\ call'[q].runtime = call[q].runtime
                        /\ \/ call'[q].pc = call[q].pc /\ call'[q].failed = call[q].failed
                           \/ /\ call[q].pc \in Waiting /\ call'[q].pc = "done"
                              /\ call'[q].failed = call[q].failed \cup {"crash"}
      OBVIOUS
    <3>1. call[q] \in CallType BY DEF Shape
    <3> QED BY <2>1, <3>1 DEF CallType
  <2> QED BY <1>2, <2>2, <2>3
<1> QED BY <1>3, <1>4

\* Every step keeps the invariant.
LEMMA NextInv == Inv /\ [Next]_vars => Inv'
<1> SUFFICES ASSUME Inv, [Next]_vars PROVE Inv' OBVIOUS
<1>1. CASE Next
  <2>1. ASSUME NEW r \in Call, Begin(r) \/ Step(r) PROVE Inv'
    BY <2>1, BeforeInv, GradeInv, EndInv, UpsertInv DEF Step
  <2> QED BY <1>1, <2>1, OthersInv, BrokenInv DEF Next
<1>2. CASE UNCHANGED vars
  <2>1. UNCHANGED <<labType, enrolled, tests, sub, saved, board, cluster, call, mishaps, counted>>
    BY <1>2 DEF vars, tables
  <2>2. Surroundings' BY <2>1 DEF Inv, Surroundings
  <2>3. Shape' BY <2>1 DEF Inv, Shape
  <2>4. \A r \in Call : Fits(r)' BY <2>1 DEF Inv, Fits, Explained
  <2>5. BoardIsBest' BY <2>1 DEF Inv, BoardIsBest, Entry, Better
  <2> QED BY <2>2, <2>3, <2>4, <2>5 DEF Inv
<1> QED BY <1>1, <1>2

LEMMA InvHolds == Spec => []Inv
  BY InitInv, NextInv, PTL DEF Spec

\* The rows satisfy the constraints of their tables.
THEOREM TypeCorrect == Spec => []TypeOK
<1>1. Inv => TypeOK
  <2> SUFFICES ASSUME Inv PROVE TypeOK OBVIOUS
  <2>1. Surroundings /\ Shape BY DEF Inv
  <2>2. \A r \in Call : call[r].pc \in Waiting \cup {"idle", "done"}
                        /\ call[r].reply \in {0, 200, 202, 400, 403, 429, 500, 502}
    BY <2>1 DEF Shape, CallType, Pcs, Replies
  <2>3. \A r \in Call : sub[r] = None \/ sub[r] \in SubType BY <2>1 DEF Shape
  <2> QED BY <2>1, <2>2, <2>3 DEF TypeOK, Surroundings, Shape, SubType, BoardType
<1> QED BY InvHolds, <1>1, PTL

\* The leaderboard row is the best accepted submission it was told of, in
\* whatever order overlapping requests write it.
THEOREM BoardKeepsTheBest == Spec => []BoardIsBest
<1>1. Inv => BoardIsBest BY DEF Inv
<1> QED BY InvHolds, <1>1, PTL

\* A row is left PENDING only for one of the reasons the code knows.
THEOREM PendingHasAReason == Spec => []PendingIsExplained
<1>1. Inv => PendingIsExplained
  BY DEF Inv, Fits, Explained, PendingIsExplained, Rows, At, Reasons
<1> QED BY InvHolds, <1>1, PTL
=============================================================================
