--------------------------- MODULE MembershipCache ---------------------------
(***************************************************************************)
(* "Is this student enrolled in this course?" in the lms-service: ONE key  *)
(* enrollment:student:X:course:Y of Redis in front of ONE row of the table *)
(* enrollments.  Requests that pass the gate (VerifyAccess, and the        *)
(* visibility checks of CourseService) read through cache.GetOrLoad, whose *)
(* singleflight group belongs to a Loader: every service object of every   *)
(* replica has a Loader of its own, so several loads of the key overlap.   *)
(* Students and teachers write the row first and delete the key afterwards.*)
(* Each Redis command and each SQL statement is one step.                  *)
(***************************************************************************)
EXTENDS Naturals

CONSTANTS
    Requests,   \* requests that ask for the membership, one after another each
    Loaders,    \* cache.Loader objects
    LoaderOf,   \* [Requests -> Loaders]
    Writers,    \* requests that change the enrollment, one after another each
    Failures,   \* Redis and the database may fail, requests may be cancelled
    RowBound,   \* bound: enrollments that are ever created
    None        \* a model value: no row, no entry, nothing told yet

ASSUME CacheAssumption ==
    /\ LoaderOf \in [Requests -> Loaders]
    /\ Failures \in BOOLEAN
    /\ RowBound \in Nat

VARIABLES
    row,      \* the row of enrollments, or None
    lastId,   \* the BIGSERIAL of enrollments.id
    cache,    \* the entry: a CachedMembership, or None
    req,      \* [Requests -> where GetOrLoad is, and the last answer given]
    flight,   \* [Loaders -> the singleflight call in progress]
    writer,   \* [Writers -> where the enrollment handler is]
    excused   \* history: the entry was stored by a load that a write overtook,
              \* or the deletion of the entry was lost

vars == <<row, lastId, cache, req, flight, writer, excused>>

Statuses == {"ACCEPTED", "REJECTED"}
Answers  == {"NONE"} \cup Statuses   \* "NONE" is CachedMembership{Found: false}
Row      == [id : Nat, status : Statuses]

ASSUME NoneAssumption == None \notin Answers \cup Row

Membership == IF row = None THEN "NONE" ELSE row.status
HasRow(id) == row # None /\ row.id = id

NoFlight == [pc |-> "none", val |-> "NONE", waiters |-> {}]
IdleWriter == [pc |-> "idle", id |-> 0]

Answered(S, a) ==
    req' = [r \in Requests |-> IF r \in S THEN [pc |-> "idle", ans |-> a] ELSE req[r]]
Failed(S) == req' = [r \in Requests |-> IF r \in S THEN [req[r] EXCEPT !.pc = "idle"]
                                                   ELSE req[r]]

-----------------------------------------------------------------------------
(* GetOrLoad: the caller                                                   *)

AccessBegin(r) ==
    /\ req[r].pc = "idle"
    /\ req' = [req EXCEPT ![r].pc = "get"]
    /\ UNCHANGED <<row, lastId, cache, flight, writer, excused>>

\* Fast path; an error counts as a miss.
AccessGet(r) ==
    /\ req[r].pc = "get"
    /\ \/ cache # None /\ Answered({r}, cache)
       \/ (cache = None \/ Failures) /\ req' = [req EXCEPT ![r].pc = "join"]
    /\ UNCHANGED <<row, lastId, cache, flight, writer, excused>>

\* Mutant: a caller that finds a flight under way is not added to its waiters.
AccessJoin_Dropped(r) ==
    /\ req[r].pc = "join"
    /\ req' = [req EXCEPT ![r].pc = "wait"]
    /\ LET l == LoaderOf[r] IN
       flight' = IF flight[l].pc = "none"
                 THEN [flight EXCEPT ![l].pc = "recheck", ![l].waiters = {r}]
                 ELSE flight
    /\ UNCHANGED <<row, lastId, cache, writer, excused>>

\* group.Do: the first caller starts a flight, the others wait for it.
AccessJoin(r) ==
    /\ req[r].pc = "join"
    /\ req' = [req EXCEPT ![r].pc = "wait"]
    /\ LET l == LoaderOf[r] IN
       flight' = [flight EXCEPT ![l] =
                    [pc |-> IF @.pc = "none" THEN "recheck" ELSE @.pc,
                     val |-> @.val, waiters |-> @.waiters \cup {r}]]
    /\ UNCHANGED <<row, lastId, cache, writer, excused>>

-----------------------------------------------------------------------------
(* GetOrLoad: the flight                                                   *)

Land(l) == flight' = [flight EXCEPT ![l] = NoFlight]

\* The second look at the cache.
FlightRecheck(l) ==
    /\ flight[l].pc = "recheck"
    /\ \/ cache # None /\ Answered(flight[l].waiters, cache) /\ Land(l)
       \/ /\ cache = None \/ Failures
          /\ flight' = [flight EXCEPT ![l].pc = "load"]
          /\ UNCHANGED req
    /\ UNCHANGED <<row, lastId, cache, writer, excused>>

\* GetByStudentAndCourse; no row is the answer "NONE".
FlightLoad(l) ==
    /\ flight[l].pc = "load"
    /\ flight' = [flight EXCEPT ![l].pc = "set", ![l].val = Membership]
    /\ UNCHANGED <<row, lastId, cache, req, writer, excused>>

\* SetJSON (best effort), then every waiter gets the loaded answer.
FlightSet(l) ==
    /\ flight[l].pc = "set"
    /\ \/ /\ cache' = flight[l].val
          /\ excused' = (flight[l].val # Membership)
       \/ Failures /\ UNCHANGED <<cache, excused>>
    /\ Answered(flight[l].waiters, flight[l].val)
    /\ Land(l)
    /\ UNCHANGED <<row, lastId, writer>>

\* Mutant: a failed load is reported as "not enrolled".
FlightFails_AsNone(l) ==
    /\ Failures
    /\ flight[l].pc = "load"
    /\ Answered(flight[l].waiters, "NONE")
    /\ Land(l)
    /\ UNCHANGED <<row, lastId, cache, writer, excused>>

\* The query fails or the leader's request is cancelled: an error for all.
FlightFails(l) ==
    /\ Failures
    /\ flight[l].pc = "load"
    /\ Failed(flight[l].waiters)
    /\ Land(l)
    /\ UNCHANGED <<row, lastId, cache, writer, excused>>

\* Mutant: the entry is stored without a TTL.
Expire_Never == FALSE /\ UNCHANGED vars

\* The TTL of one minute passes.
Expire ==
    /\ cache # None
    /\ cache' = None
    /\ excused' = FALSE
    /\ UNCHANGED <<row, lastId, req, flight, writer>>

-----------------------------------------------------------------------------
(* The enrollment handlers                                                 *)

Goto(w, pc, id) == writer' = [writer EXCEPT ![w] = [pc |-> pc, id |-> id]]
Finish(w) == writer' = [writer EXCEPT ![w] = IdleWriter]

\* INSERT; UNIQUE(course_id, student_id) has the last word.
Insert(w) ==
    IF row = None
    THEN /\ row' = [id |-> lastId + 1, status |-> "ACCEPTED"]
         /\ lastId' = lastId + 1
         /\ Goto(w, "invalidate", lastId + 1)
    ELSE Finish(w) /\ UNCHANGED <<row, lastId>>

\* EnrollCourse: the live duplicate check, whose error counts as "no row".
EnrollCheck(w) ==
    /\ writer[w].pc = "idle"
    /\ lastId < RowBound
    /\ row = None \/ Failures
    /\ Goto(w, "insert", 0)
    /\ UNCHANGED <<row, lastId, cache, req, flight, excused>>

EnrollInsert(w) ==
    /\ writer[w].pc = "insert"
    /\ lastId < RowBound
    /\ Insert(w)
    /\ UNCHANGED <<cache, req, flight, excused>>

\* BulkEnroll: INSERT ... ON CONFLICT DO NOTHING RETURNING.
BulkEnroll(w) ==
    /\ writer[w].pc = "idle"
    /\ lastId < RowBound
    /\ Insert(w)
    /\ UNCHANGED <<cache, req, flight, excused>>

\* AcceptEnrollment and RejectEnrollment with an id a teacher has seen.
Decide(w) ==
    /\ writer[w].pc = "idle"
    /\ \E id \in 1..lastId, st \in Statuses :
         /\ HasRow(id)
         /\ row' = [row EXCEPT !.status = st]
         /\ Goto(w, "fetch", id)
    /\ UNCHANGED <<lastId, cache, req, flight, excused>>

\* Mutant: the row the update touched is not read, so the entry stays.
DecideFetch_NoDelete(w) ==
    /\ writer[w].pc = "fetch"
    /\ Finish(w)
    /\ UNCHANGED <<row, lastId, cache, req, flight, excused>>

\* GetByID for the student's id: a row deleted meanwhile ends the request.
DecideFetch(w) ==
    /\ writer[w].pc = "fetch"
    /\ IF HasRow(writer[w].id) THEN Goto(w, "invalidate", writer[w].id) ELSE Finish(w)
    /\ UNCHANGED <<row, lastId, cache, req, flight, excused>>

\* CancelEnrollment: GetByID and the ownership check, whatever the status is.
CancelCheck(w) ==
    /\ writer[w].pc = "idle"
    /\ \E id \in 1..lastId : HasRow(id) /\ Goto(w, "delete", id)
    /\ UNCHANGED <<row, lastId, cache, req, flight, excused>>

CancelDelete(w) ==
    /\ writer[w].pc = "delete"
    /\ IF HasRow(writer[w].id)
       THEN row' = None /\ Goto(w, "invalidate", writer[w].id)
       ELSE UNCHANGED row /\ Finish(w)
    /\ UNCHANGED <<lastId, cache, req, flight, excused>>

\* A writer that has changed the row and has yet to delete the entry.
Pending(w) == \/ writer[w].pc = "invalidate"
              \/ writer[w].pc = "fetch" /\ HasRow(writer[w].id)

\* invalidateMembership; its error is swallowed.
Invalidate(w) ==
    /\ writer[w].pc = "invalidate"
    /\ \/ cache' = None /\ excused' = FALSE
       \/ Failures /\ excused' = (cache # None) /\ UNCHANGED cache
    /\ Finish(w)
    /\ UNCHANGED <<row, lastId, req, flight>>

\* The request is cancelled, its process dies between two statements, or GetByID
\* fails after UpdateStatus (the error is dropped and nothing is invalidated).
Abort(w) ==
    /\ Failures
    /\ writer[w].pc # "idle"
    /\ Finish(w)
    /\ excused' = (cache # None /\ (excused \/ Pending(w)))
    /\ UNCHANGED <<row, lastId, cache, req, flight>>

-----------------------------------------------------------------------------
Init ==
    /\ row = None /\ lastId = 0 /\ cache = None /\ excused = FALSE
    /\ req = [r \in Requests |-> [pc |-> "idle", ans |-> None]]
    /\ flight = [l \in Loaders |-> NoFlight]
    /\ writer = [w \in Writers |-> IdleWriter]

Ask(r) == AccessBegin(r) \/ AccessGet(r) \/ AccessJoin(r)
Fly(l) == FlightRecheck(l) \/ FlightLoad(l) \/ FlightSet(l) \/ FlightFails(l)
Write(w) == \/ EnrollCheck(w) \/ EnrollInsert(w) \/ BulkEnroll(w)
            \/ Decide(w) \/ DecideFetch(w)
            \/ CancelCheck(w) \/ CancelDelete(w)
            \/ Invalidate(w) \/ Abort(w)

Next == \/ \E r \in Requests : Ask(r)
        \/ \E l \in Loaders : Fly(l)
        \/ \E w \in Writers : Write(w)
        \/ Expire

Spec == Init /\ [][Next]_vars

(***************************************************************************)
(* Fairness: a request that has started gets to its next statement, and    *)
(* Redis expires keys.  Nobody has to ask, enroll, decide or fail.         *)
(***************************************************************************)
Fairness ==
    /\ \A r \in Requests : WF_vars(AccessGet(r) \/ AccessJoin(r))
    /\ \A l \in Loaders : WF_vars(Fly(l))
    /\ \A w \in Writers : WF_vars(EnrollInsert(w) \/ DecideFetch(w) \/ CancelDelete(w)
                                    \/ Invalidate(w))
    /\ WF_vars(Expire)

FairSpec == Spec /\ Fairness

-----------------------------------------------------------------------------
(* Properties *)

\* Every row, entry and request in progress is well formed, and a request that
\* waits is known to the flight of its loader.
TypeOK ==
    /\ row \in Row \cup {None}
    /\ lastId \in 0..RowBound
    /\ row # None => row.id \in 1..lastId
    /\ cache \in Answers \cup {None}
    /\ req \in [Requests -> [pc : {"idle", "get", "join", "wait"},
                             ans : Answers \cup {None}]]
    /\ flight \in [Loaders -> [pc : {"none", "recheck", "load", "set"},
                               val : Answers, waiters : SUBSET Requests]]
    /\ writer \in [Writers -> [pc : {"idle", "insert", "fetch", "delete", "invalidate"},
                               id : 0..RowBound]]
    /\ excused \in BOOLEAN
    /\ \A r \in Requests : req[r].pc = "wait" <=> r \in flight[LoaderOf[r]].waiters

\* "A teacher accept/reject must take effect quickly": an entry contradicts the
\* row only while some writer has yet to delete it, or after a load that was
\* overtaken by a write, or when the deletion was lost; no handler forgets it.
StaleOnlyByRace ==
    cache \notin {None, Membership} => excused \/ \E w \in Writers : Pending(w)

\* enrollmentMembershipTTL "caps how long" an answer stays cached: when the
\* enrollment stops changing, every entry is right from some time on, whatever
\* deletions were lost and whatever late loads were stored.
EventuallyFresh ==
    \A a \in Answers : <>[](Membership = a) => <>[](cache \in {None, a})

\* The cache promises its callers what AccessGate states: the values that may
\* still be told are the row's, the entry's and those of loads in progress.
Told == [r \in Requests |-> req[r].ans]
Live == {Membership} \cup ({cache} \ {None})
           \cup {flight[l].val : l \in {k \in Loaders : flight[k].pc = "set"}}

Gate == INSTANCE AccessGate
            WITH Unasked <- None, truth <- Membership, live <- Live, told <- Told

GateSpec == Gate!Spec

-----------------------------------------------------------------------------
(* What a comment says and the code does not ensure *)

\* "A 'not found' should not be cached because ... rows are commonly created
\* shortly after being looked up": once the enrollment request is over, a student
\* who is enrolled is not denied by an entry.
EnrolledIsNotDenied ==
    (Membership = "ACCEPTED" /\ \A w \in Writers : writer[w].pc = "idle")
        => cache # "NONE"
=============================================================================
