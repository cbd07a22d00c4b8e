------------------------ MODULE MembershipCacheProofs ------------------------
(***************************************************************************)
(* Proofs about MembershipCache for any number of requests, loaders and    *)
(* writers, with failures or without.  Types and the bookkeeping of stale  *)
(* entries are inductive together; the cache implements AccessGate because *)
(* every value it tells is the row's, the entry's or a finished load's.    *)
(***************************************************************************)
EXTENDS MembershipCache, TLAPS

(* The part of TypeOK that the other invariants need. *)
Shape ==
    /\ row \in Row \cup {None}
    /\ lastId \in Nat
    /\ cache \in Answers \cup {None}
    /\ req \in [Requests -> [pc : {"idle", "get", "join", "wait"},
                             ans : Answers \cup {None}]]
    /\ flight \in [Loaders -> [pc : {"none", "recheck", "load", "set"},
                               val : Answers, waiters : SUBSET Requests]]
    /\ writer \in [Writers -> [pc : {"idle", "insert", "fetch", "delete", "invalidate"},
                               id : Nat]]
    /\ excused \in BOOLEAN

\* The answer the database would give is an answer.
LEMMA MembershipAnswers == Shape => Membership \in Answers
  BY NoneAssumption DEF Shape, Membership, Answers, Statuses, Row

\* The initial state has the shape and an empty cache.
LEMMA InitShape == Init => Shape /\ StaleOnlyByRace
<1> SUFFICES ASSUME Init PROVE Shape /\ StaleOnlyByRace OBVIOUS
<1>1. row = None /\ lastId = 0 /\ cache = None /\ excused = FALSE
  BY DEF Init
<1>2. req \in [Requests -> [pc : {"idle", "get", "join", "wait"},
                            ans : Answers \cup {None}]]
  BY DEF Init
<1>3. flight \in [Loaders -> [pc : {"none", "recheck", "load", "set"},
                              val : Answers, waiters : SUBSET Requests]]
  BY DEF Init, NoFlight, Answers
<1>4. writer \in [Writers -> [pc : {"idle", "insert", "fetch", "delete", "invalidate"},
                              id : Nat]]
  BY DEF Init, IdleWriter
<1>5. Shape BY <1>1, <1>2, <1>3, <1>4 DEF Shape
<1>6. StaleOnlyByRace BY <1>1 DEF StaleOnlyByRace
<1> QED BY <1>5, <1>6

\* Requests keep the shape.
LEMMA AskShape ==
    ASSUME Shape, NEW r \in Requests, Ask(r)
    PROVE  Shape'
<1>1. CASE AccessBegin(r) BY <1>1 DEF AccessBegin, Shape
<1>2. CASE AccessGet(r) BY <1>2 DEF AccessGet, Shape, Answered
<1>3. CASE AccessJoin(r)
  <2>1. LoaderOf[r] \in Loaders BY CacheAssumption
  <2> DEFINE l == LoaderOf[r]
             pc == IF flight[l].pc = "none" THEN "recheck" ELSE flight[l].pc
             new == [pc |-> pc, val |-> flight[l].val,
                     waiters |-> flight[l].waiters \cup {r}]
  <2>2. new \in [pc : {"none", "recheck", "load", "set"}, val : Answers,
                waiters : SUBSET Requests]
    <3>1. flight[l] \in [pc : {"none", "recheck", "load", "set"}, val : Answers,
                         waiters : SUBSET Requests]
      BY <2>1 DEF Shape
    <3>2. pc \in {"none", "recheck", "load", "set"} BY <3>1
    <3>3. flight[l].val \in Answers /\ flight[l].waiters \cup {r} \in SUBSET Requests
      BY <3>1
    <3> QED BY <3>2, <3>3
  <2>3. flight' = [flight EXCEPT ![l] = new]
    BY <1>3, <2>1 DEF AccessJoin, Shape
  <2>4. flight' \in [Loaders -> [pc : {"none", "recheck", "load", "set"},
                                val : Answers, waiters : SUBSET Requests]]
    BY <2>1, <2>2, <2>3 DEF Shape
  <2>5. req' \in [Requests -> [pc : {"idle", "get", "join", "wait"},
                              ans : Answers \cup {None}]]
    BY <1>3 DEF AccessJoin, Shape
  <2> QED BY <1>3, <2>4, <2>5 DEF AccessJoin, Shape
<1> QED BY <1>1, <1>2, <1>3 DEF Ask

\* Flights keep the shape.
LEMMA FlyShape ==
    ASSUME Shape, NEW l \in Loaders, Fly(l)
    PROVE  Shape'
<1> USE DEF Shape, Land, NoFlight
<1>0. /\ flight[l].waiters \subseteq Requests /\ flight[l].val \in Answers
      /\ "NONE" \in Answers
  BY DEF Answers
<1>1. CASE FlightRecheck(l)
  <2>1. CASE cache # None /\ Answered(flight[l].waiters, cache) /\ Land(l)
    BY <1>0, <1>1, <2>1 DEF FlightRecheck, Answered
  <2>2. CASE flight' = [flight EXCEPT ![l].pc = "load"] /\ UNCHANGED req
    BY <1>1, <2>2 DEF FlightRecheck
  <2> QED BY <1>1, <2>1, <2>2 DEF FlightRecheck
<1>2. CASE FlightLoad(l)
  <2>1. Membership \in Answers BY MembershipAnswers
  <2>2. flight' = [flight EXCEPT ![l] = [flight[l] EXCEPT !.pc = "set",
                                                          !.val = Membership]]
    BY <1>2 DEF FlightLoad
  <2>3. flight' \in [Loaders -> [pc : {"none", "recheck", "load", "set"},
                                val : Answers, waiters : SUBSET Requests]]
    BY <2>1, <2>2
  <2> QED BY <1>2, <2>3 DEF FlightLoad
<1>3. CASE FlightSet(l)
  BY <1>0, <1>3 DEF FlightSet, Answered
<1>4. CASE FlightFails(l)
  <2>1. req' \in [Requests -> [pc : {"idle", "get", "join", "wait"},
                               ans : Answers \cup {None}]]
    BY <1>4 DEF FlightFails, Failed
  <2> QED BY <1>0, <1>4, <2>1 DEF FlightFails
<1> QED BY <1>1, <1>2, <1>3, <1>4 DEF Fly

\* Enrollment handlers keep the shape.
LEMMA WriteShape ==
    ASSUME Shape, NEW w \in Writers, Write(w)
    PROVE  Shape'
<1> USE DEF Shape, Goto, Finish, IdleWriter, Row, Statuses
<1>1. CASE EnrollCheck(w) BY <1>1 DEF EnrollCheck
<1>2. CASE EnrollInsert(w) BY <1>2 DEF EnrollInsert, Insert
<1>3. CASE BulkEnroll(w) BY <1>3 DEF BulkEnroll, Insert
<1>4. CASE Decide(w)
  <2>1. PICK id \in 1..lastId, st \in Statuses :
          /\ HasRow(id)
          /\ row' = [row EXCEPT !.status = st]
          /\ Goto(w, "fetch", id)
    BY <1>4 DEF Decide
  <2>2. row' \in Row BY <2>1, NoneAssumption DEF HasRow
  <2>3. id \in Nat BY <2>1
  <2> QED BY <1>4, <2>1, <2>2, <2>3 DEF Decide
<1>5. CASE DecideFetch(w) BY <1>5 DEF DecideFetch
<1>6. CASE CancelCheck(w) BY <1>6 DEF CancelCheck
<1>7. CASE CancelDelete(w) BY <1>7 DEF CancelDelete
<1>8. CASE Invalidate(w) BY <1>8 DEF Invalidate
<1>9. CASE Abort(w) BY <1>9 DEF Abort
<1> QED BY <1>1, <1>2, <1>3, <1>4, <1>5, <1>6, <1>7, <1>8, <1>9 DEF Write

\* Steps that leave the row, the entry and the writers alone keep a stale entry
\* explained.
LEMMA SameStale ==
    ASSUME StaleOnlyByRace, UNCHANGED <<row, cache, writer, excused>>
    PROVE  StaleOnlyByRace'
  BY DEF StaleOnlyByRace, Membership, Pending, HasRow

\* A writer that changed the row is pending, and stops being so only when the
\* entry is gone, excused, or the row is somebody else's to answer for.
LEMMA WriteStale ==
    ASSUME Shape, StaleOnlyByRace, NEW w \in Writers, Write(w)
    PROVE  StaleOnlyByRace'
<1> USE DEF Shape, Goto, Finish, IdleWriter
<1>a. CASE cache = None /\ cache' = None BY <1>a DEF StaleOnlyByRace
<1>b. CASE UNCHANGED <<row, cache, excused>> /\ ~Pending(w)
  <2>1. ASSUME NEW v \in Writers, Pending(v) PROVE \E u \in Writers : Pending(u)'
    <3>1. v # w BY <1>b, <2>1
    <3>2. writer' = [writer EXCEPT ![w] = writer'[w]]
      BY <3>1, NoneAssumption DEF Write, EnrollCheck, EnrollInsert, BulkEnroll, Insert, Decide,
         DecideFetch, CancelCheck, CancelDelete, Invalidate, Abort
    <3>3. writer'[v] = writer[v] BY <3>1, <3>2
    <3> QED BY <1>b, <2>1, <3>3 DEF Pending, HasRow
  <2> QED BY <1>b, <2>1 DEF StaleOnlyByRace, Membership
<1>1. CASE EnrollCheck(w)
  BY <1>1, <1>b DEF EnrollCheck, Pending
<1>c. ASSUME NEW id, writer' = [writer EXCEPT ![w] = [pc |-> "invalidate", id |-> id]]
      PROVE  StaleOnlyByRace'
  BY <1>c DEF StaleOnlyByRace, Pending
<1>2. CASE EnrollInsert(w)
  BY <1>2, <1>b, <1>c DEF EnrollInsert, Insert, Pending
<1>3. CASE BulkEnroll(w)
  BY <1>3, <1>b, <1>c DEF BulkEnroll, Insert, Pending
<1>4. CASE Decide(w)
  <2>1. PICK id \in 1..lastId, st \in Statuses :
          /\ HasRow(id)
          /\ row' = [row EXCEPT !.status = st]
          /\ Goto(w, "fetch", id)
    BY <1>4 DEF Decide
  <2>2. row' # None /\ row'.id = id
    BY <2>1, NoneAssumption DEF HasRow, Row, Statuses
  <2>3. writer'[w] = [pc |-> "fetch", id |-> id] BY <2>1
  <2> QED BY <2>2, <2>3 DEF StaleOnlyByRace, Pending, HasRow
<1>5. CASE DecideFetch(w)
  <2>1. CASE HasRow(writer[w].id) BY <1>5, <1>c, <2>1 DEF DecideFetch
  <2>2. CASE ~HasRow(writer[w].id) BY <1>5, <1>b, <2>2 DEF DecideFetch, Pending
  <2> QED BY <2>1, <2>2
<1>6. CASE CancelCheck(w)
  BY <1>6, <1>b DEF CancelCheck, Pending
<1>7. CASE CancelDelete(w)
  BY <1>7, <1>b, <1>c DEF CancelDelete, Pending
<1>8. CASE Invalidate(w)
  BY <1>8 DEF Invalidate, StaleOnlyByRace
<1>9. CASE Abort(w)
  <2>1. CASE Pending(w) BY <1>9, <2>1 DEF Abort, StaleOnlyByRace
  <2>2. CASE cache # None /\ ~Pending(w)
    <3>1. UNCHANGED <<row, cache, excused>> BY <1>9, <2>2 DEF Abort
    <3> QED BY <1>b, <2>2, <3>1
  <2>3. CASE cache = None BY <1>9, <1>a, <2>3 DEF Abort
  <2> QED BY <2>1, <2>2, <2>3
<1> QED BY <1>1, <1>2, <1>3, <1>4, <1>5, <1>6, <1>7, <1>8, <1>9 DEF Write

\* A load that no write overtook stores the row's answer.
LEMMA FlyStale ==
    ASSUME StaleOnlyByRace, NEW l \in Loaders, Fly(l)
    PROVE  StaleOnlyByRace'
<1>1. CASE FlightSet(l)
  BY <1>1, SameStale DEF FlightSet, StaleOnlyByRace, Membership
<1>2. CASE ~FlightSet(l)
  BY <1>2, SameStale DEF Fly, FlightRecheck, FlightLoad, FlightFails
<1> QED BY <1>1, <1>2

\* Every step keeps both.
LEMMA StaleInvariance ==
    Shape /\ StaleOnlyByRace /\ [Next]_vars => Shape' /\ StaleOnlyByRace'
<1> SUFFICES ASSUME Shape, StaleOnlyByRace, [Next]_vars
             PROVE  Shape' /\ StaleOnlyByRace'
  OBVIOUS
<1>1. ASSUME NEW r \in Requests, Ask(r) PROVE Shape' /\ StaleOnlyByRace'
  <2>1. UNCHANGED <<row, cache, writer, excused>>
    BY <1>1 DEF Ask, AccessBegin, AccessGet, AccessJoin
  <2> QED BY <1>1, <2>1, AskShape, SameStale
<1>2. ASSUME NEW l \in Loaders, Fly(l) PROVE Shape' /\ StaleOnlyByRace'
  BY <1>2, FlyShape, FlyStale
<1>3. ASSUME NEW w \in Writers, Write(w) PROVE Shape' /\ StaleOnlyByRace'
  BY <1>3, WriteShape, WriteStale
<1>4. CASE Expire
  BY <1>4 DEF Expire, Shape, StaleOnlyByRace
<1>5. CASE UNCHANGED vars
  BY <1>5, SameStale DEF vars, Shape
<1> QED BY <1>1, <1>2, <1>3, <1>4, <1>5 DEF Next

\* An entry of the membership cache contradicts the database only in the races
\* that StaleOnlyByRace names, whoever reads and writes.
THEOREM StalenessExplained == Spec => []StaleOnlyByRace
<1>1. Init => Shape /\ StaleOnlyByRace BY InitShape
<1>2. Shape /\ StaleOnlyByRace /\ [Next]_vars => Shape' /\ StaleOnlyByRace'
  BY StaleInvariance
<1> QED BY <1>1, <1>2, PTL DEF Spec

-----------------------------------------------------------------------------
(* MembershipCache implements AccessGate                                   *)

\* The initial states agree.
LEMMA GateInit == Init => Gate!Init
<1> SUFFICES ASSUME Init PROVE Gate!Init OBVIOUS
<1>1. Membership = "NONE" BY DEF Init, Membership
<1>2. Live = {"NONE"} BY <1>1 DEF Init, Live, NoFlight
<1>3. Told = [r \in Requests |-> None] BY DEF Init, Told
<1> QED BY <1>1, <1>2, <1>3 DEF Gate!Init, Answers

\* What is live after a step that neither stores an entry nor finishes a load.
LEMMA LiveShrinks ==
    ASSUME cache' \in {cache, None},
           \A l \in Loaders : flight'[l].pc = "set" =>
               flight[l].pc = "set" /\ flight'[l].val = flight[l].val
    PROVE  Live' \subseteq Live \cup {Membership'} /\ Membership' \in Live'
  BY DEF Live

\* Steps that tell nothing and leave the row alone are steps of the gate.
LEMMA QuietStep ==
    ASSUME Shape, Told' = Told, Membership' = Membership,
           Live' \subseteq Live, Membership' \in Live'
    PROVE  [Gate!Next]_(Gate!vars)
<1>1. Told' = [r \in Requests |-> IF r \in {} THEN Membership ELSE Told[r]]
  BY DEF Told
<1>2. Membership \in Live BY DEF Live
<1>3. {} \in SUBSET Requests OBVIOUS
<1> QED BY <1>1, <1>2, <1>3 DEF Gate!Next, Gate!Tell

\* Answering some requests with a live value is a step of the gate.
LEMMA TellStep ==
    ASSUME Shape, NEW S \in SUBSET Requests, NEW v \in Live, Answered(S, v),
           Membership' = Membership, Live' \subseteq Live, Membership' \in Live'
    PROVE  [Gate!Next]_(Gate!vars)
<1>1. Told' = [r \in Requests |-> IF r \in S THEN v ELSE Told[r]]
  BY DEF Told, Answered
<1> QED BY <1>1 DEF Gate!Next, Gate!Tell

\* Requests only pass on the entry.
LEMMA AskGate ==
    ASSUME Shape, NEW r \in Requests, Ask(r)
    PROVE  [Gate!Next]_(Gate!vars)
<1>1. Membership' = Membership /\ cache' = cache
  BY DEF Ask, AccessBegin, AccessGet, AccessJoin, Membership
<1>2. Live' \subseteq Live /\ Membership' \in Live'
  <2>1. \A l \in Loaders : flight'[l].pc = "set" =>
               flight[l].pc = "set" /\ flight'[l].val = flight[l].val
    BY CacheAssumption DEF Ask, AccessBegin, AccessGet, AccessJoin, Shape
  <2>2. Membership \in Live BY DEF Live
  <2> QED BY <1>1, <2>1, <2>2, LiveShrinks
<1>3. CASE Answered({r}, cache) /\ cache # None
  <2>1. cache \in Live BY <1>3 DEF Live
  <2> QED BY <1>1, <1>2, <1>3, <2>1, TellStep
<1>4. CASE Told' = Told
  BY <1>1, <1>2, <1>4, QuietStep
<1>5. Told' = Told \/ (Answered({r}, cache) /\ cache # None)
  <2>1. CASE \E pc \in {"get", "join", "wait"} : req' = [req EXCEPT ![r].pc = pc]
    BY <2>1 DEF Told, Shape
  <2>2. \/ \E pc \in {"get", "join", "wait"} : req' = [req EXCEPT ![r].pc = pc]
        \/ Answered({r}, cache) /\ cache # None
    BY DEF Ask, AccessBegin, AccessGet, AccessJoin
  <2> QED BY <2>1, <2>2
<1> QED BY <1>3, <1>4, <1>5

\* Flights tell the entry or what they loaded.
LEMMA FlyGate ==
    ASSUME Shape, NEW l \in Loaders, Fly(l)
    PROVE  [Gate!Next]_(Gate!vars)
<1> USE DEF Land, NoFlight
<1>0. /\ Membership' = Membership /\ Membership \in Live
      /\ flight[l].waiters \in SUBSET Requests
  BY DEF Fly, FlightRecheck, FlightLoad, FlightSet, FlightFails, Membership, Live, Shape
<1>1. CASE FlightRecheck(l)
  <2>1. Live' \subseteq Live /\ Membership' \in Live'
    <3>1. \A k \in Loaders : flight'[k].pc = "set" =>
                 flight[k].pc = "set" /\ flight'[k].val = flight[k].val
      BY <1>1 DEF FlightRecheck, Shape
    <3>2. cache' = cache BY <1>1 DEF FlightRecheck
    <3> QED BY <1>0, <3>1, <3>2, LiveShrinks
  <2>2. CASE cache # None /\ Answered(flight[l].waiters, cache)
    <3>1. cache \in Live BY <2>2 DEF Live
    <3> QED BY <1>0, <2>1, <2>2, <3>1, TellStep
  <2>3. CASE UNCHANGED req
    BY <1>0, <2>1, <2>3, QuietStep DEF Told
  <2> QED BY <1>1, <2>2, <2>3 DEF FlightRecheck
<1>2. CASE FlightLoad(l)
  <2>1. \A k \in Loaders : flight'[k].pc = "set" =>
           \/ flight'[k].val = Membership
           \/ flight[k].pc = "set" /\ flight'[k].val = flight[k].val
    BY <1>2 DEF FlightLoad, Shape
  <2>2. Live' \subseteq Live /\ Membership' \in Live'
    BY <1>0, <1>2, <2>1 DEF FlightLoad, Live
  <2> QED BY <1>0, <1>2, <2>2, QuietStep DEF FlightLoad, Told
<1>3. CASE FlightSet(l)
  <2>1. flight[l].val \in Live BY <1>3 DEF FlightSet, Live
  <2>2. \A k \in Loaders : flight'[k].pc = "set" =>
               flight[k].pc = "set" /\ flight'[k].val = flight[k].val
    BY <1>3 DEF FlightSet, Shape
  <2>3. cache' \in {cache, flight[l].val} BY <1>3 DEF FlightSet
  <2>4. Live' \subseteq Live /\ Membership' \in Live'
    BY <1>0, <2>1, <2>2, <2>3 DEF Live
  <2> QED BY <1>0, <1>3, <2>1, <2>4, TellStep DEF FlightSet
<1>4. CASE FlightFails(l)
  <2>1. Live' \subseteq Live /\ Membership' \in Live'
    BY <1>0, <1>4, LiveShrinks DEF FlightFails, Shape
  <2>2. Told' = Told BY <1>4 DEF FlightFails, Failed, Told, Shape
  <2> QED BY <1>0, <2>1, <2>2, QuietStep
<1> QED BY <1>1, <1>2, <1>3, <1>4 DEF Fly

\* A write changes the truth and may drop the entry.
LEMMA WriteGate ==
    ASSUME Shape, Shape', NEW w \in Writers, Write(w)
    PROVE  [Gate!Next]_(Gate!vars)
<1>1. cache' \in {cache, None} /\ UNCHANGED <<req, flight>>
  BY DEF Write, EnrollCheck, EnrollInsert, BulkEnroll, Decide, DecideFetch, CancelCheck,
     CancelDelete, Invalidate, Abort
<1>2. Live' \subseteq Live \cup {Membership'} /\ Membership' \in Live'
  BY <1>1, LiveShrinks
<1>3. Membership' \in Answers
  BY NoneAssumption DEF Shape, Membership, Answers, Statuses, Row
<1> QED BY <1>1, <1>2, <1>3 DEF Gate!Next, Gate!Change, Told

\* The membership cache, with any number of loaders and with failures, tells its
\* callers only what AccessGate allows: a value once forgotten stays forgotten.
THEOREM CacheImplementsGate == Spec => GateSpec
<1>1. Init => Gate!Init BY GateInit
<1>2. Init => Shape /\ StaleOnlyByRace BY InitShape
<1>3. Shape /\ StaleOnlyByRace /\ [Next]_vars => Shape' /\ StaleOnlyByRace'
  BY StaleInvariance
<1>4. Shape /\ Shape' /\ [Next]_vars => [Gate!Next]_(Gate!vars)
  <2> SUFFICES ASSUME Shape, Shape', [Next]_vars PROVE [Gate!Next]_(Gate!vars)
    OBVIOUS
  <2>1. ASSUME NEW r \in Requests, Ask(r) PROVE [Gate!Next]_(Gate!vars)
    BY <2>1, AskGate
  <2>2. ASSUME NEW l \in Loaders, Fly(l) PROVE [Gate!Next]_(Gate!vars)
    BY <2>2, FlyGate
  <2>3. ASSUME NEW w \in Writers, Write(w) PROVE [Gate!Next]_(Gate!vars)
    BY <2>3, WriteGate
  <2>4. CASE Expire
    <3>1. Membership' = Membership /\ Told' = Told /\ Membership \in Live
      BY <2>4 DEF Expire, Membership, Told, Live
    <3>2. Live' \subseteq Live /\ Membership' \in Live'
      BY <2>4, <3>1, LiveShrinks DEF Expire
    <3> QED BY <3>1, <3>2, QuietStep
  <2>5. CASE UNCHANGED vars
    BY <2>5 DEF vars, Gate!vars, Membership, Live, Told
  <2> QED BY <2>1, <2>2, <2>3, <2>4, <2>5 DEF Next
<1> QED BY <1>1, <1>2, <1>3, <1>4, PTL DEF Spec, GateSpec, Gate!Spec

-----------------------------------------------------------------------------
(* The rest of TypeOK: ids that were given out, and who waits for whom.    *)

Ids ==
    /\ lastId <= RowBound
    /\ row # None => row.id \in 1..lastId
    /\ \A w \in Writers : writer[w].id <= RowBound

\* A flight answers exactly the requests that wait and use its loader.
Waits ==
    \A r \in Requests, l \in Loaders :
        r \in flight[l].waiters <=> req[r].pc = "wait" /\ LoaderOf[r] = l

LEMMA AskTypes ==
    ASSUME Shape, Ids, Waits, NEW r \in Requests, Ask(r)
    PROVE  Ids' /\ Waits'
<1>1. Ids'
  BY DEF Ids, Ask, AccessBegin, AccessGet, AccessJoin
<1> SUFFICES Waits'
  BY <1>1
<1>2. CASE AccessBegin(r)
  BY <1>2 DEF AccessBegin, Waits, Shape
<1>3. CASE AccessGet(r)
  BY <1>3 DEF AccessGet, Answered, Waits, Shape
<1>4. CASE AccessJoin(r)
  <2>1. /\ req' = [req EXCEPT ![r].pc = "wait"] /\ LoaderOf[r] \in Loaders
        /\ flight' = [flight EXCEPT ![LoaderOf[r]] =
                        [pc |-> IF @.pc = "none" THEN "recheck" ELSE @.pc,
                         val |-> @.val, waiters |-> @.waiters \cup {r}]]
    BY <1>4, CacheAssumption DEF AccessJoin
  <2>2. ASSUME NEW k \in Loaders
        PROVE  flight'[k].waiters = IF k = LoaderOf[r] THEN flight[k].waiters \cup {r}
                                    ELSE flight[k].waiters
    BY <2>1 DEF Shape
  <2>3. ASSUME NEW q \in Requests
        PROVE  req'[q].pc = IF q = r THEN "wait" ELSE req[q].pc
    BY <2>1 DEF Shape
  <2>4. req[r].pc = "join" BY <1>4 DEF AccessJoin
  <2> SUFFICES ASSUME NEW q \in Requests, NEW k \in Loaders
               PROVE  q \in flight'[k].waiters <=> req'[q].pc = "wait" /\ LoaderOf[q] = k
    BY DEF Waits
  <2>5. q \in flight[k].waiters <=> req[q].pc = "wait" /\ LoaderOf[q] = k BY DEF Waits
  <2>6. CASE q = r
    <3>1. q \notin flight[k].waiters BY <2>4, <2>5, <2>6
    <3> QED BY <2>2, <2>3, <2>6, <3>1
  <2>7. CASE q # r BY <2>2, <2>3, <2>5, <2>7
  <2> QED BY <2>6, <2>7
<1> QED BY <1>2, <1>3, <1>4 DEF Ask

LEMMA FlyTypes ==
    ASSUME Shape, Ids, Waits, NEW l \in Loaders, Fly(l)
    PROVE  Ids' /\ Waits'
<1>1. Ids'
  BY DEF Ids, Fly, FlightRecheck, FlightLoad, FlightSet, FlightFails
<1> SUFFICES Waits'
  BY <1>1
<1>2. ASSUME Land(l), \A q \in Requests : req'[q].pc = IF q \in flight[l].waiters
                                                      THEN "idle" ELSE req[q].pc
      PROVE  Waits'
  <2>1. \A k \in Loaders : flight'[k].waiters = IF k = l THEN {} ELSE flight[k].waiters
    BY <1>2 DEF Land, NoFlight, Shape
  <2> QED BY <1>2, <2>1 DEF Waits
<1>3. ASSUME NEW a, Answered(flight[l].waiters, a), Land(l) PROVE Waits'
  <2>1. \A q \in Requests : req'[q].pc = IF q \in flight[l].waiters
                                         THEN "idle" ELSE req[q].pc
    BY <1>3 DEF Answered
  <2> QED BY <1>2, <1>3, <2>1
<1>4. CASE UNCHANGED req /\ \A k \in Loaders : flight'[k].waiters = flight[k].waiters
  BY <1>4 DEF Waits
<1>5. CASE FlightRecheck(l)
  <2>1. CASE flight' = [flight EXCEPT ![l].pc = "load"] /\ UNCHANGED req
    BY <1>4, <2>1 DEF Shape
  <2> QED BY <1>3, <1>5, <2>1 DEF FlightRecheck
<1>6. CASE FlightLoad(l)
  <2>1. flight' = [flight EXCEPT ![l].pc = "set", ![l].val = Membership] /\ UNCHANGED req
    BY <1>6 DEF FlightLoad
  <2> QED BY <1>4, <2>1 DEF Shape
<1>7. CASE FlightSet(l)
  BY <1>3, <1>7 DEF FlightSet
<1>8. CASE FlightFails(l)
  <2>1. \A q \in Requests : req'[q].pc = IF q \in flight[l].waiters
                                         THEN "idle" ELSE req[q].pc
    BY <1>8 DEF FlightFails, Failed, Shape
  <2> QED BY <1>2, <1>8, <2>1 DEF FlightFails
<1> QED BY <1>5, <1>6, <1>7, <1>8 DEF Fly

LEMMA WriteTypes ==
    ASSUME Shape, Ids, Waits, NEW w \in Writers, Write(w)
    PROVE  Ids' /\ Waits'
<1>1. Waits'
  <2>1. UNCHANGED <<req, flight>>
    BY DEF Write, EnrollCheck, EnrollInsert, BulkEnroll, Decide, DecideFetch,
           CancelCheck, CancelDelete, Invalidate, Abort
  <2> QED BY <2>1 DEF Waits
<1> SUFFICES Ids'
  BY <1>1
<1>2. ASSUME NEW pc, NEW id \in Nat, id <= RowBound, Goto(w, pc, id)
      PROVE  \A v \in Writers : writer'[v].id <= RowBound
  BY <1>2 DEF Goto, Ids, Shape
<1>3. ASSUME Finish(w) PROVE \A v \in Writers : writer'[v].id <= RowBound
  BY <1>3, CacheAssumption DEF Finish, IdleWriter, Ids, Shape
<1>4. writer[w].id \in Nat /\ writer[w].id <= RowBound /\ lastId \in Nat /\ RowBound \in Nat
  BY CacheAssumption DEF Ids, Shape
<1>5. ASSUME Insert(w), lastId < RowBound PROVE Ids'
  <2>1. CASE row = None
    <3>1. row' = [id |-> lastId + 1, status |-> "ACCEPTED"] /\ lastId' = lastId + 1
      BY <1>5, <2>1 DEF Insert
    <3>2. \A v \in Writers : writer'[v].id <= RowBound
      BY <1>2, <1>4, <1>5, <2>1 DEF Insert
    <3> QED BY <1>4, <1>5, <3>1, <3>2 DEF Ids
  <2>2. CASE row # None
    BY <1>3, <1>5, <2>2 DEF Insert, Ids
  <2> QED BY <2>1, <2>2
<1>6. CASE EnrollCheck(w)
  BY <1>2, <1>4, <1>6 DEF EnrollCheck, Ids
<1>7. CASE EnrollInsert(w) \/ BulkEnroll(w)
  BY <1>5, <1>7 DEF EnrollInsert, BulkEnroll
<1>8. CASE Decide(w)
  <2>1. PICK id \in 1..lastId, st \in Statuses :
          HasRow(id) /\ row' = [row EXCEPT !.status = st] /\ Goto(w, "fetch", id)
    BY <1>8 DEF Decide
  <2>2. row' # None => row'.id = id BY <2>1, NoneAssumption DEF HasRow, Shape, Row
  <2>3. lastId' = lastId BY <1>8 DEF Decide
  <2>4. \A v \in Writers : writer'[v].id <= RowBound
    BY <1>2, <1>4, <2>1 DEF Ids
  <2> QED BY <2>1, <2>2, <2>3, <2>4 DEF Ids
<1>9. CASE DecideFetch(w)
  BY <1>2, <1>3, <1>4, <1>9 DEF DecideFetch, Ids
<1>10. CASE CancelCheck(w)
  <2>1. PICK id \in 1..lastId : Goto(w, "delete", id) BY <1>10 DEF CancelCheck
  <2>2. \A v \in Writers : writer'[v].id <= RowBound
    BY <1>2, <1>4, <2>1 DEF Ids
  <2> QED BY <1>10, <2>2 DEF CancelCheck, Ids
<1>11. CASE CancelDelete(w)
  BY <1>2, <1>3, <1>4, <1>11 DEF CancelDelete, Ids
<1>12. CASE Invalidate(w) \/ Abort(w)
  BY <1>3, <1>12 DEF Invalidate, Abort, Ids
<1> QED
  BY <1>6, <1>7, <1>8, <1>9, <1>10, <1>11, <1>12 DEF Write

\* For any number of callers, loaders and writers every row and entry is well
\* formed, no id exceeds those given out, and a request waits exactly while the
\* flight of its loader will answer it: no caller of GetOrLoad is forgotten.
THEOREM TypeCorrect == Spec => []TypeOK
<1> DEFINE Inv == Shape /\ StaleOnlyByRace /\ Ids /\ Waits
<1>1. Init => Inv
  <2> SUFFICES ASSUME Init PROVE Ids /\ Waits
    BY InitShape
  <2>1. Ids BY CacheAssumption DEF Init, Ids, IdleWriter
  <2>2. Waits BY DEF Init, Waits, NoFlight
  <2> QED BY <2>1, <2>2
<1>2. Inv /\ [Next]_vars => Inv'
  <2> SUFFICES ASSUME Inv, [Next]_vars PROVE Ids' /\ Waits'
    BY StaleInvariance
  <2>1. CASE Expire BY <2>1 DEF Expire, Ids, Waits
  <2>2. CASE UNCHANGED vars BY <2>2 DEF vars, Ids, Waits
  <2> QED BY <2>1, <2>2, AskTypes, FlyTypes, WriteTypes DEF Next
<1>3. Inv => TypeOK
  <2> SUFFICES ASSUME Inv PROVE TypeOK OBVIOUS
  <2>1. lastId \in 0..RowBound BY CacheAssumption DEF Shape, Ids
  <2>2. writer \in [Writers -> [pc : {"idle", "insert", "fetch", "delete", "invalidate"},
                                id : 0..RowBound]]
    <3>1. ASSUME NEW w \in Writers
          PROVE  writer[w] \in [pc : {"idle", "insert", "fetch", "delete", "invalidate"},
                                id : 0..RowBound]
      BY CacheAssumption DEF Shape, Ids
    <3> QED BY <3>1 DEF Shape
  <2>3. \A r \in Requests : req[r].pc = "wait" <=> r \in flight[LoaderOf[r]].waiters
    BY CacheAssumption DEF Waits
  <2> QED BY <2>1, <2>2, <2>3 DEF Shape, Ids, TypeOK
<1> HIDE DEF Inv
<1> QED BY <1>1, <1>2, <1>3, PTL DEF Spec
=============================================================================
