---------------------------- MODULE RoleSyncProofs ----------------------------
(***************************************************************************)
(* Proofs about RoleSync for any number of roles, edits, tries and         *)
(* failures.  What is being inserted belongs to a request that is counted  *)
(* as overlapping the last clear, and the last request's roles are there   *)
(* except those it has still to insert.                                    *)
(***************************************************************************)
EXTENDS RoleSync, TLAPS

\* A task that has not begun has asked for nothing; one that is about to send may.
Tasks ==
    \A t \in Task :
        /\ task[t].pc = "idle" => task[t].roles = {} /\ task[t].kind = "sync"
                                  /\ task[t].tries = 0
        /\ task[t].kind = "delete" => task[t].roles = {}
        /\ task[t].pc = "send" => task[t].tries < MaxTries
        /\ task[t].kind = "delete" /\ task[t].pc = "send" => task[t].tries = 0

\* Requests the task has not sent are not at the LMS.
Unsent ==
    \A t \in Task, n \in 1..MaxTries : n > task[t].tries => post[<<t, n>>].pc = "none"

\* What a request has still to insert are roles of its own.
Todo ==
    \A q \in Posts : /\ post[q].todo \subseteq Payload(q)
                     /\ post[q].pc # "add" => post[q].todo = {}

Cleared == {"add", "invalidate", "done"}

\* Whoever inserts has overlapped the last clear; those counted did clear.
Overlap ==
    /\ Inserting \subseteq mixed
    /\ \A q \in mixed : post[q].pc \in Cleared
    /\ last # None => last \in Posts /\ post[last].pc \in Cleared

\* The roles of the last request are there, but for those still to come.
LastIsComing ==
    last # None => (Payload(last) \ post[last].todo) \ excused \subseteq Present

Inv ==
    TypeOK /\ Tasks /\ Unsent /\ Todo /\ Overlap /\ LastIsComing /\ RolesFromOverlap

Pcs == {"idle", "send", "wait", "done", "gaveUp"}
PostPcs == {"none", "clear", "add", "invalidate", "done", "error"}
TaskType == [pc : Pcs, kind : {"sync", "delete"}, roles : SUBSET Role, tries : 0..MaxTries]

\* TypeOK in the words of these proofs.
LEMMA Types ==
    TypeOK <=> /\ auth \in (SUBSET Role) \cup {None}
               /\ task \in [Task -> TaskType]
               /\ post \in [Posts -> [pc : PostPcs, todo : SUBSET Role]]
               /\ rows \in [Role -> {"none", "sync", "manual"}]
               /\ admin \in 0..MaxAdmin /\ mishaps \in 0..MaxMishaps
               /\ last \in Posts \cup {None} /\ mixed \subseteq Posts /\ excused \subseteq Role
  BY DEF TypeOK, TaskType, Pcs, PostPcs

\* Two fields of a task change.
LEMMA TwoFields ==
    ASSUME task \in [Task -> TaskType], NEW t \in Task, NEW w \in TaskType,
           task'[t] = w, \A u \in Task : u # t => task'[u] = task[u],
           task' = [u \in Task |-> task'[u]]
    PROVE  task' \in [Task -> TaskType]
<1>1. \A u \in Task : task'[u] \in TaskType OBVIOUS
<1> QED BY <1>1

\* A step of the auth service keeps the types if its tasks are well formed.
LEMMA AuthTypes ==
    ASSUME TypeOK, auth' \in (SUBSET Role) \cup {None}, task' \in [Task -> TaskType],
           post' \in [Posts -> [pc : PostPcs, todo : SUBSET Role]],
           UNCHANGED <<rows, admin, history>>, mishaps' = mishaps \/ Mishap
    PROVE  TypeOK'
<1>1. mishaps' \in 0..MaxMishaps BY SyncAssumption DEF TypeOK, Mishap
<1>2. UNCHANGED <<rows, admin, last, mixed, excused>> BY DEF history
<1>3. task' \in [Task -> [pc : {"idle", "send", "wait", "done", "gaveUp"},
                          kind : {"sync", "delete"}, roles : SUBSET Role,
                          tries : 0..MaxTries]]
  BY DEF TaskType, Pcs
<1>4. post' \in [Posts -> [pc : {"none", "clear", "add", "invalidate", "done", "error"},
                           todo : SUBSET Role]]
  BY DEF PostPcs
<1> QED BY <1>1, <1>2, <1>3, <1>4 DEF TypeOK

\* The last sync is there when nothing is left to insert.
LEMMA LastArrives == Inv => LastSyncIsThere
  BY DEF Inv, LastSyncIsThere, LastIsComing, Todo, Overlap

\* A counted request is one that was sent, so its task has begun.
LEMMA Begun ==
    ASSUME Inv, NEW q \in Posts, post[q].pc # "none"
    PROVE  task[q[1]].pc # "idle"
<1>1. PICK t \in Task, n \in 1..MaxTries : q = <<t, n>> BY DEF Posts
<1>2. n <= task[t].tries
  <2>1. task[t].tries \in Nat BY DEF Inv, TypeOK
  <2> QED BY <1>1, <2>1 DEF Inv, Unsent
<1>3. task[t].tries # 0 BY <1>2
<1> QED BY <1>1, <1>3 DEF Inv, Tasks

LEMMA InitInv == Init => Inv
<1> SUFFICES ASSUME Init PROVE Inv OBVIOUS
<1>1. /\ \A t \in Task : task[t] = [pc |-> "idle", kind |-> "sync", roles |-> {}, tries |-> 0]
      /\ \A q \in Posts : post[q] = [pc |-> "none", todo |-> {}]
      /\ last = None /\ mixed = {} /\ Synced = {}
  BY DEF Init, Synced
<1>2. TypeOK BY SyncAssumption DEF Init, TypeOK
<1>3. Tasks BY <1>1, SyncAssumption DEF Tasks
<1>4. Unsent BY <1>1 DEF Unsent, Posts
<1>5. Todo BY <1>1 DEF Todo
<1>6. Overlap BY <1>1 DEF Overlap, Inserting
<1> QED BY <1>1, <1>2, <1>3, <1>4, <1>5, <1>6 DEF Inv, LastIsComing, RolesFromOverlap

\* A step of the auth service that keeps the payloads of the tasks that have
\* begun, and leaves what the LMS has begun alone, keeps the invariant.
LEMMA AuthFrame ==
    ASSUME Inv, TypeOK', Tasks', Unsent', UNCHANGED <<rows, history>>,
           \A q \in Posts : post[q].pc # "none" =>
                post'[q] = post[q] /\ task'[q[1]].roles = task[q[1]].roles,
           \A q \in Posts : post[q].pc = "none" =>
                post'[q].pc \in {"none", "clear"} /\ post'[q].todo = {}
    PROVE  Inv'
<1> USE DEF Inv
<1>0. UNCHANGED <<last, mixed, excused>> BY DEF history
<1>1. Todo' BY DEF Todo, Payload
<1>2. Inserting' = Inserting BY DEF Inserting
<1>3. mixed \subseteq Posts BY DEF TypeOK
<1>4. \A q \in mixed : post[q].pc # "none" /\ post'[q] = post[q] /\ Payload(q)' = Payload(q)
  BY <1>3 DEF Overlap, Cleared, Payload
<1>5. last # None => /\ last \in Posts /\ post[last].pc \in Cleared
                     /\ post'[last] = post[last] /\ Payload(last)' = Payload(last)
  BY <1>0 DEF Overlap, Cleared, Payload
<1>6. Overlap' BY <1>0, <1>2, <1>4, <1>5 DEF Overlap
<1>7. LastIsComing' BY <1>0, <1>5 DEF LastIsComing, Present
<1>8. RolesFromOverlap'
  <2>1. {Payload(q) : q \in mixed}' = {Payload(q) : q \in mixed} BY <1>0, <1>4
  <2> QED BY <2>1 DEF RolesFromOverlap, Synced
<1> QED BY <1>1, <1>6, <1>7, <1>8

\* The pushes of the auth service.
LEMMA AuthInv ==
    ASSUME Inv, \/ \E t \in Task : Edit(t) \/ DeleteUser(t) \/ Send(t) \/ Receive(t) \/ Timeout(t)
                \/ AuthCrash
    PROVE  Inv'
<1> USE DEF Inv, Mishap, Fine
<1>0. /\ \A q \in Posts : q[1] \in Task
      /\ task \in [Task -> TaskType] /\ auth \in (SUBSET Role) \cup {None}
      /\ post \in [Posts -> [pc : PostPcs, todo : SUBSET Role]]
  BY Types DEF Posts
<1>1. ASSUME NEW t \in Task, Edit(t) PROVE Inv'
  <2>1. PICK roles \in (SUBSET Role) \ {{}} :
          /\ task' = [task EXCEPT ![t].pc = "send", ![t].roles = roles]
          /\ \/ auth' = roles /\ Fine
             \/ Mishap /\ UNCHANGED auth
    BY <1>1 DEF Edit
  <2>2. /\ task[t].pc = "idle" /\ UNCHANGED <<post, rows, admin, history>>
    BY <1>1 DEF Edit
  <2>3. TypeOK'
    <3>1. auth' \in (SUBSET Role) \cup {None} /\ (mishaps' = mishaps \/ Mishap)
      BY <1>0, <2>1
    <3>2. task' \in [Task -> TaskType]
      <4> DEFINE w == [pc |-> "send", kind |-> task[t].kind, roles |-> roles,
                       tries |-> task[t].tries]
      <4>1. w \in TaskType BY <1>0 DEF TaskType, Pcs
      <4>2. task'[t] = w BY <1>0, <2>1 DEF TaskType
      <4>3. \A u \in Task : u # t => task'[u] = task[u] BY <1>0, <2>1
      <4>4. task' = [u \in Task |-> task'[u]] BY <1>0, <2>1
      <4> HIDE DEF w
      <4> QED BY <1>0, <4>1, <4>2, <4>3, <4>4, TwoFields
    <3> QED BY <1>0, <2>2, <3>1, <3>2, AuthTypes
  <2>4. Tasks' /\ Unsent' BY <2>1, <2>2, SyncAssumption DEF Tasks, Unsent, TypeOK
  <2>5. \A q \in Posts : post[q].pc # "none" => task'[q[1]].roles = task[q[1]].roles
    BY <1>0, <2>1, <2>2, Begun DEF TypeOK
  <2>6. \A q \in Posts : post[q].pc = "none" => post[q].todo = {} BY DEF Todo
  <2> QED BY <2>2, <2>3, <2>4, <2>5, <2>6, AuthFrame
<1>2. ASSUME NEW t \in Task, DeleteUser(t) PROVE Inv'
  <2>1. /\ task[t].pc = "idle" /\ UNCHANGED <<post, rows, admin, mishaps, history>>
        /\ task' = [task EXCEPT ![t].pc = "send", ![t].kind = "delete"] /\ auth' = None
    BY <1>2 DEF DeleteUser
  <2>2. TypeOK'
    <3>1. task' \in [Task -> TaskType]
      <4> DEFINE w == [pc |-> "send", kind |-> "delete", roles |-> task[t].roles,
                       tries |-> task[t].tries]
      <4>1. w \in TaskType BY <1>0 DEF TaskType, Pcs
      <4>2. task'[t] = w BY <1>0, <2>1 DEF TaskType
      <4>3. \A u \in Task : u # t => task'[u] = task[u] BY <1>0, <2>1
      <4>4. task' = [u \in Task |-> task'[u]] BY <1>0, <2>1
      <4> HIDE DEF w
      <4> QED BY <1>0, <4>1, <4>2, <4>3, <4>4, TwoFields
    <3>2. auth' \in (SUBSET Role) \cup {None} BY <2>1
    <3> QED BY <1>0, <2>1, <3>1, <3>2, AuthTypes
  <2>3. Tasks' /\ Unsent' BY <2>1, SyncAssumption DEF Tasks, Unsent, TypeOK
  <2>4. \A q \in Posts : task'[q[1]].roles = task[q[1]].roles BY <1>0, <2>1 DEF TypeOK
  <2>5. \A q \in Posts : post[q].pc = "none" => post[q].todo = {} BY DEF Todo
  <2> QED BY <2>1, <2>2, <2>3, <2>4, <2>5, AuthFrame
<1>3. ASSUME NEW t \in Task, Send(t) PROVE Inv'
  <2> DEFINE n == task[t].tries + 1
  <2>1. /\ task[t].pc = "send" /\ UNCHANGED <<auth, rows, admin, history>>
    BY <1>3 DEF Send
  <2>2. /\ n \in 1..MaxTries /\ <<t, n>> \in Posts /\ post[<<t, n>>].pc = "none"
        /\ task[t].kind = "sync" \/ (task[t].kind = "delete" /\ n = 1)
    <3>1. task[t] \in TaskType BY <1>0
    <3>2. n \in 1..MaxTries BY <2>1, <3>1, SyncAssumption DEF Tasks, TaskType
    <3>3. post[<<t, n>>].pc = "none" BY <3>1, <3>2 DEF Unsent, TaskType
    <3>4. task[t].kind = "sync" \/ (task[t].kind = "delete" /\ n = 1)
      BY <2>1, <3>1 DEF Tasks, TaskType
    <3> QED BY <3>2, <3>3, <3>4 DEF Posts
  <2>3. CASE /\ task' = [task EXCEPT ![t].pc = "wait", ![t].tries = n]
             /\ post' = [post EXCEPT ![<<t, n>>].pc = "clear"] /\ Fine
    <3>1. TypeOK' BY <2>1, <2>2, <2>3 DEF TypeOK, history
    <3>2. Tasks' BY <2>1, <2>2, <2>3 DEF Tasks, TypeOK
    <3>3. Unsent'
      <4> SUFFICES ASSUME NEW u \in Task, NEW m \in 1..MaxTries, m > task'[u].tries
                   PROVE  post'[<<u, m>>].pc = "none"
        BY DEF Unsent
      <4>1. <<u, m>> # <<t, n>>
        BY <2>2, <2>3 DEF TypeOK
      <4>2. m > task[u].tries BY <2>3 DEF TypeOK
      <4>3. <<u, m>> \in Posts BY DEF Posts
      <4> QED BY <2>3, <4>1, <4>2, <4>3 DEF Unsent, TypeOK
    <3>4. \A q \in Posts : task'[q[1]].roles = task[q[1]].roles BY <1>0, <2>3 DEF TypeOK
    <3>5. \A q \in Posts : post[q].pc # "none" => post'[q] = post[q] BY <2>2, <2>3 DEF TypeOK
    <3>6. \A q \in Posts : post[q].pc = "none" =>
             post'[q].pc \in {"none", "clear"} /\ post'[q].todo = {}
      BY <2>2, <2>3 DEF TypeOK, Todo
    <3> QED BY <2>1, <3>1, <3>2, <3>3, <3>4, <3>5, <3>6, AuthFrame
  <2>4. CASE /\ Mishap /\ UNCHANGED post
             /\ task' = [task EXCEPT ![t].tries = n, ![t].pc = AfterFailure(t, n)]
    <3>1. /\ AfterFailure(t, n) \in {"send", "gaveUp"}
          /\ AfterFailure(t, n) = "send" => n < MaxTries /\ task[t].kind = "sync"
      BY DEF AfterFailure
    <3>2. TypeOK'
      <4>1. task' \in [Task -> TaskType]
        <5> DEFINE w == [pc |-> AfterFailure(t, n), kind |-> task[t].kind,
                         roles |-> task[t].roles, tries |-> n]
        <5>1. w \in TaskType BY <1>0, <2>2, <3>1, SyncAssumption DEF TaskType, Pcs
        <5>2. task'[t] = w BY <1>0, <2>4 DEF TaskType
        <5>3. \A u \in Task : u # t => task'[u] = task[u] BY <1>0, <2>4
        <5>4. task' = [u \in Task |-> task'[u]] BY <1>0, <2>4
        <5> HIDE DEF w
        <5> QED BY <1>0, <5>1, <5>2, <5>3, <5>4, TwoFields
      <4> QED BY <1>0, <2>1, <2>4, <4>1, AuthTypes
    <3>3. Tasks' BY <2>1, <2>2, <2>4, <3>1 DEF Tasks, TypeOK
    <3>4. Unsent' BY <2>2, <2>4 DEF Unsent, TypeOK
    <3>5. \A q \in Posts : task'[q[1]].roles = task[q[1]].roles BY <1>0, <2>4 DEF TypeOK
    <3>6. \A q \in Posts : post[q].pc = "none" => post[q].todo = {} BY DEF Todo
    <3> QED BY <2>1, <2>4, <3>2, <3>3, <3>4, <3>5, <3>6, AuthFrame
  <2> QED BY <1>3, <2>3, <2>4 DEF Send
<1>4. ASSUME NEW t \in Task, Receive(t) \/ Timeout(t) PROVE Inv'
  <2>1. /\ task[t].pc = "wait" /\ UNCHANGED <<auth, post, rows, admin, history>>
        /\ mishaps' = mishaps \/ Mishap
        /\ \E pc \in {"done", AfterFailure(t, task[t].tries)} : task' = [task EXCEPT ![t].pc = pc]
    BY <1>4 DEF Receive, Timeout
  <2>2. PICK pc \in {"done", AfterFailure(t, task[t].tries)} : task' = [task EXCEPT ![t].pc = pc]
    BY <2>1
  <2>3. /\ pc \in {"done", "send", "gaveUp"}
        /\ pc = "send" => task[t].tries < MaxTries /\ task[t].kind = "sync"
    BY DEF AfterFailure
  <2>4. TypeOK' BY <2>1, <2>2, <2>3, SyncAssumption DEF TypeOK, history
  <2>5. Tasks' BY <2>1, <2>2, <2>3 DEF Tasks, TypeOK
  <2>6. Unsent' BY <2>1, <2>2 DEF Unsent, TypeOK
  <2>7. \A q \in Posts : task'[q[1]].roles = task[q[1]].roles BY <1>0, <2>2 DEF TypeOK
  <2>8. \A q \in Posts : post[q].pc = "none" => post[q].todo = {} BY DEF Todo
  <2> QED BY <2>1, <2>4, <2>5, <2>6, <2>7, <2>8, AuthFrame
<1>5. ASSUME AuthCrash PROVE Inv'
  <2>1. /\ UNCHANGED <<auth, post, rows, admin, history>> /\ Mishap
        /\ task' = [t \in Task |-> IF task[t].pc \in {"send", "wait"}
                                   THEN [task[t] EXCEPT !.pc = "gaveUp"] ELSE task[t]]
    BY <1>5 DEF AuthCrash
  <2>2. TypeOK' BY <2>1, SyncAssumption DEF TypeOK, history
  <2>3. Tasks' BY <2>1 DEF Tasks, TypeOK
  <2>4. Unsent' BY <2>1 DEF Unsent, TypeOK
  <2>5. \A q \in Posts : task'[q[1]].roles = task[q[1]].roles BY <1>0, <2>1 DEF TypeOK
  <2>6. \A q \in Posts : post[q].pc = "none" => post[q].todo = {} BY DEF Todo
  <2> QED BY <2>1, <2>2, <2>3, <2>4, <2>5, <2>6, AuthFrame
<1> QED BY <1>1, <1>2, <1>3, <1>4, <1>5

\* A clear starts the count anew: nothing synced is left, and the roles to come
\* are all its own or of those that are inserting.
LEMMA ClearInv ==
    ASSUME Inv, NEW q \in Posts, Clear(q) \/ ClearUser(q)
    PROVE  Inv'
<1> USE DEF Inv, Mishap, Fine
<1>0. /\ post[q].pc = "clear" /\ UNCHANGED <<auth, task, admin>>
      /\ mishaps' = mishaps \/ Mishap
  BY DEF Clear, ClearUser
<1>p. post[q] \in [pc : PostPcs, todo : SUBSET Role] BY Types
<1>1. mishaps' \in 0..MaxMishaps BY <1>0, SyncAssumption DEF TypeOK
<1>2. \A p : Payload(p)' = Payload(p) BY <1>0 DEF Payload
<1>3. Payload(q) \subseteq Role /\ (Kind(q) = "delete" => Payload(q) = {})
  BY DEF Payload, Kind, Posts, TypeOK, Tasks
<1>4. Tasks' BY <1>0 DEF Tasks
<1>5. ASSUME NEW pc \in {"add", "invalidate", "error"}, NEW todo \in SUBSET Payload(q),
             pc # "add" => todo = {},
             post' = [post EXCEPT ![q] = [pc |-> pc, todo |-> todo]]
      PROVE  Unsent' /\ Todo' /\ post' \in [Posts -> [pc : PostPcs, todo : SUBSET Role]]
  <2>1. post' \in [Posts -> [pc : PostPcs, todo : SUBSET Role]]
    BY <1>3, <1>5 DEF TypeOK, PostPcs
  <2>2. Todo' BY <1>2, <1>5 DEF Todo, TypeOK
  <2>3. Unsent' BY <1>0, <1>5 DEF Unsent, TypeOK, Posts
  <2> QED BY <2>1, <2>2, <2>3
<1>6. CASE \E pc \in {"add", "invalidate"}, todo \in {Payload(q), {}} :
             /\ Payload(q) \subseteq todo /\ (pc # "add" => todo = {})
             /\ post' = [post EXCEPT ![q] = [pc |-> pc, todo |-> todo]]
             /\ rows' \in [Role -> {"none", "manual"}]
             /\ last' = q /\ mixed' = {q} \cup Inserting /\ excused' = {}
  <2>1. PICK pc \in {"add", "invalidate"}, todo \in {Payload(q), {}} :
             /\ Payload(q) \subseteq todo /\ (pc # "add" => todo = {})
             /\ post' = [post EXCEPT ![q] = [pc |-> pc, todo |-> todo]]
             /\ rows' \in [Role -> {"none", "manual"}]
             /\ last' = q /\ mixed' = {q} \cup Inserting /\ excused' = {}
    BY <1>6
  <2>2. post'[q] = [pc |-> pc, todo |-> todo] /\ \A p \in Posts : p # q => post'[p] = post[p]
    BY <2>1 DEF TypeOK
  <2>3. Unsent' /\ Todo' /\ post' \in [Posts -> [pc : PostPcs, todo : SUBSET Role]]
    BY <1>5, <2>1
  <2>4. TypeOK' BY <1>0, <1>1, <2>1, <2>3 DEF TypeOK, Inserting, PostPcs
  <2>5. Overlap' BY <2>1, <2>2 DEF Overlap, Inserting, Cleared
  <2>6. LastIsComing' BY <1>2, <2>1, <2>2 DEF LastIsComing
  <2>7. Synced' = {} BY <2>1 DEF Synced
  <2>8. RolesFromOverlap' BY <2>7 DEF RolesFromOverlap
  <2> QED BY <1>4, <2>3, <2>4, <2>5, <2>6, <2>8
<1>7. CASE post' = [post EXCEPT ![q].pc = "error"] /\ UNCHANGED <<rows, history>>
  <2>1. post[q].todo = {} BY <1>0 DEF Todo
  <2>2. post' = [post EXCEPT ![q] = [pc |-> "error", todo |-> {}]]
    <3>1. [post[q] EXCEPT !.pc = "error"] = [pc |-> "error", todo |-> {}]
      BY <2>1, <1>p
    <3>2. post' = [post EXCEPT ![q] = [post[q] EXCEPT !.pc = "error"]] BY <1>7
    <3> QED BY <3>1, <3>2
  <2>3. Unsent' /\ Todo' /\ post' \in [Posts -> [pc : PostPcs, todo : SUBSET Role]]
    <3>1. {} \in SUBSET Payload(q) OBVIOUS
    <3> QED BY <1>5, <2>2, <3>1
  <2>4. UNCHANGED <<last, mixed, excused, rows>> BY <1>7 DEF history
  <2>5. TypeOK'
    <3>1. UNCHANGED <<auth, task, admin, rows, last, mixed, excused>> BY <1>0, <2>4
    <3>2. post' \in [Posts -> [pc : {"none", "clear", "add", "invalidate", "done", "error"},
                               todo : SUBSET Role]]
      BY <2>3 DEF PostPcs
    <3> QED BY <1>1, <3>1, <3>2 DEF TypeOK
  <2>6. q \notin mixed /\ q # last BY <1>0, SyncAssumption DEF Overlap, Cleared, Posts
  <2>7. \A p \in Posts : p # q => post'[p] = post[p] BY <2>2
  <2>8. Inserting' = Inserting BY <1>0, <2>2, <2>7 DEF Inserting, TypeOK
  <2>9. Overlap'
    BY <2>4, <2>6, <2>7, <2>8 DEF Overlap, TypeOK
  <2>10. LastIsComing'
    BY <1>2, <2>4, <2>6, <2>7 DEF LastIsComing, Present, Overlap
  <2>11. RolesFromOverlap'
    <3>1. {Payload(p) : p \in mixed}' = {Payload(p) : p \in mixed} BY <1>2, <2>4
    <3> QED BY <2>4, <3>1 DEF RolesFromOverlap, Synced
  <2> QED BY <1>4, <2>3, <2>5, <2>9, <2>10, <2>11
<1>8. CASE Clear(q)
  <2>1. CASE /\ rows' = [r \in Role |-> IF rows[r] = "sync" THEN "none" ELSE rows[r]]
             /\ post' = [post EXCEPT ![q] = [pc |-> "add", todo |-> Payload(q)]]
             /\ last' = q /\ mixed' = {q} \cup Inserting /\ excused' = {}
    <3>1. rows' \in [Role -> {"none", "manual"}] BY <2>1 DEF TypeOK
    <3> QED BY <1>6, <2>1, <3>1
  <2> QED BY <1>7, <1>8, <2>1 DEF Clear
<1>9. CASE ClearUser(q)
  <2>1. CASE /\ rows' = [r \in Role |-> "none"]
             /\ post' = [post EXCEPT ![q].pc = "invalidate"]
             /\ last' = q /\ mixed' = {q} \cup Inserting /\ excused' = {}
    <3>1. rows' \in [Role -> {"none", "manual"}] BY <2>1
    <3>2. Payload(q) = {} BY <1>3, <1>9 DEF ClearUser
    <3>3. post[q].todo = {} BY <1>0 DEF Todo
    <3>4. post' = [post EXCEPT ![q] = [pc |-> "invalidate", todo |-> {}]]
      <4>1. [post[q] EXCEPT !.pc = "invalidate"] = [pc |-> "invalidate", todo |-> {}]
        BY <3>3, <1>p
      <4>2. post' = [post EXCEPT ![q] = [post[q] EXCEPT !.pc = "invalidate"]] BY <2>1
      <4> QED BY <4>1, <4>2
    <3> QED BY <1>6, <2>1, <3>1, <3>2, <3>4
  <2> QED BY <1>7, <1>9, <2>1 DEF ClearUser
<1> QED BY <1>8, <1>9

\* Insertions and the end of a request.
LEMMA AddInv ==
    ASSUME Inv, NEW q \in Posts, Add(q) \/ Added(q) \/ Invalidate(q)
    PROVE  Inv'
<1> USE DEF Inv, Mishap, Fine
<1>0. /\ post[q].pc \in {"add", "invalidate"}
      /\ UNCHANGED <<auth, task, admin, last, mixed>>
      /\ mishaps' = mishaps \/ Mishap
  BY DEF Add, Added, Invalidate, history
<1>1. mishaps' \in 0..MaxMishaps BY <1>0, SyncAssumption DEF TypeOK
<1>2. \A p : Payload(p)' = Payload(p) BY <1>0 DEF Payload
<1>3. Tasks' BY <1>0 DEF Tasks
<1>4. {Payload(p) : p \in mixed}' = {Payload(p) : p \in mixed} BY <1>0, <1>2
<1>5. CASE Add(q)
  <2>1. PICK r \in post[q].todo :
          /\ post' = [post EXCEPT ![q].todo = @ \ {r}]
          /\ \/ /\ rows' = [rows EXCEPT ![r] = IF @ = "none" THEN "sync" ELSE @]
                /\ UNCHANGED excused
             \/ /\ excused' = excused \cup {r}
                /\ UNCHANGED rows
    BY <1>5 DEF Add
  <2>2. post[q].pc = "add" BY <1>5 DEF Add
  <2>3. q \in mixed /\ r \in Payload(q) /\ r \in Role
    BY <2>2 DEF Overlap, Inserting, Todo, TypeOK
  <2>4. /\ post'[q].pc = "add" /\ post'[q].todo = post[q].todo \ {r}
        /\ \A p \in Posts : /\ p # q => post'[p] = post[p]
                            /\ post'[p].pc = post[p].pc
    <3>1. post[q] \in [pc : PostPcs, todo : SUBSET Role] BY DEF TypeOK, PostPcs
    <3>2. post' = [post EXCEPT ![q] = [post[q] EXCEPT !.todo = post[q].todo \ {r}]]
      BY <2>1
    <3>3. post'[q] = [post[q] EXCEPT !.todo = post[q].todo \ {r}]
      BY <3>2 DEF TypeOK
    <3>4. \A p \in Posts : p # q => post'[p] = post[p] BY <3>2 DEF TypeOK
    <3> QED BY <2>2, <3>1, <3>3, <3>4
  <2>5. TypeOK' BY <1>0, <1>1, <2>1, <2>3 DEF TypeOK
  <2>6. Todo' BY <1>2, <2>2, <2>4 DEF Todo
  <2>7. Unsent' BY <1>0, <2>4 DEF Unsent, Posts
  <2>8. Inserting' = Inserting BY <2>4 DEF Inserting
  <2>9. Overlap' BY <1>0, <2>4, <2>8 DEF Overlap, TypeOK
  <2>10. LastIsComing'
    <3>1. \A s \in Present : s \in Present' BY <2>1 DEF Present, TypeOK
    <3>2. r \in Present' \/ r \in excused' BY <2>1, <2>3 DEF Present, TypeOK
    <3>3. excused \subseteq excused' BY <2>1
    <3> QED BY <1>0, <1>2, <2>4, <3>1, <3>2, <3>3 DEF LastIsComing, Overlap
  <2>11. RolesFromOverlap'
    <3>1. Synced' \subseteq Synced \cup {r} BY <2>1, <2>3 DEF Synced, TypeOK
    <3>2. r \in UNION {Payload(p) : p \in mixed} BY <2>3
    <3> QED BY <1>4, <3>1, <3>2 DEF RolesFromOverlap
  <2> QED BY <1>3, <2>5, <2>6, <2>7, <2>9, <2>10, <2>11
<1>6. CASE Added(q) \/ Invalidate(q)
  <2>1. PICK pc \in {"invalidate", "done"} : post' = [post EXCEPT ![q].pc = pc]
    BY <1>6 DEF Added, Invalidate
  <2>2. UNCHANGED <<rows, excused>> /\ post[q].todo = {}
    BY <1>6 DEF Added, Invalidate, history, Todo
  <2>3. post'[q].pc = pc /\ post'[q].todo = {} /\ \A p \in Posts : p # q => post'[p] = post[p]
    BY <2>1, <2>2 DEF TypeOK
  <2>4. TypeOK' BY <1>0, <1>1, <2>1, <2>2 DEF TypeOK
  <2>5. Todo' BY <1>2, <2>3 DEF Todo
  <2>6. Unsent' BY <1>0, <2>3 DEF Unsent, Posts
  <2>7. Inserting' \subseteq Inserting BY <2>3 DEF Inserting
  <2>8. Overlap' BY <1>0, <2>3, <2>7 DEF Overlap, Cleared, TypeOK
  <2>9. LastIsComing'
    BY <1>0, <1>2, <2>2, <2>3 DEF LastIsComing, Present, Overlap
  <2>10. RolesFromOverlap' BY <1>4, <2>2 DEF RolesFromOverlap, Synced
  <2> QED BY <1>3, <2>4, <2>5, <2>6, <2>8, <2>9, <2>10
<1> QED BY <1>5, <1>6

\* The administrator adds manual rows only, and what it takes away is excused.
LEMMA AdminInv ==
    ASSUME Inv, NEW r \in Role, Assign(r) \/ RemoveRole(r)
    PROVE  Inv'
<1> USE DEF Inv
<1>0. UNCHANGED <<auth, task, post, mishaps, last, mixed>> /\ admin < MaxAdmin /\ admin' = admin + 1
  BY DEF Assign, RemoveRole, history
<1>1. \A p : Payload(p)' = Payload(p) BY <1>0 DEF Payload
<1>2. {Payload(p) : p \in mixed}' = {Payload(p) : p \in mixed} BY <1>0, <1>1
<1>3. /\ rows' \in [Role -> {"none", "sync", "manual"}]
      /\ Synced' \subseteq Synced /\ excused \subseteq excused' /\ excused' \subseteq Role
      /\ Present \ excused' \subseteq Present'
  <2>1. CASE Assign(r) BY <2>1 DEF Assign, history, TypeOK, Synced, Present
  <2>2. CASE RemoveRole(r) BY <2>2 DEF RemoveRole, TypeOK, Synced, Present
  <2> QED BY <2>1, <2>2
<1>4. TypeOK' BY <1>0, <1>3, SyncAssumption DEF TypeOK
<1>5. Tasks' /\ Unsent' /\ Todo' BY <1>0, <1>1 DEF Tasks, Unsent, Todo
<1>6. Overlap' BY <1>0 DEF Overlap, Inserting
<1>7. LastIsComing' BY <1>0, <1>1, <1>3 DEF LastIsComing
<1>8. RolesFromOverlap' BY <1>2, <1>3 DEF RolesFromOverlap
<1> QED BY <1>4, <1>5, <1>6, <1>7, <1>8

\* Every step keeps the invariant.
LEMMA NextInv == Inv /\ [Next]_vars => Inv'
<1> SUFFICES ASSUME Inv, [Next]_vars PROVE Inv' OBVIOUS
<1>1. CASE Next
  <2>1. CASE \E q \in Posts : Serve(q) BY <2>1, ClearInv, AddInv DEF Serve
  <2>2. CASE \E r \in Role : Assign(r) \/ RemoveRole(r) BY <2>2, AdminInv
  <2> QED BY <1>1, <2>1, <2>2, AuthInv DEF Next
<1>2. CASE UNCHANGED vars
  <2>1. UNCHANGED <<auth, task, post, rows, admin, mishaps, last, mixed, excused>>
    BY <1>2 DEF vars, history
  <2>2. \A p : Payload(p)' = Payload(p) BY <2>1 DEF Payload
  <2>3. {Payload(p) : p \in mixed}' = {Payload(p) : p \in mixed} BY <2>1, <2>2
  <2>4. TypeOK' BY <2>1 DEF Inv, TypeOK
  <2>5. Tasks' /\ Unsent' /\ Todo' BY <2>1, <2>2 DEF Inv, Tasks, Unsent, Todo
  <2>6. Overlap' BY <2>1 DEF Inv, Overlap, Inserting
  <2>7. LastIsComing' BY <2>1, <2>2 DEF Inv, LastIsComing, Present
  <2>8. RolesFromOverlap' BY <2>1, <2>3 DEF Inv, RolesFromOverlap, Synced
  <2> QED BY <2>4, <2>5, <2>6, <2>7, <2>8 DEF Inv
<1> QED BY <1>1, <1>2

LEMMA InvHolds == Spec => []Inv
  BY InitInv, NextInv, PTL DEF Spec

\* The pushes and the rows keep their shapes; no push is sent once too often.
THEOREM TypeCorrect == Spec => []TypeOK
<1>1. Inv => TypeOK BY DEF Inv
<1> QED BY InvHolds, <1>1, PTL

\* However many pushes overlap, are repeated or come late, the synced roles are
\* those of the request that cleared last and of the ones it interrupted.
THEOREM RolesExplained == Spec => []RolesFromOverlap
<1>1. Inv => RolesFromOverlap BY DEF Inv
<1> QED BY InvHolds, <1>1, PTL

\* A push that is done, and that nobody cleared after, has left all its roles.
THEOREM LastPushArrives == Spec => []LastSyncIsThere
  BY InvHolds, LastArrives, PTL

\* No sync takes a manual role away.
THEOREM ManualIsKept == Spec => ManualSurvivesSync
<1> DEFINE Kept == \A r \in Role : rows[r] = "manual" /\ rows'[r] # "manual" =>
                      RemoveRole(r) \/ \E q \in Posts : ClearUser(q)
<1>1. Inv /\ Next => Kept
  <2> SUFFICES ASSUME Inv, Next, NEW r \in Role, rows[r] = "manual", rows'[r] # "manual",
                      ~\E q \in Posts : ClearUser(q)
               PROVE  RemoveRole(r)
    OBVIOUS
  <2>0. rows \in [Role -> {"none", "sync", "manual"}] BY DEF Inv, TypeOK
  <2>1. ASSUME NEW q \in Posts, Clear(q) PROVE FALSE
    BY <2>0, <2>1 DEF Clear
  <2>2. ASSUME NEW q \in Posts, Add(q) PROVE FALSE
    BY <2>0, <2>2 DEF Add
  <2>3. ASSUME NEW s \in Role, Assign(s) PROVE FALSE
    BY <2>0, <2>3 DEF Assign
  <2>4. ASSUME NEW s \in Role, RemoveRole(s) PROVE s = r
    BY <2>0, <2>4 DEF RemoveRole
  <2>5. rows' # rows OBVIOUS
  <2> QED
    BY <2>1, <2>2, <2>3, <2>4, <2>5
    DEF Next, Serve, Edit, DeleteUser, Send, Receive, Timeout, AuthCrash, Added, Invalidate
<1>2. UNCHANGED vars => Kept BY DEF vars
<1>3. Inv /\ [Next]_vars => [Kept]_vars BY <1>1, <1>2
<1> QED BY InvHolds, <1>3, PTL DEF Spec, ManualSurvivesSync
=============================================================================
