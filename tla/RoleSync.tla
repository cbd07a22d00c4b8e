------------------------------ MODULE RoleSync ------------------------------
(***************************************************************************)
(* The LMS roles of one user: the auth service's asynchronous pushes       *)
(* (UserSyncService.java) and what the LMS does with them                  *)
(* (UserSyncService, RoleAdminService, UserRepository).                    *)
(*                                                                         *)
(* Every edit of the user in the auth service submits a task that posts    *)
(* the roles of that moment, tries again up to MaxTries times and gives    *)
(* up.  Nothing orders the tasks of one user, and a post that timed out    *)
(* may still be at work in the LMS.  The LMS replaces the 'sync' rows by   *)
(* separate statements: a DELETE, one INSERT per role, and the deletion of *)
(* the cached answer.                                                      *)
(***************************************************************************)
EXTENDS Naturals, FiniteSets

CONSTANTS
    Role,
    Task,        \* edits of the user in the auth service
    MaxTries,    \* UserSyncService.MAX_RETRIES
    MaxMishaps,  \* bound on failures
    MaxAdmin,    \* bound on role assignments and removals in the LMS
    None

ASSUME SyncAssumption ==
    /\ MaxTries \in Nat \ {0} /\ {MaxMishaps, MaxAdmin} \subseteq Nat
    /\ None \notin Task \X (1..MaxTries)

VARIABLES
    auth,     \* the user's roles in the auth service, None once deleted
    task,     \* [Task -> where the asynchronous push is]
    post,     \* [Task \X 1..MaxTries -> where the LMS is with that request]
    rows,     \* user_roles: [Role -> "none", "sync" or "manual"]
    admin,    \* calls of RoleAdminService so far
    mishaps,
    last,     \* history: the request whose DELETE came last
    mixed,    \* history: that one and those that were inserting at the time
    excused   \* history: roles since lost to a failed INSERT or to an administrator

history == <<last, mixed, excused>>
vars == <<auth, task, post, rows, admin, mishaps, history>>

Posts == Task \X (1..MaxTries)
Present == {r \in Role : rows[r] # "none"}
Synced == {r \in Role : rows[r] = "sync"}
Payload(q) == task[q[1]].roles
Kind(q) == task[q[1]].kind

Mishap == mishaps < MaxMishaps /\ mishaps' = mishaps + 1
Fine == UNCHANGED mishaps

Init ==
    /\ auth = {}
    /\ task = [t \in Task |-> [pc |-> "idle", kind |-> "sync", roles |-> {}, tries |-> 0]]
    /\ post = [q \in Posts |-> [pc |-> "none", todo |-> {}]]
    /\ rows = [r \in Role |-> "none"]
    /\ admin = 0
    /\ mishaps = 0
    /\ last = None /\ mixed = {} /\ excused = {}
-----------------------------------------------------------------------------
(* The auth service.                                                         *)

\* updateRole saves the user and hands the push to the executor inside the
\* transaction: a transaction that rolls back has pushed all the same.
Edit(t) ==
    /\ task[t].pc = "idle" /\ auth # None
    /\ \E roles \in (SUBSET Role) \ {{}} :
         /\ task' = [task EXCEPT ![t].pc = "send", ![t].roles = roles]
         /\ \/ auth' = roles /\ Fine
            \/ Mishap /\ UNCHANGED auth
    /\ UNCHANGED <<post, rows, admin, history>>

\* deleteUser, pushed once and never again.
DeleteUser(t) ==
    /\ task[t].pc = "idle" /\ auth # None
    /\ auth' = None
    /\ task' = [task EXCEPT ![t].pc = "send", ![t].kind = "delete"]
    /\ UNCHANGED <<post, rows, admin, mishaps, history>>

\* Mutant: the loop runs once too often.
AfterFailure_OneMore(t, tries) ==
    IF task[t].kind = "sync" /\ tries <= MaxTries THEN "send" ELSE "gaveUp"

\* withRetry: after a failure the task sends again or gives up.
AfterFailure(t, tries) ==
    IF task[t].kind = "sync" /\ tries < MaxTries THEN "send" ELSE "gaveUp"

\* The request reaches the LMS; an unreachable LMS costs a try.
Send(t) ==
    /\ task[t].pc = "send"
    /\ LET n == task[t].tries + 1
       IN \/ /\ task' = [task EXCEPT ![t].pc = "wait", ![t].tries = n]
             /\ post' = [post EXCEPT ![<<t, n>>].pc = "clear"]
             /\ Fine
          \/ /\ Mishap
             /\ task' = [task EXCEPT ![t].tries = n, ![t].pc = AfterFailure(t, n)]
             /\ UNCHANGED post
    /\ UNCHANGED <<auth, rows, admin, history>>

\* The answer arrives.
Receive(t) ==
    /\ task[t].pc = "wait"
    /\ LET q == <<t, task[t].tries>>
       IN \/ post[q].pc = "done" /\ task' = [task EXCEPT ![t].pc = "done"]
          \/ post[q].pc = "error" /\ task' = [task EXCEPT ![t].pc = AfterFailure(t, task[t].tries)]
    /\ UNCHANGED <<auth, post, rows, admin, mishaps, history>>

\* No answer within the read timeout; the LMS goes on with the request.
Timeout(t) ==
    /\ task[t].pc = "wait"
    /\ Mishap
    /\ task' = [task EXCEPT ![t].pc = AfterFailure(t, task[t].tries)]
    /\ UNCHANGED <<auth, post, rows, admin, history>>

\* The tasks are in memory only.
AuthCrash ==
    /\ Mishap
    /\ \E t \in Task : task[t].pc \in {"send", "wait"}
    /\ task' = [t \in Task |-> IF task[t].pc \in {"send", "wait"}
                               THEN [task[t] EXCEPT !.pc = "gaveUp"] ELSE task[t]]
    /\ UNCHANGED <<auth, post, rows, admin, history>>
-----------------------------------------------------------------------------
(* The LMS, for one request.                                                 *)

Inserting == {q \in Posts : post[q].pc = "add"}

\* Mutant: manual assignments go with the synced ones.
Clear_All(q) ==
    /\ post[q].pc = "clear" /\ Kind(q) = "sync"
    /\ rows' = [r \in Role |-> "none"]
    /\ post' = [post EXCEPT ![q] = [pc |-> "add", todo |-> Payload(q)]]
    /\ last' = q /\ mixed' = {q} \cup Inserting /\ excused' = {}
    /\ Fine
    /\ UNCHANGED <<auth, task, admin>>

\* Mutant: the old rows stay, the new ones are added.
Clear_None(q) ==
    /\ post[q].pc = "clear" /\ Kind(q) = "sync"
    /\ post' = [post EXCEPT ![q] = [pc |-> "add", todo |-> Payload(q)]]
    /\ last' = q /\ mixed' = {q} \cup Inserting /\ excused' = {}
    /\ Fine
    /\ UNCHANGED <<auth, task, rows, admin>>

\* GetOrCreateUser and ClearSyncedRoles: an error is answered with 500.
Clear(q) ==
    /\ post[q].pc = "clear" /\ Kind(q) = "sync"
    /\ \/ /\ rows' = [r \in Role |-> IF rows[r] = "sync" THEN "none" ELSE rows[r]]
          /\ post' = [post EXCEPT ![q] = [pc |-> "add", todo |-> Payload(q)]]
          /\ last' = q /\ mixed' = {q} \cup Inserting /\ excused' = {}
          /\ Fine
       \/ /\ Mishap
          /\ post' = [post EXCEPT ![q].pc = "error"]
          /\ UNCHANGED <<rows, history>>
    /\ UNCHANGED <<auth, task, admin>>

\* DeleteUser: every row goes, the manual ones too.
ClearUser(q) ==
    /\ post[q].pc = "clear" /\ Kind(q) = "delete"
    /\ \/ /\ rows' = [r \in Role |-> "none"]
          /\ post' = [post EXCEPT ![q].pc = "invalidate"]
          /\ last' = q /\ mixed' = {q} \cup Inserting /\ excused' = {}
          /\ Fine
       \/ /\ Mishap
          /\ post' = [post EXCEPT ![q].pc = "error"]
          /\ UNCHANGED <<rows, history>>
    /\ UNCHANGED <<auth, task, admin>>

\* AddRoleWithSource(..., "sync"), ON CONFLICT DO NOTHING, in the order the
\* request lists the roles; an error is logged and the request goes on to answer 200.
Add(q) ==
    /\ post[q].pc = "add"
    /\ \E r \in post[q].todo :
         /\ post' = [post EXCEPT ![q].todo = @ \ {r}]
         /\ \/ /\ rows' = [rows EXCEPT ![r] = IF @ = "none" THEN "sync" ELSE @]
               /\ Fine
               /\ UNCHANGED excused
            \/ /\ Mishap
               /\ excused' = excused \cup {r}
               /\ UNCHANGED rows
    /\ UNCHANGED <<auth, task, admin, last, mixed>>

\* Mutant: the answer is given before every role is in.
Added_Early(q) ==
    /\ post[q].pc = "add"
    /\ post' = [post EXCEPT ![q] = [pc |-> "invalidate", todo |-> {}]]
    /\ UNCHANGED <<auth, task, rows, admin, mishaps, history>>

Added(q) ==
    /\ post[q].pc = "add" /\ post[q].todo = {}
    /\ post' = [post EXCEPT ![q].pc = "invalidate"]
    /\ UNCHANGED <<auth, task, rows, admin, mishaps, history>>

\* The cached answer is deleted (MembershipCache is about such entries), and the
\* request is answered.
Invalidate(q) ==
    /\ post[q].pc = "invalidate"
    /\ post' = [post EXCEPT ![q].pc = "done"]
    /\ UNCHANGED <<auth, task, rows, admin, mishaps, history>>
-----------------------------------------------------------------------------
(* The LMS's administrator; each call ends by deleting the cached answer.    *)

\* AddRoleWithSource(..., "manual"), ON CONFLICT DO NOTHING.
Assign(r) ==
    /\ admin < MaxAdmin
    /\ rows' = [rows EXCEPT ![r] = IF @ = "none" THEN "manual" ELSE @]
    /\ admin' = admin + 1
    /\ UNCHANGED <<auth, task, post, mishaps, history>>

RemoveRole(r) ==
    /\ admin < MaxAdmin
    /\ rows' = [rows EXCEPT ![r] = "none"]
    /\ excused' = excused \cup {r}
    /\ admin' = admin + 1
    /\ UNCHANGED <<auth, task, post, mishaps, last, mixed>>
-----------------------------------------------------------------------------
Serve(q) == Clear(q) \/ ClearUser(q) \/ Add(q) \/ Added(q) \/ Invalidate(q)

Next ==
    \/ \E t \in Task : Edit(t) \/ DeleteUser(t) \/ Send(t) \/ Receive(t) \/ Timeout(t)
    \/ AuthCrash
    \/ \E q \in Posts : Serve(q)
    \/ \E r \in Role : Assign(r) \/ RemoveRole(r)

Spec == Init /\ [][Next]_vars
-----------------------------------------------------------------------------
\* The tables and the tasks have the shapes the code gives them.
TypeOK ==
    /\ auth \in (SUBSET Role) \cup {None}
    /\ task \in [Task -> [pc : {"idle", "send", "wait", "done", "gaveUp"},
                          kind : {"sync", "delete"}, roles : SUBSET Role,
                          tries : 0..MaxTries]]
    /\ post \in [Posts -> [pc : {"none", "clear", "add", "invalidate", "done", "error"},
                           todo : SUBSET Role]]
    /\ rows \in [Role -> {"none", "sync", "manual"}]
    /\ admin \in 0..MaxAdmin
    /\ mishaps \in 0..MaxMishaps
    /\ last \in Posts \cup {None} /\ mixed \subseteq Posts /\ excused \subseteq Role

\* Whatever order the pushes arrive in, and however they overlap, the synced
\* roles come from the request that cleared last and from those that were in the
\* middle of inserting at that moment: an older push leaves nothing else behind.
RolesFromOverlap == Synced \subseteq UNION {Payload(q) : q \in mixed}

\* The roles of the request that cleared last are all there once it has inserted
\* them, unless an INSERT failed or an administrator took one away: a second push
\* that clears in between is then the last one itself.
LastSyncIsThere ==
    last # None /\ post[last].pc # "add" => Payload(last) \ excused \subseteq Present

\* A sync keeps what was assigned by hand (the comment of SyncUser): only the
\* administrator and the deletion of the user take a manual row away.
ManualSurvivesSync ==
    [][\A r \in Role : rows[r] = "manual" /\ rows'[r] # "manual" =>
          RemoveRole(r) \/ \E q \in Posts : ClearUser(q)]_vars

\* "Add role with source='manual' so it is not overwritten by Auth sync": a role
\* assigned by hand is marked so.  False for a role that is there as 'sync'.
AssignedIsManual == [][\A r \in Role : Assign(r) => rows'[r] = "manual"]_vars
=============================================================================
