---------------------------- MODULE ExperimentRun ----------------------------
(***************************************************************************)
(* One learner's run of a published experiment version: trials, evidence   *)
(* and completion (ExperimentService and ExperimentRepository).            *)
(*                                                                         *)
(* AppendEvidence and CreateTrial are transactions that start by locking   *)
(* the lab_runs row; CompleteRun reads the evidence first and then updates *)
(* that row with one statement, which waits for the lock.  The learner's   *)
(* browser repeats calls, so several are in progress at a time.  The       *)
(* unique indexes on (run, client_event_id) and (run, seq_no) are left     *)
(* out: the properties say that the lock alone is enough.                  *)
(***************************************************************************)
EXTENDS Naturals, FiniteSets

CONSTANTS
    Client,       \* client_event_id values
    Item,         \* kinds of evidence: a workflow node and an object type
    Required,     \* those the definition requires
    Simulation,   \* the kinds whose object is a simulation_run
    Iterates,     \* does the workflow have an ITERATE node
    Start,        \* calls of CreateRun, with one idempotency key
    Appends,      \* calls of AppendEvidence
    Complete,     \* calls of CompleteRun
    MaxTrials,    \* bound on trials
    Page,         \* events CompleteRun reads: 500
    None

ASSUME RunAssumption ==
    /\ Required \subseteq Item /\ Simulation \subseteq Item
    /\ Iterates \in BOOLEAN
    /\ {MaxTrials, Page} \subseteq Nat
    /\ None \notin Start \cup Appends \cup Complete
    /\ Start \cap Appends = {} /\ Start \cap Complete = {} /\ Appends \cap Complete = {}

VARIABLES
    version,      \* status of the version: PUBLISHED, later SUPERSEDED
    run,          \* lab_runs.status, none while there is no row
    lastSeq,      \* lab_runs.last_event_seq
    trials,       \* experiment_trials: they are numbered 1..trials
    events,       \* evidence_events
    lock,         \* transaction that holds the lab_runs row
    call          \* state of each call

rows == <<run, lastSeq, trials, events>>
vars == <<version, rows, lock, call>>

Calls == Start \cup Appends \cup Complete
Fresh == [pc |-> "idle", client |-> None, item |-> None, trial |-> 0, seq |-> 0]
At(r, pc) == call[r].pc = pc
Goto(r, pc) == call' = [call EXCEPT ![r].pc = pc]
Free == lock = None

Init ==
    /\ version = "PUBLISHED"
    /\ run = "none"
    /\ lastSeq = 0 /\ trials = 0 /\ events = {}
    /\ lock = None
    /\ call = [r \in Calls |-> Fresh]
-----------------------------------------------------------------------------
\* Another version is published meanwhile (LabVersions).
Supersede ==
    /\ version = "PUBLISHED"
    /\ version' = "SUPERSEDED"
    /\ UNCHANGED <<rows, lock, call>>

\* CreateRun reads the version and later inserts, or finds, the row of its key.
StartRead(r) ==
    /\ At(r, "idle")
    /\ version = "PUBLISHED"
    /\ Goto(r, "insert")
    /\ UNCHANGED <<version, rows, lock>>

\* Mutant: a status the column does not have.
StartInsert_Pending(r) ==
    /\ At(r, "insert")
    /\ Free
    /\ run' = IF run = "none" THEN "PENDING" ELSE run
    /\ Goto(r, "done")
    /\ UNCHANGED <<version, lastSeq, trials, events, lock>>

StartInsert(r) ==
    /\ At(r, "insert")
    /\ Free
    /\ run' = IF run = "none" THEN "ACTIVE" ELSE run
    /\ Goto(r, "done")
    /\ UNCHANGED <<version, lastSeq, trials, events, lock>>

\* CreateTrial: the row is locked, so MAX(trial_number) + 1 is this trial's own.
CreateTrial ==
    /\ run = "ACTIVE" /\ Free
    /\ trials < MaxTrials
    /\ trials' = trials + 1
    /\ UNCHANGED <<version, run, lastSeq, events, lock, call>>
-----------------------------------------------------------------------------
\* Mutant: the lookup does not lock the run first.
AppendLock_NoLock(r) ==
    /\ At(r, "idle")
    /\ run # "none"
    /\ \E c \in Client, i \in Item, t \in 0..trials :
         /\ \A e \in events : e.client # c
         /\ call' = [call EXCEPT ![r].pc = "bump", ![r].client = c,
                                ![r].item = i, ![r].trial = t]
    /\ UNCHANGED <<version, rows, lock>>

\* SELECT ... FOR UPDATE, then the lookup of the client's id: a retry gets the
\* event that is already there, whatever the status of the run.
AppendLock(r) ==
    /\ At(r, "idle")
    /\ run # "none" /\ Free
    /\ \E c \in Client :
         \/ \E e \in events :
              /\ e.client = c
              /\ call' = [call EXCEPT ![r].pc = "done", ![r].client = c, ![r].seq = e.seq]
              /\ UNCHANGED lock
         \/ /\ \A e \in events : e.client # c
            /\ lock' = r
            /\ \E i \in Item, t \in 0..trials :
                 call' = [call EXCEPT ![r].pc = "bump", ![r].client = c,
                                      ![r].item = i, ![r].trial = t]
    /\ UNCHANGED <<version, rows>>

\* Mutant: the number comes from a sequence, which a rollback does not undo.
AppendBump_Sequence(r) ==
    /\ At(r, "bump")
    /\ lock \in {None, r}
    /\ run = "ACTIVE"
    /\ lock' = r
    /\ lastSeq' = lastSeq + 1
    /\ call' = [call EXCEPT ![r].pc = "commit", ![r].seq = lastSeq + 1]
    /\ UNCHANGED <<version, run, trials, events>>

\* Mutant: the status of the run is not looked at.
AppendBump_AnyStatus(r) ==
    /\ At(r, "bump")
    /\ lock \in {None, r}
    /\ lock' = r
    /\ call' = [call EXCEPT ![r].pc = "commit", ![r].seq = lastSeq + 1]
    /\ UNCHANGED <<version, rows>>

\* UPDATE lab_runs SET last_event_seq = last_event_seq + 1 ... AND status = 'ACTIVE':
\* it locks the row if the transaction has not; no row means 409 and a rollback.
AppendBump(r) ==
    /\ At(r, "bump")
    /\ lock \in {None, r}
    /\ \/ /\ run = "ACTIVE"
          /\ lock' = r
          /\ call' = [call EXCEPT ![r].pc = "commit", ![r].seq = lastSeq + 1]
       \/ /\ run # "ACTIVE"
          /\ lock' = None
          /\ Goto(r, "failed")
    /\ UNCHANGED <<version, rows>>

\* The insert and the commit, which shows the number and the event together.
AppendCommit(r) ==
    /\ At(r, "commit")
    /\ lastSeq' = call[r].seq
    /\ events' = events \cup {[seq |-> call[r].seq, client |-> call[r].client,
                               item |-> call[r].item, trial |-> call[r].trial]}
    /\ lock' = None
    /\ Goto(r, "done")
    /\ UNCHANGED <<version, run, trials>>

\* A cut-off request rolls back.
AppendRollback(r) ==
    /\ call[r].pc \in {"bump", "commit"}
    /\ lock' = IF lock = r THEN None ELSE lock
    /\ Goto(r, "failed")
    /\ UNCHANGED <<version, rows>>
-----------------------------------------------------------------------------
\* What CompleteRun asks of a list of events.
Proves(es) ==
    /\ Required \subseteq {e.item : e \in es}
    /\ Iterates => Cardinality({e.trial : e \in {f \in es : f.item \in Simulation /\ f.trial # 0}}) >= 2
FirstPage == {e \in events : Cardinality({f \in events : f.seq < e.seq}) < Page}

CompleteRead(r) ==
    /\ At(r, "idle")
    /\ run = "ACTIVE"
    /\ Goto(r, "list")
    /\ UNCHANGED <<version, rows, lock>>

\* Mutant: the second trial is not asked for.
CompleteList_OneTrial(r) ==
    /\ At(r, "list")
    /\ Goto(r, IF Required \subseteq {e.item : e \in FirstPage} THEN "update" ELSE "missing")
    /\ UNCHANGED <<version, rows, lock>>

CompleteList(r) ==
    /\ At(r, "list")
    /\ Goto(r, IF Proves(FirstPage) THEN "update" ELSE "missing")
    /\ UNCHANGED <<version, rows, lock>>

CompleteUpdate(r) ==
    /\ At(r, "update")
    /\ Free
    /\ run' = IF run = "ACTIVE" THEN "COMPLETED" ELSE run
    /\ Goto(r, IF run = "ACTIVE" THEN "done" ELSE "failed")
    /\ UNCHANGED <<version, lastSeq, trials, events, lock>>
-----------------------------------------------------------------------------
Next ==
    \/ Supersede \/ CreateTrial
    \/ \E r \in Start : StartRead(r) \/ StartInsert(r)
    \/ \E r \in Appends : AppendLock(r) \/ AppendBump(r) \/ AppendCommit(r)
                         \/ AppendRollback(r)
    \/ \E r \in Complete : CompleteRead(r) \/ CompleteList(r) \/ CompleteUpdate(r)

Spec == Init /\ [][Next]_vars
-----------------------------------------------------------------------------
Event == [seq : Nat \ {0}, client : Client, item : Item, trial : Nat]
TypeOK ==
    /\ version \in {"PUBLISHED", "SUPERSEDED"}
    /\ run \in {"none", "ACTIVE", "COMPLETED"}
    /\ lastSeq \in Nat /\ trials \in Nat
    /\ events \subseteq Event
    /\ lock \in Appends \cup {None}
    /\ call \in [Calls -> [pc : {"idle", "insert", "bump", "commit", "list", "update",
                                 "missing", "done", "failed"},
                           client : Client \cup {None}, item : Item \cup {None},
                           trial : Nat, seq : Nat]]

\* The numbers of the events of a run are 1 to last_event_seq, each used once:
\* no retry, refusal or rollback consumes one ("without consuming another
\* seq_no"), and a reader of after_seq misses nothing.
EvidenceNumbered ==
    /\ {e.seq : e \in events} = 1..lastSeq
    /\ \A e, f \in events : e.seq = f.seq => e = f

\* A retry returns the original event: all calls of one client_event_id that
\* are answered are answered with one number, and only one event has the id.
RetryReturnsOriginal ==
    /\ \A e, f \in events : e.client = f.client => e = f
    /\ \A r \in Appends : At(r, "done") =>
          \E e \in events : e.client = call[r].client /\ e.seq = call[r].seq

\* A completed run has every piece of evidence its definition requires.
CompletedIsProven == run = "COMPLETED" => Proves(events)

\* A completed run is sealed: no trial and no event is added to it, not even by
\* a call that began before the completion.
CompletedIsSealed == [][run = "COMPLETED" => UNCHANGED rows]_vars

\* Completion is refused only for evidence that is missing.
RefusedIsMissing ==
    [][\A r \in Complete : At(r, "list") /\ call'[r].pc = "missing" => ~Proves(events)]_vars
-----------------------------------------------------------------------------
\* The run keeps the log that EvidenceLog promises: what is committed is in it, at
\* the place its number says, and the calls that are done were answered.
Entry(n) == LET e == CHOOSE x \in events : x.seq = n
            IN  [key |-> e.client, item |-> e.item, trial |-> e.trial]

Log == INSTANCE EvidenceLog WITH
          Calls <- Appends, Keys <- Client, Items <- Item, Unanswered <- None,
          state <- run, trials <- trials,
          log   <- [n \in 1..lastSeq |-> Entry(n)],
          reply <- [r \in Appends |-> IF At(r, "done")
                                      THEN [key |-> call[r].client, place |-> call[r].seq]
                                      ELSE None]

\* However appends wait, retry, fail or meet a completion, the evidence of a run is
\* an append-only list, closed by the completion, and an answered call was told the
\* place of its client_event_id in it.
LogSpec == Log!Spec
=============================================================================
