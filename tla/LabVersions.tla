----------------------------- MODULE LabVersions -----------------------------
(***************************************************************************)
(* The versions of the experiment of one lab and their publication         *)
(* (ExperimentService and ExperimentRepository of the lab service).        *)
(*                                                                         *)
(* CreateVersion and PublishVersion are transactions that take row locks;  *)
(* what they have written is seen by others only when they commit, and     *)
(* their locks are held until then.  ValidateVersion reads the version and *)
(* later updates it with one statement of its own.                         *)
(*                                                                         *)
(* The table has a partial unique index, one PUBLISHED row per lab.  The   *)
(* model leaves the index out: OnePublished says that the locks alone are  *)
(* enough, so that no publication ever runs into it.                       *)
(***************************************************************************)
EXTENDS Naturals, FiniteSets

CONSTANTS
    Version,      \* versions that exist or will be created
    Sound,        \* those whose definition passes validatePublishDefinition
    Publish,      \* calls of PublishVersion
    Validate,     \* calls of ValidateVersion
    None          \* nobody, nothing

ASSUME VersionAssumption ==
    /\ IsFiniteSet(Version)
    /\ Sound \subseteq Version
    /\ None \notin Version \cup Publish \cup Validate
    /\ Publish \cap Validate = {}

VARIABLES
    status,       \* lab_versions.status
    number,       \* lab_versions.version_number, 0 while there is no row
    row,          \* holder of the lock on each lab_versions row
    lab,          \* holder of the lock on the labs row
    call          \* state of each call: its version and where it is

vars == <<status, number, row, lab, call>>

Statuses == {"DRAFT", "VALIDATED", "PUBLISHED", "SUPERSEDED"}
Calls == Publish \cup Validate
Published == {v \in Version : status[v] = "PUBLISHED"}
Numbers == {number[v] : v \in Version}

At(p, pc) == call[p].pc = pc
Goto(p, pc) == call' = [call EXCEPT ![p].pc = pc]
\* The end of a transaction gives back every lock it holds.
Unlock(p) ==
    /\ row' = [v \in Version |-> IF row[v] = p THEN None ELSE row[v]]
    /\ lab' = IF lab = p THEN None ELSE lab

Init ==
    /\ status = [v \in Version |-> "none"]
    /\ number = [v \in Version |-> 0]
    /\ row = [v \in Version |-> None]
    /\ lab = None
    /\ call = [p \in Calls |-> [pc |-> "idle", v |-> None]]
-----------------------------------------------------------------------------
\* Mutant: the status column is left to the caller.
CreateVersion_Live(v) ==
    /\ status[v] = "none"
    /\ lab = None
    /\ status' = [status EXCEPT ![v] = "ACTIVE"]
    /\ UNCHANGED <<number, row, lab, call>>

\* The labs row is locked from the start to the commit, so the maximum cannot
\* change in between: one step, when nobody else holds the lock.
CreateVersion(v) ==
    /\ status[v] = "none"
    /\ lab = None
    /\ status' = [status EXCEPT ![v] = "DRAFT"]
    /\ number' = [number EXCEPT ![v] =
                    CHOOSE n \in 1..Cardinality(Version) :
                        /\ n - 1 \in Numbers \cup {0}
                        /\ \A m \in Numbers : m < n]
    /\ UNCHANGED <<row, lab, call>>

\* The version is read; a published or superseded one is refused, and so is
\* one whose definition has errors.
ValidateRead(p, v) ==
    /\ At(p, "idle")
    /\ status[v] \in {"DRAFT", "VALIDATED"}
    /\ v \in Sound
    /\ call' = [call EXCEPT ![p] = [pc |-> "mark", v |-> v]]
    /\ UNCHANGED <<status, number, row, lab>>

\* Mutant: the update does not look at the status again.
ValidateMark_Blind(p) ==
    LET v == call[p].v IN
    /\ At(p, "mark")
    /\ row[v] = None
    /\ status' = [status EXCEPT ![v] = "VALIDATED"]
    /\ Goto(p, "done")
    /\ UNCHANGED <<number, row, lab>>

\* MarkValidated waits for the row and then updates it if it still is a draft.
ValidateMark(p) ==
    LET v == call[p].v IN
    /\ At(p, "mark")
    /\ row[v] = None
    /\ status' = IF status[v] \in {"DRAFT", "VALIDATED"}
                 THEN [status EXCEPT ![v] = "VALIDATED"] ELSE status
    /\ Goto(p, "done")
    /\ UNCHANGED <<number, row, lab>>

\* Ownership and the definition are checked before the transaction.
PublishBegin(p, v) ==
    /\ At(p, "idle")
    /\ status[v] # "none"
    /\ v \in Sound
    /\ call' = [call EXCEPT ![p] = [pc |-> "version", v |-> v]]
    /\ UNCHANGED <<status, number, row, lab>>

\* SELECT ... FROM lab_versions ... FOR UPDATE.
PublishLockVersion(p) ==
    LET v == call[p].v IN
    /\ At(p, "version")
    /\ row[v] = None
    /\ row' = [row EXCEPT ![v] = p]
    /\ Goto(p, "lab")
    /\ UNCHANGED <<status, number, lab>>

\* Mutant: the labs row is not locked.
PublishLockLab_NoLock(p) ==
    /\ At(p, "lab")
    /\ status[call[p].v] = "VALIDATED"
    /\ Goto(p, "supersede")
    /\ UNCHANGED <<status, number, row, lab>>

\* Mutant: a version that is not validated leaves the transaction open.
PublishLockLab_NoRollback(p) ==
    LET s == status[call[p].v] IN
    /\ At(p, "lab")
    /\ lab = None
    /\ lab' = p
    /\ Goto(p, IF s = "VALIDATED" THEN "supersede" ELSE "done")
    /\ UNCHANGED <<status, number, row>>

\* SELECT ... FROM labs ... FOR UPDATE, then the three cases of the status.
PublishLockLab(p) ==
    LET s == status[call[p].v] IN
    /\ At(p, "lab")
    /\ lab = None
    /\ \/ /\ s = "VALIDATED"
          /\ lab' = p
          /\ Goto(p, "supersede")
          /\ UNCHANGED row
       \/ /\ s # "VALIDATED"
          /\ Unlock(p)
          /\ Goto(p, "done")
    /\ UNCHANGED <<status, number>>

\* UPDATE ... WHERE status = 'PUBLISHED': it waits for the rows it finds, and
\* locks them.
PublishSupersede(p) ==
    /\ At(p, "supersede")
    /\ \A w \in Published : row[w] \in {None, p}
    /\ row' = [w \in Version |-> IF w \in Published THEN p ELSE row[w]]
    /\ Goto(p, "commit")
    /\ UNCHANGED <<status, number, lab>>

\* The other two updates touch rows that are already locked.
PublishCommit(p) ==
    LET v == call[p].v IN
    /\ At(p, "commit")
    /\ status' = [w \in Version |-> IF w = v THEN "PUBLISHED"
                                    ELSE IF row[w] = p THEN "SUPERSEDED"
                                    ELSE status[w]]
    /\ Unlock(p)
    /\ Goto(p, "done")
    /\ UNCHANGED number

\* p holds the published version and waits for the lab, whose holder will want
\* to supersede that version.
Deadlocked(p) ==
    /\ At(p, "lab")
    /\ lab # None
    /\ call[p].v \in Published

\* The transaction is rolled back: the request is cut off, or PostgreSQL breaks
\* a deadlock by failing one of the two.
PublishRollback(p) ==
    /\ call[p].pc \in {"version", "lab", "supersede", "commit"}
    /\ Unlock(p)
    /\ Goto(p, "failed")
    /\ UNCHANGED <<status, number>>

Next ==
    \/ \E v \in Version : CreateVersion(v)
    \/ \E p \in Validate : (\E v \in Version : ValidateRead(p, v)) \/ ValidateMark(p)
    \/ \E p \in Publish :
         \/ \E v \in Version : PublishBegin(p, v)
         \/ PublishLockVersion(p) \/ PublishLockLab(p) \/ PublishSupersede(p)
         \/ PublishCommit(p) \/ PublishRollback(p)

\* A statement that can run does; PostgreSQL looks for deadlocks.
Fairness ==
    \A p \in Publish :
        /\ WF_vars(PublishLockVersion(p) \/ PublishLockLab(p)
                    \/ PublishSupersede(p) \/ PublishCommit(p))
        /\ WF_vars(Deadlocked(p) /\ PublishRollback(p))

Spec == Init /\ [][Next]_vars
FairSpec == Spec /\ Fairness
-----------------------------------------------------------------------------
TypeOK ==
    /\ status \in [Version -> Statuses \cup {"none"}]
    /\ number \in [Version -> 0..Cardinality(Version)]
    /\ row \in [Version -> Publish \cup {None}]
    /\ lab \in Publish \cup {None}
    /\ call \in [Calls -> [pc : {"idle", "mark", "version", "lab", "supersede",
                                 "commit", "done", "failed"}, v : Version \cup {None}]]

\* At most one version of a lab is published, whatever publications overlap.
OnePublished == \A v, w \in Published : v = w

\* A published version is final: the only change it ever sees is to be
\* superseded by another one, and a superseded version never comes back
\* ("published or superseded versions are immutable"), although ValidateVersion
\* decides on a version it read before.
PublishedIsFinal ==
    [][\A v \in Version :
         /\ status[v] = "PUBLISHED" => status'[v] = "PUBLISHED" \/
                \E w \in Version \ {v} : status'[w] = "PUBLISHED" /\ status'[v] = "SUPERSEDED"
         /\ status[v] = "SUPERSEDED" => status'[v] = "SUPERSEDED"]_vars

\* Every publication ends, with success or an error: two that wait for each
\* other's rows are told apart by the database.
PublishEnds ==
    \A p \in Publish : At(p, "version") ~> call[p].pc \in {"done", "failed"}
=============================================================================
