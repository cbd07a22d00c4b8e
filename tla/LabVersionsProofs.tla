-------------------------- MODULE LabVersionsProofs --------------------------
(***************************************************************************)
(* Proofs about LabVersions for any number of versions, validations and    *)
(* publications.  The locks are what keeps one version published: whoever  *)
(* is past the labs row is alone there, holds its own version, which stays *)
(* validated, and in the end every published one.                          *)
(***************************************************************************)
EXTENDS LabVersions, FiniteSetTheorems, TLAPS

(* The part of TypeOK that the locks need: everything but the numbers. *)
Shape ==
    /\ status \in [Version -> Statuses \cup {"none"}]
    /\ row \in [Version -> Publish \cup {None}]
    /\ lab \in Publish \cup {None}
    /\ call \in [Calls -> [pc : {"idle", "mark", "version", "lab", "supersede",
                                 "commit", "done", "failed"}, v : Version \cup {None}]]

Alone(p) == call[p].pc \in {"supersede", "commit"}
InTransaction(p) == call[p].pc \in {"lab", "supersede", "commit"}

\* A transaction that is past its first statement holds its version's row.
HoldsVersion ==
    \A p \in Publish : InTransaction(p) => call[p].v \in Version /\ row[call[p].v] = p

\* The labs row belongs to the publication that passed it, whose version is validated.
HoldsLab ==
    \A p \in Publish : Alone(p) => lab = p /\ status[call[p].v] = "VALIDATED"

\* What a transaction holds: its version and, at the end, all that is published.
HoldsOnly ==
    \A p \in Publish, w \in Version : row[w] = p =>
        /\ InTransaction(p)
        /\ w # call[p].v => At(p, "commit") /\ w \in Published

HoldsPublished ==
    \A p \in Publish, w \in Version : At(p, "commit") /\ w \in Published => row[w] = p

\* Only rows that exist are published, marked and locked.
Exists ==
    /\ \A p \in Calls : call[p].pc \in {"version", "mark"} =>
          call[p].v \in Version /\ status[call[p].v] # "none"
    /\ \A w \in Version : row[w] # None => status[w] # "none"

LockInv ==
    Shape /\ HoldsVersion /\ HoldsLab /\ HoldsOnly /\ HoldsPublished /\ Exists /\ OnePublished

\* The empty lab.
LEMMA InitLocks == Init => LockInv
  BY VersionAssumption
  DEF Init, LockInv, Shape, HoldsVersion, HoldsLab, HoldsOnly, HoldsPublished, Exists,
      OnePublished, Published, Calls, InTransaction, Alone, At, Statuses

\* A new draft, which nobody has locked.
LEMMA CreateLocks ==
    ASSUME LockInv, NEW v \in Version, CreateVersion(v)
    PROVE  LockInv'
<1>1. /\ status[v] = "none" /\ row[v] = None
      /\ status' = [status EXCEPT ![v] = "DRAFT"]
      /\ UNCHANGED <<row, lab, call>>
  BY DEF CreateVersion, LockInv, Exists
<1>2. Published' = Published BY <1>1 DEF Published, LockInv, Shape
<1> QED
  BY <1>1, <1>2, VersionAssumption
  DEF LockInv, Shape, HoldsVersion, HoldsLab, HoldsOnly, HoldsPublished, Exists,
      OnePublished, Calls, InTransaction, Alone, At, Statuses

\* The two halves of a validation.
LEMMA ValidateLocks ==
    ASSUME LockInv, NEW p \in Validate,
           (\E v \in Version : ValidateRead(p, v)) \/ ValidateMark(p)
    PROVE  LockInv'
<1>0. p \notin Publish /\ p \in Calls BY VersionAssumption DEF Calls
<1>1. CASE \E v \in Version : ValidateRead(p, v)
  <2>1. PICK v \in Version : ValidateRead(p, v) BY <1>1
  <2>2. /\ call' = [call EXCEPT ![p] = [pc |-> "mark", v |-> v]]
        /\ status[v] # "none" /\ UNCHANGED <<status, row, lab>>
    BY <2>1 DEF ValidateRead
  <2>3. \A q \in Publish : call'[q] = call[q] BY <1>0, <2>2 DEF LockInv, Shape, Calls
  <2>4. Published' = Published BY <2>2 DEF Published
  <2>5. Exists' BY <1>0, <2>2 DEF LockInv, Shape, Exists
  <2>6. Shape' BY <1>0, <2>2 DEF LockInv, Shape
  <2> QED
    BY <2>2, <2>3, <2>4, <2>5, <2>6
    DEF LockInv, HoldsVersion, HoldsLab, HoldsOnly, HoldsPublished, OnePublished,
        InTransaction, Alone, At
<1>2. CASE ValidateMark(p)
  <2> DEFINE v == call[p].v
  <2>1. v \in Version /\ status[v] # "none" /\ row[v] = None
    BY <1>0, <1>2 DEF ValidateMark, At, LockInv, Exists
  <2>2. /\ call' = [call EXCEPT ![p].pc = "done"] /\ UNCHANGED <<row, lab>>
        /\ status' = IF status[v] \in {"DRAFT", "VALIDATED"}
                     THEN [status EXCEPT ![v] = "VALIDATED"] ELSE status
    BY <1>2 DEF ValidateMark, Goto
  <2>3. \A q \in Publish : call'[q] = call[q] BY <1>0, <2>2 DEF LockInv, Shape, Calls
  <2>4. Published' = Published BY <2>1, <2>2 DEF Published, LockInv, Shape
  <2>5. \A w \in Version : /\ w # v => status'[w] = status[w]
                           /\ status[w] # "none" => status'[w] # "none"
    BY <2>1, <2>2 DEF LockInv, Shape
  <2>6. Exists' BY <1>0, <2>2, <2>5 DEF LockInv, Shape, Exists
  <2>7. Shape' BY <1>0, <2>1, <2>2 DEF LockInv, Shape, Statuses
  <2>8. HoldsLab'
    BY <2>1, <2>2, <2>3, <2>5, VersionAssumption
    DEF LockInv, HoldsLab, HoldsVersion, Alone, InTransaction
  <2>9. row' = row BY <2>2
  <2>10. HoldsVersion' BY <2>3, <2>9 DEF LockInv, HoldsVersion, InTransaction
  <2>11. HoldsOnly' BY <2>3, <2>4, <2>9 DEF LockInv, HoldsOnly, InTransaction, At
  <2>12. HoldsPublished' BY <2>3, <2>4, <2>9 DEF LockInv, HoldsPublished, At
  <2> QED
    BY <2>4, <2>6, <2>7, <2>8, <2>10, <2>11, <2>12 DEF LockInv, OnePublished
<1> QED BY <1>1, <1>2

\* A publication takes its locks.
LEMMA LockLocks ==
    ASSUME LockInv, NEW p \in Publish,
           \/ \E v \in Version : PublishBegin(p, v)
           \/ PublishLockVersion(p) \/ PublishSupersede(p)
           \/ PublishLockLab(p) /\ status[call[p].v] = "VALIDATED"
    PROVE  LockInv'
<1>0. p \in Calls /\ p # None BY VersionAssumption DEF Calls
<1> USE DEF LockInv, Shape
<1>1. CASE \E v \in Version : PublishBegin(p, v)
  <2>1. PICK v \in Version : PublishBegin(p, v) BY <1>1
  <2>2. /\ call[p].pc = "idle" /\ call' = [call EXCEPT ![p] = [pc |-> "version", v |-> v]]
        /\ status[v] # "none" /\ UNCHANGED <<status, row, lab>>
    BY <2>1 DEF PublishBegin, At
  <2>3. Published' = Published BY <2>2 DEF Published
  <2>4. Shape' /\ Exists' BY <1>0, <2>2 DEF Exists
  <2>5. \A q \in Publish : q # p => call'[q] = call[q] BY <2>2 DEF Calls
  <2>6. call'[p].pc = "version" BY <1>0, <2>2
  <2>7. \A w \in Version : row[w] # p BY <2>2 DEF HoldsOnly, InTransaction
  <2> QED
    BY <2>2, <2>3, <2>4, <2>5, <2>6, <2>7
    DEF HoldsVersion, HoldsLab, HoldsOnly, HoldsPublished, OnePublished,
        InTransaction, Alone, At
<1>2. CASE PublishLockVersion(p)
  <2> DEFINE v == call[p].v
  <2>1. /\ call[p].pc = "version" /\ row[v] = None /\ row' = [row EXCEPT ![v] = p]
        /\ call' = [call EXCEPT ![p].pc = "lab"] /\ UNCHANGED <<status, lab>>
    BY <1>2 DEF PublishLockVersion, At, Goto
  <2>2. v \in Version /\ status[v] # "none" BY <1>0, <2>1 DEF Exists
  <2>3. Published' = Published BY <2>1 DEF Published
  <2>4. call'[p].pc = "lab" /\ call'[p].v = v /\ row'[v] = p BY <1>0, <2>1, <2>2
  <2>5. \A q \in Publish : q # p => call'[q] = call[q] BY <2>1 DEF Calls
  <2>6. \A w \in Version : w # v => row'[w] = row[w] BY <2>1
  <2>7. Shape' /\ Exists' BY <1>0, <2>1, <2>2 DEF Exists
  <2>8. HoldsVersion'
    BY <1>0, <2>1, <2>2, <2>4, <2>5, <2>6, VersionAssumption DEF HoldsVersion, InTransaction
  <2>9. HoldsLab' BY <2>1, <2>4, <2>5 DEF HoldsLab, Alone
  <2>10. HoldsOnly'
    <3>1. \A w \in Version : row[w] # p BY <2>1 DEF HoldsOnly, InTransaction
    <3> QED BY <2>3, <2>4, <2>5, <2>6, <3>1 DEF HoldsOnly, InTransaction, At
  <2>11. HoldsPublished'
    BY <1>0, <2>1, <2>3, <2>4, <2>5, <2>6, VersionAssumption DEF HoldsPublished, At
  <2> QED BY <2>3, <2>7, <2>8, <2>9, <2>10, <2>11 DEF OnePublished
<1>3. CASE PublishLockLab(p) /\ status[call[p].v] = "VALIDATED"
  <2> DEFINE v == call[p].v
  <2>1. /\ call[p].pc = "lab" /\ lab = None /\ lab' = p /\ status[v] = "VALIDATED"
        /\ call' = [call EXCEPT ![p].pc = "supersede"] /\ UNCHANGED <<status, row>>
    BY <1>3 DEF PublishLockLab, At, Goto
  <2>2. Published' = Published BY <2>1 DEF Published
  <2>3. call'[p].pc = "supersede" /\ call'[p].v = v BY <1>0, <2>1
  <2>4. \A q \in Publish : q # p => call'[q] = call[q] /\ ~Alone(q)
    BY <2>1, VersionAssumption DEF Calls, HoldsLab
  <2>5. Shape' /\ Exists' BY <1>0, <2>1 DEF Exists
  <2> QED
    BY <2>1, <2>2, <2>3, <2>4, <2>5
    DEF HoldsVersion, HoldsLab, HoldsOnly, HoldsPublished, OnePublished,
        InTransaction, Alone, At
<1>4. CASE PublishSupersede(p)
  <2> DEFINE v == call[p].v
  <2>1. /\ call[p].pc = "supersede" /\ \A w \in Published : row[w] \in {None, p}
        /\ row' = [w \in Version |-> IF w \in Published THEN p ELSE row[w]]
        /\ call' = [call EXCEPT ![p].pc = "commit"] /\ UNCHANGED <<status, lab>>
    BY <1>4 DEF PublishSupersede, At, Goto
  <2>2. Published' = Published BY <2>1 DEF Published
  <2>3. /\ call'[p].pc = "commit" /\ call'[p].v = v
        /\ v \in Version /\ row[v] = p /\ lab = p /\ status[v] = "VALIDATED"
    BY <1>0, <2>1 DEF HoldsVersion, HoldsLab, InTransaction, Alone
  <2>4. \A q \in Publish : q # p => call'[q] = call[q] /\ ~Alone(q)
    BY <2>1, <2>3 DEF Calls, HoldsLab
  <2>5. \A q \in Publish, w \in Version : q # p /\ row[w] = q => w \notin Published
    BY <2>1, VersionAssumption
  <2>6. Shape' BY <1>0, <2>1
  <2>7. Exists' BY <1>0, <2>1 DEF Exists, Published
  <2>8. HoldsVersion'
    <3> SUFFICES ASSUME NEW q \in Publish, InTransaction(q)'
                 PROVE  call'[q].v \in Version /\ row'[call'[q].v] = q
      BY DEF HoldsVersion
    <3>1. CASE q = p BY <2>1, <2>3, <3>1
    <3>2. CASE q # p
      <4>1. call'[q] = call[q] /\ call[q].v \in Version /\ row[call[q].v] = q
        BY <2>4, <3>2 DEF HoldsVersion, InTransaction
      <4> QED BY <2>1, <2>5, <3>2, <4>1
    <3> QED BY <3>1, <3>2
  <2>9. HoldsLab' BY <2>1, <2>3, <2>4 DEF HoldsLab, Alone
  <2>10. HoldsOnly'
    BY <2>1, <2>2, <2>3, <2>4, <2>5 DEF HoldsOnly, InTransaction, At
  <2>11. HoldsPublished' BY <2>1, <2>2, <2>4 DEF HoldsPublished, At, Alone
  <2> QED BY <2>2, <2>6, <2>7, <2>8, <2>9, <2>10, <2>11 DEF OnePublished
<1> QED BY <1>1, <1>2, <1>3, <1>4

\* The end of a transaction that changes nothing gives its rows back.
LEMMA UnlockLocks ==
    ASSUME LockInv, NEW p \in Publish, NEW pc \in {"done", "failed"},
           Unlock(p), Goto(p, pc), UNCHANGED status
    PROVE  LockInv'
<1>0. p \in Calls /\ p # None BY VersionAssumption DEF Calls
<1> USE DEF LockInv, Shape
<1>1. /\ row' = [v \in Version |-> IF row[v] = p THEN None ELSE row[v]]
      /\ lab' = IF lab = p THEN None ELSE lab
      /\ call' = [call EXCEPT ![p].pc = pc]
  BY DEF Unlock, Goto
<1>2. Published' = Published BY DEF Published
<1>3. \A q \in Publish : q # p => call'[q] = call[q] BY <1>1 DEF Calls
<1>4. call'[p].pc = pc BY <1>0, <1>1
<1>5. Shape' /\ Exists' BY <1>0, <1>1 DEF Exists
<1>6. HoldsVersion' BY <1>1, <1>3, <1>4 DEF HoldsVersion, InTransaction
<1>7. HoldsLab' BY <1>1, <1>3, <1>4 DEF HoldsLab, Alone
<1>8. HoldsOnly' BY <1>0, <1>1, <1>2, <1>3, VersionAssumption DEF HoldsOnly, InTransaction, At
<1>9. HoldsPublished' BY <1>1, <1>2, <1>3, <1>4 DEF HoldsPublished, At
<1> QED BY <1>2, <1>5, <1>6, <1>7, <1>8, <1>9 DEF OnePublished

\* What a commit does to the versions: its own is published and every other
\* published one, which it holds, is superseded.
LEMMA CommitStatus ==
    ASSUME LockInv, NEW p \in Publish, PublishCommit(p)
    PROVE  /\ call[p].v \in Version /\ status[call[p].v] = "VALIDATED"
           /\ status'[call[p].v] = "PUBLISHED"
           /\ \A w \in Version \ {call[p].v} :
                /\ w \in Published => status'[w] = "SUPERSEDED"
                /\ w \notin Published => status'[w] = status[w]
           /\ Published' = {call[p].v}
<1> DEFINE v == call[p].v
<1>1. /\ call[p].pc = "commit"
      /\ status' = [w \in Version |-> IF w = v THEN "PUBLISHED"
                                      ELSE IF row[w] = p THEN "SUPERSEDED"
                                      ELSE status[w]]
  BY DEF PublishCommit, At
<1>2. v \in Version /\ status[v] = "VALIDATED"
  BY <1>1 DEF LockInv, HoldsVersion, HoldsLab, InTransaction, Alone
<1>3. \A w \in Version \ {v} : w \in Published <=> row[w] = p
  BY <1>1 DEF LockInv, HoldsOnly, HoldsPublished, At
<1>4. \A w \in Version \ {v} : status'[w] # "PUBLISHED"
  BY <1>1, <1>3 DEF Published
<1>5. Published' = {v} BY <1>1, <1>2, <1>4 DEF Published
<1> QED BY <1>1, <1>2, <1>3, <1>5

\* A commit keeps the locks of the others.
LEMMA CommitLocks ==
    ASSUME LockInv, NEW p \in Publish, PublishCommit(p)
    PROVE  LockInv'
<1>0. p \in Calls /\ p # None BY VersionAssumption DEF Calls
<1> USE DEF LockInv, Shape
<1> DEFINE v == call[p].v
<1>1. /\ row' = [w \in Version |-> IF row[w] = p THEN None ELSE row[w]]
      /\ lab' = IF lab = p THEN None ELSE lab
      /\ call' = [call EXCEPT ![p].pc = "done"]
      /\ call[p].pc = "commit"
      /\ status' = [w \in Version |-> IF w = v THEN "PUBLISHED"
                                      ELSE IF row[w] = p THEN "SUPERSEDED"
                                      ELSE status[w]]
  BY DEF PublishCommit, Unlock, Goto, At
<1>2. v \in Version /\ Published' = {v} BY CommitStatus
<1>3. lab = p BY <1>1 DEF HoldsLab, Alone
<1>4. \A q \in Publish : q # p => call'[q] = call[q] /\ ~Alone(q)
  BY <1>1, <1>3 DEF Calls, HoldsLab
<1>5. call'[p].pc = "done" BY <1>0, <1>1
<1>6. Shape' BY <1>0, <1>1 DEF Statuses
<1>7. Exists'
  <2>1. \A w \in Version : status[w] # "none" => status'[w] # "none" BY <1>1
  <2>2. \A q \in Calls : call'[q].v = call[q].v /\ (call'[q].pc \in {"version", "mark"} =>
                                                   call[q].pc \in {"version", "mark"})
    BY <1>0, <1>1
  <2>3. \A w \in Version : row'[w] # None => row[w] # None BY <1>1
  <2> QED BY <2>1, <2>2, <2>3 DEF Exists
<1>8. HoldsVersion' BY <1>1, <1>4, <1>5 DEF HoldsVersion, InTransaction
<1>9. HoldsLab' BY <1>4, <1>5 DEF HoldsLab, Alone
<1>10. HoldsOnly'
  BY <1>0, <1>1, <1>4, VersionAssumption DEF HoldsOnly, InTransaction, At, Alone
<1>11. HoldsPublished' BY <1>4, <1>5 DEF HoldsPublished, At, Alone
<1> QED BY <1>2, <1>6, <1>7, <1>8, <1>9, <1>10, <1>11 DEF OnePublished

\* Every step keeps the locks.
LEMMA NextLocks == LockInv /\ [Next]_vars => LockInv'
<1> SUFFICES ASSUME LockInv, [Next]_vars PROVE LockInv' OBVIOUS
<1>1. CASE \E v \in Version : CreateVersion(v) BY <1>1, CreateLocks
<1>2. CASE \E p \in Validate : (\E v \in Version : ValidateRead(p, v)) \/ ValidateMark(p)
  BY <1>2, ValidateLocks
<1>3. ASSUME NEW p \in Publish,
             (\E v \in Version : PublishBegin(p, v)) \/ PublishLockVersion(p)
             \/ PublishLockLab(p) \/ PublishSupersede(p)
             \/ PublishCommit(p) \/ PublishRollback(p)
      PROVE  LockInv'
  <2>1. CASE (\E v \in Version : PublishBegin(p, v)) \/ PublishLockVersion(p)
             \/ PublishSupersede(p)
    BY <2>1, LockLocks
  <2>2. CASE PublishLockLab(p)
    <3>1. CASE status[call[p].v] = "VALIDATED" BY <2>2, <3>1, LockLocks
    <3>2. CASE status[call[p].v] # "VALIDATED"
      <4>1. Unlock(p) /\ Goto(p, "done") /\ UNCHANGED status
        BY <2>2, <3>2 DEF PublishLockLab
      <4> QED BY <4>1, UnlockLocks
    <3> QED BY <3>1, <3>2
  <2>3. CASE PublishCommit(p) BY <2>3, CommitLocks
  <2>4. CASE PublishRollback(p)
    <3>1. Unlock(p) /\ Goto(p, "failed") /\ UNCHANGED status BY <2>4 DEF PublishRollback
    <3> QED BY <3>1, UnlockLocks
  <2> QED BY <1>3, <2>1, <2>2, <2>3, <2>4
<1>4. CASE UNCHANGED vars
  BY <1>4
  DEF vars, LockInv, Shape, HoldsVersion, HoldsLab, HoldsOnly, HoldsPublished, Exists,
      OnePublished, Published, InTransaction, Alone, At
<1> QED BY <1>1, <1>2, <1>3, <1>4 DEF Next

\* The locks hold in every reachable state.
LEMMA LocksHold == Spec => []LockInv
  BY InitLocks, NextLocks, PTL DEF Spec

\* However many publications overlap, and without the unique index, at most one
\* version of the lab is published.
THEOREM NeverTwoPublished == Spec => []OnePublished
<1>1. LockInv => OnePublished BY DEF LockInv
<1> QED BY LocksHold, <1>1, PTL

\* A published version changes only when another takes its place, a superseded
\* one never: no validation decided on an old read undoes a publication.
THEOREM PublicationIsFinal == Spec => PublishedIsFinal
<1> DEFINE Final ==
      \A v \in Version :
         /\ status[v] = "PUBLISHED" => status'[v] = "PUBLISHED" \/
                \E w \in Version \ {v} : status'[w] = "PUBLISHED" /\ status'[v] = "SUPERSEDED"
         /\ status[v] = "SUPERSEDED" => status'[v] = "SUPERSEDED"
<1>1. LockInv /\ Next => Final
  <2> SUFFICES ASSUME LockInv, Next PROVE Final OBVIOUS
  <2>1. CASE \E v \in Version : CreateVersion(v)
    <3>1. PICK v \in Version : CreateVersion(v) BY <2>1
    <3>2. status[v] = "none" /\ status' = [status EXCEPT ![v] = "DRAFT"]
      BY <3>1 DEF CreateVersion
    <3>3. \A w \in Version : status[w] # "none" => status'[w] = status[w]
      BY <3>2 DEF LockInv, Shape
    <3> QED BY <3>3
  <2>2. CASE \E p \in Validate : ValidateMark(p)
    <3>1. PICK p \in Validate : ValidateMark(p) BY <2>2
    <3>2. status' = IF status[call[p].v] \in {"DRAFT", "VALIDATED"}
                    THEN [status EXCEPT ![call[p].v] = "VALIDATED"] ELSE status
      BY <3>1 DEF ValidateMark
    <3>3. \A w \in Version : status[w] \notin {"DRAFT", "VALIDATED"} => status'[w] = status[w]
      BY <3>2 DEF LockInv, Shape
    <3> QED BY <3>3
  <2>3. CASE \E p \in Publish : PublishCommit(p)
    <3>1. PICK p \in Publish : PublishCommit(p) BY <2>3
    <3>2. \A v \in Version : status[v] = "PUBLISHED" <=> v \in Published
      BY DEF Published
    <3> QED BY <3>1, <3>2, CommitStatus
  <2>4. CASE UNCHANGED status BY <2>4
  <2> QED
    BY <2>1, <2>2, <2>3, <2>4
    DEF Next, ValidateRead, PublishBegin, PublishLockVersion, PublishLockLab,
        PublishSupersede, PublishRollback
<1>2. UNCHANGED vars => Final BY DEF vars
<1>3. LockInv /\ [Next]_vars => [Final]_vars BY <1>1, <1>2
<1> QED BY LocksHold, <1>3, PTL DEF Spec, PublishedIsFinal

-----------------------------------------------------------------------------
(* Version numbers: the maximum is read under the lock of the labs row.    *)

Created == {v \in Version : status[v] # "none"}

\* The n rows of the lab use numbers up to n, the last row has n, and no two
\* rows have the same.
Numbered ==
    /\ number \in [Version -> Nat]
    /\ \A v \in Version : number[v] <= Cardinality(Created)
    /\ \A v \in Version : number[v] = 0 <=> v \notin Created
    /\ Cardinality(Created) \in Numbers \cup {0}
    /\ \A v, w \in Created : number[v] = number[w] => v = w

\* UNIQUE(lab_id, version_number), which CreateVersion never runs into.
NumbersAreUnique == \A v, w \in Created : number[v] = number[w] => v = w

\* The rows of a lab are a finite set, counted by a number.
LEMMA CreatedFinite ==
    /\ IsFiniteSet(Created) /\ Cardinality(Created) \in Nat
    /\ Cardinality(Version) \in Nat /\ Cardinality(Created) <= Cardinality(Version)
<1>1. Created \in SUBSET Version BY DEF Created
<1>2. IsFiniteSet(Version) BY VersionAssumption
<1>3. IsFiniteSet(Created) /\ Cardinality(Created) <= Cardinality(Version)
  BY <1>1, <1>2, FS_Subset
<1> QED BY <1>2, <1>3, FS_CardinalityType

\* Rows are not created or dropped by steps other than CreateVersion.
LEMMA SameNumbers ==
    ASSUME LockInv, Numbered, UNCHANGED number,
           \A v \in Version : status'[v] = "none" <=> status[v] = "none"
    PROVE  Numbered'
<1>1. Created' = Created BY DEF Created
<1>2. Numbers' = Numbers BY DEF Numbers
<1> QED BY <1>1, <1>2 DEF Numbered

\* The number CreateVersion chooses is the next one.
LEMMA CreateNumber ==
    ASSUME LockInv, Numbered, NEW v \in Version, CreateVersion(v)
    PROVE  Numbered'
<1> DEFINE n == Cardinality(Created)
           Fits(k) == k - 1 \in Numbers \cup {0} /\ \A m \in Numbers : m < k
<1>1. /\ status[v] = "none" /\ v \notin Created
      /\ status' = [status EXCEPT ![v] = "DRAFT"]
      /\ number' = [number EXCEPT ![v] = CHOOSE k \in 1..Cardinality(Version) : Fits(k)]
  BY DEF CreateVersion, Created
<1>2. Created' = Created \cup {v}
  BY <1>1 DEF Created, LockInv, Shape
<1>3. /\ n \in Nat /\ Cardinality(Version) \in Nat /\ Cardinality(Created') = n + 1
      /\ n + 1 <= Cardinality(Version)
  <2>1. Cardinality(Created') = n + 1
    BY <1>1, <1>2, CreatedFinite, FS_AddElement
  <2>2. Created' \in SUBSET Version BY <1>2 DEF Created
  <2>3. Cardinality(Created') <= Cardinality(Version)
    BY <2>2, VersionAssumption, FS_Subset
  <2> QED BY <2>1, <2>3, CreatedFinite
<1>4. \A m \in Numbers : m \in Nat /\ m <= n
  BY DEF Numbered, Numbers
<1>5. Fits(n + 1) /\ n + 1 \in 1..Cardinality(Version)
  <2>1. (n + 1) - 1 = n BY <1>3
  <2>2. \A m \in Numbers : m < n + 1 BY <1>3, <1>4
  <2> QED BY <1>3, <2>1, <2>2 DEF Numbered
<1>6. ASSUME NEW k \in 1..Cardinality(Version), Fits(k) PROVE k = n + 1
  <2>1. k \in Nat /\ k >= 1 BY <1>3, <1>6
  <2>2. k - 1 <= n
    <3>1. CASE k - 1 = 0 BY <1>3, <3>1
    <3>2. CASE k - 1 \in Numbers BY <1>4, <3>2
    <3> QED BY <1>6, <3>1, <3>2
  <2>3. n < k
    <3>1. CASE n = 0 BY <2>1, <3>1
    <3>2. CASE n \in Numbers BY <1>6, <3>2
    <3> QED BY <3>1, <3>2 DEF Numbered
  <2> QED BY <1>3, <2>1, <2>2, <2>3
<1> DEFINE c == CHOOSE k \in 1..Cardinality(Version) : Fits(k)
<1>7. c = n + 1
  <2> HIDE DEF Fits
  <2>1. c \in 1..Cardinality(Version) /\ Fits(c) BY <1>5
  <2> HIDE DEF c
  <2> QED BY <1>6, <2>1
<1>8. number' = [number EXCEPT ![v] = n + 1] BY <1>1, <1>7
<1> HIDE DEF c, Fits, n
<1>9. \A w \in Version : number'[w] = IF w = v THEN n + 1 ELSE number[w]
  BY <1>8 DEF Numbered
<1>10. \A w \in Version : number[w] \in Nat /\ number[w] <= n BY DEF Numbered, n
<1>11. number' \in [Version -> Nat] BY <1>3, <1>8 DEF Numbered
<1>12. Numbers' = {number'[w] : w \in Version} BY DEF Numbers
<1>13. Cardinality(Created') \in Numbers' BY <1>3, <1>9, <1>12
<1>14. \A w \in Version : number'[w] <= Cardinality(Created') BY <1>3, <1>9, <1>10
<1>15. \A w \in Version : number'[w] = 0 <=> w \notin Created'
  BY <1>2, <1>3, <1>9 DEF Numbered
<1>16. \A x, y \in Created' : number'[x] = number'[y] => x = y
  <2> SUFFICES ASSUME NEW x \in Created', NEW y \in Created', number'[x] = number'[y]
               PROVE  x = y
    OBVIOUS
  <2>1. x \in Version /\ y \in Version BY <1>2 DEF Created
  <2>2. CASE x = v \/ y = v BY <1>3, <1>9, <1>10, <2>1, <2>2
  <2>3. CASE x # v /\ y # v BY <1>2, <1>9, <2>1, <2>3 DEF Numbered
  <2> QED BY <2>2, <2>3
<1> QED BY <1>11, <1>13, <1>14, <1>15, <1>16 DEF Numbered

\* Every step keeps the numbering.
LEMMA NextNumbers == LockInv /\ Numbered /\ [Next]_vars => Numbered'
<1> SUFFICES ASSUME LockInv, Numbered, [Next]_vars PROVE Numbered' OBVIOUS
<1>1. CASE \E v \in Version : CreateVersion(v) BY <1>1, CreateNumber
<1>2. CASE \E p \in Validate : ValidateMark(p)
  <2>1. PICK p \in Validate : ValidateMark(p) BY <1>2
  <2>2. /\ status' = IF status[call[p].v] \in {"DRAFT", "VALIDATED"}
                     THEN [status EXCEPT ![call[p].v] = "VALIDATED"] ELSE status
        /\ UNCHANGED number
    BY <2>1 DEF ValidateMark
  <2>3. \A v \in Version : status'[v] = "none" <=> status[v] = "none"
    BY <2>2 DEF LockInv, Shape
  <2> QED BY <2>2, <2>3, SameNumbers
<1>3. CASE \E p \in Publish : PublishCommit(p)
  <2>1. PICK p \in Publish : PublishCommit(p) BY <1>3
  <2>2. \A v \in Version : status'[v] = "none" <=> status[v] = "none"
    BY <2>1, CommitStatus DEF Published
  <2> QED BY <2>1, <2>2, SameNumbers DEF PublishCommit
<1>4. CASE UNCHANGED <<status, number>> BY <1>4, SameNumbers
<1> QED
  BY <1>1, <1>2, <1>3, <1>4
  DEF Next, vars, ValidateRead, PublishBegin, PublishLockVersion, PublishLockLab,
      PublishSupersede, PublishRollback

\* The numbering holds in every reachable state.
LEMMA NumbersHold == Spec => []Numbered
<1>1. Init => Numbered
  <2> SUFFICES ASSUME Init PROVE Numbered OBVIOUS
  <2>1. number = [v \in Version |-> 0] /\ Created = {} BY DEF Init, Created
  <2>2. Cardinality(Created) = 0 BY <2>1, FS_EmptySet
  <2> QED BY <2>1, <2>2 DEF Numbered
<1> QED BY <1>1, LocksHold, NextNumbers, PTL DEF Spec

\* The rows and locks are well formed, and the next version number always exists:
\* a lab with n versions has handed out numbers up to n.
THEOREM TypeCorrect == Spec => []TypeOK
<1>1. LockInv /\ Numbered => TypeOK
  <2> SUFFICES ASSUME LockInv, Numbered PROVE TypeOK OBVIOUS
  <2>1. \A v \in Version : number[v] \in 0..Cardinality(Version)
    BY CreatedFinite DEF Numbered
  <2>2. number \in [Version -> 0..Cardinality(Version)] BY <2>1 DEF Numbered
  <2> QED BY <2>2 DEF LockInv, Shape, TypeOK
<1> QED BY <1>1, LocksHold, NumbersHold, PTL

\* Creations beside any publications and validations give every version of the
\* lab a number of its own.
THEOREM NumberedOnce == Spec => []NumbersAreUnique
<1>1. Numbered => NumbersAreUnique BY DEF Numbered, NumbersAreUnique
<1> QED BY <1>1, NumbersHold, PTL
=============================================================================
