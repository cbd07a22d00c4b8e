------------------------- MODULE ExperimentRunProofs -------------------------
(***************************************************************************)
(* Proofs about ExperimentRun for any number of calls, events and trials.  *)
(* The lock on the run is what numbers the evidence: whoever holds it has  *)
(* seen that its client_event_id is new, and nothing of the run changes    *)
(* before it commits or gives up.                                          *)
(***************************************************************************)
EXTENDS ExperimentRun, Sequences, FiniteSetTheorems, TLAPS

Appending(r) == call[r].pc \in {"bump", "commit"}

\* The run is locked by the append that is in progress, if there is one.
LockHeld == \A r \in Appends : lock = r <=> Appending(r)

\* What an append in progress has looked up is still so.
Looked ==
    \A r \in Appends : Appending(r) =>
        /\ call[r].client \in Client /\ call[r].item \in Item
        /\ call[r].trial <= trials
        /\ \A e \in events : e.client # call[r].client

\* The number an append is about to commit is the next one, of an active run.
Numbering ==
    \A r \in Appends : At(r, "commit") => call[r].seq = lastSeq + 1 /\ run = "ACTIVE"

TrialsExist == \A e \in events : e.trial <= trials

\* Evidence is never taken away: what was enough when it was listed still is.
Checked == \A r \in Complete : At(r, "update") => Proves(events)

Inv ==
    /\ TypeOK /\ LockHeld /\ Looked /\ Numbering /\ TrialsExist /\ Checked
    /\ EvidenceNumbered /\ RetryReturnsOriginal /\ CompletedIsProven

\* More evidence proves at least as much.
LEMMA ProvesMore ==
    ASSUME NEW es, NEW fs, es \subseteq fs, NEW n \in Nat,
           \A f \in fs : f.trial \in 0..n, Proves(es)
    PROVE  Proves(fs)
<1> DEFINE Trials(s) == {e.trial : e \in {f \in s : f.item \in Simulation /\ f.trial # 0}}
<1>1. Required \subseteq {e.item : e \in fs} BY DEF Proves
<1>2. Trials(es) \subseteq Trials(fs) /\ Trials(fs) \subseteq 0..n OBVIOUS
<1>3. IsFiniteSet(0..n) BY FS_Interval
<1>4. IsFiniteSet(Trials(fs)) BY <1>2, <1>3, FS_Subset
<1>5. Cardinality(Trials(es)) <= Cardinality(Trials(fs)) BY <1>2, <1>4, FS_Subset
<1>6. Cardinality(Trials(es)) \in Nat /\ Cardinality(Trials(fs)) \in Nat
  BY <1>2, <1>4, FS_Subset, FS_CardinalityType
<1>7. Iterates => Cardinality(Trials(es)) >= 2 BY DEF Proves
<1>8. Iterates => Cardinality(Trials(fs)) >= 2
  <2> HIDE DEF Trials
  <2> QED BY <1>5, <1>6, <1>7
<1> QED BY <1>1, <1>8 DEF Proves

\* Nothing is there at the start.
LEMMA InitInv == Init => Inv
<1> SUFFICES ASSUME Init PROVE Inv OBVIOUS
<1>1. /\ events = {} /\ lastSeq = 0 /\ trials = 0 /\ run = "none" /\ lock = None
      /\ version = "PUBLISHED"
      /\ \A r \in Calls : call[r] = Fresh
      /\ call = [r \in Calls |-> Fresh]
  BY DEF Init
<1>2. TypeOK BY <1>1 DEF TypeOK, Fresh
<1>3. \A r \in Appends \cup Complete : call[r].pc = "idle" BY <1>1 DEF Calls, Fresh
<1>4. EvidenceNumbered BY <1>1 DEF EvidenceNumbered
<1> QED
  BY <1>1, <1>2, <1>3, <1>4, RunAssumption
  DEF Inv, LockHeld, Looked, Numbering, TrialsExist, Checked, RetryReturnsOriginal,
      CompletedIsProven, Appending, At

\* Steps that touch neither the events nor an append keep the invariant if the
\* run was active or stays what it was.
LEMMA Beside ==
    ASSUME Inv, TypeOK', UNCHANGED <<events, lastSeq, lock>>, trials <= trials',
           \A r \in Appends : call'[r] = call[r],
           run' = run \/ Free, Checked', CompletedIsProven'
    PROVE  Inv'
<1>1. LockHeld' BY DEF Inv, LockHeld, Appending
<1>2. \A r \in Appends : call[r].trial \in Nat
  BY DEF Inv, TypeOK, Calls
<1>3. trials \in Nat /\ trials' \in Nat BY DEF Inv, TypeOK
<1>4. Looked' BY <1>2, <1>3 DEF Inv, Looked, Appending
<1>5. Numbering'
  <2>1. CASE run' = run BY <2>1 DEF Inv, Numbering, At
  <2>2. CASE Free
    <3>1. \A r \in Appends : ~Appending(r)
      BY <2>2, RunAssumption DEF Free, Inv, LockHeld
    <3> QED BY <3>1 DEF Numbering, At, Appending
  <2> QED BY <2>1, <2>2
<1>6. TrialsExist'
  <2>1. \A e \in events : e.trial \in Nat BY DEF Inv, TypeOK, Event
  <2> QED BY <1>3, <2>1 DEF Inv, TrialsExist
<1>7. EvidenceNumbered' BY DEF Inv, EvidenceNumbered
<1>8. RetryReturnsOriginal' BY DEF Inv, RetryReturnsOriginal, At
<1> QED BY <1>1, <1>4, <1>5, <1>6, <1>7, <1>8 DEF Inv

\* The steps of CreateRun, CreateTrial, CompleteRun and another publication.
LEMMA OthersInv ==
    ASSUME Inv,
           \/ Supersede \/ CreateTrial
           \/ \E r \in Start : StartRead(r) \/ StartInsert(r)
           \/ \E r \in Complete : CompleteRead(r) \/ CompleteList(r) \/ CompleteUpdate(r)
    PROVE  Inv'
<1> USE DEF Inv, TypeOK
<1>1. CASE Supersede
  BY <1>1, Beside DEF Supersede, rows, Checked, CompletedIsProven, At
<1>2. CASE CreateTrial
  <2>1. /\ trials' = trials + 1 /\ UNCHANGED <<version, run, lastSeq, events, lock, call>>
    BY <1>2 DEF CreateTrial
  <2>2. TypeOK' BY <2>1
  <2>3. trials <= trials' BY <2>1
  <2>4. Checked' /\ CompletedIsProven' BY <2>1 DEF Checked, CompletedIsProven, At, Proves
  <2> QED BY <2>1, <2>2, <2>3, <2>4, Beside
<1>3. CASE \E r \in Start : StartRead(r) \/ StartInsert(r)
  <2>1. PICK r \in Start : StartRead(r) \/ StartInsert(r) BY <1>3
  <2>2. r \in Calls /\ r \notin Appends /\ r \notin Complete BY RunAssumption DEF Calls
  <2>3. /\ \E pc \in {"insert", "done"} : call' = [call EXCEPT ![r].pc = pc]
        /\ UNCHANGED <<version, lastSeq, trials, events, lock>>
        /\ run' = run \/ (Free /\ run = "none" /\ run' = "ACTIVE")
    <3>1. CASE StartRead(r) BY <3>1 DEF StartRead, Goto, rows
    <3>2. CASE StartInsert(r)
      <4>1. /\ call' = [call EXCEPT ![r].pc = "done"]
            /\ UNCHANGED <<version, lastSeq, trials, events, lock>>
            /\ Free /\ run' = IF run = "none" THEN "ACTIVE" ELSE run
        BY <3>2 DEF StartInsert, Goto
      <4> QED BY <4>1
    <3> QED BY <2>1, <3>1, <3>2
  <2>4. \A q \in Appends \cup Complete : call'[q] = call[q]
    BY <2>2, <2>3 DEF Calls
  <2>5. TypeOK' BY <2>2, <2>3
  <2>6. trials <= trials' BY <2>3
  <2>7. Checked' BY <2>3, <2>4 DEF Checked, At, Proves
  <2>8. CompletedIsProven' BY <2>3 DEF CompletedIsProven, Proves
  <2> QED BY <2>3, <2>4, <2>5, <2>6, <2>7, <2>8, Beside
<1>4. CASE \E r \in Complete : CompleteRead(r) \/ CompleteList(r) \/ CompleteUpdate(r)
  <2>1. PICK r \in Complete : CompleteRead(r) \/ CompleteList(r) \/ CompleteUpdate(r)
    BY <1>4
  <2>2. r \in Calls /\ r \notin Appends BY RunAssumption DEF Calls
  <2>3. /\ \E pc \in {"list", "update", "missing", "done", "failed"} :
             /\ call' = [call EXCEPT ![r].pc = pc]
             /\ pc = "update" => Proves(FirstPage)
        /\ UNCHANGED <<version, lastSeq, trials, events, lock>>
        /\ run' = run \/ (Free /\ At(r, "update") /\ run' = "COMPLETED")
    <3>1. CASE CompleteRead(r) BY <3>1 DEF CompleteRead, Goto, rows
    <3>2. CASE CompleteList(r)
      <4>1. \E pc \in {"update", "missing"} : /\ Goto(r, pc)
                                            /\ pc = "update" => Proves(FirstPage)
        BY <3>2 DEF CompleteList
      <4> QED BY <3>2, <4>1 DEF CompleteList, Goto, rows
    <3>3. CASE CompleteUpdate(r)
      <4>1. \E pc \in {"done", "failed"} : Goto(r, pc)
        BY <3>3 DEF CompleteUpdate
      <4>2. /\ UNCHANGED <<version, lastSeq, trials, events, lock>>
            /\ Free /\ At(r, "update")
            /\ run' = IF run = "ACTIVE" THEN "COMPLETED" ELSE run
        BY <3>3 DEF CompleteUpdate
      <4> QED BY <4>1, <4>2 DEF Goto
    <3> QED BY <2>1, <3>1, <3>2, <3>3
  <2>4. \A q \in Appends : call'[q] = call[q] BY <2>2, <2>3 DEF Calls
  <2>5. TypeOK' BY <2>2, <2>3
  <2>6. trials <= trials' BY <2>3
  <2>7. FirstPage \subseteq events BY DEF FirstPage
  <2>8. \A e \in events : e.trial \in 0..trials BY DEF TrialsExist, Event
  <2>9. Proves(FirstPage) => Proves(events) BY <2>7, <2>8, ProvesMore
  <2>10. Proves(events) => Proves(events)' BY <2>3 DEF Proves
  <2>11. Checked'
    <3> SUFFICES ASSUME NEW q \in Complete, At(q, "update")' PROVE Proves(events)'
      BY DEF Checked
    <3>1. CASE q = r BY <2>2, <2>3, <2>9, <2>10, <3>1 DEF At
    <3>2. CASE q # r BY <2>3, <2>10, <3>2 DEF At, Checked, Calls
    <3> QED BY <3>1, <3>2
  <2>12. CompletedIsProven' BY <2>3, <2>10 DEF CompletedIsProven, Checked
  <2> QED BY <2>3, <2>4, <2>5, <2>6, <2>11, <2>12, Beside
<1> QED BY <1>1, <1>2, <1>3, <1>4

\* An append looks its client_event_id up, or gives up: the rows stay as they are.
LEMMA AppendTurns ==
    ASSUME Inv, NEW r \in Appends, AppendLock(r) \/ AppendBump(r) \/ AppendRollback(r)
    PROVE  Inv'
<1> USE DEF Inv, TypeOK
<1>0. r \in Calls /\ r # None /\ r \notin Complete BY RunAssumption DEF Calls
<1>1. UNCHANGED <<version, rows>> BY DEF AppendLock, AppendBump, AppendRollback
<1>2. UNCHANGED <<run, lastSeq, trials, events>> BY <1>1 DEF rows
<1>3. TrialsExist' /\ EvidenceNumbered' /\ CompletedIsProven'
  BY <1>2 DEF TrialsExist, EvidenceNumbered, CompletedIsProven, Proves
<1>4. \A e \in events : e.seq \in Nat /\ e.trial \in Nat /\ e.client \in Client BY DEF Event
<1>5. ASSUME \A q \in Calls : q # r => call'[q] = call[q],
             call'[r] \in [pc : {"idle", "insert", "bump", "commit", "list", "update",
                                 "missing", "done", "failed"},
                           client : Client \cup {None}, item : Item \cup {None},
                           trial : Nat, seq : Nat],
             DOMAIN call' = Calls, call' = [q \in Calls |-> call'[q]],
             lock' \in {None, r}, lock' = r <=> Appending(r)', lock \in {None, r},
             Appending(r)' => /\ call'[r].client \in Client /\ call'[r].item \in Item
                              /\ call'[r].trial <= trials
                              /\ \A e \in events : e.client # call'[r].client,
             At(r, "commit")' => call'[r].seq = lastSeq + 1 /\ run = "ACTIVE",
             At(r, "done")' => \E e \in events : e.client = call'[r].client /\ e.seq = call'[r].seq
      PROVE  Inv'
  <2>1. TypeOK' BY <1>0, <1>1, <1>2, <1>5
  <2>2. \A q \in Appends : q # r => call'[q] = call[q] /\ lock # q /\ lock' # q
    BY <1>5, RunAssumption DEF Calls
  <2>3. LockHeld' BY <1>5, <2>2 DEF LockHeld, Appending
  <2>4. Looked' BY <1>2, <1>5, <2>2 DEF Looked, Appending
  <2>5. Numbering' BY <1>2, <1>5, <2>2 DEF Numbering, At
  <2>6. Checked'
    <3>1. \A q \in Complete : call'[q] = call[q] BY <1>0, <1>5 DEF Calls
    <3> QED BY <1>2, <3>1 DEF Checked, At, Proves
  <2>7. RetryReturnsOriginal' BY <1>2, <1>5, <2>2 DEF RetryReturnsOriginal, At
  <2> QED BY <1>3, <2>1, <2>3, <2>4, <2>5, <2>6, <2>7
<1>6. CASE AppendLock(r)
  <2>1. At(r, "idle") /\ lock = None BY <1>6 DEF AppendLock, Free
  <2>2. CASE \E c \in Client, e \in events :
               /\ e.client = c /\ lock' = lock
               /\ call' = [call EXCEPT ![r].pc = "done", ![r].client = c, ![r].seq = e.seq]
    <3>1. PICK c \in Client, e \in events :
               /\ e.client = c /\ lock' = lock
               /\ call' = [call EXCEPT ![r].pc = "done", ![r].client = c, ![r].seq = e.seq]
      BY <2>2
    <3>2. call'[r].pc = "done" /\ call'[r].client = c /\ call'[r].seq = e.seq
      BY <1>0, <3>1
    <3> QED BY <1>0, <1>4, <1>5, <2>1, <3>1, <3>2 DEF Appending, At
  <2>3. CASE \E c \in Client, i \in Item, t \in 0..trials :
               /\ \A e \in events : e.client # c
               /\ lock' = r
               /\ call' = [call EXCEPT ![r].pc = "bump", ![r].client = c,
                                       ![r].item = i, ![r].trial = t]
    <3>1. PICK c \in Client, i \in Item, t \in 0..trials :
               /\ \A e \in events : e.client # c
               /\ lock' = r
               /\ call' = [call EXCEPT ![r].pc = "bump", ![r].client = c,
                                       ![r].item = i, ![r].trial = t]
      BY <2>3
    <3>2. /\ call'[r].pc = "bump" /\ call'[r].client = c /\ call'[r].item = i
          /\ call'[r].trial = t
      BY <1>0, <3>1
    <3>3. t \in Nat /\ t <= trials OBVIOUS
    <3>4. call'[r].seq = call[r].seq BY <1>0, <3>1
    <3>5. call'[r] \in [pc : {"idle", "insert", "bump", "commit", "list", "update",
                             "missing", "done", "failed"},
                       client : Client \cup {None}, item : Item \cup {None},
                       trial : Nat, seq : Nat]
      BY <1>0, <3>1, <3>3
    <3>6. /\ \A q \in Calls : q # r => call'[q] = call[q]
          /\ DOMAIN call' = Calls /\ call' = [q \in Calls |-> call'[q]]
      BY <3>1
    <3> QED BY <1>5, <2>1, <3>1, <3>2, <3>3, <3>5, <3>6 DEF Appending, At
  <2> QED
    <3>1. PICK c \in Client :
         \/ \E e \in events :
              /\ e.client = c
              /\ call' = [call EXCEPT ![r].pc = "done", ![r].client = c, ![r].seq = e.seq]
              /\ UNCHANGED lock
         \/ /\ \A e \in events : e.client # c
            /\ lock' = r
            /\ \E i \in Item, t \in 0..trials :
                 call' = [call EXCEPT ![r].pc = "bump", ![r].client = c,
                                      ![r].item = i, ![r].trial = t]
      BY <1>6 DEF AppendLock
    <3>2. CASE \E e \in events :
              /\ e.client = c
              /\ call' = [call EXCEPT ![r].pc = "done", ![r].client = c, ![r].seq = e.seq]
              /\ UNCHANGED lock
      <4>1. \E c2 \in Client, e \in events :
               /\ e.client = c2 /\ lock' = lock
               /\ call' = [call EXCEPT ![r].pc = "done", ![r].client = c2, ![r].seq = e.seq]
        BY <3>2
      <4> QED BY <2>2, <4>1
    <3>3. CASE /\ \A e \in events : e.client # c
               /\ lock' = r
               /\ \E i \in Item, t \in 0..trials :
                    call' = [call EXCEPT ![r].pc = "bump", ![r].client = c,
                                         ![r].item = i, ![r].trial = t]
      <4>1. \E c2 \in Client, i \in Item, t \in 0..trials :
               /\ \A e \in events : e.client # c2
               /\ lock' = r
               /\ call' = [call EXCEPT ![r].pc = "bump", ![r].client = c2,
                                       ![r].item = i, ![r].trial = t]
        BY <3>3
      <4> QED BY <2>3, <4>1
    <3> QED BY <3>1, <3>2, <3>3
<1>7. CASE AppendBump(r)
  <2>1. At(r, "bump") /\ lock = r BY <1>7 DEF AppendBump, LockHeld, Appending, At
  <2>2. CASE /\ run = "ACTIVE" /\ lock' = r
             /\ call' = [call EXCEPT ![r].pc = "commit", ![r].seq = lastSeq + 1]
    <3>1. /\ call'[r].pc = "commit" /\ call'[r].seq = lastSeq + 1
          /\ call'[r].client = call[r].client /\ call'[r].item = call[r].item
          /\ call'[r].trial = call[r].trial
      BY <1>0, <2>2
    <3>2. Appending(r) BY <2>1 DEF Appending, At
    <3>3. call'[r].seq \in Nat BY <3>1
    <3>4. call'[r] \in [pc : {"idle", "insert", "bump", "commit", "list", "update",
                             "missing", "done", "failed"},
                       client : Client \cup {None}, item : Item \cup {None},
                       trial : Nat, seq : Nat]
      BY <1>0, <2>2, <3>1, <3>3
    <3>5. /\ \A q \in Calls : q # r => call'[q] = call[q]
          /\ DOMAIN call' = Calls /\ call' = [q \in Calls |-> call'[q]]
      BY <2>2
    <3>6. /\ call'[r].client \in Client /\ call'[r].item \in Item
          /\ call'[r].trial <= trials
          /\ \A e \in events : e.client # call'[r].client
      BY <3>1, <3>2 DEF Looked
    <3> QED BY <1>5, <2>1, <2>2, <3>1, <3>4, <3>5, <3>6 DEF Appending, At
  <2>3. CASE lock' = None /\ Goto(r, "failed")
    <3>1. call' = [call EXCEPT ![r].pc = "failed"] BY <2>3 DEF Goto
    <3>2. call'[r].pc = "failed" BY <1>0, <3>1
    <3> QED BY <1>0, <1>5, <2>1, <2>3, <3>1, <3>2 DEF Appending, At
  <2> QED BY <1>7, <2>2, <2>3 DEF AppendBump
<1>8. CASE AppendRollback(r)
  <2>1. lock = r /\ lock' = None /\ call' = [call EXCEPT ![r].pc = "failed"]
    BY <1>8 DEF AppendRollback, Goto, LockHeld, Appending
  <2>2. call'[r].pc = "failed" BY <1>0, <2>1
  <2> QED BY <1>0, <1>5, <2>1, <2>2 DEF Appending, At
<1> QED BY <1>6, <1>7, <1>8

\* An append commits the next number with the first event of its id.
LEMMA CommitInv ==
    ASSUME Inv, NEW r \in Appends, AppendCommit(r)
    PROVE  Inv'
<1> USE DEF Inv, TypeOK
<1> DEFINE new == [seq |-> call[r].seq, client |-> call[r].client,
                   item |-> call[r].item, trial |-> call[r].trial]
<1>0. r \in Calls /\ r # None /\ r \notin Complete BY RunAssumption DEF Calls
<1>1. /\ call[r].pc = "commit" /\ lastSeq' = call[r].seq /\ events' = events \cup {new}
      /\ lock' = None /\ call' = [call EXCEPT ![r].pc = "done"]
      /\ UNCHANGED <<version, run, trials>>
  BY DEF AppendCommit, At, Goto
<1>2. /\ lock = r /\ run = "ACTIVE" /\ call[r].seq = lastSeq + 1
      /\ call[r].client \in Client /\ call[r].item \in Item /\ call[r].trial <= trials
      /\ \A e \in events : e.client # call[r].client
  BY <1>1 DEF LockHeld, Looked, Numbering, Appending, At
<1>3. call[r].trial \in Nat /\ call[r].seq \in Nat \ {0} BY <1>0, <1>2
<1>4. new \in Event BY <1>2, <1>3 DEF Event
<1>5. TypeOK' BY <1>0, <1>1, <1>4
<1>6. \A q \in Appends : q # r => call'[q] = call[q] /\ ~Appending(q)
  BY <1>0, <1>1, <1>2 DEF LockHeld, Calls
<1>7. call'[r].pc = "done" /\ call'[r].client = call[r].client /\ call'[r].seq = call[r].seq
  BY <1>0, <1>1
<1>8. LockHeld' BY <1>1, <1>6, <1>7, RunAssumption DEF LockHeld, Appending
<1>9. Looked' /\ Numbering' BY <1>6, <1>7 DEF Looked, Numbering, Appending, At
<1>10. TrialsExist' BY <1>1, <1>2 DEF TrialsExist
<1>11. \A e \in events : e.trial \in 0..trials BY DEF TrialsExist, Event
<1>12. \A e \in events' : e.trial \in 0..trials BY <1>1, <1>2, <1>3, <1>11
<1>13. Proves(events) => Proves(events') BY <1>1, <1>12, ProvesMore
<1>14. Checked'
  <2>1. \A q \in Complete : call'[q] = call[q] BY <1>0, <1>1 DEF Calls
  <2>2. Proves(events') <=> Proves(events)' BY DEF Proves
  <2> QED BY <1>13, <2>1, <2>2 DEF Checked, At
<1>15. CompletedIsProven' BY <1>1, <1>2 DEF CompletedIsProven
<1>16. EvidenceNumbered'
  <2>1. {e.seq : e \in events'} = {e.seq : e \in events} \cup {lastSeq + 1}
    <3>1. new.seq = lastSeq + 1 BY <1>2
    <3> HIDE DEF new
    <3> QED BY <1>1, <3>1
  <2>2. 1..(lastSeq + 1) = 1..lastSeq \cup {lastSeq + 1} OBVIOUS
  <2>3. {e.seq : e \in events'} = 1..lastSeq' BY <1>1, <1>2, <2>1, <2>2 DEF EvidenceNumbered
  <2>4. \A e \in events : e.seq \in 1..lastSeq BY DEF EvidenceNumbered
  <2>5. \A e \in events : e.seq # new.seq BY <1>2, <2>4
  <2>6. \A e, f \in events' : e.seq = f.seq => e = f
    BY <1>1, <2>5 DEF EvidenceNumbered
  <2> QED BY <2>3, <2>6 DEF EvidenceNumbered
<1>17. RetryReturnsOriginal'
  <2>1. \A e, f \in events' : e.client = f.client => e = f
    BY <1>1, <1>2 DEF RetryReturnsOriginal
  <2>2. \A q \in Appends : At(q, "done")' =>
          \E e \in events' : e.client = call'[q].client /\ e.seq = call'[q].seq
    <3> SUFFICES ASSUME NEW q \in Appends, At(q, "done")'
                 PROVE  \E e \in events' : e.client = call'[q].client /\ e.seq = call'[q].seq
      OBVIOUS
    <3>1. CASE q = r
      <4>1. new.client = call'[q].client /\ new.seq = call'[q].seq BY <1>7, <3>1
      <4> QED BY <1>1, <4>1
    <3>2. CASE q # r BY <1>1, <1>6, <3>2 DEF RetryReturnsOriginal, At
    <3> QED BY <3>1, <3>2
  <2> QED BY <2>1, <2>2 DEF RetryReturnsOriginal
<1> QED BY <1>5, <1>8, <1>9, <1>10, <1>14, <1>15, <1>16, <1>17

\* Every step keeps the invariant.
LEMMA NextInv == Inv /\ [Next]_vars => Inv'
<1> SUFFICES ASSUME Inv, [Next]_vars PROVE Inv' OBVIOUS
<1>1. CASE Next
  <2>1. CASE \E r \in Appends : AppendCommit(r) BY <2>1, CommitInv
  <2>2. CASE \E r \in Appends : AppendLock(r) \/ AppendBump(r) \/ AppendRollback(r)
    BY <2>2, AppendTurns
  <2> QED BY <1>1, <2>1, <2>2, OthersInv DEF Next
<1>2. CASE UNCHANGED vars
  BY <1>2
  DEF vars, rows, Inv, TypeOK, LockHeld, Looked, Numbering, TrialsExist, Checked,
      EvidenceNumbered, RetryReturnsOriginal, CompletedIsProven, Appending, At, Proves
<1> QED BY <1>1, <1>2

LEMMA InvHolds == Spec => []Inv
  BY InitInv, NextInv, PTL DEF Spec

\* The rows and the calls keep their shapes.
THEOREM TypeCorrect == Spec => []TypeOK
<1>1. Inv => TypeOK BY DEF Inv
<1> QED BY InvHolds, <1>1, PTL

\* The events of a run are numbered 1, 2, 3 and so on, whatever retries and
\* rollbacks come in between.
THEOREM NumbersHaveNoGap == Spec => []EvidenceNumbered
<1>1. Inv => EvidenceNumbered BY DEF Inv
<1> QED BY InvHolds, <1>1, PTL

\* Every answered call of one client_event_id was answered with one event.
THEOREM RetriesAgree == Spec => []RetryReturnsOriginal
<1>1. Inv => RetryReturnsOriginal BY DEF Inv
<1> QED BY InvHolds, <1>1, PTL

\* A completed run has the evidence its definition requires, although it was
\* checked some statements before the run was completed.
THEOREM CompletionIsProven == Spec => []CompletedIsProven
<1>1. Inv => CompletedIsProven BY DEF Inv
<1> QED BY InvHolds, <1>1, PTL

\* Nothing is added to a completed run.
THEOREM CompletionSeals == Spec => CompletedIsSealed
<1>1. Inv /\ Next => (run = "COMPLETED" => UNCHANGED rows)
  <2> SUFFICES ASSUME Inv, Next, run = "COMPLETED" PROVE UNCHANGED rows OBVIOUS
  <2>1. CASE \E r \in Appends : AppendCommit(r)
    BY <2>1 DEF AppendCommit, Inv, Numbering
  <2> QED
    BY <2>1
    DEF Next, rows, Supersede, CreateTrial, StartRead, StartInsert, AppendLock, AppendBump,
        AppendRollback, CompleteRead, CompleteList, CompleteUpdate
<1>2. UNCHANGED vars => UNCHANGED rows BY DEF vars, rows
<1>3. Inv /\ [Next]_vars => [run = "COMPLETED" => UNCHANGED rows]_vars
  BY <1>1, <1>2
<1> QED BY InvHolds, <1>3, PTL DEF Spec, CompletedIsSealed

\* As long as the events fit a page, the page has them all.
LEMMA PageHasAll ==
    ASSUME Inv, lastSeq <= Page
    PROVE  FirstPage = events
<1> SUFFICES ASSUME NEW e \in events
             PROVE  Cardinality({f \in events : f.seq < e.seq}) < Page
  BY DEF FirstPage
<1> DEFINE S == {f \in events : f.seq < e.seq}
           before == [f \in S |-> f.seq]
<1>1. /\ Page \in Nat /\ lastSeq \in Nat
      /\ \A f \in events : f.seq \in 1..lastSeq
      /\ \A f, g \in events : f.seq = g.seq => f = g
  BY RunAssumption DEF Inv, TypeOK, EvidenceNumbered
<1>2. PICK n \in 1..lastSeq : n = e.seq BY <1>1
<1>3. before \in Injection(S, 1..(n - 1))
  <2>1. \A f \in S : f.seq \in 1..(n - 1) BY <1>1, <1>2
  <2>2. before \in [S -> 1..(n - 1)] BY <2>1
  <2>3. IsInjective(before) BY <1>1 DEF IsInjective
  <2> QED BY <2>2, <2>3 DEF Injection
<1> HIDE DEF S, before
<1>4. n - 1 \in Nat /\ n - 1 < Page BY <1>1
<1>5. IsFiniteSet(1..(n - 1)) /\ Cardinality(1..(n - 1)) = n - 1
  <2>1. /\ IsFiniteSet(1..(n - 1))
        /\ Cardinality(1..(n - 1)) = IF 1 > n - 1 THEN 0 ELSE (n - 1) - 1 + 1
    BY <1>4, FS_Interval
  <2> QED BY <1>4, <2>1
<1>6. IsFiniteSet(S) /\ Cardinality(S) <= n - 1 BY <1>3, <1>5, FS_Injection
<1>7. Cardinality(S) \in Nat BY <1>6, FS_CardinalityType
<1>8. Cardinality(S) < Page BY <1>1, <1>4, <1>6, <1>7
<1> QED BY <1>8 DEF S

\* While the events of a run fit the page CompleteRun reads, a completion is
\* refused only for evidence that is missing, whatever is appended beside it.
THEOREM RefusalIsJust == Spec /\ [](lastSeq <= Page) => RefusedIsMissing
<1> DEFINE Just == \A r \in Complete :
                     At(r, "list") /\ call'[r].pc = "missing" => ~Proves(events)
<1>1. Inv /\ lastSeq <= Page /\ [Next]_vars => [Just]_vars
  <2> SUFFICES ASSUME Inv, lastSeq <= Page, Next,
                      NEW r \in Complete, At(r, "list"), call'[r].pc = "missing"
               PROVE  ~Proves(events)
    OBVIOUS
  <2>1. r \in Calls /\ r \notin Appends /\ r \notin Start BY RunAssumption DEF Calls
  <2>2. CompleteList(r)
    <3>1. call \in [Calls -> [pc : {"idle", "insert", "bump", "commit", "list", "update",
                                    "missing", "done", "failed"},
                              client : Client \cup {None}, item : Item \cup {None},
                              trial : Nat, seq : Nat]]
      BY DEF Inv, TypeOK
    <3>2. call'[r] # call[r] BY DEF At
    <3>3. ~ (Supersede \/ CreateTrial) BY <3>2 DEF Supersede, CreateTrial
    <3>4. \A s \in Start : ~ (StartRead(s) \/ StartInsert(s))
      BY <2>1, <3>1, <3>2 DEF StartRead, StartInsert, Goto, Calls
    <3>5. ASSUME NEW s \in Appends
          PROVE  ~ (AppendLock(s) \/ AppendBump(s) \/ AppendCommit(s) \/ AppendRollback(s))
      <4>1. s # r /\ s \in Calls BY <2>1 DEF Calls
      <4>2. ~ AppendLock(s) BY <2>1, <3>1, <3>2, <4>1 DEF AppendLock
      <4>3. ~ (AppendBump(s) \/ AppendCommit(s) \/ AppendRollback(s))
        BY <2>1, <3>1, <3>2, <4>1 DEF AppendBump, AppendCommit, AppendRollback, Goto
      <4> QED BY <4>2, <4>3
    <3>6. \A s \in Complete \ {r} : ~ (CompleteRead(s) \/ CompleteList(s) \/ CompleteUpdate(s))
      BY <2>1, <3>1, <3>2 DEF CompleteRead, CompleteList, CompleteUpdate, Goto, Calls
    <3>7. ~ (CompleteRead(r) \/ CompleteUpdate(r)) BY DEF CompleteRead, CompleteUpdate, At
    <3> QED BY <3>3, <3>4, <3>5, <3>6, <3>7 DEF Next
  <2>3. call'[r].pc = IF Proves(FirstPage) THEN "update" ELSE "missing"
    BY <2>1, <2>2 DEF CompleteList, Goto, Inv, TypeOK
  <2> QED BY <2>3, PageHasAll
<1> QED BY InvHolds, <1>1, PTL DEF Spec, RefusedIsMissing

-----------------------------------------------------------------------------
(***************************************************************************)
(* The run implements EvidenceLog.  The invariant says what the mapping    *)
(* needs: a number from 1 to last_event_seq belongs to one event, the      *)
(* append that commits holds the next number and a key no event has, and a *)
(* retry was told the number of its key's event.                           *)
(***************************************************************************)
Listed == [n \in 1..lastSeq |-> Entry(n)]
Replied == [r \in Appends |-> IF At(r, "done")
                              THEN [key |-> call[r].client, place |-> call[r].seq]
                              ELSE None]

\* A number has its event's entry.
LEMMA EntryOf ==
    ASSUME Inv, NEW e \in events
    PROVE  /\ e.seq \in 1..lastSeq
           /\ Entry(e.seq) = [key |-> e.client, item |-> e.item, trial |-> e.trial]
<1>1. e.seq \in 1..lastSeq /\ \A f \in events : f.seq = e.seq => f = e
  BY DEF Inv, EvidenceNumbered
<1>2. (CHOOSE x \in events : x.seq = e.seq) = e BY <1>1
<1> QED BY <1>1, <1>2 DEF Entry

LEMMA EventOf ==
    ASSUME Inv, NEW n \in 1..lastSeq
    PROVE  \E e \in events : e.seq = n
  BY DEF Inv, EvidenceNumbered

LEMMA LogInit == Init => Log!Init
<1> SUFFICES ASSUME Init PROVE Log!Init
  OBVIOUS
<1>1. lastSeq = 0 /\ trials = 0 /\ run = "none" /\ \A r \in Appends : call[r] = Fresh
  BY DEF Init, Calls
<1>2. Listed = << >> BY <1>1 DEF Listed
<1>3. Replied = [r \in Appends |-> None] BY <1>1 DEF Replied, At, Fresh
<1> QED BY <1>1, <1>2, <1>3 DEF Log!Init, Listed, Replied

\* A step that commits nothing and answers nobody leaves the log and the replies.
LEMMA LogStays ==
    ASSUME UNCHANGED <<events, lastSeq>>,
           \A r \in Appends : /\ At(r, "done")' <=> At(r, "done")
                              /\ At(r, "done") => call'[r] = call[r]
    PROVE  Listed' = Listed /\ Replied' = Replied
<1>1. Listed' = Listed BY DEF Listed, Entry
<1>2. Replied' = Replied BY DEF Replied
<1> QED BY <1>1, <1>2

\* CreateRun, CreateTrial, CompleteRun and another publication.
LEMMA LogBeside ==
    ASSUME Inv,
           \/ Supersede \/ CreateTrial
           \/ \E r \in Start : StartRead(r) \/ StartInsert(r)
           \/ \E r \in Complete : CompleteRead(r) \/ CompleteList(r) \/ CompleteUpdate(r)
    PROVE  [Log!Next]_(Log!vars)
<1>1. call \in [Calls -> [pc : {"idle", "insert", "bump", "commit", "list", "update",
                                "missing", "done", "failed"},
                          client : Client \cup {None}, item : Item \cup {None},
                          trial : Nat, seq : Nat]]
  BY DEF Inv, TypeOK
<1>2. UNCHANGED <<events, lastSeq>> /\ \A r \in Appends : call'[r] = call[r]
  <2>1. CASE Supersede \/ CreateTrial BY <2>1 DEF Supersede, CreateTrial, rows
  <2>2. CASE \E s \in Start : StartRead(s) \/ StartInsert(s)
    BY <1>1, <2>2, RunAssumption DEF StartRead, StartInsert, Goto, Calls, rows
  <2>3. CASE \E s \in Complete : CompleteRead(s) \/ CompleteList(s) \/ CompleteUpdate(s)
    BY <1>1, <2>3, RunAssumption
       DEF CompleteRead, CompleteList, CompleteUpdate, Goto, Calls, rows
  <2> QED BY <2>1, <2>2, <2>3
<1>3. Listed' = Listed /\ Replied' = Replied BY <1>2, LogStays DEF At
<1>4. \/ UNCHANGED <<run, trials>>
      \/ run = "ACTIVE" /\ trials' = trials + 1 /\ UNCHANGED run
      \/ run = "none" /\ run' = "ACTIVE" /\ UNCHANGED trials
      \/ run = "ACTIVE" /\ run' = "COMPLETED" /\ UNCHANGED trials
  <2>1. CASE Supersede \/ CreateTrial BY <2>1 DEF Supersede, CreateTrial, rows
  <2>2. CASE \E s \in Start : StartRead(s) \/ StartInsert(s)
    BY <2>2 DEF StartRead, StartInsert, rows
  <2>3. CASE \E s \in Complete : CompleteRead(s) \/ CompleteList(s) \/ CompleteUpdate(s)
    BY <2>3 DEF CompleteRead, CompleteList, CompleteUpdate, rows
  <2> QED BY <2>1, <2>2, <2>3
<1> QED BY <1>3, <1>4 DEF Log!Next, Log!vars, Log!Move, Log!Try, Listed, Replied

\* An append that finds its key is told the place of its event; the others wait,
\* take a number or give up.
LEMMA LogTurns ==
    ASSUME Inv, NEW r \in Appends, AppendLock(r) \/ AppendBump(r) \/ AppendRollback(r)
    PROVE  [Log!Next]_(Log!vars)
<1>1. call \in [Calls -> [pc : {"idle", "insert", "bump", "commit", "list", "update",
                                "missing", "done", "failed"},
                          client : Client \cup {None}, item : Item \cup {None},
                          trial : Nat, seq : Nat]]
  BY DEF Inv, TypeOK
<1>2. r \in Calls BY DEF Calls
<1>3. UNCHANGED <<run, trials, events, lastSeq>>
  BY DEF AppendLock, AppendBump, AppendRollback, rows
<1>4. call[r].pc # "done" BY DEF AppendLock, AppendBump, AppendRollback, At
<1>5. CASE \E e \in events, c \in Client :
              /\ e.client = c
              /\ call' = [call EXCEPT ![r].pc = "done", ![r].client = c, ![r].seq = e.seq]
  <2>1. PICK e \in events :
           call' = [call EXCEPT ![r].pc = "done", ![r].client = e.client, ![r].seq = e.seq]
    BY <1>5
  <2>2. PICK n \in 1..lastSeq :
           n = e.seq /\ Entry(n) = [key |-> e.client, item |-> e.item, trial |-> e.trial]
    BY EntryOf
  <2>3. /\ call'[r].pc = "done" /\ call'[r].client = e.client /\ call'[r].seq = n
        /\ \A q \in Appends \ {r} : call'[q] = call[q]
    BY <1>1, <1>2, <2>1, <2>2 DEF Calls
  <2>4. Replied[r] = None BY <1>4 DEF Replied, At
  <2>5. Replied' = [Replied EXCEPT ![r] = [key |-> e.client, place |-> n]]
    BY <2>3 DEF Replied, At
  <2>6. Listed' = Listed BY <1>3 DEF Listed, Entry
  <2>7. lastSeq \in Nat BY DEF Inv, TypeOK
  <2>8. Len(Listed) = lastSeq /\ Listed[n].key = e.client BY <2>2, <2>7 DEF Listed
  <2>9. Log!Repeat(r)
    BY <1>3, <2>4, <2>5, <2>6, <2>8 DEF Log!Repeat, Log!Answer, Listed, Replied
  <2> QED BY <2>9 DEF Log!Next
<1>6. ASSUME call'[r].pc # "done", \A q \in Appends \ {r} : call'[q] = call[q]
      PROVE  [Log!Next]_(Log!vars)
  <2>1. \A q \in Appends : /\ At(q, "done")' <=> At(q, "done")
                           /\ At(q, "done") => call'[q] = call[q]
    BY <1>4, <1>6 DEF At
  <2>2. Listed' = Listed /\ Replied' = Replied BY <1>3, <2>1, LogStays
  <2> QED BY <1>3, <2>2 DEF Log!vars, Listed, Replied
<1>7. CASE AppendLock(r)
  <2>1. PICK c \in Client :
         \/ \E e \in events :
              /\ e.client = c
              /\ call' = [call EXCEPT ![r].pc = "done", ![r].client = c, ![r].seq = e.seq]
         \/ \E i \in Item, t \in 0..trials :
                 call' = [call EXCEPT ![r].pc = "bump", ![r].client = c,
                                      ![r].item = i, ![r].trial = t]
    BY <1>7 DEF AppendLock
  <2>2. CASE \E e \in events :
              /\ e.client = c
              /\ call' = [call EXCEPT ![r].pc = "done", ![r].client = c, ![r].seq = e.seq]
    BY <1>5, <2>2
  <2>3. CASE \E i \in Item, t \in 0..trials :
                 call' = [call EXCEPT ![r].pc = "bump", ![r].client = c,
                                      ![r].item = i, ![r].trial = t]
    <3>1. call'[r].pc = "bump" /\ \A q \in Appends \ {r} : call'[q] = call[q]
      BY <1>1, <1>2, <2>3 DEF Calls
    <3> QED BY <1>6, <3>1
  <2> QED BY <2>1, <2>2, <2>3
<1>8. CASE AppendBump(r) \/ AppendRollback(r)
  <2>1. call'[r].pc \in {"commit", "failed"} /\ \A q \in Appends \ {r} : call'[q] = call[q]
    BY <1>1, <1>2, <1>8 DEF AppendBump, AppendRollback, Goto, Calls
  <2> QED BY <1>6, <2>1
<1> QED BY <1>7, <1>8

\* A commit records the entry at the next place and answers with it.
LEMMA LogCommit ==
    ASSUME Inv, NEW r \in Appends, AppendCommit(r)
    PROVE  Log!Record(r)
<1> DEFINE new == [seq |-> call[r].seq, client |-> call[r].client,
                   item |-> call[r].item, trial |-> call[r].trial]
           entry == [key |-> call[r].client, item |-> call[r].item, trial |-> call[r].trial]
<1>1. /\ call[r].seq = lastSeq + 1 /\ lastSeq' = lastSeq + 1
      /\ events' = events \cup {new}
      /\ run = "ACTIVE" /\ UNCHANGED <<run, trials>>
      /\ lastSeq \in Nat
  BY DEF AppendCommit, Inv, TypeOK, Numbering
<1>2. /\ call'[r].pc = "done" /\ call'[r].client = call[r].client
      /\ call'[r].seq = lastSeq + 1
      /\ \A q \in Appends \ {r} : call'[q] = call[q]
  BY <1>1 DEF AppendCommit, Goto, Inv, TypeOK, Calls
<1>3. /\ call[r].client \in Client /\ call[r].item \in Item
      /\ call[r].trial \in 0..trials
      /\ \A e \in events : e.client # call[r].client
  <2>1. Appending(r) BY DEF AppendCommit, At, Appending
  <2>2. call[r].trial \in Nat BY DEF Inv, TypeOK, Calls
  <2> QED BY <2>1, <2>2 DEF Inv, TypeOK, Looked
<1>4. \A n \in 1..lastSeq : Entry(n).key # call[r].client /\ Entry(n)' = Entry(n)
  <2> SUFFICES ASSUME NEW n \in 1..lastSeq
               PROVE  Entry(n).key # call[r].client /\ Entry(n)' = Entry(n)
    OBVIOUS
  <2>1. PICK e \in events : e.seq = n BY EventOf
  <2>2. Entry(n) = [key |-> e.client, item |-> e.item, trial |-> e.trial]
    BY <2>1, EntryOf
  <2>3. \A f \in events' : f.seq = n => f = e
    BY <1>1, <2>1 DEF Inv, EvidenceNumbered
  <2>4. (CHOOSE x \in events' : x.seq = n) = e BY <1>1, <2>1, <2>3
  <2> QED BY <1>3, <2>2, <2>4 DEF Entry
<1>5. ASSUME NEW n \in {lastSeq + 1} PROVE Entry(n)' = entry
  <2>1. \A f \in events : f.seq # lastSeq + 1 BY <1>1 DEF Inv, EvidenceNumbered
  <2>2. \A f \in events' : f.seq = lastSeq + 1 => f = new BY <1>1, <2>1
  <2>3. new \in events' /\ new.seq = lastSeq + 1 BY <1>1
  <2>4. (CHOOSE x \in events' : x.seq = n) = new BY <2>2, <2>3
  <2>5. Entry(n)' = [key |-> new.client, item |-> new.item, trial |-> new.trial]
    <3> HIDE DEF new
    <3> QED BY <2>4 DEF Entry
  <2> QED BY <2>5
<1>6. Len(Listed) = lastSeq /\ \A n \in 1..lastSeq : Listed[n] = Entry(n)
  BY <1>1 DEF Listed
<1>7. Listed' = Listed \o <<entry>>
  <2> HIDE DEF entry
  <2>1. Listed \o <<entry>>
          = [n \in 1..(lastSeq + 1) |-> IF n <= lastSeq THEN Entry(n) ELSE entry]
    BY <1>1 DEF Listed
  <2>2. \A n \in 1..(lastSeq + 1) :
          Entry(n)' = IF n <= lastSeq THEN Entry(n) ELSE entry
    BY <1>1, <1>4, <1>5
  <2> QED BY <1>1, <2>1, <2>2 DEF Listed
<1>8. Replied[r] = None /\ Replied' = [Replied EXCEPT ![r] = [key   |-> call[r].client,
                                                             place |-> lastSeq + 1]]
  BY <1>2 DEF Replied, At, AppendCommit
<1>9. /\ \A n \in 1..Len(Listed) : Listed[n].key # call[r].client
      /\ Len(Listed) + 1 = lastSeq + 1
  BY <1>4, <1>6
<1> HIDE DEF new
<1> QED
  BY <1>1, <1>3, <1>7, <1>8, <1>9 DEF Log!Record, Log!Answer, Listed, Replied

LEMMA LogNext == Inv /\ [Next]_vars => [Log!Next]_(Log!vars)
<1> SUFFICES ASSUME Inv, [Next]_vars PROVE [Log!Next]_(Log!vars)
  OBVIOUS
<1>1. CASE UNCHANGED vars
  <2>1. UNCHANGED <<run, trials, events, lastSeq, call>> BY <1>1 DEF vars, rows
  <2>2. Listed' = Listed /\ Replied' = Replied BY <2>1, LogStays DEF At
  <2> QED BY <2>1, <2>2 DEF Log!vars, Listed, Replied
<1>2. CASE \E r \in Appends : AppendCommit(r)
  <2>1. PICK r \in Appends : Log!Record(r) BY <1>2, LogCommit
  <2> QED BY <2>1 DEF Log!Next
<1>3. CASE \E r \in Appends : AppendLock(r) \/ AppendBump(r) \/ AppendRollback(r)
  BY <1>3, LogTurns
<1> QED BY <1>1, <1>2, <1>3, LogBeside DEF Next

\* The evidence of a run is an append-only list, closed by the completion, and every
\* answered call was told the place of its client_event_id in it.
THEOREM RunKeepsLog == Spec => LogSpec
<1> QED BY InvHolds, LogInit, LogNext, PTL DEF Spec, LogSpec, Log!Spec
=============================================================================
