------------------------- MODULE ContentIndexProofs -------------------------
(***************************************************************************)
(* Proofs about ContentIndex for any number of contents, requests and      *)
(* mishaps: no record of the upload topic is acknowledged unfinished, and  *)
(* a content shown as indexed has been through the storing step, with a    *)
(* named reason where there are no chunks.                                 *)
(***************************************************************************)
EXTENDS ContentIndex, SequenceTheorems, TLAPS

Elems(s) == {s[k] : k \in DOMAIN s}

Requests == Triggers \cup Publishers \cup Resets
Chunks == {"none", "stored", "blank", "dropped"}
Record == [id : Nat, content : Content]
Status == [content : Content, status : Statuses]
LmsType == [Content -> [status : Statuses \cup {"not_indexed"}, fresh : BOOLEAN]]
AiType == [Content -> [status : Statuses \cup {"unindexed", "pending"}, fresh : BOOLEAN]]
WorkerType == [pc : {"idle", "beginDb", "beginSend", "run", "stored", "finalDb",
                     "finalSend", "finish"},
               fin : {"indexed", "failed"}, again : BOOLEAN, replay : BOOLEAN]
ReqType == [Requests -> [pc : {"idle", "send", "mark", "wait", "done"},
                         server : {"none", "check", "mark", "send", "done"}, content : Content]]

Stores == /\ row \in [Content -> {"new", "live", "deleted"}]
          /\ chunks \in [Content -> Chunks]
          /\ lms \in LmsType /\ ai \in AiType
Topics == /\ uploads \in Seq(Record) /\ \A u \in Elems(uploads) : u.id \in 1..sent
          /\ commands \in Seq(Content)
          /\ statuses \in Seq(Status)
          /\ sent \in Nat /\ ended \subseteq 1..sent
Processes == /\ worker \in WorkerType
             /\ beat \in {"off", "db", "send"}
             /\ req \in ReqType
             /\ Running => uploads # <<>>
             /\ beat # "off" => Running
Shape == Stores /\ Topics /\ Processes

\* A run has stored the chunks of c, found none or had them dropped by a Reset
\* since, or nobody asks for them any more.
Kept(c) == chunks[c] # "none" \/ row[c] = "deleted"

\* Whatever says that a content is indexed is right: the two tables, an event on
\* its way, the worker about to write it.
Reported == \A c \in Content : "indexed" \in {lms[c].status, ai[c].status} => Kept(c)
Announced == \A e \in Elems(statuses) : e.status = "indexed" => Kept(e.content)
Working == worker.pc = "stored" \/ worker.fin = "indexed" => Running /\ Kept(Current)
\* A command to erase chunks is about a content that is gone.
Commanded == \A c \in Elems(commands) : row[c] = "deleted"
\* A record is in the topic or its handler has ended; the worker leaves only then.
Logged == \A i \in 1..sent : i \in ended \/ \E u \in Elems(uploads) : u.id = i
Finishing == worker.pc = "finish" => Head(uploads).id \in ended

Inv == Shape /\ Reported /\ Announced /\ Working /\ Commanded /\ Logged /\ Finishing
-----------------------------------------------------------------------------
(* Topics as sets of records.                                                *)

LEMMA AppendElems ==
    ASSUME NEW S, NEW s \in Seq(S), NEW e \in S
    PROVE  /\ Append(s, e) \in Seq(S)
           /\ Elems(Append(s, e)) = Elems(s) \cup {e}
           /\ Append(s, e) # <<>>
           /\ s # <<>> => Head(Append(s, e)) = Head(s)
<1>1. /\ Append(s, e) \in Seq(S) /\ Len(Append(s, e)) = Len(s) + 1
      /\ DOMAIN Append(s, e) = 1..(Len(s) + 1) /\ DOMAIN s = 1..Len(s) /\ Len(s) \in Nat
      /\ \A k \in 1..Len(s) : Append(s, e)[k] = s[k]
      /\ Append(s, e)[Len(s) + 1] = e
  OBVIOUS
<1>2. Elems(Append(s, e)) = Elems(s) \cup {e}
  <2>1. 1..(Len(s) + 1) = 1..Len(s) \cup {Len(s) + 1} BY <1>1
  <2>2. \A x \in Elems(Append(s, e)) : x \in Elems(s) \cup {e} BY <1>1, <2>1 DEF Elems
  <2>3. \A x \in Elems(s) \cup {e} : x \in Elems(Append(s, e)) BY <1>1, <2>1 DEF Elems
  <2> QED BY <2>2, <2>3
<1>3. s # <<>> => Head(Append(s, e)) = Head(s)
  <2> SUFFICES ASSUME s # <<>> PROVE Head(Append(s, e)) = Head(s) OBVIOUS
  <2>1. Len(s) >= 1 BY EmptySeq
  <2> QED BY <1>1, <2>1
<1> QED BY <1>1, <1>2, <1>3

LEMMA TailElems ==
    ASSUME NEW S, NEW s \in Seq(S), s # <<>>
    PROVE  /\ Tail(s) \in Seq(S) /\ Head(s) \in S /\ Head(s) \in Elems(s)
           /\ Elems(s) = Elems(Tail(s)) \cup {Head(s)}
<1>1. /\ Tail(s) \in Seq(S) /\ Head(s) \in S /\ Len(Tail(s)) = Len(s) - 1
      /\ \A i \in 1..Len(Tail(s)) : Tail(s)[i] = s[i + 1]
  BY HeadTailProperties
<1>2. Len(s) \in Nat /\ Len(s) >= 1 /\ DOMAIN s = 1..Len(s) /\ Head(s) = s[1]
      /\ DOMAIN Tail(s) = 1..(Len(s) - 1)
  BY <1>1, EmptySeq, LenProperties
<1>3. \A x \in Elems(s) : x \in Elems(Tail(s)) \cup {Head(s)}
  <2> SUFFICES ASSUME NEW k \in 1..Len(s) PROVE s[k] \in Elems(Tail(s)) \cup {Head(s)}
    BY <1>2 DEF Elems
  <2>1. CASE k = 1 BY <1>2, <2>1
  <2>2. CASE k # 1
    <3>1. k - 1 \in DOMAIN Tail(s) /\ Tail(s)[k - 1] = s[k] BY <1>1, <1>2, <2>2
    <3> QED BY <3>1 DEF Elems
  <2> QED BY <2>1, <2>2
<1>4. \A x \in Elems(Tail(s)) : x \in Elems(s)
  <2> SUFFICES ASSUME NEW k \in DOMAIN Tail(s) PROVE Tail(s)[k] \in Elems(s)
    BY DEF Elems
  <2>1. k + 1 \in DOMAIN s /\ Tail(s)[k] = s[k + 1] BY <1>1, <1>2
  <2> QED BY <2>1 DEF Elems
<1>5. Head(s) \in Elems(s) BY <1>2 DEF Elems
<1> QED BY <1>1, <1>3, <1>4, <1>5

\* Whether a topic satisfies its type can be read off its elements.
LEMMA SeqOfElems ==
    ASSUME NEW S, NEW T, NEW s \in Seq(S), Elems(s) \subseteq T
    PROVE  s \in Seq(T)
<1>1. /\ Len(s) \in Nat /\ s \in [1..Len(s) -> S] BY LenProperties
<1>2. \A k \in 1..Len(s) : s[k] \in T BY <1>1 DEF Elems
<1>3. s \in [1..Len(s) -> T] BY <1>1, <1>2
<1> QED BY <1>1, <1>3, SeqDef
-----------------------------------------------------------------------------
\* Neither table takes up the status indexed by itself.
LEMMA SetLmsType ==
    ASSUME Stores, NEW c \in Content, NEW s \in Statuses, SetLms(c, s)
    PROVE  /\ lms' \in LmsType
           /\ \A x \in Content : lms'[x].status = "indexed"
                                   => lms[x].status = "indexed" \/ (x = c /\ s = "indexed")
BY DEF Stores, SetLms, LmsType

LEMMA SetAiType ==
    ASSUME Stores, NEW c \in Content, NEW s \in Statuses, SetAi(c, s)
    PROVE  /\ ai' \in AiType
           /\ \A x \in Content : ai'[x].status = "indexed"
                                   => ai[x].status = "indexed" \/ (x = c /\ s = "indexed")
BY DEF Stores, SetAi, AiType

\* What a request does to the tables does not say indexed, and takes no content back
\* to where no run has been.
LEMMA Quiet ==
    ASSUME Inv, UNCHANGED <<row, uploads, commands, statuses, sent, ended, worker, beat>>,
           lms' \in LmsType, ai' \in AiType, req' \in ReqType,
           chunks' \in [Content -> Chunks],
           \A c \in Content : chunks[c] # "none" => chunks'[c] # "none",
           \A c \in Content : /\ lms'[c].status = "indexed" => lms[c].status = "indexed"
                              /\ ai'[c].status = "indexed" => ai[c].status = "indexed"
    PROVE  Inv'
<1>0. Stores /\ Topics /\ Processes BY DEF Inv, Shape
<1>1. Shape' BY <1>0 DEF Shape, Stores, Topics, Processes, Running
<1>2. \A c \in Content : Kept(c) => Kept(c)' BY DEF Kept
<1>3. Reported' BY <1>2 DEF Inv, Reported
<1>4. Announced'
  <2>1. \A e \in Elems(statuses) : e \in Status
    BY <1>0, ElementOfSeq, LenProperties DEF Elems, Topics
  <2> QED BY <1>2, <2>1 DEF Inv, Announced, Status
<1>5. Working'
  <2>1. Running => Current \in Content
    <3>1. Running => Head(uploads) \in Record BY <1>0, TailElems DEF Topics, Processes
    <3> QED BY <3>1 DEF Record, Current
  <2> QED BY <1>2, <2>1 DEF Inv, Working, Running, Current
<1>6. Commanded' /\ Logged' /\ Finishing' BY DEF Inv, Commanded, Logged, Finishing
<1> QED BY <1>1, <1>3, <1>4, <1>5, <1>6 DEF Inv

LEMMA RequestsInv ==
    ASSUME Inv,
           \/ \E t \in Triggers : TriggerCheck(t) \/ TriggerMark(t)
           \/ \E p \in Publishers : PublishMark(p) \/ PublishReturn(p) \/ AskCheck(p)
           \/ \E c \in Content : PollStatus(c) \/ AgeLms(c) \/ AgeAi(c)
    PROVE  Inv'
<1>0. Stores /\ Processes /\ lms \in LmsType /\ ai \in AiType /\ req \in ReqType
  BY DEF Inv, Shape, Stores, Processes
<1>1. UNCHANGED <<row, chunks, uploads, commands, statuses, sent, ended, worker, beat>>
  BY DEF TriggerCheck, TriggerMark, PublishMark, PublishReturn, AskCheck, PollStatus,
         AgeLms, AgeAi, docs, topics
<1>2. {"processing", "failed"} \subseteq Statuses BY DEF Statuses
<1>3. \A r \in Requests : req[r].content \in Content BY <1>0 DEF ReqType
<1>4. req' \in ReqType
  <2>1. CASE UNCHANGED req BY <1>0, <2>1
  <2>2. CASE \E r \in Requests, pc \in {"send", "done"} : req' = [req EXCEPT ![r].pc = pc]
    BY <1>0, <2>2 DEF ReqType
  <2>3. CASE \E r \in Requests : req' = [req EXCEPT ![r].pc = "wait", ![r].server = "check"]
    <3>1. PICK r \in Requests : req' = [req EXCEPT ![r].pc = "wait", ![r].server = "check"]
      BY <2>3
    <3> DEFINE w == [pc |-> "wait", server |-> "check", content |-> req[r].content]
    <3>2. /\ req'[r] = w /\ \A q \in Requests : q # r => req'[q] = req[q]
          /\ req' = [q \in Requests |-> req'[q]]
      BY <1>0, <3>1 DEF ReqType
    <3>3. w \in [pc : {"idle", "send", "mark", "wait", "done"},
                 server : {"none", "check", "mark", "send", "done"}, content : Content]
      BY <1>3
    <3> HIDE DEF w
    <3>4. \A q \in Requests : req'[q] \in [pc : {"idle", "send", "mark", "wait", "done"},
                                          server : {"none", "check", "mark", "send", "done"},
                                          content : Content]
      BY <1>0, <3>2, <3>3 DEF ReqType
    <3> QED BY <3>2, <3>4 DEF ReqType
  <2>4. CASE \E r \in Requests, sv \in {"send", "done"} : req' = [req EXCEPT ![r].server = sv]
    BY <1>0, <2>4 DEF ReqType
  <2>5. CASE \E t \in Triggers : TriggerCheck(t) \/ TriggerMark(t)
    BY <2>2, <2>5 DEF TriggerCheck, TriggerMark, Goto, Requests
  <2>6. CASE \E p \in Publishers : PublishMark(p) \/ PublishReturn(p) \/ AskCheck(p)
    BY <2>2, <2>3, <2>4, <2>6 DEF PublishMark, PublishReturn, AskCheck, Goto, Requests
  <2>7. CASE \E c \in Content : PollStatus(c) \/ AgeLms(c) \/ AgeAi(c)
    BY <2>1, <2>7 DEF PollStatus, AgeLms, AgeAi
  <2> QED BY <2>5, <2>6, <2>7
<1>5. lms' \in LmsType /\ \A c \in Content : lms'[c].status = "indexed" => lms[c].status = "indexed"
  <2>1. CASE UNCHANGED lms BY <1>0, <2>1
  <2>2. CASE \E c \in Content, s \in {"processing", "failed"} : SetLms(c, s)
    BY <1>0, <1>2, <2>2, SetLmsType
  <2>3. CASE \E c \in Content : AgeLms(c) BY <1>0, <2>3 DEF AgeLms, LmsType
  <2>4. CASE \E t \in Triggers : TriggerCheck(t) \/ TriggerMark(t)
    BY <1>3, <2>1, <2>2, <2>4 DEF TriggerCheck, TriggerMark, Requests
  <2>5. CASE \E p \in Publishers : PublishMark(p) \/ PublishReturn(p) \/ AskCheck(p)
    BY <1>3, <2>1, <2>2, <2>5 DEF PublishMark, PublishReturn, AskCheck, Requests
  <2>6. CASE \E c \in Content : PollStatus(c) \/ AgeAi(c)
    BY <2>1, <2>6 DEF PollStatus, AgeAi
  <2> QED BY <2>3, <2>4, <2>5, <2>6
<1>6. ai' \in AiType /\ \A c \in Content : ai'[c].status = "indexed" => ai[c].status = "indexed"
  <2>1. CASE UNCHANGED ai BY <1>0, <2>1
  <2>2. CASE \E c \in Content, s \in {"processing", "failed"} : SetAi(c, s)
    BY <1>0, <1>2, <2>2, SetAiType
  <2>3. CASE \E c \in Content : AgeAi(c)
    <3>1. PICK c \in Content : ai' = [ai EXCEPT ![c].fresh = FALSE] BY <2>3 DEF AgeAi
    <3>2. ai' \in AiType BY <1>0, <3>1 DEF AiType
    <3>3. \A x \in Content : ai'[x].status = ai[x].status BY <1>0, <3>1 DEF AiType
    <3> QED BY <3>2, <3>3
  <2>4. CASE \E t \in Triggers : TriggerCheck(t) \/ TriggerMark(t)
    BY <2>1, <2>4 DEF TriggerCheck, TriggerMark
  <2>5. CASE \E p \in Publishers : PublishMark(p) \/ PublishReturn(p) \/ AskCheck(p)
    BY <1>3, <2>1, <2>2, <2>5 DEF PublishMark, PublishReturn, AskCheck, Requests
  <2>6. CASE \E c \in Content : PollStatus(c) \/ AgeLms(c)
    BY <2>1, <2>2, <2>6 DEF PollStatus, AgeLms
  <2> QED BY <2>3, <2>4, <2>5, <2>6
<1>7. UNCHANGED chunks /\ chunks' \in [Content -> Chunks] BY <1>0, <1>1 DEF Stores
<1> QED BY <1>1, <1>4, <1>5, <1>6, <1>7, Quiet

\* A Reset drops the chunks and rewrites its row of the AI service.
LEMMA ResetsInv ==
    ASSUME Inv, NEW r \in Resets, ResetDrop(r) \/ ProcessMark(r) \/ ForceMark(r)
    PROVE  Inv'
<1>0. Stores /\ Processes /\ lms \in LmsType /\ ai \in AiType /\ req \in ReqType
  BY DEF Inv, Shape, Stores, Processes
<1>1. UNCHANGED <<row, lms, uploads, commands, statuses, sent, ended, worker, beat>>
  BY DEF ResetDrop, ProcessMark, ForceMark, ResetMark, docs, topics
<1>2. r \in Requests /\ req[r].content \in Content BY <1>0 DEF ReqType, Requests
<1>3. CASE ResetDrop(r)
  <2>1. UNCHANGED ai /\ DropChunks(req[r].content)
        /\ \E server \in {"mark", "done"} :
             req' = [req EXCEPT ![r].pc = "done", ![r].server = server]
    BY <1>3 DEF ResetDrop
  <2>2. /\ chunks' \in [Content -> Chunks]
        /\ \A c \in Content : chunks[c] # "none" => chunks'[c] # "none"
    BY <1>0, <1>2, <2>1 DEF DropChunks, Stores, Chunks
  <2>3. req' \in ReqType
    <3>1. PICK server \in {"mark", "done"} :
             req' = [req EXCEPT ![r].pc = "done", ![r].server = server]
      BY <2>1
    <3> DEFINE w == [pc |-> "done", server |-> server, content |-> req[r].content]
    <3>2. /\ req'[r] = w /\ \A q \in Requests : q # r => req'[q] = req[q]
          /\ req' = [q \in Requests |-> req'[q]]
      BY <1>0, <1>2, <3>1 DEF ReqType
    <3>3. w \in [pc : {"idle", "send", "mark", "wait", "done"},
                 server : {"none", "check", "mark", "send", "done"}, content : Content]
      BY <1>2
    <3> HIDE DEF w
    <3>4. \A q \in Requests : req'[q] \in [pc : {"idle", "send", "mark", "wait", "done"},
                                          server : {"none", "check", "mark", "send", "done"},
                                          content : Content]
      BY <1>0, <3>2, <3>3 DEF ReqType
    <3> QED BY <3>2, <3>4 DEF ReqType
  <2>4. lms' = lms /\ ai' = ai BY <1>1, <2>1
  <2> QED BY <1>0, <1>1, <2>2, <2>3, <2>4, Quiet
<1>4. CASE ProcessMark(r) \/ ForceMark(r)
  <2>1. UNCHANGED chunks /\ \E status \in {"pending", "processing"} : ResetMark(r, status)
    BY <1>4 DEF ProcessMark, ForceMark, ResetMark, docs
  <2>2. chunks' \in [Content -> Chunks] /\ chunks' = chunks BY <1>0, <2>1 DEF Stores
  <2>3. req' \in ReqType
    <3>1. \E server \in {"send", "done"} : req' = [req EXCEPT ![r].server = server]
      BY <2>1 DEF ResetMark
    <3> QED BY <1>0, <1>2, <3>1 DEF ReqType
  <2>4. /\ ai' \in AiType
        /\ \A c \in Content : ai'[c].status = "indexed" => ai[c].status = "indexed"
    <3>1. CASE UNCHANGED ai BY <1>0, <3>1
    <3>2. ASSUME NEW status \in {"pending", "processing"}, SetAi(req[r].content, status)
          PROVE  /\ ai' \in AiType
                 /\ \A c \in Content : ai'[c].status = "indexed" => ai[c].status = "indexed"
      BY <1>0, <1>2, <3>2 DEF SetAi, AiType, Statuses
    <3> QED BY <2>1, <3>1, <3>2 DEF ResetMark
  <2> QED BY <1>0, <1>1, <2>2, <2>3, <2>4, Quiet
<1> QED BY <1>3, <1>4
-----------------------------------------------------------------------------
\* A request appends a record with the next id.
LEMMA UploadInv ==
    ASSUME Inv, (\E t \in Triggers : TriggerSend(t)) \/ (\E p \in Publishers \cup Resets : AskSend(p))
    PROVE  Inv'
<1>0. Stores /\ Topics /\ Processes /\ req \in ReqType BY DEF Inv, Shape, Processes
<1>1. UNCHANGED <<row, chunks, lms, ai, ended, worker, beat>>
  BY DEF TriggerSend, AskSend, docs
<1>2. req' \in ReqType
  <2>1. CASE \E r \in Requests, pc \in {"mark", "done"} : req' = [req EXCEPT ![r].pc = pc]
    BY <1>0, <2>1 DEF ReqType
  <2>2. CASE \E r \in Requests : req' = [req EXCEPT ![r].server = "done"]
    BY <1>0, <2>2 DEF ReqType
  <2> QED BY <2>1, <2>2 DEF TriggerSend, AskSend, Goto, Requests
<1>3. PICK c \in Content : Upload(c) \/ UNCHANGED topics
  BY <1>0 DEF TriggerSend, AskSend, ReqType, Requests
<1>4. CASE UNCHANGED topics
  BY <1>0, <1>1, <1>2, <1>4, Quiet DEF topics, Stores
<1>5. CASE Upload(c)
  <2> DEFINE e == [id |-> sent + 1, content |-> c]
  <2>1. /\ uploads' = Append(uploads, e) /\ sent' = sent + 1
        /\ UNCHANGED <<commands, statuses>>
    BY <1>5 DEF Upload
  <2>2. e \in Record /\ e.id = sent + 1 BY <1>0 DEF Record, Topics
  <2> HIDE DEF e
  <2>3. /\ uploads' \in Seq(Record) /\ Elems(uploads') = Elems(uploads) \cup {e}
        /\ uploads' # <<>> /\ (uploads # <<>> => Head(uploads') = Head(uploads))
    BY <1>0, <2>1, <2>2, AppendElems DEF Topics
  <2>4. sent' \in Nat /\ 1..sent' = 1..sent \cup {sent + 1} BY <1>0, <2>1 DEF Topics
  <2>5. Topics' BY <1>0, <1>1, <2>1, <2>2, <2>3, <2>4 DEF Topics
  <2>6. Shape' BY <1>0, <1>1, <1>2, <2>3, <2>5 DEF Shape, Stores, Processes, Running
  <2>7. \A x : Kept(x)' <=> Kept(x) BY <1>1 DEF Kept
  <2>8. Reported' /\ Announced' /\ Commanded' BY <1>1, <2>1, <2>7
     DEF Inv, Reported, Announced, Commanded
  <2>9. Working'
    <3>1. Running => Current' = Current BY <1>0, <2>3 DEF Processes, Current
    <3> QED BY <1>1, <2>7, <3>1 DEF Inv, Working, Running
  <2>10. Logged' BY <1>1, <2>2, <2>3, <2>4 DEF Inv, Logged
  <2>11. Finishing'
    <3>1. worker.pc = "finish" => uploads # <<>> BY <1>0 DEF Processes, Running
    <3> QED BY <1>1, <2>3, <3>1 DEF Inv, Finishing
  <2> QED BY <2>6, <2>8, <2>9, <2>10, <2>11 DEF Inv
<1> QED BY <1>3, <1>4, <1>5

\* A content appears, or goes: nothing that is gone comes back.
LEMMA ContentInv ==
    ASSUME Inv, (\E p \in Publishers : PublishCreate(p)) \/ (\E c \in Content : DeleteContent(c))
    PROVE  Inv'
<1>0. Stores /\ Topics /\ Processes /\ req \in ReqType BY DEF Inv, Shape, Processes
<1>1. UNCHANGED <<lms, ai, chunks, uploads, statuses, sent, ended, worker, beat>>
  BY DEF PublishCreate, DeleteContent, topics
<1>2. req' \in ReqType
  <2>1. CASE \E r \in Requests : req' = [req EXCEPT ![r].pc = "mark"]
    BY <1>0, <2>1 DEF ReqType
  <2> QED BY <1>0, <2>1 DEF PublishCreate, DeleteContent, Goto, Requests
<1>3. /\ row' \in [Content -> {"new", "live", "deleted"}]
      /\ \A c \in Content : row[c] = "deleted" => row'[c] = "deleted"
  <2>1. CASE \E p \in Publishers : PublishCreate(p)
    <3>1. PICK c \in Content : row[c] = "new" /\ row' = [row EXCEPT ![c] = "live"]
      BY <1>0, <2>1 DEF PublishCreate, ReqType, Requests
    <3> QED BY <1>0, <3>1 DEF Stores
  <2>2. CASE \E c \in Content : DeleteContent(c)
    BY <1>0, <2>2 DEF DeleteContent, Stores
  <2> QED BY <2>1, <2>2
<1>4. \A c \in Content : Kept(c) => Kept(c)' BY <1>1, <1>3 DEF Kept
<1>5. commands' \in Seq(Content) /\ \A c \in Elems(commands') : row'[c] = "deleted"
  <2>0. \A c \in Elems(commands) : c \in Content /\ row[c] = "deleted"
    BY <1>0, ElementOfSeq, LenProperties DEF Inv, Commanded, Elems, Topics
  <2>1. CASE UNCHANGED commands BY <1>0, <1>3, <2>0, <2>1 DEF Topics
  <2>2. CASE \E c \in Content : row' = [row EXCEPT ![c] = "deleted"]
                                /\ commands' = Append(commands, c)
    <3>1. PICK c \in Content : row' = [row EXCEPT ![c] = "deleted"]
                               /\ commands' = Append(commands, c)
      BY <2>2
    <3>2. commands' \in Seq(Content) /\ Elems(commands') = Elems(commands) \cup {c}
      BY <1>0, <3>1, AppendElems DEF Topics
    <3>3. row'[c] = "deleted" BY <1>0, <3>1 DEF Stores
    <3> QED BY <1>3, <2>0, <3>2, <3>3
  <2> QED BY <2>1, <2>2 DEF PublishCreate, DeleteContent, topics
<1>6. Shape' BY <1>0, <1>1, <1>2, <1>3, <1>5
   DEF Shape, Stores, Topics, Processes, Running
<1>7. Reported' BY <1>1, <1>4 DEF Inv, Reported
<1>8. Announced'
  <2>1. \A e \in Elems(statuses) : e \in Status
    BY <1>0, ElementOfSeq, LenProperties DEF Elems, Topics
  <2> QED BY <1>1, <1>4, <2>1 DEF Inv, Announced, Status
<1>9. Working'
  <2>1. Running => Current \in Content
    <3>1. Running => Head(uploads) \in Record BY <1>0, TailElems DEF Topics, Processes
    <3> QED BY <3>1 DEF Record, Current
  <2> QED BY <1>1, <1>4, <2>1 DEF Inv, Working, Running, Current
<1>10. Commanded' /\ Logged' /\ Finishing' BY <1>1, <1>5
   DEF Inv, Commanded, Logged, Finishing
<1> QED BY <1>6, <1>7, <1>8, <1>9, <1>10 DEF Inv

\* The LMS takes an event over, or loses it; the worker obeys a command.
LEMMA ConsumeInv ==
    ASSUME Inv, ConsumeStatus \/ TakeCommand
    PROVE  Inv'
<1>0. Stores /\ Topics /\ Processes BY DEF Inv, Shape
<1>1. UNCHANGED <<row, ai, uploads, sent, ended, worker, beat, req>>
  BY DEF ConsumeStatus, TakeCommand, docs
<1>2. CASE ConsumeStatus
  <2>1. statuses # <<>> /\ statuses' = Tail(statuses) /\ UNCHANGED <<chunks, commands>>
    BY <1>2 DEF ConsumeStatus, docs
  <2> DEFINE e == Head(statuses)
  <2>2. /\ statuses' \in Seq(Status) /\ e \in Status /\ e \in Elems(statuses)
        /\ Elems(statuses') \subseteq Elems(statuses)
    BY <1>0, <2>1, TailElems DEF Topics
  <2>3. SetLms(e.content, e.status) \/ UNCHANGED lms BY <1>2 DEF ConsumeStatus
  <2> HIDE DEF e
  <2>4. e.content \in Content /\ e.status \in Statuses BY <2>2 DEF Status
  <2>5. lms' \in LmsType
        /\ \A x \in Content : lms'[x].status = "indexed"
             => lms[x].status = "indexed" \/ (x = e.content /\ e.status = "indexed")
    BY <1>0, <2>3, <2>4, SetLmsType DEF Stores
  <2>6. \A c : Kept(c)' <=> Kept(c) BY <1>1, <2>1 DEF Kept
  <2>7. Reported' BY <1>1, <2>2, <2>5, <2>6 DEF Inv, Reported, Announced
  <2>8. Announced' BY <2>2, <2>6 DEF Inv, Announced
  <2>9. Working' /\ Commanded' /\ Logged' /\ Finishing' BY <1>1, <2>1, <2>6
     DEF Inv, Working, Commanded, Logged, Finishing, Running, Current
  <2>10. Shape' BY <1>0, <1>1, <2>1, <2>2, <2>5
     DEF Shape, Stores, Topics, Processes, Running
  <2> QED BY <2>7, <2>8, <2>9, <2>10 DEF Inv
<1>3. CASE TakeCommand
  <2>1. commands # <<>> /\ commands' = Tail(commands) /\ UNCHANGED <<lms, statuses>>
        /\ (EraseChunks(Head(commands)) \/ UNCHANGED chunks)
    BY <1>3 DEF TakeCommand
  <2>2. /\ commands' \in Seq(Content) /\ row[Head(commands)] = "deleted"
        /\ Elems(commands') \subseteq Elems(commands)
    BY <1>0, <2>1, TailElems DEF Topics, Inv, Commanded
  <2>3. chunks' \in [Content -> Chunks] BY <1>0, <2>1 DEF Stores, EraseChunks, Chunks
  <2>4. \A c \in Content : Kept(c) => Kept(c)'
    BY <1>0, <1>1, <2>1, <2>2 DEF Kept, EraseChunks, Stores
  <2>5. Reported' /\ Announced' /\ Working'
    <3>1. \A e \in Elems(statuses) : e \in Status
      BY <1>0, ElementOfSeq, LenProperties DEF Elems, Topics
    <3>2. Running => Current \in Content
      <4>1. Running => Head(uploads) \in Record BY <1>0, TailElems DEF Topics, Processes
      <4> QED BY <4>1 DEF Record, Current
    <3> QED BY <1>1, <2>1, <2>4, <3>1, <3>2
       DEF Inv, Reported, Announced, Working, Running, Current, Status
  <2>6. Commanded' /\ Logged' /\ Finishing' BY <1>1, <2>2
     DEF Inv, Commanded, Logged, Finishing
  <2>7. Shape' BY <1>0, <1>1, <2>1, <2>2, <2>3
     DEF Shape, Stores, Topics, Processes, Running
  <2> QED BY <2>5, <2>6, <2>7 DEF Inv
<1> QED BY <1>2, <1>3
-----------------------------------------------------------------------------
\* A step of the handler or of its heartbeat reports the document it holds, and
\* says indexed only when the handler has come to that.
LEMMA HandlerStep ==
    ASSUME Inv, Running, UNCHANGED <<row, lms, uploads, commands, sent, req>>,
           worker' \in WorkerType, worker'.pc # "idle", beat' \in {"off", "db", "send"},
           StoreChunks(Current) \/ StoreNothing(Current) \/ UNCHANGED chunks,
           \/ \E st \in Statuses : SetAi(Current, st) /\ (st = "indexed" => worker.fin = "indexed")
           \/ UNCHANGED ai,
           \/ \E st \in Statuses : /\ statuses' = Append(statuses, [content |-> Current, status |-> st])
                                   /\ st = "indexed" => worker.fin = "indexed"
           \/ UNCHANGED statuses,
           ended' \in {ended, ended \cup {Head(uploads).id}},
           worker'.fin = "indexed" => worker.fin = "indexed" \/ worker.pc = "stored",
           worker'.pc = "stored" => worker.pc = "stored" \/ StoreChunks(Current) \/ StoreNothing(Current),
           worker'.pc = "finish" => worker.pc = "finish" \/ Head(uploads).id \in ended'
    PROVE  Inv'
<1>0. Stores /\ Topics /\ Processes BY DEF Inv, Shape
<1>1. /\ Current \in Content /\ Current' = Current /\ Head(uploads).id \in 1..sent
      /\ Head(uploads)' = Head(uploads) /\ Running'
  <2>1. Head(uploads) \in Record /\ Head(uploads) \in Elems(uploads)
    BY <1>0, TailElems DEF Topics, Processes
  <2> QED BY <1>0, <2>1 DEF Topics, Record, Current, Running
<1>2. chunks' \in [Content -> Chunks] /\ (StoreChunks(Current) \/ StoreNothing(Current) => chunks'[Current] # "none")
      /\ \A c \in Content : chunks[c] # "none" => chunks'[c] # "none"
  BY <1>0, <1>1 DEF Stores, StoreChunks, StoreNothing, Chunks
<1>3. \A c \in Content : Kept(c) => Kept(c)' BY <1>2 DEF Kept
<1>4. worker.fin = "indexed" \/ worker.pc = "stored" => Kept(Current)'
  BY <1>1, <1>3 DEF Inv, Working
<1>5. /\ ai' \in AiType
      /\ \A c \in Content : ai'[c].status = "indexed" => ai[c].status = "indexed" \/ Kept(c)'
  <2>1. CASE UNCHANGED ai BY <1>0, <2>1 DEF Stores
  <2>2. ASSUME NEW st \in Statuses, SetAi(Current, st), st = "indexed" => worker.fin = "indexed"
        PROVE  /\ ai' \in AiType
               /\ \A c \in Content : ai'[c].status = "indexed" => ai[c].status = "indexed" \/ Kept(c)'
    BY <1>0, <1>1, <1>4, <2>2, SetAiType
  <2> QED BY <2>1, <2>2
<1>6. /\ statuses' \in Seq(Status)
      /\ \A e \in Elems(statuses') : e.status = "indexed" => Kept(e.content)'
  <2>0. \A e \in Elems(statuses) : e.status = "indexed" => Kept(e.content)'
    <3>1. \A e \in Elems(statuses) : e \in Status
      BY <1>0, ElementOfSeq, LenProperties DEF Elems, Topics
    <3> QED BY <1>3, <3>1 DEF Inv, Announced, Status
  <2>1. CASE UNCHANGED statuses BY <1>0, <2>0, <2>1 DEF Topics
  <2>2. ASSUME NEW st \in Statuses, st = "indexed" => worker.fin = "indexed",
               statuses' = Append(statuses, [content |-> Current, status |-> st])
        PROVE  /\ statuses' \in Seq(Status)
               /\ \A e \in Elems(statuses') : e.status = "indexed" => Kept(e.content)'
    <3>0. PICK f : f = [content |-> Current, status |-> st] OBVIOUS
    <3>1. f \in Status /\ f.content = Current /\ f.status = st BY <1>1, <3>0 DEF Status
    <3>2. statuses' = Append(statuses, f) BY <2>2, <3>0
    <3>3. statuses' \in Seq(Status) /\ Elems(statuses') = Elems(statuses) \cup {f}
      BY <1>0, <3>1, <3>2, AppendElems DEF Topics
    <3>4. f.status = "indexed" => Kept(f.content)' BY <1>1, <1>4, <2>2, <3>1 DEF Kept
    <3> QED BY <2>0, <3>3, <3>4 DEF Kept
  <2> QED BY <2>1, <2>2
<1>7. Shape' BY <1>0, <1>1, <1>2, <1>5, <1>6 DEF Shape, Stores, Topics, Processes
<1>8. Reported'
  <2>1. \A c \in Content : "indexed" \in {lms[c].status, ai[c].status} => Kept(c)'
    BY <1>3 DEF Inv, Reported
  <2> QED BY <1>5, <2>1 DEF Reported
<1>9. Announced' BY <1>6 DEF Announced
<1>10. Working' BY <1>1, <1>2, <1>4 DEF Working, Kept
<1>11. Commanded' BY DEF Inv, Commanded
<1>12. Logged' BY DEF Inv, Logged
<1>13. Finishing' BY <1>1 DEF Inv, Finishing
<1> QED BY <1>7, <1>8, <1>9, <1>10, <1>11, <1>12, <1>13 DEF Inv

LEMMA HandlerInv ==
    ASSUME Inv, \/ WorkerDb \/ WorkerSend \/ WorkerStore \/ WorkerIndexed \/ WorkerFailed
                \/ WorkerTimeout \/ WorkerInterrupt \/ BeatDue \/ BeatDb \/ BeatSend
    PROVE  Inv'
<1>0. /\ worker \in WorkerType /\ beat \in {"off", "db", "send"}
      /\ worker.fin \in Statuses /\ "processing" \in Statuses
      /\ beat # "off" => Running
  BY DEF Inv, Shape, Processes, WorkerType, Statuses
<1>1. CASE WorkerDb
  <2>1. Running /\ UNCHANGED <<row, lms, uploads, commands, sent, req, chunks, statuses, ended, beat>>
    BY <1>1 DEF WorkerDb, Running, docs, topics
  <2>2. \E pc \in {"beginSend", "finalSend"} : worker' = [worker EXCEPT !.pc = pc]
    BY <1>1 DEF WorkerDb, WorkerGoto
  <2>3. worker' \in WorkerType /\ worker'.pc \in {"beginSend", "finalSend"} /\ worker'.fin = worker.fin
    BY <1>0, <2>2 DEF WorkerType
  <2>4. \/ \E st \in Statuses : SetAi(Current, st) /\ (st = "indexed" => worker.fin = "indexed")
        \/ UNCHANGED ai
    BY <1>0, <1>1 DEF WorkerDb
  <2> QED BY <1>0, <2>1, <2>3, <2>4, HandlerStep
<1>2. CASE WorkerSend
  <2>1. Running /\ UNCHANGED <<row, lms, uploads, commands, sent, req, chunks, ai, beat>>
    BY <1>2 DEF WorkerSend, Running, docs, topics, SendStatus
  <2>2. /\ worker' \in WorkerType /\ worker'.fin = worker.fin
        /\ worker'.pc \in {"run", "finalDb", "finish"}
        /\ ended' \in {ended, ended \cup {Head(uploads).id}}
        /\ worker'.pc = "finish" => Head(uploads).id \in ended'
    <3>1. CASE worker.pc = "beginSend" /\ WorkerGoto("run") /\ UNCHANGED ended
      BY <1>0, <3>1 DEF WorkerGoto, WorkerType
    <3>2. CASE /\ worker' = [worker EXCEPT !.pc = IF worker.again THEN "finalDb" ELSE "finish",
                                           !.again = FALSE]
               /\ ended' = ended \cup {Head(uploads).id}
      <4> DEFINE pc == IF worker.again THEN "finalDb" ELSE "finish"
      <4>1. pc \in {"finalDb", "finish"} OBVIOUS
      <4>2. worker' = [worker EXCEPT !.pc = pc, !.again = FALSE] BY <3>2
      <4> HIDE DEF pc
      <4>3. worker' = [pc |-> pc, fin |-> worker.fin, again |-> FALSE, replay |-> worker.replay]
        BY <1>0, <4>2 DEF WorkerType
      <4> QED BY <1>0, <3>2, <4>1, <4>3 DEF WorkerType
    <3> QED BY <1>2, <3>1, <3>2 DEF WorkerSend
  <2>3. \/ \E st \in Statuses : /\ statuses' = Append(statuses, [content |-> Current, status |-> st])
                                /\ st = "indexed" => worker.fin = "indexed"
        \/ UNCHANGED statuses
    BY <1>0, <1>2 DEF WorkerSend, SendStatus, topics
  <2> QED BY <1>0, <2>1, <2>2, <2>3, HandlerStep
<1>3. CASE WorkerStore
  <2>1. /\ Running /\ UNCHANGED <<row, lms, uploads, commands, sent, req, statuses, ai, ended, beat>>
        /\ worker' = [worker EXCEPT !.pc = "stored"]
        /\ StoreChunks(Current) \/ StoreNothing(Current)
    BY <1>3 DEF WorkerStore, Running, topics, WorkerGoto
  <2>2. worker' \in WorkerType /\ worker'.pc = "stored" /\ worker'.fin = worker.fin
    BY <1>0, <2>1 DEF WorkerType
  <2> QED BY <1>0, <2>1, <2>2, HandlerStep
<1>4. CASE WorkerIndexed
  <2>1. /\ Running /\ UNCHANGED <<row, lms, uploads, commands, sent, req, chunks, statuses, ai, ended, beat>>
        /\ worker.pc = "stored" /\ worker' = [worker EXCEPT !.pc = "finalDb", !.fin = "indexed"]
    BY <1>4 DEF WorkerIndexed, Running, docs, topics
  <2>2. worker' \in WorkerType /\ worker'.pc = "finalDb"
    BY <1>0, <2>1 DEF WorkerType
  <2> QED BY <1>0, <2>1, <2>2, HandlerStep
<1>5. CASE WorkerFailed \/ WorkerTimeout \/ WorkerInterrupt
  <2>1. /\ Running /\ UNCHANGED <<row, lms, uploads, commands, sent, req, chunks, statuses, ai, ended, beat>>
    BY <1>5 DEF WorkerFailed, WorkerTimeout, WorkerInterrupt, Running, docs, topics
  <2>2. \E again, replay \in BOOLEAN :
          worker' = [pc |-> "finalDb", fin |-> "failed", again |-> again, replay |-> replay]
    BY <1>0, <1>5 DEF WorkerFailed, WorkerTimeout, WorkerInterrupt, WorkerType
  <2>3. worker' \in WorkerType /\ worker'.pc = "finalDb" /\ worker'.fin = "failed"
    BY <2>2 DEF WorkerType
  <2> QED BY <1>0, <2>1, <2>3, HandlerStep
<1>6. CASE BeatDue \/ BeatDb \/ BeatSend
  <2>1. /\ UNCHANGED <<row, lms, uploads, commands, sent, req, chunks, ended, worker>>
        /\ Running /\ beat' \in {"off", "db", "send"}
    BY <1>0, <1>6 DEF BeatDue, BeatDb, BeatSend, Running, docs, topics, SendStatus
  <2>2. \/ \E st \in Statuses : SetAi(Current, st) /\ (st = "indexed" => worker.fin = "indexed")
        \/ UNCHANGED ai
    BY <1>0, <1>6 DEF BeatDue, BeatDb, BeatSend
  <2>3. \/ \E st \in Statuses : /\ statuses' = Append(statuses, [content |-> Current, status |-> st])
                                /\ st = "indexed" => worker.fin = "indexed"
        \/ UNCHANGED statuses
    BY <1>0, <1>6 DEF BeatDue, BeatDb, BeatSend, SendStatus, topics
  <2> QED BY <1>0, <2>1, <2>2, <2>3, HandlerStep DEF Running
<1> QED BY <1>1, <1>2, <1>3, <1>4, <1>5, <1>6

\* The handler begins, ends with the commit or without it, or is lost.
LEMMA TurnInv ==
    ASSUME Inv, TakeUpload \/ WorkerFinish \/ WorkerCrash
    PROVE  Inv'
<1>0. Stores /\ Topics /\ Processes BY DEF Inv, Shape
<1>1. UNCHANGED <<row, chunks, lms, ai, commands, statuses, sent, ended, req>>
  BY DEF TakeUpload, WorkerFinish, WorkerCrash, docs, topics
<1>2. Reported' /\ Announced' /\ Commanded' BY <1>1
   DEF Inv, Reported, Announced, Commanded, Kept
<1>3. /\ worker' \in WorkerType /\ worker'.fin = "failed" /\ worker'.pc \in {"idle", "beginDb"}
      /\ worker'.pc = "beginDb" => UNCHANGED uploads /\ uploads # <<>>
      /\ beat' = "off" \/ (UNCHANGED beat /\ ~Running)
  <2>1. CASE TakeUpload
    <3>1. worker' = [pc |-> "beginDb", fin |-> "failed", again |-> FALSE, replay |-> FALSE]
      BY <2>1 DEF TakeUpload, Idle
    <3>2. UNCHANGED <<uploads, beat>> /\ uploads # <<>> /\ ~Running
      BY <2>1 DEF TakeUpload, topics
    <3> QED BY <3>1, <3>2 DEF WorkerType
  <2>2. CASE WorkerFinish \/ WorkerCrash
    <3>1. worker' = [pc |-> "idle", fin |-> "failed", again |-> FALSE, replay |-> FALSE]
          /\ beat' = "off"
      BY <2>2 DEF WorkerFinish, WorkerCrash, Idle
    <3> QED BY <3>1 DEF WorkerType
  <2> QED BY <2>1, <2>2
<1>4. Processes' BY <1>0, <1>1, <1>3 DEF Processes, Running
<1>5. Working' /\ Finishing' BY <1>3 DEF Working, Finishing
<1>6. CASE UNCHANGED uploads
  <2>1. Shape' BY <1>0, <1>1, <1>4, <1>6 DEF Shape, Stores, Topics
  <2>2. Logged' BY <1>1, <1>6 DEF Inv, Logged
  <2> QED BY <1>2, <1>5, <2>1, <2>2 DEF Inv
<1>7. CASE worker.pc = "finish" /\ uploads' = Tail(uploads)
  <2>1. uploads # <<>> /\ Head(uploads).id \in ended
    BY <1>0, <1>7 DEF Inv, Finishing, Processes, Running
  <2>2. uploads' \in Seq(Record) /\ Elems(uploads) = Elems(uploads') \cup {Head(uploads)}
    BY <1>0, <1>7, <2>1, TailElems DEF Topics
  <2>3. Shape' BY <1>0, <1>1, <1>4, <2>2 DEF Shape, Stores, Topics
  <2>4. Logged' BY <1>1, <2>1, <2>2 DEF Inv, Logged
  <2> QED BY <1>2, <1>5, <2>3, <2>4 DEF Inv
<1> QED BY <1>6, <1>7 DEF TakeUpload, WorkerFinish, WorkerCrash, topics
-----------------------------------------------------------------------------
LEMMA InitInv == Init => Inv
<1> SUFFICES ASSUME Init PROVE Inv OBVIOUS
<1>1. Elems(<<>>) = {} BY DEF Elems
<1>2. \A S : <<>> \in Seq(S) BY EmptySeq
<1>3. Stores BY DEF Init, Stores, Chunks, LmsType, AiType, Statuses
<1>4. Topics BY <1>1, <1>2 DEF Init, Topics
<1>5. req \in ReqType BY DEF Init, ReqType, Requests
<1>6. Processes /\ ~Running BY <1>5 DEF Init, Processes, Idle, WorkerType, Running
<1>7. Reported BY DEF Init, Reported
<1>8. Announced /\ Commanded BY <1>1 DEF Init, Announced, Commanded
<1>9. Working /\ Finishing BY DEF Init, Working, Finishing, Idle
<1>10. Logged BY DEF Init, Logged
<1> QED BY <1>3, <1>4, <1>6, <1>7, <1>8, <1>9, <1>10 DEF Inv, Shape

LEMMA NextInv == Inv /\ [Next]_vars => Inv'
<1> SUFFICES ASSUME Inv, [Next]_vars PROVE Inv' OBVIOUS
<1>1. CASE Next
  BY <1>1, RequestsInv, ResetsInv, UploadInv, ContentInv, ConsumeInv, HandlerInv, TurnInv
     DEF Next, Handler
<1>2. CASE UNCHANGED vars
  <2>1. lms \in LmsType /\ ai \in AiType /\ req \in ReqType /\ chunks \in [Content -> Chunks]
    BY DEF Inv, Shape, Stores, Processes
  <2> QED BY <1>2, <2>1, Quiet DEF vars, docs, topics
<1> QED BY <1>1, <1>2

LEMMA InvHolds == Spec => []Inv
  BY InitInv, NextInv, PTL DEF Spec

\* The stores, the topics and the processes have their types.
THEOREM TypeCorrect == Spec => []TypeOK
<1>1. Inv => TypeOK
  <2> SUFFICES ASSUME Inv PROVE TypeOK OBVIOUS
  <2>0. Stores /\ Topics /\ Processes BY DEF Inv, Shape
  <2>1. uploads \in Seq([id : 1..sent, content : Content])
    <3>1. \A u \in Elems(uploads) : u \in Record
      BY <2>0, ElementOfSeq, LenProperties DEF Elems, Topics
    <3>2. Elems(uploads) \subseteq [id : 1..sent, content : Content]
      BY <2>0, <3>1 DEF Topics, Record
    <3> QED BY <2>0, <3>2, SeqOfElems DEF Topics
  <2> QED BY <2>0, <2>1 DEF TypeOK, Stores, Topics, Processes, Status, LmsType, AiType,
                            Chunks, WorkerType, ReqType, Requests
<1> QED BY InvHolds, <1>1, PTL

\* No crash, interruption or replay makes the worker commit a document whose
\* handler has not ended (kafka_worker.py).
THEOREM NothingIsAckedEarly == Spec => []AckedIsFinished
<1>1. Inv => AckedIsFinished
  <2> SUFFICES ASSUME Inv, NEW i \in 1..sent, i \notin ended
               PROVE  \E k \in DOMAIN uploads : uploads[k].id = i
    BY DEF AckedIsFinished
  <2>1. \E u \in Elems(uploads) : u.id = i BY DEF Inv, Logged
  <2> QED BY <2>1 DEF Elems
<1> QED BY InvHolds, <1>1, PTL

\* Late events, stale rows, replays, resets and deletions never show an index that no
\* run has made, nor lose the chunks behind one for any but the two named reasons.
THEOREM IndexedHasReason == Spec => []IndexedIsAccountedFor
<1>1. Inv => IndexedIsAccountedFor
  <2> SUFFICES ASSUME Inv, NEW c \in Content, row[c] = "live",
                      "indexed" \in {lms[c].status, ai[c].status}
               PROVE  chunks[c] \in {"stored", "blank", "dropped"}
    BY DEF IndexedIsAccountedFor
  <2>1. Kept(c) BY DEF Inv, Reported
  <2>2. chunks[c] \in Chunks BY DEF Inv, Shape, Stores
  <2> QED BY <2>1, <2>2 DEF Kept, Chunks
<1> QED BY InvHolds, <1>1, PTL
=============================================================================
