---------------------------- MODULE ContentIndex ----------------------------
(***************************************************************************)
(* Indexing of course contents by the AI service.                          *)
(*                                                                         *)
(* A teacher asks the LMS to index a content (TriggerContentAutoIndex), or *)
(* publishes a generated lesson, which asks the AI service directly        *)
(* (PublishLesson, then POST /ai/auto-index/text).  Either way a record    *)
(* goes to the topic lms.document.uploaded.  One worker takes one record   *)
(* at a time, writes the status of the content into its own table and to   *)
(* the topic ai.document.processed.status, which one goroutine of the LMS  *)
(* copies into section_content.  A deleted content is announced on a third *)
(* topic, lms.maintenance.command, that the same worker reads.  Requests   *)
(* that begin by dropping the stored chunks (POST /ai/process-document,    *)
(* which TriggerDocumentProcess of the LMS calls, POST /ai/auto-index with *)
(* force, DELETE /ai/auto-index/content) leave the row of the LMS alone.   *)
(*                                                                         *)
(* The clock is abstracted to one flag per row: fresh is false once the    *)
(* row is older than the limit its reader applies (two hours in the LMS,   *)
(* 45 minutes in the AI service).  While a worker runs the document its    *)
(* heartbeat rewrites both rows every five minutes, so they do not age.    *)
(***************************************************************************)
EXTENDS Integers, Sequences, FiniteSets

CONSTANTS
    Content,      \* contents of one course
    Triggers,     \* calls of TriggerContentAutoIndex
    Publishers,   \* calls of PublishLesson
    Resets,       \* calls of the endpoints that drop the chunks of a content
    MaxMishaps    \* bound on failed sends, writes and calls, on crashes and
                  \* interrupts of the worker and on heartbeats, together

ASSUME BoundAssumption == MaxMishaps \in Nat

VARIABLES
    row,          \* section_content: does the row exist
    lms,          \* section_content.ai_index_status and its age
    ai,           \* content_index_status.status and its age
    chunks,       \* are there document_chunks of the content ("stored"); if not,
                  \* history says why: none ever, no piece worth storing ("blank"),
                  \* or a Reset has "dropped" them
    uploads,      \* lms.document.uploaded, from the first uncommitted record
    commands,     \* lms.maintenance.command, likewise: DELETE_CONTENT records
    statuses,     \* ai.document.processed.status, not yet read by the LMS
    sent,         \* number of records ever appended to uploads
    ended,        \* records whose handler has written a final status
    worker,       \* the handler process_document_event
    beat,         \* its heartbeat task
    req,          \* state of each Trigger and each Publisher
    mishaps

docs == <<row, chunks>>
topics == <<uploads, commands, statuses, sent>>
vars == <<row, lms, ai, chunks, uploads, commands, statuses, sent, ended,
          worker, beat, req, mishaps>>

Statuses == {"processing", "indexed", "failed"}
Idle == [pc |-> "idle", fin |-> "failed", again |-> FALSE, replay |-> FALSE]
Running == worker.pc # "idle"
Current == Head(uploads).content
RunningOn(c) == Running /\ Current = c

\* UPDATE section_content SET ai_index_status = s WHERE id = c.
SetLms(c, s) ==
    lms' = IF row[c] = "live" THEN [lms EXCEPT ![c] = [status |-> s, fresh |-> TRUE]]
                              ELSE lms
SetAi(c, s) == ai' = [ai EXCEPT ![c] = [status |-> s, fresh |-> TRUE]]
Upload(c) ==
    /\ uploads' = Append(uploads, [id |-> sent + 1, content |-> c])
    /\ sent' = sent + 1
    /\ UNCHANGED <<commands, statuses>>
SendStatus(c, s) ==
    /\ statuses' = Append(statuses, [content |-> c, status |-> s])
    /\ UNCHANGED <<uploads, commands, sent>>
\* One transaction, an upsert by hash: what an earlier run has stored stays.
StoreChunks(c) == chunks' = [chunks EXCEPT ![c] = "stored"]
\* The chunker kept no piece (under 80 characters, boilerplate): 0 is returned.
StoreNothing(c) == chunks' = [chunks EXCEPT ![c] = IF @ = "stored" THEN @ ELSE "blank"]
DropChunks(c) == chunks' = [chunks EXCEPT ![c] = IF @ = "stored" THEN "dropped" ELSE @]
\* The same for good: nothing of the content remains, whatever runs there were.
EraseChunks(c) == chunks' = [chunks EXCEPT ![c] = "none"]
Mishap == mishaps < MaxMishaps /\ mishaps' = mishaps + 1
At(r, pc) == req[r].pc = pc
Goto(r, pc) == req' = [req EXCEPT ![r].pc = pc]

Init ==
    /\ row \in [Content -> {"new", "live"}]
    /\ lms = [c \in Content |-> [status |-> "not_indexed", fresh |-> TRUE]]
    /\ ai = [c \in Content |-> [status |-> "unindexed", fresh |-> TRUE]]
    /\ chunks = [c \in Content |-> "none"]
    /\ uploads = <<>> /\ commands = <<>> /\ statuses = <<>>
    /\ sent = 0 /\ ended = {}
    /\ worker = Idle
    /\ beat = "off"
    /\ req \in [Triggers \cup Publishers \cup Resets ->
                  {[pc |-> "idle", server |-> "none", content |-> c] : c \in Content}]
    /\ mishaps = 0
-----------------------------------------------------------------------------
(***************************************************************************)
(* The LMS: a teacher's request.  The row is read, the record is sent, and *)
(* only then is the row marked.                                            *)
(***************************************************************************)
\* Mutant: a processing row is refused whatever its age.
Refused_AnyAge(c) == lms[c].status = "processing"

Refused(c) == lms[c].status = "processing" /\ lms[c].fresh

TriggerCheck(t) ==
    /\ At(t, "idle")
    /\ row[req[t].content] = "live"
    /\ ~Refused(req[t].content)
    /\ Goto(t, "send")
    /\ UNCHANGED <<docs, lms, ai, topics, ended, worker, beat, mishaps>>

\* A failed send answers 500: the row is left alone.
TriggerSend(t) ==
    /\ At(t, "send")
    /\ \/ Upload(req[t].content) /\ Goto(t, "mark") /\ UNCHANGED mishaps
       \/ Mishap /\ Goto(t, "done") /\ UNCHANGED topics
    /\ UNCHANGED <<docs, lms, ai, ended, worker, beat>>

\* A failed write is logged: "Non-fatal".
TriggerMark(t) ==
    /\ At(t, "mark")
    /\ \/ SetLms(req[t].content, "processing") /\ UNCHANGED mishaps
       \/ Mishap /\ UNCHANGED lms
    /\ Goto(t, "done")
    /\ UNCHANGED <<docs, ai, topics, ended, worker, beat>>
-----------------------------------------------------------------------------
(***************************************************************************)
(* The LMS: a generated lesson is published as a new content.  The row is  *)
(* marked first; a goroutine then calls the AI service and marks the row   *)
(* failed when the call fails or takes more than a minute, whether or not  *)
(* the AI service has queued the document or still goes on to do so.       *)
(***************************************************************************)
PublishCreate(p) ==
    /\ At(p, "idle")
    /\ row[req[p].content] = "new"
    /\ row' = [row EXCEPT ![req[p].content] = "live"]
    /\ Goto(p, "mark")
    /\ UNCHANGED <<lms, ai, chunks, topics, ended, worker, beat, mishaps>>

PublishMark(p) ==
    /\ At(p, "mark")
    /\ \/ SetLms(req[p].content, "processing") /\ UNCHANGED mishaps
       \/ Mishap /\ UNCHANGED lms
    /\ req' = [req EXCEPT ![p].pc = "wait", ![p].server = "check"]
    /\ UNCHANGED <<docs, ai, topics, ended, worker, beat>>

PublishReturn(p) ==
    /\ At(p, "wait")
    /\ \/ /\ req[p].server = "done"
          /\ UNCHANGED <<lms, mishaps>>
       \/ Mishap /\ SetLms(req[p].content, "failed")
    /\ Goto(p, "done")
    /\ UNCHANGED <<docs, ai, topics, ended, worker, beat>>

(***************************************************************************)
(* The AI service: trigger_auto_index_text without force.  Reading the     *)
(* status first turns an unfinished row older than 45 minutes into failed. *)
(***************************************************************************)
Unfinished == {"pending", "processing"}
Waiting(c) == ai[c].status \in Unfinished /\ ai[c].fresh

\* Mutant: the endpoint writes a status the tables do not know.
AskCheck_Queued(p) ==
    LET c == req[p].content IN
    /\ req[p].server = "check"
    /\ ~Waiting(c)
    /\ SetAi(c, "queued")
    /\ req' = [req EXCEPT ![p].server = "send"]
    /\ UNCHANGED <<docs, lms, topics, ended, worker, beat, mishaps>>

AskCheck(p) ==
    LET c == req[p].content IN
    /\ req[p].server = "check"
    /\ \/ /\ Waiting(c)
          /\ req' = [req EXCEPT ![p].server = "done"]
          /\ UNCHANGED ai
       \/ /\ ~Waiting(c)
          /\ SetAi(c, "processing")
          /\ req' = [req EXCEPT ![p].server = "send"]
    /\ UNCHANGED <<docs, lms, topics, ended, worker, beat, mishaps>>

\* The end of every request to index.  A failed send answers 500, which the
\* caller's PublishReturn turns into failed.
AskSend(p) ==
    /\ req[p].server = "send"
    /\ \/ Upload(req[p].content) /\ UNCHANGED mishaps
       \/ Mishap /\ UNCHANGED topics
    /\ req' = [req EXCEPT ![p].server = "done"]
    /\ UNCHANGED <<docs, lms, ai, ended, worker, beat>>

(***************************************************************************)
(* The AI service: the endpoints that drop the chunks first and read no    *)
(* status.  Neither they nor TriggerDocumentProcess touch the row of the   *)
(* LMS, which may say indexed all the while.                               *)
(***************************************************************************)
\* The DELETE endpoint ends here, and so does an error in the clean-up that follows.
ResetDrop(r) ==
    /\ At(r, "idle")
    /\ row[req[r].content] # "new"
    /\ DropChunks(req[r].content)
    /\ \E server \in {"mark", "done"} :
         req' = [req EXCEPT ![r].pc = "done", ![r].server = server]
    /\ UNCHANGED <<row, lms, ai, topics, ended, worker, beat, mishaps>>

\* A failed upsert answers 500: the chunks are gone and nothing is queued.
ResetMark(r, status) ==
    /\ req[r].server = "mark"
    /\ \/ /\ SetAi(req[r].content, status)
          /\ req' = [req EXCEPT ![r].server = "send"]
          /\ UNCHANGED mishaps
       \/ /\ Mishap
          /\ req' = [req EXCEPT ![r].server = "done"]
          /\ UNCHANGED ai
    /\ UNCHANGED <<docs, lms, topics, ended, worker, beat>>

ProcessMark(r) == ResetMark(r, "pending")
ForceMark(r) == ResetMark(r, "processing")

\* A poll of the status: the same stale rule.
PollStatus(c) ==
    /\ ai[c].status \in Unfinished /\ ~ai[c].fresh
    /\ SetAi(c, "failed")
    /\ UNCHANGED <<docs, lms, topics, ended, worker, beat, req, mishaps>>
-----------------------------------------------------------------------------
(***************************************************************************)
(* The LMS deletes a content: the row, then a maintenance record whose     *)
(* failure is only logged.                                                 *)
(***************************************************************************)
DeleteContent(c) ==
    /\ row[c] = "live"
    /\ row' = [row EXCEPT ![c] = "deleted"]
    /\ \/ commands' = Append(commands, c) /\ UNCHANGED mishaps
       \/ Mishap /\ UNCHANGED commands
    /\ UNCHANGED <<lms, ai, chunks, uploads, statuses, sent, ended, worker, beat, req>>

\* StartConsumer: the offset is committed as the record is read, so a record
\* whose update fails is lost.
ConsumeStatus ==
    /\ statuses # <<>>
    /\ statuses' = Tail(statuses)
    /\ LET e == Head(statuses) IN
         \/ SetLms(e.content, e.status) /\ UNCHANGED mishaps
         \/ Mishap /\ UNCHANGED lms
    /\ UNCHANGED <<docs, ai, uploads, commands, sent, ended, worker, beat, req>>
-----------------------------------------------------------------------------
(***************************************************************************)
(* The worker.  _update_content_status writes the table and then sends the *)
(* event; a failure of either is logged and the other still happens.       *)
(***************************************************************************)
WorkerGoto(pc) == worker' = [worker EXCEPT !.pc = pc]

TakeUpload ==
    /\ ~Running
    /\ uploads # <<>>
    /\ worker' = [Idle EXCEPT !.pc = "beginDb"]
    /\ UNCHANGED <<docs, lms, ai, topics, ended, beat, req, mishaps>>

WorkerDb ==
    /\ \/ worker.pc = "beginDb" /\ WorkerGoto("beginSend")
       \/ worker.pc = "finalDb" /\ WorkerGoto("finalSend")
    /\ \/ /\ SetAi(Current, IF worker.pc = "beginDb" THEN "processing" ELSE worker.fin)
          /\ UNCHANGED mishaps
       \/ Mishap /\ UNCHANGED ai
    /\ UNCHANGED <<docs, lms, topics, ended, beat, req>>

\* A failure inside auto_index is written there and, once re-raised, again here.
WorkerSend ==
    /\ \/ /\ worker.pc = "beginSend" /\ WorkerGoto("run") /\ UNCHANGED ended
       \/ /\ worker.pc = "finalSend"
          /\ worker' = [worker EXCEPT !.pc = IF worker.again THEN "finalDb" ELSE "finish",
                                      !.again = FALSE]
          /\ ended' = ended \cup {Head(uploads).id}
    /\ \/ /\ SendStatus(Current, IF worker.pc = "beginSend" THEN "processing"
                                                            ELSE worker.fin)
          /\ UNCHANGED mishaps
       \/ Mishap /\ UNCHANGED topics
    /\ UNCHANGED <<docs, lms, ai, beat, req>>

\* _chunk_and_store returned: a document without a piece to store is no error.
WorkerStore ==
    /\ worker.pc = "run"
    /\ WorkerGoto("stored")
    /\ StoreChunks(Current) \/ StoreNothing(Current)
    /\ UNCHANGED <<row, lms, ai, topics, ended, beat, req, mishaps>>

\* Mutant: the document is reported before its chunks are stored.
WorkerIndexed_Early ==
    /\ worker.pc \in {"run", "stored"}
    /\ worker' = [worker EXCEPT !.pc = "finalDb", !.fin = "indexed"]
    /\ UNCHANGED <<docs, lms, ai, topics, ended, beat, req, mishaps>>

WorkerIndexed ==
    /\ worker.pc = "stored"
    /\ worker' = [worker EXCEPT !.pc = "finalDb", !.fin = "indexed"]
    /\ UNCHANGED <<docs, lms, ai, topics, ended, beat, req, mishaps>>

\* An exception: the download, an empty text, or any step of auto_index.
WorkerFailed ==
    /\ worker.pc \in {"run", "stored"}
    /\ \E again \in BOOLEAN :
         worker' = [worker EXCEPT !.pc = "finalDb", !.fin = "failed", !.again = again]
    /\ UNCHANGED <<docs, lms, ai, topics, ended, beat, req, mishaps>>

\* Mutant: no limit.
WorkerTimeout_Never ==
    /\ worker.pc = "timeout"
    /\ WorkerGoto("finalDb")
    /\ UNCHANGED <<docs, lms, ai, topics, ended, beat, req, mishaps>>

\* The limit of document_index_timeout_minutes.
WorkerTimeout ==
    /\ worker.pc \in {"run", "stored"}
    /\ worker' = [worker EXCEPT !.pc = "finalDb", !.fin = "failed"]
    /\ UNCHANGED <<docs, lms, ai, topics, ended, beat, req, mishaps>>

\* CancelledError: the status is written and the error raised again, so the
\* record stays uncommitted and the next worker replays it.
WorkerInterrupt ==
    /\ worker.pc \in {"run", "stored"}
    /\ Mishap
    /\ worker' = [worker EXCEPT !.pc = "finalDb", !.fin = "failed", !.replay = TRUE]
    /\ UNCHANGED <<docs, lms, ai, topics, ended, beat, req>>

\* The finally block cancels the heartbeat wherever it is; then the commit.
WorkerFinish ==
    /\ worker.pc = "finish"
    /\ worker' = Idle
    /\ beat' = "off"
    /\ uploads' = IF worker.replay THEN uploads ELSE Tail(uploads)
    /\ UNCHANGED <<docs, lms, ai, commands, statuses, sent, ended, req, mishaps>>

\* Mutant: the offset was committed while the handler ran.
WorkerCrash_Acked ==
    /\ Running
    /\ Mishap
    /\ worker' = Idle
    /\ beat' = "off"
    /\ uploads' = Tail(uploads)
    /\ UNCHANGED <<docs, lms, ai, commands, statuses, sent, ended, req>>

WorkerCrash ==
    /\ Running
    /\ Mishap
    /\ worker' = Idle
    /\ beat' = "off"
    /\ UNCHANGED <<docs, lms, ai, topics, ended, req>>

\* The heartbeat: due, then the table, then the event; it runs between any two
\* steps of the handler until the finally block.
BeatDue ==
    /\ beat = "off"
    /\ worker.pc \in {"run", "stored", "finalDb", "finalSend"}
    /\ Mishap
    /\ beat' = "db"
    /\ UNCHANGED <<docs, lms, ai, topics, ended, worker, req>>

BeatDb ==
    /\ beat = "db"
    /\ SetAi(Current, "processing")
    /\ beat' = "send"
    /\ UNCHANGED <<docs, lms, topics, ended, worker, req, mishaps>>

BeatSend ==
    /\ beat = "send"
    /\ SendStatus(Current, "processing")
    /\ beat' = "off"
    /\ UNCHANGED <<docs, lms, ai, ended, worker, req, mishaps>>

\* DELETE_CONTENT; a failure is logged and the record committed all the same.
TakeCommand ==
    /\ ~Running
    /\ commands # <<>>
    /\ commands' = Tail(commands)
    /\ \/ EraseChunks(Head(commands)) /\ UNCHANGED mishaps
       \/ Mishap /\ UNCHANGED chunks
    /\ UNCHANGED <<row, lms, ai, uploads, statuses, sent, ended, worker, beat, req>>
-----------------------------------------------------------------------------
\* Time passes without a write: not while a worker runs the document.
AgeLms(c) ==
    /\ lms[c].status = "processing" /\ lms[c].fresh /\ ~RunningOn(c)
    /\ lms' = [lms EXCEPT ![c].fresh = FALSE]
    /\ UNCHANGED <<docs, ai, topics, ended, worker, beat, req, mishaps>>

AgeAi(c) ==
    /\ ai[c].status \in Unfinished /\ ai[c].fresh /\ ~RunningOn(c)
    /\ ai' = [ai EXCEPT ![c].fresh = FALSE]
    /\ UNCHANGED <<docs, lms, topics, ended, worker, beat, req, mishaps>>

\* Everything has been done and nothing asks for more.
AtRest ==
    /\ uploads = <<>> /\ commands = <<>> /\ statuses = <<>> /\ ~Running
    /\ \A r \in DOMAIN req : req[r].pc \in {"idle", "done"}
                             /\ req[r].server \in {"none", "done"}

Handler ==
    \/ TakeUpload \/ WorkerDb \/ WorkerSend \/ WorkerStore \/ WorkerIndexed
    \/ WorkerFailed \/ WorkerTimeout \/ WorkerInterrupt \/ WorkerFinish
    \/ WorkerCrash \/ BeatDue \/ BeatDb \/ BeatSend \/ TakeCommand

Next ==
    \/ \E t \in Triggers : TriggerCheck(t) \/ TriggerSend(t) \/ TriggerMark(t)
    \/ \E p \in Publishers :
         PublishCreate(p) \/ PublishMark(p) \/ PublishReturn(p) \/ AskCheck(p)
    \/ \E r \in Resets : ResetDrop(r) \/ ProcessMark(r) \/ ForceMark(r)
    \/ \E p \in Publishers \cup Resets : AskSend(p)
    \/ \E c \in Content : DeleteContent(c) \/ PollStatus(c) \/ AgeLms(c) \/ AgeAi(c)
    \/ ConsumeStatus
    \/ Handler

\* The event loop of the worker, the goroutines of the LMS and the clock go on;
\* a document may hang, but asyncio.timeout does not.
Fairness ==
    /\ WF_vars(TakeUpload) /\ WF_vars(TakeCommand) /\ WF_vars(WorkerTimeout)
    /\ WF_vars(WorkerDb) /\ WF_vars(WorkerSend) /\ WF_vars(WorkerFinish)
    /\ WF_vars(ConsumeStatus)
    /\ \A c \in Content : WF_vars(AgeLms(c))

Spec == Init /\ [][Next]_vars
FairSpec == Spec /\ Fairness
-----------------------------------------------------------------------------
TypeOK ==
    /\ row \in [Content -> {"new", "live", "deleted"}]
    /\ lms \in [Content -> [status : Statuses \cup {"not_indexed"}, fresh : BOOLEAN]]
    /\ ai \in [Content -> [status : Statuses \cup {"unindexed", "pending"}, fresh : BOOLEAN]]
    /\ chunks \in [Content -> {"none", "stored", "blank", "dropped"}]
    /\ uploads \in Seq([id : 1..sent, content : Content])
    /\ commands \in Seq(Content)
    /\ statuses \in Seq([content : Content, status : Statuses])
    /\ sent \in Nat /\ ended \subseteq 1..sent
    /\ worker \in [pc : {"idle", "beginDb", "beginSend", "run", "stored", "finalDb",
                         "finalSend", "finish"},
                   fin : {"indexed", "failed"}, again : BOOLEAN, replay : BOOLEAN]
    /\ beat \in {"off", "db", "send"}
    /\ req \in [Triggers \cup Publishers \cup Resets ->
                  [pc : {"idle", "send", "mark", "wait", "done"},
                   server : {"none", "check", "mark", "send", "done"}, content : Content]]
    /\ Running => uploads # <<>>

\* A record that is no longer in the topic has been handled to the end: a crash
\* or an interrupt of the worker at any point loses no document
\* (kafka_worker.py commits after the handler, auto commit is off).
AckedIsFinished ==
    \A i \in 1..sent : i \in ended \/ \E k \in DOMAIN uploads : uploads[k].id = i

\* A content shown as indexed, by the LMS or by the AI service, has been through the
\* storing step of a run, and its chunks are there unless the pipeline found no piece
\* worth storing or a Reset dropped them: no interleaving of retries, replays, stale
\* rows, late events and deletions shows an index that was never made or takes the
\* chunks of a live content away otherwise (auto_index_service.py:637).
IndexedIsAccountedFor ==
    \A c \in Content : row[c] = "live" /\ "indexed" \in {lms[c].status, ai[c].status}
                         => chunks[c] \in {"stored", "blank", "dropped"}

\* Not so in general: a content shown as indexed can be found by a search.  A document
\* of short or boilerplate pieces is indexed with no chunk at all.
IndexedIsSearchable ==
    \A c \in Content : row[c] = "live" /\ "indexed" \in {lms[c].status, ai[c].status}
                         => chunks[c] = "stored"

\* At rest no content is left shown as processing: the comment of
\* TriggerContentAutoIndex says the worker updates the status when it is done.
NotLeftProcessing ==
    AtRest => \A c \in Content : row[c] = "live" => lms[c].status # "processing"

\* A refused index request is accepted later: whatever crashed, hung or got
\* lost, the row leaves processing or grows old enough to be taken over.
RetryOpens == \A c \in Content : Refused(c) ~> ~Refused(c)

\* Every queued document is eventually acknowledged: one that always fails,
\* or hangs, does not block the partition behind it.
UploadsDrain == []<>(uploads = <<>>)
=============================================================================
