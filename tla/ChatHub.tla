------------------------------- MODULE ChatHub -------------------------------
(***************************************************************************)
(* One replica of the chat-service: the WebSocket hub and the goroutines   *)
(* around it.  ServeWS registers a client and starts its two pumps; the    *)
(* hub's loop adds and removes clients; a forwarder moves Redis messages   *)
(* to `incoming`; a pool of workers fans each message out to the clients   *)
(* of its channel; Shutdown stops all of it.  They share the rooms map     *)
(* (under a mutex, so each critical section is one step) and Go channels,  *)
(* which are bounded FIFO queues: a send to a full one waits.  A send on a *)
(* closed channel and a second close both panic, and a panic in a hub      *)
(* goroutine, which nobody recovers, takes the process down.               *)
(***************************************************************************)
EXTENDS Naturals, Sequences, SequencesExt

CONSTANTS
    Clients,        \* WebSocket connections
    Channels,       \* chat channels
    Subs,           \* [Clients -> SUBSET Channels], Client.channelIDs
    Messages,       \* events published to Redis during the run
    ChannelOf,      \* [Messages -> Channels], from the Redis key
    Workers,        \* the broadcastWorkers goroutines
    SendBuffer,     \* ClientSendBuffer: capacity of Client.send
    QueueSize,      \* capacity of register and unregister
    IncomingSize,   \* capacity of incoming
    Disconnects,    \* peers may close their connection
    Stops           \* the process may be told to shut down

ASSUME HubAssumption ==
    /\ Subs \in [Clients -> SUBSET Channels]
    /\ ChannelOf \in [Messages -> Channels]
    /\ SendBuffer \in Nat \ {0} /\ QueueSize \in Nat \ {0} /\ IncomingSize \in Nat \ {0}
    /\ Disconnects \in BOOLEAN /\ Stops \in BOOLEAN

VARIABLES
    rooms,       \* Hub.rooms: [Channels -> SUBSET Clients]
    register,    \* Hub.register, a queue of clients
    unregister,  \* Hub.unregister, a queue of clients
    incoming,    \* Hub.incoming, a queue of messages
    pubsub,      \* messages Redis delivered to this replica's subscription
    send,        \* [Clients -> queue of messages], Client.send
    closed,      \* clients whose send channel is closed
    conn,        \* [Clients -> {"none", "open", "closed"}], Client.conn
    reader,      \* [Clients -> where ServeWS and ReadPump are]
    writer,      \* [Clients -> where WritePump is]
    worker,      \* [Workers -> where broadcastWorker and fanOut are]
    loop,        \* where the select of Run is
    forwarder,   \* the goroutine that fills incoming
    stage,       \* how far Shutdown is
    crash,       \* the panic that killed the process, or "none"
    published,   \* messages handed to Redis so far
    delivered    \* [Clients -> messages written to the connection]

hubVars    == <<rooms, register, unregister, loop>>
clientVars == <<conn, reader, writer>>
sendVars   == <<send, closed, delivered>>
redisVars  == <<pubsub, forwarder, published>>
processVars == <<stage, crash>>
vars == <<hubVars, clientVars, sendVars, redisVars, processVars, incoming, worker>>

Up == crash = "none"
Cancelled == stage # "up"           \* h.ctx is done

IdleWorker == [pc |-> "idle"]
Fan(m, todo)     == [pc |-> "fan", msg |-> m, todo |-> todo]
Drop(m, todo, c) == [pc |-> "drop", msg |-> m, todo |-> todo, client |-> c]

-----------------------------------------------------------------------------
(* A connection: ServeWS, ReadPump, WritePump *)

Connect(c) ==
    /\ Up /\ ~Cancelled
    /\ reader[c] = "none"
    /\ reader' = [reader EXCEPT ![c] = "registering"]
    /\ conn' = [conn EXCEPT ![c] = "open"]
    /\ UNCHANGED <<hubVars, writer, sendVars, redisVars, processVars, incoming, worker>>

\* RegisterClient waits for room in the queue; then both pumps start.
RegisterClient(c) ==
    /\ Up
    /\ reader[c] = "registering"
    /\ Len(register) < QueueSize
    /\ register' = Append(register, c)
    /\ reader' = [reader EXCEPT ![c] = "reading"]
    /\ writer' = [writer EXCEPT ![c] = "writing"]
    /\ UNCHANGED <<rooms, unregister, loop, conn, sendVars, redisVars, processVars,
                   incoming, worker>>

\* The peer closes, the network fails or the read deadline passes.
PeerCloses(c) ==
    /\ Up /\ Disconnects
    /\ conn[c] = "open"
    /\ conn' = [conn EXCEPT ![c] = "closed"]
    /\ UNCHANGED <<hubVars, reader, writer, sendVars, redisVars, processVars, incoming,
                   worker>>

\* Mutant: WritePump unregisters the client as ReadPump does.
UnregisterClient_Both(c) ==
    /\ Up
    /\ \/ reader[c] = "reading" /\ reader' = [reader EXCEPT ![c] = "done"]
                                /\ UNCHANGED writer
       \/ writer[c] = "writing" /\ writer' = [writer EXCEPT ![c] = "done"]
                                /\ UNCHANGED reader
    /\ conn[c] = "closed"
    /\ Len(unregister) < QueueSize
    /\ unregister' = Append(unregister, c)
    /\ UNCHANGED <<rooms, register, loop, conn, sendVars, redisVars, processVars,
                   incoming, worker>>

\* ReadMessage fails; the deferred UnregisterClient waits for room.
UnregisterClient(c) ==
    /\ Up
    /\ reader[c] = "reading"
    /\ conn[c] = "closed"
    /\ Len(unregister) < QueueSize
    /\ unregister' = Append(unregister, c)
    /\ reader' = [reader EXCEPT ![c] = "done"]
    /\ UNCHANGED <<rooms, register, loop, conn, writer, sendVars, redisVars,
                   processVars, incoming, worker>>

\* WritePump writes the next queued message.
Write(c) ==
    /\ Up
    /\ writer[c] = "writing" /\ conn[c] = "open"
    /\ send[c] # <<>>
    /\ delivered' = [delivered EXCEPT ![c] = Append(@, Head(send[c]))]
    /\ send' = [send EXCEPT ![c] = Tail(@)]
    /\ UNCHANGED <<hubVars, clientVars, closed, redisVars, processVars, incoming,
                   worker>>

\* WritePump returns: the hub closed send and it is drained, or a write or a
\* ping fails.  It closes the connection and leaves unregistering to ReadPump.
WriteEnds(c) ==
    /\ Up
    /\ writer[c] = "writing"
    /\ \/ c \in closed /\ send[c] = <<>>
       \/ conn[c] = "closed"
    /\ writer' = [writer EXCEPT ![c] = "done"]
    /\ conn' = [conn EXCEPT ![c] = "closed"]
    /\ UNCHANGED <<hubVars, reader, sendVars, redisVars, processVars, incoming, worker>>

-----------------------------------------------------------------------------
(* The hub's loop *)

\* Mutant: only one of the client's channels is joined.
AddClient_OneRoom(c) ==
    LET one == CHOOSE ch \in Subs[c] : TRUE IN
    rooms' = [rooms EXCEPT ![one] = @ \cup {c}]

AddClient(c) == rooms' = [ch \in Channels |->
                            IF ch \in Subs[c] THEN rooms[ch] \cup {c} ELSE rooms[ch]]

\* Mutant: the room is deleted without looking whether it is empty.
RemoveClient_DropRoom(c) ==
    /\ rooms' = [ch \in Channels |-> IF c \in rooms[ch] THEN {} ELSE rooms[ch]]
    /\ IF c \in closed
       THEN crash' = "close of closed channel" /\ UNCHANGED closed
       ELSE closed' = closed \cup {c} /\ UNCHANGED crash

\* delete from every room, then close(c.send), closed already or not.
RemoveClient(c) ==
    /\ rooms' = [ch \in Channels |-> rooms[ch] \ {c}]
    /\ IF c \in closed
       THEN crash' = "close of closed channel" /\ UNCHANGED closed
       ELSE closed' = closed \cup {c} /\ UNCHANGED crash

LoopRegister ==
    /\ Up
    /\ loop = "run"
    /\ register # <<>>
    /\ AddClient(Head(register))
    /\ register' = Tail(register)
    /\ UNCHANGED <<unregister, loop, clientVars, sendVars, redisVars, processVars,
                   incoming, worker>>

\* In the select of Run and again in the drain after ctx is done.
LoopUnregister ==
    /\ Up
    /\ loop \in {"run", "drain"}
    /\ unregister # <<>>
    /\ RemoveClient(Head(unregister))
    /\ unregister' = Tail(unregister)
    /\ UNCHANGED <<register, loop, clientVars, send, delivered, redisVars, stage,
                   incoming, worker>>

LoopCancelled ==
    /\ Up
    /\ loop = "run" /\ Cancelled
    /\ loop' = "drain"
    /\ UNCHANGED <<rooms, register, unregister, clientVars, sendVars, redisVars,
                   processVars, incoming, worker>>

\* The drain's default branch: nothing to unregister at this moment.
LoopReturns ==
    /\ Up
    /\ loop = "drain" /\ unregister = <<>>
    /\ loop' = "returned"
    /\ UNCHANGED <<rooms, register, unregister, clientVars, sendVars, redisVars,
                   processVars, incoming, worker>>

-----------------------------------------------------------------------------
(* From Redis to the clients *)

\* Hub.Publish of some client or REST handler, on this or another replica.
Publish(m) ==
    /\ Up /\ stage \in {"up", "cancelled"}
    /\ m \notin published
    /\ published' = published \cup {m}
    /\ pubsub' = Append(pubsub, m)
    /\ UNCHANGED <<hubVars, clientVars, sendVars, forwarder, processVars, incoming,
                   worker>>

\* Mutant: the message is queued however full incoming is.
Forward_NoDrop ==
    /\ Up
    /\ forwarder = "run" /\ pubsub # <<>>
    /\ incoming' = Append(incoming, Head(pubsub))
    /\ pubsub' = Tail(pubsub)
    /\ UNCHANGED <<hubVars, clientVars, sendVars, forwarder, published, processVars,
                   worker>>

\* Drop the message if incoming is full.
Forward ==
    /\ Up
    /\ forwarder = "run" /\ pubsub # <<>>
    /\ incoming' = IF Len(incoming) < IncomingSize
                   THEN Append(incoming, Head(pubsub)) ELSE incoming
    /\ pubsub' = Tail(pubsub)
    /\ UNCHANGED <<hubVars, clientVars, sendVars, forwarder, published, processVars,
                   worker>>

\* pubsub.Close ends the range over its channel.
ForwarderEnds ==
    /\ Up
    /\ forwarder = "run" /\ stage = "unsubscribed" /\ pubsub = <<>>
    /\ forwarder' = "done"
    /\ UNCHANGED <<hubVars, clientVars, sendVars, pubsub, published, processVars,
                   incoming, worker>>

\* Mutant: the message is looked at but not received from incoming.
WorkerTake_Peek(w) ==
    /\ Up
    /\ worker[w].pc = "idle" /\ incoming # <<>>
    /\ LET m == Head(incoming) IN
       worker' = [worker EXCEPT ![w] = Fan(m, rooms[ChannelOf[m]])]
    /\ UNCHANGED <<hubVars, clientVars, sendVars, redisVars, processVars, incoming>>

\* fanOut copies the client references under the read lock.
WorkerTake(w) ==
    /\ Up
    /\ worker[w].pc = "idle" /\ incoming # <<>>
    /\ LET m == Head(incoming) IN
       worker' = [worker EXCEPT ![w] = Fan(m, rooms[ChannelOf[m]])]
    /\ incoming' = Tail(incoming)
    /\ UNCHANGED <<hubVars, clientVars, sendVars, redisVars, processVars>>

\* The non-blocking send to one client of the copy, in the map's random order.
WorkerSend(w) ==
    /\ Up
    /\ worker[w].pc = "fan"
    /\ \E c \in worker[w].todo :
        LET m == worker[w].msg  rest == worker[w].todo \ {c} IN
        IF c \in closed
        THEN /\ crash' = "send on closed channel"
             /\ UNCHANGED <<send, worker>>
        ELSE /\ UNCHANGED crash
             /\ IF Len(send[c]) < SendBuffer
                THEN /\ send' = [send EXCEPT ![c] = Append(@, m)]
                     /\ worker' = [worker EXCEPT ![w] = Fan(m, rest)]
                ELSE /\ UNCHANGED send
                     /\ worker' = [worker EXCEPT ![w] = Drop(m, rest, c)]
    /\ UNCHANGED <<hubVars, clientVars, closed, delivered, redisVars, stage, incoming>>

\* A slow client: UnregisterClient from inside fanOut waits for room.
WorkerDrop(w) ==
    /\ Up
    /\ worker[w].pc = "drop"
    /\ Len(unregister) < QueueSize
    /\ unregister' = Append(unregister, worker[w].client)
    /\ worker' = [worker EXCEPT ![w] = Fan(worker[w].msg, worker[w].todo)]
    /\ UNCHANGED <<rooms, register, loop, clientVars, sendVars, redisVars, processVars,
                   incoming>>

WorkerFinish(w) ==
    /\ Up
    /\ worker[w].pc = "fan" /\ worker[w].todo = {}
    /\ worker' = [worker EXCEPT ![w] = IdleWorker]
    /\ UNCHANGED <<hubVars, clientVars, sendVars, redisVars, processVars, incoming>>

\* ctx is done and the drain of incoming finds nothing.
WorkerReturns(w) ==
    /\ Up
    /\ worker[w].pc = "idle" /\ Cancelled /\ incoming = <<>>
    /\ worker' = [worker EXCEPT ![w] = [pc |-> "done"]]
    /\ UNCHANGED <<hubVars, clientVars, sendVars, redisVars, processVars, incoming>>

-----------------------------------------------------------------------------
(* Shutdown: cancel, close the subscription, wait for forwarder and workers *)

ShutdownStep(from, to) ==
    /\ Up
    /\ stage = from
    /\ stage' = to
    /\ UNCHANGED <<hubVars, clientVars, sendVars, redisVars, crash, incoming, worker>>

ShutdownCancel == Stops /\ ShutdownStep("up", "cancelled")
ShutdownUnsubscribe == ShutdownStep("cancelled", "unsubscribed")
ShutdownDone ==
    /\ forwarder = "done"
    /\ \A w \in Workers : worker[w].pc = "done"
    /\ ShutdownStep("unsubscribed", "stopped")

-----------------------------------------------------------------------------
Init ==
    /\ rooms = [ch \in Channels |-> {}]
    /\ register = <<>> /\ unregister = <<>> /\ incoming = <<>> /\ pubsub = <<>>
    /\ send = [c \in Clients |-> <<>>]
    /\ closed = {}
    /\ conn = [c \in Clients |-> "none"]
    /\ reader = [c \in Clients |-> "none"]
    /\ writer = [c \in Clients |-> "none"]
    /\ worker = [w \in Workers |-> IdleWorker]
    /\ loop = "run" /\ forwarder = "run" /\ stage = "up" /\ crash = "none"
    /\ published = {}
    /\ delivered = [c \in Clients |-> <<>>]

ClientStep(c) == \/ Connect(c) \/ RegisterClient(c) \/ PeerCloses(c)
                 \/ UnregisterClient(c) \/ Write(c) \/ WriteEnds(c)
LoopStep == LoopRegister \/ LoopUnregister \/ LoopCancelled \/ LoopReturns
WorkerStep(w) == \/ WorkerTake(w) \/ WorkerSend(w) \/ WorkerDrop(w)
                 \/ WorkerFinish(w) \/ WorkerReturns(w)
ShutdownSteps == ShutdownCancel \/ ShutdownUnsubscribe \/ ShutdownDone

Next == \/ \E c \in Clients : ClientStep(c)
        \/ LoopStep
        \/ \E m \in Messages : Publish(m)
        \/ Forward \/ ForwarderEnds
        \/ \E w \in Workers : WorkerStep(w)
        \/ ShutdownSteps

Spec == Init /\ [][Next]_vars

(***************************************************************************)
(* Fairness: goroutines that can take a step are scheduled.  The select of *)
(* Run picks at random among its ready cases, so neither queue is starved. *)
(* Connecting, disconnecting, publishing and stopping are never forced.    *)
(***************************************************************************)
Fairness ==
    /\ \A c \in Clients : /\ WF_vars(RegisterClient(c)) /\ WF_vars(UnregisterClient(c))
                          /\ WF_vars(Write(c)) /\ WF_vars(WriteEnds(c))
    /\ SF_vars(LoopRegister) /\ SF_vars(LoopUnregister) /\ SF_vars(LoopCancelled)
    /\ WF_vars(LoopReturns)
    /\ WF_vars(Forward) /\ WF_vars(ForwarderEnds)
    /\ \A w \in Workers : WF_vars(WorkerStep(w))
    /\ WF_vars(ShutdownUnsubscribe) /\ WF_vars(ShutdownDone)

FairSpec == Spec /\ Fairness

-----------------------------------------------------------------------------
(* Properties *)

\* What a broadcastWorker can be doing.
WorkerState ==
    {IdleWorker, [pc |-> "done"]}
       \cup [pc : {"fan"}, msg : Messages, todo : SUBSET Clients]
       \cup [pc : {"drop"}, msg : Messages, todo : SUBSET Clients, client : Clients]

\* Every variable has its shape and no Go channel holds more than its capacity.
TypeOK ==
    /\ rooms \in [Channels -> SUBSET Clients]
    /\ register \in Seq(Clients) /\ unregister \in Seq(Clients)
    /\ incoming \in Seq(Messages) /\ pubsub \in Seq(Messages)
    /\ send \in [Clients -> Seq(Messages)]
    /\ closed \subseteq Clients
    /\ conn \in [Clients -> {"none", "open", "closed"}]
    /\ reader \in [Clients -> {"none", "registering", "reading", "done"}]
    /\ writer \in [Clients -> {"none", "writing", "done"}]
    /\ worker \in [Workers -> WorkerState]
    /\ loop \in {"run", "drain", "returned"}
    /\ forwarder \in {"run", "done"}
    /\ stage \in {"up", "cancelled", "unsubscribed", "stopped"}
    /\ crash \in {"none", "close of closed channel", "send on closed channel"}
    /\ published \subseteq Messages
    /\ delivered \in [Clients -> Seq(Messages)]
    /\ Len(register) <= QueueSize /\ Len(unregister) <= QueueSize
    /\ Len(incoming) <= IncomingSize
    /\ \A c \in Clients : Len(send[c]) <= SendBuffer

\* With several workers, drops and disconnects, a client of several channels
\* never gets a message twice.
AtMostOnce ==
    \A c \in Clients : IsInjective(delivered[c] \o send[c])

\* A client that stays connected gets every message fanned out while it is in
\* the room, unless it is too slow, the process crashed or it is shutting down:
\* other clients' disconnects and drops never cost it a message.
Delivered ==
    \A c \in Clients, m \in Messages :
        (/\ m \in published /\ m \in ToSet(pubsub)
         /\ c \in rooms[ChannelOf[m]])
           ~> \/ m \in ToSet(delivered[c])
              \/ conn[c] = "closed" \/ crash # "none" \/ stage # "up"

\* An open connection ends up in all its rooms.
Joined ==
    \A c \in Clients :
        (reader[c] = "reading" /\ conn[c] = "open")
           ~> \/ \A ch \in Subs[c] : c \in rooms[ch]
              \/ conn[c] = "closed" \/ crash # "none" \/ stage # "up"

\* The loop never closes a send channel twice: ReadPump, WritePump and fanOut
\* together ask for at most one removal of a client (none of them being slow).
NoDoubleClose == crash # "close of closed channel"

-----------------------------------------------------------------------------
(* What comments say and the code does not ensure *)

\* "send ... Closed by the hub when the client is unregistered": nothing is sent
\* on it afterwards.
NoSendAfterClose == crash # "send on closed channel"

\* "Shutdown gracefully stops the hub": it returns.
ShutdownReturns == (stage = "cancelled") ~> (stage = "stopped" \/ crash # "none")
=============================================================================
