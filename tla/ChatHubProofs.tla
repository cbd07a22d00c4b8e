---------------------------- MODULE ChatHubProofs ----------------------------
(***************************************************************************)
(* Proofs about ChatHub for any number of connections, channels, messages  *)
(* and workers and for any capacities: no queue exceeds its capacity, and  *)
(* no connection gets a message twice, because at every moment a message   *)
(* is in one place only as far as one connection is concerned.             *)
(***************************************************************************)
EXTENDS ChatHub, SequenceTheorems, FiniteSetTheorems, TLAPS

Elems(s) == {s[k] : k \in DOMAIN s}

(* TypeOK in parts.                                                          *)
Queues ==
    /\ register \in Seq(Clients) /\ Len(register) <= QueueSize
    /\ unregister \in Seq(Clients) /\ Len(unregister) <= QueueSize
    /\ incoming \in Seq(Messages) /\ Len(incoming) <= IncomingSize
    /\ pubsub \in Seq(Messages)
Buffers ==
    /\ send \in [Clients -> Seq(Messages)] /\ delivered \in [Clients -> Seq(Messages)]
    /\ \A c \in Clients : Len(send[c]) <= SendBuffer
Pool == worker \in [Workers -> WorkerState]
Rest ==
    /\ rooms \in [Channels -> SUBSET Clients]
    /\ closed \subseteq Clients
    /\ conn \in [Clients -> {"none", "open", "closed"}]
    /\ reader \in [Clients -> {"none", "registering", "reading", "done"}]
    /\ writer \in [Clients -> {"none", "writing", "done"}]
    /\ loop \in {"run", "drain", "returned"}
    /\ forwarder \in {"run", "done"}
    /\ stage \in {"up", "cancelled", "unsubscribed", "stopped"}
    /\ crash \in {"none", "close of closed channel", "send on closed channel"}
    /\ published \subseteq Messages

Busy(w) == worker[w].pc \in {"fan", "drop"}
Got(c) == delivered[c] \o send[c]

\* Messages that no worker has taken yet: each is there once.
Ahead == Elems(pubsub) \cup Elems(incoming)
Waiting ==
    /\ IsInjective(pubsub) /\ IsInjective(incoming)
    /\ Elems(pubsub) \cap Elems(incoming) = {}
    /\ Ahead \subseteq published

\* A message being fanned out is not waiting, and is with one worker.
Taken ==
    \A w \in Workers : Busy(w) =>
        /\ worker[w].msg \in published \ Ahead
        /\ \A v \in Workers \ {w} : Busy(v) => worker[v].msg # worker[w].msg

\* What a connection got once is no longer on its way to it.
Served ==
    \A c \in Clients :
        /\ IsInjective(Got(c))
        /\ Elems(Got(c)) \subseteq published \ Ahead
        /\ \A w \in Workers : Busy(w) /\ c \in worker[w].todo => worker[w].msg \notin Elems(Got(c))
-----------------------------------------------------------------------------
(* Queues.                                                                   *)

LEMMA AppendQueue ==
    ASSUME NEW S, NEW s \in Seq(S), NEW e \in S
    PROVE  /\ Append(s, e) \in Seq(S) /\ Len(Append(s, e)) = Len(s) + 1
           /\ Elems(Append(s, e)) = Elems(s) \cup {e}
           /\ IsInjective(s) /\ e \notin Elems(s) => IsInjective(Append(s, e))
<1>1. /\ Append(s, e) \in Seq(S) /\ Len(Append(s, e)) = Len(s) + 1
      /\ DOMAIN Append(s, e) = 1..(Len(s) + 1) /\ DOMAIN s = 1..Len(s) /\ Len(s) \in Nat
      /\ \A k \in 1..Len(s) : Append(s, e)[k] = s[k]
      /\ Append(s, e)[Len(s) + 1] = e
  OBVIOUS
<1>2. 1..(Len(s) + 1) = 1..Len(s) \cup {Len(s) + 1} BY <1>1
<1>3. Elems(Append(s, e)) = Elems(s) \cup {e}
  <2>1. \A x \in Elems(Append(s, e)) : x \in Elems(s) \cup {e} BY <1>1, <1>2 DEF Elems
  <2>2. \A x \in Elems(s) \cup {e} : x \in Elems(Append(s, e)) BY <1>1, <1>2 DEF Elems
  <2> QED BY <2>1, <2>2
<1>4. ASSUME IsInjective(s), e \notin Elems(s) PROVE IsInjective(Append(s, e))
  <2>1. \A k \in 1..Len(s) : s[k] # e BY <1>1, <1>4 DEF Elems
  <2>2. \A j, k \in 1..Len(s) : s[j] = s[k] => j = k BY <1>1, <1>4 DEF IsInjective
  <2>3. \A j, k \in 1..(Len(s) + 1) : Append(s, e)[j] = Append(s, e)[k] => j = k
    BY <1>1, <1>2, <2>1, <2>2
  <2> QED BY <1>1, <2>3 DEF IsInjective
<1> QED BY <1>1, <1>3, <1>4

LEMMA TailQueue ==
    ASSUME NEW S, NEW s \in Seq(S), s # <<>>
    PROVE  /\ Tail(s) \in Seq(S) /\ Len(Tail(s)) = Len(s) - 1 /\ Len(s) \in Nat
           /\ Head(s) \in S /\ Elems(s) = Elems(Tail(s)) \cup {Head(s)}
           /\ IsInjective(s) => IsInjective(Tail(s)) /\ Head(s) \notin Elems(Tail(s))
<1>1. /\ Tail(s) \in Seq(S) /\ Head(s) \in S /\ Len(Tail(s)) = Len(s) - 1
      /\ \A i \in 1..Len(Tail(s)) : Tail(s)[i] = s[i + 1]
  BY HeadTailProperties
<1>2. Len(s) \in Nat /\ Len(s) >= 1 /\ DOMAIN s = 1..Len(s) /\ Head(s) = s[1]
      /\ DOMAIN Tail(s) = 1..(Len(s) - 1)
  BY <1>1, EmptySeq, LenProperties
<1>3. Elems(s) = Elems(Tail(s)) \cup {Head(s)}
  <2>1. ASSUME NEW k \in 1..Len(s) PROVE s[k] \in Elems(Tail(s)) \cup {Head(s)}
    <3>1. CASE k = 1 BY <1>2, <3>1
    <3>2. CASE k # 1
      <4>1. k - 1 \in 1..(Len(s) - 1) /\ s[k] = Tail(s)[k - 1] BY <1>1, <1>2, <3>2
      <4> QED BY <1>2, <4>1 DEF Elems
    <3> QED BY <3>1, <3>2
  <2>2. \A k \in 1..(Len(s) - 1) : Tail(s)[k] = s[k + 1] /\ k + 1 \in 1..Len(s)
    BY <1>1, <1>2
  <2>3. 1 \in 1..Len(s) BY <1>2
  <2>4. \A x \in Elems(Tail(s)) \cup {Head(s)} : x \in Elems(s)
    BY <1>2, <2>2, <2>3 DEF Elems
  <2> QED BY <1>2, <2>1, <2>4 DEF Elems
<1>4. ASSUME IsInjective(s) PROVE IsInjective(Tail(s)) /\ Head(s) \notin Elems(Tail(s))
  <2>1. \A j, k \in 1..Len(s) : s[j] = s[k] => j = k BY <1>2, <1>4 DEF IsInjective
  <2>2. \A k \in 1..(Len(s) - 1) : Tail(s)[k] = s[k + 1] /\ k + 1 \in 1..Len(s) /\ k + 1 # 1
    BY <1>1, <1>2
  <2>3. \A j, k \in 1..(Len(s) - 1) : Tail(s)[j] = Tail(s)[k] => j = k
    BY <2>1, <2>2
  <2>4. \A k \in 1..(Len(s) - 1) : Tail(s)[k] # s[1] BY <1>2, <2>1, <2>2
  <2> QED BY <1>2, <2>3, <2>4 DEF IsInjective, Elems
<1> QED BY <1>1, <1>2, <1>3, <1>4

\* Writing the first queued message moves it from send to delivered.
LEMMA MoveHead ==
    ASSUME NEW S, NEW d \in Seq(S), NEW s \in Seq(S), s # <<>>
    PROVE  Append(d, Head(s)) \o Tail(s) = d \o s
<1>1. /\ Tail(s) \in Seq(S) /\ Head(s) \in S /\ Len(Tail(s)) = Len(s) - 1 /\ Len(s) \in Nat
      /\ Len(s) >= 1 /\ Head(s) = s[1] /\ Len(d) \in Nat
      /\ \A i \in 1..Len(Tail(s)) : Tail(s)[i] = s[i + 1]
  BY HeadTailProperties, EmptySeq, LenProperties
<1> DEFINE a == Append(d, Head(s)) \o Tail(s)
           b == d \o s
<1>2. /\ Append(d, Head(s)) \in Seq(S) /\ Len(Append(d, Head(s))) = Len(d) + 1
      /\ Append(d, Head(s))[Len(d) + 1] = Head(s)
      /\ \A i \in 1..Len(d) : Append(d, Head(s))[i] = d[i]
  BY <1>1
<1>3. a \in Seq(S) /\ b \in Seq(S) /\ Len(a) = Len(d) + Len(s) /\ Len(b) = Len(d) + Len(s)
  BY <1>1, <1>2, ConcatProperties
<1>4. ASSUME NEW i \in 1..Len(a) PROVE a[i] = b[i]
  <2>1. CASE i <= Len(d)
    BY <1>1, <1>2, <1>3, <2>1, ConcatProperties
  <2>2. CASE i = Len(d) + 1
    BY <1>1, <1>2, <1>3, <2>2, ConcatProperties
  <2>3. CASE i > Len(d) + 1
    <3>1. /\ i - (Len(d) + 1) \in 1..Len(Tail(s)) /\ i - Len(d) \in 1..Len(s)
          /\ i - (Len(d) + 1) + 1 = i - Len(d)
      BY <1>1, <1>3, <2>3
    <3>2. a[i] = Tail(s)[i - (Len(d) + 1)] BY <1>1, <1>2, <1>3, <2>3, ConcatProperties
    <3>3. b[i] = s[i - Len(d)] BY <1>1, <1>3, <2>3, ConcatProperties
    <3> QED BY <1>1, <3>1, <3>2, <3>3
  <2> QED BY <1>1, <1>3, <2>1, <2>2, <2>3
<1> HIDE DEF a, b
<1>5. a = b BY <1>3, <1>4, SeqEqual
<1> QED BY <1>5 DEF a, b

\* A message queued behind what a connection has comes last.
LEMMA ConcatAppend ==
    ASSUME NEW S, NEW d \in Seq(S), NEW s \in Seq(S), NEW e \in S
    PROVE  d \o Append(s, e) = Append(d \o s, e) /\ d \o s \in Seq(S)
  OBVIOUS
-----------------------------------------------------------------------------
(* Types.                                                                    *)

Types == Queues /\ Buffers /\ Pool /\ Rest

LEMMA TypesAreTypeOK == TypeOK <=> Types
  BY DEF TypeOK, Types, Queues, Buffers, Pool, Rest

LEMMA WorkerShapes ==
    /\ IdleWorker \in WorkerState /\ [pc |-> "done"] \in WorkerState
    /\ \A m \in Messages, todo \in SUBSET Clients :
          /\ Fan(m, todo) \in WorkerState
          /\ \A c \in Clients : Drop(m, todo, c) \in WorkerState
    /\ \A x \in WorkerState :
          /\ x.pc \in {"idle", "done", "fan", "drop"}
          /\ x.pc \in {"fan", "drop"} => x.msg \in Messages /\ x.todo \subseteq Clients
          /\ x.pc = "drop" => x.client \in Clients
  BY DEF WorkerState, IdleWorker, Fan, Drop

LEMMA InitTypes == Init => Types
<1> SUFFICES ASSUME Init PROVE Types OBVIOUS
<1>1. Queues BY HubAssumption DEF Init, Queues
<1>2. Buffers BY HubAssumption DEF Init, Buffers
<1>3. Pool BY WorkerShapes DEF Init, Pool
<1>4. Rest BY DEF Init, Rest
<1> QED BY <1>1, <1>2, <1>3, <1>4 DEF Types

LEMMA ClientTypes ==
    ASSUME Types, NEW c \in Clients, ClientStep(c)
    PROVE  Types'
<1> USE DEF Types
<1>1. CASE Connect(c)
  BY <1>1 DEF Connect, Queues, Buffers, Pool, Rest, hubVars, sendVars, redisVars, processVars
<1>2. CASE RegisterClient(c)
  <2>1. /\ register' \in Seq(Clients) /\ Len(register') <= QueueSize
        /\ UNCHANGED <<unregister, incoming, pubsub>>
    BY <1>2, AppendQueue, HubAssumption DEF RegisterClient, Queues, redisVars
  <2>2. Buffers' /\ Pool' /\ Rest'
    BY <1>2 DEF RegisterClient, Buffers, Pool, Rest, sendVars, redisVars, processVars
  <2> QED BY <2>1, <2>2 DEF Queues
<1>3. CASE PeerCloses(c)
  BY <1>3 DEF PeerCloses, Queues, Buffers, Pool, Rest, hubVars, sendVars, redisVars, processVars
<1>4. CASE UnregisterClient(c)
  <2>1. /\ unregister' \in Seq(Clients) /\ Len(unregister') <= QueueSize
        /\ UNCHANGED <<register, incoming, pubsub>>
    BY <1>4, AppendQueue, HubAssumption DEF UnregisterClient, Queues, redisVars
  <2>2. Buffers' /\ Pool' /\ Rest'
    BY <1>4 DEF UnregisterClient, Buffers, Pool, Rest, sendVars, redisVars, processVars
  <2> QED BY <2>1, <2>2 DEF Queues
<1>5. CASE Write(c)
  <2>1. /\ Tail(send[c]) \in Seq(Messages) /\ Len(Tail(send[c])) <= Len(send[c])
        /\ Head(send[c]) \in Messages
    BY <1>5, TailQueue DEF Write, Buffers
  <2>2. Append(delivered[c], Head(send[c])) \in Seq(Messages)
    BY <2>1, AppendQueue DEF Buffers
  <2>3. Buffers' BY <1>5, <2>1, <2>2, HubAssumption DEF Write, Buffers
  <2>4. Queues' /\ Pool' /\ Rest'
    BY <1>5 DEF Write, Queues, Pool, Rest, hubVars, clientVars, redisVars, processVars
  <2> QED BY <2>3, <2>4
<1>6. CASE WriteEnds(c)
  BY <1>6 DEF WriteEnds, Queues, Buffers, Pool, Rest, hubVars, sendVars, redisVars, processVars
<1> QED BY <1>1, <1>2, <1>3, <1>4, <1>5, <1>6 DEF ClientStep

LEMMA LoopTypes ==
    ASSUME Types, LoopStep
    PROVE  Types'
<1> USE DEF Types
<1>1. CASE LoopRegister
  <2>1. /\ register' \in Seq(Clients) /\ Len(register') <= QueueSize
        /\ UNCHANGED <<unregister, incoming, pubsub>> /\ Head(register) \in Clients
    BY <1>1, TailQueue, HubAssumption DEF LoopRegister, Queues, redisVars
  <2>2. rooms' \in [Channels -> SUBSET Clients]
    BY <1>1, <2>1 DEF LoopRegister, AddClient, Rest
  <2>3. Buffers' /\ Pool' /\ Rest'
    BY <1>1, <2>2 DEF LoopRegister, Buffers, Pool, Rest, clientVars, sendVars, redisVars, processVars
  <2> QED BY <2>1, <2>3 DEF Queues
<1>2. CASE LoopUnregister
  <2>1. /\ unregister' \in Seq(Clients) /\ Len(unregister') <= QueueSize
        /\ UNCHANGED <<register, incoming, pubsub>> /\ Head(unregister) \in Clients
    BY <1>2, TailQueue, HubAssumption DEF LoopUnregister, Queues, redisVars
  <2>2. rooms' \in [Channels -> SUBSET Clients] /\ closed' \subseteq Clients
        /\ crash' \in {"none", "close of closed channel", "send on closed channel"}
    BY <1>2, <2>1 DEF LoopUnregister, RemoveClient, Rest
  <2>3. Buffers' /\ Pool' /\ Rest'
    BY <1>2, <2>2 DEF LoopUnregister, Buffers, Pool, Rest, clientVars, redisVars
  <2> QED BY <2>1, <2>3 DEF Queues
<1>3. CASE LoopCancelled \/ LoopReturns
  BY <1>3 DEF LoopCancelled, LoopReturns, Queues, Buffers, Pool, Rest, clientVars, sendVars,
              redisVars, processVars
<1> QED BY <1>1, <1>2, <1>3 DEF LoopStep

LEMMA RedisTypes ==
    ASSUME Types, (\E m \in Messages : Publish(m)) \/ Forward \/ ForwarderEnds
    PROVE  Types'
<1> USE DEF Types
<1>1. ASSUME NEW m \in Messages, Publish(m) PROVE Types'
  <2>1. pubsub' \in Seq(Messages) BY <1>1, AppendQueue DEF Publish, Queues
  <2>2. Queues' BY <1>1, <2>1 DEF Publish, Queues, hubVars
  <2>3. Buffers' /\ Pool' /\ Rest'
    BY <1>1 DEF Publish, Buffers, Pool, Rest, hubVars, clientVars, sendVars, processVars
  <2> QED BY <2>2, <2>3
<1>2. CASE Forward
  <2>1. pubsub' \in Seq(Messages) /\ Head(pubsub) \in Messages
    BY <1>2, TailQueue DEF Forward, Queues
  <2>2. incoming' \in Seq(Messages) /\ Len(incoming') <= IncomingSize
    BY <1>2, <2>1, AppendQueue, HubAssumption DEF Forward, Queues
  <2>3. Queues' BY <1>2, <2>1, <2>2 DEF Forward, Queues, hubVars
  <2>4. Buffers' /\ Pool' /\ Rest'
    BY <1>2 DEF Forward, Buffers, Pool, Rest, hubVars, clientVars, sendVars, processVars
  <2> QED BY <2>3, <2>4
<1>3. CASE ForwarderEnds
  BY <1>3 DEF ForwarderEnds, Queues, Buffers, Pool, Rest, hubVars, clientVars, sendVars, processVars
<1> QED BY <1>1, <1>2, <1>3

LEMMA WorkerTypes ==
    ASSUME Types, NEW w \in Workers, WorkerStep(w)
    PROVE  Types'
<1> USE DEF Types
<1>0. worker[w] \in WorkerState BY DEF Pool
<1>1. CASE WorkerTake(w)
  <2>1. /\ incoming' \in Seq(Messages) /\ Len(incoming') <= IncomingSize
        /\ Head(incoming) \in Messages
    BY <1>1, TailQueue, HubAssumption DEF WorkerTake, Queues
  <2>2. rooms[ChannelOf[Head(incoming)]] \in SUBSET Clients BY <2>1, HubAssumption DEF Rest
  <2>3. Fan(Head(incoming), rooms[ChannelOf[Head(incoming)]]) \in WorkerState
    BY <2>1, <2>2, WorkerShapes
  <2>4. Pool' BY <1>1, <2>3 DEF WorkerTake, Pool
  <2>5. Queues' BY <1>1, <2>1 DEF WorkerTake, Queues, hubVars, redisVars
  <2>6. Buffers' /\ Rest'
    BY <1>1 DEF WorkerTake, Buffers, Rest, hubVars, clientVars, sendVars, redisVars, processVars
  <2> QED BY <2>4, <2>5, <2>6
<1>2. CASE WorkerSend(w)
  <2>1. PICK c \in worker[w].todo :
          LET m == worker[w].msg  rest == worker[w].todo \ {c} IN
          IF c \in closed
          THEN crash' = "send on closed channel" /\ UNCHANGED <<send, worker>>
          ELSE /\ UNCHANGED crash
               /\ IF Len(send[c]) < SendBuffer
                  THEN /\ send' = [send EXCEPT ![c] = Append(@, m)]
                       /\ worker' = [worker EXCEPT ![w] = Fan(m, rest)]
                  ELSE /\ UNCHANGED send
                       /\ worker' = [worker EXCEPT ![w] = Drop(m, rest, c)]
    BY <1>2 DEF WorkerSend
  <2>2. /\ worker[w].msg \in Messages /\ c \in Clients
        /\ worker[w].todo \ {c} \in SUBSET Clients
    BY <1>0, <1>2, <2>1, WorkerShapes DEF WorkerSend
  <2>3. /\ Fan(worker[w].msg, worker[w].todo \ {c}) \in WorkerState
        /\ Drop(worker[w].msg, worker[w].todo \ {c}, c) \in WorkerState
    BY <2>2, WorkerShapes
  <2>4. Pool' BY <2>1, <2>3 DEF Pool
  <2>5. /\ Append(send[c], worker[w].msg) \in Seq(Messages)
        /\ Len(Append(send[c], worker[w].msg)) = Len(send[c]) + 1 /\ Len(send[c]) \in Nat
    BY <2>2, AppendQueue, LenProperties DEF Buffers
  <2>6. /\ send' \in [Clients -> Seq(Messages)]
        /\ \A d \in Clients : Len(send'[d]) <= SendBuffer
    <3>1. CASE UNCHANGED send BY <3>1 DEF Buffers
    <3>2. CASE Len(send[c]) < SendBuffer
               /\ send' = [send EXCEPT ![c] = Append(send[c], worker[w].msg)]
      <4>1. Len(send[c]) + 1 <= SendBuffer BY <2>5, <3>2, HubAssumption
      <4>2. \A d \in Clients : send'[d] = IF d = c THEN Append(send[c], worker[w].msg) ELSE send[d]
        BY <3>2 DEF Buffers
      <4>3. \A d \in Clients : Len(send'[d]) <= SendBuffer BY <2>5, <4>1, <4>2 DEF Buffers
      <4>4. send' \in [Clients -> Seq(Messages)] BY <2>5, <3>2 DEF Buffers
      <4> QED BY <4>3, <4>4
    <3> QED BY <2>1, <3>1, <3>2
  <2>7. Buffers' BY <1>2, <2>6 DEF WorkerSend, Buffers
  <2>8. Queues' BY <1>2 DEF WorkerSend, Queues, hubVars, redisVars
  <2>9. Rest' BY <1>2, <2>1 DEF WorkerSend, Rest, hubVars, clientVars, redisVars
  <2> QED BY <2>4, <2>7, <2>8, <2>9
<1>3. CASE WorkerDrop(w)
  <2>1. /\ worker[w].client \in Clients
        /\ Fan(worker[w].msg, worker[w].todo) \in WorkerState
    BY <1>0, <1>3, WorkerShapes DEF WorkerDrop
  <2>2. unregister' \in Seq(Clients) /\ Len(unregister') <= QueueSize
    BY <1>3, <2>1, AppendQueue, HubAssumption DEF WorkerDrop, Queues
  <2>3. Queues' BY <1>3, <2>2 DEF WorkerDrop, Queues, redisVars
  <2>4. Pool' BY <1>3, <2>1 DEF WorkerDrop, Pool
  <2>5. Buffers' /\ Rest'
    BY <1>3 DEF WorkerDrop, Buffers, Rest, clientVars, sendVars, redisVars, processVars
  <2> QED BY <2>3, <2>4, <2>5
<1>4. CASE WorkerFinish(w) \/ WorkerReturns(w)
  <2>1. Pool' BY <1>4, WorkerShapes DEF WorkerFinish, WorkerReturns, Pool
  <2>2. Queues' /\ Buffers' /\ Rest'
    BY <1>4 DEF WorkerFinish, WorkerReturns, Queues, Buffers, Rest, hubVars, clientVars, sendVars,
                redisVars, processVars
  <2> QED BY <2>1, <2>2
<1> QED BY <1>1, <1>2, <1>3, <1>4 DEF WorkerStep

LEMMA NextTypes == Types /\ [Next]_vars => Types'
<1> SUFFICES ASSUME Types, [Next]_vars PROVE Types' OBVIOUS
<1>1. CASE ShutdownSteps
  BY <1>1 DEF ShutdownSteps, ShutdownCancel, ShutdownUnsubscribe, ShutdownDone, ShutdownStep,
              Types, Queues, Buffers, Pool, Rest, hubVars, clientVars, sendVars, redisVars
<1>2. CASE UNCHANGED vars
  BY <1>2 DEF vars, Types, Queues, Buffers, Pool, Rest, hubVars, clientVars, sendVars, redisVars,
              processVars
<1> QED BY <1>1, <1>2, ClientTypes, LoopTypes, RedisTypes, WorkerTypes DEF Next

\* Every queue stays within its capacity and everything keeps its shape.
THEOREM TypeCorrect == Spec => []TypeOK
<1>1. Spec => []Types BY InitTypes, NextTypes, PTL DEF Spec
<1> QED BY <1>1, TypesAreTypeOK, PTL
-----------------------------------------------------------------------------
(* Where a message is.                                                       *)

Line == Waiting /\ Taken /\ Served

LEMMA InitLine == Init => Line
<1> SUFFICES ASSUME Init PROVE Line OBVIOUS
<1>1. /\ pubsub = <<>> /\ incoming = <<>> /\ published = {}
      /\ \A w \in Workers : ~Busy(w)
  BY DEF Init, Busy, IdleWorker
<1>2. \A c \in Clients : Got(c) = <<>> BY DEF Init, Got
<1>3. Elems(<<>>) = {} /\ IsInjective(<<>>) BY DEF Elems, IsInjective
<1> QED BY <1>1, <1>2, <1>3 DEF Line, Waiting, Taken, Served, Ahead

\* Steps that move no message between the places.
LEMMA NothingMoves ==
    ASSUME Line, UNCHANGED <<pubsub, incoming, published>>,
           \A c \in Clients : Got(c)' = Got(c),
           \A w \in Workers : Busy(w)' => /\ Busy(w) /\ worker'[w].msg = worker[w].msg
                                         /\ worker'[w].todo \subseteq worker[w].todo
    PROVE  Line'
<1>1. Waiting' BY DEF Line, Waiting, Ahead
<1>2. Ahead' = Ahead BY DEF Ahead
<1>3. Taken' BY <1>2 DEF Line, Taken
<1>4. Served' BY <1>2 DEF Line, Served
<1> QED BY <1>1, <1>3, <1>4 DEF Line

LEMMA WriteLine ==
    ASSUME Types, Line, NEW c \in Clients, Write(c)
    PROVE  Line'
<1>1. \A d \in Clients : Got(d)' = Got(d)
  <2> SUFFICES ASSUME NEW d \in Clients PROVE Got(d)' = Got(d) OBVIOUS
  <2>1. CASE d = c
    <3>1. /\ send[c] # <<>> /\ send[c] \in Seq(Messages) /\ delivered[c] \in Seq(Messages)
          /\ delivered'[c] = Append(delivered[c], Head(send[c])) /\ send'[c] = Tail(send[c])
      BY DEF Write, Types, Buffers
    <3> QED BY <2>1, <3>1, MoveHead DEF Got
  <2>2. CASE d # c BY <2>2 DEF Write, Got, Types, Buffers
  <2> QED BY <2>1, <2>2
<1>2. UNCHANGED <<pubsub, incoming, published, worker>> BY DEF Write, redisVars
<1> QED BY <1>1, <1>2, NothingMoves DEF Busy

LEMMA PublishLine ==
    ASSUME Types, Line, NEW m \in Messages, Publish(m)
    PROVE  Line'
<1>1. /\ m \notin published /\ published' = published \cup {m} /\ pubsub' = Append(pubsub, m)
      /\ UNCHANGED <<incoming, worker, send, delivered>>
  BY DEF Publish, sendVars
<1>2. m \notin Elems(pubsub) /\ m \notin Elems(incoming) BY <1>1 DEF Line, Waiting, Ahead
<1>3. Elems(pubsub') = Elems(pubsub) \cup {m} /\ IsInjective(pubsub')
  BY <1>1, <1>2, AppendQueue DEF Line, Waiting, Types, Queues
<1>4. Elems(incoming') = Elems(incoming) BY <1>1
<1>5. Waiting' BY <1>1, <1>2, <1>3, <1>4 DEF Line, Waiting, Ahead
<1>6. Ahead' = Ahead \cup {m} BY <1>3, <1>4 DEF Ahead
<1>7. /\ \A w \in Workers : Busy(w)' <=> Busy(w)
      /\ \A c \in Clients : Got(c)' = Got(c)
  BY <1>1 DEF Busy, Got
<1>8. Taken' BY <1>1, <1>6, <1>7 DEF Line, Taken
<1>9. Served' BY <1>1, <1>6, <1>7 DEF Line, Served
<1> QED BY <1>5, <1>8, <1>9 DEF Line

LEMMA ForwardLine ==
    ASSUME Types, Line, Forward
    PROVE  Line'
<1>1. /\ pubsub # <<>> /\ pubsub' = Tail(pubsub) /\ pubsub \in Seq(Messages)
      /\ incoming' \in {incoming, Append(incoming, Head(pubsub))} /\ incoming \in Seq(Messages)
      /\ UNCHANGED <<published, worker, send, delivered>>
  BY DEF Forward, Types, Queues, sendVars
<1>2. /\ Head(pubsub) \in Messages /\ IsInjective(pubsub')
      /\ Elems(pubsub) = Elems(pubsub') \cup {Head(pubsub)} /\ Head(pubsub) \notin Elems(pubsub')
  BY <1>1, TailQueue DEF Line, Waiting
<1>3. Head(pubsub) \notin Elems(incoming) BY <1>2 DEF Line, Waiting
<1>4. /\ IsInjective(incoming')
      /\ Elems(incoming') \subseteq Elems(incoming) \cup {Head(pubsub)}
  <2>1. CASE incoming' = incoming BY <2>1 DEF Line, Waiting
  <2>2. CASE incoming' = Append(incoming, Head(pubsub))
    BY <1>1, <1>2, <1>3, <2>2, AppendQueue DEF Line, Waiting
  <2> QED BY <1>1, <2>1, <2>2
<1>5. Ahead' \subseteq Ahead BY <1>2, <1>4 DEF Ahead
<1>6. Waiting' BY <1>1, <1>2, <1>3, <1>4, <1>5 DEF Line, Waiting
<1>7. /\ \A w \in Workers : Busy(w)' <=> Busy(w)
      /\ \A c \in Clients : Got(c)' = Got(c)
  BY <1>1 DEF Busy, Got
<1>8. Taken' BY <1>1, <1>5, <1>7 DEF Line, Taken
<1>9. Served' BY <1>1, <1>5, <1>7 DEF Line, Served
<1> QED BY <1>6, <1>8, <1>9 DEF Line

\* The head of incoming goes to a worker that had nothing.
LEMMA TakeLine ==
    ASSUME Types, Line, NEW w \in Workers, WorkerTake(w)
    PROVE  Line'
<1> DEFINE m == Head(incoming)
<1>1. /\ incoming # <<>> /\ incoming' = Tail(incoming) /\ incoming \in Seq(Messages)
      /\ UNCHANGED <<published, pubsub, send, delivered>>
      /\ ~Busy(w)
  BY DEF WorkerTake, Types, Queues, sendVars, redisVars, Busy
<1>2. /\ m \in Messages /\ IsInjective(incoming')
      /\ Elems(incoming) = Elems(incoming') \cup {m} /\ m \notin Elems(incoming')
  BY <1>1, TailQueue DEF Line, Waiting
<1>3. m \notin Elems(pubsub) /\ m \in published BY <1>2 DEF Line, Waiting, Ahead
<1>4. /\ worker'[w].msg = m /\ Busy(w)'
      /\ \A v \in Workers \ {w} : worker'[v] = worker[v] /\ (Busy(v)' <=> Busy(v))
  BY DEF WorkerTake, Types, Pool, Busy, Fan
<1>5. Ahead' = Ahead \ {m} /\ m \in Ahead BY <1>1, <1>2, <1>3 DEF Ahead
<1>6. Waiting' BY <1>1, <1>2, <1>5 DEF Line, Waiting
<1>7. \A c \in Clients : Got(c)' = Got(c) BY <1>1 DEF Got
<1> HIDE DEF m
<1>8. \A v \in Workers \ {w} : Busy(v) => worker[v].msg # m BY <1>5 DEF Line, Taken
<1>9. Taken' BY <1>1, <1>3, <1>4, <1>5, <1>8 DEF Line, Taken
<1>10. Served'
  <2> SUFFICES ASSUME NEW c \in Clients
               PROVE  /\ IsInjective(Got(c)')
                      /\ Elems(Got(c)') \subseteq published' \ Ahead'
                      /\ \A v \in Workers : Busy(v)' /\ c \in worker'[v].todo =>
                             worker'[v].msg \notin Elems(Got(c)')
    BY DEF Served
  <2>1. m \notin Elems(Got(c)) BY <1>5 DEF Line, Served
  <2> QED BY <1>1, <1>4, <1>5, <1>7, <2>1 DEF Line, Served
<1> QED BY <1>6, <1>9, <1>10 DEF Line

\* A connection of the copy gets the message, or is dropped, or the process dies.
LEMMA SendLine ==
    ASSUME Types, Line, NEW w \in Workers, WorkerSend(w)
    PROVE  Line'
<1> DEFINE m == worker[w].msg
<1>0. /\ UNCHANGED <<pubsub, incoming, published, delivered>> /\ worker[w].pc = "fan"
      /\ worker[w] \in WorkerState
  BY DEF WorkerSend, redisVars, Types, Pool
<1>1. PICK c \in worker[w].todo :
        \/ UNCHANGED <<send, worker>>
        \/ /\ send' = [send EXCEPT ![c] = Append(send[c], m)]
           /\ worker' = [worker EXCEPT ![w] = Fan(m, worker[w].todo \ {c})]
        \/ /\ UNCHANGED send
           /\ worker' = [worker EXCEPT ![w] = Drop(m, worker[w].todo \ {c}, c)]
  BY DEF WorkerSend
<1>2. Busy(w) /\ m \in Messages /\ c \in Clients
  BY <1>0, <1>1, WorkerShapes DEF Busy
<1>3. CASE UNCHANGED send /\ (\/ UNCHANGED worker
                             \/ worker' = [worker EXCEPT ![w] = Drop(m, worker[w].todo \ {c}, c)])
  <2>1. \A d \in Clients : Got(d)' = Got(d) BY <1>0, <1>3 DEF Got
  <2>2. \A v \in Workers : Busy(v)' => /\ Busy(v) /\ worker'[v].msg = worker[v].msg
                                      /\ worker'[v].todo \subseteq worker[v].todo
    BY <1>2, <1>3 DEF Busy, Drop, Types, Pool
  <2> QED BY <1>0, <2>1, <2>2, NothingMoves
<1>4. CASE /\ send' = [send EXCEPT ![c] = Append(send[c], m)]
           /\ worker' = [worker EXCEPT ![w] = Fan(m, worker[w].todo \ {c})]
  <2>1. /\ worker'[w].msg = m /\ Busy(w)' /\ worker'[w].todo = worker[w].todo \ {c}
        /\ \A v \in Workers \ {w} : worker'[v] = worker[v] /\ (Busy(v)' <=> Busy(v))
    BY <1>4 DEF Fan, Busy, Types, Pool
  <2>2. m \in published \ Ahead /\ m \notin Elems(Got(c))
        /\ \A v \in Workers \ {w} : Busy(v) => worker[v].msg # m
    BY <1>1, <1>2 DEF Line, Taken, Served
  <2>3. /\ Got(c)' = Append(Got(c), m) /\ Got(c) \in Seq(Messages)
        /\ \A d \in Clients \ {c} : Got(d)' = Got(d)
    <3>1. send'[c] = Append(send[c], m) /\ \A d \in Clients \ {c} : send'[d] = send[d]
      BY <1>2, <1>4 DEF Types, Buffers
    <3>2. delivered[c] \in Seq(Messages) /\ send[c] \in Seq(Messages) /\ m \in Messages
      BY <1>2 DEF Types, Buffers
    <3>3. delivered[c] \o Append(send[c], m) = Append(delivered[c] \o send[c], m)
          /\ delivered[c] \o send[c] \in Seq(Messages)
      BY <3>2, ConcatAppend
    <3> QED BY <1>0, <3>1, <3>3 DEF Got
  <2>4. Elems(Got(c)') = Elems(Got(c)) \cup {m} /\ IsInjective(Got(c)')
    BY <1>2, <2>2, <2>3, AppendQueue DEF Line, Served
  <2>5. Waiting' /\ Ahead' = Ahead BY <1>0 DEF Line, Waiting, Ahead
  <2> HIDE DEF m
  <2>6. Taken' BY <1>0, <1>2, <2>1, <2>2, <2>5 DEF Line, Taken, m
  <2>7. Served'
    <3> SUFFICES ASSUME NEW d \in Clients
                 PROVE  /\ IsInjective(Got(d)')
                        /\ Elems(Got(d)') \subseteq published' \ Ahead'
                        /\ \A v \in Workers : Busy(v)' /\ d \in worker'[v].todo =>
                               worker'[v].msg \notin Elems(Got(d)')
      BY DEF Served
    <3>1. CASE d = c
      <4>1. \A v \in Workers : Busy(v)' /\ c \in worker'[v].todo =>
               worker'[v].msg \notin Elems(Got(c)) \cup {m}
        <5> SUFFICES ASSUME NEW v \in Workers, Busy(v)', c \in worker'[v].todo
                     PROVE  worker'[v].msg \notin Elems(Got(c)) /\ worker'[v].msg # m
          OBVIOUS
        <5>1. v # w BY <2>1
        <5>2. Busy(v) /\ worker'[v] = worker[v] BY <2>1, <5>1
        <5> QED BY <1>2, <2>2, <5>1, <5>2 DEF Line, Served
      <4> QED BY <1>0, <1>2, <2>2, <2>4, <2>5, <3>1, <4>1 DEF Line, Served
    <3>2. CASE d # c
      <4>1. \A v \in Workers : Busy(v)' /\ d \in worker'[v].todo =>
               Busy(v) /\ d \in worker[v].todo /\ worker'[v].msg = worker[v].msg
        BY <1>2, <2>1 DEF m
      <4> QED BY <1>0, <2>3, <2>5, <3>2, <4>1 DEF Line, Served
    <3> QED BY <3>1, <3>2
  <2> QED BY <2>5, <2>6, <2>7 DEF Line
<1> QED BY <1>1, <1>3, <1>4

LEMMA WorkerLine ==
    ASSUME Types, Line, NEW w \in Workers, WorkerStep(w)
    PROVE  Line'
<1>1. CASE WorkerDrop(w) \/ WorkerFinish(w) \/ WorkerReturns(w)
  <2>1. UNCHANGED <<pubsub, published, send, delivered, incoming>>
    BY <1>1 DEF WorkerDrop, WorkerFinish, WorkerReturns, sendVars, redisVars
  <2>2. \A c \in Clients : Got(c)' = Got(c) BY <2>1 DEF Got
  <2>3. \A v \in Workers : Busy(v)' => /\ Busy(v) /\ worker'[v].msg = worker[v].msg
                                      /\ worker'[v].todo \subseteq worker[v].todo
    BY <1>1 DEF WorkerDrop, WorkerFinish, WorkerReturns, Fan, IdleWorker, Busy, Types, Pool
  <2> QED BY <2>1, <2>2, <2>3, NothingMoves
<1> QED BY <1>1, TakeLine, SendLine DEF WorkerStep

LEMMA NextLine == Types /\ Line /\ [Next]_vars => Line'
<1> SUFFICES ASSUME Types, Line, [Next]_vars PROVE Line' OBVIOUS
<1>1. ASSUME UNCHANGED <<pubsub, incoming, published, worker, send, delivered>> PROVE Line'
  <2>1. /\ \A c \in Clients : Got(c)' = Got(c)
        /\ \A w \in Workers : Busy(w)' => Busy(w)
    BY <1>1 DEF Got, Busy
  <2> QED BY <1>1, <2>1, NothingMoves
<1>2. ASSUME NEW c \in Clients, ClientStep(c) PROVE Line'
  BY <1>1, <1>2, WriteLine
  DEF ClientStep, Connect, RegisterClient, PeerCloses, UnregisterClient, WriteEnds, sendVars, redisVars
<1>3. CASE LoopStep
  BY <1>1, <1>3
  DEF LoopStep, LoopRegister, LoopUnregister, LoopCancelled, LoopReturns, sendVars, redisVars
<1>4. CASE ForwarderEnds \/ ShutdownSteps \/ UNCHANGED vars
  BY <1>1, <1>4
  DEF ForwarderEnds, ShutdownSteps, ShutdownCancel, ShutdownUnsubscribe, ShutdownDone, ShutdownStep,
      vars, sendVars, redisVars
<1> QED BY <1>2, <1>3, <1>4, PublishLine, ForwardLine, WorkerLine DEF Next

\* No connection gets a message twice, whatever workers, drops and disconnects
\* do at the same time: an action of the hub takes a message from one place to
\* the next.
THEOREM NobodyHearsTwice == Spec => []AtMostOnce
<1>1. Init => Types /\ Line BY InitTypes, InitLine
<1>2. Types /\ Line /\ [Next]_vars => Types' /\ Line' BY NextTypes, NextLine
<1>3. Line => AtMostOnce BY DEF Line, Served, AtMostOnce, Got
<1> QED BY <1>1, <1>2, <1>3, PTL DEF Spec
-----------------------------------------------------------------------------
(* Who asks for a client's removal.                                          *)

NobodySlow == \A w \in Workers : worker[w].pc # "drop"

\* ReadPump asks once, when it ends, and the request is in the queue or served.
AskedOnce ==
    /\ crash # "close of closed channel"
    /\ IsInjective(unregister)
    /\ \A c \in Elems(unregister) : reader[c] = "done" /\ c \notin closed
    /\ \A c \in closed : reader[c] = "done"

LEMMA InitAsked == Init => AskedOnce
  BY DEF Init, AskedOnce, IsInjective, Elems

LEMMA ReaderAsks ==
    ASSUME Types, AskedOnce, NEW c \in Clients, UnregisterClient(c)
    PROVE  AskedOnce'
<1>1. /\ reader[c] = "reading" /\ reader' = [reader EXCEPT ![c] = "done"]
      /\ unregister' = Append(unregister, c) /\ UNCHANGED <<closed, crash>>
  BY DEF UnregisterClient, sendVars, processVars
<1>2. c \notin Elems(unregister) /\ c \notin closed BY <1>1 DEF AskedOnce
<1>3. IsInjective(unregister') /\ Elems(unregister') = Elems(unregister) \cup {c}
  BY <1>1, <1>2, AppendQueue DEF AskedOnce, Types, Queues
<1>4. \A d \in Clients : reader'[d] = IF d = c THEN "done" ELSE reader[d]
  BY <1>1 DEF Types, Rest
<1>5. Elems(unregister) \subseteq Clients BY DEF Elems, Types, Queues
<1>6. closed \subseteq Clients BY DEF Types, Rest
<1> QED BY <1>1, <1>2, <1>3, <1>4, <1>5, <1>6 DEF AskedOnce

LEMMA LoopCloses ==
    ASSUME Types, AskedOnce, LoopUnregister
    PROVE  AskedOnce'
<1> DEFINE c == Head(unregister)
<1>1. /\ unregister # <<>> /\ unregister \in Seq(Clients) /\ unregister' = Tail(unregister)
      /\ RemoveClient(c) /\ UNCHANGED reader
  BY DEF LoopUnregister, clientVars, Types, Queues
<1>2. /\ Elems(unregister) = Elems(unregister') \cup {c}
      /\ IsInjective(unregister') /\ c \notin Elems(unregister')
  BY <1>1, TailQueue DEF AskedOnce
<1>3. c \notin closed /\ reader[c] = "done" BY <1>2 DEF AskedOnce
<1> HIDE DEF c
<1>4. closed' = closed \cup {c} /\ UNCHANGED crash BY <1>1, <1>3 DEF RemoveClient
<1> QED BY <1>1, <1>2, <1>3, <1>4 DEF AskedOnce

LEMMA NextAsked == Types /\ AskedOnce /\ NobodySlow /\ [Next]_vars => AskedOnce'
<1> SUFFICES ASSUME Types, AskedOnce, NobodySlow, [Next]_vars PROVE AskedOnce' OBVIOUS
<1>1. ASSUME UNCHANGED <<unregister, closed>>, crash' # "close of closed channel",
             \A c \in Clients : reader[c] = "done" => reader'[c] = "done"
      PROVE  AskedOnce'
  <2>1. Elems(unregister) \subseteq Clients BY DEF Elems, Types, Queues
  <2>2. closed \subseteq Clients BY DEF Types, Rest
  <2> QED BY <1>1, <2>1, <2>2 DEF AskedOnce
<1>2. ASSUME UNCHANGED <<unregister, closed, reader, crash>> PROVE AskedOnce'
  BY <1>1, <1>2 DEF AskedOnce
<1>3. ASSUME NEW c \in Clients, ClientStep(c) PROVE AskedOnce'
  <2>1. CASE Connect(c) \/ RegisterClient(c)
    <3>1. /\ UNCHANGED <<unregister, closed, crash>> /\ reader[c] # "done"
          /\ \A d \in Clients : d # c => reader'[d] = reader[d]
      BY <2>1 DEF Connect, RegisterClient, hubVars, sendVars, processVars, Types, Rest
    <3> QED BY <1>1, <3>1 DEF AskedOnce
  <2>2. CASE PeerCloses(c) \/ Write(c) \/ WriteEnds(c)
    BY <1>2, <2>2
    DEF PeerCloses, Write, WriteEnds, hubVars, clientVars, sendVars, processVars
  <2> QED BY <1>3, <2>1, <2>2, ReaderAsks DEF ClientStep
<1>4. CASE LoopStep
  BY <1>2, <1>4, LoopCloses
  DEF LoopStep, LoopRegister, LoopCancelled, LoopReturns, clientVars, sendVars, processVars
<1>5. ASSUME NEW w \in Workers, WorkerStep(w) PROVE AskedOnce'
  <2>1. CASE WorkerSend(w)
    <3>1. /\ UNCHANGED <<unregister, closed, reader>>
          /\ crash' \in {crash, "send on closed channel"}
      BY <2>1 DEF WorkerSend, hubVars, clientVars
    <3> QED BY <1>1, <3>1 DEF AskedOnce
  <2>2. ~WorkerDrop(w) BY DEF WorkerDrop, NobodySlow
  <2> QED
    BY <1>2, <1>5, <2>1, <2>2
    DEF WorkerStep, WorkerTake, WorkerFinish, WorkerReturns, hubVars, clientVars, sendVars,
        processVars
<1> QED
  BY <1>2, <1>3, <1>4, <1>5
  DEF Next, Publish, Forward, ForwarderEnds, ShutdownSteps, ShutdownCancel,
      ShutdownUnsubscribe, ShutdownDone, ShutdownStep, vars, hubVars, clientVars, sendVars,
      processVars

\* As long as no client is too slow, the hub closes no send channel twice, through
\* any connects, disconnects and a shutdown: WritePump leaves unregistering to
\* ReadPump.
THEOREM ClosedOnceUnlessSlow == Spec /\ []NobodySlow => []NoDoubleClose
<1>1. Types /\ AskedOnce /\ NobodySlow /\ [Next]_vars => Types' /\ AskedOnce'
  BY NextTypes, NextAsked
<1>2. AskedOnce => NoDoubleClose BY DEF AskedOnce, NoDoubleClose
<1> QED BY <1>1, <1>2, InitTypes, InitAsked, PTL DEF Spec

-----------------------------------------------------------------------------
(* When the send buffers hold all there is to send, nobody is slow.          *)

\* A sequence without repetitions is no longer than the set it draws from.
LEMMA InjectiveLength ==
    ASSUME NEW S, IsFiniteSet(S), NEW q, q \in Seq(S), IsInjective(q)
    PROVE  Len(q) \in Nat /\ Len(q) <= Cardinality(S)
<1>1. Len(q) \in Nat /\ q \in [1..Len(q) -> S] OBVIOUS
<1>2. q \in Injection(1..Len(q), S) BY <1>1 DEF Injection
<1>3. Cardinality(1..Len(q)) = Len(q)
  <2>1. Cardinality(1..Len(q)) = IF 1 > Len(q) THEN 0 ELSE Len(q) - 1 + 1
    BY <1>1, FS_Interval
  <2> QED BY <1>1, <2>1
<1>4. Cardinality(1..Len(q)) <= Cardinality(S) BY <1>2, FS_Injection
<1> QED BY <1>1, <1>3, <1>4

\* A worker about to send finds room: what the connection has got is other messages.
LEMMA RoomToSend ==
    ASSUME IsFiniteSet(Messages), Cardinality(Messages) <= SendBuffer, Types, Line,
           NEW w \in Workers, worker[w].pc = "fan", NEW c \in worker[w].todo
    PROVE  Len(send[c]) < SendBuffer
<1> DEFINE m == worker[w].msg
           others == Messages \ {m}
<1>1. Busy(w) /\ m \in Messages /\ c \in Clients
  BY WorkerShapes DEF Busy, Types, Pool
<1>2. m \notin Elems(Got(c)) /\ IsInjective(Got(c)) BY <1>1 DEF Line, Served
<1>3. /\ delivered[c] \in Seq(Messages) /\ send[c] \in Seq(Messages)
      /\ Got(c) \in Seq(Messages) /\ Len(Got(c)) = Len(delivered[c]) + Len(send[c])
  BY <1>1 DEF Got, Types, Buffers
<1>4. Got(c) \in Seq(others)
  <2>1. \A g : g \in Seq(Messages) /\ m \notin Elems(g) => g \in Seq(others)
    <3> SUFFICES ASSUME NEW g \in Seq(Messages), m \notin Elems(g) PROVE g \in Seq(others)
      OBVIOUS
    <3>1. \A k \in 1..Len(g) : g[k] \in others BY DEF Elems
    <3> HIDE DEF others
    <3> QED BY <3>1
  <2> QED BY <1>2, <1>3, <2>1
<1>5. IsFiniteSet(others) /\ Cardinality(others) = Cardinality(Messages) - 1
      /\ Cardinality(Messages) \in Nat
  BY <1>1, FS_RemoveElement, FS_CardinalityType
<1>6. Len(Got(c)) <= Cardinality(others)
  <2> HIDE DEF others
  <2> QED BY <1>2, <1>4, <1>5, InjectiveLength
<1>7. Len(delivered[c]) \in Nat /\ Len(send[c]) \in Nat /\ SendBuffer \in Nat
  BY <1>3, HubAssumption
<1>8. Len(delivered[c]) + Len(send[c]) <= Cardinality(Messages) - 1
  BY <1>3, <1>5, <1>6
<1>9. \A a, b, n, k \in Nat : a + b <= n - 1 /\ n <= k => b < k OBVIOUS
<1> QED BY <1>5, <1>7, <1>8, <1>9

LEMMA NextNotSlow ==
    ASSUME IsFiniteSet(Messages), Cardinality(Messages) <= SendBuffer,
           Types, Line, NobodySlow, [Next]_vars
    PROVE  NobodySlow'
<1>1. ASSUME NEW w \in Workers, WorkerStep(w) PROVE NobodySlow'
  <2>1. CASE WorkerSend(w)
    <3>1. worker[w].pc = "fan" BY <2>1 DEF WorkerSend
    <3>2. PICK c \in worker[w].todo :
            IF c \in closed THEN UNCHANGED worker
            ELSE IF Len(send[c]) < SendBuffer
                 THEN worker' = [worker EXCEPT ![w] =
                                   Fan(worker[w].msg, worker[w].todo \ {c})]
                 ELSE worker' = [worker EXCEPT ![w] =
                                   Drop(worker[w].msg, worker[w].todo \ {c}, c)]
      BY <2>1 DEF WorkerSend
    <3>3. Len(send[c]) < SendBuffer BY <3>1, RoomToSend
    <3> QED BY <3>2, <3>3 DEF NobodySlow, Fan, Types, Pool
  <2> QED
    BY <1>1, <2>1
    DEF WorkerStep, WorkerTake, WorkerDrop, WorkerFinish, WorkerReturns, Fan, IdleWorker,
        NobodySlow, Types, Pool
<1>2. ASSUME UNCHANGED worker PROVE NobodySlow' BY <1>2 DEF NobodySlow
<1> QED
  BY <1>1, <1>2
  DEF Next, vars, ClientStep, Connect, RegisterClient, PeerCloses, UnregisterClient, Write,
      WriteEnds, LoopStep, LoopRegister, LoopUnregister, LoopCancelled, LoopReturns, Publish,
      Forward, ForwarderEnds, ShutdownSteps, ShutdownCancel, ShutdownUnsubscribe,
      ShutdownDone, ShutdownStep

\* With buffers that hold every message of the run, however the messages are
\* spread over channels and workers, no send channel is closed twice.
THEOREM ClosedOnceWithRoom ==
    ASSUME IsFiniteSet(Messages), Cardinality(Messages) <= SendBuffer
    PROVE  Spec => []NoDoubleClose
<1>1. Init => NobodySlow BY DEF Init, NobodySlow, IdleWorker
<1>2. Types /\ Line /\ NobodySlow /\ [Next]_vars => Types' /\ Line' /\ NobodySlow'
  BY NextTypes, NextLine, NextNotSlow
<1>3. Spec => []NobodySlow BY <1>1, <1>2, InitTypes, InitLine, PTL DEF Spec
<1> QED BY <1>3, ClosedOnceUnlessSlow, PTL
=============================================================================
