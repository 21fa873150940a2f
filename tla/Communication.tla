--------------------------- MODULE Communication ----------------------------
(***************************************************************************)
(* The message layer of one node (p2p/communication.go,                    *)
(* p2p/message_id_subscriber.go, StreamMgr of p2p/stream_helper.go) under  *)
(* the sessions that use it (tss/keysign.go, tss/keygen.go).               *)
(*                                                                         *)
(* Sessions of different messages share the subscriber table, which is     *)
(* keyed by topic and then by message ID, the channel BroadcastMsgChan and *)
(* the table of streams to be released.  Every session has a message ID of *)
(* its own here; KeySign has the sessions that share one.                  *)
(*                                                                         *)
(* A stream that a peer opened is read by a handler goroutine, which       *)
(* registers the stream, looks up the channel and sends to it; the channel *)
(* has one slot (msgNum of a single message).  A stream to a peer is       *)
(* opened by a goroutine for each broadcast.  stopChan is checked by a     *)
(* handler before it reads.                                                *)
(***************************************************************************)
EXTENDS Naturals, FiniteSets

CONSTANTS Sessions,     \* the key sign and key generation sessions of the node
          Topics,       \* the message types that a session subscribes to
          Inbound,      \* the streams that peers open
          Outbound,     \* the messages that sessions broadcast, one peer each
          BroadcastCap, \* capacity of BroadcastMsgChan
          Bootstrap,    \* the bootstrap peers
          MaxTries,     \* how often startChannel tries to connect to them
          None          \* no value

ASSUME SetsAssumption == /\ IsFiniteSet(Sessions) /\ IsFiniteSet(Outbound)
                         /\ None \notin Sessions
                         /\ Inbound \intersect Outbound = {}
                         /\ "UNKNOWN" \notin Sessions
                         /\ \A set \in SUBSET Sessions : None # set
ASSUME CapAssumption == BroadcastCap \in Nat \ {0} /\ MaxTries \in Nat \ {0}

VARIABLES
  phase,      \* session -> how far it is
  subs,       \* session -> the topics it has subscribed to and not cancelled
  subscribers,\* topic -> the sessions in the topic's MessageIDSubscriber, or
              \* None when the topic has no entry
  channel,    \* session -> number of messages in its TssMsg channel
  handler,    \* inbound stream -> its handler goroutine
  writer,     \* outbound message -> where it is
  table,      \* message ID or "UNKNOWN" -> StreamMgr.unusedStreams
  wasReset,   \* the streams that were reset
  collected,  \* session -> the streams that its ReleaseStream collected
  added,      \* the streams handed to the stream manager (history)
  windowed,   \* those added between a collection and its deletion (history)
  boot,       \* how far startChannel is
  tries,      \* its attempts to connect to the bootstrap peers
  loop,       \* ProcessBroadcast: "off", "running" or "ended"
  wg,         \* Communication.wg
  node        \* "up", "stopping" (stopChan is closed) or "stopped"

sessionVars == <<phase, subs, subscribers, channel>>
streamVars  == <<table, wasReset, collected, added, windowed>>
stopVars    == <<boot, tries, loop, wg, node>>
vars == <<sessionVars, handler, writer, streamVars, stopVars>>

Streams == Inbound \union Outbound
Keys == Sessions \union {"UNKNOWN"}

Phases == {"idle", "subscribe", "joining", "running", "cancel", "release", "delete", "done"}

TssMsgCap == 1

Init ==
  /\ phase = [s \in Sessions |-> "idle"]
  /\ subs = [s \in Sessions |-> {}]
  /\ subscribers = [t \in Topics |-> None]
  /\ channel = [s \in Sessions |-> 0]
  /\ handler = [x \in Inbound |-> [pc |-> "none", to |-> None]]
  /\ writer = [x \in Outbound |-> [pc |-> "none", of |-> None]]
  /\ table = [k \in Keys |-> {}]
  /\ wasReset = {}
  /\ collected = [s \in Sessions |-> {}]
  /\ added = {}
  /\ windowed = {}
  /\ boot = "host"
  /\ tries = 0
  /\ loop = "off"
  /\ wg = 0
  /\ node = "up"

-----------------------------------------------------------------------------
(***************************************************************************)
(* A session subscribes, one topic after the other, joins a party, then    *)
(* runs ProcessInboundMessages until its end; cancels, one topic after the *)
(* other, and releases its streams.  A failed join skips the running.      *)
(***************************************************************************)
Advance(s, from, to) == phase[s] = from /\ phase' = [phase EXCEPT ![s] = to]

StartSession(s) ==
  /\ loop # "off"
  /\ Advance(s, "idle", "subscribe")
  /\ UNCHANGED <<subs, subscribers, channel, handler, writer, streamVars, stopVars>>

SetSubscribe(s, t) ==
  /\ phase[s] = "subscribe" /\ t \notin subs[s]
  /\ subs' = [subs EXCEPT ![s] = @ \union {t}]
  /\ subscribers' = [subscribers EXCEPT ![t] = IF @ = None THEN {s} ELSE @ \union {s}]
  /\ phase' = [phase EXCEPT ![s] = IF subs'[s] = Topics THEN "joining" ELSE @]
  /\ UNCHANGED <<channel, handler, writer, streamVars, stopVars>>

JoinEnds(s) ==
  /\ \/ Advance(s, "joining", "running")
     \/ Advance(s, "joining", "cancel")
  /\ UNCHANGED <<subs, subscribers, channel, handler, writer, streamVars, stopVars>>

\* The loop ends with the node, before its session does.
MutProcessInboundMessages(s) ==
  /\ node = "up"
  /\ phase[s] = "running" /\ channel[s] > 0
  /\ channel' = [channel EXCEPT ![s] = @ - 1]
  /\ UNCHANGED <<phase, subs, subscribers, handler, writer, streamVars, stopVars>>

ProcessInboundMessages(s) ==
  /\ phase[s] = "running" /\ channel[s] > 0
  /\ channel' = [channel EXCEPT ![s] = @ - 1]
  /\ UNCHANGED <<phase, subs, subscribers, handler, writer, streamVars, stopVars>>

CeremonyEnds(s) ==
  /\ Advance(s, "running", "cancel")
  /\ UNCHANGED <<subs, subscribers, channel, handler, writer, streamVars, stopVars>>

\* The topic goes although another message ID is subscribed to it.
MutWithout(t, s) == None

\* UnSubscribe, and the topic's entry when it is empty.
Without(t, s) ==
  IF subscribers[t] \in {None, {s}} THEN None ELSE subscribers[t] \ {s}

CancelSubscribe(s, t) ==
  /\ phase[s] = "cancel" /\ t \in subs[s]
  /\ subs' = [subs EXCEPT ![s] = @ \ {t}]
  /\ subscribers' = [subscribers EXCEPT ![t] = Without(t, s)]
  /\ phase' = [phase EXCEPT ![s] = IF subs'[s] = {} THEN "release" ELSE @]
  /\ UNCHANGED <<channel, handler, writer, streamVars, stopVars>>

(***************************************************************************)
(* ReleaseStream: the streams are collected under the read lock and, after *)
(* they were reset, the entry of the message ID, but not that of UNKNOWN,  *)
(* is deleted under the write lock.  Without any stream nothing is done.   *)
(***************************************************************************)
CollectStreams(s) ==
  /\ phase[s] = "release"
  /\ collected' = [collected EXCEPT ![s] = table[s] \union table["UNKNOWN"]]
  /\ phase' = [phase EXCEPT ![s] = IF collected'[s] = {} THEN "done" ELSE "delete"]
  /\ UNCHANGED <<subs, subscribers, channel, handler, writer, table, wasReset, added, windowed,
                 stopVars>>

\* Both entries are deleted, but only the session's own streams are reset.
MutDeleteStreams(s) ==
  /\ Advance(s, "delete", "done")
  /\ wasReset' = wasReset \union (collected[s] \intersect table[s])
  /\ table' = [table EXCEPT ![s] = {}, !["UNKNOWN"] = {}]
  /\ UNCHANGED <<subs, subscribers, channel, handler, writer, collected, added, windowed,
                 stopVars>>

DeleteStreams(s) ==
  /\ Advance(s, "delete", "done")
  /\ wasReset' = wasReset \union collected[s]
  /\ table' = [table EXCEPT ![s] = {}]
  /\ UNCHANGED <<subs, subscribers, channel, handler, writer, collected, added, windowed,
                 stopVars>>

AddStream(k, x) ==
  /\ table' = [table EXCEPT ![k] = @ \union {x}]
  /\ added' = added \union {x}
  /\ windowed' = IF k \in Sessions /\ phase[k] = "delete" THEN windowed \union {x} ELSE windowed
  /\ UNCHANGED <<wasReset, collected>>

-----------------------------------------------------------------------------
(***************************************************************************)
(* readFromStream, the handler of a stream that a peer opened: from the    *)
(* creation of the host, before Start is through, until host.Close, which  *)
(* removes the handlers.                                                   *)
(***************************************************************************)
HandleStream(x) ==
  /\ handler[x].pc = "none" /\ boot \notin {"host", "failed"} /\ node = "up"
  /\ handler' = [handler EXCEPT ![x].pc = "check"]
  /\ UNCHANGED <<sessionVars, writer, streamVars, stopVars>>

HandlerStops(x) ==
  /\ handler[x].pc = "check" /\ node # "up"
  /\ handler' = [handler EXCEPT ![x].pc = "done"]
  /\ UNCHANGED <<sessionVars, writer, streamVars, stopVars>>

ReadFails(x) ==
  /\ handler[x].pc = "check" /\ node = "up"
  /\ AddStream("UNKNOWN", x)
  /\ handler' = [handler EXCEPT ![x].pc = "done"]
  /\ UNCHANGED <<sessionVars, writer, stopVars>>

ReadMessage(x, s) ==
  /\ handler[x].pc = "check" /\ node = "up"
  /\ AddStream(s, x)
  /\ handler' = [handler EXCEPT ![x] = [pc |-> "lookup", to |-> s]]
  /\ UNCHANGED <<sessionVars, writer, stopVars>>

\* getSubscriber: without a subscriber the message is dropped.
GetSubscriber(x, t) ==
  LET s == handler[x].to
      found == subscribers[t] # None /\ s \in subscribers[t]
  IN
  /\ handler[x].pc = "lookup"
  /\ handler' = [handler EXCEPT ![x].pc = IF found THEN "send" ELSE "done"]
  /\ UNCHANGED <<sessionVars, writer, streamVars, stopVars>>

\* A send to the channel that was found, subscribed or not by now.
SendMessage(x) ==
  LET s == handler[x].to IN
  /\ handler[x].pc = "send" /\ channel[s] < TssMsgCap
  /\ channel' = [channel EXCEPT ![s] = @ + 1]
  /\ handler' = [handler EXCEPT ![x].pc = "done"]
  /\ UNCHANGED <<phase, subs, subscribers, writer, streamVars, stopVars>>

-----------------------------------------------------------------------------
(***************************************************************************)
(* startChannel: create the host and the DHT, which may fail; connect to   *)
(* the bootstrap peers, of which one is enough, with a limited number of   *)
(* attempts; and ping them, of which again one has to answer.  Without     *)
(* bootstrap peers both checks succeed.                                    *)
(***************************************************************************)
Boot(from, to) == boot = from /\ boot' = to

CreateHost ==
  /\ Boot("host", "connect") \/ Boot("host", "failed")
  /\ UNCHANGED <<sessionVars, handler, writer, streamVars, tries, loop, wg, node>>

ConnectToBootstrapPeers ==
  /\ \/ Boot("connect", "ping")
     \/ Bootstrap # {} /\ Boot("connect", IF tries + 1 < MaxTries THEN "connect" ELSE "failed")
  /\ tries' = IF boot' = "connect" THEN tries + 1 ELSE 0
  /\ UNCHANGED <<sessionVars, handler, writer, streamVars, loop, wg, node>>

BootStrapConnectivityCheck ==
  /\ \/ Boot("ping", "ready")
     \/ Bootstrap # {} /\ Boot("ping", "failed")
  /\ UNCHANGED <<sessionVars, handler, writer, streamVars, tries, loop, wg, node>>

(***************************************************************************)
(* Start, and the way of a broadcast: a session sends to BroadcastMsgChan, *)
(* ProcessBroadcast receives and starts broadcastToPeers, which opens a    *)
(* stream, writes and registers the stream.  Without peers nothing is      *)
(* started.                                                                *)
(***************************************************************************)
Start ==
  /\ Boot("ready", "started")
  /\ loop' = "running"
  /\ wg' = wg + 1
  /\ UNCHANGED <<sessionVars, handler, writer, streamVars, tries, node>>

Queued == {x \in Outbound : writer[x].pc = "queued"}

RenderToP2P(s, x) ==
  /\ phase[s] = "running" /\ writer[x].pc = "none"
  /\ Cardinality(Queued) < BroadcastCap
  /\ writer' = [writer EXCEPT ![x] = [pc |-> "queued", of |-> s]]
  /\ UNCHANGED <<sessionVars, handler, streamVars, stopVars>>

\* wg is incremented before the check for an empty list of peers.
MutBroadcastToNobody(x) ==
  /\ loop = "running" /\ writer[x].pc = "queued"
  /\ writer' = [writer EXCEPT ![x].pc = "done"]
  /\ wg' = wg + 1
  /\ UNCHANGED <<sessionVars, handler, streamVars, boot, tries, loop, node>>

BroadcastToNobody(x) ==
  /\ loop = "running" /\ writer[x].pc = "queued"
  /\ writer' = [writer EXCEPT ![x].pc = "done"]
  /\ UNCHANGED <<sessionVars, handler, streamVars, stopVars>>

\* The goroutine is not counted.
MutBroadcast(x) ==
  /\ loop = "running" /\ writer[x].pc = "queued"
  /\ writer' = [writer EXCEPT ![x].pc = "connect"]
  /\ UNCHANGED <<sessionVars, handler, streamVars, boot, tries, wg, loop, node>>

Broadcast(x) ==
  /\ loop = "running" /\ writer[x].pc = "queued"
  /\ writer' = [writer EXCEPT ![x].pc = "connect"]
  /\ wg' = wg + 1
  /\ UNCHANGED <<sessionVars, handler, streamVars, boot, tries, loop, node>>

ConnectFails(x) ==
  /\ writer[x].pc = "connect"
  /\ writer' = [writer EXCEPT ![x].pc = "wgDone"]
  /\ UNCHANGED <<sessionVars, handler, streamVars, stopVars>>

\* WriteStreamWithBuffer, with or without an error, and the deferred AddStream.
WriteToStream(x) ==
  /\ writer[x].pc = "connect"
  /\ AddStream(writer[x].of, x)
  /\ writer' = [writer EXCEPT ![x].pc = "wgDone"]
  /\ UNCHANGED <<sessionVars, handler, stopVars>>

BroadcastDone(x) ==
  /\ writer[x].pc = "wgDone"
  /\ writer' = [writer EXCEPT ![x].pc = "done"]
  /\ wg' = wg - 1
  /\ UNCHANGED <<sessionVars, handler, streamVars, boot, tries, loop, node>>

(***************************************************************************)
(* Stop: host.Close, close(stopChan), wg.Wait.                             *)
(***************************************************************************)
Stop ==
  /\ node = "up" /\ loop # "off"
  /\ node' = "stopping"
  /\ UNCHANGED <<sessionVars, handler, writer, streamVars, boot, tries, loop, wg>>

ProcessBroadcastEnds ==
  /\ loop = "running" /\ node # "up"
  /\ loop' = "ended"
  /\ wg' = wg - 1
  /\ UNCHANGED <<sessionVars, handler, writer, streamVars, boot, tries, node>>

StopReturns ==
  /\ node = "stopping" /\ wg = 0
  /\ node' = "stopped"
  /\ UNCHANGED <<sessionVars, handler, writer, streamVars, boot, tries, loop, wg>>

-----------------------------------------------------------------------------
SessionStep(s) ==
  \/ \E t \in Topics : SetSubscribe(s, t) \/ CancelSubscribe(s, t)
  \/ CollectStreams(s) \/ DeleteStreams(s)

HandlerStep(x) ==
  \/ HandlerStops(x) \/ ReadFails(x) \/ \E s \in Sessions : ReadMessage(x, s)
  \/ \E t \in Topics : GetSubscriber(x, t)
  \/ SendMessage(x)

WriterStep(x) == ConnectFails(x) \/ WriteToStream(x) \/ BroadcastDone(x)

Next ==
  \/ CreateHost \/ ConnectToBootstrapPeers \/ BootStrapConnectivityCheck
  \/ Start \/ Stop \/ ProcessBroadcastEnds \/ StopReturns
  \/ \E s \in Sessions : \/ StartSession(s) \/ SessionStep(s) \/ JoinEnds(s)
                         \/ ProcessInboundMessages(s) \/ CeremonyEnds(s)
  \/ \E x \in Inbound : HandleStream(x) \/ HandlerStep(x)
  \/ \E x \in Outbound : \/ \E s \in Sessions : RenderToP2P(s, x)
                         \/ BroadcastToNobody(x) \/ Broadcast(x) \/ WriterStep(x)

Spec == Init /\ [][Next]_vars

(***************************************************************************)
(* The scheduler runs every goroutine; connecting and writing have         *)
(* deadlines; after Stop select takes the case of the closed stopChan      *)
(* sooner or later.  Nothing is assumed of peers and of the sessions' end. *)
(***************************************************************************)
FairSpec ==
  /\ Spec
  /\ WF_vars(CreateHost \/ ConnectToBootstrapPeers \/ BootStrapConnectivityCheck \/ Start)
  /\ WF_vars(ProcessBroadcastEnds) /\ WF_vars(StopReturns)
  /\ \A x \in Outbound : WF_vars(WriterStep(x))
  /\ \A x \in Inbound : WF_vars(SendMessage(x))
  /\ \A s \in Sessions : WF_vars(ProcessInboundMessages(s))

-----------------------------------------------------------------------------
(***************************************************************************)
(* The type invariant of the message layer.                                *)
(***************************************************************************)
TypeOK ==
  /\ phase \in [Sessions -> Phases]
  /\ subs \in [Sessions -> SUBSET Topics]
  /\ subscribers \in [Topics -> {None} \union ((SUBSET Sessions) \ {{}})]
  /\ channel \in [Sessions -> 0..TssMsgCap]
  /\ handler \in [Inbound -> [pc : {"none", "check", "lookup", "send", "done"},
                              to : Sessions \union {None}]]
  /\ writer \in [Outbound -> [pc : {"none", "queued", "connect", "wgDone", "done"},
                              of : Sessions \union {None}]]
  /\ table \in [Keys -> SUBSET Streams]
  /\ wasReset \subseteq Streams
  /\ collected \in [Sessions -> SUBSET Streams]
  /\ windowed \subseteq added /\ added \subseteq Streams
  /\ boot \in {"host", "connect", "ping", "ready", "started", "failed"}
  /\ tries \in 0..MaxTries
  /\ loop \in {"off", "running", "ended"}
  /\ wg \in Nat
  /\ node \in {"up", "stopping", "stopped"}

(***************************************************************************)
(* A session that subscribed to a topic is found under it until it cancels *)
(* the subscription itself, whatever sessions of other messages do; and no *)
(* topic keeps an entry of a session that cancelled.                       *)
(***************************************************************************)
SubscribedWhileRunning ==
  \A s \in Sessions, t \in Topics :
    t \in subs[s] <=> subscribers[t] # None /\ s \in subscribers[t]

(***************************************************************************)
(* No stream is forgotten: one that was handed to the stream manager is    *)
(* still to be released or was reset, unless it was added to the entry of  *)
(* its message ID while ReleaseStream held the entry's old contents.       *)
(***************************************************************************)
NoStreamForgotten == added \subseteq wasReset \union windowed \union UNION {table[k] : k \in Keys}

(***************************************************************************)
(* A handler that found the channel of a session gets rid of its message   *)
(* as long as the session's ProcessInboundMessages runs.                   *)
(***************************************************************************)
HandlerProgress ==
  []<>(\A x \in Inbound : handler[x].pc = "send" => phase[handler[x].to] # "running")

(***************************************************************************)
(* "stop the handler and the p2p services firstly, then terminate the our  *)
(* communication threads": when Stop has returned no goroutine of the      *)
(* layer writes to a stream any more.                                      *)
(***************************************************************************)
StoppedIsQuiet ==
  node = "stopped" =>
    loop = "ended" /\ \A x \in Outbound : writer[x].pc \notin {"connect", "wgDone"}

(***************************************************************************)
(* Start ends, with a running layer or with an error, whatever the         *)
(* bootstrap peers do; and Stop returns: its wg.Wait waits for no          *)
(* goroutine that cannot end.                                              *)
(***************************************************************************)
StartAndStopEnd == []<>(boot \in {"started", "failed"} /\ node # "stopping")
=============================================================================
