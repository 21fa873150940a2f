------------------------ MODULE CommunicationProofs -------------------------
(***************************************************************************)
(* What the message layer guarantees for any number of sessions, topics,   *)
(* streams and broadcasts: sessions keep their own subscriptions, the      *)
(* stream manager forgets no stream outside the window of ReleaseStream,   *)
(* and Stop returns only when all goroutines that write have ended.        *)
(***************************************************************************)
EXTENDS Communication, FiniteSetTheorems, TLAPS

USE DEF vars, sessionVars, streamVars, stopVars

(***************************************************************************)
(* The goroutines of broadcastToPeers that run.                            *)
(***************************************************************************)
Active == {x \in Outbound : writer[x].pc \in {"connect", "wgDone"}}

LoopCount == IF loop = "running" THEN 1 ELSE 0

(***************************************************************************)
(* WaitGroup: wg counts the loop of ProcessBroadcast and the goroutines it *)
(* started; the loop is started once, at the end of Start, and Stop        *)
(* returned after all of them.                                             *)
(***************************************************************************)
WaitGroup ==
  /\ wg = LoopCount + Cardinality(Active)
  /\ loop = "off" <=> boot # "started"
  /\ node # "up" => loop # "off"
  /\ node = "stopped" => loop = "ended" /\ Active = {}

(***************************************************************************)
(* Collection: between the two locks of ReleaseStream the entry of the     *)
(* message ID holds what was collected and what was added meanwhile.       *)
(***************************************************************************)
Collection ==
  \A s \in Sessions : phase[s] = "delete" => table[s] \subseteq collected[s] \union windowed

(***************************************************************************)
(* Addressed: a handler that looks up or sends has read the message ID of  *)
(* a session, a message on its way out is of one; startChannel has         *)
(* attempts left as long as it connects.                                   *)
(***************************************************************************)
Addressed ==
  /\ \A x \in Inbound : handler[x].pc \in {"lookup", "send"} => handler[x].to \in Sessions
  /\ \A x \in Outbound : writer[x].pc \in {"queued", "connect"} => writer[x].of \in Sessions
  /\ tries < MaxTries

IInv == TypeOK /\ Addressed /\ WaitGroup /\ SubscribedWhileRunning /\ Collection /\ NoStreamForgotten

-----------------------------------------------------------------------------
(***************************************************************************)
(* A layer that was not started is in a state of the invariant.            *)
(***************************************************************************)
LEMMA InitIInv == Init => IInv
<1> SUFFICES ASSUME Init PROVE IInv
  OBVIOUS
<1>1. TypeOK
  BY CapAssumption DEF Init, TypeOK, Phases, TssMsgCap, Streams, Keys
<1>2. Addressed
  BY CapAssumption DEF Init, Addressed
<1>3. WaitGroup
  <2>1. Active = {}
    BY DEF Init, Active
  <2> QED
    BY <2>1, FS_EmptySet DEF Init, WaitGroup, LoopCount
<1>4. SubscribedWhileRunning /\ Collection /\ NoStreamForgotten
  BY DEF Init, SubscribedWhileRunning, Collection, NoStreamForgotten
<1> QED
  BY <1>1, <1>2, <1>3, <1>4 DEF IInv

(***************************************************************************)
(* AddStream keeps the types of the stream manager's table.                *)
(***************************************************************************)
LEMMA AddStreamType ==
  ASSUME TypeOK, NEW k \in Keys, NEW x \in Streams, AddStream(k, x)
  PROVE  /\ table' \in [Keys -> SUBSET Streams]
         /\ windowed' \subseteq added' /\ added' \subseteq Streams
         /\ wasReset' \subseteq Streams
         /\ collected' \in [Sessions -> SUBSET Streams]
<1>1. table' \in [Keys -> SUBSET Streams]
  BY DEF TypeOK, AddStream
<1>2. windowed' \subseteq added' /\ added' \subseteq Streams
  BY DEF TypeOK, AddStream
<1> QED
  BY <1>1, <1>2 DEF TypeOK, AddStream

(***************************************************************************)
(* The types, all but that of wg, which follows from what it counts.       *)
(***************************************************************************)
LEMMA NextType ==
  ASSUME TypeOK, Addressed, [Next]_vars, wg' \in Nat
  PROVE  TypeOK' /\ Addressed'
<1> USE DEF TypeOK, Addressed, Phases, TssMsgCap, Streams, Keys
<1>1. CASE CreateHost \/ BootStrapConnectivityCheck \/ Start
  BY <1>1 DEF CreateHost, BootStrapConnectivityCheck, Start, Boot
<1>2. CASE ConnectToBootstrapPeers
  BY <1>2, CapAssumption DEF ConnectToBootstrapPeers, Boot
<1>3. CASE Stop \/ ProcessBroadcastEnds \/ StopReturns
  BY <1>3 DEF Stop, ProcessBroadcastEnds, StopReturns
<1>4. ASSUME NEW s \in Sessions, StartSession(s) \/ JoinEnds(s) \/ CeremonyEnds(s)
      PROVE  TypeOK' /\ Addressed'
  <2>1. \E to \in Phases : phase' = [phase EXCEPT ![s] = to]
    BY <1>4 DEF StartSession, JoinEnds, CeremonyEnds, Advance
  <2>2. phase' \in [Sessions -> Phases]
    BY <2>1
  <2> QED
    BY <1>4, <2>2 DEF StartSession, JoinEnds, CeremonyEnds
<1>5. ASSUME NEW s \in Sessions, ProcessInboundMessages(s) PROVE TypeOK' /\ Addressed'
  BY <1>5 DEF ProcessInboundMessages
<1>6. ASSUME NEW s \in Sessions, NEW t \in Topics, SetSubscribe(s, t) PROVE TypeOK' /\ Addressed'
  <2>1. subs' \in [Sessions -> SUBSET Topics]
    BY <1>6 DEF SetSubscribe
  <2>2. subscribers' \in [Topics -> {None} \union ((SUBSET Sessions) \ {{}})]
    <3> DEFINE set == IF subscribers[t] = None THEN {s} ELSE subscribers[t] \union {s}
    <3>1. s \in set /\ set \subseteq Sessions
      BY <1>6
    <3>2. subscribers' = [subscribers EXCEPT ![t] = set]
      BY <1>6 DEF SetSubscribe
    <3> HIDE DEF set
    <3>3. set # {} /\ set \in SUBSET Sessions
      BY <3>1
    <3> QED
      BY <3>2, <3>3
  <2>3. phase' \in [Sessions -> Phases]
    BY <1>6 DEF SetSubscribe
  <2> QED
    BY <1>6, <2>1, <2>2, <2>3 DEF SetSubscribe
<1>7. ASSUME NEW s \in Sessions, NEW t \in Topics, CancelSubscribe(s, t) PROVE TypeOK' /\ Addressed'
  BY <1>7 DEF CancelSubscribe, Without
<1>8. ASSUME NEW s \in Sessions, CollectStreams(s) PROVE TypeOK' /\ Addressed'
  BY <1>8 DEF CollectStreams
<1>9. ASSUME NEW s \in Sessions, DeleteStreams(s) PROVE TypeOK' /\ Addressed'
  BY <1>9 DEF DeleteStreams, Advance
<1>10. ASSUME NEW x \in Inbound, HandleStream(x) \/ HandlerStops(x) PROVE TypeOK' /\ Addressed'
  <2>1. CASE HandleStream(x)
    BY <2>1 DEF HandleStream
  <2>2. CASE HandlerStops(x)
    BY <2>2 DEF HandlerStops
  <2> QED
    BY <1>10, <2>1, <2>2
<1>11. ASSUME NEW x \in Inbound, ReadFails(x) PROVE TypeOK' /\ Addressed'
  <2>1. AddStream("UNKNOWN", x) /\ "UNKNOWN" \in Keys /\ x \in Streams
    BY <1>11 DEF ReadFails
  <2>2. handler' = [handler EXCEPT ![x].pc = "done"] /\ UNCHANGED <<sessionVars, writer, stopVars>>
    BY <1>11 DEF ReadFails
  <2>3. handler' \in [Inbound -> [pc : {"none", "check", "lookup", "send", "done"},
                                  to : Sessions \union {None}]]
    BY <2>2
  <2>4. \A y \in Inbound : handler'[y].pc \in {"lookup", "send"} => handler'[y].to \in Sessions
    BY <2>2
  <2>5. TypeOK'
    BY <2>1, <2>2, <2>3, AddStreamType
  <2> QED
    BY <2>2, <2>4, <2>5
<1>12. ASSUME NEW x \in Inbound, NEW s \in Sessions, ReadMessage(x, s) PROVE TypeOK' /\ Addressed'
  BY <1>12, AddStreamType DEF ReadMessage
<1>13. ASSUME NEW x \in Inbound, NEW t \in Topics, GetSubscriber(x, t) PROVE TypeOK' /\ Addressed'
  BY <1>13 DEF GetSubscriber
<1>14. ASSUME NEW x \in Inbound, SendMessage(x) PROVE TypeOK' /\ Addressed'
  BY <1>14 DEF SendMessage
<1>15. ASSUME NEW x \in Outbound, NEW s \in Sessions, RenderToP2P(s, x) PROVE TypeOK' /\ Addressed'
  BY <1>15 DEF RenderToP2P
<1>16. ASSUME NEW x \in Outbound, BroadcastToNobody(x) \/ Broadcast(x) PROVE TypeOK' /\ Addressed'
  <2>1. CASE BroadcastToNobody(x)
    BY <2>1 DEF BroadcastToNobody
  <2>2. CASE Broadcast(x)
    BY <2>2 DEF Broadcast
  <2> QED
    BY <1>16, <2>1, <2>2
<1>17. ASSUME NEW x \in Outbound, ConnectFails(x) \/ BroadcastDone(x) PROVE TypeOK' /\ Addressed'
  <2>1. CASE ConnectFails(x)
    BY <2>1 DEF ConnectFails
  <2>2. CASE BroadcastDone(x)
    BY <2>2 DEF BroadcastDone
  <2> QED
    BY <1>17, <2>1, <2>2
<1>18. ASSUME NEW x \in Outbound, WriteToStream(x) PROVE TypeOK' /\ Addressed'
  BY <1>18, AddStreamType DEF WriteToStream
<1>19. CASE UNCHANGED vars
  BY <1>19
<1> QED
  BY <1>1, <1>2, <1>3, <1>4, <1>5, <1>6, <1>7, <1>8, <1>9, <1>10, <1>11, <1>12, <1>13, <1>14, <1>15,
     <1>16, <1>17, <1>18, <1>19 DEF Next, SessionStep, HandlerStep, WriterStep

(***************************************************************************)
(* Only finitely many goroutines of the layer run at any time.             *)
(***************************************************************************)
LEMMA ActiveFinite ==
  ASSUME TypeOK
  PROVE  IsFiniteSet(Active) /\ Cardinality(Active) \in Nat
  BY SetsAssumption, FS_Subset, FS_CardinalityType DEF Active

(***************************************************************************)
(* wg counts the goroutines that run, so that Stop, which waits for zero,  *)
(* finds none of them running.                                             *)
(***************************************************************************)
LEMMA NextWaitGroup ==
  ASSUME TypeOK, WaitGroup, [Next]_vars
  PROVE  WaitGroup' /\ wg' \in Nat
<1> DEFINE n == Cardinality(Active)
<1>0. n \in Nat /\ IsFiniteSet(Active)
  BY ActiveFinite
<1>1. ASSUME NEW x \in Outbound, Broadcast(x) PROVE WaitGroup' /\ wg' \in Nat
  <2>1. x \notin Active /\ Active' = Active \union {x}
    BY <1>1 DEF Broadcast, Active, TypeOK
  <2>2. Cardinality(Active') = n + 1
    BY <1>0, <2>1, FS_AddElement
  <2> QED
    BY <1>0, <1>1, <2>2 DEF Broadcast, WaitGroup, LoopCount
<1>2. ASSUME NEW x \in Outbound, BroadcastDone(x) PROVE WaitGroup' /\ wg' \in Nat
  <2>1. x \in Active /\ Active' = Active \ {x}
    BY <1>2 DEF BroadcastDone, Active, TypeOK
  <2>2. IsFiniteSet(Active \ {x}) /\ Cardinality(Active \ {x}) = n - 1
    BY <1>0, <2>1, FS_RemoveElement
  <2>3. n - 1 \in Nat
    <3>1. Cardinality(Active \ {x}) \in Nat
      BY <2>2, FS_CardinalityType
    <3> QED
      BY <2>2, <3>1
  <2> QED
    BY <1>0, <1>2, <2>1, <2>2, <2>3 DEF BroadcastDone, WaitGroup, LoopCount
<1>3. CASE Start
  <2>1. Active' = Active /\ loop = "off"
    BY <1>3 DEF Start, Boot, WaitGroup, Active
  <2> QED
    BY <1>0, <1>3, <2>1 DEF Start, Boot, WaitGroup, LoopCount
<1>4. CASE ProcessBroadcastEnds
  <2>1. Active' = Active
    BY <1>4 DEF ProcessBroadcastEnds, Active
  <2> QED
    BY <1>0, <1>4, <2>1 DEF ProcessBroadcastEnds, WaitGroup, LoopCount
<1>5. CASE StopReturns
  <2>1. Active' = Active
    BY <1>5 DEF StopReturns, Active
  <2>2. n = 0 /\ loop = "ended"
    BY <1>0, <1>5 DEF StopReturns, WaitGroup, LoopCount, TypeOK
  <2>3. Active = {}
    BY <1>0, <2>2, FS_EmptySet
  <2> QED
    BY <1>0, <1>5, <2>1, <2>2, <2>3 DEF StopReturns, WaitGroup, LoopCount
<1>6. CASE CreateHost \/ ConnectToBootstrapPeers \/ BootStrapConnectivityCheck \/ Stop
  <2>1. UNCHANGED <<wg, loop, writer>> /\ (boot' = "started" <=> boot = "started")
    BY <1>6 DEF CreateHost, ConnectToBootstrapPeers, BootStrapConnectivityCheck, Stop, Boot
  <2>2. Active' = Active
    BY <2>1 DEF Active
  <2>3. node' = node \/ (node' = "stopping" /\ loop # "off")
    BY <1>6 DEF CreateHost, ConnectToBootstrapPeers, BootStrapConnectivityCheck, Stop
  <2> QED
    BY <1>0, <2>1, <2>2, <2>3 DEF WaitGroup, LoopCount
<1>7. ASSUME UNCHANGED <<wg, loop, boot, node>>, Active' = Active PROVE WaitGroup' /\ wg' \in Nat
  BY <1>0, <1>7 DEF WaitGroup, LoopCount
<1>8. ASSUME NEW x \in Outbound,
             BroadcastToNobody(x) \/ ConnectFails(x) \/ WriteToStream(x) \/ \E s \in Sessions : RenderToP2P(s, x)
      PROVE  WaitGroup' /\ wg' \in Nat
  <2>1. UNCHANGED <<wg, loop, boot, node>>
    BY <1>8 DEF BroadcastToNobody, ConnectFails, WriteToStream, RenderToP2P
  <2>2. \A y \in Outbound : y \in Active' <=> y \in Active
    <3>1. CASE BroadcastToNobody(x)
      BY <3>1 DEF BroadcastToNobody, Active, TypeOK
    <3>2. CASE ConnectFails(x)
      BY <3>2 DEF ConnectFails, Active, TypeOK
    <3>3. CASE WriteToStream(x)
      BY <3>3 DEF WriteToStream, Active, TypeOK
    <3>4. CASE \E s \in Sessions : RenderToP2P(s, x)
      BY <3>4 DEF RenderToP2P, Active, TypeOK
    <3> QED
      BY <1>8, <3>1, <3>2, <3>3, <3>4
  <2>3. Active' = Active
    BY <2>2 DEF Active
  <2> QED
    BY <1>7, <2>1, <2>3
<1>9. ASSUME UNCHANGED <<wg, loop, boot, node, writer>> PROVE WaitGroup' /\ wg' \in Nat
  <2>1. Active' = Active
    BY <1>9 DEF Active
  <2> QED
    BY <1>7, <1>9, <2>1
<1>10. ASSUME NEW s \in Sessions,
              StartSession(s) \/ SessionStep(s) \/ JoinEnds(s) \/ ProcessInboundMessages(s) \/ CeremonyEnds(s)
       PROVE  UNCHANGED <<wg, loop, boot, node, writer>>
  BY <1>10 DEF StartSession, SessionStep, SetSubscribe, CancelSubscribe, CollectStreams, DeleteStreams,
     JoinEnds, ProcessInboundMessages, CeremonyEnds
<1>11. ASSUME NEW x \in Inbound, HandleStream(x) \/ HandlerStep(x)
       PROVE  UNCHANGED <<wg, loop, boot, node, writer>>
  BY <1>11 DEF HandleStream, HandlerStep, HandlerStops, ReadFails, ReadMessage, GetSubscriber, SendMessage
<1>12. CASE UNCHANGED vars
  BY <1>9, <1>12
<1> QED
  BY <1>1, <1>2, <1>3, <1>4, <1>5, <1>6, <1>8, <1>9, <1>10, <1>11, <1>12 DEF Next, WriterStep

(***************************************************************************)
(* SetSubscribe and CancelSubscribe change the entry of one session only.  *)
(***************************************************************************)
LEMMA NextSubscribed ==
  ASSUME TypeOK, SubscribedWhileRunning, [Next]_vars
  PROVE  SubscribedWhileRunning'
<1>1. ASSUME NEW s \in Sessions, NEW t \in Topics, SetSubscribe(s, t) PROVE SubscribedWhileRunning'
  <2>1. subs' = [subs EXCEPT ![s] = @ \union {t}]
    BY <1>1 DEF SetSubscribe
  <2> DEFINE set == IF subscribers[t] = None THEN {s} ELSE subscribers[t] \union {s}
  <2>2. subscribers' = [subscribers EXCEPT ![t] = set]
    BY <1>1 DEF SetSubscribe
  <2>3. set # None /\ \A r \in Sessions : r \in set <=> r = s \/ (subscribers[t] # None /\ r \in subscribers[t])
    <3>1. set \in SUBSET Sessions
      BY DEF TypeOK
    <3> QED
      BY <3>1, SetsAssumption
  <2> HIDE DEF set
  <2> QED
    BY <2>1, <2>2, <2>3 DEF SubscribedWhileRunning, TypeOK
<1>2. ASSUME NEW s \in Sessions, NEW t \in Topics, CancelSubscribe(s, t) PROVE SubscribedWhileRunning'
  <2>1. subs' = [subs EXCEPT ![s] = @ \ {t}] /\ subscribers' = [subscribers EXCEPT ![t] = Without(t, s)]
    BY <1>2 DEF CancelSubscribe
  <2>2. \A r \in Sessions : (Without(t, s) # None /\ r \in Without(t, s)) <=>
                             (r # s /\ subscribers[t] # None /\ r \in subscribers[t])
    <3>1. subscribers[t] # None => subscribers[t] \ {s} \in SUBSET Sessions
      BY DEF TypeOK
    <3> QED
      BY <3>1, SetsAssumption DEF Without
  <2> QED
    BY <2>1, <2>2 DEF SubscribedWhileRunning, TypeOK
<1>3. ASSUME UNCHANGED <<subs, subscribers>> PROVE SubscribedWhileRunning'
  BY <1>3 DEF SubscribedWhileRunning
<1>4. \/ \E s \in Sessions, t \in Topics : SetSubscribe(s, t) \/ CancelSubscribe(s, t)
      \/ UNCHANGED <<subs, subscribers>>
  BY DEF Next, SessionStep, HandlerStep, WriterStep, CreateHost, ConnectToBootstrapPeers,
     BootStrapConnectivityCheck, Start, Stop, ProcessBroadcastEnds, StopReturns, StartSession,
     CollectStreams, DeleteStreams, JoinEnds, ProcessInboundMessages, CeremonyEnds, HandleStream,
     HandlerStops, ReadFails, ReadMessage, GetSubscriber, SendMessage, RenderToP2P,
     BroadcastToNobody, Broadcast, ConnectFails, WriteToStream, BroadcastDone
<1> QED
  BY <1>1, <1>2, <1>3, <1>4

(***************************************************************************)
(* A stream that AddStream hands to the entry of a message ID while        *)
(* ReleaseStream holds the old contents of the entry is windowed.          *)
(***************************************************************************)
LEMMA NextCollection ==
  ASSUME TypeOK, Collection, [Next]_vars
  PROVE  Collection'
<1>1. ASSUME NEW k, NEW x, AddStream(k, x), UNCHANGED phase PROVE Collection'
  <2>1. SUFFICES ASSUME NEW s \in Sessions, phase[s] = "delete"
                 PROVE  table'[s] \subseteq collected[s] \union windowed'
    BY <1>1 DEF Collection, AddStream
  <2>2. table[s] \subseteq collected[s] \union windowed
    BY <2>1 DEF Collection
  <2>3. CASE k = s
    BY <1>1, <2>1, <2>2, <2>3 DEF AddStream, TypeOK, Keys
  <2>4. CASE k # s
    BY <1>1, <2>1, <2>2, <2>4 DEF AddStream, TypeOK, Keys
  <2> QED
    BY <2>3, <2>4
<1>2. ASSUME NEW s \in Sessions, CollectStreams(s) PROVE Collection'
  <2>1. collected' = [collected EXCEPT ![s] = table[s] \union table["UNKNOWN"]] /\ UNCHANGED <<table, windowed>>
    BY <1>2 DEF CollectStreams
  <2>2. \A r \in Sessions : r # s => phase'[r] = phase[r]
    BY <1>2 DEF CollectStreams, TypeOK
  <2> QED
    BY <2>1, <2>2 DEF Collection, TypeOK
<1>3. ASSUME NEW s \in Sessions, DeleteStreams(s) PROVE Collection'
  BY <1>3, SetsAssumption DEF DeleteStreams, Advance, Collection, TypeOK, Keys
<1>4. ASSUME UNCHANGED <<table, collected, windowed>>,
             \A r \in Sessions : phase'[r] = "delete" => phase[r] = "delete"
      PROVE  Collection'
  BY <1>4 DEF Collection
<1>5. ASSUME NEW s \in Sessions, StartSession(s) \/ JoinEnds(s) \/ CeremonyEnds(s) PROVE Collection'
  <2>1. \E to \in {"subscribe", "running", "cancel"} : phase' = [phase EXCEPT ![s] = to]
    BY <1>5 DEF StartSession, JoinEnds, CeremonyEnds, Advance
  <2>2. UNCHANGED <<table, collected, windowed>>
    BY <1>5 DEF StartSession, JoinEnds, CeremonyEnds
  <2> QED
    BY <1>4, <2>1, <2>2 DEF TypeOK
<1>6. ASSUME NEW s \in Sessions, NEW t \in Topics, SetSubscribe(s, t) \/ CancelSubscribe(s, t)
      PROVE  Collection'
  <2>1. \E to \in {"joining", "release", phase[s]} : phase' = [phase EXCEPT ![s] = to]
    BY <1>6 DEF SetSubscribe, CancelSubscribe
  <2>2. UNCHANGED <<table, collected, windowed>>
    BY <1>6 DEF SetSubscribe, CancelSubscribe
  <2> QED
    BY <1>4, <2>1, <2>2 DEF TypeOK
<1>7. ASSUME NEW x \in Inbound, HandlerStep(x) PROVE Collection'
  <2>1. \/ (\E k \in Keys : AddStream(k, x)) /\ UNCHANGED phase
        \/ UNCHANGED <<phase, table, collected, windowed>>
    BY <1>7 DEF HandlerStep, HandlerStops, ReadFails, ReadMessage, GetSubscriber, SendMessage, Keys
  <2> QED
    BY <1>1, <1>4, <2>1
<1>8. ASSUME NEW x \in Outbound, WriteToStream(x) PROVE Collection'
  BY <1>1, <1>8 DEF WriteToStream
<1>9. CASE UNCHANGED <<phase, table, collected, windowed>>
  BY <1>4, <1>9
<1>10. \/ \E s \in Sessions : \/ CollectStreams(s) \/ DeleteStreams(s)
                             \/ StartSession(s) \/ JoinEnds(s) \/ CeremonyEnds(s)
                             \/ \E t \in Topics : SetSubscribe(s, t) \/ CancelSubscribe(s, t)
       \/ \E x \in Inbound : HandlerStep(x)
       \/ \E x \in Outbound : WriteToStream(x)
       \/ UNCHANGED <<phase, table, collected, windowed>>
  BY DEF Next, SessionStep, WriterStep, CreateHost, ConnectToBootstrapPeers,
     BootStrapConnectivityCheck, Start, Stop, ProcessBroadcastEnds, StopReturns,
     ProcessInboundMessages, HandleStream, RenderToP2P, BroadcastToNobody, Broadcast,
     ConnectFails, BroadcastDone
<1> QED
  BY <1>2, <1>3, <1>5, <1>6, <1>7, <1>8, <1>9, <1>10

(***************************************************************************)
(* DeleteStreams, the only step that takes streams out of the table, has   *)
(* reset them or finds them in the window.                                 *)
(***************************************************************************)
LEMMA NextForgotten ==
  ASSUME TypeOK, Addressed, Collection, NoStreamForgotten, [Next]_vars
  PROVE  NoStreamForgotten'
<1>0. \A y \in added : y \in wasReset \union windowed \/ \E k \in Keys : y \in table[k]
  BY DEF NoStreamForgotten
<1>1. ASSUME NEW k \in Keys, NEW x, AddStream(k, x) PROVE NoStreamForgotten'
  <2>1. /\ \A j \in Keys : table[j] \subseteq table'[j]
        /\ x \in table'[k]
        /\ windowed \subseteq windowed'
        /\ wasReset' = wasReset
        /\ added' = added \union {x}
    BY <1>1 DEF AddStream, TypeOK
  <2> QED
    BY <1>0, <1>1, <2>1 DEF NoStreamForgotten
<1>2. ASSUME NEW s \in Sessions, DeleteStreams(s) PROVE NoStreamForgotten'
  <2>1. /\ wasReset' = wasReset \union collected[s]
        /\ \A j \in Keys : j # s => table'[j] = table[j]
        /\ UNCHANGED <<added, windowed>>
    BY <1>2 DEF DeleteStreams, TypeOK
  <2>2. table[s] \subseteq collected[s] \union windowed
    BY <1>2 DEF DeleteStreams, Advance, Collection
  <2> QED
    BY <1>0, <2>1, <2>2 DEF NoStreamForgotten
<1>3. CASE UNCHANGED <<added, wasReset, windowed, table>>
  BY <1>3 DEF NoStreamForgotten
<1>4. ASSUME NEW x \in Inbound, HandlerStep(x) PROVE NoStreamForgotten'
  <2>1. (\E k \in Keys : AddStream(k, x)) \/ UNCHANGED <<added, wasReset, windowed, table>>
    BY <1>4 DEF HandlerStep, HandlerStops, ReadFails, ReadMessage, GetSubscriber, SendMessage, Keys
  <2> QED
    BY <1>1, <1>3, <2>1
<1>5. ASSUME NEW x \in Outbound, WriteToStream(x) PROVE NoStreamForgotten'
  <2>1. writer[x].of \in Keys /\ AddStream(writer[x].of, x)
    BY <1>5 DEF WriteToStream, Addressed, Keys
  <2> QED
    BY <1>1, <2>1
<1>6. \/ \E s \in Sessions : DeleteStreams(s)
      \/ \E x \in Inbound : HandlerStep(x)
      \/ \E x \in Outbound : WriteToStream(x)
      \/ UNCHANGED <<added, wasReset, windowed, table>>
  BY DEF Next, SessionStep, WriterStep, CreateHost, ConnectToBootstrapPeers,
     BootStrapConnectivityCheck, Start, Stop, ProcessBroadcastEnds, StopReturns, StartSession,
     SetSubscribe, CancelSubscribe, CollectStreams, JoinEnds, CeremonyEnds,
     ProcessInboundMessages, HandleStream, RenderToP2P, BroadcastToNobody, Broadcast,
     ConnectFails, BroadcastDone
<1> QED
  BY <1>2, <1>3, <1>4, <1>5, <1>6

(***************************************************************************)
(* The invariant of the message layer, which is inductive: its parts       *)
(* WaitGroup and Collection are what StoppedIsQuiet and NoStreamForgotten  *)
(* lack.                                                                   *)
(***************************************************************************)
THEOREM Invariance == Spec => []IInv
<1>1. Init => IInv
  BY InitIInv
<1>2. IInv /\ [Next]_vars => IInv'
  BY NextType, NextWaitGroup, NextSubscribed, NextCollection, NextForgotten DEF IInv
<1> QED
  BY <1>1, <1>2, PTL DEF Spec

(***************************************************************************)
(* Every state of the message layer is of its type; the channel of a       *)
(* session never holds more than its one slot and the wait group is never  *)
(* negative.                                                               *)
(***************************************************************************)
THEOREM TypeCorrect == Spec => []TypeOK
<1>1. IInv => TypeOK
  BY DEF IInv
<1> QED
  BY <1>1, Invariance, PTL

(***************************************************************************)
(* SetSubscribe and CancelSubscribe of other sessions never take away the  *)
(* subscription of a session, and no subscription outlives its session's   *)
(* CancelSubscribe.                                                        *)
(***************************************************************************)
THEOREM SubscribedWhileRunningCorrect == Spec => []SubscribedWhileRunning
<1>1. IInv => SubscribedWhileRunning
  BY DEF IInv
<1> QED
  BY <1>1, Invariance, PTL

(***************************************************************************)
(* Every stream given to AddStream is in the table, was reset by           *)
(* ReleaseStream or fell into the window between its two locks.            *)
(***************************************************************************)
THEOREM NoStreamForgottenCorrect == Spec => []NoStreamForgotten
<1>1. IInv => NoStreamForgotten
  BY DEF IInv
<1> QED
  BY <1>1, Invariance, PTL

(***************************************************************************)
(* When the wg.Wait of Stop has returned neither ProcessBroadcast nor a    *)
(* goroutine of broadcastToPeers runs.                                     *)
(***************************************************************************)
THEOREM StoppedIsQuietCorrect == Spec => []StoppedIsQuiet
<1>1. IInv => StoppedIsQuiet
  BY DEF IInv, WaitGroup, Active, StoppedIsQuiet
<1> QED
  BY <1>1, Invariance, PTL
=============================================================================
