-------------------------- MODULE CeremonyProofs ----------------------------
(***************************************************************************)
(* What a ceremony guarantees for any number of nodes, any batch and any   *)
(* set of nodes that may crash: the leaderless join brings every node in   *)
(* before a share is sent, its channel never blocks a handler, taskDone is *)
(* closed once and only after every peer's end, and a key generation that  *)
(* answers with success has saved its share.                               *)
(***************************************************************************)
EXTENDS Ceremony, FiniteSetTheorems, TLAPS

USE DEF vars, joinVars, partyVars, doneVars, netVars

(***************************************************************************)
(* Counting: newFound holds, or handlers are about to send to it, one      *)
(* value for each online peer; a node is not a peer of its own.            *)
(***************************************************************************)
Counting ==
  \A p \in Nodes : /\ online[p] \subseteq Others(p)
                   /\ newFound[p] + pushing[p] = Cardinality(online[p])

(***************************************************************************)
(* Announced: a request, a mark in PeerStatus and a share each tell that a *)
(* node has called, and the news of a finished task that it has finished.  *)
(***************************************************************************)
Announced ==
  /\ \A m \in net : /\ m.from # m.to
                    /\ m.type = "request" => stage[m.from] # "idle"
                    /\ m.type = "share" => stage[m.to] # "idle" /\ m.item \in Items
                    /\ m.type = "done" => ended[m.from] = Items
  /\ \A p \in Nodes : \A q \in online[p] : stage[q] # "idle"

(***************************************************************************)
(* Joined: local parties exist only where all peers were online, a call    *)
(* that is under way is subscribed, and a failed join has someone to       *)
(* blame.                                                                  *)
(***************************************************************************)
Joined ==
  \A p \in Nodes :
    /\ party[p] # "none" => Others(p) \subseteq online[p]
    /\ stage[p] = "process" => party[p] # "none"
    /\ stage[p] \notin {"idle", "returned", "crashed"} => subscribed[p]
    /\ result[p] = "joinFailed" => blamed[p] # {} /\ p \notin blamed[p]

(***************************************************************************)
(* Reported: finishedPeers holds peers that finished the batch, and        *)
(* taskDone is closed when it holds all of them.                           *)
(***************************************************************************)
Reported ==
  \A p \in Nodes :
    /\ finished[p] \subseteq Others(p)
    /\ \A q \in finished[p] : ended[q] = Items
    /\ taskDone[p] # 0 => taskDone[p] = 1 /\ finished[p] = Others(p)

(***************************************************************************)
(* Saving: a call that is past its loop finished the batch, one that is    *)
(* past SaveLocalState has its file, and none has answered yet.            *)
(***************************************************************************)
Saving ==
  \A p \in Nodes :
    /\ stage[p] \in {"save", "write", "linger", "wait"} => ended[p] = Items
    /\ stage[p] \in {"linger", "wait"} /\ kind = "keygen" => file[p] = "saved"
    /\ stage[p] \notin {"returned", "crashed"} => result[p] # "success"

IInv == /\ TypeOK /\ Counting /\ Announced /\ Joined /\ Reported /\ Saving
        /\ EarlyShareKept /\ SuccessIsSaved

-----------------------------------------------------------------------------
(***************************************************************************)
(* Sets of nodes are counted as the code counts them: a list with as many  *)
(* nodes as there are is the list of all.                                  *)
(***************************************************************************)
LEMMA NodeSets ==
  ASSUME NEW S, S \subseteq Nodes
  PROVE  /\ IsFiniteSet(S) /\ Cardinality(S) \in Nat /\ Cardinality(Nodes) \in Nat
         /\ Cardinality(S) <= Cardinality(Nodes)
         /\ Cardinality(S) = Cardinality(Nodes) <=> S = Nodes
  BY NodesAssumption, FS_Subset, FS_CardinalityType

(***************************************************************************)
(* The test of ProcessOneMessage, len(finishedPeers) == len(partyInfo)-1,  *)
(* is met by all peers and nothing less.                                   *)
(***************************************************************************)
LEMMA AllPeers ==
  ASSUME NEW p \in Nodes, NEW S, S \subseteq Others(p)
  PROVE  Cardinality(S) = Cardinality(Nodes) - 1 => S = Others(p)
<1>1. Cardinality(Others(p)) = Cardinality(Nodes) - 1 /\ IsFiniteSet(Others(p))
  BY NodesAssumption, FS_RemoveElement DEF Others
<1> QED
  BY <1>1, FS_Subset

(***************************************************************************)
(* AllOnline, which counts, means that every peer is marked as online.     *)
(***************************************************************************)
LEMMA AllOnlineMeans ==
  ASSUME TypeOK, NEW p \in Nodes
  PROVE  AllOnline(p) <=> Others(p) \subseteq online[p]
<1>1. online[p] \union {p} \subseteq Nodes
  BY DEF TypeOK
<1>2. AllOnline(p) <=> online[p] \union {p} = Nodes
  BY <1>1, NodeSets DEF AllOnline
<1> QED
  BY <1>1, <1>2 DEF Others

(***************************************************************************)
(* A node's end is final: nothing is taken from endCh after the whole      *)
(* batch; and no call becomes one that has not started.                    *)
(***************************************************************************)
LEMMA NextKeeps ==
  ASSUME TypeOK, [Next]_vars
  PROVE  /\ kind' = kind /\ Items' = Items
         /\ \A p \in Nodes : stage[p] # "idle" => stage'[p] # "idle"
         /\ \A p \in Nodes : ended[p] = Items => ended'[p] = Items
<1>1. kind' = kind /\ Items' = Items
  BY DEF Next, CallStep, StartCall, SendRequestToAll, SendNewFound, InboundEnds, RepeatTaskDone,
     Crash, HandleStream, ProcessShare, ProcessTaskDone, Drop, JoinSucceeds, JoinFails, SetupFails,
     StartParty, ProcessTimeout, ProcessErrors, TakeOutCh, TakeEndCh, BeginWrite, EndWrite,
     SaveFails, EndWithError, Linger, WaitGroup, Items
<1>2. \/ \E p \in Nodes, to \in Stages \ {"idle"} : stage' = [stage EXCEPT ![p] = to]
      \/ stage' = stage
  BY DEF Next, CallStep, StartCall, SendRequestToAll, SendNewFound, InboundEnds, RepeatTaskDone,
     Crash, HandleStream, ProcessShare, ProcessTaskDone, Drop, JoinSucceeds, JoinFails, SetupFails,
     StartParty, ProcessTimeout, ProcessErrors, TakeOutCh, TakeEndCh, BeginWrite, EndWrite,
     SaveFails, EndWithError, Linger, WaitGroup, Goto, Return, Stages
<1>3. \A p \in Nodes : stage[p] # "idle" => stage'[p] # "idle"
  BY <1>2 DEF TypeOK
<1>4. \/ \E p \in Nodes, i \in Items : i \notin ended[p] /\ ended' = [ended EXCEPT ![p] = @ \union {i}]
      \/ ended' = ended
  BY DEF Next, CallStep, StartCall, SendRequestToAll, SendNewFound, InboundEnds, RepeatTaskDone,
     Crash, HandleStream, ProcessShare, ProcessTaskDone, Drop, JoinSucceeds, JoinFails, SetupFails,
     StartParty, ProcessTimeout, ProcessErrors, TakeOutCh, TakeEndCh, BeginWrite, EndWrite,
     SaveFails, EndWithError, Linger, WaitGroup
<1>5. \A p \in Nodes : ended[p] = Items => ended'[p] = Items
  BY <1>4 DEF TypeOK
<1> QED
  BY <1>1, <1>3, <1>5

(***************************************************************************)
(* updatePeer sends to newFound once for each peer.                        *)
(***************************************************************************)
LEMMA NextCounting ==
  ASSUME TypeOK, Counting, Announced, [Next]_vars
  PROVE  /\ Counting'
         /\ online' \in [Nodes -> SUBSET Nodes]
         /\ pushing' \in [Nodes -> 0..NewFoundCap]
         /\ newFound' \in [Nodes -> 0..NewFoundCap]
<1> DEFINE P == /\ Counting'
                /\ online' \in [Nodes -> SUBSET Nodes]
                /\ pushing' \in [Nodes -> 0..NewFoundCap]
                /\ newFound' \in [Nodes -> 0..NewFoundCap]
<1>0. NewFoundCap \in Nat
  BY NodesAssumption, FS_CardinalityType DEF NewFoundCap
<1>1. CASE UNCHANGED <<online, pushing, newFound>>
  BY <1>1 DEF Counting, TypeOK, NewFoundCap
<1>2. ASSUME NEW p \in Nodes, SendNewFound(p) PROVE P
  <2>1. /\ pushing' = [pushing EXCEPT ![p] = pushing[p] - 1]
        /\ newFound' = [newFound EXCEPT ![p] = newFound[p] + 1]
        /\ online' = online
        /\ pushing[p] > 0 /\ newFound[p] < NewFoundCap
    BY <1>2 DEF SendNewFound
  <2>2. pushing[p] \in 0..NewFoundCap /\ newFound[p] \in 0..NewFoundCap
    BY DEF TypeOK
  <2>3. pushing[p] - 1 \in 0..NewFoundCap /\ newFound[p] + 1 \in 0..NewFoundCap
    BY <1>0, <2>1, <2>2
  <2>4. newFound[p] + 1 + (pushing[p] - 1) = newFound[p] + pushing[p]
    BY <1>0, <2>2
  <2>5. Counting'
    BY <2>1, <2>4 DEF Counting, TypeOK
  <2> QED
    BY <2>1, <2>3, <2>5 DEF TypeOK, NewFoundCap
<1>3. ASSUME NEW m \in net, HandleStream(m), grouped[m.to] PROVE P
  <2> DEFINE p == m.to
             q == m.from
             n == IF q \in online[p] THEN pushing[p] ELSE pushing[p] + 1
  <2>1. p \in Nodes /\ q \in Others(p)
    BY DEF TypeOK, Message, Announced, Others
  <2>2. /\ online' = [online EXCEPT ![p] = online[p] \union {q}]
        /\ pushing' = [pushing EXCEPT ![p] = n]
        /\ newFound' = newFound
    BY <1>3 DEF HandleStream, UpdatePeer
  <2>3. online[p] \union {q} \subseteq Others(p) /\ online[p] \subseteq Nodes
    BY <2>1 DEF Counting, Others
  <2>4. online[p] \union {q} \subseteq Nodes
    BY <2>3 DEF Others
  <2>5. Cardinality(online[p] \union {q}) =
          IF q \in online[p] THEN Cardinality(online[p]) ELSE Cardinality(online[p]) + 1
    BY <2>3, NodeSets, FS_AddElement
  <2>6. Cardinality(online[p] \union {q}) <= NewFoundCap
    BY <2>4, NodeSets DEF NewFoundCap
  <2>7. pushing[p] \in 0..NewFoundCap /\ newFound[p] \in 0..NewFoundCap
    BY <2>1 DEF TypeOK
  <2>8. newFound[p] + pushing[p] = Cardinality(online[p])
    BY <2>1 DEF Counting
  <2>9. newFound[p] + n = Cardinality(online[p] \union {q})
    BY <1>0, <2>5, <2>7, <2>8
  <2>10. n \in 0..NewFoundCap
    BY <1>0, <2>6, <2>7, <2>9
  <2> HIDE DEF p, q, n
  <2>11. Counting'
    BY <2>1, <2>2, <2>3, <2>9 DEF Counting, TypeOK
  <2> QED
    BY <2>1, <2>2, <2>4, <2>10, <2>11 DEF TypeOK, NewFoundCap
<1>4. ASSUME NEW m \in net, HandleStream(m), ~grouped[m.to] PROVE P
  BY <1>1, <1>4 DEF HandleStream
<1>5. \/ \E p \in Nodes : SendNewFound(p)
      \/ \E m \in net : HandleStream(m)
      \/ UNCHANGED <<online, pushing, newFound>>
  BY DEF Next, CallStep, StartCall, SendRequestToAll, InboundEnds, RepeatTaskDone,
     Crash, ProcessShare, ProcessTaskDone, Drop, JoinSucceeds, JoinFails, SetupFails,
     StartParty, ProcessTimeout, ProcessErrors, TakeOutCh, TakeEndCh, BeginWrite, EndWrite,
     SaveFails, EndWithError, Linger, WaitGroup
<1> QED
  BY <1>1, <1>2, <1>3, <1>4, <1>5

(***************************************************************************)
(* What is under way: every step sends messages of nodes that have called  *)
(* to other nodes, shares after a successful join and the news of the end  *)
(* after the end; marks in PeerStatus come from requests.                  *)
(***************************************************************************)
LEMMA NextNet ==
  ASSUME TypeOK, Counting, Announced, Joined, [Next]_vars
  PROVE  net' \subseteq Message /\ Announced'
<1> DEFINE Fine(m) == /\ m \in Message
                      /\ m.from # m.to
                      /\ m.type = "request" => stage'[m.from] # "idle"
                      /\ m.type = "share" => stage'[m.to] # "idle" /\ m.item \in Items
                      /\ m.type = "done" => ended'[m.from] = Items
<1>1. \A m \in net : Fine(m)
  <2> SUFFICES ASSUME NEW m \in net PROVE Fine(m)
    OBVIOUS
  <2>1. m \in Message /\ m.from \in Nodes /\ m.to \in Nodes
    BY DEF TypeOK, Message
  <2> QED
    BY <2>1, NextKeeps DEF Announced
<1>2. SUFFICES (\A m \in net' : Fine(m)) /\ \A p \in Nodes : \A q \in online'[p] : stage'[q] # "idle"
  BY NextKeeps DEF Announced
<1> HIDE DEF Fine
<1>3. \A m \in net' : Fine(m)
  <2>1. ASSUME net' \subseteq net PROVE \A m \in net' : Fine(m)
    BY <1>1, <2>1
  <2>2. ASSUME NEW p \in Nodes, NEW S, S \subseteq Others(p), stage'[p] # "idle",
               net' \subseteq net \union {[type |-> "request", from |-> p, to |-> q] : q \in S}
        PROVE  \A m \in net' : Fine(m)
    <3>1. \A q \in S : Fine([type |-> "request", from |-> p, to |-> q])
      BY <2>2 DEF Fine, Message, Others
    <3> QED
      BY <1>1, <2>2, <3>1
  <2>3. ASSUME NEW p \in Nodes, ended'[p] = Items, net' = net \union ToOthers("done", p)
        PROVE  \A m \in net' : Fine(m)
    <3>1. \A q \in Others(p) : Fine([type |-> "done", from |-> p, to |-> q])
      BY <2>3 DEF Fine, Message, Others
    <3> QED
      BY <1>1, <2>3, <3>1 DEF ToOthers
  <2>4. ASSUME NEW p \in Nodes, TakeOutCh(p) PROVE \A m \in net' : Fine(m)
    <3>1. PICK i \in outCh[p] : net' = net \union
                 {[type |-> "share", from |-> p, to |-> q, item |-> i] : q \in Others(p)}
      BY <2>4 DEF TakeOutCh
    <3>2. i \in Items /\ Items \in {Batch[k] : k \in DOMAIN Batch}
      BY DEF TypeOK, Items
    <3>3. \A q \in Others(p) : stage'[q] # "idle"
      <4>1. Others(p) \subseteq online[p]
        BY <2>4 DEF TakeOutCh, Joined
      <4> QED
        BY <4>1, NextKeeps DEF Announced, Others
    <3>4. ASSUME NEW q \in Others(p)
          PROVE  Fine([type |-> "share", from |-> p, to |-> q, item |-> i])
      BY <3>2, <3>3, <3>4 DEF Fine, Message, Others
    <3> QED
      BY <1>1, <3>1, <3>4
  <2>5. ASSUME NEW p \in Nodes, SendRequestToAll(p) PROVE \A m \in net' : Fine(m)
    <3>1. PICK q \in Others(p) : net' = net \union {[type |-> "request", from |-> p, to |-> q]}
      BY <2>5 DEF SendRequestToAll
    <3>2. stage'[p] # "idle"
      BY <2>5 DEF SendRequestToAll
    <3>3. Fine([type |-> "request", from |-> p, to |-> q])
      BY <3>2 DEF Fine, Message, Others
    <3> QED
      BY <1>1, <3>1, <3>3
  <2>6. ASSUME NEW p \in Nodes, JoinSucceeds(p) \/ JoinFails(p) \/ SetupFails(p)
        PROVE  \A m \in net' : Fine(m)
    <3>1. online[p] \subseteq Others(p) /\ JoinTimeout(p)
      BY <2>6 DEF Counting, JoinSucceeds, JoinFails, SetupFails
    <3>2. stage[p] = "join"
      BY <2>6 DEF JoinSucceeds, JoinFails, SetupFails, Goto, Return
    <3>3. stage'[p] # "idle"
      BY <3>2, NextKeeps
    <3> QED
      BY <2>2, <3>1, <3>3 DEF JoinTimeout
  <2>7. ASSUME NEW p \in Nodes, NEW i \in Items, TakeEndCh(p, i) PROVE \A m \in net' : Fine(m)
    <3>1. (ended'[p] = Items /\ net' = net \union ToOthers("done", p)) \/ net' = net
      BY <2>7 DEF TakeEndCh
    <3> QED
      BY <2>1, <2>3, <3>1
  <2>8. ASSUME NEW p \in Nodes, RepeatTaskDone(p) PROVE \A m \in net' : Fine(m)
    BY <2>3, <2>8 DEF RepeatTaskDone
  <2>9. \/ \E p \in Nodes : \/ TakeOutCh(p) \/ SendRequestToAll(p) \/ RepeatTaskDone(p)
                           \/ JoinSucceeds(p) \/ JoinFails(p) \/ SetupFails(p)
                           \/ \E i \in Items : TakeEndCh(p, i)
        \/ net' \subseteq net
    BY DEF Next, CallStep, StartCall, SendNewFound, InboundEnds, Crash, HandleStream, ProcessShare,
       ProcessTaskDone, Drop, StartParty, ProcessTimeout, ProcessErrors, BeginWrite, EndWrite,
       SaveFails, EndWithError, Linger, WaitGroup
  <2> QED
    BY <2>1, <2>4, <2>5, <2>6, <2>7, <2>8, <2>9
<1>4. ASSUME NEW p \in Nodes, NEW q \in online'[p] PROVE stage'[q] # "idle"
  <2>1. ASSUME NEW r \in Nodes, NEW x \in online[r] PROVE stage'[x] # "idle"
    <3>1. x \in Nodes
      BY DEF TypeOK
    <3> QED
      BY <3>1, NextKeeps DEF Announced
  <2>2. ASSUME NEW m \in net, HandleStream(m), grouped[m.to] PROVE stage'[q] # "idle"
    <3>1. online' = [online EXCEPT ![m.to] = @ \union {m.from}] /\ stage' = stage /\ m.type = "request"
      BY <2>2 DEF HandleStream, UpdatePeer
    <3>2. q \in online[p] \/ q = m.from
      BY <3>1 DEF TypeOK
    <3> QED
      BY <2>1, <3>1, <3>2 DEF Announced
  <2>3. (\E m \in net : HandleStream(m) /\ grouped[m.to]) \/ UNCHANGED online
    BY DEF Next, CallStep, StartCall, SendRequestToAll, SendNewFound, InboundEnds, RepeatTaskDone,
       Crash, HandleStream, ProcessShare, ProcessTaskDone, Drop, JoinSucceeds, JoinFails, SetupFails,
       StartParty, ProcessTimeout, ProcessErrors, TakeOutCh, TakeEndCh, BeginWrite, EndWrite,
       SaveFails, EndWithError, Linger, WaitGroup
  <2> QED
    BY <2>1, <2>2, <2>3
<1> QED
  BY <1>3, <1>4

(***************************************************************************)
(* The types of the variables that NextCounting and NextNet leave.         *)
(***************************************************************************)
LEMMA NextType ==
  ASSUME TypeOK, Counting, Announced, Joined, [Next]_vars
  PROVE  TypeOK'
<1>0. /\ kind' = kind /\ Items' = Items
      /\ online' \in [Nodes -> SUBSET Nodes]
      /\ pushing' \in [Nodes -> 0..NewFoundCap] /\ newFound' \in [Nodes -> 0..NewFoundCap]
      /\ net' \subseteq Message
  BY NextKeeps, NextCounting, NextNet
<1> DEFINE CallType == /\ stage' \in [Nodes -> Stages]
                       /\ result' \in [Nodes -> {None, "joinFailed", "error", "success"}]
                       /\ subscribed' \in [Nodes -> BOOLEAN] /\ grouped' \in [Nodes -> BOOLEAN]
                       /\ blamed' \in [Nodes -> SUBSET Nodes]
                       /\ commStop' \in [Nodes -> BOOLEAN]
                       /\ file' \in [Nodes -> {"absent", "torn", "saved"}]
           PartyType == /\ party' \in [Nodes -> {"none", "starting", "running", "failed"}]
                        /\ outCh' \in [Nodes -> SUBSET Items] /\ sent' \in [Nodes -> SUBSET Items]
                        /\ heard' \in [Nodes -> SUBSET (Nodes \X Items)]
                        /\ ended' \in [Nodes -> SUBSET Items]
           DoneType == /\ finished' \in [Nodes -> SUBSET Nodes] /\ taskDone' \in [Nodes -> Nat]
                       /\ inbound' \in [Nodes -> {"off", "running", "ended"}]
                       /\ repeated' \subseteq Nodes /\ early' \subseteq Nodes
<1>1. SUFFICES CallType /\ PartyType /\ DoneType
  BY <1>0 DEF TypeOK, NewFoundCap
<1> USE DEF Stages
<1>2. ASSUME NEW p \in Nodes, StartCall(p) PROVE CallType /\ PartyType /\ DoneType
  BY <1>2 DEF StartCall, Goto, TypeOK
<1>3. ASSUME NEW p \in Nodes, SendRequestToAll(p) \/ SendNewFound(p) PROVE CallType /\ PartyType /\ DoneType
  BY <1>3 DEF SendRequestToAll, SendNewFound, TypeOK
<1>4. ASSUME NEW p \in Nodes, JoinSucceeds(p) PROVE CallType /\ PartyType /\ DoneType
  BY <1>4 DEF JoinSucceeds, JoinTimeout, Goto, TypeOK
<1>5. ASSUME NEW p \in Nodes, JoinFails(p) PROVE CallType /\ PartyType /\ DoneType
  BY <1>5 DEF JoinFails, JoinTimeout, Return, Goto, TypeOK
<1>6. ASSUME NEW p \in Nodes, SetupFails(p) PROVE CallType /\ PartyType /\ DoneType
  BY <1>6 DEF SetupFails, JoinTimeout, Return, Goto, TypeOK
<1>7. ASSUME NEW p \in Nodes, StartParty(p) PROVE CallType /\ PartyType /\ DoneType
  BY <1>7 DEF StartParty, TypeOK
<1>8. ASSUME NEW p \in Nodes, NEW from, EndWithError(p, from) PROVE CallType /\ PartyType /\ DoneType
  BY <1>8 DEF EndWithError, Return, Goto, TypeOK
<1>9. ASSUME NEW p \in Nodes, TakeOutCh(p) PROVE CallType /\ PartyType /\ DoneType
  <2>1. PICK i \in outCh[p] : /\ outCh' = [outCh EXCEPT ![p] = @ \ {i}]
                              /\ sent' = [sent EXCEPT ![p] = @ \union {i}]
    BY <1>9 DEF TakeOutCh
  <2>2. i \in Items
    BY DEF TypeOK
  <2> QED
    BY <1>9, <2>1, <2>2 DEF TakeOutCh, TypeOK
<1>10. ASSUME NEW p \in Nodes, NEW i \in Items, TakeEndCh(p, i) PROVE CallType /\ PartyType /\ DoneType
  <2>1. \E to \in Stages : stage' = [stage EXCEPT ![p] = to]
    BY <1>10 DEF TakeEndCh, Goto
  <2>2. ended' = [ended EXCEPT ![p] = @ \union {i}]
    BY <1>10 DEF TakeEndCh
  <2>3. UNCHANGED <<result, subscribed, joinVars, party, outCh, sent, heard, doneVars, file, repeated, early>>
    BY <1>10 DEF TakeEndCh
  <2> QED
    BY <2>1, <2>2, <2>3 DEF TypeOK
<1>11. ASSUME NEW p \in Nodes, BeginWrite(p) \/ EndWrite(p) PROVE CallType /\ PartyType /\ DoneType
  <2>1. CASE BeginWrite(p)
    BY <2>1 DEF BeginWrite, Goto, TypeOK
  <2>2. CASE EndWrite(p)
    BY <2>2 DEF EndWrite, Goto, TypeOK
  <2> QED
    BY <1>11, <2>1, <2>2
<1>12. ASSUME NEW p \in Nodes, Linger(p) PROVE CallType /\ PartyType /\ DoneType
  BY <1>12 DEF Linger, Goto, TypeOK
<1>13. ASSUME NEW p \in Nodes, WaitGroup(p) PROVE CallType /\ PartyType /\ DoneType
  BY <1>13 DEF WaitGroup, Return, Goto, TypeOK
<1>14. ASSUME NEW p \in Nodes, InboundEnds(p) \/ RepeatTaskDone(p) PROVE CallType /\ PartyType /\ DoneType
  BY <1>14 DEF InboundEnds, RepeatTaskDone, TypeOK
<1>15. ASSUME NEW p \in Nodes, Crash(p) PROVE CallType /\ PartyType /\ DoneType
  BY <1>15 DEF Crash, TypeOK
<1>16. ASSUME NEW m \in net, HandleStream(m) PROVE CallType /\ PartyType /\ DoneType
  BY <1>16 DEF HandleStream, TypeOK
<1>17. ASSUME NEW m \in net, ProcessShare(m) PROVE CallType /\ PartyType /\ DoneType
  <2>1. m.to \in Nodes /\ <<m.from, m.item>> \in Nodes \X Items
    BY <1>17 DEF ProcessShare, TypeOK, Announced, Message
  <2> QED
    BY <1>17, <2>1 DEF ProcessShare, TypeOK
<1>18. ASSUME NEW m \in net, ProcessTaskDone(m) PROVE CallType /\ PartyType /\ DoneType
  <2>1. m.to \in Nodes /\ m.from \in Nodes
    BY DEF TypeOK, Message
  <2> QED
    BY <1>18, <2>1 DEF ProcessTaskDone, TypeOK
<1>19. ASSUME NEW m \in net, Drop(m) PROVE CallType /\ PartyType /\ DoneType
  <2>1. m.to \in Nodes
    BY DEF TypeOK, Message
  <2> QED
    BY <1>19, <2>1 DEF Drop, TypeOK
<1>20. CASE UNCHANGED vars
  BY <1>20 DEF TypeOK
<1> HIDE DEF CallType, PartyType, DoneType
<1> QED
  BY <1>2, <1>3, <1>4, <1>5, <1>6, <1>7, <1>8, <1>9, <1>10, <1>11, <1>12, <1>13, <1>14, <1>15,
     <1>16, <1>17, <1>18, <1>19, <1>20
     DEF Next, CallStep, ProcessTimeout, ProcessErrors, SaveFails

(***************************************************************************)
(* The parties are started by a join that found all peers online, and a    *)
(* call is unsubscribed only when it returns or crashes.                   *)
(***************************************************************************)
LEMMA NextJoined ==
  ASSUME TypeOK, Joined, [Next]_vars
  PROVE  Joined'
<1> DEFINE JoinedOf(p) == /\ party[p] # "none" => Others(p) \subseteq online[p]
                          /\ stage[p] = "process" => party[p] # "none"
                          /\ stage[p] \notin {"idle", "returned", "crashed"} => subscribed[p]
                          /\ result[p] = "joinFailed" => blamed[p] # {} /\ p \notin blamed[p]
<1>0. \A p \in Nodes : JoinedOf(p)
  BY DEF Joined
<1>1. SUFFICES \A p \in Nodes : JoinedOf(p)'
  BY DEF Joined, Others
<1>2. ASSUME NEW p \in Nodes, UNCHANGED <<party, stage, subscribed, result, blamed>>,
             online[p] \subseteq online'[p]
      PROVE  JoinedOf(p)'
  BY <1>0, <1>2 DEF Others
<1>3. ASSUME NEW p \in Nodes, StartCall(p), NEW q \in Nodes PROVE JoinedOf(q)'
  BY <1>0, <1>3 DEF StartCall, Goto, TypeOK, Others
<1>4. ASSUME NEW p \in Nodes, JoinSucceeds(p), NEW q \in Nodes PROVE JoinedOf(q)'
  <2>1. Others(p) \subseteq online[p]
    BY <1>4, AllOnlineMeans DEF JoinSucceeds
  <2> QED
    BY <1>0, <1>4, <2>1 DEF JoinSucceeds, Goto, TypeOK, Others
<1>5. ASSUME NEW p \in Nodes, JoinFails(p), NEW q \in Nodes PROVE JoinedOf(q)'
  <2>1. blamed' = [blamed EXCEPT ![p] = Nodes \ (online[p] \union {p})]
    BY <1>5 DEF JoinFails
  <2>2. Nodes \ (online[p] \union {p}) # {}
    BY <1>5, AllOnlineMeans DEF JoinFails, Others
  <2> QED
    BY <1>0, <1>5, <2>1, <2>2 DEF JoinFails, Return, Goto, TypeOK, Others
<1>6. ASSUME NEW p \in Nodes, SetupFails(p), NEW q \in Nodes PROVE JoinedOf(q)'
  BY <1>0, <1>6 DEF SetupFails, Return, Goto, TypeOK, Others
<1>7. ASSUME NEW p \in Nodes, StartParty(p), NEW q \in Nodes PROVE JoinedOf(q)'
  BY <1>0, <1>7 DEF StartParty, TypeOK, Others
<1>8. ASSUME NEW p \in Nodes, NEW from, EndWithError(p, from), NEW q \in Nodes PROVE JoinedOf(q)'
  BY <1>0, <1>8 DEF EndWithError, Return, Goto, TypeOK, Others
<1>9. ASSUME NEW p \in Nodes, WaitGroup(p), NEW q \in Nodes PROVE JoinedOf(q)'
  BY <1>0, <1>9 DEF WaitGroup, Return, Goto, TypeOK, Others
<1>10. ASSUME NEW p \in Nodes, NEW i \in Items, TakeEndCh(p, i), NEW q \in Nodes PROVE JoinedOf(q)'
  <2>1. \E to \in {"process", "save", "linger"} : stage[p] = "process" /\ stage' = [stage EXCEPT ![p] = to]
    BY <1>10 DEF TakeEndCh, Goto
  <2>2. UNCHANGED <<party, subscribed, result, blamed, online>>
    BY <1>10 DEF TakeEndCh
  <2> QED
    BY <1>0, <2>1, <2>2 DEF TypeOK, Others
<1>11. ASSUME NEW p \in Nodes, BeginWrite(p) \/ EndWrite(p) \/ Linger(p), NEW q \in Nodes PROVE JoinedOf(q)'
  <2>1. \E to \in {"write", "linger", "wait"} : /\ stage[p] \in {"save", "write", "linger"}
                                                /\ stage' = [stage EXCEPT ![p] = to]
    BY <1>11 DEF BeginWrite, EndWrite, Linger, Goto
  <2>2. UNCHANGED <<party, subscribed, result, blamed, online>>
    BY <1>11 DEF BeginWrite, EndWrite, Linger
  <2> QED
    BY <1>0, <2>1, <2>2 DEF TypeOK, Others
<1>12. ASSUME NEW p \in Nodes, Crash(p), NEW q \in Nodes PROVE JoinedOf(q)'
  BY <1>0, <1>12 DEF Crash, TypeOK, Others
<1>13. ASSUME NEW m \in net, HandleStream(m), NEW q \in Nodes PROVE JoinedOf(q)'
  <2>1. online[q] \subseteq online'[q]
    BY <1>13 DEF HandleStream, UpdatePeer, TypeOK
  <2> QED
    BY <1>2, <1>13, <2>1 DEF HandleStream
<1>14. CASE UNCHANGED <<party, stage, subscribed, result, blamed, online>>
  BY <1>2, <1>14
<1>15. \/ \E p \in Nodes : \/ StartCall(p) \/ JoinSucceeds(p) \/ JoinFails(p) \/ SetupFails(p)
                          \/ StartParty(p) \/ (\E from : EndWithError(p, from)) \/ WaitGroup(p)
                          \/ (\E i \in Items : TakeEndCh(p, i))
                          \/ BeginWrite(p) \/ EndWrite(p) \/ Linger(p) \/ Crash(p)
       \/ \E m \in net : HandleStream(m)
       \/ UNCHANGED <<party, stage, subscribed, result, blamed, online>>
  BY DEF Next, CallStep, SendRequestToAll, SendNewFound, InboundEnds, RepeatTaskDone, ProcessShare,
     ProcessTaskDone, Drop, ProcessTimeout, ProcessErrors, TakeOutCh, SaveFails
<1> HIDE DEF JoinedOf
<1> QED
  BY <1>3, <1>4, <1>5, <1>6, <1>7, <1>8, <1>9, <1>10, <1>11, <1>12, <1>13, <1>14, <1>15

(***************************************************************************)
(* finishedPeers grows by the sender of a taskDone message, which has      *)
(* finished; the last of the peers closes taskDone, and a sender that is   *)
(* there already does not.                                                 *)
(***************************************************************************)
LEMMA NextReported ==
  ASSUME TypeOK, Announced, Reported, [Next]_vars
  PROVE  Reported'
<1>1. ASSUME UNCHANGED <<finished, taskDone>> PROVE Reported'
  <2>1. \A p \in Nodes : finished[p] \subseteq Nodes
    BY DEF TypeOK
  <2> QED
    BY <1>1, <2>1, NextKeeps DEF Reported, Others
<1>2. ASSUME NEW m \in net, ProcessTaskDone(m) PROVE Reported'
  <2> DEFINE p == m.to
             q == m.from
             set == finished[p] \union {q}
             closed == IF q \notin finished[p] /\ Cardinality(set) = Cardinality(Nodes) - 1
                       THEN taskDone[p] + 1 ELSE taskDone[p]
  <2>1. p \in Nodes /\ q \in Others(p) /\ ended[q] = Items
    BY <1>2 DEF ProcessTaskDone, Announced, TypeOK, Message, Others
  <2>2. finished' = [finished EXCEPT ![p] = set]
    BY <1>2 DEF ProcessTaskDone
  <2>3. taskDone' = [taskDone EXCEPT ![p] = closed]
    BY <1>2, <2>1, <2>2 DEF ProcessTaskDone, TypeOK
  <2>4. ended' = ended /\ Items' = Items
    BY <1>2 DEF ProcessTaskDone, Items
  <2>5. set \subseteq Others(p) /\ \A r \in set : ended[r] = Items
    BY <2>1 DEF Reported
  <2>6. closed # 0 => closed = 1 /\ set = Others(p)
    <3>1. CASE q \in finished[p]
      BY <2>1, <3>1 DEF Reported
    <3>2. CASE q \notin finished[p]
      <4>1. taskDone[p] = 0
        BY <2>1, <3>2 DEF Reported
      <4>2. Cardinality(set) = Cardinality(Nodes) - 1 => set = Others(p)
        BY <2>1, <2>5, AllPeers
      <4> QED
        BY <3>2, <4>1, <4>2
    <3> QED
      BY <3>1, <3>2
  <2> HIDE DEF p, q, set, closed
  <2> QED
    BY <2>1, <2>2, <2>3, <2>4, <2>5, <2>6 DEF Reported, TypeOK, Others
<1>3. (\E m \in net : ProcessTaskDone(m)) \/ UNCHANGED <<finished, taskDone>>
  BY DEF Next, CallStep, StartCall, SendRequestToAll, SendNewFound, InboundEnds, RepeatTaskDone,
     Crash, HandleStream, ProcessShare, Drop, JoinSucceeds, JoinFails, SetupFails,
     StartParty, ProcessTimeout, ProcessErrors, TakeOutCh, TakeEndCh, BeginWrite, EndWrite,
     SaveFails, EndWithError, Linger, WaitGroup
<1> QED
  BY <1>1, <1>2, <1>3

(***************************************************************************)
(* A call answers with success at the end of its way only: through the     *)
(* whole batch and, for a key generation, through SaveLocalState.          *)
(***************************************************************************)
LEMMA NextSaving ==
  ASSUME TypeOK, Saving, SuccessIsSaved, [Next]_vars
  PROVE  Saving' /\ SuccessIsSaved'
<1> DEFINE SavedOf(p) ==
             /\ stage[p] \in {"save", "write", "linger", "wait"} => ended[p] = Items
             /\ stage[p] \in {"linger", "wait"} /\ kind = "keygen" => file[p] = "saved"
             /\ stage[p] \notin {"returned", "crashed"} => result[p] # "success"
             /\ result[p] = "success" => ended[p] = Items /\ (kind = "keygen" => file[p] = "saved")
<1>0. \A p \in Nodes : SavedOf(p)
  BY DEF Saving, SuccessIsSaved
<1>1. SUFFICES \A p \in Nodes : SavedOf(p)'
  BY DEF Saving, SuccessIsSaved
<1>2. kind' = kind /\ Items' = Items
  BY NextKeeps
<1>3. ASSUME NEW p \in Nodes, StartCall(p) \/ JoinSucceeds(p) \/ Crash(p), NEW q \in Nodes PROVE SavedOf(q)'
  <2>1. UNCHANGED <<result, file, ended>>
    BY <1>3 DEF StartCall, JoinSucceeds, Crash
  <2>2. \E to \in {"join", "process", "crashed"} :
          stage' = [stage EXCEPT ![p] = to] /\ (to = "crashed" \/ stage[p] \in {"idle", "join"})
    BY <1>3 DEF StartCall, JoinSucceeds, Crash, Goto
  <2> QED
    BY <1>0, <1>2, <2>1, <2>2 DEF TypeOK
<1>4. ASSUME NEW p \in Nodes, NEW from, NEW res \in {"joinFailed", "error"}, Return(p, from, res),
             UNCHANGED <<file, ended>>, NEW q \in Nodes
      PROVE  SavedOf(q)'
  BY <1>0, <1>2, <1>4 DEF Return, Goto, TypeOK
<1>5. ASSUME NEW p \in Nodes, NEW i \in Items, TakeEndCh(p, i), NEW q \in Nodes PROVE SavedOf(q)'
  <2>1. ended' = [ended EXCEPT ![p] = ended[p] \union {i}] /\ UNCHANGED <<result, file>>
    BY <1>5 DEF TakeEndCh
  <2>2. stage[p] = "process"
    BY <1>5 DEF TakeEndCh, Goto
  <2>3. CASE ended'[p] = Items
    <3>1. stage' = [stage EXCEPT ![p] = IF kind = "keygen" THEN "save" ELSE "linger"]
      BY <1>5, <2>3 DEF TakeEndCh, Goto
    <3> QED
      BY <1>0, <1>2, <2>1, <2>2, <2>3, <3>1 DEF TypeOK
  <2>4. CASE ended'[p] # Items
    <3>1. stage' = [stage EXCEPT ![p] = "process"]
      BY <1>5, <2>4 DEF TakeEndCh, Goto
    <3> QED
      BY <1>0, <1>2, <2>1, <2>2, <2>4, <3>1 DEF TypeOK
  <2> QED
    BY <2>3, <2>4
<1>6. ASSUME NEW p \in Nodes, BeginWrite(p), NEW q \in Nodes PROVE SavedOf(q)'
  BY <1>0, <1>2, <1>6 DEF BeginWrite, Goto, TypeOK
<1>7. ASSUME NEW p \in Nodes, EndWrite(p), NEW q \in Nodes PROVE SavedOf(q)'
  BY <1>0, <1>2, <1>7 DEF EndWrite, Goto, TypeOK
<1>8. ASSUME NEW p \in Nodes, Linger(p), NEW q \in Nodes PROVE SavedOf(q)'
  BY <1>0, <1>2, <1>8 DEF Linger, Goto, TypeOK
<1>9. ASSUME NEW p \in Nodes, WaitGroup(p), NEW q \in Nodes PROVE SavedOf(q)'
  BY <1>0, <1>2, <1>9 DEF WaitGroup, Return, Goto, TypeOK
<1>10. CASE UNCHANGED <<stage, result, file, ended>>
  BY <1>0, <1>2, <1>10
<1>11. ASSUME NEW p \in Nodes, CallStep(p), NEW q \in Nodes PROVE SavedOf(q)'
  <2>1. \/ JoinSucceeds(p) \/ (\E i \in Items : TakeEndCh(p, i))
        \/ BeginWrite(p) \/ EndWrite(p) \/ Linger(p) \/ WaitGroup(p)
        \/ (\E from, res \in {"join", "process", "save", "write", "joinFailed", "error"} :
              res \in {"joinFailed", "error"} /\ Return(p, from, res)) /\ UNCHANGED <<file, ended>>
        \/ UNCHANGED <<stage, result, file, ended>>
    BY <1>11 DEF CallStep, JoinFails, SetupFails, StartParty, ProcessTimeout, ProcessErrors, TakeOutCh,
       SaveFails, EndWithError
  <2> HIDE DEF SavedOf
  <2> QED
    BY <1>3, <1>4, <1>5, <1>6, <1>7, <1>8, <1>9, <1>10, <2>1
<1>12. \/ \E p \in Nodes : StartCall(p) \/ CallStep(p) \/ Crash(p)
       \/ UNCHANGED <<stage, result, file, ended>>
  BY DEF Next, SendRequestToAll, SendNewFound, InboundEnds, RepeatTaskDone, HandleStream,
     ProcessShare, ProcessTaskDone, Drop
<1> HIDE DEF SavedOf
<1> QED
  BY <1>3, <1>10, <1>11, <1>12

(***************************************************************************)
(* A share that is dropped finds a node whose call has ended.              *)
(***************************************************************************)
LEMMA NextEarly ==
  ASSUME TypeOK, Announced, Joined, EarlyShareKept, [Next]_vars
  PROVE  EarlyShareKept'
<1>1. ASSUME NEW m \in net, Drop(m) PROVE EarlyShareKept'
  <2>1. m.to \in Nodes
    BY DEF TypeOK, Message
  <2>2. m.type = "share" => stage[m.to] \in {"returned", "crashed"}
    BY <1>1, <2>1 DEF Drop, Announced, Joined
  <2> QED
    BY <1>1, <2>2 DEF Drop, EarlyShareKept
<1>2. (\E m \in net : Drop(m)) \/ UNCHANGED early
  BY DEF Next, CallStep, StartCall, SendRequestToAll, SendNewFound, InboundEnds, RepeatTaskDone,
     Crash, HandleStream, ProcessShare, ProcessTaskDone, JoinSucceeds, JoinFails, SetupFails,
     StartParty, ProcessTimeout, ProcessErrors, TakeOutCh, TakeEndCh, BeginWrite, EndWrite,
     SaveFails, EndWithError, Linger, WaitGroup
<1> QED
  BY <1>1, <1>2 DEF EarlyShareKept

-----------------------------------------------------------------------------
(***************************************************************************)
(* Before the first call the invariant holds.                              *)
(***************************************************************************)
LEMMA InitIInv == Init => IInv
<1> SUFFICES ASSUME Init PROVE IInv
  OBVIOUS
<1>1. NewFoundCap \in Nat
  BY NodesAssumption, FS_CardinalityType DEF NewFoundCap
<1>2. TypeOK
  BY <1>1 DEF Init, TypeOK, Stages
<1>3. Counting
  BY FS_EmptySet DEF Init, Counting
<1>4. Announced /\ Reported /\ EarlyShareKept
  BY DEF Init, Announced, Reported, EarlyShareKept
<1>5. Joined /\ Saving /\ SuccessIsSaved
  BY NodesAssumption DEF Init, Joined, Saving, SuccessIsSaved
<1> QED
  BY <1>2, <1>3, <1>4, <1>5 DEF IInv

(***************************************************************************)
(* The invariant of the ceremony, which is inductive.                      *)
(***************************************************************************)
THEOREM Invariance == Spec => []IInv
<1>1. IInv /\ [Next]_vars => IInv'
  BY NextCounting, NextNet, NextType, NextJoined, NextReported, NextSaving, NextEarly DEF IInv
<1> QED
  BY <1>1, InitIInv, PTL DEF Spec

(***************************************************************************)
(* Every state of a ceremony is of its type: in particular newFound never  *)
(* holds more values than JoinPartyWithRetry gave it room for.             *)
(***************************************************************************)
THEOREM TypeCorrect == Spec => []TypeOK
<1>1. IInv => TypeOK
  BY DEF IInv
<1> QED
  BY <1>1, Invariance, PTL

(***************************************************************************)
(* For any number of nodes, a handler that updatePeer lets send to         *)
(* newFound finds room there, although nobody reads the channel.           *)
(***************************************************************************)
THEOREM NewFoundNeverBlocksCorrect == Spec => []NewFoundNeverBlocks
<1>1. ASSUME IInv PROVE NewFoundNeverBlocks
  <2>1. SUFFICES ASSUME NEW p \in Nodes, pushing[p] > 0 PROVE newFound[p] < NewFoundCap
    BY DEF NewFoundNeverBlocks
  <2>2. online[p] \subseteq Nodes /\ newFound[p] + pushing[p] = Cardinality(online[p])
    BY <1>1 DEF IInv, Counting, Others
  <2>3. Cardinality(online[p]) <= NewFoundCap /\ NewFoundCap \in Nat
    BY <2>2, NodeSets DEF NewFoundCap
  <2>4. newFound[p] \in 0..NewFoundCap /\ pushing[p] \in 0..NewFoundCap
    BY <1>1 DEF IInv, TypeOK
  <2> QED
    BY <2>1, <2>2, <2>3, <2>4
<1> QED
  BY <1>1, Invariance, PTL

(***************************************************************************)
(* JoinPartyWithRetry lets a call go on only when every other node has     *)
(* made its call, and a failed join blames another node, not this one.     *)
(***************************************************************************)
THEOREM JoinOutcomeCorrect == Spec => []JoinOutcome
<1>1. IInv => JoinOutcome
  BY DEF IInv, Joined, Announced, JoinOutcome
<1> QED
  BY <1>1, Invariance, PTL

(***************************************************************************)
(* No share is dropped by the getSubscriber of a node whose call has not   *)
(* ended, however far the sender is ahead of it.                           *)
(***************************************************************************)
THEOREM EarlyShareKeptCorrect == Spec => []EarlyShareKept
<1>1. IInv => EarlyShareKept
  BY DEF IInv
<1> QED
  BY <1>1, Invariance, PTL

(***************************************************************************)
(* ProcessOneMessage closes taskDone at most once, and only when all peers *)
(* have finished the whole batch, although a peer may report its end       *)
(* twice.                                                                  *)
(***************************************************************************)
THEOREM TaskDoneSoundCorrect == Spec => []TaskDoneSound
<1>1. IInv => TaskDoneSound
  BY DEF IInv, TypeOK, Reported, TaskDoneSound
<1> QED
  BY <1>1, Invariance, PTL

(***************************************************************************)
(* Keygen answers with success only when SaveLocalState has written the    *)
(* whole file, and no later step or crash damages it.                      *)
(***************************************************************************)
THEOREM SuccessIsSavedCorrect == Spec => []SuccessIsSaved
<1>1. IInv => SuccessIsSaved
  BY DEF IInv
<1> QED
  BY <1>1, Invariance, PTL
=============================================================================
