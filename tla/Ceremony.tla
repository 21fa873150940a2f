------------------------------ MODULE Ceremony ------------------------------
(***************************************************************************)
(* A key generation or key sign over all of its nodes, with the leaderless *)
(* join of protocol versions before NEWJOINPARTYVERSION (tss/keygen.go,    *)
(* tss/tss.go, keygen/tss_keygen.go, keysign/tss_keysign.go,               *)
(* storage/localstate_mgr.go; JoinPartyWithRetry and HandleStream of       *)
(* p2p/party_coordinator.go): subscribe, join, run tss-lib, tell the peers *)
(* that the task is done, save the key share, wait for the peers' news and *)
(* return.                                                                 *)
(*                                                                         *)
(* Every node makes one call: tssKeyGenLocker keeps the calls of a node    *)
(* apart, and KeySign has sessions that overlap.  The local parties of     *)
(* tss-lib are external: one for each item of the batch, which emits one   *)
(* message and has finished when it got one from every other node; how a   *)
(* message gets there is TssCommon's matter.  A message for a node is      *)
(* dropped when the node is not subscribed, and otherwise waits, in the    *)
(* node's channel or in a handler that sends to it, for the node's         *)
(* ProcessInboundMessages.                                                 *)
(***************************************************************************)
EXTENDS Naturals, FiniteSets

CONSTANTS Nodes,      \* the participants
          Batch,      \* Batch[kind]: the items of the batch; one for a key generation
          CrashNodes, \* the nodes that may crash
          None        \* no value

ASSUME NodesAssumption == /\ IsFiniteSet(Nodes) /\ CrashNodes \subseteq Nodes
                          /\ None \notin Nodes \union {"joinFailed", "error", "success"}
ASSUME BatchAssumption == DOMAIN Batch \subseteq {"keygen", "keysign"}

VARIABLES
  kind,       \* "keygen" or "keysign"
  stage,      \* node -> where its call is
  result,     \* node -> what the call answers
  subscribed, \* node -> its message ID is subscribed
  grouped,    \* node -> peersGroup has an entry for the message ID
  online,     \* node -> the peers that its PeerStatus marks as online
  pushing,    \* node -> number of handlers about to send to newFound
  newFound,   \* node -> number of values in newFound
  blamed,     \* node -> the nodes it blames for the failed join
  party,      \* node -> its local parties: "none", "starting", "running", "failed"
  outCh,      \* node -> items whose message waits in outCh
  sent,       \* node -> items whose message it broadcast
  heard,      \* node -> the pairs of a node and an item that its parties were given
  ended,      \* node -> items taken from endCh
  finished,   \* node -> finishedPeers
  taskDone,   \* node -> how often taskDone was closed
  inbound,    \* node -> ProcessInboundMessages: "off", "running", "ended"
  commStop,   \* node -> commStopChan is closed
  file,       \* node -> the file of the key share: "absent", "torn", "saved"
  net,        \* messages under way
  repeated,   \* nodes whose end was reported a second time (history)
  early       \* nodes that missed a share before their call ended (history)

joinVars  == <<grouped, online, pushing, newFound, blamed>>
partyVars == <<party, outCh, sent, heard, ended>>
doneVars  == <<finished, taskDone, inbound, commStop>>
netVars   == <<net, repeated, early>>
vars == <<kind, stage, result, subscribed, joinVars, partyVars, doneVars, file, netVars>>

Others(p) == Nodes \ {p}
Items == Batch[kind]

Message == [type : {"request", "done"}, from : Nodes, to : Nodes]
             \union [type : {"share"}, from : Nodes, to : Nodes, item : UNION {Batch[k] : k \in DOMAIN Batch}]

ToOthers(type, p) == {[type |-> type, from |-> p, to |-> q] : q \in Others(p)}

Stages == {"idle", "join", "process", "save", "write", "linger", "wait", "returned", "crashed"}

Init ==
  /\ kind \in DOMAIN Batch
  /\ stage = [p \in Nodes |-> "idle"]
  /\ result = [p \in Nodes |-> None]
  /\ subscribed = [p \in Nodes |-> FALSE]
  /\ grouped = [p \in Nodes |-> FALSE]
  /\ online = [p \in Nodes |-> {}]
  /\ pushing = [p \in Nodes |-> 0]
  /\ newFound = [p \in Nodes |-> 0]
  /\ blamed = [p \in Nodes |-> {}]
  /\ party = [p \in Nodes |-> "none"]
  /\ outCh = [p \in Nodes |-> {}]
  /\ sent = [p \in Nodes |-> {}]
  /\ heard = [p \in Nodes |-> {}]
  /\ ended = [p \in Nodes |-> {}]
  /\ finished = [p \in Nodes |-> {}]
  /\ taskDone = [p \in Nodes |-> 0]
  /\ inbound = [p \in Nodes |-> "off"]
  /\ commStop = [p \in Nodes |-> FALSE]
  /\ file = [p \in Nodes |-> "absent"]
  /\ net = {}
  /\ repeated = {}
  /\ early = {}

Goto(p, from, to) == stage[p] = from /\ stage' = [stage EXCEPT ![p] = to]

-----------------------------------------------------------------------------
(***************************************************************************)
(* Keygen and KeySign subscribe to the message ID and call joinParty, that *)
(* is JoinPartyWithRetry, which creates the group.  Its list of offline    *)
(* peers is read once, so every peer is asked again every second, and its  *)
(* wait ends with the timeout only: it listens to notify, which the        *)
(* handler below never writes.                                             *)
(***************************************************************************)
\* The subscription is forgotten.
MutStartCall(p) ==
  /\ Goto(p, "idle", "join")
  /\ grouped' = [grouped EXCEPT ![p] = TRUE]
  /\ UNCHANGED <<kind, result, subscribed, online, pushing, newFound, blamed, partyVars, doneVars,
                 file, netVars>>

StartCall(p) ==
  /\ Goto(p, "idle", "join")
  /\ subscribed' = [subscribed EXCEPT ![p] = TRUE]
  /\ grouped' = [grouped EXCEPT ![p] = TRUE]
  /\ UNCHANGED <<kind, result, online, pushing, newFound, blamed, partyVars, doneVars, file,
                 netVars>>

SendRequestToAll(p) ==
  /\ stage[p] = "join"
  /\ \E q \in Others(p) : net' = net \union {[type |-> "request", from |-> p, to |-> q]}
  /\ UNCHANGED <<kind, stage, result, subscribed, joinVars, partyVars, doneVars, file, repeated,
                 early>>

\* Every request of a peer is new.
MutUpdatePeer(p, q) ==
  /\ online' = [online EXCEPT ![p] = @ \union {q}]
  /\ pushing' = [pushing EXCEPT ![p] = @ + 1]

\* updatePeer of a group without a leader.
UpdatePeer(p, q) ==
  /\ online' = [online EXCEPT ![p] = @ \union {q}]
  /\ pushing' = [pushing EXCEPT ![p] = IF q \in online[p] THEN @ ELSE @ + 1]

\* HandleStream: the request of a peer, ignored when there is no group.
HandleStream(m) ==
  /\ m.type = "request" /\ stage[m.to] # "crashed"
  /\ net' = net \ {m}
  /\ IF grouped[m.to] THEN UpdatePeer(m.to, m.from) ELSE UNCHANGED <<online, pushing>>
  /\ UNCHANGED <<kind, stage, result, subscribed, grouped, newFound, blamed, partyVars,
                 doneVars, file, repeated, early>>

NewFoundCap == Cardinality(Nodes)

SendNewFound(p) ==
  /\ pushing[p] > 0 /\ newFound[p] < NewFoundCap
  /\ pushing' = [pushing EXCEPT ![p] = @ - 1]
  /\ newFound' = [newFound EXCEPT ![p] = @ + 1]
  /\ UNCHANGED <<kind, stage, result, subscribed, grouped, online, blamed, partyVars,
                 doneVars, file, netVars>>

\* The node itself is not counted.
MutAllOnline(p) == Cardinality(online[p]) = Cardinality(Nodes)

\* "we always set ourselves as online"
AllOnline(p) == Cardinality(online[p] \union {p}) = Cardinality(Nodes)

\* After the timeout the online peers are asked a last time; the group is removed.
JoinTimeout(p) ==
  /\ net' = net \union {[type |-> "request", from |-> p, to |-> q] : q \in online[p]}
  /\ grouped' = [grouped EXCEPT ![p] = FALSE]

(***************************************************************************)
(* When all are online GenerateNewKey or SignMessage starts two            *)
(* goroutines, the start of the local parties and ProcessInboundMessages,  *)
(* and runs the loop of processKeyGen or processKeySign.                   *)
(***************************************************************************)
JoinSucceeds(p) ==
  /\ AllOnline(p)
  /\ Goto(p, "join", "process")
  /\ JoinTimeout(p)
  /\ party' = [party EXCEPT ![p] = "starting"]
  /\ inbound' = [inbound EXCEPT ![p] = "running"]
  /\ UNCHANGED <<kind, result, subscribed, online, pushing, newFound, blamed, outCh, sent, heard,
                 ended, finished, taskDone, commStop, file, repeated, early>>

\* The call ends with result res, and its subscription with it.
Return(p, from, res) ==
  /\ Goto(p, from, "returned")
  /\ result' = [result EXCEPT ![p] = res]
  /\ subscribed' = [subscribed EXCEPT ![p] = FALSE]

\* NodeSyncBlame names the nodes that are not online.
JoinFails(p) ==
  /\ ~AllOnline(p)
  /\ JoinTimeout(p)
  /\ Return(p, "join", "joinFailed")
  /\ blamed' = [blamed EXCEPT ![p] = Nodes \ (online[p] \union {p})]
  /\ UNCHANGED <<kind, online, pushing, newFound, partyVars, doneVars, file, repeated, early>>

\* The parties cannot be set up: nothing is started.  (A key generation whose identifiers cannot be
\* mapped returns no key and no error, which Keygen then reports as a failure too.)
SetupFails(p) ==
  /\ AllOnline(p)
  /\ JoinTimeout(p)
  /\ Return(p, "join", "error")
  /\ UNCHANGED <<kind, online, pushing, newFound, blamed, partyVars, doneVars, file, repeated,
                 early>>

-----------------------------------------------------------------------------
StartParty(p) ==
  /\ party[p] = "starting" /\ stage[p] # "crashed"
  /\ \/ /\ party' = [party EXCEPT ![p] = "running"]
        /\ outCh' = [outCh EXCEPT ![p] = Items]
     \/ /\ party' = [party EXCEPT ![p] = "failed"]
        /\ UNCHANGED outCh
  /\ UNCHANGED <<kind, stage, result, subscribed, joinVars, sent, heard, ended, doneVars, file,
                 netVars>>

\* An error closes commStopChan and returns without waiting for the goroutines.
EndWithError(p, from) ==
  /\ Return(p, from, "error")
  /\ commStop' = [commStop EXCEPT ![p] = TRUE]
  /\ UNCHANGED <<kind, joinVars, partyVars, finished, taskDone, inbound, file, netVars>>

\* The timer does not fire once a message was sent.
MutProcessTimeout(p) == sent[p] = {} /\ EndWithError(p, "process")

\* No message for the time of the timeout; the blame is BlameTimeout's matter.
ProcessTimeout(p) == EndWithError(p, "process")

\* errChan is closed, or ProcessOutCh fails.
ProcessErrors(p) ==
  /\ party[p] = "failed" \/ outCh[p] # {}
  /\ EndWithError(p, "process")

TakeOutCh(p) ==
  /\ stage[p] = "process"
  /\ \E i \in outCh[p] :
       /\ outCh' = [outCh EXCEPT ![p] = @ \ {i}]
       /\ sent' = [sent EXCEPT ![p] = @ \union {i}]
       /\ net' = net \union
            {[type |-> "share", from |-> p, to |-> q, item |-> i] : q \in Others(p)}
  /\ UNCHANGED <<kind, stage, result, subscribed, joinVars, party, heard, ended, doneVars, file,
                 repeated, early>>

\* An external fact: the local party of item i is in endCh.
Ends(p, i) ==
  /\ party[p] = "running"
  /\ \A q \in Others(p) : <<q, i>> \in heard[p]
  /\ i \in sent[p]

\* The news goes out with the first signature of the batch.
MutTakeEndCh(p, i) ==
  /\ Ends(p, i) /\ i \notin ended[p]
  /\ ended' = [ended EXCEPT ![p] = @ \union {i}]
  /\ Goto(p, "process", IF ended'[p] # Items THEN "process"
                        ELSE IF kind = "keygen" THEN "save" ELSE "linger")
  /\ net' = net \union ToOthers("done", p)
  /\ UNCHANGED <<kind, result, subscribed, joinVars, party, outCh, sent, heard, doneVars, file,
                 repeated, early>>

\* The last item of the batch: NotifyTaskDone goes first.  An error of SaveAddressBook is
\* only logged, so that it shows no effect.
TakeEndCh(p, i) ==
  /\ Ends(p, i) /\ i \notin ended[p]
  /\ ended' = [ended EXCEPT ![p] = @ \union {i}]
  /\ IF ended'[p] = Items
     THEN /\ Goto(p, "process", IF kind = "keygen" THEN "save" ELSE "linger")
          /\ net' = net \union ToOthers("done", p)
     ELSE /\ Goto(p, "process", "process")
          /\ UNCHANGED net
  /\ UNCHANGED <<kind, result, subscribed, joinVars, party, outCh, sent, heard, doneVars, file,
                 repeated, early>>

(***************************************************************************)
(* SaveLocalState writes the file in place: a crash or an error while it   *)
(* writes leaves a torn file.  An error ends the key generation, although  *)
(* the peers were told that it is done.                                    *)
(***************************************************************************)
BeginWrite(p) ==
  /\ Goto(p, "save", "write")
  /\ file' = [file EXCEPT ![p] = "torn"]
  /\ UNCHANGED <<kind, result, subscribed, joinVars, partyVars, doneVars, netVars>>

EndWrite(p) ==
  /\ Goto(p, "write", "linger")
  /\ file' = [file EXCEPT ![p] = "saved"]
  /\ UNCHANGED <<kind, result, subscribed, joinVars, partyVars, doneVars, netVars>>

\* A failed save is only logged.
MutSaveFails(p) ==
  /\ Goto(p, "save", "linger") \/ Goto(p, "write", "linger")
  /\ UNCHANGED <<kind, result, subscribed, joinVars, partyVars, doneVars, file, netVars>>

SaveFails(p) == EndWithError(p, "save") \/ EndWithError(p, "write")

\* taskDone or five seconds; then commStopChan is closed.
Linger(p) ==
  /\ Goto(p, "linger", "wait")
  /\ commStop' = [commStop EXCEPT ![p] = TRUE]
  /\ UNCHANGED <<kind, result, subscribed, joinVars, partyVars, finished, taskDone, inbound, file,
                 netVars>>

WaitGroup(p) ==
  /\ inbound[p] = "ended" /\ party[p] # "starting"
  /\ Return(p, "wait", "success")
  /\ UNCHANGED <<kind, joinVars, partyVars, doneVars, file, netVars>>

-----------------------------------------------------------------------------
(***************************************************************************)
(* ProcessInboundMessages and ProcessOneMessage.                           *)
(***************************************************************************)
InboundEnds(p) ==
  /\ inbound[p] = "running" /\ commStop[p] /\ stage[p] # "crashed"
  /\ inbound' = [inbound EXCEPT ![p] = "ended"]
  /\ UNCHANGED <<kind, stage, result, subscribed, joinVars, partyVars, finished, taskDone,
                 commStop, file, netVars>>

Receives(p) == inbound[p] = "running" /\ stage[p] # "crashed"

ProcessShare(m) ==
  /\ m.type = "share" /\ Receives(m.to)
  /\ net' = net \ {m}
  /\ heard' = [heard EXCEPT ![m.to] = @ \union {<<m.from, m.item>>}]
  /\ UNCHANGED <<kind, stage, result, subscribed, joinVars, party, outCh, sent, ended, doneVars,
                 file, repeated, early>>

ProcessTaskDone(m) ==
  LET p == m.to IN
  /\ m.type = "done" /\ Receives(p)
  /\ net' = net \ {m}
  /\ finished' = [finished EXCEPT ![p] = @ \union {m.from}]
  /\ taskDone' = [taskDone EXCEPT ![p] =
       IF m.from \notin finished[p] /\ Cardinality(finished'[p]) = Cardinality(Nodes) - 1
       THEN @ + 1 ELSE @]
  /\ UNCHANGED <<kind, stage, result, subscribed, joinVars, partyVars, inbound, commStop, file,
                 repeated, early>>

(***************************************************************************)
(* A node that is not subscribed drops what it gets.  A message that is    *)
(* lost is one that stays in net.                                          *)
(***************************************************************************)
Drop(m) ==
  /\ m.type # "request" /\ ~subscribed[m.to]
  /\ net' = net \ {m}
  /\ early' = IF m.type = "share" /\ stage[m.to] \notin {"returned", "crashed"}
              THEN early \union {m.to} ELSE early
  /\ UNCHANGED <<kind, stage, result, subscribed, joinVars, partyVars, doneVars, file, repeated>>

\* A later call of a node for the same message ID reports its end once more.
RepeatTaskDone(p) ==
  /\ stage[p] = "returned" /\ ended[p] = Items /\ p \notin repeated
  /\ net' = net \union ToOthers("done", p)
  /\ repeated' = repeated \union {p}
  /\ UNCHANGED <<kind, stage, result, subscribed, joinVars, partyVars, doneVars, file, early>>

Crash(p) ==
  /\ p \in CrashNodes /\ stage[p] # "crashed"
  /\ stage' = [stage EXCEPT ![p] = "crashed"]
  /\ subscribed' = [subscribed EXCEPT ![p] = FALSE]
  /\ grouped' = [grouped EXCEPT ![p] = FALSE]
  /\ UNCHANGED <<kind, result, online, pushing, newFound, blamed, partyVars, doneVars,
                 file, netVars>>

-----------------------------------------------------------------------------
CallStep(p) ==
  \/ JoinSucceeds(p) \/ JoinFails(p) \/ SetupFails(p) \/ StartParty(p)
  \/ ProcessTimeout(p) \/ ProcessErrors(p) \/ TakeOutCh(p)
  \/ \E i \in Items : TakeEndCh(p, i)
  \/ BeginWrite(p) \/ EndWrite(p) \/ SaveFails(p) \/ Linger(p) \/ WaitGroup(p)

Next ==
  \/ \E p \in Nodes : \/ StartCall(p) \/ SendRequestToAll(p) \/ SendNewFound(p) \/ CallStep(p)
                      \/ InboundEnds(p) \/ RepeatTaskDone(p) \/ Crash(p)
  \/ \E m \in net : HandleStream(m) \/ ProcessShare(m) \/ ProcessTaskDone(m) \/ Drop(m)

Spec == Init /\ [][Next]_vars

(***************************************************************************)
(* The scheduler runs a call and its ProcessInboundMessages, and timers    *)
(* fire.  Nothing is assumed of the network and of the callers.            *)
(***************************************************************************)
FairSpec == Spec /\ \A p \in Nodes : WF_vars(CallStep(p)) /\ WF_vars(InboundEnds(p))

-----------------------------------------------------------------------------
(***************************************************************************)
(* The type invariant of the ceremony.                                     *)
(***************************************************************************)
TypeOK ==
  /\ kind \in DOMAIN Batch
  /\ stage \in [Nodes -> Stages]
  /\ result \in [Nodes -> {None, "joinFailed", "error", "success"}]
  /\ subscribed \in [Nodes -> BOOLEAN] /\ grouped \in [Nodes -> BOOLEAN]
  /\ online \in [Nodes -> SUBSET Nodes]
  /\ pushing \in [Nodes -> 0..NewFoundCap] /\ newFound \in [Nodes -> 0..NewFoundCap]
  /\ blamed \in [Nodes -> SUBSET Nodes]
  /\ party \in [Nodes -> {"none", "starting", "running", "failed"}]
  /\ outCh \in [Nodes -> SUBSET Items] /\ sent \in [Nodes -> SUBSET Items]
  /\ heard \in [Nodes -> SUBSET (Nodes \X Items)]
  /\ ended \in [Nodes -> SUBSET Items]
  /\ finished \in [Nodes -> SUBSET Nodes] /\ taskDone \in [Nodes -> Nat]
  /\ inbound \in [Nodes -> {"off", "running", "ended"}] /\ commStop \in [Nodes -> BOOLEAN]
  /\ file \in [Nodes -> {"absent", "torn", "saved"}]
  /\ net \subseteq Message
  /\ repeated \subseteq Nodes /\ early \subseteq Nodes

(***************************************************************************)
(* A handler of HandleStream never blocks on newFound, which nobody ever   *)
(* reads: it has room for every peer.                                      *)
(***************************************************************************)
NewFoundNeverBlocks == \A p \in Nodes : pushing[p] > 0 => newFound[p] < NewFoundCap

(***************************************************************************)
(* A node whose join succeeds has heard of every other node that it is in  *)
(* the party, and a failed join blames some other node.                    *)
(***************************************************************************)
JoinOutcome ==
  \A p \in Nodes :
    /\ party[p] # "none" => \A q \in Others(p) : stage[q] # "idle"
    /\ result[p] = "joinFailed" => blamed[p] # {} /\ p \notin blamed[p]

(***************************************************************************)
(* A node that goes ahead of the others sends its share only to nodes that *)
(* are subscribed: no share is dropped at a node that may still need it.   *)
(***************************************************************************)
EarlyShareKept == early = {}

(***************************************************************************)
(* ProcessOneMessage closes taskDone, and so the node stops to answer the  *)
(* peers' requests, only when every other node finished the whole batch,   *)
(* and once, although a peer may report its end twice: a second close      *)
(* would panic.                                                            *)
(***************************************************************************)
TaskDoneSound ==
  \A p \in Nodes :
    taskDone[p] > 0 => taskDone[p] = 1 /\ \A q \in Others(p) : ended[q] = Items

(***************************************************************************)
(* A key generation answers with success only when the node's share is in  *)
(* its file, complete, and it stays there, whatever crashes afterwards.    *)
(***************************************************************************)
SuccessIsSaved ==
  \A p \in Nodes : result[p] = "success" =>
    ended[p] = Items /\ (kind = "keygen" => file[p] = "saved")

(***************************************************************************)
(* Every call returns, whatever the peers do.                              *)
(***************************************************************************)
CallReturns ==
  []<>(\A p \in Nodes : stage[p] \in {"idle", "returned", "crashed"})
=============================================================================
