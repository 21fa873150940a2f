-------------------------- MODULE PartyCoordinator --------------------------
(***************************************************************************)
(* Forming a signing party with a leader (p2p/party_coordinator.go,        *)
(* p2p/peer_status.go, p2p/leader_provider.go), for ONE message ID.        *)
(*                                                                         *)
(* A call is one run of JoinPartyWithLeader.  It owns one PeerStatus       *)
(* object, so the fields of that object are functions of the call.  A peer *)
(* may call again with the same message ID (a retried key sign hashes to   *)
(* the same ID), also while its earlier call is still running: the new     *)
(* PeerStatus replaces the old one in peersGroup, while the handlers that  *)
(* looked the old one up keep their pointer to it.                         *)
(*                                                                         *)
(* Every stream is served by a goroutine of its own, so messages arrive in *)
(* any order, and each of the handler's locked regions and channel sends   *)
(* is a step.  A message is lost when the stream cannot be opened or       *)
(* written.  The acknowledgement "done" that the leader reads back is not  *)
(* modelled: the leader ignores what it reads and the read is bounded by a *)
(* deadline.                                                               *)
(***************************************************************************)
EXTENDS Naturals, FiniteSets

CONSTANTS Peers,        \* the participants of the key
          Calls,        \* the calls of JoinPartyWithLeader, over all the peers
          Caller,       \* the peer that makes each call
          Heights,      \* the block heights that the peers may pass
          Hash,         \* Hash[h][p]: rank of sha256(msgID, height, peer)
          Threshold,    \* conversion.GetThreshold of the number of peers, or
                        \* the number of peers minus one for a key generation
          Signing,      \* the calls of a key sign: a value may come through sigChan
          CrashPeers,   \* the peers that may crash
          MaxInFlight,  \* bound: requests in flight between two peers
          None          \* no value

ASSUME PeersAssumption == IsFiniteSet(Peers) /\ None \notin Peers /\ None # "success"
ASSUME CallsAssumption == Caller \in [Calls -> Peers] /\ None \notin Calls
ASSUME HashAssumption == Hash \in [Heights -> [Peers -> Nat]]
ASSUME ThresholdAssumption == /\ Threshold \in Nat
                              /\ Threshold >= 1
                              /\ Threshold < Cardinality(Peers)
                              /\ 2 * (Threshold + 1) > Cardinality(Peers)
ASSUME BoundsAssumption == /\ Signing \subseteq Calls
                           /\ CrashPeers \subseteq Peers
                           /\ MaxInFlight \in Nat \ {0}

VARIABLES
  peersGroup,     \* peer -> the call whose PeerStatus is registered, or None
  stage,          \* call -> where JoinPartyWithLeader is
  leader,         \* call -> PeerStatus.leader
  peersResponse,  \* call -> the peers that PeerStatus marks as online
  reqCount,       \* call -> PeerStatus.reqCount
  notify,         \* call -> number of values buffered in PeerStatus.notify
  leaderResponse, \* call -> PeerStatus.leaderResponse, or None
  sigChan,        \* call -> "signature received" in the key sign's sigChan
  party,          \* call -> the list of peers that the call computed or read
  result,         \* call -> what the call returned
  requests,       \* <<from, to>> -> number of requests in flight
  responses,      \* the leaders' answers in flight
  reqHandlers,    \* the running goroutines of processReqMsg
  respHandlers    \* the running goroutines of processRespMsg

groupVars == <<peersResponse, reqCount, notify, leaderResponse>>
callVars  == <<stage, leader, sigChan, party, result>>
netVars   == <<requests, responses, reqHandlers, respHandlers>>
vars      == <<peersGroup, groupVars, callVars, netVars>>

Stages  == {"idle", "wait", "woken", "readType", "respond", "done", "crashed"}
Results == {None, "success", "joinPartyTimeout", "leaderNotReady",
            "signReceived", "notEnoughPeer"}

(***************************************************************************)
(* A JoinPartyLeaderComm answer.  Its field "by" is the call that sent it: *)
(* the stream gives the receiver Caller[by]; the call itself is history.   *)
(***************************************************************************)
LeaderComm == [by : Calls, ok : BOOLEAN, ids : SUBSET Peers]

ReqHandler  == [on : Calls, from : Peers, pc : {"update", "notify"}]
RespHandler == [on : Calls, msg : LeaderComm, pc : {"set", "notify"}]

(***************************************************************************)
(* The peer whose hash sorts first for this height leads.                  *)
(***************************************************************************)
LeaderNode(h, l) == \A q \in Peers : Hash[h][l] <= Hash[h][q]

IsLeader(c) == leader[c] = Caller[c]

(***************************************************************************)
(* The keys of PeerStatus.peersResponse: a member's group holds the leader *)
(* only, the leader's holds everybody else.  Both channels of a PeerStatus *)
(* have one slot for each peer of the list it was created with.            *)
(***************************************************************************)
Known(c) == IF IsLeader(c) THEN Peers \ {Caller[c]} ELSE {leader[c]}

NotifyCap(c) == IF IsLeader(c) THEN Cardinality(Peers) ELSE 1

Running(c) == stage[c] \notin {"idle", "done", "crashed"}

-----------------------------------------------------------------------------
Init ==
  /\ peersGroup = [p \in Peers |-> None]
  /\ stage = [c \in Calls |-> "idle"]
  /\ leader = [c \in Calls |-> None]
  /\ peersResponse = [c \in Calls |-> {}]
  /\ reqCount = [c \in Calls |-> 0]
  /\ notify = [c \in Calls |-> 0]
  /\ leaderResponse = [c \in Calls |-> None]
  /\ sigChan = [c \in Calls |-> "empty"]
  /\ party = [c \in Calls |-> {}]
  /\ result = [c \in Calls |-> None]
  /\ requests = [pq \in Peers \X Peers |-> 0]
  /\ responses = {}
  /\ reqHandlers = {}
  /\ respHandlers = {}

(***************************************************************************)
(* JoinPartyWithLeader up to the select: choose the leader, create and     *)
(* register a fresh PeerStatus; a member starts its request loop.          *)
(***************************************************************************)
JoinPartyWithLeader(c) ==
  /\ stage[c] = "idle"
  /\ \E h \in Heights, l \in Peers :
       /\ LeaderNode(h, l)
       /\ leader' = [leader EXCEPT ![c] = l]
  /\ peersGroup' = [peersGroup EXCEPT ![Caller[c]] = c]
  /\ stage' = [stage EXCEPT ![c] = "wait"]
  /\ UNCHANGED <<groupVars, sigChan, party, result, netVars>>

(***************************************************************************)
(* One round of the member's request loop, which ends when the waiting     *)
(* goroutine closes done.  A send that fails changes nothing, and one that *)
(* is still under way when done is closed is a request that is in flight   *)
(* for longer.                                                             *)
(***************************************************************************)
SendRequestToLeader(c) ==
  /\ stage[c] = "wait" /\ ~IsLeader(c)
  /\ requests[<<Caller[c], leader[c]>>] < MaxInFlight
  /\ requests' = [requests EXCEPT ![<<Caller[c], leader[c]>>] = @ + 1]
  /\ UNCHANGED <<peersGroup, groupVars, callVars, responses, reqHandlers, respHandlers>>

(***************************************************************************)
(* The three ways out of the select.  The leader keeps waiting, with a new *)
(* timer, after it took a value from sigChan.                              *)
(***************************************************************************)
WakeOnNotify(c) ==
  /\ stage[c] = "wait"
  /\ notify[c] > 0
  /\ notify' = [notify EXCEPT ![c] = @ - 1]
  /\ stage' = [stage EXCEPT ![c] = "woken"]
  /\ UNCHANGED <<peersGroup, peersResponse, reqCount, leaderResponse, leader, sigChan, party, result, netVars>>

\* Only the leader has a timer.
MutWakeOnTimeout(c) ==
  /\ stage[c] = "wait" /\ IsLeader(c)
  /\ stage' = [stage EXCEPT ![c] = "woken"]
  /\ UNCHANGED <<peersGroup, groupVars, leader, sigChan, party, result,
                 netVars>>

WakeOnTimeout(c) ==
  /\ stage[c] = "wait"
  /\ stage' = [stage EXCEPT ![c] = "woken"]
  /\ UNCHANGED <<peersGroup, groupVars, leader, sigChan, party, result,
                 netVars>>

WakeOnSignature(c) ==
  /\ stage[c] = "wait"
  /\ sigChan[c] = "full"
  /\ sigChan' = [sigChan EXCEPT ![c] = "taken"]
  /\ stage' = [stage EXCEPT ![c] = IF IsLeader(c) THEN "wait" ELSE "woken"]
  /\ UNCHANGED <<peersGroup, groupVars, leader, party, result, netVars>>

(***************************************************************************)
(* The key sign's other goroutine received the signature from a peer; what *)
(* it puts into sigChan after the select is never read by the join.        *)
(***************************************************************************)
SignatureReceived(c) ==
  /\ c \in Signing
  /\ stage[c] = "wait"
  /\ sigChan[c] = "empty"
  /\ sigChan' = [sigChan EXCEPT ![c] = "full"]
  /\ UNCHANGED <<peersGroup, groupVars, stage, leader, party, result, netVars>>

Return(c, res) ==
  /\ stage' = [stage EXCEPT ![c] = "done"]
  /\ result' = [result EXCEPT ![c] = res]

(***************************************************************************)
(* joinPartyMember after wg.Wait.  PeerIDs and Type of the leader's answer *)
(* are read by two separate calls of getLeaderResponse.                    *)
(***************************************************************************)
MemberReadPeerIDs(c) ==
  /\ stage[c] = "woken" /\ ~IsLeader(c)
  /\ IF leaderResponse[c] = None
     THEN Return(c, "leaderNotReady") /\ UNCHANGED party
     ELSE IF sigChan[c] = "taken"
     THEN Return(c, "signReceived") /\ UNCHANGED party
     ELSE /\ party' = [party EXCEPT ![c] = leaderResponse[c].ids]
          /\ IF Cardinality(leaderResponse[c].ids) < Threshold
             THEN Return(c, "notEnoughPeer")
             ELSE stage' = [stage EXCEPT ![c] = "readType"] /\ UNCHANGED result
  /\ UNCHANGED <<peersGroup, groupVars, leader, sigChan, netVars>>

\* The type of the answer is not looked at.
MutMemberReadType(c) ==
  /\ stage[c] = "readType"
  /\ Return(c, "success")
  /\ UNCHANGED <<peersGroup, groupVars, leader, sigChan, party, netVars>>

MemberReadType(c) ==
  /\ stage[c] = "readType"
  /\ Return(c, IF leaderResponse[c].ok THEN "success" ELSE "joinPartyTimeout")
  /\ UNCHANGED <<peersGroup, groupVars, leader, sigChan, party, netVars>>

\* joinPartyLeader without the one peer more than the threshold.
MutEnough(ids) == Cardinality(ids) >= Threshold

(***************************************************************************)
(* joinPartyLeader after wg.Wait: the online peers and the leader itself   *)
(* are the party, and everybody is sent the list, as Success or Timeout,   *)
(* by parallel goroutines: any set of them gets through, and the others    *)
(* fail or are cut off by a crash.                                         *)
(***************************************************************************)
Enough(ids) == Cardinality(ids) >= Threshold + 1

\* The list without the leader itself.
MutAnnouncement(c, online) ==
  [by |-> c, ok |-> Enough(online), ids |-> online \ {Caller[c]}]

Announcement(c, online) == [by |-> c, ok |-> Enough(online), ids |-> online]

LeaderDecide(c) ==
  /\ stage[c] = "woken" /\ IsLeader(c)
  /\ IF sigChan[c] = "taken"
     THEN Return(c, "signReceived") /\ UNCHANGED <<party, responses>>
     ELSE LET online == peersResponse[c] \union {Caller[c]}
              msg == Announcement(c, online)
          IN /\ party' = [party EXCEPT ![c] = online]
             /\ \E sent \in SUBSET (Peers \ {Caller[c]}) :
                  responses' = responses \union {[to |-> p, msg |-> msg] : p \in sent}
             /\ stage' = [stage EXCEPT ![c] = "respond"]
             /\ UNCHANGED result
  /\ UNCHANGED <<peersGroup, groupVars, leader, sigChan, requests, reqHandlers, respHandlers>>

LeaderReturn(c) ==
  /\ stage[c] = "respond"
  /\ Return(c, IF Enough(party[c]) THEN "success" ELSE "joinPartyTimeout")
  /\ UNCHANGED <<peersGroup, groupVars, leader, sigChan, party, netVars>>

\* The group that was looked up is used although there is none.
MutReceiveRequest(p, q) ==
  /\ requests[<<p, q>>] > 0
  /\ requests' = [requests EXCEPT ![<<p, q>>] = @ - 1]
  /\ reqHandlers' = reqHandlers \union
                      {[on |-> peersGroup[q], from |-> p, pc |-> "update"]}
  /\ UNCHANGED <<peersGroup, groupVars, callVars, responses, respHandlers>>

(***************************************************************************)
(* HandleStreamWithLeader, case "request": look the group up under the     *)
(* lock, then updatePeer under the group's lock, then the channel send.    *)
(***************************************************************************)
ReceiveRequest(p, q) ==
  /\ requests[<<p, q>>] > 0
  /\ requests' = [requests EXCEPT ![<<p, q>>] = @ - 1]
  /\ reqHandlers' = IF peersGroup[q] = None THEN reqHandlers
                    ELSE reqHandlers \union
                           {[on |-> peersGroup[q], from |-> p, pc |-> "update"]}
  /\ UNCHANGED <<peersGroup, groupVars, callVars, responses, respHandlers>>

\* updatePeer without the limit, and without remembering who was counted.
MutCountedLate(c, p) == p \in Known(c) /\ p \notin peersResponse[c]

MutCountedTwice(c, p) == p \in Known(c)

\* updatePeer counts the peer as a new participant.
Counted(c, p) == /\ p \in Known(c)
                 /\ reqCount[c] < Threshold
                 /\ p \notin peersResponse[c]

UpdatePeer(hd) ==
  LET c == hd.on
      partyFormed == Counted(c, hd.from) /\ reqCount[c] + 1 >= Threshold
  IN
  /\ hd.pc = "update"
  /\ IF Counted(c, hd.from)
     THEN /\ peersResponse' = [peersResponse EXCEPT ![c] = @ \union {hd.from}]
          /\ reqCount' = [reqCount EXCEPT ![c] = @ + 1]
     ELSE UNCHANGED <<peersResponse, reqCount>>
  /\ reqHandlers' = (reqHandlers \ {hd}) \union
                      (IF partyFormed THEN {[on |-> c, from |-> hd.from, pc |-> "notify"]}
                                      ELSE {})
  /\ UNCHANGED <<peersGroup, notify, leaderResponse, callVars, requests, responses,
                 respHandlers>>

(***************************************************************************)
(* Case "response": an answer from a peer other than the leader that the   *)
(* registered group expects is dropped.                                    *)
(***************************************************************************)
ReceiveResponse(m) ==
  /\ responses' = responses \ {m}
  /\ respHandlers' = IF /\ peersGroup[m.to] # None
                        /\ leader[peersGroup[m.to]] = Caller[m.msg.by]
                     THEN respHandlers \union
                            {[on |-> peersGroup[m.to], msg |-> m.msg, pc |-> "set"]}
                     ELSE respHandlers
  /\ UNCHANGED <<peersGroup, groupVars, callVars, requests, reqHandlers>>

SetLeaderResponse(hd) ==
  /\ hd.pc = "set"
  /\ leaderResponse' = [leaderResponse EXCEPT ![hd.on] = hd.msg]
  /\ respHandlers' = (respHandlers \ {hd}) \union
                       {[on |-> hd.on, msg |-> hd.msg, pc |-> "notify"]}
  /\ UNCHANGED <<peersGroup, peersResponse, reqCount, notify, callVars, requests, responses,
                 reqHandlers>>

(***************************************************************************)
(* peerGroup.notify <- true, by a handler of either kind: blocks while the *)
(* buffer is full.                                                         *)
(***************************************************************************)
Notify(c) ==
  /\ notify[c] < NotifyCap(c)
  /\ notify' = [notify EXCEPT ![c] = @ + 1]
  /\ UNCHANGED <<peersGroup, peersResponse, reqCount, leaderResponse, callVars, requests,
                 responses>>

NotifyPartyFormed(hd) ==
  /\ hd.pc = "notify"
  /\ Notify(hd.on)
  /\ reqHandlers' = reqHandlers \ {hd}
  /\ UNCHANGED respHandlers

NotifyLeaderResponse(hd) ==
  /\ hd.pc = "notify"
  /\ Notify(hd.on)
  /\ respHandlers' = respHandlers \ {hd}
  /\ UNCHANGED reqHandlers

(***************************************************************************)
(* A peer's process dies: its calls, its groups and its handlers are gone, *)
(* what it already sent stays in flight.                                   *)
(***************************************************************************)
Crash(p) ==
  /\ p \in CrashPeers
  /\ \E c \in Calls : Caller[c] = p /\ Running(c)
  /\ peersGroup' = [peersGroup EXCEPT ![p] = None]
  /\ stage' = [c \in Calls |-> IF Caller[c] = p /\ Running(c) THEN "crashed" ELSE stage[c]]
  /\ reqHandlers' = {hd \in reqHandlers : Caller[hd.on] # p}
  /\ respHandlers' = {hd \in respHandlers : Caller[hd.on] # p}
  /\ UNCHANGED <<groupVars, leader, sigChan, party, result, requests, responses>>

-----------------------------------------------------------------------------
CallStep(c) == \/ WakeOnNotify(c) \/ WakeOnTimeout(c) \/ WakeOnSignature(c)
               \/ MemberReadPeerIDs(c) \/ MemberReadType(c)
               \/ LeaderDecide(c) \/ LeaderReturn(c)

HandlerStep == \/ \E hd \in reqHandlers : UpdatePeer(hd) \/ NotifyPartyFormed(hd)
               \/ \E hd \in respHandlers : SetLeaderResponse(hd) \/ NotifyLeaderResponse(hd)

NetworkStep == \/ \E p, q \in Peers : ReceiveRequest(p, q)
               \/ \E m \in responses : ReceiveResponse(m)

Next == \/ \E c \in Calls : \/ JoinPartyWithLeader(c) \/ SignatureReceived(c)
                            \/ SendRequestToLeader(c) \/ CallStep(c)
        \/ HandlerStep
        \/ NetworkStep
        \/ \E p \in Peers : Crash(p)

(***************************************************************************)
(* The Go scheduler runs every goroutine of a call, and its timer fires.   *)
(* Nothing is assumed of the network, of the handlers or of the callers.   *)
(***************************************************************************)
Fairness == \A c \in Calls : WF_vars(CallStep(c))

Spec == Init /\ [][Next]_vars

FairSpec == Spec /\ Fairness

-----------------------------------------------------------------------------
(***************************************************************************)
(* The type invariant of the coordinator's state.                          *)
(***************************************************************************)
TypeOK ==
  /\ peersGroup \in [Peers -> Calls \union {None}]
  /\ stage \in [Calls -> Stages]
  /\ leader \in [Calls -> Peers \union {None}]
  /\ peersResponse \in [Calls -> SUBSET Peers]
  /\ reqCount \in [Calls -> Nat]
  /\ notify \in [Calls -> Nat]
  /\ leaderResponse \in [Calls -> LeaderComm \union {None}]
  /\ sigChan \in [Calls -> {"empty", "full", "taken"}]
  /\ party \in [Calls -> SUBSET Peers]
  /\ result \in [Calls -> Results]
  /\ requests \in [Peers \X Peers -> Nat]
  /\ responses \subseteq [to : Peers, msg : LeaderComm]
  /\ reqHandlers \subseteq ReqHandler
  /\ respHandlers \subseteq RespHandler

Joined(p, l) == \E c \in Calls : Caller[c] = p /\ leader[c] = l

Decided(c) == IsLeader(c) /\ party[c] # {}

FormedParty(c) == Decided(c) /\ Enough(party[c])

(***************************************************************************)
(* joinPartyLeader never announces a party that is too large or has a peer *)
(* in it that did not ask this leader to join: a formed party has exactly  *)
(* threshold + 1 peers, although requests go on arriving between the       *)
(* notification, the read of the group and the end of the sends.           *)
(***************************************************************************)
PartySound ==
  \A c \in Calls : FormedParty(c) =>
    /\ Cardinality(party[c]) = Threshold + 1
    /\ \A p \in party[c] : Joined(p, Caller[c])

(***************************************************************************)
(* Peers that disagree about the block height elect different leaders.     *)
(* Still no two parties form for one message unless some peer, a member of *)
(* both, called JoinPartyWithLeader twice.                                 *)
(***************************************************************************)
OneParty ==
  \A c, d \in Calls : FormedParty(c) /\ FormedParty(d) /\ c # d =>
    \E p \in party[c] \intersect party[d] : \E e, f \in Calls :
      /\ e # f /\ Caller[e] = p /\ Caller[f] = p
      /\ leader[e] = Caller[c] /\ leader[f] = Caller[d]

(***************************************************************************)
(* What a member read out of the leader's answer is a list that a call of  *)
(* the leader it joined announced, whichever of its calls the answer was   *)
(* for and however late it came.                                           *)
(***************************************************************************)
MemberListAnnounced ==
  \A c \in Calls : leader[c] # None /\ ~IsLeader(c) /\ party[c] # {} =>
    \E d \in Calls : Decided(d) /\ Caller[d] = leader[c] /\ party[d] = party[c]

(***************************************************************************)
(* "we notify all the peers who to run keygen/keysign": a member for which *)
(* the join succeeded has the list of a party that its leader formed.      *)
(***************************************************************************)
MemberPartyFormed ==
  \A c \in Calls : result[c] = "success" /\ ~IsLeader(c) =>
    \E d \in Calls : FormedParty(d) /\ Caller[d] = leader[c] /\ party[d] = party[c]

(***************************************************************************)
(* "we received the signature from waiting for signature": a member whose  *)
(* wait was ended by the signature reports that, so that its key sign does *)
(* not count as a failure of the leader.                                   *)
(***************************************************************************)
SignatureEndsJoin ==
  \A c \in Calls : stage[c] = "done" /\ sigChan[c] = "taken" => result[c] = "signReceived"

(***************************************************************************)
(* updatePeer reports a formed party once, so no handler of a request ever *)
(* blocks on the notify channel of a leader's group, not even after the    *)
(* leader stopped to listen.                                               *)
(***************************************************************************)
LeaderHandlersNeverBlock ==
  \A hd \in reqHandlers \union respHandlers :
    hd.pc = "notify" /\ IsLeader(hd.on) => notify[hd.on] = 0

(***************************************************************************)
(* Every join that is not cut short by a crash returns, whatever happens   *)
(* to the messages and to the other peers.                                 *)
(***************************************************************************)
JoinReturns == []<>(\A c \in Calls : ~Running(c))
=============================================================================
