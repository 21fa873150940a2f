----------------------- MODULE PartyCoordinatorProofs -----------------------
(***************************************************************************)
(* Proofs that the safety invariants of PartyCoordinator hold for every    *)
(* set of peers and calls, every threshold that is at least half of the    *)
(* peers, and every pattern of retries, lost messages and crashes.         *)
(***************************************************************************)
EXTENDS PartyCoordinator, FiniteSetTheorems, TLAPS

(***************************************************************************)
(* The definitions that every step of the proofs needs.                    *)
(***************************************************************************)
USE DEF groupVars, callVars, netVars, vars

(***************************************************************************)
(* TypeOK holds in every reachable state of the coordinator.               *)
(***************************************************************************)
LEMMA TypeInit == Init => TypeOK
  BY DEF Init, TypeOK, Stages, Results

(***************************************************************************)
(* Every step of a call, of a handler, of the network and of a crash keeps *)
(* the types.                                                              *)
(***************************************************************************)
LEMMA TypeNext == TypeOK /\ [Next]_vars => TypeOK'
<1> SUFFICES ASSUME TypeOK, [Next]_vars PROVE TypeOK'
  OBVIOUS
<1> USE CallsAssumption, PeersAssumption
<1>1. ASSUME NEW c \in Calls, JoinPartyWithLeader(c) PROVE TypeOK'
  BY <1>1 DEF TypeOK, JoinPartyWithLeader, Stages
<1>2. ASSUME NEW c \in Calls, SignatureReceived(c) PROVE TypeOK'
  BY <1>2 DEF TypeOK, SignatureReceived
<1>3. ASSUME NEW c \in Calls, SendRequestToLeader(c) PROVE TypeOK'
  <2>1. requests' \in [Peers \X Peers -> Nat]
    <3> DEFINE r == <<Caller[c], leader[c]>>
    <3>1. CASE r \in Peers \X Peers
      BY <1>3, <3>1 DEF TypeOK, SendRequestToLeader
    <3>2. CASE r \notin Peers \X Peers
      <4>1. requests' = [requests EXCEPT ![r] = requests[r] + 1]
        BY <1>3 DEF SendRequestToLeader
      <4> HIDE DEF r
      <4> QED
        BY <4>1, <3>2 DEF TypeOK
    <3> QED
      BY <3>1, <3>2
  <2> QED
    BY <1>3, <2>1 DEF TypeOK, SendRequestToLeader
<1>4. ASSUME NEW c \in Calls, CallStep(c) PROVE TypeOK'
  <2>1. CASE WakeOnNotify(c)
    BY <2>1 DEF TypeOK, WakeOnNotify, Stages
  <2>2. CASE WakeOnTimeout(c)
    BY <2>2 DEF TypeOK, WakeOnTimeout, Stages
  <2>3. CASE WakeOnSignature(c)
    BY <2>3 DEF TypeOK, WakeOnSignature, Stages
  <2>4. CASE MemberReadPeerIDs(c)
    BY <2>4 DEF TypeOK, MemberReadPeerIDs, Return, Stages, Results, LeaderComm
  <2>5. CASE MemberReadType(c)
    BY <2>5 DEF TypeOK, MemberReadType, Return, Stages, Results
  <2>6. CASE LeaderDecide(c)
    <3> DEFINE online == peersResponse[c] \union {Caller[c]}
               msg == Announcement(c, online)
    <3>1. online \in SUBSET Peers
      BY DEF TypeOK
    <3>2. msg \in LeaderComm
      BY <3>1 DEF LeaderComm, Enough, Announcement
    <3>3. responses' \subseteq [to : Peers, msg : LeaderComm]
      <4>1. CASE sigChan[c] = "taken"
        BY <2>6, <4>1 DEF TypeOK, LeaderDecide
      <4>2. CASE sigChan[c] # "taken"
        <5> PICK sent \in SUBSET (Peers \ {Caller[c]}) :
               responses' = responses \union {[to |-> p, msg |-> msg] : p \in sent}
          BY <2>6, <4>2 DEF LeaderDecide
        <5> HIDE DEF msg
        <5> QED
          BY <3>2 DEF TypeOK
      <4> QED
        BY <4>1, <4>2
    <3>4. party' \in [Calls -> SUBSET Peers] /\ stage' \in [Calls -> Stages]
            /\ result' \in [Calls -> Results]
      <4>1. CASE sigChan[c] = "taken"
        BY <2>6, <4>1 DEF TypeOK, LeaderDecide, Return, Stages, Results
      <4>2. CASE sigChan[c] # "taken"
        <5>1. /\ party' = [party EXCEPT ![c] = online]
              /\ stage' = [stage EXCEPT ![c] = "respond"]
              /\ result' = result
          BY <2>6, <4>2 DEF LeaderDecide
        <5> QED
          BY <5>1, <3>1 DEF TypeOK, Stages
      <4> QED
        BY <4>1, <4>2
    <3>5. UNCHANGED <<peersGroup, groupVars, leader, sigChan, requests, reqHandlers,
                      respHandlers>>
      BY <2>6 DEF LeaderDecide
    <3> HIDE DEF online, msg
    <3> QED
      BY <3>3, <3>4, <3>5 DEF TypeOK
  <2>7. CASE LeaderReturn(c)
    BY <2>7 DEF TypeOK, LeaderReturn, Return, Stages, Results
  <2> QED
    BY <1>4, <2>1, <2>2, <2>3, <2>4, <2>5, <2>6, <2>7 DEF CallStep
<1>5. CASE HandlerStep
  <2>1. ASSUME NEW hd \in reqHandlers, UpdatePeer(hd) PROVE TypeOK'
    <3>1. hd.on \in Calls /\ hd.from \in Peers
      BY DEF TypeOK, ReqHandler
    <3>2. reqHandlers' \subseteq ReqHandler
      <4> DEFINE next == [on |-> hd.on, from |-> hd.from, pc |-> "notify"]
      <4>1. next \in ReqHandler
        BY <3>1 DEF ReqHandler
      <4>2. reqHandlers' \subseteq reqHandlers \union {next}
        BY <2>1 DEF UpdatePeer
      <4> QED
        BY <4>1, <4>2 DEF TypeOK
    <3>3. peersResponse' \in [Calls -> SUBSET Peers] /\ reqCount' \in [Calls -> Nat]
      <4>1. CASE Counted(hd.on, hd.from)
        <5>1. /\ peersResponse' = [peersResponse EXCEPT ![hd.on] = @ \union {hd.from}]
              /\ reqCount' = [reqCount EXCEPT ![hd.on] = @ + 1]
          BY <2>1, <4>1 DEF UpdatePeer
        <5> QED
          BY <5>1, <3>1 DEF TypeOK
      <4>2. CASE ~Counted(hd.on, hd.from)
        BY <2>1, <4>2 DEF TypeOK, UpdatePeer
      <4> QED
        BY <4>1, <4>2
    <3> QED
      BY <2>1, <3>2, <3>3 DEF TypeOK, UpdatePeer
  <2>2. ASSUME NEW hd \in reqHandlers, NotifyPartyFormed(hd) PROVE TypeOK'
    BY <2>2 DEF TypeOK, NotifyPartyFormed, Notify, ReqHandler
  <2>3. ASSUME NEW hd \in respHandlers, SetLeaderResponse(hd) PROVE TypeOK'
    BY <2>3 DEF TypeOK, SetLeaderResponse, RespHandler
  <2>4. ASSUME NEW hd \in respHandlers, NotifyLeaderResponse(hd) PROVE TypeOK'
    BY <2>4 DEF TypeOK, NotifyLeaderResponse, Notify, RespHandler
  <2> QED
    BY <1>5, <2>1, <2>2, <2>3, <2>4 DEF HandlerStep
<1>6. ASSUME NEW p \in Peers, NEW q \in Peers, ReceiveRequest(p, q) PROVE TypeOK'
  BY <1>6 DEF TypeOK, ReceiveRequest, ReqHandler
<1>7. ASSUME NEW m \in responses, ReceiveResponse(m) PROVE TypeOK'
  BY <1>7 DEF TypeOK, ReceiveResponse, RespHandler
<1>8. ASSUME NEW p \in Peers, Crash(p) PROVE TypeOK'
  BY <1>8 DEF TypeOK, Crash, Stages
<1>9. CASE UNCHANGED vars
  BY <1>9 DEF TypeOK
<1> QED
  BY <1>1, <1>2, <1>3, <1>4, <1>5, <1>6, <1>7, <1>8, <1>9 DEF Next, NetworkStep

(***************************************************************************)
(* The fields of every PeerStatus and every message in flight keep their   *)
(* types in every run of the coordinator.                                  *)
(***************************************************************************)
THEOREM TypeCorrect == Spec => []TypeOK
  BY TypeInit, TypeNext, PTL DEF Spec
-----------------------------------------------------------------------------
(***************************************************************************)
(* The inductive invariant behind PartySound and OneParty.                 *)
(*                                                                         *)
(* Roles: a call has a leader from the moment it started, and peersGroup   *)
(* and the request handlers refer to started calls only.                   *)
(***************************************************************************)
Roles ==
  /\ \A c \in Calls : leader[c] = None <=> stage[c] = "idle"
  /\ \A p \in Peers : peersGroup[p] # None =>
       Caller[peersGroup[p]] = p /\ leader[peersGroup[p]] # None
  /\ \A hd \in reqHandlers : leader[hd.on] # None

(***************************************************************************)
(* Askers: every request, from the moment it is sent until it is counted,  *)
(* comes from a peer that started a call with this leader.                 *)
(***************************************************************************)
Askers ==
  /\ \A p, q \in Peers : requests[<<p, q>>] > 0 => Joined(p, q)
  /\ \A hd \in reqHandlers : Joined(hd.from, Caller[hd.on])
  /\ \A c \in Calls : \A p \in peersResponse[c] : Joined(p, Caller[c])

(***************************************************************************)
(* Counting: reqCount is the number of peers marked as online, which never *)
(* exceeds the threshold and never includes the caller.                    *)
(***************************************************************************)
Counting ==
  \A c \in Calls : /\ Cardinality(peersResponse[c]) = reqCount[c]
                   /\ reqCount[c] <= Threshold
                   /\ Caller[c] \notin peersResponse[c]

(***************************************************************************)
(* Parties: the list of a leader's call is empty until it decides and then *)
(* holds the leader and at most threshold peers that asked it.             *)
(***************************************************************************)
Parties ==
  \A c \in Calls :
    /\ stage[c] \in {"idle", "wait", "woken"} => party[c] = {}
    /\ IsLeader(c) /\ party[c] # {} => Caller[c] \in party[c]
    /\ IsLeader(c) => /\ Cardinality(party[c]) <= Threshold + 1
                      /\ \A p \in party[c] : Joined(p, Caller[c])

IInv == TypeOK /\ Roles /\ Askers /\ Counting /\ Parties

(***************************************************************************)
(* The coordinator starts in a state of the inductive invariant.           *)
(***************************************************************************)
LEMMA InitIInv == Init => IInv
<1> SUFFICES ASSUME Init PROVE IInv
  OBVIOUS
<1> USE CallsAssumption, PeersAssumption, ThresholdAssumption
<1>1. TypeOK
  BY TypeInit
<1>2. Roles
  BY DEF Init, Roles
<1>3. Askers
  BY DEF Init, Askers
<1>4. Cardinality({}) = 0
  BY FS_EmptySet
<1>5. Counting
  BY <1>4 DEF Init, Counting
<1>6. Parties
  BY <1>4 DEF Init, Parties, IsLeader
<1> QED
  BY <1>1, <1>2, <1>3, <1>5, <1>6 DEF IInv

(***************************************************************************)
(* A call keeps the leader it started with, so that a peer that once asked *)
(* a leader has asked it for ever.                                         *)
(***************************************************************************)
LEMMA LeaderKept ==
  ASSUME TypeOK, Roles, [Next]_vars
  PROVE  /\ \A c \in Calls : leader[c] # None => leader'[c] = leader[c]
         /\ \A p, l \in Peers : Joined(p, l) => Joined(p, l)'
<1> USE PeersAssumption
<1>1. \A c \in Calls : leader[c] # None => leader'[c] = leader[c]
  <2>1. ASSUME NEW c \in Calls, JoinPartyWithLeader(c),
               NEW d \in Calls, leader[d] # None
        PROVE  leader'[d] = leader[d]
    BY <2>1 DEF TypeOK, Roles, JoinPartyWithLeader
  <2>2. (\A c \in Calls : ~JoinPartyWithLeader(c)) => leader' = leader
    BY DEF Next, SignatureReceived, SendRequestToLeader, CallStep, WakeOnNotify,
           WakeOnTimeout, WakeOnSignature, MemberReadPeerIDs, MemberReadType,
           LeaderDecide, LeaderReturn, HandlerStep, UpdatePeer, SetLeaderResponse,
           Notify, NotifyPartyFormed, NotifyLeaderResponse, NetworkStep,
           ReceiveRequest, ReceiveResponse, Crash
  <2> QED
    BY <2>1, <2>2
<1>2. ASSUME NEW p \in Peers, NEW l \in Peers, Joined(p, l) PROVE Joined(p, l)'
  BY <1>1, <1>2 DEF Joined
<1> QED
  BY <1>1, <1>2

(***************************************************************************)
(* No step of JoinPartyWithLeader or of a handler breaks the relation      *)
(* between the stage of a call and its leader.                             *)
(***************************************************************************)
LEMMA RolesNext == TypeOK /\ Roles /\ [Next]_vars => Roles'
<1> SUFFICES ASSUME TypeOK, Roles, [Next]_vars PROVE Roles'
  OBVIOUS
<1> USE PeersAssumption, CallsAssumption
<1>1. ASSUME NEW c \in Calls, JoinPartyWithLeader(c) PROVE Roles'
  <2>1. PICK l \in Peers : leader' = [leader EXCEPT ![c] = l]
    BY <1>1 DEF JoinPartyWithLeader
  <2>2. /\ peersGroup' = [peersGroup EXCEPT ![Caller[c]] = c]
        /\ stage' = [stage EXCEPT ![c] = "wait"]
        /\ reqHandlers' = reqHandlers
    BY <1>1 DEF JoinPartyWithLeader
  <2>3. \A d \in Calls : leader'[d] = None <=> stage'[d] = "idle"
    BY <2>1, <2>2 DEF TypeOK, Roles
  <2>4. \A p \in Peers : peersGroup'[p] # None =>
          Caller[peersGroup'[p]] = p /\ leader'[peersGroup'[p]] # None
    BY <2>1, <2>2 DEF TypeOK, Roles
  <2>5. \A hd \in reqHandlers' : leader'[hd.on] # None
    BY <2>1, <2>2 DEF TypeOK, Roles, ReqHandler
  <2> QED
    BY <2>3, <2>4, <2>5 DEF Roles
<1>2. ASSUME NEW c \in Calls, SignatureReceived(c) \/ SendRequestToLeader(c) PROVE Roles'
  BY <1>2 DEF Roles, SignatureReceived, SendRequestToLeader
<1>3. ASSUME NEW c \in Calls, CallStep(c) PROVE Roles'
  <2>1. /\ stage[c] # "idle"
        /\ \E st \in Stages \ {"idle"} : stage' = [stage EXCEPT ![c] = st]
        /\ UNCHANGED <<peersGroup, leader, reqHandlers>>
    <3>1. CASE WakeOnNotify(c) \/ WakeOnTimeout(c) \/ WakeOnSignature(c)
      BY <3>1 DEF WakeOnNotify, WakeOnTimeout, WakeOnSignature, Stages
    <3>2. CASE MemberReadPeerIDs(c)
      BY <3>2 DEF MemberReadPeerIDs, Return, Stages
    <3>3. CASE MemberReadType(c) \/ LeaderReturn(c)
      BY <3>3 DEF MemberReadType, LeaderReturn, Return, Stages
    <3>4. CASE LeaderDecide(c)
      <4>1. stage' = [stage EXCEPT ![c] = "done"] \/ stage' = [stage EXCEPT ![c] = "respond"]
        BY <3>4 DEF LeaderDecide, Return
      <4> QED
        BY <3>4, <4>1 DEF LeaderDecide, Stages
    <3> QED
      BY <1>3, <3>1, <3>2, <3>3, <3>4 DEF CallStep
  <2> QED
    BY <2>1 DEF TypeOK, Roles
<1>4. CASE HandlerStep
  <2>1. ASSUME NEW hd \in reqHandlers, UpdatePeer(hd) PROVE Roles'
    <3>1. \A g \in reqHandlers' : leader'[g.on] # None
      BY <2>1 DEF Roles, UpdatePeer
    <3> QED
      BY <2>1, <3>1 DEF Roles, UpdatePeer
  <2>2. ASSUME NEW hd \in reqHandlers, NotifyPartyFormed(hd) PROVE Roles'
    BY <2>2 DEF Roles, NotifyPartyFormed, Notify
  <2>3. ASSUME NEW hd \in respHandlers, SetLeaderResponse(hd) \/ NotifyLeaderResponse(hd)
        PROVE  Roles'
    BY <2>3 DEF Roles, SetLeaderResponse, NotifyLeaderResponse, Notify
  <2> QED
    BY <1>4, <2>1, <2>2, <2>3 DEF HandlerStep
<1>5. ASSUME NEW p \in Peers, NEW q \in Peers, ReceiveRequest(p, q) PROVE Roles'
  <2>1. \A hd \in reqHandlers' : leader'[hd.on] # None
    BY <1>5 DEF Roles, ReceiveRequest
  <2> QED
    BY <1>5, <2>1 DEF Roles, ReceiveRequest
<1>6. ASSUME NEW m \in responses, ReceiveResponse(m) PROVE Roles'
  BY <1>6 DEF Roles, ReceiveResponse
<1>7. ASSUME NEW p \in Peers, Crash(p) PROVE Roles'
  BY <1>7 DEF TypeOK, Roles, Crash, Running
<1>8. CASE UNCHANGED vars
  BY <1>8 DEF Roles
<1> QED
  BY <1>1, <1>2, <1>3, <1>4, <1>5, <1>6, <1>7, <1>8 DEF Next, NetworkStep

(***************************************************************************)
(* Who is counted in a group, or about to be counted by processReqMsg, is  *)
(* a peer whose call joined the group's leader.                            *)
(***************************************************************************)
LEMMA AskersNext == TypeOK /\ Roles /\ Askers /\ [Next]_vars => Askers'
<1> SUFFICES ASSUME TypeOK, Roles, Askers, [Next]_vars PROVE Askers'
  OBVIOUS
<1> USE PeersAssumption, CallsAssumption
<1>1. \A p, l \in Peers : Joined(p, l) => Joined(p, l)'
  BY LeaderKept
<1>2. \A p, q \in Peers : requests'[<<p, q>>] > 0 => Joined(p, q)'
  <2>1. ASSUME NEW c \in Calls, SendRequestToLeader(c),
               NEW p \in Peers, NEW q \in Peers, requests'[<<p, q>>] > 0
        PROVE  Joined(p, q)
    <3>1. leader[c] \in Peers
      BY <2>1 DEF TypeOK, Roles, SendRequestToLeader
    <3>2. CASE p = Caller[c] /\ q = leader[c]
      BY <3>2 DEF Joined
    <3>3. CASE ~(p = Caller[c] /\ q = leader[c])
      BY <2>1, <3>1, <3>3 DEF TypeOK, Askers, SendRequestToLeader
    <3> QED
      BY <3>2, <3>3
  <2>2. ASSUME NEW p \in Peers, NEW q \in Peers, ReceiveRequest(p, q),
               NEW r \in Peers, NEW s \in Peers, requests'[<<r, s>>] > 0
        PROVE  Joined(r, s)
    BY <2>2 DEF TypeOK, Askers, ReceiveRequest
  <2>3. \/ requests' = requests
        \/ \E c \in Calls : SendRequestToLeader(c)
        \/ \E p, q \in Peers : ReceiveRequest(p, q)
    BY DEF Next, JoinPartyWithLeader, SignatureReceived, CallStep, WakeOnNotify,
           WakeOnTimeout, WakeOnSignature, MemberReadPeerIDs, MemberReadType,
           LeaderDecide, LeaderReturn, HandlerStep, UpdatePeer, SetLeaderResponse,
           Notify, NotifyPartyFormed, NotifyLeaderResponse, NetworkStep,
           ReceiveResponse, Crash
  <2> QED
    BY <1>1, <2>1, <2>2, <2>3 DEF Askers
<1>3. \A hd \in reqHandlers' : Joined(hd.from, Caller[hd.on])'
  <2>1. ASSUME NEW hd \in reqHandlers' PROVE Joined(hd.from, Caller[hd.on])
    <3>1. ASSUME NEW p \in Peers, NEW q \in Peers, ReceiveRequest(p, q)
          PROVE  Joined(hd.from, Caller[hd.on])
      BY <3>1 DEF Roles, Askers, ReceiveRequest
    <3>2. ASSUME NEW g \in reqHandlers, UpdatePeer(g)
          PROVE  Joined(hd.from, Caller[hd.on])
      BY <3>2 DEF Askers, UpdatePeer
    <3>3. \/ reqHandlers' \subseteq reqHandlers
          \/ \E p, q \in Peers : ReceiveRequest(p, q)
          \/ \E g \in reqHandlers : UpdatePeer(g)
      BY DEF Next, JoinPartyWithLeader, SignatureReceived, SendRequestToLeader, CallStep,
             WakeOnNotify, WakeOnTimeout, WakeOnSignature, MemberReadPeerIDs,
             MemberReadType, LeaderDecide, LeaderReturn, HandlerStep, SetLeaderResponse,
             Notify, NotifyPartyFormed, NotifyLeaderResponse, NetworkStep,
             ReceiveResponse, Crash
    <3> QED
      BY <3>1, <3>2, <3>3 DEF Askers
  <2>2. TypeOK'
    BY TypeNext
  <2> QED
    BY <1>1, <2>1, <2>2 DEF TypeOK, ReqHandler
<1>4. \A c \in Calls : \A p \in peersResponse'[c] : Joined(p, Caller[c])'
  <2>1. ASSUME NEW hd \in reqHandlers, UpdatePeer(hd),
               NEW c \in Calls, NEW p \in peersResponse'[c]
        PROVE  Joined(p, Caller[c])
    <3>1. hd.on \in Calls
      BY DEF TypeOK, ReqHandler
    <3>2. peersResponse'[c] \subseteq peersResponse[c] \union
                                      (IF c = hd.on THEN {hd.from} ELSE {})
      BY <2>1, <3>1 DEF TypeOK, UpdatePeer
    <3> QED
      BY <2>1, <3>2 DEF Askers
  <2>2. \/ peersResponse' = peersResponse
        \/ \E hd \in reqHandlers : UpdatePeer(hd)
    BY DEF Next, JoinPartyWithLeader, SignatureReceived, SendRequestToLeader, CallStep,
           WakeOnNotify, WakeOnTimeout, WakeOnSignature, MemberReadPeerIDs,
           MemberReadType, LeaderDecide, LeaderReturn, HandlerStep, SetLeaderResponse,
           Notify, NotifyPartyFormed, NotifyLeaderResponse, NetworkStep,
           ReceiveRequest, ReceiveResponse, Crash
  <2>3. \A c \in Calls : \A p \in peersResponse'[c] : Joined(p, Caller[c])
    BY <2>1, <2>2 DEF Askers
  <2>4. TypeOK'
    BY TypeNext
  <2> QED
    BY <1>1, <2>3, <2>4 DEF TypeOK
<1> QED
  BY <1>2, <1>3, <1>4 DEF Askers

(***************************************************************************)
(* updatePeer keeps reqCount equal to the number of online peers and no    *)
(* larger than the threshold.                                              *)
(***************************************************************************)
LEMMA CountingNext == TypeOK /\ Roles /\ Counting /\ [Next]_vars => Counting'
<1> SUFFICES ASSUME TypeOK, Roles, Counting, [Next]_vars PROVE Counting'
  OBVIOUS
<1> USE PeersAssumption, CallsAssumption, ThresholdAssumption
<1>1. ASSUME NEW hd \in reqHandlers, UpdatePeer(hd) PROVE Counting'
  <2>1. hd.on \in Calls /\ hd.from \in Peers /\ leader[hd.on] \in Peers
    BY DEF TypeOK, Roles, ReqHandler
  <2>2. CASE ~Counted(hd.on, hd.from)
    BY <1>1, <2>2 DEF Counting, UpdatePeer
  <2>3. CASE Counted(hd.on, hd.from)
    <3>1. /\ peersResponse' = [peersResponse EXCEPT ![hd.on] = @ \union {hd.from}]
          /\ reqCount' = [reqCount EXCEPT ![hd.on] = @ + 1]
      BY <1>1, <2>3 DEF UpdatePeer
    <3>2. /\ hd.from \notin peersResponse[hd.on]
          /\ reqCount[hd.on] < Threshold
          /\ hd.from # Caller[hd.on]
      BY <2>1, <2>3 DEF Counted, Known, IsLeader
    <3>3. IsFiniteSet(peersResponse[hd.on])
      BY <2>1, FS_Subset DEF TypeOK
    <3>4. Cardinality(peersResponse[hd.on] \union {hd.from}) =
            Cardinality(peersResponse[hd.on]) + 1
      BY <3>2, <3>3, FS_AddElement
    <3>5. ASSUME NEW c \in Calls
          PROVE  /\ Cardinality(peersResponse'[c]) = reqCount'[c]
                 /\ reqCount'[c] <= Threshold
                 /\ Caller[c] \notin peersResponse'[c]
      <4>1. CASE c = hd.on
        <5>1. /\ peersResponse'[c] = peersResponse[hd.on] \union {hd.from}
              /\ reqCount'[c] = reqCount[hd.on] + 1
          BY <2>1, <3>1, <4>1 DEF TypeOK
        <5>2. /\ Cardinality(peersResponse[hd.on]) = reqCount[hd.on]
              /\ Caller[c] \notin peersResponse[hd.on]
              /\ reqCount[hd.on] \in Nat
          BY <2>1, <4>1 DEF Counting, TypeOK
        <5> QED
          BY <3>2, <3>4, <4>1, <5>1, <5>2
      <4>2. CASE c # hd.on
        BY <2>1, <3>1, <4>2 DEF TypeOK, Counting
      <4> QED
        BY <4>1, <4>2
    <3> QED
      BY <3>5 DEF Counting
  <2> QED
    BY <2>2, <2>3
<1>2. \/ UNCHANGED <<peersResponse, reqCount>>
      \/ \E hd \in reqHandlers : UpdatePeer(hd)
  BY DEF Next, JoinPartyWithLeader, SignatureReceived, SendRequestToLeader, CallStep,
         WakeOnNotify, WakeOnTimeout, WakeOnSignature, MemberReadPeerIDs,
         MemberReadType, LeaderDecide, LeaderReturn, HandlerStep, SetLeaderResponse,
         Notify, NotifyPartyFormed, NotifyLeaderResponse, NetworkStep,
         ReceiveRequest, ReceiveResponse, Crash
<1> QED
  BY <1>1, <1>2 DEF Counting

(***************************************************************************)
(* What joinPartyLeader decides on has at most threshold + 1 members, all  *)
(* of which asked for it.                                                  *)
(***************************************************************************)
LEMMA PartiesNext == IInv /\ [Next]_vars => Parties'
<1> SUFFICES ASSUME IInv, [Next]_vars PROVE Parties'
  OBVIOUS
<1> USE PeersAssumption, CallsAssumption, ThresholdAssumption
<1>1. TypeOK /\ Roles /\ Askers /\ Counting /\ Parties
  BY DEF IInv
<1>2. /\ \A c \in Calls : leader[c] # None => leader'[c] = leader[c]
      /\ \A p, l \in Peers : Joined(p, l) => Joined(p, l)'
  BY <1>1, LeaderKept
<1>3. Cardinality({}) = 0
  BY FS_EmptySet
<1>4. ASSUME NEW c \in Calls, JoinPartyWithLeader(c) PROVE Parties'
  <2>1. /\ party[c] = {}
        /\ party' = party
        /\ stage' = [stage EXCEPT ![c] = "wait"]
        /\ leader[c] = None
    BY <1>1, <1>4 DEF JoinPartyWithLeader, Parties, Roles
  <2>2. \A d \in Calls \ {c} : leader'[d] = leader[d] /\ stage'[d] = stage[d]
    BY <1>1, <1>4 DEF TypeOK, JoinPartyWithLeader
  <2> QED
    <3>1. ASSUME NEW d \in Calls, d # c, IsLeader(d), NEW p \in party[d]
          PROVE  Joined(p, Caller[d])'
      BY <1>1, <1>2, <3>1 DEF TypeOK, Parties
    <3>2. \A d \in Calls \ {c} : (IsLeader(d))' <=> IsLeader(d)
      BY <2>2 DEF IsLeader
    <3>3. stage'[c] = "wait"
      BY <1>1, <2>1 DEF TypeOK
    <3> SUFFICES ASSUME NEW d \in Calls
                 PROVE  /\ stage'[d] \in {"idle", "wait", "woken"} => party'[d] = {}
                        /\ IsLeader(d)' /\ party'[d] # {} => Caller[d] \in party'[d]
                        /\ IsLeader(d)' => /\ Cardinality(party'[d]) <= Threshold + 1
                                           /\ \A p \in party'[d] : Joined(p, Caller[d])'
      BY DEF Parties
    <3>4. CASE d = c
      <4>1. party'[d] = {} /\ Cardinality(party'[d]) <= Threshold + 1
        BY <1>3, <2>1, <3>4
      <4> QED
        BY <4>1
    <3>5. CASE d # c
      <4>1. party'[d] = party[d] /\ stage'[d] = stage[d] /\ (IsLeader(d)' <=> IsLeader(d))
        BY <2>1, <2>2, <3>2, <3>5
      <4>2. /\ stage[d] \in {"idle", "wait", "woken"} => party[d] = {}
            /\ IsLeader(d) /\ party[d] # {} => Caller[d] \in party[d]
            /\ IsLeader(d) => Cardinality(party[d]) <= Threshold + 1
        BY <1>1 DEF Parties
      <4>3. IsLeader(d) => \A p \in party[d] : Joined(p, Caller[d])'
        BY <3>1, <3>5
      <4> QED
        BY <4>1, <4>2, <4>3
    <3> QED
      BY <3>4, <3>5
<1>5. ASSUME NEW c \in Calls, LeaderDecide(c) PROVE Parties'
  <2>1. leader' = leader /\ stage[c] = "woken" /\ IsLeader(c)
    BY <1>5 DEF LeaderDecide
  <2>2. CASE sigChan[c] = "taken"
    BY <1>1, <1>2, <1>5, <2>1, <2>2 DEF TypeOK, Parties, LeaderDecide, Return, IsLeader
  <2>3. CASE sigChan[c] # "taken"
    <3> DEFINE online == peersResponse[c] \union {Caller[c]}
    <3>1. /\ party' = [party EXCEPT ![c] = online]
          /\ stage' = [stage EXCEPT ![c] = "respond"]
      BY <1>5, <2>3 DEF LeaderDecide
    <3>2. IsFiniteSet(peersResponse[c])
      BY <1>1, FS_Subset DEF TypeOK
    <3>3. Cardinality(online) <= Threshold + 1
      <4>1. Cardinality(online) = Cardinality(peersResponse[c]) + 1
        BY <1>1, <3>2, FS_AddElement DEF Counting
      <4> QED
        BY <1>1, <4>1 DEF TypeOK, Counting
    <3>4. \A p \in online : Joined(p, Caller[c])
      BY <1>1, <2>1 DEF Askers, Joined, IsLeader
    <3>5. online \subseteq Peers /\ Caller[c] \in online
      BY <1>1 DEF TypeOK
    <3> HIDE DEF online
    <3>6. ASSUME NEW d \in Calls, d # c
          PROVE  party'[d] = party[d] /\ stage'[d] = stage[d]
      BY <1>1, <3>1, <3>6 DEF TypeOK
    <3>7. party'[c] = online /\ stage'[c] = "respond"
      BY <1>1, <3>1 DEF TypeOK
    <3>8. \A p \in online : Joined(p, Caller[c])'
      BY <1>2, <3>4, <3>5
    <3> QED
      BY <1>1, <1>2, <2>1, <3>3, <3>5, <3>6, <3>7, <3>8 DEF TypeOK, Parties, IsLeader
  <2> QED
    BY <2>2, <2>3
<1>6. ASSUME NEW c \in Calls, MemberReadPeerIDs(c) PROVE Parties'
  <2>1. leader' = leader /\ ~IsLeader(c)
    BY <1>6 DEF MemberReadPeerIDs
  <2>2. stage'[c] \in {"done", "readType"}
    BY <1>1, <1>6 DEF TypeOK, MemberReadPeerIDs, Return
  <2>3. ASSUME NEW d \in Calls, d # c
        PROVE  party'[d] = party[d] /\ stage'[d] = stage[d]
    BY <1>1, <1>6, <2>3 DEF TypeOK, MemberReadPeerIDs, Return
  <2> QED
    BY <1>1, <1>2, <2>1, <2>2, <2>3 DEF TypeOK, Parties, IsLeader
<1>7. ASSUME party' = party, leader' = leader,
             \A c \in Calls : stage'[c] \in {"idle", "wait", "woken"} =>
                               stage[c] \in {"idle", "wait", "woken"}
      PROVE  Parties'
  BY <1>1, <1>2, <1>7 DEF TypeOK, Parties, IsLeader
<1>8. ASSUME NEW c \in Calls, \/ SignatureReceived(c) \/ SendRequestToLeader(c)
                              \/ WakeOnNotify(c) \/ WakeOnTimeout(c)
                              \/ WakeOnSignature(c) \/ MemberReadType(c)
                              \/ LeaderReturn(c)
      PROVE  Parties'
  BY <1>1, <1>7, <1>8 DEF TypeOK, SignatureReceived, SendRequestToLeader, WakeOnNotify,
     WakeOnTimeout, WakeOnSignature, MemberReadType, LeaderReturn, Return
<1>9. ASSUME HandlerStep \/ NetworkStep PROVE Parties'
  <2>1. UNCHANGED <<party, leader, stage>>
    BY <1>9 DEF HandlerStep, UpdatePeer, SetLeaderResponse, Notify, NotifyPartyFormed,
       NotifyLeaderResponse, NetworkStep, ReceiveRequest, ReceiveResponse
  <2> QED
    BY <1>7, <2>1
<1>10. ASSUME NEW p \in Peers, Crash(p) PROVE Parties'
  BY <1>7, <1>10 DEF Crash
<1>11. CASE UNCHANGED vars
  BY <1>7, <1>11
<1> QED
  BY <1>4, <1>5, <1>6, <1>8, <1>9, <1>10, <1>11 DEF Next, CallStep

(***************************************************************************)
(* The inductive invariant is kept by every step.                          *)
(***************************************************************************)
LEMMA NextIInv == IInv /\ [Next]_vars => IInv'
  BY TypeNext, RolesNext, AskersNext, CountingNext, PartiesNext DEF IInv

(***************************************************************************)
(* The inductive invariant holds in every reachable state.                 *)
(***************************************************************************)
THEOREM IInvCorrect == Spec => []IInv
  BY InitIInv, NextIInv, PTL DEF Spec

(***************************************************************************)
(* Whatever the number of peers, retries, lost requests and crashes, a     *)
(* party that joinPartyLeader announces has exactly threshold + 1 members, *)
(* all of which asked that leader.                                         *)
(***************************************************************************)
THEOREM PartySoundCorrect == Spec => []PartySound
<1>1. IInv => PartySound
  <2> SUFFICES ASSUME IInv, NEW c \in Calls, FormedParty(c)
               PROVE  /\ Cardinality(party[c]) = Threshold + 1
                      /\ \A p \in party[c] : Joined(p, Caller[c])
    BY DEF PartySound
  <2>1. IsFiniteSet(party[c]) /\ Cardinality(party[c]) \in Nat
    BY PeersAssumption, FS_Subset, FS_CardinalityType DEF IInv, TypeOK
  <2> QED
    BY <2>1, ThresholdAssumption DEF IInv, Parties, FormedParty, Decided, Enough
<1> QED
  BY IInvCorrect, <1>1, PTL

(***************************************************************************)
(* Whatever heights the peers pass to LeaderNode, two leaders form two     *)
(* parties for one message only through a peer that joined both of them.   *)
(***************************************************************************)
THEOREM OnePartyCorrect == Spec => []OneParty
<1> USE PeersAssumption, CallsAssumption, ThresholdAssumption
<1>1. IInv => OneParty
  <2> SUFFICES ASSUME IInv, NEW c \in Calls, NEW d \in Calls,
                      FormedParty(c), FormedParty(d), c # d
               PROVE  \E p \in party[c] \intersect party[d] : \E e, f \in Calls :
                        /\ e # f /\ Caller[e] = p /\ Caller[f] = p
                        /\ leader[e] = Caller[c] /\ leader[f] = Caller[d]
    BY DEF OneParty
  <2>1. /\ party[c] \subseteq Peers /\ party[d] \subseteq Peers
        /\ IsFiniteSet(party[c]) /\ IsFiniteSet(party[d])
    BY FS_Subset DEF IInv, TypeOK
  <2>2. /\ leader[c] = Caller[c] /\ Caller[c] \in party[c]
        /\ leader[d] = Caller[d] /\ Caller[d] \in party[d]
    BY DEF IInv, Parties, FormedParty, Decided, IsLeader
  <2>3. /\ Cardinality(party[c]) >= Threshold + 1
        /\ Cardinality(party[d]) >= Threshold + 1
    BY DEF FormedParty, Enough
  <2>4. CASE Caller[c] = Caller[d]
    BY <2>2, <2>4
  <2>5. CASE Caller[c] # Caller[d]
    <3>1. party[c] \intersect party[d] # {}
      <4> SUFFICES ASSUME party[c] \intersect party[d] = {} PROVE FALSE
        OBVIOUS
      <4>1. /\ Cardinality(party[c] \union party[d]) =
                 Cardinality(party[c]) + Cardinality(party[d])
                   - Cardinality(party[c] \intersect party[d])
        BY <2>1, FS_Union
      <4>2. Cardinality(party[c] \intersect party[d]) = 0
        BY FS_EmptySet
      <4>3. Cardinality(party[c] \union party[d]) <= Cardinality(Peers)
        BY <2>1, FS_Subset
      <4>4. /\ Cardinality(party[c]) \in Nat /\ Cardinality(party[d]) \in Nat
            /\ Cardinality(Peers) \in Nat
        BY <2>1, FS_CardinalityType
      <4> QED
        BY <2>3, <4>1, <4>2, <4>3, <4>4
    <3>2. PICK p \in party[c] \intersect party[d] : TRUE
      BY <3>1
    <3>3. Joined(p, Caller[c]) /\ Joined(p, Caller[d])
      BY <2>2, <3>2 DEF IInv, Parties, IsLeader
    <3> QED
      BY <2>5, <3>2, <3>3 DEF Joined
  <2> QED
    BY <2>4, <2>5
<1> QED
  BY IInvCorrect, <1>1, PTL
=============================================================================
