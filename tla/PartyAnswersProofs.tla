------------------------- MODULE PartyAnswersProofs -------------------------
(***************************************************************************)
(* What becomes of a leader's answer and of the notification of a formed   *)
(* party, for any number of peers and calls: members use lists that their  *)
(* leader announced, a handler never blocks on the channel of a leader's   *)
(* group, and if every peer calls once the members that succeed have the   *)
(* party that their leader formed.                                         *)
(***************************************************************************)
EXTENDS PartyCoordinatorProofs

USE DEF vars, groupVars, callVars, netVars

(***************************************************************************)
(* The answer is what the call that sent it has decided.                   *)
(***************************************************************************)
Truthful(msg) ==
  /\ Decided(msg.by)
  /\ msg.ids = party[msg.by]
  /\ msg.ok = Enough(party[msg.by])

(***************************************************************************)
(* Answers: answers in flight, in handlers and in a PeerStatus are         *)
(* truthful, and those of a PeerStatus are from its leader; no answer goes *)
(* to the peer that sends it, so that the group of a leader gets none.     *)
(***************************************************************************)
Answers ==
  /\ \A m \in responses : Truthful(m.msg) /\ m.to # Caller[m.msg.by]
  /\ \A hd \in respHandlers : /\ Truthful(hd.msg)
                              /\ leader[hd.on] = Caller[hd.msg.by] /\ ~IsLeader(hd.on)
  /\ \A c \in Calls : leaderResponse[c] # None =>
       Truthful(leaderResponse[c]) /\ leader[c] = Caller[leaderResponse[c].by]

(***************************************************************************)
(* Members: the list that a member has read was announced by its leader,   *)
(* and between its two reads of the answer there is one to be read.        *)
(***************************************************************************)
ListOf(c, d) == Decided(d) /\ Caller[d] = leader[c] /\ party[d] = party[c]

Answered(c) == /\ leaderResponse[c] \in LeaderComm
               /\ Truthful(leaderResponse[c]) /\ leader[c] = Caller[leaderResponse[c].by]

MemberOf(c) ==
  /\ leader[c] # None /\ ~IsLeader(c) /\ party[c] # {} => \E d \in Calls : ListOf(c, d)
  /\ stage[c] = "readType" => ~IsLeader(c) /\ party[c] # {} /\ Answered(c)
  /\ stage[c] = "respond" => IsLeader(c)

Members == \A c \in Calls : MemberOf(c)

(***************************************************************************)
(* Notified: the group of a leader is notified of its party once, by the   *)
(* handler that counts the last peer.                                      *)
(***************************************************************************)
Notifying(c) == {hd \in reqHandlers : hd.on = c /\ hd.pc = "notify"}

Notified ==
  \A c \in Calls : leader[c] = None \/ IsLeader(c) =>
    /\ reqCount[c] < Threshold => notify[c] = 0 /\ Notifying(c) = {}
    /\ Notifying(c) # {} => notify[c] = 0
    /\ \A hd, other \in Notifying(c) : hd = other

AInv == IInv /\ Answers /\ Members /\ Notified

-----------------------------------------------------------------------------
(***************************************************************************)
(* joinPartyLeader decides once: the list of a call that decided stays.    *)
(***************************************************************************)
LEMMA DecidedKept ==
  ASSUME IInv, [Next]_vars, NEW d \in Calls, Decided(d)
  PROVE  Decided(d)' /\ party'[d] = party[d] /\ leader'[d] = leader[d]
<1>1. leader[d] # None /\ leader[d] = Caller[d]
  BY CallsAssumption, PeersAssumption DEF Decided, IsLeader
<1>2. leader'[d] = leader[d]
  BY <1>1, LeaderKept DEF IInv
<1>3. party'[d] = party[d]
  <2>1. ASSUME NEW c \in Calls, MemberReadPeerIDs(c) PROVE party'[d] = party[d]
    <3>1. c # d
      BY <1>1, <2>1 DEF MemberReadPeerIDs, IsLeader
    <3>2. \A s \in SUBSET Peers : [party EXCEPT ![c] = s][d] = party[d]
      BY <3>1 DEF IInv, TypeOK
    <3>3. party' = party \/ party' = [party EXCEPT ![c] = leaderResponse[c].ids]
      BY <2>1 DEF MemberReadPeerIDs
    <3> QED
      BY <3>1, <3>3 DEF IInv, TypeOK
  <2>2. ASSUME NEW c \in Calls, LeaderDecide(c) PROVE party'[d] = party[d]
    <3>1. c # d
      BY <2>2 DEF LeaderDecide, IInv, Parties, Decided
    <3>2. party' = party \/ party' = [party EXCEPT ![c] = peersResponse[c] \union {Caller[c]}]
      BY <2>2 DEF LeaderDecide
    <3> QED
      BY <3>1, <3>2 DEF IInv, TypeOK
  <2>3. (\E c \in Calls : MemberReadPeerIDs(c) \/ LeaderDecide(c)) \/ UNCHANGED party
    BY DEF Next, CallStep, HandlerStep, NetworkStep, JoinPartyWithLeader, SignatureReceived,
       SendRequestToLeader, WakeOnNotify, WakeOnTimeout, WakeOnSignature, MemberReadType, LeaderReturn,
       UpdatePeer, NotifyPartyFormed, SetLeaderResponse, NotifyLeaderResponse, Notify, ReceiveRequest,
       ReceiveResponse, Crash
  <2> QED
    BY <2>1, <2>2, <2>3
<1> QED
  BY <1>1, <1>2, <1>3 DEF Decided, IsLeader

(***************************************************************************)
(* So does what an answer says of it.                                      *)
(***************************************************************************)
LEMMA TruthfulKept ==
  ASSUME IInv, [Next]_vars, NEW msg, msg.by \in Calls, Truthful(msg)
  PROVE  /\ leader'[msg.by] = Caller[msg.by] /\ party'[msg.by] # {}
         /\ msg.ids = party'[msg.by]
         /\ msg.ok = Enough(party'[msg.by])
  BY DecidedKept DEF Truthful, Enough, Decided, IsLeader

(***************************************************************************)
(* joinPartyLeader sends its own list to the others, and nothing on the    *)
(* way to a PeerStatus changes an answer or its addressee.                 *)
(***************************************************************************)
LEMMA AnswersNext ==
  ASSUME IInv, Answers, [Next]_vars
  PROVE  Answers'
<1> USE PeersAssumption, CallsAssumption
<1>0. TypeOK /\ Roles
  BY DEF IInv
<1> DEFINE Sound(msg) == /\ msg.by \in Calls
                         /\ leader'[msg.by] = Caller[msg.by] /\ party'[msg.by] # {}
                         /\ msg.ids = party'[msg.by]
                         /\ msg.ok = Enough(party'[msg.by])
<1>1. ASSUME NEW msg \in LeaderComm, Truthful(msg) PROVE Sound(msg)
  BY <1>1, TruthfulKept DEF LeaderComm
<1>2. \A m \in responses : Sound(m.msg) /\ m.to # Caller[m.msg.by]
  BY <1>0, <1>1 DEF Answers, TypeOK
<1>3. \A hd \in respHandlers : /\ hd.on \in Calls /\ Sound(hd.msg)
                               /\ leader'[hd.on] = Caller[hd.msg.by] /\ leader'[hd.on] # Caller[hd.on]
  <2> SUFFICES ASSUME NEW hd \in respHandlers
               PROVE  /\ hd.on \in Calls /\ Sound(hd.msg)
                      /\ leader'[hd.on] = Caller[hd.msg.by] /\ leader'[hd.on] # Caller[hd.on]
    OBVIOUS
  <2>1. hd.on \in Calls /\ hd.msg \in LeaderComm /\ hd.msg.by \in Calls
    BY <1>0 DEF TypeOK, RespHandler, LeaderComm
  <2>2. leader[hd.on] = Caller[hd.msg.by] /\ leader[hd.on] # Caller[hd.on] /\ leader[hd.on] # None
    BY <2>1 DEF Answers, IsLeader
  <2>3. leader'[hd.on] = leader[hd.on]
    BY <1>0, <2>1, <2>2, LeaderKept
  <2>4. Sound(hd.msg)
    BY <1>1, <2>1 DEF Answers
  <2> QED
    BY <2>1, <2>2, <2>3, <2>4
<1>4. \A c \in Calls : leaderResponse[c] # None =>
        Sound(leaderResponse[c]) /\ leader'[c] = Caller[leaderResponse[c].by]
  <2> SUFFICES ASSUME NEW c \in Calls, leaderResponse[c] # None
               PROVE  Sound(leaderResponse[c]) /\ leader'[c] = Caller[leaderResponse[c].by]
    OBVIOUS
  <2>1. leaderResponse[c] \in LeaderComm /\ leaderResponse[c].by \in Calls
    BY <1>0 DEF TypeOK, LeaderComm
  <2>2. leader[c] = Caller[leaderResponse[c].by] /\ leader[c] # None
    BY <2>1 DEF Answers
  <2>3. leader'[c] = leader[c]
    BY <1>0, <2>2, LeaderKept
  <2>4. Sound(leaderResponse[c])
    BY <1>1, <2>1 DEF Answers
  <2> QED
    BY <2>2, <2>3, <2>4
<1>5. SUFFICES /\ \A m \in responses' : Sound(m.msg) /\ m.to # Caller[m.msg.by]
               /\ \A hd \in respHandlers' : /\ hd.on \in Calls /\ Sound(hd.msg)
                                            /\ leader'[hd.on] = Caller[hd.msg.by]
                                            /\ leader'[hd.on] # Caller[hd.on]
               /\ \A c \in Calls : leaderResponse'[c] # None =>
                    Sound(leaderResponse'[c]) /\ leader'[c] = Caller[leaderResponse'[c].by]
  BY DEF Answers, Truthful, IsLeader, Enough, Decided
<1>6. \A m \in responses' : Sound(m.msg) /\ m.to # Caller[m.msg.by]
  <2>1. ASSUME NEW c \in Calls, LeaderDecide(c) PROVE \A m \in responses' : Sound(m.msg) /\ m.to # Caller[m.msg.by]
    <3>1. CASE responses' = responses
      BY <1>2, <3>1
    <3>2. CASE responses' # responses
      <4> DEFINE online == peersResponse[c] \union {Caller[c]}
                 msg == Announcement(c, online)
      <4>1. /\ party' = [party EXCEPT ![c] = online] /\ leader' = leader /\ IsLeader(c)
            /\ \E sent \in SUBSET (Peers \ {Caller[c]}) :
                 responses' = responses \union {[to |-> p, msg |-> msg] : p \in sent}
        BY <2>1, <3>2 DEF LeaderDecide
      <4>2. party'[c] = online /\ online # {}
        BY <1>0, <4>1 DEF TypeOK
      <4>3. leader'[c] = Caller[c] /\ party'[c] # {}
        BY <4>1, <4>2 DEF IsLeader
      <4>4. Sound(msg) /\ msg.by = c
        BY <4>2, <4>3 DEF Announcement, Enough
      <4> HIDE DEF Sound, msg
      <4> QED
        BY <1>2, <4>1, <4>4
    <3> QED
      BY <3>1, <3>2
  <2>2. (\E c \in Calls : LeaderDecide(c)) \/ responses' \subseteq responses
    BY DEF Next, CallStep, HandlerStep, NetworkStep, JoinPartyWithLeader, SignatureReceived,
       SendRequestToLeader, WakeOnNotify, WakeOnTimeout, WakeOnSignature, MemberReadPeerIDs, MemberReadType,
       LeaderReturn, UpdatePeer, NotifyPartyFormed, SetLeaderResponse, NotifyLeaderResponse, Notify,
       ReceiveRequest, ReceiveResponse, Crash
  <2> QED
    BY <1>2, <2>1, <2>2
<1>7. \A hd \in respHandlers' : /\ hd.on \in Calls /\ Sound(hd.msg)
                                /\ leader'[hd.on] = Caller[hd.msg.by] /\ leader'[hd.on] # Caller[hd.on]
  <2>1. ASSUME NEW m \in responses, ReceiveResponse(m), peersGroup[m.to] # None,
               leader[peersGroup[m.to]] = Caller[m.msg.by]
        PROVE  /\ peersGroup[m.to] \in Calls /\ Sound(m.msg)
               /\ leader'[peersGroup[m.to]] = Caller[m.msg.by]
               /\ leader'[peersGroup[m.to]] # Caller[peersGroup[m.to]]
    <3>1. m.to \in Peers /\ peersGroup[m.to] \in Calls /\ Caller[peersGroup[m.to]] = m.to
      BY <1>0, <2>1 DEF TypeOK, Roles
    <3>2. leader' = leader
      BY <2>1 DEF ReceiveResponse
    <3> QED
      BY <1>2, <2>1, <3>1, <3>2
  <2>2. ASSUME NEW m \in responses, ReceiveResponse(m)
        PROVE  \A hd \in respHandlers' : /\ hd.on \in Calls /\ Sound(hd.msg)
                                         /\ leader'[hd.on] = Caller[hd.msg.by]
                                         /\ leader'[hd.on] # Caller[hd.on]
    <3> HIDE DEF Sound
    <3> QED
      BY <1>3, <2>1, <2>2 DEF ReceiveResponse
  <2>3. ASSUME NEW hd \in respHandlers, SetLeaderResponse(hd)
        PROVE  \A x \in respHandlers' : /\ x.on \in Calls /\ Sound(x.msg)
                                        /\ leader'[x.on] = Caller[x.msg.by] /\ leader'[x.on] # Caller[x.on]
    <3> HIDE DEF Sound
    <3> QED
      BY <1>3, <2>3 DEF SetLeaderResponse
  <2>4. \/ \E m \in responses : ReceiveResponse(m)
        \/ \E hd \in respHandlers : SetLeaderResponse(hd)
        \/ respHandlers' \subseteq respHandlers
    BY DEF Next, CallStep, HandlerStep, NetworkStep, JoinPartyWithLeader, SignatureReceived,
       SendRequestToLeader, WakeOnNotify, WakeOnTimeout, WakeOnSignature, MemberReadPeerIDs, MemberReadType,
       LeaderDecide, LeaderReturn, UpdatePeer, NotifyPartyFormed, NotifyLeaderResponse, Notify,
       ReceiveRequest, Crash
  <2> QED
    BY <1>3, <2>2, <2>3, <2>4
<1>8. \A c \in Calls : leaderResponse'[c] # None =>
        Sound(leaderResponse'[c]) /\ leader'[c] = Caller[leaderResponse'[c].by]
  <2>1. ASSUME NEW hd \in respHandlers, SetLeaderResponse(hd)
        PROVE  \A c \in Calls : leaderResponse'[c] # None =>
                 Sound(leaderResponse'[c]) /\ leader'[c] = Caller[leaderResponse'[c].by]
    <3>1. leaderResponse' = [leaderResponse EXCEPT ![hd.on] = hd.msg]
      BY <2>1 DEF SetLeaderResponse
    <3>2. \A c \in Calls : leaderResponse'[c] = IF c = hd.on THEN hd.msg ELSE leaderResponse[c]
      BY <1>0, <3>1 DEF TypeOK
    <3> HIDE DEF Sound
    <3> QED
      BY <1>3, <1>4, <3>2
  <2>2. (\E hd \in respHandlers : SetLeaderResponse(hd)) \/ leaderResponse' = leaderResponse
    BY DEF Next, CallStep, HandlerStep, NetworkStep, JoinPartyWithLeader, SignatureReceived,
       SendRequestToLeader, WakeOnNotify, WakeOnTimeout, WakeOnSignature, MemberReadPeerIDs, MemberReadType,
       LeaderDecide, LeaderReturn, UpdatePeer, NotifyPartyFormed, NotifyLeaderResponse, Notify,
       ReceiveRequest, ReceiveResponse, Crash
  <2> HIDE DEF Sound
  <2> QED
    BY <1>4, <2>1, <2>2
<1> QED
  BY <1>6, <1>7, <1>8

(***************************************************************************)
(* A call's list and leader change in three of its own steps only; no      *)
(* other step brings it to read the type or to the leader's answers.       *)
(***************************************************************************)
LEMMA CallUnchanged ==
  ASSUME TypeOK, [Next]_vars, NEW c \in Calls
  PROVE  \/ JoinPartyWithLeader(c) \/ MemberReadPeerIDs(c) \/ LeaderDecide(c)
         \/ /\ party'[c] = party[c] /\ leader'[c] = leader[c]
            /\ stage'[c] = stage[c] \/ stage'[c] \notin {"readType", "respond"}
<1> DEFINE Same == /\ party'[c] = party[c] /\ leader'[c] = leader[c]
                   /\ stage'[c] = stage[c] \/ stage'[c] \notin {"readType", "respond"}
<1>1. ASSUME NEW x \in Calls, x # c, JoinPartyWithLeader(x) PROVE Same
  BY <1>1 DEF JoinPartyWithLeader, TypeOK
<1>2. ASSUME NEW x \in Calls, x # c, MemberReadPeerIDs(x) PROVE Same
  <2>1. /\ party' = party \/ party' = [party EXCEPT ![x] = leaderResponse[x].ids]
        /\ \E to \in Stages : stage' = [stage EXCEPT ![x] = to]
        /\ leader' = leader
    BY <1>2 DEF MemberReadPeerIDs, Return, Stages
  <2> QED
    BY <1>2, <2>1 DEF TypeOK
<1>3. ASSUME NEW x \in Calls, x # c, LeaderDecide(x) PROVE Same
  <2>1. /\ party' = party \/ party' = [party EXCEPT ![x] = peersResponse[x] \union {Caller[x]}]
        /\ \E to \in Stages : stage' = [stage EXCEPT ![x] = to]
        /\ leader' = leader
    BY <1>3 DEF LeaderDecide, Return, Stages
  <2> QED
    BY <1>3, <2>1 DEF TypeOK
<1>4. ASSUME NEW x \in Calls,
             \/ WakeOnNotify(x) \/ WakeOnTimeout(x) \/ WakeOnSignature(x)
             \/ MemberReadType(x) \/ LeaderReturn(x)
      PROVE  Same
  <2>1. /\ party' = party /\ leader' = leader
        /\ \E to \in {"wait", "woken", "done"} : stage' = [stage EXCEPT ![x] = to]
    BY <1>4 DEF WakeOnNotify, WakeOnTimeout, WakeOnSignature, MemberReadType, LeaderReturn, Return
  <2> QED
    BY <2>1 DEF TypeOK
<1>5. ASSUME NEW p \in Peers, Crash(p) PROVE Same
  BY <1>5 DEF Crash
<1>6. ASSUME UNCHANGED <<party, leader, stage>> PROVE Same
  BY <1>6
<1>7. \/ \E x \in Calls : \/ JoinPartyWithLeader(x) \/ MemberReadPeerIDs(x) \/ LeaderDecide(x)
                         \/ WakeOnNotify(x) \/ WakeOnTimeout(x) \/ WakeOnSignature(x)
                         \/ MemberReadType(x) \/ LeaderReturn(x)
      \/ \E p \in Peers : Crash(p)
      \/ UNCHANGED <<party, leader, stage>>
  BY DEF Next, CallStep, HandlerStep, NetworkStep, SignatureReceived, SendRequestToLeader, UpdatePeer,
     NotifyPartyFormed, SetLeaderResponse, NotifyLeaderResponse, Notify, ReceiveRequest, ReceiveResponse
<1> HIDE DEF Same
<1>8. JoinPartyWithLeader(c) \/ MemberReadPeerIDs(c) \/ LeaderDecide(c) \/ Same
  <2>1. ASSUME NEW x \in Calls, JoinPartyWithLeader(x) \/ MemberReadPeerIDs(x) \/ LeaderDecide(x)
        PROVE  JoinPartyWithLeader(c) \/ MemberReadPeerIDs(c) \/ LeaderDecide(c) \/ Same
    <3>1. CASE x = c
      BY <2>1, <3>1
    <3>2. CASE x # c
      BY <2>1, <3>2, <1>1, <1>2, <1>3
    <3> QED
      BY <3>1, <3>2
  <2> QED
    BY <2>1, <1>4, <1>5, <1>6, <1>7
<1> QED
  BY <1>8 DEF Same

(***************************************************************************)
(* joinPartyMember takes the list from an answer of its leader; later      *)
(* answers may replace the one it read, but are truthful too.              *)
(***************************************************************************)
LEMMA MembersNext ==
  ASSUME IInv, Answers, Members, [Next]_vars
  PROVE  Members'
<1> USE PeersAssumption, CallsAssumption
<1>a. Answers'
  BY AnswersNext
<1>b. TypeOK /\ Roles /\ Parties
  BY DEF IInv
<1>0. TypeOK /\ Roles /\ Parties /\ TypeOK' /\ Answers'
  BY <1>a, <1>b, TypeNext
<1> SUFFICES ASSUME NEW c \in Calls PROVE MemberOf(c)'
  BY DEF Members
<1>1. CASE JoinPartyWithLeader(c)
  <2>1. stage'[c] = "wait" /\ party' = party /\ party[c] = {}
    BY <1>0, <1>1 DEF JoinPartyWithLeader, TypeOK, Parties
  <2> QED
    BY <2>1 DEF MemberOf
<1>2. CASE MemberReadPeerIDs(c)
  <2>1. ~IsLeader(c) /\ leader' = leader /\ leaderResponse' = leaderResponse /\ stage[c] = "woken"
    BY <1>2 DEF MemberReadPeerIDs
  <2>2. CASE party' = party
    <3>1. party'[c] = {}
      BY <1>0, <2>1, <2>2 DEF Parties
    <3>2. stage'[c] = "done"
      <4>1. \/ stage' = [stage EXCEPT ![c] = "done"]
            \/ party' = [party EXCEPT ![c] = leaderResponse[c].ids] /\ leaderResponse[c] # None
        BY <1>2 DEF MemberReadPeerIDs, Return
      <4>2. leaderResponse[c] # None => leaderResponse[c].ids # {}
        BY <1>0 DEF Answers, Truthful, Decided
      <4> QED
        BY <1>0, <3>1, <4>1, <4>2 DEF TypeOK
    <3> QED
      BY <3>1, <3>2 DEF MemberOf
  <2>3. CASE party' # party
    <3>1. leaderResponse[c] # None /\ party' = [party EXCEPT ![c] = leaderResponse[c].ids]
      BY <1>2, <2>3 DEF MemberReadPeerIDs
    <3>2. PICK d \in Calls : leaderResponse[c] \in LeaderComm /\ d = leaderResponse[c].by
      BY <1>0, <3>1 DEF TypeOK, LeaderComm
    <3>3. /\ Truthful(leaderResponse[c]) /\ leader[c] = Caller[d]
          /\ Decided(d) /\ leaderResponse[c].ids = party[d]
      BY <3>1, <3>2 DEF Answers, Truthful
    <3>4. Decided(d)' /\ party'[d] = party[d]
      BY <3>3, DecidedKept
    <3>5. party'[c] = party[d] /\ party[d] # {}
      BY <1>0, <3>1, <3>3 DEF TypeOK, Truthful, Decided
    <3>6. leader'[c] = Caller[d]
      BY <2>1, <3>3
    <3>7. \E e \in Calls : ListOf(c, e)'
      BY <3>4, <3>5, <3>6 DEF ListOf
    <3>8. Answered(c)'
      BY <1>0, <2>1, <3>1, <3>2 DEF Answered, Answers
    <3>9. stage'[c] # "respond"
      BY <1>0, <1>2 DEF MemberReadPeerIDs, Return, TypeOK
    <3> QED
      BY <2>1, <3>5, <3>7, <3>8, <3>9 DEF MemberOf, IsLeader
  <2> QED
    BY <2>2, <2>3
<1>3. CASE LeaderDecide(c)
  <2>1. IsLeader(c)' /\ stage'[c] # "readType"
    BY <1>0, <1>3 DEF LeaderDecide, Return, IsLeader, TypeOK
  <2> QED
    BY <2>1 DEF MemberOf
<1>4. CASE /\ party'[c] = party[c] /\ leader'[c] = leader[c]
           /\ stage'[c] = stage[c] \/ stage'[c] \notin {"readType", "respond"}
  <2>1. IsLeader(c)' <=> IsLeader(c)
    BY <1>4 DEF IsLeader
  <2>2. MemberOf(c)
    BY DEF Members
  <2>3. leader'[c] # None /\ ~IsLeader(c)' /\ party'[c] # {} => \E d \in Calls : ListOf(c, d)'
    <3>1. SUFFICES ASSUME leader[c] # None, ~IsLeader(c), party[c] # {}
                   PROVE  \E d \in Calls : ListOf(c, d)'
      BY <1>4, <2>1
    <3>2. PICK d \in Calls : ListOf(c, d)
      BY <2>2, <3>1 DEF MemberOf
    <3>3. Decided(d)' /\ party'[d] = party[d]
      BY <3>2, DecidedKept DEF ListOf
    <3> QED
      BY <1>4, <3>2, <3>3 DEF ListOf
  <2>4. ASSUME stage'[c] = "readType" PROVE ~IsLeader(c)' /\ party'[c] # {} /\ Answered(c)'
    <3>1. ~IsLeader(c) /\ party[c] # {} /\ Answered(c)
      BY <1>4, <2>2, <2>4 DEF MemberOf
    <3>2. CASE leaderResponse'[c] = leaderResponse[c]
      <4>1. leaderResponse[c].by \in Calls /\ leaderResponse[c] \in LeaderComm
        BY <3>1 DEF Answered, LeaderComm
      <4>2. /\ leader'[leaderResponse[c].by] = Caller[leaderResponse[c].by]
            /\ party'[leaderResponse[c].by] # {}
            /\ leaderResponse[c].ids = party'[leaderResponse[c].by]
            /\ leaderResponse[c].ok = Enough(party'[leaderResponse[c].by])
        BY <3>1, <4>1, TruthfulKept DEF Answered
      <4> QED
        BY <1>4, <2>1, <3>1, <3>2, <4>1, <4>2 DEF Answered, Truthful, Decided, IsLeader, Enough
    <3>3. ASSUME NEW hd \in respHandlers, SetLeaderResponse(hd), leaderResponse'[c] # leaderResponse[c]
          PROVE  Answered(c)'
      <4>1. leaderResponse' = [leaderResponse EXCEPT ![hd.on] = hd.msg]
        BY <3>3 DEF SetLeaderResponse
      <4>2. leaderResponse'[c] = hd.msg /\ hd.on = c
        BY <1>0, <3>3, <4>1 DEF TypeOK
      <4>3. hd.msg \in LeaderComm /\ Truthful(hd.msg) /\ leader[c] = Caller[hd.msg.by]
        BY <1>0, <4>2 DEF TypeOK, RespHandler, Answers
      <4>4. UNCHANGED <<party, leader>>
        BY <3>3 DEF SetLeaderResponse
      <4> QED
        BY <4>2, <4>3, <4>4 DEF Answered, Truthful, Decided, IsLeader, Enough
    <3>4. (\E hd \in respHandlers : SetLeaderResponse(hd)) \/ leaderResponse' = leaderResponse
      BY DEF Next, CallStep, HandlerStep, NetworkStep, JoinPartyWithLeader, SignatureReceived,
         SendRequestToLeader, WakeOnNotify, WakeOnTimeout, WakeOnSignature, MemberReadPeerIDs,
         MemberReadType, LeaderDecide, LeaderReturn, UpdatePeer, NotifyPartyFormed, NotifyLeaderResponse,
         Notify, ReceiveRequest, ReceiveResponse, Crash
    <3> QED
      BY <1>4, <2>1, <3>1, <3>2, <3>3, <3>4
  <2>5. stage'[c] = "respond" => IsLeader(c)'
    BY <1>4, <2>1, <2>2 DEF MemberOf
  <2> QED
    BY <2>3, <2>4, <2>5 DEF MemberOf
<1> QED
  BY <1>0, <1>1, <1>2, <1>3, <1>4, CallUnchanged

(***************************************************************************)
(* updatePeer reports a formed party when it counts the last peer, which   *)
(* happens once; an answer is never put into the group of a leader.        *)
(***************************************************************************)
LEMMA NotifiedNext ==
  ASSUME IInv, Answers, Notified, [Next]_vars
  PROVE  Notified'
<1> USE PeersAssumption, CallsAssumption, ThresholdAssumption
<1>0. TypeOK /\ Roles
  BY DEF IInv
<1> SUFFICES ASSUME NEW c \in Calls, leader'[c] = None \/ leader'[c] = Caller[c]
             PROVE  /\ reqCount'[c] < Threshold => notify'[c] = 0 /\ Notifying(c)' = {}
                    /\ Notifying(c)' # {} => notify'[c] = 0
                    /\ \A hd, other \in Notifying(c)' : hd = other
  BY DEF Notified, IsLeader
<1> DEFINE Once == /\ reqCount'[c] < Threshold => notify'[c] = 0 /\ Notifying(c)' = {}
                   /\ Notifying(c)' # {} => notify'[c] = 0
                   /\ \A hd, other \in Notifying(c)' : hd = other
<1>1. leader[c] = None \/ IsLeader(c)
  BY <1>0, LeaderKept DEF IsLeader
<1>2. /\ reqCount[c] < Threshold => notify[c] = 0 /\ Notifying(c) = {}
      /\ Notifying(c) # {} => notify[c] = 0
      /\ \A hd, other \in Notifying(c) : hd = other
  BY <1>1 DEF Notified
<1>3. ASSUME reqCount'[c] = reqCount[c], notify'[c] = notify[c], Notifying(c)' \subseteq Notifying(c)
      PROVE  Once
  BY <1>2, <1>3
<1>4. ASSUME NEW hd \in reqHandlers, UpdatePeer(hd) PROVE Once
  <2> DEFINE new == [on |-> hd.on, from |-> hd.from, pc |-> "notify"]
  <2>1. /\ hd.on \in Calls /\ leader[hd.on] # None /\ notify' = notify
        /\ reqCount[hd.on] \in Nat /\ reqCount \in [Calls -> Nat]
    BY <1>0, <1>4 DEF TypeOK, Roles, ReqHandler, UpdatePeer
  <2>2. CASE hd.on = c /\ Counted(c, hd.from)
    <3>1. reqCount' = [reqCount EXCEPT ![c] = reqCount[c] + 1] /\ reqCount[c] < Threshold
      BY <1>4, <2>2 DEF UpdatePeer, Counted
    <3>2. notify'[c] = 0 /\ Notifying(c) = {} /\ reqCount'[c] = reqCount[c] + 1
      BY <1>2, <2>1, <3>1
    <3>3. CASE reqCount[c] + 1 >= Threshold
      <4>1. reqHandlers' = (reqHandlers \ {hd}) \union {new}
        BY <1>4, <2>2, <3>3 DEF UpdatePeer
      <4> HIDE DEF new
      <4>2. Notifying(c)' \subseteq Notifying(c) \union {new}
        BY <4>1 DEF Notifying
      <4>3. ~(reqCount'[c] < Threshold)
        BY <2>1, <2>2, <3>2, <3>3
      <4> QED
        BY <3>2, <4>2, <4>3
    <3>4. CASE ~(reqCount[c] + 1 >= Threshold)
      <4>1. reqHandlers' = reqHandlers \ {hd}
        BY <1>4, <2>2, <3>4 DEF UpdatePeer
      <4>2. Notifying(c)' = {}
        BY <3>2, <4>1 DEF Notifying
      <4> QED
        BY <3>2, <4>2
    <3> QED
      BY <3>3, <3>4
  <2>3. CASE hd.on # c \/ ~Counted(c, hd.from)
    <3>1. reqCount'[c] = reqCount[c]
      <4>1. CASE hd.on = c
        BY <1>4, <2>3, <4>1 DEF UpdatePeer
      <4>2. CASE hd.on # c
        <5>1. reqCount' = reqCount \/ reqCount' = [reqCount EXCEPT ![hd.on] = reqCount[hd.on] + 1]
          BY <1>4 DEF UpdatePeer
        <5> QED
          BY <2>1, <4>2, <5>1
      <4> QED
        BY <4>1, <4>2
    <3>2. Notifying(c)' \subseteq Notifying(c)
      <4>1. CASE hd.on = c
        <5>1. reqHandlers' = reqHandlers \ {hd}
          BY <1>4, <2>3, <4>1 DEF UpdatePeer
        <5> QED
          BY <5>1 DEF Notifying
      <4>2. CASE hd.on # c
        <5>1. reqHandlers' \subseteq reqHandlers \union {new}
          BY <1>4 DEF UpdatePeer
        <5>2. new.on # c
          BY <4>2
        <5> HIDE DEF new
        <5> QED
          BY <5>1, <5>2 DEF Notifying
      <4> QED
        BY <4>1, <4>2
    <3> QED
      BY <1>3, <2>1, <3>1, <3>2
  <2> QED
    BY <2>2, <2>3
<1>5. ASSUME NEW hd \in reqHandlers, NotifyPartyFormed(hd) PROVE Once
  <2>1. /\ hd.on \in Calls /\ reqCount' = reqCount /\ reqHandlers' = reqHandlers \ {hd} /\ hd.pc = "notify"
        /\ notify' = [notify EXCEPT ![hd.on] = notify[hd.on] + 1]
    BY <1>0, <1>5 DEF TypeOK, ReqHandler, NotifyPartyFormed, Notify
  <2>2. CASE hd.on = c
    <3>1. hd \in Notifying(c)
      BY <2>1, <2>2 DEF Notifying
    <3>2. Notifying(c)' = Notifying(c) \ {hd}
      BY <2>1 DEF Notifying
    <3>3. Notifying(c)' = {}
      BY <1>2, <3>1, <3>2
    <3>4. ~(reqCount'[c] < Threshold)
      BY <1>2, <2>1, <3>1
    <3> QED
      BY <3>3, <3>4
  <2>3. CASE hd.on # c
    <3>1. notify'[c] = notify[c]
      BY <1>0, <2>1, <2>3 DEF TypeOK
    <3>2. Notifying(c)' \subseteq Notifying(c)
      BY <2>1 DEF Notifying
    <3> QED
      BY <1>3, <2>1, <3>1, <3>2
  <2> QED
    BY <2>2, <2>3
<1>6. ASSUME NEW hd \in respHandlers, NotifyLeaderResponse(hd) PROVE Once
  <2>1. /\ hd.on \in Calls /\ hd.msg.by \in Calls
        /\ reqCount' = reqCount /\ reqHandlers' = reqHandlers
        /\ notify' = [notify EXCEPT ![hd.on] = notify[hd.on] + 1]
    BY <1>0, <1>6 DEF TypeOK, RespHandler, LeaderComm, NotifyLeaderResponse, Notify
  <2>2. hd.on # c
    BY <1>1, <2>1 DEF Answers
  <2>3. notify'[c] = notify[c]
    BY <1>0, <2>1, <2>2 DEF TypeOK
  <2> QED
    BY <1>3, <2>1, <2>3 DEF Notifying
<1>7. ASSUME NEW x \in Calls, WakeOnNotify(x) PROVE Once
  <2>1. /\ notify' = [notify EXCEPT ![x] = notify[x] - 1] /\ notify[x] > 0
        /\ reqCount' = reqCount /\ reqHandlers' = reqHandlers
    BY <1>7 DEF WakeOnNotify
  <2>2. CASE x = c
    <3>1. notify[c] # 0
      BY <2>1, <2>2
    <3>2. Notifying(c) = {} /\ ~(reqCount[c] < Threshold)
      BY <1>2, <3>1
    <3> QED
      BY <2>1, <3>2 DEF Notifying
  <2>3. CASE x # c
    <3>1. notify'[c] = notify[c]
      BY <1>0, <2>1, <2>3 DEF TypeOK
    <3> QED
      BY <1>3, <2>1, <3>1 DEF Notifying
  <2> QED
    BY <2>2, <2>3
<1>8. ASSUME UNCHANGED <<reqCount, notify>>,
             \A hd \in reqHandlers' : hd.pc = "notify" => hd \in reqHandlers
      PROVE  Once
  <2>1. Notifying(c)' \subseteq Notifying(c)
    BY <1>8 DEF Notifying
  <2> QED
    BY <1>3, <1>8, <2>1
<1>9. \/ \E hd \in reqHandlers : UpdatePeer(hd) \/ NotifyPartyFormed(hd)
      \/ \E hd \in respHandlers : NotifyLeaderResponse(hd)
      \/ \E x \in Calls : WakeOnNotify(x)
      \/ /\ UNCHANGED <<reqCount, notify>>
         /\ \A hd \in reqHandlers' : hd.pc = "notify" => hd \in reqHandlers
  <2>1. ASSUME NEW p \in Peers, NEW q \in Peers, ReceiveRequest(p, q)
        PROVE  /\ UNCHANGED <<reqCount, notify>>
               /\ \A hd \in reqHandlers' : hd.pc = "notify" => hd \in reqHandlers
    BY <2>1 DEF ReceiveRequest
  <2>2. \/ \E hd \in reqHandlers : UpdatePeer(hd) \/ NotifyPartyFormed(hd)
        \/ \E hd \in respHandlers : NotifyLeaderResponse(hd)
        \/ \E x \in Calls : WakeOnNotify(x)
        \/ \E p, q \in Peers : ReceiveRequest(p, q)
        \/ UNCHANGED <<reqCount, notify>> /\ reqHandlers' \subseteq reqHandlers
    BY DEF Next, CallStep, HandlerStep, NetworkStep, JoinPartyWithLeader, SignatureReceived,
       SendRequestToLeader, WakeOnTimeout, WakeOnSignature, MemberReadPeerIDs, MemberReadType,
       LeaderDecide, LeaderReturn, SetLeaderResponse, ReceiveResponse, Crash
  <2> QED
    BY <2>1, <2>2
<1> HIDE DEF Once
<1>10. Once
  BY <1>4, <1>5, <1>6, <1>7, <1>8, <1>9
<1> QED
  BY <1>10 DEF Once

(***************************************************************************)
(* Before any call there is no answer, no list and no notification.        *)
(***************************************************************************)
LEMMA InitAInv == Init => AInv
<1> SUFFICES ASSUME Init PROVE AInv
  OBVIOUS
<1> USE PeersAssumption, CallsAssumption, ThresholdAssumption
<1>1. Answers
  BY DEF Init, Answers
<1>2. Members
  BY DEF Init, Members, MemberOf
<1>3. Notified
  BY DEF Init, Notified, Notifying
<1> QED
  BY <1>1, <1>2, <1>3, InitIInv DEF AInv

(***************************************************************************)
(* Every step of the coordinator keeps what is known of answers, lists and *)
(* notifications.                                                          *)
(***************************************************************************)
LEMMA NextAInv == AInv /\ [Next]_vars => AInv'
<1> SUFFICES ASSUME AInv, [Next]_vars PROVE AInv'
  OBVIOUS
<1>1. IInv /\ Answers /\ Members /\ Notified
  BY DEF AInv
<1>2. IInv'
  BY <1>1, NextIInv
<1>3. Answers'
  BY <1>1, AnswersNext
<1>4. Members'
  BY <1>1, MembersNext
<1>5. Notified'
  BY <1>1, NotifiedNext
<1> QED
  BY <1>2, <1>3, <1>4, <1>5 DEF AInv

(***************************************************************************)
(* Answers, member lists and notifications of the coordinator are as they  *)
(* should be in every reachable state.                                     *)
(***************************************************************************)
THEOREM AInvCorrect == Spec => []AInv
  BY InitAInv, NextAInv, PTL DEF Spec

(***************************************************************************)
(* joinPartyMember only ever takes a list that the leader it joined has    *)
(* announced, whatever is lost, late, repeated or crashed.                 *)
(***************************************************************************)
THEOREM MemberListAnnouncedCorrect == Spec => []MemberListAnnounced
<1>1. AInv => MemberListAnnounced
  BY DEF AInv, Members, MemberOf, ListOf, MemberListAnnounced
<1> QED
  BY <1>1, AInvCorrect, PTL

(***************************************************************************)
(* No stream handler ever blocks on the notify channel of a leader's       *)
(* group: updatePeer notifies it once, and processRespMsg never does.      *)
(***************************************************************************)
THEOREM LeaderHandlersNeverBlockCorrect == Spec => []LeaderHandlersNeverBlock
<1>1. AInv => LeaderHandlersNeverBlock
  <2> SUFFICES ASSUME AInv, NEW hd \in reqHandlers \union respHandlers,
                      hd.pc = "notify", IsLeader(hd.on)
               PROVE  notify[hd.on] = 0
    BY DEF LeaderHandlersNeverBlock
  <2>1. hd \notin respHandlers
    BY DEF AInv, Answers
  <2>2. hd \in Notifying(hd.on) /\ hd.on \in Calls
    BY <2>1 DEF Notifying, AInv, IInv, TypeOK, ReqHandler
  <2> QED
    BY <2>2 DEF AInv, Notified
<1> QED
  BY <1>1, AInvCorrect, PTL

-----------------------------------------------------------------------------
(***************************************************************************)
(* Succeeded: a call that succeeded has returned, and its list is one of a *)
(* party that its leader formed.                                           *)
(***************************************************************************)
Succeeded == /\ \A c \in Calls : result[c] = "success" => stage[c] = "done"
             /\ MemberPartyFormed

(***************************************************************************)
(* A call succeeds by reading a Success answer or by forming the party     *)
(* itself, and in both cases it returns.                                   *)
(***************************************************************************)
LEMMA SuccessStep ==
  ASSUME IInv, Succeeded, [Next]_vars, NEW c \in Calls, result'[c] = "success"
  PROVE  /\ stage'[c] = "done"
         /\ \/ result[c] = "success"
            \/ MemberReadType(c) /\ leaderResponse[c].ok
            \/ LeaderReturn(c)
<1> DEFINE Goal == /\ stage'[c] = "done"
                   /\ \/ result[c] = "success"
                      \/ MemberReadType(c) /\ leaderResponse[c].ok
                      \/ LeaderReturn(c)
<1> USE PeersAssumption
<1>0. TypeOK
  BY DEF IInv
<1>1. result[c] = "success" => stage[c] = "done"
  BY DEF Succeeded
<1>2. ASSUME NEW x \in Calls, NEW to \in Stages, NEW res \in Results,
             stage' = [stage EXCEPT ![x] = to],
             result' = [result EXCEPT ![x] = res] \/ result' = result,
             stage[x] # "done", x # c \/ res # "success" \/ result' = result
      PROVE  Goal
  <2>1. CASE x = c
    BY <1>0, <1>1, <1>2, <2>1 DEF TypeOK
  <2>2. CASE x # c
    BY <1>0, <1>1, <1>2, <2>2 DEF TypeOK
  <2> QED
    BY <2>1, <2>2
<1>3. ASSUME NEW x \in Calls, JoinPartyWithLeader(x) \/ WakeOnNotify(x) \/ WakeOnTimeout(x) \/ WakeOnSignature(x)
      PROVE  Goal
  <2>1. /\ \E to \in Stages : stage' = [stage EXCEPT ![x] = to]
        /\ result' = result /\ stage[x] # "done"
    BY <1>3 DEF JoinPartyWithLeader, WakeOnNotify, WakeOnTimeout, WakeOnSignature, Stages
  <2>2. None \in Results
    BY DEF Results
  <2> HIDE DEF Goal
  <2> QED
    BY <1>2, <2>1, <2>2
<1>4. ASSUME NEW x \in Calls, MemberReadPeerIDs(x) \/ LeaderDecide(x) PROVE Goal
  <2>1. /\ \E to \in Stages : stage' = [stage EXCEPT ![x] = to]
        /\ stage[x] # "done"
        /\ \/ result' = result
           \/ \E res \in Results \ {"success"} : result' = [result EXCEPT ![x] = res]
    BY <1>4 DEF MemberReadPeerIDs, LeaderDecide, Return, Stages, Results
  <2>2. None \in Results
    BY DEF Results
  <2> HIDE DEF Goal
  <2> QED
    BY <1>2, <2>1, <2>2
<1>5. ASSUME NEW x \in Calls, MemberReadType(x) PROVE Goal
  <2> DEFINE res == IF leaderResponse[x].ok THEN "success" ELSE "joinPartyTimeout"
  <2>1. /\ stage' = [stage EXCEPT ![x] = "done"] /\ stage[x] # "done"
        /\ result' = [result EXCEPT ![x] = res]
    BY <1>5 DEF MemberReadType, Return
  <2>2. CASE x = c
    <3>1. stage'[c] = "done" /\ result'[c] = res
      BY <1>0, <2>1, <2>2 DEF TypeOK
    <3> QED
      BY <1>5, <2>2, <3>1
  <2>3. CASE x # c
    BY <1>0, <1>1, <2>1, <2>3 DEF TypeOK
  <2> QED
    BY <2>2, <2>3
<1>6. ASSUME NEW x \in Calls, LeaderReturn(x) PROVE Goal
  <2> DEFINE res == IF Enough(party[x]) THEN "success" ELSE "joinPartyTimeout"
  <2>1. /\ stage' = [stage EXCEPT ![x] = "done"] /\ stage[x] # "done"
        /\ result' = [result EXCEPT ![x] = res]
    BY <1>6 DEF LeaderReturn, Return
  <2>2. CASE x = c
    BY <1>0, <1>6, <2>1, <2>2 DEF TypeOK
  <2>3. CASE x # c
    BY <1>0, <1>1, <2>1, <2>3 DEF TypeOK
  <2> QED
    BY <2>2, <2>3
<1>7. ASSUME NEW p \in Peers, Crash(p) PROVE Goal
  BY <1>1, <1>7 DEF Crash, Running
<1>8. ASSUME UNCHANGED <<stage, result>> PROVE Goal
  BY <1>1, <1>8
<1>9. \/ \E x \in Calls : \/ JoinPartyWithLeader(x) \/ WakeOnNotify(x) \/ WakeOnTimeout(x)
                         \/ WakeOnSignature(x) \/ MemberReadPeerIDs(x) \/ LeaderDecide(x)
                         \/ MemberReadType(x) \/ LeaderReturn(x)
      \/ \E p \in Peers : Crash(p)
      \/ UNCHANGED <<stage, result>>
  BY DEF Next, CallStep, HandlerStep, NetworkStep, SignatureReceived, SendRequestToLeader, UpdatePeer,
     NotifyPartyFormed, SetLeaderResponse, NotifyLeaderResponse, Notify, ReceiveRequest, ReceiveResponse
<1> HIDE DEF Goal
<1>10. Goal
  BY <1>3, <1>4, <1>5, <1>6, <1>7, <1>8, <1>9
<1> QED
  BY <1>10 DEF Goal

(***************************************************************************)
(* If every peer calls once, the two reads of a member's answer see the    *)
(* answer of the same call of the leader.                                  *)
(***************************************************************************)
LEMMA SucceededNext ==
  ASSUME \A c, d \in Calls : Caller[c] = Caller[d] => c = d,
         AInv, Succeeded, [Next]_vars
  PROVE  Succeeded'
<1> USE PeersAssumption, CallsAssumption
<1>0. IInv /\ TypeOK /\ Roles /\ Members
  BY DEF AInv, IInv
<1>1. \A c \in Calls : result'[c] = "success" => stage'[c] = "done"
  BY <1>0, SuccessStep
<1>2. ASSUME NEW c \in Calls, result'[c] = "success", leader'[c] # Caller[c]
      PROVE  \E d \in Calls : FormedParty(d)' /\ Caller[d] = leader'[c] /\ party'[d] = party'[c]
  <2>1. ASSUME NEW d \in Calls, FormedParty(d), Caller[d] = leader[c], party[d] = party[c],
               leader'[c] = leader[c], party'[c] = party[c]
        PROVE  FormedParty(d)' /\ Caller[d] = leader'[c] /\ party'[d] = party'[c]
    <3>1. Decided(d)' /\ party'[d] = party[d]
      BY <1>0, <2>1, DecidedKept DEF FormedParty
    <3> QED
      BY <2>1, <3>1 DEF FormedParty, Enough
  <2>2. CASE result[c] = "success"
    <3>1. stage[c] = "done"
      BY <2>2 DEF Succeeded
    <3>2. ~JoinPartyWithLeader(c) /\ ~MemberReadPeerIDs(c) /\ ~LeaderDecide(c)
      BY <3>1 DEF JoinPartyWithLeader, MemberReadPeerIDs, LeaderDecide
    <3>3. party'[c] = party[c] /\ leader'[c] = leader[c]
      BY <1>0, <3>2, CallUnchanged
    <3>4. PICK d \in Calls : FormedParty(d) /\ Caller[d] = leader[c] /\ party[d] = party[c]
      BY <1>2, <2>2, <3>3 DEF Succeeded, MemberPartyFormed, IsLeader
    <3> QED
      BY <2>1, <3>3, <3>4
  <2>3. CASE MemberReadType(c) /\ leaderResponse[c].ok
    <3>1. party' = party /\ leader' = leader /\ stage[c] = "readType"
      BY <2>3 DEF MemberReadType
    <3>2. ~IsLeader(c) /\ party[c] # {} /\ Answered(c) /\ leader[c] # None
      BY <1>0, <3>1 DEF Members, MemberOf, Roles
    <3>3. PICK d \in Calls : ListOf(c, d)
      BY <1>0, <3>2 DEF Members, MemberOf
    <3>4. d = leaderResponse[c].by
      BY <3>2, <3>3 DEF ListOf, Answered, LeaderComm
    <3>5. Enough(party[d])
      BY <2>3, <3>2, <3>4 DEF Answered, Truthful
    <3>6. FormedParty(d) /\ Caller[d] = leader[c] /\ party[d] = party[c]
      BY <3>3, <3>5 DEF FormedParty, ListOf
    <3> QED
      BY <2>1, <3>1, <3>6
  <2>4. CASE LeaderReturn(c)
    BY <1>0, <1>2, <2>4 DEF LeaderReturn, Members, MemberOf, IsLeader
  <2> QED
    BY <1>0, <1>2, <2>2, <2>3, <2>4, SuccessStep
<1> QED
  BY <1>1, <1>2 DEF Succeeded, MemberPartyFormed, IsLeader

(***************************************************************************)
(* "we notify all the peers who to run keygen/keysign": if every peer      *)
(* calls JoinPartyWithLeader once for a message, a member for which the    *)
(* join succeeded has the list of a party that its leader formed.  The run *)
(* pc_torn shows that a retried call breaks this.                          *)
(***************************************************************************)
THEOREM MemberPartyFormedCorrect ==
  ASSUME \A c, d \in Calls : Caller[c] = Caller[d] => c = d
  PROVE  Spec => []MemberPartyFormed
<1>1. Init => Succeeded
  BY PeersAssumption DEF Init, Succeeded, MemberPartyFormed
<1>2. AInv /\ Succeeded /\ [Next]_vars => Succeeded'
  BY SucceededNext
<1>3. Succeeded => MemberPartyFormed
  BY DEF Succeeded
<1> QED
  BY <1>1, <1>2, <1>3, AInvCorrect, PTL DEF Spec
=============================================================================
