-------------------------- MODULE TssCommonProofs ---------------------------
(***************************************************************************)
(* What the confirmation of a broadcast share guarantees for any number of *)
(* parties, messages, losses and requests: only messages that the owner    *)
(* sent to enough receivers reach tss-lib; if there is one such message    *)
(* the receivers implement ShareBroadcast; and an owner that sent one      *)
(* message is not blamed.                                                  *)
(***************************************************************************)
EXTENDS TssCommon, FiniteSetTheorems, TLAPS

(***************************************************************************)
(* What is in flight: shares and hashes as the owner's messages were sent, *)
(* and answers with a message that the owner sent to enough receivers.     *)
(***************************************************************************)
Truthful(m) ==
  /\ m.type = "share" => m.msg = Sent[m.to]
  /\ m.type = "ver" => IF m.from = Owner THEN m.to \in OwnerConfirms ELSE m.hash = Sent[m.from]
  /\ m.type = "reply" => m.msg \in Backed

(***************************************************************************)
(* What receiver p has collected: of every other receiver the hash it was  *)
(* sent; its own, or that of an answer it got; the owner's hash if the     *)
(* owner sends one to p; and the hash of the message, when there is one.   *)
(***************************************************************************)
Collected(p, it) ==
  /\ \A q \in Receivers : it.confirmed[q] \in {None, Sent[q]} \/ (q = p /\ it.confirmed[q] \in Backed)
  /\ it.confirmed[Owner] # None => p \in OwnerConfirms
  /\ it.msg # None => it.hash = it.msg

(***************************************************************************)
(* What receiver p gives to its peers and has handed to tss-lib: nothing   *)
(* yet, or a message that was sent to enough receivers each.  They may     *)
(* differ, because the item can be built up a second time.                 *)
(***************************************************************************)
Handed(p) == \/ stored[p] = None /\ updates[p] = <<>>
             \/ stored[p] \in Backed /\ \E m \in Backed : updates[p] = <<m>>

Messages  == \A m \in net : Truthful(m)
Items     == \A p \in Receivers : item[p] # None => Collected(p, item[p])
Handovers == \A p \in Receivers : Handed(p)

IInv == TypeOK /\ Messages /\ Items /\ Handovers /\ NoFalseBlame

-----------------------------------------------------------------------------
(***************************************************************************)
(* What the assumptions say of the broadcast that runs.                    *)
(***************************************************************************)
LEMMA Setting ==
  ASSUME broadcast \in Broadcasts
  PROVE  /\ IsFiniteSet(Receivers) /\ Owner \notin Receivers /\ IsFiniteSet(Parties)
         /\ Sent \in [Receivers -> Msgs] /\ OwnerConfirms \subseteq Receivers
         /\ Threshold \in Int /\ None \notin Msgs /\ Backed \subseteq Msgs
<1>1. /\ IsFiniteSet(Receivers) /\ Owner \notin Receivers
      /\ Sent \in [Receivers -> Msgs] /\ OwnerConfirms \subseteq Receivers
  BY BroadcastsAssumption DEF Receivers, Sent, OwnerConfirms
<1>2. IsFiniteSet(Parties)
  BY <1>1, FS_AddElement DEF Parties
<1>3. Cardinality(Receivers) \in Nat
  BY <1>1, FS_CardinalityType
<1>4. \A n \in Nat : GetThreshold(n + 1) \in Int
  BY DEF GetThreshold
<1>5. Threshold \in Int
  BY <1>3, <1>4 DEF Threshold
<1> QED
  BY <1>1, <1>2, <1>5, NoneAssumption DEF Backed, BackedIn

(***************************************************************************)
(* The broadcast stays the same, and with it what is derived from it.      *)
(***************************************************************************)
Fixed ==
  /\ broadcast' = broadcast /\ Receivers' = Receivers /\ Sent' = Sent
  /\ OwnerConfirms' = OwnerConfirms /\ Parties' = Parties /\ Message' = Message
  /\ CacheItem' = CacheItem /\ Backed' = Backed /\ ConsistentOwner' = ConsistentOwner

(***************************************************************************)
(* What is derived from the broadcast does not depend on anything else.    *)
(***************************************************************************)
LEMMA BroadcastFixed ==
  ASSUME broadcast' = broadcast
  PROVE  Fixed
<1>1. Sent' = Sent /\ OwnerConfirms' = OwnerConfirms
  BY DEF Sent, OwnerConfirms
<1>2. Receivers' = Receivers
  BY <1>1 DEF Receivers
<1>3. Parties' = Parties
  BY <1>2 DEF Parties
<1>4. Message' = Message
  BY <1>2, <1>3 DEF Message
<1>5. CacheItem' = CacheItem
  BY <1>3 DEF CacheItem
<1>6. Backed' = Backed
  BY DEF Backed
<1>7. ConsistentOwner' = ConsistentOwner
  BY <1>1, <1>2 DEF ConsistentOwner
<1> QED
  BY <1>1, <1>2, <1>3, <1>4, <1>5, <1>6, <1>7 DEF Fixed

-----------------------------------------------------------------------------
(***************************************************************************)
(* A hash that is the most frequent and frequent enough, while the owner's *)
(* own does not count, is that of a message sent to enough receivers.      *)
(***************************************************************************)
LEMMA AgreedIsBacked ==
  ASSUME broadcast \in Broadcasts, NEW p \in Receivers, NEW it \in CacheItem, Collected(p, it),
         ~OwnerConfirmed(it), NEW g \in HighestFreq(it), HashAgreed(it, g)
  PROVE  g \in Backed
<1> SUFFICES ASSUME g \notin Backed PROVE FALSE
  OBVIOUS
<1> DEFINE S == {q \in DOMAIN it.confirmed : it.confirmed[q] = g}
           R == Recipients(broadcast, g)
<1>0. it.confirmed \in [Parties -> Msgs \union {None}]
  BY DEF CacheItem
<1>1. g \in Msgs /\ g # None /\ S # {}
  BY <1>0, Setting DEF HighestFreq, Hashes
<1>2. Cardinality(S) + 1 >= Threshold
  BY DEF HashAgreed, Freq
<1>3. S \subseteq R
  BY <1>0, <1>1 DEF Parties, Collected, OwnerConfirmed, Recipients, Receivers, Sent
<1>4. IsFiniteSet(R)
  BY Setting, FS_Subset DEF Recipients, Receivers, Sent
<1>5. IsFiniteSet(S) /\ Cardinality(S) <= Cardinality(R)
  BY <1>3, <1>4, FS_Subset
<1>6. Cardinality(S) \in Nat /\ Cardinality(R) \in Nat
  BY <1>4, <1>5, FS_CardinalityType
<1>7. Cardinality(R) + 1 >= Threshold
  <2> HIDE DEF S, R
  <2> QED
    BY <1>2, <1>5, <1>6, Setting
<1> QED
  BY <1>1, <1>3, <1>7 DEF Backed, BackedIn, Threshold, Receivers, Sent

(***************************************************************************)
(* If the owner sent one message, only that one was sent to enough         *)
(* receivers.                                                              *)
(***************************************************************************)
LEMMA ConsistentBacked ==
  ASSUME broadcast \in Broadcasts, ConsistentOwner, NEW m \in Backed, NEW q \in Receivers
  PROVE  Sent[q] = m
<1>1. PICK p \in Receivers : Sent[p] = m
  BY DEF Backed, BackedIn, Recipients, Receivers, Sent
<1> QED
  BY <1>1 DEF ConsistentOwner

(***************************************************************************)
(* With one message and no hash of the owner, every hash that is confirmed *)
(* is the same, so that the highest frequency is the number of parties     *)
(* that confirmed.                                                         *)
(***************************************************************************)
LEMMA ConsistentAgreed ==
  ASSUME broadcast \in Broadcasts, ConsistentOwner, NEW p \in Receivers, NEW it \in CacheItem,
         Collected(p, it), TotalConfirmParty(it) >= Threshold, NEW g \in HighestFreq(it)
  PROVE  HashAgreed(it, g)
<1>0. it.confirmed \in [Parties -> Msgs \union {None}]
  BY DEF CacheItem
<1>1. \A q \in Receivers : it.confirmed[q] \in {None, Sent[p]}
  BY ConsistentBacked DEF Collected, ConsistentOwner
<1>2. \A q \in Parties : it.confirmed[q] \in {None, Sent[p]}
  BY <1>1 DEF Parties, Collected, ConsistentOwner
<1>3. g = Sent[p] /\ g # None
  BY <1>0, <1>2 DEF HighestFreq, Hashes
<1>4. {q \in DOMAIN it.confirmed : it.confirmed[q] # None}
        = {q \in DOMAIN it.confirmed : it.confirmed[q] = g}
  BY <1>0, <1>2, <1>3
<1>5. Freq(it, g) >= Threshold
  BY <1>4 DEF TotalConfirmParty, Freq
<1>6. Freq(it, g) \in Nat
  BY <1>0, Setting, FS_Subset, FS_CardinalityType DEF Freq
<1> QED
  BY <1>5, <1>6, Setting DEF HashAgreed

-----------------------------------------------------------------------------
(***************************************************************************)
(* The owner sends its shares, and to some receivers a hash.               *)
(***************************************************************************)
LEMMA InitNet ==
  ASSUME Init
  PROVE  broadcast \in Broadcasts /\ \A m \in net : m \in Message /\ Truthful(m)
<1>1. \A m \in net :
        \/ \E p \in Receivers : m = [type |-> "share", to |-> p, msg |-> Sent[p]]
        \/ \E p \in OwnerConfirms : m = [type |-> "ver", from |-> Owner, to |-> p, hash |-> Sent[p]]
  BY DEF Init
<1>2. broadcast \in Broadcasts
  BY DEF Init
<1>3. \A p \in Receivers : [type |-> "share", to |-> p, msg |-> Sent[p]] \in Message
  BY <1>2, Setting DEF Message
<1>4. \A p \in OwnerConfirms :
        [type |-> "ver", from |-> Owner, to |-> p, hash |-> Sent[p]] \in Message
  BY <1>2, Setting DEF Message, Parties
<1>5. \A m \in net : Truthful(m)
  BY <1>1 DEF Truthful
<1> QED
  BY <1>1, <1>2, <1>3, <1>4, <1>5

(***************************************************************************)
(* The receivers start with empty items and with what the owner sent in    *)
(* flight.                                                                 *)
(***************************************************************************)
LEMMA InitType == Init => TypeOK
<1> SUFFICES ASSUME Init PROVE TypeOK
  OBVIOUS
<1>1. net \subseteq Message /\ broadcast \in Broadcasts
  BY InitNet
<1>2. updates \in [Receivers -> Seq(Msgs)]
  <2>1. <<>> \in Seq(Msgs)
    OBVIOUS
  <2> QED
    BY <2>1 DEF Init
<1>3. item \in [Receivers -> CacheItem \union {None}] /\ stored \in [Receivers -> Msgs \union {None}]
  BY DEF Init
<1>4. requested \in [Receivers -> SUBSET Msgs] /\ asked \in [Receivers -> Nat]
  BY DEF Init
<1>5. blamed \in [Receivers -> BOOLEAN] /\ lost \in Nat /\ shareLost \in BOOLEAN
  BY DEF Init
<1> QED
  BY <1>1, <1>2, <1>3, <1>4, <1>5 DEF TypeOK

(***************************************************************************)
(* The types do not depend on what the owner sent.                         *)
(***************************************************************************)
Typed(p, it, want, rest) ==
  /\ TypeOK /\ p \in Receivers /\ it \in CacheItem /\ want \in SUBSET Msgs
  /\ rest \subseteq Message /\ UNCHANGED <<broadcast, lost, shareLost>>

(***************************************************************************)
(* requestShareFromPeer keeps the types.                                   *)
(***************************************************************************)
LEMMA RequestType ==
  ASSUME NEW p, NEW it, NEW want, NEW rest, Typed(p, it, want, rest),
         RequestShareFromPeer(p, it, want, rest)
  PROVE  TypeOK'
<1> USE DEF Typed, TypeOK
<1>1. PICK g \in Msgs :
        \/ /\ requested' = [requested EXCEPT ![p] = want \union {g}]
           /\ asked' = [asked EXCEPT ![p] = @ + 1]
           /\ net' = rest \union
                {[type |-> "request", from |-> p, to |-> q, hash |-> g, no |-> asked[p]] :
                   q \in {q \in Receivers \ {p} : it.confirmed[q] = g}}
        \/ /\ requested' = [requested EXCEPT ![p] = want]
           /\ net' = rest
           /\ UNCHANGED asked
  <2>1. HighestFreq(it) \subseteq Msgs
    BY DEF HighestFreq, Hashes, CacheItem
  <2> QED
    BY <2>1 DEF RequestShareFromPeer
<1>2. \A q \in Receivers :
        [type |-> "request", from |-> p, to |-> q, hash |-> g, no |-> asked[p]] \in Message
  BY DEF Message
<1>3. net' \subseteq Message
  BY <1>1, <1>2
<1>4. PICK w \in SUBSET Msgs : requested' = [requested EXCEPT ![p] = w]
  BY <1>1
<1>5. PICK n \in {asked[p], asked[p] + 1} : asked' = [asked EXCEPT ![p] = n]
  BY <1>1
<1>6. requested' \in [Receivers -> SUBSET Msgs] /\ asked' \in [Receivers -> Nat]
  <2>1. n \in Nat
    BY <1>5
  <2> QED
    BY <1>4, <1>5, <2>1
<1>7. item' \in [Receivers -> CacheItem \union {None}] /\ UNCHANGED <<stored, updates, blamed>>
  BY DEF RequestShareFromPeer
<1>8. Fixed
  BY BroadcastFixed
<1> QED
  BY <1>3, <1>6, <1>7, <1>8 DEF Fixed

(***************************************************************************)
(* applyShare keeps the types in all its branches.                         *)
(***************************************************************************)
LEMMA ApplyType ==
  ASSUME NEW p, NEW it, NEW want, NEW rest, Typed(p, it, want, rest), it.msg # None,
         ApplyShare(p, it, want, rest)
  PROVE  TypeOK'
<1> USE DEF Typed, TypeOK
<1>0. Fixed
  BY BroadcastFixed
<1>1. CASE NotEnoughPeer(p, it, want, rest)
  BY <1>0, <1>1 DEF NotEnoughPeer, Fixed
<1>2. CASE HashFromOwner(p, it, want, rest)
  <2>1. UpdateConfirmList(it, Owner, None) \in CacheItem
    BY DEF UpdateConfirmList, CacheItem, Parties
  <2> QED
    BY <1>0, <1>2, <2>1 DEF HashFromOwner, Fixed
<1>3. ASSUME NEW h, HashInconsistency(p, it, h, want, rest) PROVE TypeOK'
  BY <1>0, <1>3 DEF HashInconsistency, Fixed
<1>4. ASSUME NEW h, NotMajority(p, it, h, want, rest) PROVE TypeOK'
  <2>1. [it EXCEPT !.msg = None] \in CacheItem
    BY DEF CacheItem
  <2> QED
    BY <1>4, <2>1, RequestType DEF NotMajority
<1>5. ASSUME NEW h, HashConfirmed(p, it, h, want, rest) PROVE TypeOK'
  <2>1. it.msg \in Msgs
    BY DEF CacheItem
  <2>2. Append(updates[p], it.msg) \in Seq(Msgs)
    BY <2>1
  <2>3. updates' \in [Receivers -> Seq(Msgs)]
    BY <1>5, <2>2 DEF HashConfirmed, UpdateLocal
  <2> QED
    BY <1>0, <1>5, <2>1, <2>3 DEF HashConfirmed, Fixed
<1> QED
  BY <1>1, <1>2, <1>3, <1>4, <1>5 DEF ApplyShare

(***************************************************************************)
(* processTSSMsg, which stores the share and then tries to apply it, keeps *)
(* the types.                                                              *)
(***************************************************************************)
LEMMA ProcessType ==
  ASSUME TypeOK, NEW p \in Receivers, NEW m \in Msgs, NEW want \in SUBSET Msgs,
         NEW rest \in SUBSET Message, UNCHANGED <<broadcast, lost, shareLost>>,
         ProcessTSSMsg(p, m, want, rest)
  PROVE  TypeOK'
<1> DEFINE old == IF item[p] = None THEN NewLocalCacheItem(m, m)
                  ELSE IF item[p].msg = None THEN [item[p] EXCEPT !.msg = m, !.hash = m]
                  ELSE item[p]
           it == UpdateConfirmList(old, p, m)
<1>1. item[p] \in CacheItem \union {None} /\ m # None
  BY NoneAssumption DEF TypeOK
<1>2. old \in CacheItem /\ old.msg # None
  BY <1>1 DEF NewLocalCacheItem, CacheItem, Parties
<1>3. it \in CacheItem /\ it.msg # None
  <2> HIDE DEF old
  <2> QED
    BY <1>2 DEF UpdateConfirmList, CacheItem, Parties
<1>4. ApplyShare(p, it, want, rest)
  BY DEF ProcessTSSMsg
<1> HIDE DEF it
<1> QED
  BY <1>3, <1>4, ApplyType DEF Typed

(***************************************************************************)
(* Every message that is received or lost keeps the types.                 *)
(***************************************************************************)
LEMMA NextType == TypeOK /\ [Next]_vars => TypeOK'
<1> SUFFICES ASSUME TypeOK, [Next]_vars PROVE TypeOK'
  OBVIOUS
<1>1. ASSUME NEW m \in net, ReceiveShare(m) PROVE TypeOK'
  <2> DEFINE vers == {[type |-> "ver", from |-> m.to, to |-> q, hash |-> m.msg] :
                        q \in Receivers \ {m.to}}
  <2>1. m \in Message /\ m.type = "share"
    BY <1>1 DEF TypeOK, ReceiveShare
  <2>2. m.to \in Receivers /\ m.msg \in Msgs
    BY <2>1 DEF Message
  <2>3. \A x \in vers : x \in Message
    BY <2>2 DEF Message, Parties
  <2>4. (net \ {m}) \union vers \in SUBSET Message /\ requested[m.to] \in SUBSET Msgs
    BY <2>2, <2>3 DEF TypeOK
  <2>5. ProcessTSSMsg(m.to, m.msg, requested[m.to], (net \ {m}) \union vers)
    BY <1>1 DEF ReceiveShare
  <2>6. UNCHANGED <<broadcast, lost, shareLost>>
    BY <1>1 DEF ReceiveShare
  <2> HIDE DEF vers
  <2> QED
    BY <2>2, <2>4, <2>5, <2>6, ProcessType
<1>2. ASSUME NEW m \in net, ReceiveVerMsg(m) PROVE TypeOK'
  <2> DEFINE p == m.to
             old == IF item[p] = None THEN NewLocalCacheItem(None, m.hash) ELSE item[p]
             it == UpdateConfirmList(old, m.from, m.hash)
             rest == net \ {m}
  <2>1. m \in Message /\ m.type = "ver"
    BY <1>2 DEF TypeOK, ReceiveVerMsg
  <2>2. p \in Receivers /\ m.from \in Parties /\ m.hash \in Msgs
    BY <2>1 DEF Message
  <2>3. old \in CacheItem
    BY <2>2 DEF TypeOK, NewLocalCacheItem, CacheItem
  <2>4. it \in CacheItem
    <3> HIDE DEF old
    <3> QED
      BY <2>2, <2>3 DEF UpdateConfirmList, CacheItem
  <2>5. Typed(p, it, requested[p], rest)
    BY <1>2, <2>2, <2>4 DEF Typed, TypeOK, ReceiveVerMsg
  <2>6. \/ net' = rest /\ UNCHANGED <<item, requested, stored, updates, blamed, asked>>
        \/ RequestShareFromPeer(p, it, requested[p], rest)
        \/ it.msg # None /\ ApplyShare(p, it, requested[p], rest)
    BY <1>2 DEF ReceiveVerMsg
  <2> HIDE DEF it, rest, p
  <2>7. CASE net' = rest /\ UNCHANGED <<item, requested, stored, updates, blamed, asked>>
    <3>1. Fixed
      BY <2>5, BroadcastFixed DEF Typed
    <3> QED
      BY <2>5, <2>7, <3>1 DEF Typed, TypeOK, Fixed
  <2> QED
    BY <2>5, <2>6, <2>7, RequestType, ApplyType
<1>3. ASSUME NEW m \in net, ReceiveRequest(m) PROVE TypeOK'
  <2> DEFINE r == [type |-> "reply", from |-> m.to, to |-> m.from, hash |-> m.hash,
                   msg |-> stored[m.to], no |-> m.no]
  <2>1. m \in Message /\ m.type = "request"
    BY <1>3 DEF TypeOK, ReceiveRequest
  <2>2. m.to \in Receivers /\ m.from \in Receivers /\ m.hash \in Msgs /\ m.no \in Nat
    BY <2>1 DEF Message
  <2>3. stored[m.to] # None => r \in Message
    BY <2>2 DEF TypeOK, Message
  <2>4. \A x \in net' : x \in net \/ (stored[m.to] # None /\ x = r)
    BY <1>3 DEF ReceiveRequest
  <2>5. net' \subseteq Message
    BY <2>3, <2>4 DEF TypeOK
  <2>6. Fixed
    BY <1>3, BroadcastFixed DEF ReceiveRequest
  <2> QED
    BY <1>3, <2>5, <2>6 DEF ReceiveRequest, TypeOK, Fixed
<1>4. ASSUME NEW m \in net, ReceiveReply(m) PROVE TypeOK'
  <2>1. Fixed
    BY <1>4, BroadcastFixed DEF ReceiveReply
  <2> QED
    BY <1>4, <2>1 DEF ReceiveReply, TypeOK, Fixed
<1>5. ASSUME NEW m \in net, ReceiveMissingShare(m) PROVE TypeOK'
  <2>1. m \in Message /\ m.type = "reply"
    BY <1>5 DEF TypeOK, ReceiveMissingShare
  <2>2. m.to \in Receivers /\ m.msg \in Msgs
    BY <2>1 DEF Message
  <2>3. net \ {m} \in SUBSET Message /\ requested[m.to] \ {m.hash} \in SUBSET Msgs
    BY <2>2 DEF TypeOK
  <2> QED
    BY <1>5, <2>2, <2>3, ProcessType DEF ReceiveMissingShare
<1>6. ASSUME NEW m \in net, Lose(m) PROVE TypeOK'
  <2>1. Fixed
    BY <1>6, BroadcastFixed DEF Lose
  <2> QED
    BY <1>6, <2>1 DEF Lose, TypeOK, Fixed
<1>7. CASE UNCHANGED vars
  <2>1. Fixed
    BY <1>7, BroadcastFixed DEF vars
  <2> QED
    BY <1>7, <2>1 DEF vars, TypeOK, Fixed
<1> QED
  BY <1>1, <1>2, <1>3, <1>4, <1>5, <1>6, <1>7 DEF Next, Receive

(***************************************************************************)
(* Every receiver's cache item, stored share, requested hashes and what is *)
(* in flight keep their types, whatever the owner sends.                   *)
(***************************************************************************)
THEOREM TypeCorrect == Spec => []TypeOK
  BY InitType, NextType, PTL DEF Spec

-----------------------------------------------------------------------------
(***************************************************************************)
(* A step changes the state of one receiver p, and what is in flight: what *)
(* holds when the triggering message has been taken.                       *)
(***************************************************************************)
Context(p, it, want, rest) ==
  /\ IInv /\ p \in Receivers
  /\ it \in CacheItem /\ Collected(p, it)
  /\ want \in SUBSET Msgs
  /\ rest \subseteq Message /\ \A m \in rest : Truthful(m)
  /\ UNCHANGED <<broadcast, lost, shareLost>>

(***************************************************************************)
(* No step changes the broadcast.                                          *)
(***************************************************************************)
LEMMA NextFixed == [Next]_vars => broadcast' = broadcast
  BY DEF Next, Receive, ReceiveShare, ReceiveVerMsg, ReceiveRequest, ReceiveReply,
         ReceiveMissingShare, Lose, vars

(***************************************************************************)
(* A message that is answered, dropped or lost, without a change at its    *)
(* receiver, keeps the invariant if what is in flight is as it should be.  *)
(***************************************************************************)
LEMMA NothingHandled ==
  ASSUME IInv, net' \subseteq Message, \A m \in net' : Truthful(m),
         UNCHANGED <<broadcast, item, requested, stored, updates, blamed, asked>>,
         lost' \in Nat, shareLost' \in BOOLEAN
  PROVE  IInv'
<1>0. Fixed
  BY BroadcastFixed
<1>1. TypeOK'
  BY <1>0 DEF IInv, TypeOK, Fixed
<1>2. Messages'
  BY <1>0 DEF Messages, Truthful, Fixed
<1>3. Items'
  BY <1>0 DEF IInv, Items, Collected, Fixed
<1>4. Handovers' /\ NoFalseBlame'
  BY <1>0 DEF IInv, Handovers, Handed, NoFalseBlame, Fixed
<1> QED
  BY <1>1, <1>2, <1>3, <1>4 DEF IInv

(***************************************************************************)
(* requestShareFromPeer keeps the invariant: it sends requests only, which *)
(* say nothing of the share, and blames nobody.                            *)
(***************************************************************************)
LEMMA RequestKeeps ==
  ASSUME NEW p, NEW it, NEW want, NEW rest, Context(p, it, want, rest),
         RequestShareFromPeer(p, it, want, rest)
  PROVE  IInv'
<1> USE DEF Context, IInv, TypeOK
<1>0. Fixed
  BY BroadcastFixed
<1>1. \A m \in net' : m \in rest \/ m.type = "request"
  BY DEF RequestShareFromPeer
<1>2. Messages'
  BY <1>0, <1>1 DEF Messages, Truthful, Fixed
<1>3. UNCHANGED <<stored, updates, blamed>> /\ item' = [item EXCEPT ![p] = it]
  BY DEF RequestShareFromPeer
<1>4. TypeOK'
  BY RequestType DEF Typed
<1>5. Items'
  BY <1>0, <1>3 DEF Items, Collected, Fixed
<1>6. Handovers' /\ NoFalseBlame'
  BY <1>0, <1>3 DEF Handovers, Handed, NoFalseBlame, Fixed
<1> QED
  BY <1>2, <1>4, <1>5, <1>6

(***************************************************************************)
(* applyShare on an item with a message hands over a message that was sent *)
(* to enough receivers, if any, and blames no consistent owner.            *)
(***************************************************************************)
LEMMA ApplyKeeps ==
  ASSUME NEW p, NEW it, NEW want, NEW rest, Context(p, it, want, rest),
         it.msg # None, ApplyShare(p, it, want, rest)
  PROVE  IInv'
<1> USE DEF Context, IInv, TypeOK
<1>0. Fixed
  BY BroadcastFixed
<1>t. TypeOK'
  BY ApplyType DEF Typed
<1>1. CASE NotEnoughPeer(p, it, want, rest)
  <2>1. Messages'
    BY <1>0, <1>1 DEF NotEnoughPeer, Messages, Truthful, Fixed
  <2>2. Items'
    BY <1>0, <1>1 DEF NotEnoughPeer, Items, Collected, Fixed
  <2>3. Handovers' /\ NoFalseBlame'
    BY <1>0, <1>1 DEF NotEnoughPeer, Handovers, Handed, NoFalseBlame, Fixed
  <2> QED
    BY <1>t, <2>1, <2>2, <2>3
<1>2. CASE OwnerConfirmed(it) /\ HashFromOwner(p, it, want, rest)
  <2> DEFINE cleared == UpdateConfirmList(it, Owner, None)
  <2>1. cleared \in CacheItem /\ Collected(p, cleared)
    BY Setting DEF UpdateConfirmList, CacheItem, Parties, Collected
  <2>2. Messages'
    BY <1>0, <1>2 DEF HashFromOwner, Messages, Truthful, Fixed
  <2>3. Items'
    <3> HIDE DEF cleared
    <3>1. item' = [item EXCEPT ![p] = cleared]
      BY <1>2 DEF HashFromOwner, cleared
    <3> QED
      BY <1>0, <2>1, <3>1 DEF Items, Collected, Fixed
  <2>4. Handovers'
    BY <1>0, <1>2 DEF HashFromOwner, Handovers, Handed, Fixed
  <2>5. ~ConsistentOwner
    BY <1>2 DEF OwnerConfirmed, Collected, ConsistentOwner
  <2> QED
    BY <1>0, <1>t, <2>2, <2>3, <2>4, <2>5 DEF NoFalseBlame, Fixed
<1>3. ASSUME NEW h \in HighestFreq(it), TotalConfirmParty(it) >= Threshold,
             HashInconsistency(p, it, h, want, rest)
      PROVE  IInv'
  <2>1. Messages'
    BY <1>0, <1>3 DEF HashInconsistency, Messages, Truthful, Fixed
  <2>2. Items'
    BY <1>0, <1>3 DEF HashInconsistency, Items, Collected, Fixed
  <2>3. Handovers'
    BY <1>0, <1>3 DEF HashInconsistency, Handovers, Handed, Fixed
  <2>4. ~ConsistentOwner
    BY <1>3, ConsistentAgreed DEF HashInconsistency
  <2> QED
    BY <1>0, <1>t, <2>1, <2>2, <2>3, <2>4 DEF NoFalseBlame, Fixed
<1>4. ASSUME NEW h, NotMajority(p, it, h, want, rest) PROVE IInv'
  <2> DEFINE dropped == [it EXCEPT !.msg = None]
  <2>1. dropped \in CacheItem /\ Collected(p, dropped)
    BY DEF CacheItem, Collected
  <2>2. Context(p, dropped, want, rest)
    BY <2>1
  <2> QED
    BY <1>4, <2>2, RequestKeeps DEF NotMajority
<1>5. ASSUME NEW h \in HighestFreq(it), ~OwnerConfirmed(it), HashConfirmed(p, it, h, want, rest)
      PROVE  IInv'
  <2>1. it.hash \in Backed
    BY <1>5, AgreedIsBacked DEF HashConfirmed, ShareInMajority
  <2>2. it.msg \in Backed
    BY <2>1 DEF Collected
  <2>3. PICK u : /\ updates' = [updates EXCEPT ![p] = u]
                 /\ \E m \in Backed : u = <<m>>
    <3>1. updates[p] = <<>> \/ \E m \in Backed : updates[p] = <<m>>
      BY DEF Handovers, Handed
    <3>2. Append(<<>>, it.msg) = <<it.msg>> /\ \A m : <<m>> # <<>>
      OBVIOUS
    <3>3. updates' = [updates EXCEPT ![p] = IF @ = <<>> THEN Append(@, it.msg) ELSE @]
      BY <1>5 DEF HashConfirmed, UpdateLocal
    <3>4. CASE updates[p] = <<>>
      BY <2>2, <3>2, <3>3, <3>4
    <3>5. CASE \E m \in Backed : updates[p] = <<m>>
      BY <3>2, <3>3, <3>5
    <3> QED
      BY <3>1, <3>4, <3>5
  <2>4. stored' = [stored EXCEPT ![p] = it.msg] /\ item' = [item EXCEPT ![p] = None]
    BY <1>5 DEF HashConfirmed
  <2>5. Messages'
    BY <1>0, <1>5 DEF HashConfirmed, Messages, Truthful, Fixed
  <2>6. Items'
    BY <1>0, <2>4 DEF Items, Collected, Fixed
  <2>7. Handovers'
    BY <1>0, <2>2, <2>3, <2>4 DEF Handovers, Handed, Fixed
  <2>8. NoFalseBlame'
    BY <1>0, <1>5 DEF HashConfirmed, NoFalseBlame, Fixed
  <2> QED
    BY <1>t, <2>5, <2>6, <2>7, <2>8
<1> QED
  BY <1>1, <1>2, <1>3, <1>4, <1>5 DEF ApplyShare

(***************************************************************************)
(* processTSSMsg on a message that the owner sent to p, or that came as an *)
(* answer.                                                                 *)
(***************************************************************************)
LEMMA ProcessKeeps ==
  ASSUME IInv, NEW p \in Receivers, NEW m, m = Sent[p] \/ m \in Backed,
         NEW want \in SUBSET Msgs, NEW rest \in SUBSET Message,
         \A x \in rest : Truthful(x), UNCHANGED <<broadcast, lost, shareLost>>,
         ProcessTSSMsg(p, m, want, rest)
  PROVE  IInv'
<1>0. m \in Msgs /\ m # None /\ Owner # p
  BY Setting DEF IInv, TypeOK
<1> DEFINE old == IF item[p] = None THEN NewLocalCacheItem(m, m)
                  ELSE IF item[p].msg = None THEN [item[p] EXCEPT !.msg = m, !.hash = m]
                  ELSE item[p]
<1>1. old \in CacheItem /\ Collected(p, old) /\ old.msg # None
  <2>1. CASE item[p] = None
    BY <1>0, <2>1 DEF NewLocalCacheItem, CacheItem, Collected, Parties
  <2>2. CASE item[p] # None
    <3>1. item[p] \in CacheItem /\ Collected(p, item[p])
      BY <2>2 DEF IInv, TypeOK, Items
    <3> QED
      BY <1>0, <2>2, <3>1 DEF CacheItem, Collected
  <2> QED
    BY <2>1, <2>2
<1> DEFINE it == UpdateConfirmList(old, p, m)
<1>2. it \in CacheItem /\ Collected(p, it) /\ it.msg # None
  <2> HIDE DEF old
  <2> QED
    BY <1>0, <1>1 DEF UpdateConfirmList, CacheItem, Parties, Collected
<1>3. ApplyShare(p, it, want, rest)
  BY DEF ProcessTSSMsg
<1> HIDE DEF it
<1>4. Context(p, it, want, rest)
  BY <1>2 DEF Context
<1> QED
  BY <1>2, <1>3, <1>4, ApplyKeeps

(***************************************************************************)
(* Every message that is handled, or lost, keeps the invariant.            *)
(***************************************************************************)
LEMMA NextKeeps ==
  ASSUME IInv, [Next]_vars
  PROVE  IInv'
<1>1. ASSUME NEW m \in net, ReceiveShare(m) PROVE IInv'
  <2> DEFINE vers == {[type |-> "ver", from |-> m.to, to |-> q, hash |-> m.msg] :
                        q \in Receivers \ {m.to}}
  <2>1. m \in Message /\ m.type = "share" /\ Truthful(m)
    BY <1>1 DEF IInv, TypeOK, Messages, ReceiveShare
  <2>2. m.to \in Receivers /\ m.msg = Sent[m.to] /\ m.msg \in Msgs /\ m.to # Owner
    BY <2>1, Setting DEF Message, Truthful, IInv, TypeOK
  <2>3. \A x \in vers : x \in Message /\ Truthful(x)
    BY <2>2 DEF Message, Parties, Truthful
  <2>4. /\ (net \ {m}) \union vers \in SUBSET Message
        /\ \A x \in (net \ {m}) \union vers : Truthful(x)
    BY <2>3 DEF IInv, TypeOK, Messages
  <2>5. requested[m.to] \in SUBSET Msgs
    BY <2>2 DEF IInv, TypeOK
  <2>6. ProcessTSSMsg(m.to, m.msg, requested[m.to], (net \ {m}) \union vers)
    BY <1>1 DEF ReceiveShare
  <2>7. UNCHANGED <<broadcast, lost, shareLost>>
    BY <1>1 DEF ReceiveShare
  <2> HIDE DEF vers
  <2> QED
    BY <2>2, <2>4, <2>5, <2>6, <2>7, ProcessKeeps
<1>2. ASSUME NEW m \in net, ReceiveVerMsg(m) PROVE IInv'
  <2> DEFINE p == m.to
             old == IF item[p] = None THEN NewLocalCacheItem(None, m.hash) ELSE item[p]
             it == UpdateConfirmList(old, m.from, m.hash)
             rest == net \ {m}
  <2>1. m \in Message /\ m.type = "ver" /\ Truthful(m)
    BY <1>2 DEF IInv, TypeOK, Messages, ReceiveVerMsg
  <2>2. p \in Receivers /\ m.from \in Parties /\ m.hash \in Msgs
    BY <2>1 DEF Message
  <2>3. IF m.from = Owner THEN p \in OwnerConfirms ELSE m.hash = Sent[m.from]
    BY <2>1 DEF Truthful
  <2>4. old \in CacheItem /\ Collected(p, old)
    BY <2>2 DEF IInv, TypeOK, Items, NewLocalCacheItem, CacheItem, Collected, Parties
  <2>5. it \in CacheItem /\ Collected(p, it)
    <3> HIDE DEF old, p
    <3>1. Owner \notin Receivers
      BY Setting DEF IInv, TypeOK
    <3> QED
      BY <2>2, <2>3, <2>4, <3>1 DEF UpdateConfirmList, CacheItem, Parties, Collected
  <2>6. rest \subseteq Message /\ \A x \in rest : Truthful(x)
    BY DEF IInv, TypeOK, Messages
  <2>7. UNCHANGED <<broadcast, lost, shareLost>>
    BY <1>2 DEF ReceiveVerMsg
  <2>8. requested[p] \in SUBSET Msgs
    BY <2>2 DEF IInv, TypeOK
  <2>9. Context(p, it, requested[p], rest)
    BY <2>2, <2>5, <2>6, <2>7, <2>8 DEF Context
  <2>10. \/ net' = rest /\ UNCHANGED <<item, requested, stored, updates, blamed, asked>>
         \/ RequestShareFromPeer(p, it, requested[p], rest)
         \/ it.msg # None /\ ApplyShare(p, it, requested[p], rest)
    BY <1>2 DEF ReceiveVerMsg
  <2> HIDE DEF it, rest, p
  <2>11. CASE net' = rest /\ UNCHANGED <<item, requested, stored, updates, blamed, asked>>
    BY <2>6, <2>7, <2>11, NothingHandled DEF IInv, TypeOK
  <2> QED
    BY <2>9, <2>10, <2>11, RequestKeeps, ApplyKeeps
<1>3. ASSUME NEW m \in net, ReceiveRequest(m) PROVE IInv'
  <2>1. m \in Message /\ m.type = "request"
    BY <1>3 DEF IInv, TypeOK, ReceiveRequest
  <2>2. /\ m.to \in Receivers /\ m.from \in Receivers /\ m.hash \in Msgs /\ m.no \in Nat
    BY <2>1 DEF Message
  <2>3. net' \subseteq Message /\ \A x \in net' : Truthful(x)
    <3> DEFINE r == [type |-> "reply", from |-> m.to, to |-> m.from, hash |-> m.hash,
                     msg |-> stored[m.to], no |-> m.no]
    <3>1. \A x \in net' : x \in net \/ (stored[m.to] # None /\ x = r)
      BY <1>3 DEF ReceiveRequest
    <3>2. stored[m.to] # None => stored[m.to] \in Backed /\ stored[m.to] \in Msgs
      BY <2>2 DEF IInv, TypeOK, Handovers, Handed
    <3>3. stored[m.to] # None => r \in Message /\ Truthful(r)
      BY <2>2, <3>2 DEF Message, Truthful
    <3> QED
      BY <3>1, <3>3 DEF IInv, TypeOK, Messages
  <2> QED
    BY <1>3, <2>3, NothingHandled DEF ReceiveRequest, IInv, TypeOK
<1>4. ASSUME NEW m \in net, ReceiveReply(m) PROVE IInv'
  <2>1. net' \subseteq Message /\ \A x \in net' : Truthful(x)
    BY <1>4 DEF ReceiveReply, IInv, TypeOK, Messages
  <2> QED
    BY <1>4, <2>1, NothingHandled DEF ReceiveReply, IInv, TypeOK
<1>5. ASSUME NEW m \in net, ReceiveMissingShare(m) PROVE IInv'
  <2>1. m \in Message /\ m.type = "reply" /\ Truthful(m)
    BY <1>5 DEF IInv, TypeOK, Messages, ReceiveMissingShare
  <2>2. m.to \in Receivers /\ m.msg \in Backed
    BY <2>1 DEF Message, Truthful
  <2>3. net \ {m} \in SUBSET Message /\ \A x \in net \ {m} : Truthful(x)
    BY DEF IInv, TypeOK, Messages
  <2>4. requested[m.to] \ {m.hash} \in SUBSET Msgs
    BY <2>2 DEF IInv, TypeOK
  <2> QED
    BY <1>5, <2>2, <2>3, <2>4, ProcessKeeps DEF ReceiveMissingShare
<1>6. ASSUME NEW m \in net, Lose(m) PROVE IInv'
  <2>1. net' \subseteq Message /\ \A x \in net' : Truthful(x)
    BY <1>6 DEF Lose, IInv, TypeOK, Messages
  <2>2. lost' \in Nat /\ shareLost' \in BOOLEAN
    BY <1>6 DEF Lose, IInv, TypeOK
  <2> QED
    BY <1>6, <2>1, <2>2, NothingHandled DEF Lose
<1>7. CASE UNCHANGED vars
  <2>1. net' \subseteq Message /\ \A x \in net' : Truthful(x)
    BY <1>7 DEF vars, IInv, TypeOK, Messages
  <2> QED
    BY <1>7, <2>1, NothingHandled DEF vars, IInv, TypeOK
<1> QED
  BY <1>1, <1>2, <1>3, <1>4, <1>5, <1>6, <1>7 DEF Next, Receive

-----------------------------------------------------------------------------
(***************************************************************************)
(* The inductive invariant.                                                *)
(***************************************************************************)
THEOREM Invariance == Spec => []IInv
<1>1. Init => IInv
  <2> SUFFICES ASSUME Init PROVE IInv
    OBVIOUS
  <2>1. TypeOK /\ Messages
    BY InitType, InitNet DEF Messages
  <2>2. Items /\ Handovers /\ NoFalseBlame
    BY DEF Init, Items, Handovers, Handed, NoFalseBlame
  <2> QED
    BY <2>1, <2>2 DEF IInv
<1>2. IInv /\ [Next]_vars => IInv'
  BY NextKeeps
<1> QED
  BY <1>1, <1>2, PTL DEF Spec

(***************************************************************************)
(* The owner that sent one message is never blamed by a failed hash check  *)
(* of applyShare, whatever is lost, repeated or overtaken.                 *)
(***************************************************************************)
THEOREM NoFalseBlameCorrect == Spec => []NoFalseBlame
<1>1. IInv => NoFalseBlame
  BY DEF IInv
<1> QED
  BY <1>1, Invariance, PTL

(***************************************************************************)
(* The share of such an owner that requestShareFromPeer fetches from a     *)
(* receiver is the one that updateLocal gave to that receiver's tss-lib,   *)
(* and updateLocal gave it only one.                                       *)
(***************************************************************************)
THEOREM StoredIsAppliedCorrect == Spec => []StoredIsApplied
<1>1. IInv => StoredIsApplied
  <2> SUFFICES ASSUME IInv, ConsistentOwner, NEW p \in Receivers
               PROVE  IF stored[p] = None THEN updates[p] = <<>> ELSE updates[p] = <<stored[p]>>
    BY DEF StoredIsApplied
  <2>1. \A m \in Backed : m = Sent[p] /\ m # None
    BY ConsistentBacked, Setting DEF IInv, TypeOK
  <2>2. \/ stored[p] = None /\ updates[p] = <<>>
        \/ stored[p] \in Backed /\ \E m \in Backed : updates[p] = <<m>>
    BY DEF IInv, Handovers, Handed
  <2> QED
    BY <2>1, <2>2
<1> QED
  BY <1>1, Invariance, PTL

(***************************************************************************)
(* Whatever the owner sends to whom, updateLocal gives tss-lib, and        *)
(* requestShareFromPeer gets from a peer, only messages that the owner     *)
(* sent to as many receivers as getMsgHash asks for.                       *)
(***************************************************************************)
THEOREM HandedIsBackedCorrect == Spec => []HandedIsBacked
<1>1. IInv => HandedIsBacked
  <2> SUFFICES ASSUME IInv, NEW p \in Receivers
               PROVE  stored[p] \in Backed \union {None} /\ updates[p] \in Seq(Backed)
    BY DEF HandedIsBacked
  <2>1. \/ stored[p] = None /\ updates[p] = <<>>
        \/ stored[p] \in Backed /\ \E m \in Backed : updates[p] = <<m>>
    BY DEF IInv, Handovers, Handed
  <2>2. <<>> \in Seq(Backed) /\ \A m \in Backed : <<m>> \in Seq(Backed)
    OBVIOUS
  <2>3. updates[p] \in Seq(Backed)
    BY <2>1, <2>2, Zenon
  <2>4. stored[p] \in Backed \union {None}
    BY <2>1
  <2> QED
    BY <2>3, <2>4
<1> QED
  BY <1>1, Invariance, PTL

-----------------------------------------------------------------------------
(***************************************************************************)
(* A step gives a message to the tss-lib of at most one receiver.          *)
(***************************************************************************)
OneUpdate == \/ UNCHANGED updates
             \/ \E p \in Receivers : \E m : UpdateLocal(p, m)

(***************************************************************************)
(* Every path of a received message through applyShare updates tss-lib at  *)
(* most once.                                                              *)
(***************************************************************************)
LEMMA NextOneUpdate ==
  ASSUME TypeOK, [Next]_vars
  PROVE  OneUpdate
<1>1. ASSUME NEW p \in Receivers, NEW it, NEW want, NEW rest, ApplyShare(p, it, want, rest)
      PROVE  OneUpdate
  BY <1>1 DEF ApplyShare, NotEnoughPeer, HashFromOwner, HashInconsistency, NotMajority, HashConfirmed,
              RequestShareFromPeer, OneUpdate
<1>2. ASSUME NEW m \in net, Receive(m) PROVE OneUpdate
  <2>1. m \in Message
    BY DEF TypeOK
  <2>2. m.to \in Receivers
    BY <2>1 DEF Message
  <2> QED
    BY <1>1, <1>2, <2>2 DEF Receive, ReceiveShare, ReceiveVerMsg, ReceiveRequest, ReceiveReply,
       ReceiveMissingShare, ProcessTSSMsg, RequestShareFromPeer, OneUpdate
<1>3. ASSUME NEW m \in net, Lose(m) PROVE OneUpdate
  BY <1>3 DEF Lose, OneUpdate
<1> QED
  BY <1>2, <1>3 DEF Next, vars, OneUpdate

(***************************************************************************)
(* Every owner that occurs sends at most one message to enough receivers.  *)
(***************************************************************************)
AtMostOneBacked == \A b \in Broadcasts : \A m, g \in BackedIn(b) : m = g

(***************************************************************************)
(* Refinement.  If no owner sends two messages to enough receivers each,   *)
(* the receivers implement ShareBroadcast: applyShare gives the tss-lib of *)
(* all of them the same message, and updateLocal once.                     *)
(***************************************************************************)
THEOREM SameShareOnceCorrect ==
  ASSUME AtMostOneBacked
  PROVE  Spec => SameShareOnce
<1>1. Init => Broadcast!Init
  BY DEF Init, Broadcast!Init, Receivers, Sent
<1>2. IInv /\ IInv' /\ [Next]_vars => [Broadcast!Next]_updates
  <2> SUFFICES ASSUME IInv, IInv', [Next]_vars, updates' # updates
               PROVE  Broadcast!Next
    OBVIOUS
  <2>0. PICK p \in Receivers : \E m : UpdateLocal(p, m)
    BY NextOneUpdate DEF IInv, OneUpdate
  <2>1. PICK m : UpdateLocal(p, m)
    BY <2>0
  <2>2. updates[p] = <<>> /\ updates' = [updates EXCEPT ![p] = Append(<<>>, m)]
    BY <2>1 DEF UpdateLocal, IInv, TypeOK
  <2>3. updates'[p] = Append(<<>>, m) /\ Append(<<>>, m) # <<>>
    BY <2>2 DEF IInv, TypeOK
  <2>4. Fixed
    BY BroadcastFixed, NextFixed
  <2>5. PICK h \in Backed : updates'[p] = <<h>>
    BY <2>3, <2>4 DEF IInv, Handovers, Handed, Fixed
  <2>6. \A q \in Receivers : updates[q] \in {<<>>, <<h>>}
    <3>1. \A g \in Backed : g = h
      BY <2>5 DEF AtMostOneBacked, Backed, IInv, TypeOK
    <3> QED
      BY <3>1 DEF IInv, Handovers, Handed
  <2>7. DOMAIN updates = Receivers
    BY DEF IInv, TypeOK
  <2>8. Broadcast!Update(p, h)
    BY <2>2, <2>3, <2>5, <2>6, <2>7 DEF Broadcast!Update, Broadcast!Receivers
  <2>9. h \in Msgs
    BY <2>5, Setting DEF IInv, TypeOK
  <2> QED
    BY <2>7, <2>8, <2>9 DEF Broadcast!Next, Broadcast!Receivers
<1> QED
  BY <1>1, <1>2, Invariance, PTL DEF Spec, SameShareOnce, Broadcast!Spec
=============================================================================
