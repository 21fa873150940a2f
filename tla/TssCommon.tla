----------------------------- MODULE TssCommon ------------------------------
(***************************************************************************)
(* The confirmation of one broadcast share (common/tss.go,                 *)
(* common/tss_helper.go, common/local_cache_item.go, blame/share_mgr.go,   *)
(* blame/round_mgr.go): the owner broadcasts its message of one round,     *)
(* every receiver tells the others the hash of what it got, and a share is *)
(* given to tss-lib once enough hashes are in and the most frequent one is *)
(* the hash of the share; a share that is missing or differs is requested  *)
(* from the peers that confirmed the most frequent hash.                   *)
(*                                                                         *)
(* Every party handles its messages one by one, in the goroutine of        *)
(* ProcessInboundMessages, so one message is one step.  Every message is   *)
(* written by a goroutine of its own: messages overtake each other, and a  *)
(* message is lost when its stream cannot be opened or written.            *)
(*                                                                         *)
(* Signatures are checked before anything else, so that only messages of   *)
(* the owner occur; sha256 has no collisions here: a message stands for    *)
(* its hash.  tss-lib accepts every message it is given.                   *)
(***************************************************************************)
EXTENDS Naturals, FiniteSets, Sequences

CONSTANTS Owner,      \* the party whose share is broadcast
          Msgs,       \* the messages the owner may sign for this round
          Broadcasts, \* what the owner and the network may do: records with fields
                      \*   sent      receiver -> the message that the owner sends to it
                      \*   confirms  the receivers that the owner sends a hash to as well
                      \*   losses    bound: messages that are lost
                      \*   requests  bound: requests for a share that a receiver makes
          Losable,    \* the types of message that may be lost
          None        \* no value

ASSUME NoneAssumption == None \notin Msgs

ASSUME BroadcastsAssumption ==
  \A b \in Broadcasts :
    /\ IsFiniteSet(DOMAIN b.sent)
    /\ {Owner, None} \intersect DOMAIN b.sent = {}
    /\ b.sent \in [DOMAIN b.sent -> Msgs]
    /\ b.confirms \subseteq DOMAIN b.sent
    /\ b.losses \in Nat /\ b.requests \in Nat

VARIABLES
  broadcast, \* the element of Broadcasts that this one is
  net,       \* messages in flight
  item,      \* receiver -> its unConfirmedMessages entry for the share, or None
  requested, \* receiver -> ShareMgr.requested, a set of hashes
  stored,    \* receiver -> RoundMgr.storedMsg for the share, or None
  updates,   \* receiver -> the messages given to the local tss-lib party
  blamed,    \* receiver -> whether HashCheckFail was set as the blame
  asked,     \* receiver -> number of requests it made (history)
  lost,      \* number of messages lost (history)
  shareLost  \* whether one of them was the owner's share (history)

vars == <<broadcast, net, item, requested, stored, updates, blamed, asked, lost, shareLost>>

Sent          == broadcast.sent
OwnerConfirms == broadcast.confirms
Receivers     == DOMAIN Sent
Parties       == Receivers \union {Owner}

\* conversion.GetThreshold: two thirds of the parties, rounded up, less one.
GetThreshold(n) == ((2 * n + 2) \div 3) - 1

Threshold == GetThreshold(Cardinality(Receivers) + 1)

Message ==
  [type : {"share"}, to : Receivers, msg : Msgs]
    \union [type : {"ver"}, from : Parties, to : Receivers, hash : Msgs]
    \union [type : {"request"}, from : Receivers, to : Receivers, hash : Msgs, no : Nat]
    \union [type : {"reply"}, from : Receivers, to : Receivers, hash : Msgs, msg : Msgs, no : Nat]

(***************************************************************************)
(* LocalCacheItem.  A party that is not in ConfirmedList maps to None.     *)
(***************************************************************************)
CacheItem == [msg : Msgs \union {None}, hash : Msgs,
              confirmed : [Parties -> Msgs \union {None}]]

\* The hash is taken from a message that may not be there yet.
MutNewLocalCacheItem(m, h) == [msg |-> m, hash |-> m, confirmed |-> [q \in Parties |-> None]]

NewLocalCacheItem(m, h) == [msg |-> m, hash |-> h, confirmed |-> [q \in Parties |-> None]]

UpdateConfirmList(it, q, h) == [it EXCEPT !.confirmed[q] = h]

TotalConfirmParty(it) == Cardinality({q \in DOMAIN it.confirmed : it.confirmed[q] # None})

Freq(it, h) == Cardinality({q \in DOMAIN it.confirmed : it.confirmed[q] = h})

(***************************************************************************)
(* getHighestFreq ranges over a map: with a tie it returns any of the most *)
(* frequent hashes, and may return another one when it is called again.    *)
(***************************************************************************)
Hashes(it) == {it.confirmed[q] : q \in DOMAIN it.confirmed} \ {None}

HighestFreq(it) == {h \in Hashes(it) : \A g \in Hashes(it) : Freq(it, g) <= Freq(it, h)}

\* getMsgHash with a limit that is too high, or too low.
MutHashAgreed(it, h) == Freq(it, h) >= Threshold + 1
MutHashAgreedLow(it, h) == Freq(it, h) + 2 >= Threshold

\* getMsgHash: is the highest frequency high enough?
HashAgreed(it, h) == Freq(it, h) + 1 >= Threshold

-----------------------------------------------------------------------------
Init ==
  /\ broadcast \in Broadcasts
  /\ net = {[type |-> "share", to |-> p, msg |-> Sent[p]] : p \in Receivers}
             \union {[type |-> "ver", from |-> Owner, to |-> p, hash |-> Sent[p]] :
                       p \in OwnerConfirms}
  /\ item = [p \in Receivers |-> None]
  /\ requested = [p \in Receivers |-> {}]
  /\ stored = [p \in Receivers |-> None]
  /\ updates = [p \in Receivers |-> <<>>]
  /\ blamed = [p \in Receivers |-> FALSE]
  /\ asked = [p \in Receivers |-> 0]
  /\ lost = 0
  /\ shareLost = FALSE

(***************************************************************************)
(* requestShareFromPeer: remember the wanted hash and ask every peer that  *)
(* confirmed it.  The request that a party addresses to itself is skipped  *)
(* by writeToStream, and the owner has not stored its own share.  Here and *)
(* below, want is what is left of the receiver's requested hashes, and     *)
(* netRest the messages in flight, once the triggering message is handled. *)
(***************************************************************************)
RequestShareFromPeer(p, it, want, netRest) ==
  /\ item' = [item EXCEPT ![p] = it]
  /\ UNCHANGED <<stored, updates, blamed>>
  /\ \E h \in HighestFreq(it) :
       IF HashAgreed(it, h)
       THEN /\ asked[p] < broadcast.requests
            /\ requested' = [requested EXCEPT ![p] = want \union {h}]
            /\ asked' = [asked EXCEPT ![p] = @ + 1]
            /\ net' = netRest \union
                 {[type |-> "request", from |-> p, to |-> q, hash |-> h, no |-> asked[p]] :
                    q \in {q \in Receivers \ {p} : it.confirmed[q] = h}}
       ELSE /\ requested' = [requested EXCEPT ![p] = want]
            /\ net' = netRest
            /\ UNCHANGED asked

\* updateLocal without the check for a duplicate.
MutUpdateLocal(p, m) == updates' = [updates EXCEPT ![p] = Append(@, m)]

(***************************************************************************)
(* updateLocal: a share that was accepted before is skipped.               *)
(***************************************************************************)
UpdateLocal(p, m) ==
  updates' = [updates EXCEPT ![p] = IF @ = <<>> THEN Append(@, m) ELSE @]

(***************************************************************************)
(* applyShare, on an item that has a message: what it does with each of    *)
(* the outcomes of hashCheck.                                              *)
(***************************************************************************)
NotEnoughPeer(p, it, want, netRest) ==
  /\ item' = [item EXCEPT ![p] = it]
  /\ net' = netRest
  /\ requested' = [requested EXCEPT ![p] = want]
  /\ UNCHANGED <<stored, updates, blamed, asked>>

OwnerConfirmed(it) == it.confirmed[Owner] # None

HashFromOwner(p, it, want, netRest) ==
  /\ item' = [item EXCEPT ![p] = UpdateConfirmList(it, Owner, None)]
  /\ blamed' = [blamed EXCEPT ![p] = TRUE]
  /\ net' = netRest
  /\ requested' = [requested EXCEPT ![p] = want]
  /\ UNCHANGED <<stored, updates, asked>>

HashInconsistency(p, it, h, want, netRest) ==
  /\ ~HashAgreed(it, h)
  /\ item' = [item EXCEPT ![p] = it]
  /\ blamed' = [blamed EXCEPT ![p] = TRUE]
  /\ net' = netRest
  /\ requested' = [requested EXCEPT ![p] = want]
  /\ UNCHANGED <<stored, updates, asked>>

NotMajority(p, it, h, want, netRest) ==
  /\ HashAgreed(it, h) /\ h # it.hash
  /\ RequestShareFromPeer(p, [it EXCEPT !.msg = None], want, netRest)

\* The hash that the others agree on is not compared with the one of the share.
MutShareInMajority(it, h) == HashAgreed(it, h)

ShareInMajority(it, h) == HashAgreed(it, h) /\ h = it.hash

HashConfirmed(p, it, h, want, netRest) ==
  /\ ShareInMajority(it, h)
  /\ stored' = [stored EXCEPT ![p] = it.msg]
  /\ UpdateLocal(p, it.msg)
  /\ item' = [item EXCEPT ![p] = None]
  /\ net' = netRest
  /\ requested' = [requested EXCEPT ![p] = want]
  /\ UNCHANGED <<blamed, asked>>

ApplyShare(p, it, want, netRest) ==
  \/ /\ TotalConfirmParty(it) < Threshold
     /\ NotEnoughPeer(p, it, want, netRest)
  \/ /\ TotalConfirmParty(it) >= Threshold
     /\ \/ OwnerConfirmed(it) /\ HashFromOwner(p, it, want, netRest)
        \/ /\ ~OwnerConfirmed(it)
           /\ \E h \in HighestFreq(it) : \/ HashInconsistency(p, it, h, want, netRest)
                                         \/ NotMajority(p, it, h, want, netRest)
                                         \/ HashConfirmed(p, it, h, want, netRest)

(***************************************************************************)
(* processTSSMsg on message m: a cached message is not replaced, but the   *)
(* receiver's own entry in ConfirmedList is.                               *)
(***************************************************************************)
ProcessTSSMsg(p, m, want, netRest) ==
  LET old == IF item[p] = None THEN NewLocalCacheItem(m, m)
             ELSE IF item[p].msg = None THEN [item[p] EXCEPT !.msg = m, !.hash = m]
             ELSE item[p]
  IN \E it \in {UpdateConfirmList(old, p, m)} : ApplyShare(p, it, want, netRest)

(***************************************************************************)
(* The owner's message: first tell everybody but the owner its hash.       *)
(***************************************************************************)
ReceiveShare(m) ==
  /\ m.type = "share"
  /\ ProcessTSSMsg(m.to, m.msg, requested[m.to], (net \ {m}) \union
       {[type |-> "ver", from |-> m.to, to |-> q, hash |-> m.msg] : q \in Receivers \ {m.to}})
  /\ UNCHANGED <<broadcast, lost, shareLost>>

(***************************************************************************)
(* processVerMsg, unless this peer's hash is in the list already.          *)
(***************************************************************************)
ReceiveVerMsg(m) ==
  LET p == m.to
      old == IF item[p] = None THEN NewLocalCacheItem(None, m.hash) ELSE item[p]
      rest == net \ {m}
  IN
  /\ m.type = "ver"
  /\ IF old.confirmed[m.from] # None
     THEN net' = rest /\ UNCHANGED <<item, requested, stored, updates, blamed, asked>>
     ELSE \E it \in {UpdateConfirmList(old, m.from, m.hash)} :
            IF it.msg = None THEN RequestShareFromPeer(p, it, requested[p], rest)
            ELSE ApplyShare(p, it, requested[p], rest)
  /\ UNCHANGED <<broadcast, lost, shareLost>>

(***************************************************************************)
(* TSSControlMsg: a request is answered with the message stored under the  *)
(* key, if any; an answer counts only once for each requested hash.        *)
(***************************************************************************)
ReceiveRequest(m) ==
  /\ m.type = "request"
  /\ net' = (net \ {m}) \union
       (IF stored[m.to] = None THEN {}
        ELSE {[type |-> "reply", from |-> m.to, to |-> m.from, hash |-> m.hash,
               msg |-> stored[m.to], no |-> m.no]})
  /\ UNCHANGED <<broadcast, item, requested, stored, updates, blamed, asked, lost, shareLost>>

ReceiveReply(m) ==
  /\ m.type = "reply"
  /\ m.hash \notin requested[m.to]
  /\ net' = net \ {m}
  /\ UNCHANGED <<broadcast, item, requested, stored, updates, blamed, asked, lost, shareLost>>

(***************************************************************************)
(* An expected answer: QueryAndDelete, then processTSSMsg as a forward.    *)
(***************************************************************************)
ReceiveMissingShare(m) ==
  LET p == m.to IN
  /\ m.type = "reply"
  /\ m.hash \in requested[p]
  /\ ProcessTSSMsg(p, m.msg, requested[p] \ {m.hash}, net \ {m})
  /\ UNCHANGED <<broadcast, lost, shareLost>>

Lose(m) ==
  /\ m.type \in Losable
  /\ lost < broadcast.losses
  /\ lost' = lost + 1
  /\ shareLost' = (shareLost \/ m.type = "share")
  /\ net' = net \ {m}
  /\ UNCHANGED <<broadcast, item, requested, stored, updates, blamed, asked>>

-----------------------------------------------------------------------------
Receive(m) == \/ ReceiveShare(m) \/ ReceiveVerMsg(m) \/ ReceiveRequest(m)
              \/ ReceiveReply(m) \/ ReceiveMissingShare(m)

Next == \E m \in net : Receive(m) \/ Lose(m)

Spec == Init /\ [][Next]_vars

(***************************************************************************)
(* The goroutines of ProcessInboundMessages do not all stop while there    *)
(* are messages to read.  Only finitely many messages are sent, so this is *)
(* enough for each of them to be handled.                                  *)
(***************************************************************************)
FairSpec == Spec /\ WF_vars(\E m \in net : Receive(m))

-----------------------------------------------------------------------------
(***************************************************************************)
(* The type invariant of the receivers' state.                             *)
(***************************************************************************)
TypeOK ==
  /\ broadcast \in Broadcasts
  /\ net \subseteq Message
  /\ item \in [Receivers -> CacheItem \union {None}]
  /\ requested \in [Receivers -> SUBSET Msgs]
  /\ stored \in [Receivers -> Msgs \union {None}]
  /\ updates \in [Receivers -> Seq(Msgs)]
  /\ blamed \in [Receivers -> BOOLEAN]
  /\ asked \in [Receivers -> Nat]
  /\ lost \in Nat
  /\ shareLost \in BOOLEAN

\* The abstract broadcast, with what the receivers gave to tss-lib.
Broadcast == INSTANCE ShareBroadcast
               WITH ReceiverSets <- {DOMAIN b.sent : b \in Broadcasts}, Msgs <- Msgs, updates <- updates

(***************************************************************************)
(* "we only allow a message be updated only once", and "to make sure every *)
(* party receive the same broadcast message": the receivers implement      *)
(* ShareBroadcast.                                                         *)
(***************************************************************************)
SameShareOnce == Broadcast!Spec

(***************************************************************************)
(* The messages that the owner of a broadcast b sends to so many receivers *)
(* that getMsgHash accepts their hash when these confirm it.               *)
(***************************************************************************)
Recipients(b, m) == {p \in DOMAIN b.sent : b.sent[p] = m}

BackedIn(b) ==
  {m \in Msgs : /\ Recipients(b, m) # {}
               /\ Cardinality(Recipients(b, m)) + 1 >= GetThreshold(Cardinality(DOMAIN b.sent) + 1)}

Backed == BackedIn(broadcast)

(***************************************************************************)
(* Whatever the owner sent to whom, a message that is given to tss-lib, or *)
(* to a peer that asks, is one that the owner itself sent to enough        *)
(* receivers: answers of peers, which may carry another message than the   *)
(* one asked for, and a receiver's own entry, which they replace, never    *)
(* make up for receivers that were sent something else.                    *)
(***************************************************************************)
HandedIsBacked ==
  \A p \in Receivers : stored[p] \in Backed \union {None} /\ updates[p] \in Seq(Backed)

(***************************************************************************)
(* An owner that sent the same message to everybody, and no hash.          *)
(***************************************************************************)
ConsistentOwner == OwnerConfirms = {} /\ \A p, q \in Receivers : Sent[p] = Sent[q]

(***************************************************************************)
(* A peer that asks a receiver for the share of such an owner is given the *)
(* message that the receiver itself handed to tss-lib, although the item   *)
(* may be built up and confirmed a second time by messages that come late, *)
(* and one that was not handed over is not given away.                     *)
(***************************************************************************)
StoredIsApplied ==
  ConsistentOwner => \A p \in Receivers :
    IF stored[p] = None THEN updates[p] = <<>> ELSE updates[p] = <<stored[p]>>

(***************************************************************************)
(* Such an owner is never blamed for a failed hash check, whatever is lost *)
(* or overtaken.                                                           *)
(***************************************************************************)
NoFalseBlame == ConsistentOwner => \A p \in Receivers : ~blamed[p]

(***************************************************************************)
(* At most one message is lost, and it is not the share itself.            *)
(***************************************************************************)
FewLost == lost <= 1 /\ ~shareLost

(***************************************************************************)
(* As long as few messages are lost, every receiver's local party gets the *)
(* share of a consistent owner.                                            *)
(***************************************************************************)
AllUpdated == <>(ConsistentOwner /\ FewLost => \A p \in Receivers : updates[p] # <<>>)
=============================================================================
