---------------------------- MODULE BlameTimeout ----------------------------
(***************************************************************************)
(* Whom a node blames when a key generation or a key sign runs into its    *)
(* timeout: the blame manager (blame/manager.go, policy.go,                *)
(* policy_helper.go, round_mgr.go, blame.go), the loops processKeyGen and  *)
(* processKeySign that feed and ask it, and the part of common/tss.go that *)
(* collects the shares of a batch, going out and coming in.                *)
(*                                                                         *)
(* One node is modelled, with the peers of its party.  The local parties   *)
(* of tss-lib are external: one for each item of the batch.  A round of    *)
(* tss-lib has one or two phases (message types); a party enters a round,  *)
(* and emits its messages, once it was given every peer's messages of the  *)
(* rounds before.  Giving it a share may fail and names culprits, which    *)
(* are then some of the faulty peers.  A message of a peer may arrive late *)
(* or never, and in any order; how the hash of a broadcast is agreed on is *)
(* TssCommon's matter: a broadcast arrives here when it was confirmed.     *)
(***************************************************************************)
EXTENDS Naturals, FiniteSets, FiniteSetsExt

CONSTANTS Parties, \* the sets of peers that the node may run with
          Faulty,  \* the peers that may send a wrong share
          Batch,   \* Batch[kind]: the items of the batch; one for a key generation
          Local,   \* the node itself
          None     \* no value

ASSUME PartiesAssumption ==
  \A s \in Parties : IsFiniteSet(s) /\ s # {} /\ Local \notin s /\ None \notin s
ASSUME BatchAssumption ==
  /\ DOMAIN Batch \subseteq {"keygen", "keysign"}
  /\ \A k \in DOMAIN Batch : IsFiniteSet(Batch[k]) /\ Batch[k] # {}

VARIABLES
  kind,     \* "keygen" or "keysign"
  peers,    \* the peers of the party
  received, \* lastUnicastPeer and storedMsg: the pairs of a peer and a phase
  accepted, \* item -> acceptedShares, the same pairs
  culprits, \* the peers whose share tss-lib refused
  out,      \* item -> the phases taken from outCh
  lastMsg,  \* the phase of the last message taken from outCh
  nodes,    \* BlameNodes: a peer, and whether a signed message comes with it
  reason,   \* FailReason
  ended,    \* the items taken from endCh
  result    \* "running" and what the loop returned

vars == <<kind, peers, received, accepted, culprits, out, lastMsg, nodes, reason, ended, result>>

Items == Batch[kind]

(***************************************************************************)
(* The message types in the order of their index, each with the round of   *)
(* tss-lib that it belongs to and whether it is sent to one peer only.     *)
(***************************************************************************)
Phase(r, u) == [round |-> r, unicast |-> u]

Phases ==
  IF kind = "keygen"
    THEN <<Phase(1, FALSE), Phase(2, TRUE), Phase(2, FALSE), Phase(3, FALSE)>>
    ELSE <<Phase(1, TRUE), Phase(1, FALSE), Phase(2, TRUE), Phase(3, FALSE), Phase(4, FALSE),
           Phase(5, FALSE), Phase(6, FALSE), Phase(7, FALSE)>>

Indexes == DOMAIN Phases
Earlier(k) == {j \in Indexes : Phases[j].round < Phases[k].round}

GetThreshold(n) == ((2 * n + 2) \div 3) - 1
Nodes == Cardinality(peers) + 1
Threshold == GetThreshold(Nodes)

Init ==
  /\ kind \in DOMAIN Batch
  /\ peers \in Parties
  /\ received = {}
  /\ accepted = [i \in Items |-> {}]
  /\ culprits = {}
  /\ out = [i \in Items |-> {}]
  /\ lastMsg = None
  /\ nodes = {}
  /\ reason = "none"
  /\ ended = {}
  /\ result = "running"

-----------------------------------------------------------------------------
(***************************************************************************)
(* The loop takes a message of a party from outCh.  ProcessOutCh collects  *)
(* the messages of a type and sends them when it has one of every item.    *)
(***************************************************************************)
Sent(k) == \A i \in Items : k \in out[i]

PartyEmits(i, k) ==
  /\ k \notin out[i] /\ \A j \in Indexes : j < k => j \in out[i]
  /\ \A q \in peers, j \in Earlier(k) : <<q, j>> \in accepted[i]

ProcessOutCh(i, k) ==
  /\ result = "running"
  /\ PartyEmits(i, k)
  /\ lastMsg' = k
  /\ out' = [out EXCEPT ![i] = @ \union {k}]
  /\ UNCHANGED <<kind, peers, received, accepted, culprits, nodes, reason, ended, result>>

\* endCh: the loop returns when every item has its signature, or the key is there.
TakeEndCh(i) ==
  /\ result = "running" /\ i \notin ended
  /\ accepted[i] = peers \X Indexes /\ out[i] = Indexes
  /\ ended' = ended \union {i}
  /\ result' = IF ended' = Items THEN "finished" ELSE result
  /\ UNCHANGED <<kind, peers, received, accepted, culprits, out, lastMsg, nodes, reason>>

\* errChan, when a party could not be started, and stopChan.
Abort ==
  /\ result = "running"
  /\ result' = "error"
  /\ UNCHANGED <<kind, peers, received, accepted, culprits, out, lastMsg, nodes, reason, ended>>

(***************************************************************************)
(* A peer's message of a type arrives: SetLastUnicastPeer or RoundMgr.Set, *)
(* then updateLocal with the shares of all items.  A share that was        *)
(* accepted before is skipped, and once the peer is a culprit the rest of  *)
(* the message is given up.  The others are given to their parties by      *)
(* concurrent jobs: a share that fails is not recorded, and                *)
(* processInvalidMsgBlame blames its culprits, with their stored message   *)
(* of this type if there is one.                                           *)
(*                                                                         *)
(* A peer is at most one round ahead of what this node sent.               *)
(***************************************************************************)
CanArrive(k) == \A j \in Earlier(k) : Phases[j].round + 1 = Phases[k].round => Sent(j)

ProcessInvalidMsgBlame(k, cs) ==
  /\ culprits' = culprits \union cs
  /\ nodes' = nodes \union
       {[peer |-> c, signed |-> ~Phases[k].unicast /\ <<c, k>> \in received'] : c \in cs}
  /\ reason' = IF cs = {} THEN reason ELSE "broken"

UpdateLocal(q, k) ==
  LET fresh == {i \in Items : <<q, k>> \notin accepted[i]} IN
  \E good \in SUBSET fresh, cs \in SUBSET (Faulty \intersect peers) :
    /\ good # fresh => cs # {} \/ q \in culprits
    /\ cs # {} => good # fresh /\ \A c \in cs : \E j \in Indexes : <<c, j>> \in received'
    /\ q \in culprits => good = {} /\ cs = {}
    /\ accepted' = [i \in Items |-> IF i \in good THEN accepted[i] \union {<<q, k>>} ELSE accepted[i]]
    /\ ProcessInvalidMsgBlame(k, cs)

Receive(q, k) ==
  /\ result = "running"
  /\ CanArrive(k)
  /\ received' = received \union {<<q, k>>}
  /\ UpdateLocal(q, k)
  /\ UNCHANGED <<kind, peers, out, lastMsg, ended, result>>

-----------------------------------------------------------------------------
(***************************************************************************)
(* The three policies.  Nobody is blamed for a type that nobody sent.      *)
(***************************************************************************)
SentToUs(k) == {q \in peers : <<q, k>> \in received}

NotInList(list) == peers \ list

GetUnicastBlame(k) == IF SentToUs(k) = {} THEN {} ELSE NotInList(SentToUs(k))

\* storedMsg holds broadcasts only.
GetBroadcastBlame(k) ==
  IF Phases[k].unicast \/ SentToUs(k) = {} THEN {} ELSE NotInList(SentToUs(k))

(***************************************************************************)
(* TssMissingShareBlame looks at the items with an accepted share, in any  *)
(* order.  The peers that sent the first incomplete type of an item are    *)
(* added to one list for all items, and after each item everybody who is   *)
(* not in the list is blamed: once for each item, and everybody if the     *)
(* items so far are complete.                                              *)
(***************************************************************************)
Incomplete(i) == {k \in Indexes : {q \in peers : <<q, k>> \in accepted[i]} # peers}

Listed(i) ==
  IF Incomplete(i) = {} THEN {} ELSE {q \in peers : <<q, Min(Incomplete(i))>> \in accepted[i]}

Groups == {i \in Items : accepted[i] # {}}

\* The orders in which the map of the groups may be walked: a position for each group.
Orders == {o \in [Groups -> 1 .. Cardinality(Groups)] :
             \A i, j \in Groups : o[i] = o[j] => i = j}

BlamedAfter(o, i) == NotInList(UNION {Listed(j) : j \in {g \in Groups : o[g] <= o[i]}})

MissingShareBlame(o) == UNION {BlamedAfter(o, i) : i \in Groups}
MissingShareCount(o) == Cardinality({iq \in Groups \X peers : iq[2] \in BlamedAfter(o, iq[1])})

-----------------------------------------------------------------------------
(***************************************************************************)
(* The timeout.  A list is used if it is not longer than the threshold;    *)
(* the list of the broadcasts always is.  A key generation that never saw  *)
(* a message of its own blames nobody; a key sign dereferences the nil     *)
(* message and the process dies.                                           *)
(***************************************************************************)
\* Any number of nodes is blamed.
MutWithinThreshold(count) == count > 0

WithinThreshold(count) == count > 0 /\ count <= Threshold

\* The first unicast is never looked at.
MutGetPreviousKeySignUicast(k) == 3

GetPreviousKeySignUicast(k) == IF k = 2 THEN 1 ELSE 3

UnicastType ==
  IF kind = "keygen" THEN 2
  ELSE IF Phases[lastMsg].unicast THEN lastMsg ELSE GetPreviousKeySignUicast(lastMsg)

Unsigned(s) == {[peer |-> q, signed |-> FALSE] : q \in s}

\* SetBlame with the list of the unicasts, then AddBlameNodes with the other lists.
TimeoutBlame(o) ==
  LET u == GetUnicastBlame(UnicastType)
      unicast == IF WithinThreshold(Cardinality(u)) THEN u ELSE {}
      found == nodes \union Unsigned(unicast \union GetBroadcastBlame(lastMsg))
      missing == IF found = {} /\ WithinThreshold(MissingShareCount(o))
                   THEN MissingShareBlame(o) ELSE {}
  IN /\ nodes' = found \union Unsigned(missing)
     /\ reason' = IF unicast # {} /\ reason = "none" THEN "timeout" ELSE reason

Timeout ==
  /\ result = "running"
  /\ IF lastMsg = None
       THEN /\ result' = IF kind = "keygen" THEN "no message" ELSE "panic"
            /\ UNCHANGED <<nodes, reason>>
       ELSE /\ result' = "timeout"
            /\ \E o \in Orders : TimeoutBlame(o)
  /\ UNCHANGED <<kind, peers, received, accepted, culprits, out, lastMsg, ended>>

Next ==
  \/ \E i \in Items : TakeEndCh(i) \/ \E k \in Indexes : ProcessOutCh(i, k)
  \/ \E q \in peers, k \in Indexes : Receive(q, k)
  \/ Abort
  \/ Timeout

Spec == Init /\ [][Next]_vars

-----------------------------------------------------------------------------
\* Types.
TypeOK ==
  /\ kind \in DOMAIN Batch
  /\ peers \in Parties
  /\ received \subseteq peers \X Indexes
  /\ accepted \in [Items -> SUBSET received]
  /\ culprits \subseteq peers
  /\ out \in [Items -> SUBSET Indexes]
  /\ lastMsg \in Indexes \union {None}
  /\ nodes \subseteq [peer : peers, signed : BOOLEAN]
  /\ reason \in {"none", "broken", "timeout"}
  /\ ended \subseteq Items
  /\ result \in {"running", "finished", "error", "no message", "panic", "timeout"}

\* The peer has not sent something that this node or another peer has sent.
Behind(q) ==
  \E k \in Indexes : /\ <<q, k>> \notin received
                     /\ \/ \E i \in Items : k \in out[i]
                        \/ SentToUs(k) # {}

(***************************************************************************)
(* With a party of three or more, the timeout blames nobody who has sent   *)
(* all that anybody has sent, and who sent no wrong share.  The threshold  *)
(* on the list of missing shares is what this rests on: the timeout may    *)
(* come when a round is complete and the next not begun, or when all       *)
(* shares are there but the result is still in endCh, and then             *)
(* TssMissingShareBlame lists every peer.  With two nodes the threshold is *)
(* one and the only peer is blamed in these cases.  The node never blames  *)
(* itself.                                                                 *)
(***************************************************************************)
BlamedIsBehind ==
  result = "timeout" =>
    \A b \in nodes : /\ b.peer # Local
                     /\ Nodes >= 3 => Behind(b.peer) \/ b.peer \in culprits

\* The node sent all messages of the round that it is in, and all but q sent theirs to it.
WaitsFor(q) ==
  /\ lastMsg # None
  /\ \A k \in Indexes : Phases[k].round = Phases[lastMsg].round => Sent(k)
  /\ \A p \in peers \ {q}, k \in Indexes :
       Phases[k].round <= Phases[lastMsg].round => <<p, k>> \in received
  /\ \E k \in Indexes : Phases[k].round <= Phases[lastMsg].round /\ <<q, k>> \notin received

(***************************************************************************)
(* A timeout in which the node waits for a single silent peer, in whatever *)
(* round, blames this peer, and it alone.  There are two exceptions.  With *)
(* two nodes the list of missing shares names the peer once for each item, *)
(* exceeds the threshold of one, and nobody is blamed for a batch.  And a  *)
(* key generation asks for the unicasts of its second round in the first   *)
(* one already, so that a peer that is as slow as the node is may be       *)
(* blamed too.                                                             *)
(***************************************************************************)
SilentIsBlamed ==
  \A q \in peers :
    result = "timeout" /\ culprits = {} /\ WaitsFor(q) /\ Nodes >= 3 =>
      LET blamed == {b.peer : b \in nodes} IN
      /\ q \in blamed
      /\ kind = "keysign" \/ lastMsg > 1 => blamed = {q}
=============================================================================
