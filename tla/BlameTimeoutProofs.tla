------------------------- MODULE BlameTimeoutProofs -------------------------
(***************************************************************************)
(* Proofs that a timeout blames the right peers, for parties of any size,  *)
(* batches of any length and any order in which the shares arrive.         *)
(***************************************************************************)
EXTENDS BlameTimeout, FiniteSetTheorems, TLAPS

USE DEF vars

-----------------------------------------------------------------------------
(***************************************************************************)
(* Blamed: only a share that was refused blames a peer before the timeout, *)
(* and a culprit is always in the list.                                    *)
(***************************************************************************)
Blamed ==
  /\ result # "timeout" => \A b \in nodes : b.peer \in culprits
  /\ culprits # {} => nodes # {}

(***************************************************************************)
(* Taken: as long as no share was refused, every item has all the shares   *)
(* that arrived.                                                           *)
(***************************************************************************)
Taken == culprits = {} => \A i \in Items : received \subseteq accepted[i]

(***************************************************************************)
(* Emitted: a party emits its messages in order and after it has all the   *)
(* shares of the rounds before; the last message is the last one of its    *)
(* party.                                                                  *)
(***************************************************************************)
Emitted ==
  /\ \A i \in Items, k \in Indexes : k \in out[i] =>
       /\ \A q \in peers, j \in Earlier(k) : <<q, j>> \in accepted[i]
       /\ \A j \in Indexes : j < k => j \in out[i]
  /\ lastMsg # None => \E i \in Items : lastMsg \in out[i] /\ \A k \in out[i] : k <= lastMsg

IInv == TypeOK /\ Blamed /\ Taken /\ Emitted /\ BlamedIsBehind /\ SilentIsBlamed

-----------------------------------------------------------------------------
(***************************************************************************)
(* The message types of a key generation and of a key sign are numbered    *)
(* from one.                                                               *)
(***************************************************************************)
LEMMA IndexRange == /\ kind = "keygen" => Indexes = 1 .. 4
                    /\ kind # "keygen" => Indexes = 1 .. 8
                    /\ Indexes \subseteq Nat
<1>1. kind = "keygen" => Indexes = 1 .. 4
  BY DEF Indexes, Phases
<1>2. kind # "keygen" => Indexes = 1 .. 8
  BY DEF Indexes, Phases
<1> QED
  BY <1>1, <1>2

(***************************************************************************)
(* The round of every message type of a key generation.                    *)
(***************************************************************************)
LEMMA KeygenRounds ==
  ASSUME kind = "keygen"
  PROVE  /\ Phases[1].round = 1 /\ ~Phases[1].unicast
         /\ Phases[2].round = 2 /\ Phases[2].unicast
         /\ Phases[3].round = 2 /\ ~Phases[3].unicast
         /\ Phases[4].round = 3 /\ ~Phases[4].unicast
  BY DEF Phases, Phase

(***************************************************************************)
(* The round of every message type of a key sign.                          *)
(***************************************************************************)
LEMMA KeysignRounds ==
  ASSUME kind # "keygen"
  PROVE  /\ Phases[1].round = 1 /\ Phases[1].unicast
         /\ Phases[2].round = 1 /\ ~Phases[2].unicast
         /\ Phases[3].round = 2 /\ Phases[3].unicast
         /\ Phases[4].round = 3 /\ ~Phases[4].unicast
         /\ Phases[5].round = 4 /\ ~Phases[5].unicast
         /\ Phases[6].round = 5 /\ ~Phases[6].unicast
         /\ Phases[7].round = 6 /\ ~Phases[7].unicast
         /\ Phases[8].round = 7 /\ ~Phases[8].unicast
  BY DEF Phases, Phase

(***************************************************************************)
(* GetThreshold: in a party of three or more one peer may be blamed, but   *)
(* never all the peers of a node.                                          *)
(***************************************************************************)
LEMMA ThresholdRange ==
  ASSUME TypeOK, Nodes >= 3
  PROVE  /\ Threshold \in Int /\ Threshold >= 1
         /\ Cardinality(peers) \in Nat /\ Threshold < Cardinality(peers)
<1>1. IsFiniteSet(peers)
  BY PartiesAssumption DEF TypeOK
<1>2. Cardinality(peers) \in Nat
  BY <1>1, FS_CardinalityType
<1>3. ASSUME NEW n \in Nat, n >= 2
      PROVE  LET t == ((2 * (n + 1) + 2) \div 3) - 1 IN t \in Int /\ t >= 1 /\ t < n
  BY <1>3, Z3
<1> QED
  BY <1>2, <1>3 DEF Threshold, GetThreshold, Nodes

(***************************************************************************)
(* The list of TssMissingShareBlame has a node for every peer and item     *)
(* that it blames, so that a list that names every peer after some item is *)
(* at least as long as the party.                                          *)
(***************************************************************************)
LEMMA MissingShareLength ==
  ASSUME TypeOK, NEW o \in Orders, NEW i \in Groups, BlamedAfter(o, i) = peers
  PROVE  MissingShareCount(o) \in Nat /\ Cardinality(peers) <= MissingShareCount(o)
<1> DEFINE pairs == {iq \in Groups \X peers : iq[2] \in BlamedAfter(o, iq[1])}
           f == [q \in peers |-> <<i, q>>]
<1>1. IsFiniteSet(peers) /\ IsFiniteSet(Items)
  BY PartiesAssumption, BatchAssumption DEF TypeOK, Items
<1>2. IsFiniteSet(Groups)
  BY <1>1, FS_Subset DEF Groups
<1>3. IsFiniteSet(Groups \X peers)
  BY <1>1, <1>2, FS_Product
<1>4. IsFiniteSet(pairs)
  BY <1>3, FS_Subset
<1>5. f \in Injection(peers, pairs)
  BY DEF Injection, IsInjective
<1> HIDE DEF f, pairs
<1>6. Cardinality(peers) <= Cardinality(pairs)
  BY <1>4, <1>5, FS_Injection
<1>7. Cardinality(pairs) \in Nat
  BY <1>4, FS_CardinalityType
<1> QED
  BY <1>6, <1>7 DEF pairs, MissingShareCount

(***************************************************************************)
(* The policy for unicasts looks at a message type of the ceremony.        *)
(***************************************************************************)
LEMMA UnicastIndex ==
  ASSUME TypeOK, lastMsg \in Indexes
  PROVE  UnicastType \in Indexes
<1>1. CASE kind = "keygen"
  BY <1>1, IndexRange DEF UnicastType
<1>2. CASE kind # "keygen"
  <2>1. UnicastType \in {lastMsg, 1, 3}
    BY <1>2 DEF UnicastType, GetPreviousKeySignUicast
  <2> QED
    BY <1>2, <2>1, IndexRange
<1> QED
  BY <1>1, <1>2

(***************************************************************************)
(* A list of TssMissingShareBlame that is short enough to be used names    *)
(* only peers whose shares of some message type are missing while another  *)
(* peer's are there.                                                       *)
(***************************************************************************)
LEMMA MissingIsBehind ==
  ASSUME TypeOK, Taken, culprits = {}, Nodes >= 3, NEW o \in Orders,
         WithinThreshold(MissingShareCount(o)), NEW q \in MissingShareBlame(o)
  PROVE  Behind(q)
<1>1. PICK i \in Groups : q \in BlamedAfter(o, i)
  BY DEF MissingShareBlame
<1>2. BlamedAfter(o, i) \subseteq peers
  BY DEF BlamedAfter, NotInList
<1>3. BlamedAfter(o, i) # peers
  BY MissingShareLength, ThresholdRange DEF WithinThreshold
<1>4. PICK p \in peers : p \notin BlamedAfter(o, i)
  BY <1>2, <1>3
<1>5. PICK j \in Groups : o[j] <= o[i] /\ p \in Listed(j)
  BY <1>4 DEF BlamedAfter, NotInList
<1>6. q \notin Listed(j) /\ q \in peers
  BY <1>1, <1>2, <1>5 DEF BlamedAfter, NotInList
<1>7. PICK m : Listed(j) = {x \in peers : <<x, m>> \in accepted[j]}
  BY <1>5 DEF Listed
<1>8. j \in Items /\ accepted[j] \subseteq received
  BY DEF Groups, TypeOK
<1>9. <<p, m>> \in received /\ <<q, m>> \notin accepted[j]
  BY <1>5, <1>6, <1>7, <1>8
<1>10. m \in Indexes
  BY <1>9 DEF TypeOK
<1>11. <<q, m>> \notin received
  BY <1>8, <1>9 DEF Taken
<1>12. p \in SentToUs(m)
  BY <1>9 DEF SentToUs
<1> QED
  BY <1>10, <1>11, <1>12 DEF Behind

(***************************************************************************)
(* The lists of the policies for unicasts and for broadcasts name peers    *)
(* that did not send what another peer sent.                               *)
(***************************************************************************)
LEMMA PolicyIsBehind ==
  ASSUME TypeOK, NEW k \in Indexes, NEW q \in GetUnicastBlame(k) \union GetBroadcastBlame(k)
  PROVE  q \in peers /\ Behind(q)
<1>1. q \in peers /\ q \notin SentToUs(k) /\ SentToUs(k) # {}
  BY DEF GetUnicastBlame, GetBroadcastBlame, NotInList
<1>2. <<q, k>> \notin received
  BY <1>1 DEF SentToUs
<1> QED
  BY <1>1, <1>2 DEF Behind

(***************************************************************************)
(* What a timeout adds to the list of blamed nodes.                        *)
(***************************************************************************)
LEMMA TimeoutAdds ==
  ASSUME NEW o \in Orders, TimeoutBlame(o)
  PROVE  \E unicast, missing :
           /\ unicast = IF WithinThreshold(Cardinality(GetUnicastBlame(UnicastType)))
                          THEN GetUnicastBlame(UnicastType) ELSE {}
           /\ nodes' = nodes \union Unsigned(unicast \union GetBroadcastBlame(lastMsg)) \union Unsigned(missing)
           /\ missing = {} \/ /\ nodes \union Unsigned(unicast \union GetBroadcastBlame(lastMsg)) = {}
                              /\ WithinThreshold(MissingShareCount(o))
                              /\ missing = MissingShareBlame(o)
  BY DEF TimeoutBlame

(***************************************************************************)
(* The blame of a timeout is on peers that are behind or sent a wrong      *)
(* share: the two policies look at what arrived, and the third, which may  *)
(* list everybody, is cut off by the threshold.                            *)
(***************************************************************************)
LEMMA TimeoutBlamesBehind ==
  ASSUME TypeOK, Blamed, Taken, result = "running", lastMsg \in Indexes,
         NEW o \in Orders, TimeoutBlame(o), NEW b \in nodes'
  PROVE  /\ b.peer \in peers /\ b.signed \in BOOLEAN /\ b = [peer |-> b.peer, signed |-> b.signed]
         /\ Nodes >= 3 => Behind(b.peer) \/ b.peer \in culprits
<1>1. PICK unicast, missing :
        /\ unicast = IF WithinThreshold(Cardinality(GetUnicastBlame(UnicastType)))
                       THEN GetUnicastBlame(UnicastType) ELSE {}
        /\ nodes' = nodes \union Unsigned(unicast \union GetBroadcastBlame(lastMsg)) \union Unsigned(missing)
        /\ missing = {} \/ /\ nodes \union Unsigned(unicast \union GetBroadcastBlame(lastMsg)) = {}
                           /\ WithinThreshold(MissingShareCount(o))
                           /\ missing = MissingShareBlame(o)
  BY TimeoutAdds
<1>2. CASE b \in nodes
  BY <1>2 DEF TypeOK, Blamed
<1>3. CASE b \in Unsigned(unicast \union GetBroadcastBlame(lastMsg))
  <2>1. PICK q \in unicast \union GetBroadcastBlame(lastMsg) : b = [peer |-> q, signed |-> FALSE]
    BY <1>3 DEF Unsigned
  <2>2. q \in GetUnicastBlame(UnicastType) \union GetBroadcastBlame(lastMsg)
    BY <1>1, <2>1
  <2>3. q \in peers /\ Behind(q)
    BY <2>2, UnicastIndex, PolicyIsBehind
  <2> QED
    BY <2>1, <2>3
<1>4. CASE b \in Unsigned(missing)
  <2>1. PICK q \in missing : b = [peer |-> q, signed |-> FALSE]
    BY <1>4 DEF Unsigned
  <2>2. nodes = {} /\ WithinThreshold(MissingShareCount(o)) /\ q \in MissingShareBlame(o)
    BY <1>1, <2>1
  <2>3. culprits = {}
    BY <2>2 DEF Blamed
  <2>4. q \in peers
    BY <2>2 DEF MissingShareBlame, BlamedAfter, NotInList
  <2>5. Nodes >= 3 => Behind(q)
    BY <2>2, <2>3, MissingIsBehind
  <2> QED
    BY <2>1, <2>4, <2>5
<1> QED
  BY <1>1, <1>2, <1>3, <1>4

(***************************************************************************)
(* While a node waits for one peer, the policies for a message type up to  *)
(* the round that it is in name this peer or, if its message is there,     *)
(* nobody.                                                                 *)
(***************************************************************************)
LEMMA WaitsForOne ==
  ASSUME TypeOK, Emitted, NEW q \in peers, WaitsFor(q), Nodes >= 3
  PROVE  /\ lastMsg \in Indexes
         /\ \A k \in Indexes : Phases[k].round <= Phases[lastMsg].round =>
              GetUnicastBlame(k) = IF <<q, k>> \in received THEN {} ELSE {q}
         /\ \A k \in Indexes : Phases[k].round < Phases[lastMsg].round => <<q, k>> \in received
         /\ \A k \in Indexes : Phases[k].round = Phases[lastMsg].round => k <= lastMsg
         /\ \E k \in Indexes : Phases[k].round <= Phases[lastMsg].round /\ <<q, k>> \notin received
<1>1. lastMsg \in Indexes
  BY DEF TypeOK, WaitsFor
<1>2. PICK i \in Items : lastMsg \in out[i] /\ \A k \in out[i] : k <= lastMsg
  BY DEF Emitted, WaitsFor
<1>3. ASSUME NEW k \in Indexes, Phases[k].round <= Phases[lastMsg].round
      PROVE  GetUnicastBlame(k) = IF <<q, k>> \in received THEN {} ELSE {q}
  <2>1. \A p \in peers : p # q => p \in SentToUs(k)
    BY <1>3 DEF WaitsFor, SentToUs
  <2>2. \E p \in peers : p # q
    <3>1. SUFFICES ASSUME peers = {q} PROVE FALSE
      BY <2>1
    <3>2. Cardinality(peers) = 1
      BY <3>1, FS_Singleton
    <3> QED
      BY <3>2 DEF Nodes
  <2>3. SentToUs(k) # {} /\ SentToUs(k) \subseteq peers
    BY <2>1, <2>2 DEF SentToUs
  <2>4. q \in SentToUs(k) <=> <<q, k>> \in received
    BY DEF SentToUs
  <2>5. GetUnicastBlame(k) = peers \ SentToUs(k)
    BY <2>3 DEF GetUnicastBlame, NotInList
  <2> QED
    BY <2>1, <2>3, <2>4, <2>5
<1>4. ASSUME NEW k \in Indexes, Phases[k].round < Phases[lastMsg].round PROVE <<q, k>> \in received
  <2>1. k \in Earlier(lastMsg)
    BY <1>4 DEF Earlier
  <2>2. <<q, k>> \in accepted[i]
    BY <1>1, <1>2, <2>1 DEF Emitted
  <2> QED
    BY <2>2 DEF TypeOK
<1>5. ASSUME NEW k \in Indexes, Phases[k].round = Phases[lastMsg].round PROVE k <= lastMsg
  BY <1>2, <1>5 DEF WaitsFor, Sent
<1>6. \E k \in Indexes : Phases[k].round <= Phases[lastMsg].round /\ <<q, k>> \notin received
  BY DEF WaitsFor
<1> QED
  BY <1>1, <1>3, <1>4, <1>5, <1>6

(***************************************************************************)
(* Whatever round the node is in, the policies for unicasts and broadcasts *)
(* together name the peer that it waits for, and nobody else unless it is  *)
(* in the first round of a key generation.                                 *)
(***************************************************************************)
LEMMA PoliciesNameSilent ==
  ASSUME TypeOK, Emitted, NEW q \in peers, WaitsFor(q), Nodes >= 3
  PROVE  LET both == GetUnicastBlame(UnicastType) \union GetBroadcastBlame(lastMsg) IN
         /\ q \in GetBroadcastBlame(lastMsg) \/ GetUnicastBlame(UnicastType) = {q}
         /\ kind = "keysign" \/ lastMsg > 1 => both = {q}
<1> DEFINE U(k) == IF <<q, k>> \in received THEN {} ELSE {q}
           r == Phases[lastMsg].round
<1>0. /\ lastMsg \in Indexes
      /\ \A k \in Indexes : Phases[k].round <= r => GetUnicastBlame(k) = U(k)
      /\ \A k \in Indexes : Phases[k].round < r => <<q, k>> \in received
      /\ \A k \in Indexes : Phases[k].round = r => k <= lastMsg
      /\ \E k \in Indexes : Phases[k].round <= r /\ <<q, k>> \notin received
  BY WaitsForOne
<1>1. \A k \in Indexes : GetBroadcastBlame(k) = IF Phases[k].unicast THEN {} ELSE GetUnicastBlame(k)
  BY DEF GetBroadcastBlame, GetUnicastBlame
<1>2. CASE kind = "keygen"
  <2>1. lastMsg \in {1, 2, 3, 4} /\ Indexes = {1, 2, 3, 4} /\ UnicastType = 2 /\ kind # "keysign"
    BY <1>0, <1>2, IndexRange DEF UnicastType
  <2>2. CASE lastMsg = 1
    <3>1. r = 1 /\ <<q, 1>> \notin received
      BY <1>0, <1>2, <2>1, <2>2, KeygenRounds
    <3>2. GetBroadcastBlame(1) = {q}
      BY <1>0, <1>1, <1>2, <2>1, <3>1, KeygenRounds
    <3> QED
      BY <2>1, <2>2, <3>2
  <2>3. CASE lastMsg = 2
    BY <1>0, <1>2, <2>1, <2>3, KeygenRounds
  <2>4. CASE lastMsg = 3
    <3>1. r = 2 /\ (<<q, 2>> \notin received \/ <<q, 3>> \notin received)
      BY <1>0, <1>2, <2>1, <2>4, KeygenRounds
    <3>2. GetUnicastBlame(2) = U(2) /\ GetBroadcastBlame(3) = U(3)
      BY <1>0, <1>1, <1>2, <2>1, <3>1, KeygenRounds
    <3> QED
      BY <2>1, <2>4, <3>1, <3>2
  <2>5. CASE lastMsg = 4
    <3>1. r = 3 /\ <<q, 2>> \in received /\ <<q, 4>> \notin received
      BY <1>0, <1>2, <2>1, <2>5, KeygenRounds
    <3>2. GetUnicastBlame(2) = U(2) /\ GetBroadcastBlame(4) = U(4)
      BY <1>0, <1>1, <1>2, <2>1, <3>1, KeygenRounds
    <3> QED
      BY <2>1, <2>5, <3>1, <3>2
  <2> QED
    BY <2>1, <2>2, <2>3, <2>4, <2>5
<1>3. CASE kind # "keygen"
  <2>1. Indexes = {1, 2, 3, 4, 5, 6, 7, 8} /\ lastMsg \in Indexes
    BY <1>0, <1>3, IndexRange
  <2>2. CASE lastMsg = 1
    BY <1>0, <1>3, <2>1, <2>2, KeysignRounds
  <2>3. CASE lastMsg = 2
    <3>1. r = 1 /\ (<<q, 1>> \notin received \/ <<q, 2>> \notin received)
      BY <1>0, <1>3, <2>1, <2>3, KeysignRounds
    <3>2. UnicastType = 1
      BY <1>3, <2>3, KeysignRounds DEF UnicastType, GetPreviousKeySignUicast
    <3>3. GetUnicastBlame(1) = U(1) /\ GetBroadcastBlame(2) = U(2)
      BY <1>0, <1>1, <1>3, <2>1, <3>1, KeysignRounds
    <3> QED
      BY <2>3, <3>1, <3>2, <3>3
  <2>4. CASE lastMsg = 3
    <3>1. r = 2 /\ <<q, 3>> \notin received
      BY <1>0, <1>3, <2>1, <2>4, KeysignRounds
    <3>2. UnicastType = 3
      BY <1>3, <2>4, KeysignRounds DEF UnicastType, GetPreviousKeySignUicast
    <3>3. GetUnicastBlame(3) = U(3) /\ GetBroadcastBlame(3) = {}
      BY <1>0, <1>1, <1>3, <2>1, <3>1, KeysignRounds
    <3> QED
      BY <2>4, <3>1, <3>2, <3>3
  <2>5. CASE lastMsg \in {4, 5, 6, 7, 8}
    <3>1. r = lastMsg - 1 /\ ~Phases[lastMsg].unicast
      BY <1>3, <2>5, KeysignRounds
    <3>2. UnicastType = 3
      BY <1>3, <2>5, <3>1 DEF UnicastType, GetPreviousKeySignUicast
    <3>3. <<q, 3>> \in received /\ GetUnicastBlame(3) = {}
      BY <1>0, <1>3, <2>1, <2>5, <3>1, KeysignRounds
    <3>4. <<q, lastMsg>> \notin received
      <4>1. PICK k \in Indexes : Phases[k].round <= r /\ <<q, k>> \notin received
        BY <1>0
      <4>2. Phases[k].round = r
        BY <1>0, <1>3, <2>1, <4>1, KeysignRounds
      <4>3. k = lastMsg
        BY <1>3, <2>1, <2>5, <3>1, <4>2, KeysignRounds
      <4> QED
        BY <4>1, <4>3
    <3>5. GetBroadcastBlame(lastMsg) = {q}
      BY <1>0, <1>1, <2>1, <3>1, <3>4
    <3> QED
      BY <3>2, <3>3, <3>5
  <2> QED
    BY <2>1, <2>2, <2>3, <2>4, <2>5
<1> QED
  BY <1>2, <1>3

(***************************************************************************)
(* So the timeout blames the peer, and alone: its unicast list of one is   *)
(* within the threshold, and the list of missing shares is not asked for.  *)
(***************************************************************************)
LEMMA TimeoutBlamesSilent ==
  ASSUME TypeOK, Emitted, nodes = {}, NEW q \in peers, WaitsFor(q), Nodes >= 3,
         NEW o \in Orders, TimeoutBlame(o)
  PROVE  /\ q \in {b.peer : b \in nodes'}
         /\ kind = "keysign" \/ lastMsg > 1 => {b.peer : b \in nodes'} = {q}
<1> DEFINE u == GetUnicastBlame(UnicastType)
           bc == GetBroadcastBlame(lastMsg)
<1>1. PICK unicast, missing :
        /\ unicast = IF WithinThreshold(Cardinality(u)) THEN u ELSE {}
        /\ nodes' = nodes \union Unsigned(unicast \union bc) \union Unsigned(missing)
        /\ missing = {} \/ /\ nodes \union Unsigned(unicast \union bc) = {}
                           /\ WithinThreshold(MissingShareCount(o))
                           /\ missing = MissingShareBlame(o)
  BY TimeoutAdds
<1>2. u = {q} => unicast = {q}
  <2>1. Cardinality({q}) = 1
    BY FS_Singleton
  <2> QED
    BY <1>1, <2>1, ThresholdRange DEF WithinThreshold
<1>3. unicast \subseteq u
  BY <1>1
<1>4. /\ q \in bc \/ u = {q}
      /\ kind = "keysign" \/ lastMsg > 1 => u \union bc = {q}
  BY PoliciesNameSilent
<1> HIDE DEF u, bc
<1>5. q \in unicast \union bc
  BY <1>2, <1>4
<1>6. Unsigned(unicast \union bc) # {}
  BY <1>5 DEF Unsigned
<1>7. missing = {} /\ Unsigned(missing) = {}
  BY <1>1, <1>6 DEF Unsigned
<1>8. nodes' = Unsigned(unicast \union bc)
  BY <1>1, <1>7
<1>9. {b.peer : b \in nodes'} = unicast \union bc
  <2>1. \A b \in nodes' : b.peer \in unicast \union bc
    BY <1>8 DEF Unsigned
  <2>2. ASSUME NEW x \in unicast \union bc PROVE \E b \in nodes' : b.peer = x
    <3>1. [peer |-> x, signed |-> FALSE] \in nodes'
      BY <1>8 DEF Unsigned
    <3>2. [peer |-> x, signed |-> FALSE].peer = x
      OBVIOUS
    <3> QED
      BY <3>1, <3>2
  <2> QED
    BY <2>1, <2>2
<1> QED
  BY <1>3, <1>4, <1>5, <1>9

-----------------------------------------------------------------------------
(***************************************************************************)
(* The ceremony starts with no message and nobody blamed.                  *)
(***************************************************************************)
LEMMA InitIInv == Init => IInv
<1> SUFFICES ASSUME Init PROVE IInv
  OBVIOUS
<1>1. TypeOK
  BY DEF Init, TypeOK
<1>2. Blamed /\ Taken /\ BlamedIsBehind /\ SilentIsBlamed
  BY DEF Init, Blamed, Taken, BlamedIsBehind, SilentIsBlamed
<1>3. Emitted
  BY DEF Init, Emitted
<1> QED
  BY <1>1, <1>2, <1>3 DEF IInv

(***************************************************************************)
(* What the shares of a message change: they reach the parties that take   *)
(* them, a refused share names a culprit, and every culprit is blamed.     *)
(***************************************************************************)
LEMMA ReceiveAdds ==
  ASSUME TypeOK, NEW q \in peers, NEW k \in Indexes, Receive(q, k)
  PROVE  \E good \in SUBSET Items, cs \in SUBSET peers, new \in SUBSET [peer : peers, signed : BOOLEAN] :
           /\ received' = received \union {<<q, k>>}
           /\ accepted' = [i \in Items |-> IF i \in good THEN accepted[i] \union {<<q, k>>} ELSE accepted[i]]
           /\ culprits' = culprits \union cs
           /\ nodes' = nodes \union new
           /\ (cs # {} => new # {}) /\ \A b \in new : b.peer \in cs
           /\ culprits = {} /\ cs = {} => \A i \in Items : <<q, k>> \in accepted[i] \/ i \in good
           /\ reason' \in {reason, "broken"}
           /\ UNCHANGED <<kind, peers, out, lastMsg, ended, result>>
<1> DEFINE fresh == {i \in Items : <<q, k>> \notin accepted[i]}
           signed(c) == ~Phases[k].unicast /\ <<c, k>> \in received'
<1>1. PICK good \in SUBSET fresh, cs \in SUBSET (Faulty \intersect peers) :
        /\ good # fresh => cs # {} \/ q \in culprits
        /\ accepted' = [i \in Items |-> IF i \in good THEN accepted[i] \union {<<q, k>>} ELSE accepted[i]]
        /\ ProcessInvalidMsgBlame(k, cs)
  BY DEF Receive, UpdateLocal
<1> DEFINE new == {[peer |-> c, signed |-> signed(c)] : c \in cs}
<1>2. \A c : signed(c) \in BOOLEAN
  OBVIOUS
<1>3. culprits' = culprits \union cs /\ nodes' = nodes \union new /\ reason' \in {reason, "broken"}
  BY <1>1 DEF ProcessInvalidMsgBlame
<1> HIDE DEF signed
<1>4. /\ new \in SUBSET [peer : peers, signed : BOOLEAN]
      /\ (cs # {} => new # {}) /\ \A b \in new : b.peer \in cs
  <2>1. \A c \in cs : [peer |-> c, signed |-> signed(c)] \in [peer : peers, signed : BOOLEAN]
    <3>1. cs \subseteq peers
      BY <1>1
    <3> QED
      BY <1>2, <3>1
  <2>2. \A c \in cs : [peer |-> c, signed |-> signed(c)].peer \in cs
    OBVIOUS
  <2>3. cs # {} => new # {}
    OBVIOUS
  <2> QED
    BY <2>1, <2>2, <2>3
<1> HIDE DEF new
<1>5. culprits = {} /\ cs = {} => \A i \in Items : <<q, k>> \in accepted[i] \/ i \in good
  BY <1>1
<1>6. received' = received \union {<<q, k>>} /\ UNCHANGED <<kind, peers, out, lastMsg, ended, result>>
  BY DEF Receive
<1>7. good \in SUBSET Items /\ cs \in SUBSET peers
  BY <1>1
<1> QED
  BY <1>1, <1>3, <1>4, <1>5, <1>6, <1>7

(***************************************************************************)
(* A message that the loop takes from outCh keeps the invariant.           *)
(***************************************************************************)
LEMMA OutChKeeps ==
  ASSUME IInv, NEW i \in Items, NEW k \in Indexes, ProcessOutCh(i, k)
  PROVE  IInv'
<1>0. TypeOK /\ Blamed /\ Taken /\ Emitted
  BY DEF IInv
<1>1. /\ result = "running" /\ PartyEmits(i, k) /\ lastMsg' = k
      /\ out' = [out EXCEPT ![i] = out[i] \union {k}]
      /\ UNCHANGED <<kind, peers, received, accepted, culprits, nodes, reason, ended, result>>
  BY DEF ProcessOutCh
<1>2. Items' = Items /\ Indexes' = Indexes /\ \A j : Earlier(j)' = Earlier(j)
  BY <1>1 DEF Items, Indexes, Phases, Earlier
<1>3. TypeOK'
  BY <1>0, <1>1, <1>2 DEF TypeOK
<1>4. Blamed' /\ Taken'
  BY <1>0, <1>1, <1>2 DEF Blamed, Taken
<1>5. \A x \in Items : out'[x] = IF x = i THEN out[x] \union {k} ELSE out[x]
  BY <1>0, <1>1 DEF TypeOK
<1>6. Emitted'
  <2>1. ASSUME NEW x \in Items, NEW m \in Indexes, m \in out'[x]
        PROVE  /\ \A q \in peers, j \in Earlier(m) : <<q, j>> \in accepted[x]
               /\ \A j \in Indexes : j < m => j \in out'[x]
    <3>1. CASE m \in out[x]
      BY <1>0, <1>5, <3>1 DEF Emitted
    <3>2. CASE m \notin out[x]
      <4>1. x = i /\ m = k
        BY <1>5, <2>1, <3>2
      <4> QED
        BY <1>1, <1>5, <4>1 DEF PartyEmits
    <3> QED
      BY <3>1, <3>2
  <2>2. \A m \in out'[i] : m <= k
    <3>1. ASSUME NEW m \in out[i], ~(m <= k) PROVE FALSE
      <4>1. m \in Indexes /\ m \in Nat /\ k \in Nat
        BY <1>0, IndexRange DEF TypeOK
      <4>2. k \in out[i]
        BY <1>0, <3>1, <4>1 DEF Emitted
      <4> QED
        BY <1>1, <4>2 DEF PartyEmits
    <3>2. k <= k
      BY IndexRange
    <3>3. out'[i] = out[i] \union {k}
      BY <1>5
    <3> QED
      BY <3>1, <3>2, <3>3
  <2>3. k \in out'[i]
    BY <1>5
  <2> QED
    BY <1>1, <1>2, <2>1, <2>2, <2>3 DEF Emitted
<1>7. BlamedIsBehind' /\ SilentIsBlamed'
  BY <1>1 DEF BlamedIsBehind, SilentIsBlamed
<1> QED
  BY <1>3, <1>4, <1>6, <1>7 DEF IInv

(***************************************************************************)
(* The shares of a message keep the invariant, taken or refused.           *)
(***************************************************************************)
LEMMA ReceiveKeeps ==
  ASSUME IInv, NEW q \in peers, NEW k \in Indexes, Receive(q, k)
  PROVE  IInv'
<1>0. TypeOK /\ Blamed /\ Taken /\ Emitted
  BY DEF IInv
<1>1. result = "running"
  BY DEF Receive
<1>2. PICK good \in SUBSET Items, cs \in SUBSET peers, new \in SUBSET [peer : peers, signed : BOOLEAN] :
        /\ received' = received \union {<<q, k>>}
        /\ accepted' = [i \in Items |-> IF i \in good THEN accepted[i] \union {<<q, k>>} ELSE accepted[i]]
        /\ culprits' = culprits \union cs
        /\ nodes' = nodes \union new
        /\ (cs # {} => new # {}) /\ \A b \in new : b.peer \in cs
        /\ culprits = {} /\ cs = {} => \A i \in Items : <<q, k>> \in accepted[i] \/ i \in good
        /\ reason' \in {reason, "broken"}
        /\ UNCHANGED <<kind, peers, out, lastMsg, ended, result>>
  BY <1>0, ReceiveAdds
<1>3. Items' = Items /\ Indexes' = Indexes /\ \A j : Earlier(j)' = Earlier(j)
  BY <1>2 DEF Items, Indexes, Phases, Earlier
<1>4. \A i \in Items : /\ accepted[i] \subseteq accepted'[i]
                       /\ accepted'[i] \subseteq accepted[i] \union {<<q, k>>}
                       /\ i \in good => <<q, k>> \in accepted'[i]
  BY <1>2
<1>5. TypeOK'
  <2>1. received' \subseteq peers \X Indexes
    <3>1. received \subseteq peers \X Indexes
      BY <1>0 DEF TypeOK
    <3>2. received' = received \union {<<q, k>>}
      BY <1>2
    <3> QED
      BY <3>1, <3>2
  <2>2. accepted' \in [Items -> SUBSET received']
    BY <1>0, <1>2 DEF TypeOK
  <2>3. culprits' \subseteq peers /\ nodes' \subseteq [peer : peers, signed : BOOLEAN]
    BY <1>0, <1>2 DEF TypeOK
  <2>4. reason' \in {"none", "broken", "timeout"}
    BY <1>0, <1>2 DEF TypeOK
  <2> QED
    BY <1>0, <1>2, <1>3, <2>1, <2>2, <2>3, <2>4 DEF TypeOK
<1>6. Blamed'
  BY <1>0, <1>1, <1>2 DEF Blamed
<1>7. Taken'
  BY <1>0, <1>2, <1>3, <1>4 DEF Taken
<1>8. Emitted'
  BY <1>0, <1>2, <1>3, <1>4 DEF Emitted
<1>9. BlamedIsBehind' /\ SilentIsBlamed'
  BY <1>1, <1>2 DEF BlamedIsBehind, SilentIsBlamed
<1> QED
  BY <1>5, <1>6, <1>7, <1>8, <1>9 DEF IInv

(***************************************************************************)
(* The end of a ceremony other than by the timeout keeps the invariant.    *)
(***************************************************************************)
LEMMA EndKeeps ==
  ASSUME IInv, Abort \/ \E i \in Items : TakeEndCh(i)
  PROVE  IInv'
<1>0. TypeOK /\ Blamed /\ Taken /\ Emitted
  BY DEF IInv
<1>1. /\ UNCHANGED <<kind, peers, received, accepted, culprits, out, lastMsg, nodes, reason>>
      /\ result = "running" /\ result' \in {"running", "finished", "error"}
      /\ ended' \in SUBSET Items
  BY <1>0 DEF Abort, TakeEndCh, TypeOK
<1>2. Items' = Items /\ Indexes' = Indexes /\ \A j : Earlier(j)' = Earlier(j)
  BY <1>1 DEF Items, Indexes, Phases, Earlier
<1>3. TypeOK'
  BY <1>0, <1>1, <1>2 DEF TypeOK
<1>4. Blamed' /\ Taken' /\ Emitted'
  BY <1>0, <1>1, <1>2 DEF Blamed, Taken, Emitted
<1>5. BlamedIsBehind' /\ SilentIsBlamed'
  BY <1>1 DEF BlamedIsBehind, SilentIsBlamed
<1> QED
  BY <1>3, <1>4, <1>5 DEF IInv

(***************************************************************************)
(* The timeout, with the blame that it computes, keeps the invariant.      *)
(***************************************************************************)
LEMMA TimeoutKeeps ==
  ASSUME IInv, Timeout
  PROVE  IInv'
<1>0. TypeOK /\ Blamed /\ Taken /\ Emitted
  BY DEF IInv
<1>1. /\ UNCHANGED <<kind, peers, received, accepted, culprits, out, lastMsg, ended>>
      /\ result = "running"
  BY DEF Timeout
<1>2. Items' = Items /\ Indexes' = Indexes /\ Phases' = Phases /\ Nodes' = Nodes /\ \A j : Earlier(j)' = Earlier(j)
  BY <1>1 DEF Items, Indexes, Phases, Earlier, Nodes
<1>3. Taken' /\ Emitted'
  BY <1>0, <1>1, <1>2 DEF Taken, Emitted
<1>4. CASE lastMsg = None
  <2>1. result' \in {"no message", "panic"} /\ UNCHANGED <<nodes, reason>>
    BY <1>4 DEF Timeout
  <2>2. TypeOK' /\ Blamed'
    BY <1>0, <1>1, <1>2, <2>1 DEF TypeOK, Blamed
  <2>3. BlamedIsBehind' /\ SilentIsBlamed'
    BY <2>1 DEF BlamedIsBehind, SilentIsBlamed
  <2> QED
    BY <1>3, <2>2, <2>3 DEF IInv
<1>5. CASE lastMsg # None
  <2>1. lastMsg \in Indexes
    BY <1>0, <1>5 DEF TypeOK
  <2>2. PICK o \in Orders : TimeoutBlame(o) /\ result' = "timeout"
    BY <1>5 DEF Timeout
  <2>3. \A b \in nodes' : /\ b.peer \in peers /\ b.signed \in BOOLEAN /\ b = [peer |-> b.peer, signed |-> b.signed]
                          /\ Nodes >= 3 => Behind(b.peer) \/ b.peer \in culprits
    BY <1>0, <1>1, <2>1, <2>2, TimeoutBlamesBehind
  <2>4. nodes' \subseteq [peer : peers, signed : BOOLEAN]
    BY <2>3
  <2>5. reason' \in {reason, "timeout"}
    BY <2>2 DEF TimeoutBlame
  <2>6. TypeOK'
    BY <1>0, <1>1, <1>2, <2>2, <2>4, <2>5 DEF TypeOK
  <2>7. Blamed'
    <3>1. nodes \subseteq nodes'
      BY <2>2 DEF TimeoutBlame
    <3> QED
      BY <1>0, <1>1, <2>2, <3>1 DEF Blamed
  <2>8. BlamedIsBehind'
    <3>1. \A q : Behind(q)' <=> Behind(q)
      BY <1>1, <1>2 DEF Behind, SentToUs
    <3>2. Local \notin peers
      BY <1>0, PartiesAssumption DEF TypeOK
    <3>3. \A b \in nodes' : /\ b.peer # Local
                            /\ Nodes >= 3 => (\E q : q = b.peer /\ Behind(q)) \/ b.peer \in culprits
      BY <2>3, <3>2
    <3>4. ASSUME NEW b \in nodes'
          PROVE  b.peer # Local /\ (Nodes' >= 3 => Behind(b.peer)' \/ b.peer \in culprits')
      BY <1>1, <1>2, <3>1, <3>3
    <3> QED
      BY <3>4 DEF BlamedIsBehind
  <2>9. SilentIsBlamed'
    <3>1. \A q : WaitsFor(q)' <=> WaitsFor(q)
      BY <1>1, <1>2 DEF WaitsFor, Sent
    <3>2. ASSUME NEW q \in peers, culprits = {}, WaitsFor(q), Nodes >= 3
          PROVE  /\ q \in {b.peer : b \in nodes'}
                 /\ kind = "keysign" \/ lastMsg > 1 => {b.peer : b \in nodes'} = {q}
      <4>1. nodes = {}
        BY <1>0, <1>1, <3>2 DEF Blamed
      <4> QED
        BY <1>0, <2>2, <3>2, <4>1, TimeoutBlamesSilent
    <3> QED
      BY <1>1, <1>2, <3>1, <3>2 DEF SilentIsBlamed
  <2> QED
    BY <1>3, <2>6, <2>7, <2>8, <2>9 DEF IInv
<1> QED
  BY <1>4, <1>5

(***************************************************************************)
(* A step that changes nothing keeps the invariant.                        *)
(***************************************************************************)
LEMMA StutterKeeps ==
  ASSUME IInv, UNCHANGED vars
  PROVE  IInv'
<1>0. TypeOK /\ Blamed /\ Taken /\ Emitted /\ BlamedIsBehind /\ SilentIsBlamed
  BY DEF IInv
<1>1. Items' = Items /\ Indexes' = Indexes /\ Phases' = Phases /\ Nodes' = Nodes /\ \A j : Earlier(j)' = Earlier(j)
  BY DEF Items, Indexes, Phases, Earlier, Nodes
<1>2. TypeOK'
  BY <1>0, <1>1 DEF TypeOK
<1>3. Blamed' /\ Taken' /\ Emitted'
  BY <1>0, <1>1 DEF Blamed, Taken, Emitted
<1>4. \A q : Behind(q)' <=> Behind(q)
  BY <1>1 DEF Behind, SentToUs
<1>5. \A q : WaitsFor(q)' <=> WaitsFor(q)
  BY <1>1 DEF WaitsFor, Sent
<1>6. BlamedIsBehind'
  BY <1>0, <1>1, <1>4 DEF BlamedIsBehind
<1>7. SilentIsBlamed'
  BY <1>0, <1>1, <1>5 DEF SilentIsBlamed
<1> QED
  BY <1>2, <1>3, <1>6, <1>7 DEF IInv

(***************************************************************************)
(* The invariant of the timeout blame holds in every state of a ceremony   *)
(* with a party and a batch of any size.                                   *)
(***************************************************************************)
THEOREM Invariance == Spec => []IInv
<1>1. IInv /\ [Next]_vars => IInv'
  BY OutChKeeps, ReceiveKeeps, EndKeeps, TimeoutKeeps, StutterKeeps DEF Next
<1> QED
  BY <1>1, InitIInv, PTL DEF Spec

(***************************************************************************)
(* The state of the blame manager and of the loop keeps its types.         *)
(***************************************************************************)
THEOREM TypeCorrect == Spec => []TypeOK
<1>1. IInv => TypeOK
  BY DEF IInv
<1> QED
  BY <1>1, Invariance, PTL

(***************************************************************************)
(* In a party of three or more, processKeyGen and processKeySign blame for *)
(* a timeout only peers that are behind or sent a wrong share, and never   *)
(* the node itself.                                                        *)
(***************************************************************************)
THEOREM BlamedIsBehindCorrect == Spec => []BlamedIsBehind
<1>1. IInv => BlamedIsBehind
  BY DEF IInv
<1> QED
  BY <1>1, Invariance, PTL

(***************************************************************************)
(* In a party of three or more, a node that waits for a single silent peer *)
(* when the timer fires blames this peer, and it alone after the first     *)
(* round of a key generation.                                              *)
(***************************************************************************)
THEOREM SilentIsBlamedCorrect == Spec => []SilentIsBlamed
<1>1. IInv => SilentIsBlamed
  BY DEF IInv
<1> QED
  BY <1>1, Invariance, PTL
=============================================================================
