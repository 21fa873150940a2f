# go-tss: a TLA+ verification project

go-tss lets the nodes of a THORChain-style network generate a shared ECDSA key
and sign with it.  The cryptography is in tss-lib; this repository holds what
surrounds it: agreeing on who takes part (`p2p/party_coordinator.go`), moving
tss-lib's messages between the parties and making sure that everybody got the
same broadcast (`common/`), running a key generation or a key sign
(`tss/`, `keygen/`, `keysign/`), telling the nodes that did not sign what the
signature is (`keysign/signature_notifier.go`), deciding whom to blame
(`blame/`), and a pipeline that reads requests from a bridge chain (`network/`).

## 1. Inventory

| Component | State | Operations | Talks to | What is hard |
|---|---|---|---|---|
| Party coordinator (with a leader) | `peersGroup`, one `PeerStatus` per join: online peers, `reqCount`, `notify` channel, leader's answer | `JoinPartyWithLeader`, `HandleStreamWithLeader`, `updatePeer`, `sendResponseToAll` | key sign and key generation (calls, `sigChan`), peers (streams) | requests and answers in any order, repeated joins, crash of the leader, two leaders, timeouts |
| Party coordinator (leaderless) | the same, leader `"NONE"`, `newFound` channel | `JoinPartyWithRetry`, `HandleStream` | the same | waits on a channel that nobody writes |
| TSS message exchange | `unConfirmedMessages`, `ShareMgr`, `RoundMgr`, accepted shares | `ProcessOutCh`, `ProcessOneMessage`, `applyShare`, `requestShareFromPeer`, `updateLocal` | tss-lib (calls), peers (messages), blame | overtaking and lost messages, duplicates, thresholds off by one, ties between hashes |
| Key sign session | `sigChan`, `tWg`, two results | `KeySign`, `waitForSignatures`, `generateSignature` | coordinator, notifier, communication | three goroutines on one channel, overlapping sessions of one message |
| Signature notifier | `notifiers` under `notifierLock`, `Notifier.resp` | `WaitForSignature`, `handleStream`, `BroadcastSignature` | key sign sessions, peers | a channel send under a lock, removal by message ID |
| TSS signing | `taskDone`, `finishedPeers`, tss-lib channels | `SignMessage`, `processKeySign` | message exchange | timeout against a late end, peers that finish early |
| Key generation | local state, address book | `Keygen`, `GenerateNewKey`, `processKeyGen` | message exchange, storage | announcement before the save |
| Blame | `Blame`, `RoundMgr`, accepted shares | `GetUnicastBlame`, `TssMissingShareBlame`, ... | message exchange | what is known when a timeout fires |
| Communication | subscribers by type and message ID, `StreamMgr` | `SetSubscribe`, `CancelSubscribe`, `readFromStream`, `ProcessBroadcast`, `ReleaseStream` | everything | blocking sends to sessions that ended, streams added while others are released |
| Bridge pipeline | current block, task queue, sequence number | `scanKeygenBlock`, `processKeygen`, `RemoteSign`, `processKeySignTasks`, `broadcast` | key generation, key sign, chains (HTTP) | repeated deliveries, tasks without an answer, unbuffered channels |
| Storage, conversions, metrics, clients, command line | files, none, counters, none, flags | encoding and I/O | all | little beyond I/O |

What makes a component correct, and what its module states: a coordinator
announces parties of the right size and with willing members, one per message,
and every join returns; the message exchange gives tss-lib a share at most once,
the same one everywhere as long as its owner does not send two messages to
enough receivers each (finding 4), and does not blame an honest owner; a key sign
answers with a signature exactly if it has one, and always returns; the
notifier never blocks a handler and never loses a waiting session; the message
layer gives a session its own messages, releases its streams, starts and stops;
a ceremony reports success only with a saved share and ends on every node; the
blame of a timeout falls on who is behind and on nobody else; the bridge
pipeline drops no request while it runs and sends no transaction out of
sequence.
`PROJECT.json` lists the hazards with their source lines.

## 2. Modules

| Module | Models | Role |
|---|---|---|
| `PartyCoordinator` | `p2p/party_coordinator.go`, `peer_status.go`, `leader_provider.go` | specification |
| `MCPartyCoordinator` | | instances: two and three peers |
| `PartyCoordinatorProofs` | | proofs: `TypeOK`, `PartySound`, `OneParty` |
| `PartyAnswersProofs` | | proofs: `MemberListAnnounced`, `LeaderHandlersNeverBlock`, `MemberPartyFormed` |
| `ShareBroadcast` | the promise of the hash confirmation | abstract specification |
| `TssCommon` | `common/tss.go`, `tss_helper.go`, `local_cache_item.go`, `blame/share_mgr.go`, `round_mgr.go` | specification; implements `ShareBroadcast` |
| `MCTssCommon` | | instances: four and five parties |
| `TssCommonProofs` | | proofs: `TypeOK`, `NoFalseBlame`, `StoredIsApplied`, `HandedIsBacked`, the refinement `SameShareOnce` |
| `KeySign` | `tss/keysign.go`, `keysign/signature_notifier.go`, `notifier.go`, subscribers | specification |
| `MCKeySign` | | instance: two sessions |
| `KeySignProofs` | | proofs: type, channels, answers, sessions that run alone |
| `Communication` | `p2p/communication.go`, `message_id_subscriber.go`, `stream_helper.go` | specification |
| `MCCommunication` | | instance: two sessions, two topics, three streams |
| `CommunicationProofs` | | proofs: `TypeOK`, `SubscribedWhileRunning`, `NoStreamForgotten`, `StoppedIsQuiet` |
| `Ceremony` | `tss/keygen.go`, `tss/tss.go`, `keygen/tss_keygen.go`, `keysign/tss_keysign.go`, `storage/localstate_mgr.go`, the leaderless join of `p2p/party_coordinator.go`, task-done of `common/tss.go` | composition of join, ceremony and save over all nodes |
| `MCCeremony` | | instance: two nodes |
| `CeremonyProofs` | | proofs: all safety properties of `Ceremony` |
| `BlameTimeout` | `blame/manager.go`, `policy.go`, `policy_helper.go`, `round_mgr.go`, `blame.go`, the loops of `keygen` and `keysign` | specification |
| `MCBlameTimeout` | | instances: parties of two, three and four |
| `BlameTimeoutProofs` | | proofs: `TypeOK`, `BlamedIsBehind`, `SilentIsBlamed` |
| `Bridge` | `network/bridge_scanner.go`, `signer.go`, `keysign.go`, `keygen.go`, `bridge_client.go` | specification |
| `MCBridge` | | instance: two workers, two tasks |
| `BridgeProofs` | | proofs: all safety properties of `Bridge` |

An operator whose name starts with `Mut` is a deliberately wrong variant of the
definition that follows it.  No specification uses one: each is there to show,
by taking the place of that definition, that a property can fail.

How they fit together: `Bridge` calls a key generation or a key sign, whose
overlapping sessions on one node are `KeySign` and whose run over all nodes is
`Ceremony`; its join with a leader is `PartyCoordinator`; the shares it
exchanges are confirmed as in `TssCommon`; its timeout asks `BlameTimeout`; and
all messages travel through `Communication`.  Each module takes from the one
below only what that one is shown to promise.

### PartyCoordinator

One message ID.  A *call* is one run of `JoinPartyWithLeader`, which owns one
`PeerStatus`; `peersGroup[p]` is the call whose object is registered at peer
`p`.  A repeated call of the same peer replaces the object while handlers that
looked up the old one keep using it, as the Go pointers do.  Steps:

* `JoinPartyWithLeader`: elect (any height in `Heights`; the hash is a rank),
  create and register the group;
* `SendRequestToLeader`: a round of the member's request loop;
* `WakeOnNotify`, `WakeOnTimeout`, `WakeOnSignature`: the branches of both
  selects (the leader's loops after a value from `sigChan`);
* `MemberReadPeerIDs`, `MemberReadType`: the code after `wg.Wait`, with the two
  separate reads of the leader's answer;
* `LeaderDecide`, `LeaderReturn`: the list, and the sends to any subset of the
  peers (a failed send, or a crash, is a send that is not in the subset);
* `ReceiveRequest`, `UpdatePeer`, `NotifyPartyFormed` and `ReceiveResponse`,
  `SetLeaderResponse`, `NotifyLeaderResponse`: a handler's goroutine, one step
  for each lock region and channel send;
* `Crash`: the process is gone, what it sent is in flight.

The network may keep a message for ever, which is how a loss appears.  The
answer `"done"` on the stream is ignored by the sender and left out; so are
the errors of decoding a peer ID, which no configured peer has.

### TssCommon and ShareBroadcast

One broadcast of one owner, `broadcast`, which is any of `Broadcasts`: what the
owner sends to each receiver, whether it also sends hashes, and how many
messages are lost.  A message stands for its hash.  A receiver
handles one network message per step (`ProcessInboundMessages` is one
goroutine); a step contains the whole of `ProcessOneMessage`, with the
confirmation it sends, the hash check, the request for a missing share and the
update of tss-lib.  `RequestShareFromPeer` and the five outcomes of
`ApplyShare` take the item, the requested hashes and the network as they are
after the triggering message.  `HighestFreq` is a set because Go's map order
decides a tie.  tss-lib (external) accepts what it is given.

`ShareBroadcast` says what tss-lib relies on: each receiver is updated at most
once, and all with the same message.  `TssCommon` instantiates it with the
receivers, the messages and the history of updates of each receiver as its
state; `SameShareOnce` is the abstract specification under that mapping.  It is
what the comments on the verification messages promise, and it depends on the
owner: a message is `Backed` if the owner sent it to so many receivers that
`getMsgHash` accepts its hash when they confirm it.  `HandedIsBacked` says that,
whatever the owner does, nothing else is handed to tss-lib or to a peer that
asks, and it holds for every owner.  If at most one message is backed, all
receivers get that one; if two are (`tc_split`), they may get different ones.

`StoredIsApplied` and `NoFalseBlame` are stated for an owner that sent one
message.  For another one they cannot hold: the blame is then deserved, and
`applyShare` stores the message it accepted last while `updateLocal` keeps the
first.

### KeySign

The sessions of one node for one message ID.  `main`, `wait` and `gen` are the
positions of the three goroutines of a session.  `sigChan` is a count, since no
one looks at the values.  `sending` is both the handler that is about to fill
`Notifier.resp` and the fact that `notifierLock` is held.  The join is what
`PartyCoordinator` shows: after it took a value from `sigChan` it ends with
`signReceived` or `failed`.  The four message types are subscribed and cancelled
alike; the model follows any one of them.  What is released at the end of a
session (`ReleaseStream`) is in `Communication`; the signing itself, one step
here, is in `Ceremony` and `BlameTimeout`.

Sessions of one message do overlap: `RemoteSign` gives up after
`KeySignTimeout`, `network/signer.go:82` queues the same request again, and its
message ID is a hash of the request, while the first `KeySign`, which may take
the timeout of the party and that of the signing, still runs.

`WaiterRegistered` and `SignerSubscribed` are about a session that runs alone,
whatever the sessions before it left behind; `SignatureReachesWaiter` asks the
same of every session, and fails (finding 3).

### Communication

The message layer of one node and the sessions, of different messages, that
share it: the subscriber table by topic and message ID, the session's `TssMsg`
channel, `BroadcastMsgChan`, the table of streams to be released, the wait
group.  A session subscribes topic by topic, joins, runs, cancels topic by topic
and releases in two steps (`CollectStreams`, `DeleteStreams`), between which
other goroutines add streams.  A handler of an inbound stream reads, looks up
the channel and sends to it; a stream whose read fails is kept under `UNKNOWN`.
`CreateHost`, `ConnectToBootstrapPeers`, `BootStrapConnectivityCheck` and
`Start` are `startChannel` with its retries; handlers run from the moment the
host exists.  `Stop`, `ProcessBroadcastEnds` and `StopReturns` are the end.

`windowed` records the streams that were added between a collection and its
deletion: `NoStreamForgotten` says that these are the only ones that are neither
in the table nor reset.  A stream is lost in that window, because `ReleaseStream`
collects under the read lock and deletes the entry later.

### Ceremony

All nodes of a key generation or of the signing of a batch, with the leaderless
join of the older protocol versions: subscribe, `JoinPartyWithRetry`
(`SendRequestToAll`, the handlers `HandleStream`, `UpdatePeer`, `SendNewFound`,
the timeout and its outcome), start of the local parties, the loop over `outCh`,
`endCh`, `errChan` and the timeout, the task-done notification with
`finishedPeers`, the save of the share (begin and end of the write, so that a
crash may leave a torn file), the wait for the peers' news or its timeout, and
the wait group with `ProcessInboundMessages`.  Messages are lost (`Drop`), a
node's end is reported twice (`RepeatTaskDone`), a node of `CrashNodes` crashes
at any point.

The join waits on `notify`, into which nobody writes for a group without a
leader, so that it always runs to its timeout; what it decides then is what
`JoinOutcome` is about.  `SetupFails` is every error before the local parties
start.  One case is left out: `SignMessage` returns neither signatures nor an
error when `SetupIDMaps` fails, which it does only for a key without a peer ID,
and the join has computed the peer IDs of the same keys before.  In a key
generation the peers are told of the end before the share is saved, and the save
may fail: `SuccessIsSaved` says what the node itself may report.

### BlameTimeout

One node, its peers and the state of its blame manager, from the first message
to the end of the ceremony or to a timeout at any point.  `Phases` are tss-lib's
message types in the order of their index.  `TimeoutBlame` is the timeout branch
of the two loops: the missing unicast, the missing broadcast, and, where both
name nobody, the missing shares by batch item, whose groups Go's map order
visits in any order (`Orders`) while the list of names carries over from one
group to the next.  `WithinThreshold` is the test that a blame is usable.

`BlamedIsBehind` and `SilentIsBlamed` compare the outcome with what the peers
really sent.  They hold with the exceptions that the comments above them name.

### Bridge

The scanner with its position, the two workers of `processKeygen`, the signing
queue of `Keysign` with its requests and the one-slot channels of its tasks, and
the client's sequence number against the account of the chain and its mempool.
A panic of any goroutine ends the process, and nothing is saved: after `Restart`
the scanner starts again.  `NewBlock` is the chain.  `RemoteSign` takes any free
task; the tasks are alike, so the model takes a fixed one.  A registration that
fails is put back into an unbuffered channel that only the workers read
(`putBack`, `TakeBack`).  The panics are those of the scanner, of a request in
`KeySign` (`KeySignPanics`, for the missing `lastMsg`), and of a worker (`Panic`):
for a failed key generation, an account without an address, a failed query, or a
transaction that was refused or whose answer was lost after the node had taken
it.

The properties are about one process: `delivered` and `registered` start anew
with it, and everything is scanned, generated and signed again after a restart.
In `RegisterInOnePlace` a registration is done when the relayer's transaction was
taken or refused with code 6, which the code counts as success, or when a node
that is not the relayer has its signature (or the empty result of one that was
not chosen, which `RemoteSign` returns without an error).

`PassedIsDelivered` is stated for blocks that were not `skipped`: only an answer
with code 14 makes the scanner try a height again, every other error passes the
block for good.

The type invariants of `Ceremony`, `BlameTimeout` and `Bridge` are proved; their
runs spend the time on the other properties.

## 3. Runs

| Run | Instance | Checks | Result |
|---|---|---|---|
| `pc_split` | 3 peers, 1 call each, 2 heights that elect different leaders, threshold 1, a signature may end one join | `TypeOK`, `PartySound`, `OneParty`, `MemberPartyFormed` | hold |
| `pc_retry` | 2 peers, the leader calls twice and may crash | `MemberListAnnounced`, `LeaderHandlersNeverBlock`, `JoinReturns` | hold |
| `pc_torn` | 2 peers, the leader calls twice | `MemberPartyFormed` | violated: finding 1 |
| `pc_signature` | 2 peers, a signature arrives | `SignatureEndsJoin` | violated: finding 2 |
| `tc_shares` | 4 parties, threshold 2, same message to all, 2 losses of any type; 4 parties with a hash from the owner; 5 parties, threshold 3, three different messages | `TypeOK`, `StoredIsApplied`, `NoFalseBlame`, `HandedIsBacked`, `SameShareOnce`, `AllUpdated` | hold |
| `tc_split` | 5 parties, threshold 3, two messages to two receivers each | `SameShareOnce` | violated: finding 4 |
| `ks_sessions` | 2 sessions of one message, one after the other or overlapping, 3 notifications | `TypeOK`, `SigChanNeverBlocks`, `HandlerNeverBlocks`, `JoinTookSignature`, `AnswerIsSignature`, `WaiterRegistered`, `SignerSubscribed`, `KeySignReturns` | hold |
| `ks_removed` | 2 overlapping sessions | `SignatureReachesWaiter` | violated: finding 3 |
| `comm` | 2 sessions, 2 topics, 2 inbound streams, 1 broadcast, 1 bootstrap peer tried twice | `TypeOK`, `SubscribedWhileRunning`, `NoStreamForgotten`, `StoppedIsQuiet`, `HandlerProgress`, `StartAndStopEnd` | hold |
| `ceremony` | 2 nodes, a key generation or a batch of two, one node may crash | `NewFoundNeverBlocks`, `JoinOutcome`, `EarlyShareKept`, `TaskDoneSound`, `SuccessIsSaved`, `CallReturns` | hold |
| `blame` | parties of 2, 3 and 4, a key generation or a batch of two, one faulty peer | `BlamedIsBehind`, `SilentIsBlamed` | hold |
| `bridge` | 2 workers, 2 tasks, 2 blocks of which one asks for a key generation, 1 restart, 1 refused query | `PassedIsDelivered`, `RegisterInOnePlace`, `RespNeverBlocks`, `NoBadSequence`, `HandOverEnds` | hold |

Deadlock checking is off: joins, broadcasts, sessions and ceremonies end, the
chain is bounded, and then nothing is left to do.

**Bounds.**  *Coordinator.*  `MaxInFlight = 1` keeps one request between two
peers in flight; since a request may be delivered and sent again at any time,
duplicates and late requests still occur.  Two heights give every pair of
leaders.  Three peers with threshold 1 are the smallest case in which a party
leaves somebody out and two leaders could both succeed.  *Message exchange.*
Four and five parties are the smallest with thresholds 2 and 3 of
`GetThreshold`, so that the limit `threshold-1` is not trivial.  The field
`requests` bounds the requests for a share that a receiver makes; five are never
used up by three receivers with one message, and in the other instances a second
request would be the first one again.  Two lost messages are enough to starve a
receiver.  In the instance with three messages one is sent to two receivers and
the others to one each, so that confirmations arrive in which several hashes are
the most frequent, but only one of them can be frequent enough; two and two, in
`tc_split`, is the smallest tie of five parties that both messages win.  *Key sign.*  Three notifications fill a channel of one slot and come
once more.  *Message layer.*  `MaxTries` is 2 (5 in the code): one failed
attempt and one last attempt.  `TssMsgCap` is the code's one slot, so that the
second of two streams finds the channel full.  *Ceremony.*  Two nodes: with
three the leaderless join alone, in which every node asks every other, exceeds
what TLC explores in minutes; the counts (`finishedPeers` against the size minus
one, `newFound` against its capacity) are still met at their limits because
reports repeat.  *Blame.*  Parties of three and four have thresholds 1 and 2, so
that a blame of one peer is usable and one of all peers is not; peers that are
alike are symmetric.  *Bridge.*  `MaxPerRequest = 2` of two tasks fill a
request; one restart and one refused query each happen at any point; two blocks
let the scanner pass the block that may be delivered twice.

**Fairness.**  `PartyCoordinator!FairSpec`: weak fairness of the steps of a
call's own goroutines, whose timer is always running while it waits (Go's
scheduler and `time.After`); nothing is assumed of the network, of handlers or
of other peers.  `TssCommon!FairSpec`: a receiver that has messages handles
one; a message that is not lost is in that sense delivered.  `KeySign!FairSpec`:
weak fairness of each goroutine of a session and of the handler that holds the
lock; timers and the bounded signing make those steps possible.
`Communication!FairSpec`: weak fairness of `startChannel`, of the writers
(connecting and writing have deadlines), of a handler that can send, of a
running session's reader and of the goroutines that end at `stopChan`; nothing
of the peers, nor of the end of a session.  `Ceremony!FairSpec`: weak fairness of
a call's steps, timers included, and of the end of its inbound goroutine;
messages may be lost without limit.  `Bridge!FairSpec`: weak fairness of the
workers and of `Keysign`; strong fairness of the hand-over from the scanner and
from a worker that puts a registration back, since a worker receives by a
`select`, which chooses at random among the channels with a waiting sender.

**Findings.**

1. `pc_torn`: a member reads the list from one answer and the type from a later
   one, and reports success with a list that is no formed party.
2. `pc_signature`: the check for a missing answer comes before the check for
   the signature, so that a signature that ended the wait is reported as
   `ErrLeaderNotReady`; the key sign then broadcasts a failure and blames the
   leader.
3. `ks_removed`: `removeNotifier` deletes by message ID, and takes away the
   notifier of an overlapping session, which waits until its timeout for a
   signature that is dropped.
4. `tc_split`: `getMsgHash` is content with `threshold-1` confirmations, which
   among five parties is two of the four receivers.  If the owner sends different
   messages to two and two of them, both hashes pass, `getHighestFreq` returns
   whichever the map yields first, and receivers hand different shares to their
   tss-lib, although the verification messages are there "to make sure every
   party receive the same broadcast message".  The same happens with four
   parties and any two messages, since one confirmation is then enough.

**Seen while modelling**, where no document of the repository says otherwise, so
that the models follow the code and no run expects a violation:

* `ReleaseStream` forgets the streams added in its window; streams kept under
  `UNKNOWN` are never released.
* The leaderless join never ends before its timeout.
* The timeout of a batch in a party of two never names a silent peer; in a party
  of two the missing-share policy may name a peer that has sent everything
  (the exceptions of `SilentIsBlamed` and `BlamedIsBehind`).
* A key sign that times out before its first own message dereferences a missing
  `lastMsg` (`keysign/tss_keysign.go:225`).
* `FailReason` stays empty when only the broadcast policy names somebody.
* `updateLocal` leaves its workers waiting when it returns early for a culprit.
* The scanner reads only the first request of a block, and panics on an empty
  list; a height that is repeated delivers its key generation twice; its
  position is not saved.
* A failed `KeySign` answers none of its tasks, which run into the timeout of
  `RemoteSign`.
* `network/keygen.go:66` copies blame nodes through a nil pointer.
* An answer with code 6 raises the sequence number without a transaction; one
  with code 32 refreshes it and panics.

## 4. Proofs

All proofs are checked by TLAPS for every value of the constants that satisfies
the named assumptions, so they hold for any number of peers, sessions, nodes,
streams, tasks and blocks, and for any value of the bounds.  Every safety
property that a passing run checks is also a theorem.  The inductive invariants
were first checked by TLC on the instances of section 3.

Besides what each paragraph names, the assumptions say that finite things are
finite (peers, sessions, workers) and that `None` is none of the values it is
compared with.

**PartyCoordinatorProofs.**  Assumptions: finitely many peers, and a threshold
with `1 <= T < n` and `2(T+1) > n`, which `GetThreshold` gives for two or more
peers (and `n-1` for a key generation).  `PartySound` is not inductive: that a
party has no more than `T+1` members needs to know that `reqCount` counts the
online peers (`Counting`), that its members asked needs to follow a request from
the sender through the network and the handler (`Askers`), which in turn needs
that a group belongs to a peer that has chosen its leader (`Roles`).
`IInv == TypeOK /\ Roles /\ Askers /\ Counting /\ Parties`.  `OneParty` follows
without further induction: two sets of `T+1` out of `n < 2(T+1)` peers meet, and
a common member asked both leaders.

**PartyAnswersProofs** goes on from `IInv` to what becomes of the answers.
`Answers`: every answer on its way to a member, and the one its `PeerStatus`
holds, says what the call that sent it has decided; a call decides once
(`DecidedKept`), so this stays true however late the answer is; and no answer
reaches the group of a leader, since nobody answers himself.  `Members`: a list
that a member took is one its leader announced, and between its two reads the
answer may be replaced, but never goes away.  `Notified`: as long as the count
is below the threshold nothing has notified the leader, and afterwards one
handler does.  `MemberListAnnounced` and `LeaderHandlersNeverBlock` follow.
`MemberPartyFormed` is proved under the hypothesis that every peer calls once
for the message: then there is one call of the leader whose answers the two
reads can see.  Without it the property is false, as `pc_torn` shows.

**TssCommonProofs.**  No assumption restricts what the owner sends to whom.
`IInv`: shares and hashes in flight are as the owner sent them, and replies carry
a backed message (`Messages`); an item records of every other receiver the hash
it was sent, and of its own receiver that one or a backed one (`Items`); a
receiver has handed over one backed message and stores one, or neither
(`Handovers`).  The key lemma, `AgreedIsBacked`, is a count: the receivers that
confirm a hash which is both most frequent and frequent enough are receivers that
were sent its message, unless it was the item's own, which is backed already.
`HandedIsBackedCorrect` follows for every owner.  `SameShareOnceCorrect`, the
refinement of `ShareBroadcast`, has the hypothesis `AtMostOneBacked`: no owner
sends two messages to enough receivers each.  It covers owners that send
different messages, as in `tc_shares`; without it the promise fails, as
`tc_split` shows.  For an owner that sends one message and no hash
(`ConsistentOwner`) only that message is backed, which gives `NoFalseBlame` and
`StoredIsApplied` without a hypothesis.

**KeySignProofs.**  `Slots`: the channel holds at most one value for each
goroutine that ended by sending one; hence two slots suffice.  `Empty`: a
registered notifier has an empty channel, because the handler fills it and
unregisters it under one lock; hence the handler never blocks.  `Outcomes` ties
the positions of the goroutines to their results; together with `Slots` it shows
that the value a join finds in `sigChan` can only be the waiting goroutine's.
`Solo` says what a session that was never overlapped owns: while it waits, the
notifier, and while it signs, the subscription.

**CommunicationProofs.**  `WaitGroup`: `wg` is the number of goroutines that
run, and `Stop` returns at zero; hence `StoppedIsQuiet`.  `Collection`: between
the two locks of `ReleaseStream` the entry holds what was collected or was added
in the window, so that the deletion forgets nothing else; hence
`NoStreamForgotten`.  `SubscribedWhileRunning` is inductive with the types.

**CeremonyProofs.**  `Counting`: `newFound` and the handlers about to send to it
together hold one value for each online peer, of which there are fewer than
slots.  `Announced`: a request and a mark in `PeerStatus` tell that a node has
called, a task-done message that it has finished its batch.  `Joined`: local
parties exist only where everybody was online, so a share is sent only to nodes
that have called and are subscribed.  `Reported`: `finishedPeers` holds nodes
that have finished, and `taskDone` is closed when it holds all of them.
`Saving`: a call past the save has its file and nothing later writes to it.

**BlameTimeoutProofs.**  `Blamed`: before the timeout only culprits are in the
list, and every culprit puts somebody there.  `Taken`: without culprits every
item has all shares that arrived.  `Emitted`: a party emits in order, after the
shares of the rounds before, and the last message is the last of its party.
`BlamedIsBehind`: the policies for unicasts and broadcasts look at what arrived.
The list of the missing shares is used only when the others are empty, so that
there is no culprit; if it named every peer after some item it would be at least
as long as the party (`MissingShareLength`) and so longer than the threshold,
which is smaller than the number of peers from three nodes on
(`ThresholdRange`); so some peer is listed, and the blamed one lacks what that
one sent.  `SilentIsBlamed` goes through the rounds: the node waits in the round
of its last message, whose index is the largest of the round, and the two
policies look at exactly the message types of that round.

**BridgeProofs.**  `Scanned` follows a block from the query to the step to the
next height.  `Answered`: a task is in the queue, in one request, about to be
answered or answered, and its channel is empty until the last.  `Sequenced`: one
worker at a time holds `broadcastLock` with the client's number, which is the
account's next one unless it was not asked for yet and the mempool is empty, or
is in doubt (the two exceptions of `NoBadSequence`).

**Model-checked only.**  Liveness (`JoinReturns`, `AllUpdated`,
`KeySignReturns`, `HandlerProgress`, `StartAndStopEnd`, `CallReturns`,
`HandOverEnds`), which depends on fairness and `ENABLED`, out of this prover's
reach.  The four findings are counterexamples, found by TLC.

## 5. Plan

The models are complete in the sense of section 6, and every safety property of
a passing run is proved.  What is left:

* Action properties that follow from the invariants: a decided party, a saved
  share and a handed-over share never change.

## 6. Not modelled

* tss-lib (external: it accepts or refuses messages, names culprits, and ends or
  not), libp2p with its DHT and peer discovery, and the chain behind the bridge.
* The encodings of keys, peer IDs, messages and requests; the signatures on
  messages, whose check only drops a message; generated code.
* A clock.  Timers fire at any point, so that the models allow more than a real
  timeout does; that leader and members time out in a certain order (the
  coordinator reports "before their timeout") is therefore no property here.
* `scanBlocks` of the block scanner, which nothing starts; the chain clients,
  which nothing in the pipeline calls.
* `IsUnicast` of a blame and `TssWrongShareBlame`, which look up stored data
  without a decision.
* Metrics, logging, configuration, the command line and the HTTP front end, and
  the benchmarks.
