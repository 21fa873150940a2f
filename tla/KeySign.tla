------------------------------- MODULE KeySign -------------------------------
(***************************************************************************)
(* The key sign sessions of ONE node for one message ID (tss/keysign.go,   *)
(* keysign/signature_notifier.go, keysign/notifier.go,                     *)
(* p2p/message_id_subscriber.go).  A session runs two goroutines: one      *)
(* waits for a signature from the peers, the other joins a party and signs *)
(* itself.  They meet in sigChan, a channel of two slots whose values      *)
(* nobody looks at: the channel is the number of values in it.             *)
(*                                                                         *)
(* A repeated request has the same message ID and hence shares the         *)
(* notifiers and the subscribers with the session before it, also while    *)
(* that session is still running.                                          *)
(*                                                                         *)
(* The party formation is what PartyCoordinator shows of it: it may take a *)
(* value from sigChan, and then ends with ErrSignReceived or, when no      *)
(* answer of the leader came, with ErrLeaderNotReady.  The signing itself  *)
(* (SignMessage) succeeds or fails within its timeout.  What the node      *)
(* broadcasts to its peers does not come back to it and is left out.       *)
(***************************************************************************)
EXTENDS Naturals

CONSTANTS Sessions,      \* the calls of TssServer.KeySign
          MaxNotices,    \* bound: notifications that the peers send
          None           \* no value

ASSUME SessionsAssumption == None \notin Sessions
ASSUME NoneAssumption == None \notin {"received", "timeout", "sigGenerated", "noNotifier",
                                     "generated", "failed", "signReceived", "notActiveSigner",
                                     "success", "empty", "fail", "error"}
ASSUME BoundsAssumption == MaxNotices \in Nat

VARIABLES
  main,       \* session -> where KeySign is
  wait,       \* session -> where the goroutine of waitForSignatures is
  gen,        \* session -> where the goroutine of generateSignature is
  tWg,        \* session -> the notifier was registered (tWg.Done)
  sigChan,    \* session -> number of values in sigChan
  closed,     \* session -> sigChan is closed
  resp,       \* session -> number of signatures in Notifier.resp
  errWait,    \* session -> outcome of waitForSignatures
  joinTook,   \* session -> the join took a value from sigChan
  errGen,     \* session -> outcome of generateSignature
  result,     \* session -> what KeySign returned
  subscriber, \* session subscribed to the message ID, for any one message type
  notifiers,  \* SignatureNotifier.notifiers[msgID], a session or None
  sending,    \* the session that handleStream, holding notifierLock, sends to
  notices,    \* number of notifications received (history)
  empty,      \* the request has no messages
  alone       \* session -> no other session ran while it ran (history)

waitVars == <<wait, tWg, resp, errWait>>
genVars  == <<gen, joinTook, errGen>>
chanVars == <<sigChan, closed>>
nodeVars == <<notifiers, sending, notices, empty, alone>>
vars == <<main, waitVars, genVars, chanVars, result, subscriber, nodeVars>>

ErrWait == {None, "received", "timeout", "sigGenerated", "noNotifier"}
ErrGen  == {None, "generated", "failed", "signReceived", "notActiveSigner"}

MutSigChanCap == 1

SigChanCap == 2

LockFree == sending = None

Running(s) == main[s] \notin {"idle", "returned"}

-----------------------------------------------------------------------------
Init ==
  /\ main = [s \in Sessions |-> "idle"]
  /\ wait = [s \in Sessions |-> "idle"]
  /\ gen = [s \in Sessions |-> "idle"]
  /\ tWg = [s \in Sessions |-> FALSE]
  /\ sigChan = [s \in Sessions |-> 0]
  /\ closed = [s \in Sessions |-> FALSE]
  /\ resp = [s \in Sessions |-> 0]
  /\ errWait = [s \in Sessions |-> None]
  /\ joinTook = [s \in Sessions |-> FALSE]
  /\ errGen = [s \in Sessions |-> None]
  /\ result = [s \in Sessions |-> None]
  /\ subscriber = None
  /\ notifiers = None
  /\ sending = None
  /\ notices = 0
  /\ empty \in BOOLEAN
  /\ alone = [s \in Sessions |-> TRUE]

(***************************************************************************)
(* KeySign: subscribe; check the request; start the goroutines; wait for   *)
(* both, close the channel and choose the answer; cancel the subscription  *)
(* of the message ID, whoever holds it by then.                            *)
(***************************************************************************)
SetSubscribe(s) ==
  LET others == {t \in Sessions \ {s} : Running(t)} IN
  /\ main[s] = "idle"
  /\ subscriber' = s
  /\ main' = [main EXCEPT ![s] = "check"]
  /\ alone' = [t \in Sessions |-> IF t = s THEN others = {} ELSE alone[t] /\ t \notin others]
  /\ UNCHANGED <<waitVars, genVars, chanVars, result, notifiers, sending, notices, empty>>

RejectRequest(s) ==
  /\ main[s] = "check"
  /\ result' = [result EXCEPT ![s] = "error"]
  /\ main' = [main EXCEPT ![s] = "cancel"]
  /\ UNCHANGED <<waitVars, genVars, chanVars, subscriber, nodeVars>>

StartGoroutines(s) ==
  /\ main[s] = "check"
  /\ wait' = [wait EXCEPT ![s] = "add"]
  /\ gen' = [gen EXCEPT ![s] = "tWg"]
  /\ main' = [main EXCEPT ![s] = "wg"]
  /\ UNCHANGED <<tWg, resp, errWait, joinTook, errGen, chanVars, result, subscriber, nodeVars>>

\* The error is returned where the empty response belongs.
MutAnswerError(s) ==
  IF errWait[s] = "received" THEN "success"
  ELSE IF errGen[s] = "generated" THEN "success" ELSE errGen[s]

\* The outcome of generateSignature goes first.
MutAnswerOrder(s) ==
  IF errGen[s] \in {"signReceived", "notActiveSigner"} THEN "empty"
  ELSE IF errWait[s] = "received" \/ errGen[s] = "generated" THEN "success" ELSE "fail"

\* errWait = nil goes first; then the errors that leave the answer to receivedSig.
Answer(s) ==
  IF errWait[s] = "received" THEN "success"
  ELSE IF errGen[s] \in {"signReceived", "notActiveSigner"} THEN "empty"
  ELSE IF errGen[s] = "generated" THEN "success" ELSE "fail"

\* wg counts the waiting goroutine only.
MutChooseAnswer(s) ==
  /\ main[s] = "wg" /\ wait[s] = "done"
  /\ closed' = [closed EXCEPT ![s] = TRUE]
  /\ result' = [result EXCEPT ![s] = Answer(s)]
  /\ main' = [main EXCEPT ![s] = "cancel"]
  /\ UNCHANGED <<waitVars, genVars, sigChan, subscriber, nodeVars>>

ChooseAnswer(s) ==
  /\ main[s] = "wg" /\ wait[s] = "done" /\ gen[s] = "done"
  /\ closed' = [closed EXCEPT ![s] = TRUE]
  /\ result' = [result EXCEPT ![s] = Answer(s)]
  /\ main' = [main EXCEPT ![s] = "cancel"]
  /\ UNCHANGED <<waitVars, genVars, sigChan, subscriber, nodeVars>>

CancelSubscribe(s) ==
  /\ main[s] = "cancel"
  /\ subscriber' = None
  /\ main' = [main EXCEPT ![s] = "returned"]
  /\ UNCHANGED <<waitVars, genVars, chanVars, result, nodeVars>>

(***************************************************************************)
(* WaitForSignature.  NewNotifier refuses a request without messages, and  *)
(* then tWg.Done is not reached.                                           *)
(***************************************************************************)
NewNotifierFails(s) ==
  /\ wait[s] = "add" /\ empty
  /\ errWait' = [errWait EXCEPT ![s] = "noNotifier"]
  /\ wait' = [wait EXCEPT ![s] = "done"]
  /\ UNCHANGED <<main, tWg, resp, genVars, chanVars, result, subscriber, nodeVars>>

AddToNotifiers(s) ==
  /\ wait[s] = "add" /\ ~empty
  /\ LockFree
  /\ notifiers' = s
  /\ tWg' = [tWg EXCEPT ![s] = TRUE]
  /\ wait' = [wait EXCEPT ![s] = "select"]
  /\ UNCHANGED <<main, resp, errWait, genVars, chanVars, result, subscriber, sending, notices,
                 empty, alone>>

EndWait(s, outcome) ==
  /\ wait[s] = "select"
  /\ errWait' = [errWait EXCEPT ![s] = outcome]
  /\ wait' = [wait EXCEPT ![s] = "remove"]
  /\ UNCHANGED <<main, tWg, genVars, closed, result, subscriber, nodeVars>>

TakeResponse(s) ==
  /\ resp[s] > 0
  /\ resp' = [resp EXCEPT ![s] = @ - 1]
  /\ EndWait(s, "received")
  /\ UNCHANGED sigChan

WaitTimeout(s) == EndWait(s, "timeout") /\ UNCHANGED <<resp, sigChan>>

TakeSigGenerated(s) ==
  /\ sigChan[s] > 0
  /\ sigChan' = [sigChan EXCEPT ![s] = @ - 1]
  /\ EndWait(s, "sigGenerated")
  /\ UNCHANGED resp

\* A failed wait reports a signature as well.
MutRemoveNotifier(s) ==
  /\ wait[s] = "remove"
  /\ LockFree
  /\ notifiers' = None
  /\ wait' = [wait EXCEPT ![s] = "deliver"]
  /\ UNCHANGED <<main, tWg, resp, errWait, genVars, chanVars, result, subscriber, sending,
                 notices, empty, alone>>

\* The deferred removeNotifier deletes by message ID.
RemoveNotifier(s) ==
  /\ wait[s] = "remove"
  /\ LockFree
  /\ notifiers' = None
  /\ wait' = [wait EXCEPT ![s] = IF errWait[s] = "received" THEN "deliver" ELSE "done"]
  /\ UNCHANGED <<main, tWg, resp, errWait, genVars, chanVars, result, subscriber, sending,
                 notices, empty, alone>>

\* A send blocks on a full channel; a send to a closed one panics.
SendSigChan(s) ==
  /\ sigChan[s] < SigChanCap /\ ~closed[s]
  /\ sigChan' = [sigChan EXCEPT ![s] = @ + 1]
  /\ UNCHANGED closed

SignatureReceived(s) ==
  /\ wait[s] = "deliver"
  /\ SendSigChan(s)
  /\ wait' = [wait EXCEPT ![s] = "done"]
  /\ UNCHANGED <<main, tWg, resp, errWait, genVars, result, subscriber, nodeVars>>

(***************************************************************************)
(* generateSignature, once the notifier is registered.                     *)
(***************************************************************************)
EndGen(s, outcome) ==
  /\ errGen' = [errGen EXCEPT ![s] = outcome]
  /\ gen' = [gen EXCEPT ![s] = "done"]

NotJoining(s) ==
  /\ gen[s] = "tWg" /\ tWg[s]
  /\ \E outcome \in {"failed", "notActiveSigner"} : EndGen(s, outcome)
  /\ UNCHANGED <<main, waitVars, joinTook, chanVars, result, subscriber, nodeVars>>

JoinParty(s) ==
  /\ gen[s] = "tWg" /\ tWg[s]
  /\ gen' = [gen EXCEPT ![s] = "join"]
  /\ UNCHANGED <<main, waitVars, joinTook, errGen, chanVars, result, subscriber, nodeVars>>

JoinTakesSignature(s) ==
  /\ gen[s] = "join"
  /\ sigChan[s] > 0
  /\ sigChan' = [sigChan EXCEPT ![s] = @ - 1]
  /\ joinTook' = [joinTook EXCEPT ![s] = TRUE]
  /\ UNCHANGED <<main, waitVars, gen, errGen, closed, result, subscriber, nodeVars>>

JoinFails(s) ==
  /\ gen[s] = "join"
  /\ \/ EndGen(s, "failed")
     \/ joinTook[s] /\ EndGen(s, "signReceived")
  /\ UNCHANGED <<main, waitVars, joinTook, chanVars, result, subscriber, nodeVars>>

NotSelected(s) ==
  /\ gen[s] = "join" /\ ~joinTook[s]
  /\ EndGen(s, "notActiveSigner")
  /\ UNCHANGED <<main, waitVars, joinTook, chanVars, result, subscriber, nodeVars>>

PartyFormed(s) ==
  /\ gen[s] = "join" /\ ~joinTook[s]
  /\ gen' = [gen EXCEPT ![s] = "sign"]
  /\ UNCHANGED <<main, waitVars, joinTook, errGen, chanVars, result, subscriber, nodeVars>>

SignMessage(s) ==
  /\ gen[s] = "sign"
  /\ \E outcome \in {"generated", "failed"} :
       errGen' = [errGen EXCEPT ![s] = outcome]
  /\ gen' = [gen EXCEPT ![s] = "notify"]
  /\ UNCHANGED <<main, waitVars, joinTook, chanVars, result, subscriber, nodeVars>>

\* "signature generated" is sent after a failure too; then comes the broadcast.
SignatureGenerated(s) ==
  /\ gen[s] = "notify"
  /\ SendSigChan(s)
  /\ gen' = [gen EXCEPT ![s] = "done"]
  /\ UNCHANGED <<main, waitVars, joinTook, errGen, result, subscriber, nodeVars>>

\* The notifier is deleted when a peer reports that it failed.
MutHandleStream(data) ==
  /\ LockFree
  /\ notices < MaxNotices
  /\ notices' = notices + 1
  /\ sending' = IF data = "valid" THEN notifiers ELSE None
  /\ notifiers' = IF data = "failed" THEN None ELSE notifiers
  /\ UNCHANGED <<main, waitVars, genVars, chanVars, result, subscriber, empty, alone>>

(***************************************************************************)
(* handleStream on what a peer broadcast: a signature that verifies goes   *)
(* to the registered notifier while notifierLock is held; one that does    *)
(* not verify, and the news that the peer failed, change nothing.          *)
(***************************************************************************)
HandleStream(data) ==
  /\ LockFree
  /\ notices < MaxNotices
  /\ notices' = notices + 1
  /\ sending' = IF data = "valid" THEN notifiers ELSE None
  /\ UNCHANGED <<main, waitVars, genVars, chanVars, result, subscriber, notifiers, empty, alone>>

\* The notifier stays registered after it got its signature.
MutSendResponse ==
  /\ sending # None
  /\ resp[sending] < 1
  /\ resp' = [resp EXCEPT ![sending] = @ + 1]
  /\ sending' = None
  /\ UNCHANGED <<main, wait, tWg, errWait, genVars, chanVars, result, subscriber, notifiers,
                 notices, empty, alone>>

SendResponse ==
  /\ sending # None
  /\ resp[sending] < 1
  /\ resp' = [resp EXCEPT ![sending] = @ + 1]
  /\ notifiers' = None
  /\ sending' = None
  /\ UNCHANGED <<main, wait, tWg, errWait, genVars, chanVars, result, subscriber, notices,
                 empty, alone>>

-----------------------------------------------------------------------------
MainStep(s) == \/ SetSubscribe(s) \/ RejectRequest(s) \/ StartGoroutines(s)
               \/ ChooseAnswer(s) \/ CancelSubscribe(s)

WaitStep(s) == \/ NewNotifierFails(s) \/ AddToNotifiers(s) \/ TakeResponse(s) \/ WaitTimeout(s)
               \/ TakeSigGenerated(s) \/ RemoveNotifier(s) \/ SignatureReceived(s)

GenStep(s) == \/ NotJoining(s) \/ JoinParty(s) \/ JoinTakesSignature(s) \/ JoinFails(s)
              \/ NotSelected(s) \/ PartyFormed(s) \/ SignMessage(s) \/ SignatureGenerated(s)

Next == \/ \E s \in Sessions : MainStep(s) \/ WaitStep(s) \/ GenStep(s)
        \/ \E data \in {"valid", "invalid", "failed"} : HandleStream(data)
        \/ SendResponse

Spec == Init /\ [][Next]_vars

(***************************************************************************)
(* The scheduler runs the goroutines of a session and a handler that got   *)
(* the lock, timers fire, the join and the signing are bounded by theirs.  *)
(* Nothing is assumed of the callers and of the peers.                     *)
(***************************************************************************)
FairSpec ==
  /\ Spec
  /\ \A s \in Sessions : /\ WF_vars(main[s] # "idle" /\ MainStep(s))
                         /\ WF_vars(WaitStep(s))
                         /\ WF_vars(GenStep(s))
  /\ WF_vars(SendResponse)

-----------------------------------------------------------------------------
(***************************************************************************)
(* The type invariant of a node's key sign sessions.                       *)
(***************************************************************************)
TypeOK ==
  /\ main \in [Sessions -> {"idle", "check", "wg", "cancel", "returned"}]
  /\ wait \in [Sessions -> {"idle", "add", "select", "remove", "deliver", "done"}]
  /\ gen \in [Sessions -> {"idle", "tWg", "join", "sign", "notify", "done"}]
  /\ tWg \in [Sessions -> BOOLEAN]
  /\ sigChan \in [Sessions -> Nat]
  /\ closed \in [Sessions -> BOOLEAN]
  /\ resp \in [Sessions -> Nat]
  /\ errWait \in [Sessions -> ErrWait]
  /\ joinTook \in [Sessions -> BOOLEAN]
  /\ errGen \in [Sessions -> ErrGen]
  /\ result \in [Sessions -> {None, "success", "empty", "fail", "error"}]
  /\ subscriber \in Sessions \union {None}
  /\ notifiers \in Sessions \union {None}
  /\ sending \in Sessions \union {None}
  /\ notices \in Nat
  /\ empty \in BOOLEAN
  /\ alone \in [Sessions -> BOOLEAN]

(***************************************************************************)
(* Neither goroutine ever blocks on sigChan or sends to it after KeySign   *)
(* closed it, although nobody may be left to receive: two slots suffice.   *)
(***************************************************************************)
SigChanNeverBlocks ==
  \A s \in Sessions : wait[s] = "deliver" \/ gen[s] = "notify" =>
    sigChan[s] < SigChanCap /\ ~closed[s]

(***************************************************************************)
(* handleStream never blocks on the one slot of Notifier.resp.  It would   *)
(* keep notifierLock, which every other key sign of the node needs.        *)
(***************************************************************************)
HandlerNeverBlocks == sending # None => resp[sending] = 0

(***************************************************************************)
(* "we received the signature from waiting for signature": a join that was *)
(* ended by sigChan belongs to a session that answers with a signature, so *)
(* that the empty response is only for a node that was not selected.       *)
(***************************************************************************)
JoinTookSignature ==
  \A s \in Sessions : (joinTook[s] /\ result[s] # None) => result[s] = "success"

(***************************************************************************)
(* A session that has a signature, its own or a peer's, answers with one,  *)
(* whatever the other goroutine ended with; one that has none never does.  *)
(***************************************************************************)
AnswerIsSignature ==
  \A s \in Sessions : result[s] # None =>
    (result[s] = "success" <=> errWait[s] = "received" \/ errGen[s] = "generated")

(***************************************************************************)
(* As long as a session that runs alone waits without a signature, a       *)
(* signature that arrives reaches it, whatever the sessions before it left *)
(* behind.                                                                 *)
(***************************************************************************)
WaiterRegistered ==
  \A s \in Sessions : alone[s] /\ wait[s] = "select" /\ resp[s] = 0 => notifiers = s

(***************************************************************************)
(* "WaitForSignature wait until keysign finished and signature is          *)
(* available": while sessions wait, a signature that arrives reaches one   *)
(* of them.                                                                *)
(***************************************************************************)
SignatureReachesWaiter ==
  \A s \in Sessions : wait[s] = "select" /\ resp[s] = 0 =>
    \E t \in Sessions : notifiers = t

(***************************************************************************)
(* A session that runs alone is the subscriber of its message ID when it   *)
(* signs.                                                                  *)
(***************************************************************************)
SignerSubscribed == \A s \in Sessions : alone[s] /\ gen[s] = "sign" => subscriber = s

(***************************************************************************)
(* Every key sign of a request with messages returns, whatever the peers   *)
(* send or fail to send and however the sessions overlap.                  *)
(***************************************************************************)
KeySignReturns == []<>(empty \/ \A s \in Sessions : ~Running(s))
=============================================================================
