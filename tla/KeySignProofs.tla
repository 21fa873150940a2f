---------------------------- MODULE KeySignProofs ----------------------------
(***************************************************************************)
(* What KeySign guarantees for any number of sessions, overlapping or not, *)
(* and any number of notifications from the peers: the channels between    *)
(* its goroutines never block a sender, and a session answers with a       *)
(* signature if and only if it has one.                                    *)
(***************************************************************************)
EXTENDS KeySign, TLAPS

USE DEF waitVars, genVars, chanVars, nodeVars, vars

(***************************************************************************)
(* The two values that a session puts into sigChan, one by each goroutine. *)
(***************************************************************************)
Received(s)  == IF wait[s] = "done" /\ errWait[s] = "received" THEN 1 ELSE 0
Generated(s) == IF gen[s] = "done" THEN 1 ELSE 0

(***************************************************************************)
(* Slots: sigChan holds no more than its two senders have sent, and is     *)
(* closed after both of them ended.                                        *)
(***************************************************************************)
Slots ==
  \A s \in Sessions :
    /\ sigChan[s] <= Received(s) + Generated(s)
    /\ closed[s] => wait[s] = "done" /\ gen[s] = "done"

(***************************************************************************)
(* Empty: the notifier that is registered, or that a handler holding the   *)
(* lock is about to send to, has an empty channel.                         *)
(***************************************************************************)
Empty ==
  /\ notifiers # None => resp[notifiers] = 0 /\ wait[notifiers] \notin {"idle", "add"}
  /\ sending # None => notifiers = sending
  /\ \A s \in Sessions : wait[s] \in {"idle", "add"} => resp[s] = 0

(***************************************************************************)
(* Outcomes: how far KeySign got, how far its goroutines got, and what     *)
(* they ended with.                                                        *)
(***************************************************************************)
Outcomes ==
  \A s \in Sessions :
    /\ wait[s] \in {"idle", "add", "select"} => errWait[s] = None
    /\ gen[s] \in {"idle", "tWg", "join", "sign"} => errGen[s] = None
    /\ main[s] \in {"idle", "check"} =>
         wait[s] = "idle" /\ gen[s] = "idle" /\ result[s] = None
    /\ wait[s] = "idle" <=> gen[s] = "idle"
    /\ wait[s] = "deliver" => errWait[s] = "received"
    /\ result[s] # None => \/ wait[s] = "idle" /\ gen[s] = "idle" /\ result[s] = "error"
                           \/ wait[s] = "done" /\ gen[s] = "done" /\ result[s] = Answer(s)
    /\ joinTook[s] => errWait[s] = "received" /\ wait[s] = "done" /\ gen[s] \notin {"idle", "tWg"}
    /\ errGen[s] = "signReceived" => joinTook[s]

IInv == TypeOK /\ Slots /\ Empty /\ Outcomes

(***************************************************************************)
(* A node that has not signed yet is in a state of the invariant.          *)
(***************************************************************************)
LEMMA InitIInv == Init => IInv
  BY SessionsAssumption, NoneAssumption DEF Init, IInv, TypeOK, Slots, Empty, Outcomes, ErrWait, ErrGen,
     Received, Generated

(***************************************************************************)
(* Every step of KeySign, of its goroutines and of handleStream keeps the  *)
(* types.                                                                  *)
(***************************************************************************)
LEMMA TypeNext == TypeOK /\ [Next]_vars => TypeOK'
<1> SUFFICES ASSUME TypeOK, [Next]_vars PROVE TypeOK'
  OBVIOUS
<1> USE DEF TypeOK, ErrWait, ErrGen
<1>1. ASSUME NEW s \in Sessions, MainStep(s) PROVE TypeOK'
  <2>1. CASE SetSubscribe(s)
    BY <2>1 DEF SetSubscribe
  <2>2. CASE RejectRequest(s)
    BY <2>2 DEF RejectRequest
  <2>3. CASE StartGoroutines(s)
    BY <2>3 DEF StartGoroutines
  <2>4. CASE ChooseAnswer(s)
    BY <2>4 DEF ChooseAnswer, Answer
  <2>5. CASE CancelSubscribe(s)
    BY <2>5 DEF CancelSubscribe
  <2> QED
    BY <1>1, <2>1, <2>2, <2>3, <2>4, <2>5 DEF MainStep
<1>2. ASSUME NEW s \in Sessions, WaitStep(s) PROVE TypeOK'
  <2>1. CASE NewNotifierFails(s)
    BY <2>1 DEF NewNotifierFails
  <2>2. CASE AddToNotifiers(s)
    BY <2>2 DEF AddToNotifiers
  <2>3. CASE TakeResponse(s)
    BY <2>3 DEF TakeResponse, EndWait
  <2>4. CASE WaitTimeout(s)
    BY <2>4 DEF WaitTimeout, EndWait
  <2>5. CASE TakeSigGenerated(s)
    BY <2>5 DEF TakeSigGenerated, EndWait
  <2>6. CASE RemoveNotifier(s)
    BY <2>6 DEF RemoveNotifier
  <2>7. CASE SignatureReceived(s)
    BY <2>7 DEF SignatureReceived, SendSigChan
  <2> QED
    BY <1>2, <2>1, <2>2, <2>3, <2>4, <2>5, <2>6, <2>7 DEF WaitStep
<1>3. ASSUME NEW s \in Sessions, GenStep(s) PROVE TypeOK'
  <2>1. CASE NotJoining(s)
    BY <2>1 DEF NotJoining, EndGen
  <2>2. CASE JoinParty(s)
    BY <2>2 DEF JoinParty
  <2>3. CASE JoinTakesSignature(s)
    BY <2>3 DEF JoinTakesSignature
  <2>4. CASE JoinFails(s)
    BY <2>4 DEF JoinFails, EndGen
  <2>5. CASE NotSelected(s)
    BY <2>5 DEF NotSelected, EndGen
  <2>6. CASE PartyFormed(s)
    BY <2>6 DEF PartyFormed
  <2>7. CASE SignMessage(s)
    BY <2>7 DEF SignMessage
  <2>8. CASE SignatureGenerated(s)
    BY <2>8 DEF SignatureGenerated, SendSigChan
  <2> QED
    BY <1>3, <2>1, <2>2, <2>3, <2>4, <2>5, <2>6, <2>7, <2>8 DEF GenStep
<1>4. ASSUME NEW data, HandleStream(data) PROVE TypeOK'
  BY <1>4 DEF HandleStream
<1>5. CASE SendResponse
  BY <1>5 DEF SendResponse
<1>6. CASE UNCHANGED vars
  BY <1>6
<1> QED
  BY <1>1, <1>2, <1>3, <1>4, <1>5, <1>6 DEF Next

(***************************************************************************)
(* Each goroutine sends to sigChan once, as its last step before it ends,  *)
(* and KeySign closes it after both of them.                               *)
(***************************************************************************)
LEMMA SlotsNext == TypeOK /\ Outcomes /\ Slots /\ [Next]_vars => Slots'
<1> SUFFICES ASSUME TypeOK, Outcomes, Slots, [Next]_vars PROVE Slots'
  OBVIOUS
<1> USE SessionsAssumption, NoneAssumption DEF TypeOK, Outcomes, Slots, Received, Generated
<1>1. ASSUME NEW s \in Sessions, MainStep(s) PROVE Slots'
  <2>1. CASE SetSubscribe(s)
    BY <2>1 DEF SetSubscribe
  <2>2. CASE RejectRequest(s)
    BY <2>2 DEF RejectRequest
  <2>3. CASE StartGoroutines(s)
    BY <2>3 DEF StartGoroutines
  <2>4. CASE ChooseAnswer(s)
    BY <2>4 DEF ChooseAnswer
  <2>5. CASE CancelSubscribe(s)
    BY <2>5 DEF CancelSubscribe
  <2> QED
    BY <1>1, <2>1, <2>2, <2>3, <2>4, <2>5 DEF MainStep
<1>2. ASSUME NEW s \in Sessions, WaitStep(s) PROVE Slots'
  <2>1. CASE NewNotifierFails(s)
    BY <2>1 DEF NewNotifierFails
  <2>2. CASE AddToNotifiers(s)
    BY <2>2 DEF AddToNotifiers
  <2>3. CASE TakeResponse(s)
    BY <2>3 DEF TakeResponse, EndWait
  <2>4. CASE WaitTimeout(s)
    BY <2>4 DEF WaitTimeout, EndWait
  <2>5. CASE TakeSigGenerated(s)
    BY <2>5 DEF TakeSigGenerated, EndWait
  <2>6. CASE RemoveNotifier(s)
    BY <2>6 DEF RemoveNotifier
  <2>7. CASE SignatureReceived(s)
    BY <2>7 DEF SignatureReceived, SendSigChan
  <2> QED
    BY <1>2, <2>1, <2>2, <2>3, <2>4, <2>5, <2>6, <2>7 DEF WaitStep
<1>3. ASSUME NEW s \in Sessions, GenStep(s) PROVE Slots'
  <2>1. CASE NotJoining(s)
    BY <2>1 DEF NotJoining, EndGen
  <2>2. CASE JoinParty(s)
    BY <2>2 DEF JoinParty
  <2>3. CASE JoinTakesSignature(s)
    BY <2>3 DEF JoinTakesSignature
  <2>4. CASE JoinFails(s)
    BY <2>4 DEF JoinFails, EndGen
  <2>5. CASE NotSelected(s)
    BY <2>5 DEF NotSelected, EndGen
  <2>6. CASE PartyFormed(s)
    BY <2>6 DEF PartyFormed
  <2>7. CASE SignMessage(s)
    BY <2>7 DEF SignMessage
  <2>8. CASE SignatureGenerated(s)
    BY <2>8 DEF SignatureGenerated, SendSigChan
  <2> QED
    BY <1>3, <2>1, <2>2, <2>3, <2>4, <2>5, <2>6, <2>7, <2>8 DEF GenStep
<1>4. ASSUME NEW data, HandleStream(data) PROVE Slots'
  BY <1>4 DEF HandleStream
<1>5. CASE SendResponse
  BY <1>5 DEF SendResponse
<1>6. CASE UNCHANGED vars
  BY <1>6
<1> QED
  BY <1>1, <1>2, <1>3, <1>4, <1>5, <1>6 DEF Next

(***************************************************************************)
(* handleStream fills Notifier.resp and unregisters the notifier in one    *)
(* critical section, and no other step registers a notifier twice.         *)
(***************************************************************************)
LEMMA EmptyNext == TypeOK /\ Outcomes /\ Empty /\ [Next]_vars => Empty'
<1> SUFFICES ASSUME TypeOK, Outcomes, Empty, [Next]_vars PROVE Empty'
  OBVIOUS
<1> USE SessionsAssumption, NoneAssumption DEF TypeOK, Empty, LockFree
<1>1. ASSUME NEW s \in Sessions, MainStep(s) PROVE Empty'
  <2>1. CASE SetSubscribe(s)
    BY <2>1 DEF SetSubscribe
  <2>2. CASE RejectRequest(s)
    BY <2>2 DEF RejectRequest
  <2>3. CASE StartGoroutines(s)
    BY <2>3 DEF StartGoroutines, Outcomes
  <2>4. CASE ChooseAnswer(s)
    BY <2>4 DEF ChooseAnswer
  <2>5. CASE CancelSubscribe(s)
    BY <2>5 DEF CancelSubscribe
  <2> QED
    BY <1>1, <2>1, <2>2, <2>3, <2>4, <2>5 DEF MainStep
<1>2. ASSUME NEW s \in Sessions, WaitStep(s) PROVE Empty'
  <2>1. CASE NewNotifierFails(s)
    BY <2>1 DEF NewNotifierFails
  <2>2. CASE AddToNotifiers(s)
    BY <2>2 DEF AddToNotifiers
  <2>3. CASE TakeResponse(s)
    BY <2>3 DEF TakeResponse, EndWait
  <2>4. CASE WaitTimeout(s)
    BY <2>4 DEF WaitTimeout, EndWait
  <2>5. CASE TakeSigGenerated(s)
    BY <2>5 DEF TakeSigGenerated, EndWait
  <2>6. CASE RemoveNotifier(s)
    BY <2>6 DEF RemoveNotifier
  <2>7. CASE SignatureReceived(s)
    BY <2>7 DEF SignatureReceived, SendSigChan
  <2> QED
    BY <1>2, <2>1, <2>2, <2>3, <2>4, <2>5, <2>6, <2>7 DEF WaitStep
<1>3. ASSUME NEW s \in Sessions, GenStep(s) PROVE Empty'
  <2>1. CASE NotJoining(s)
    BY <2>1 DEF NotJoining, EndGen
  <2>2. CASE JoinParty(s)
    BY <2>2 DEF JoinParty
  <2>3. CASE JoinTakesSignature(s)
    BY <2>3 DEF JoinTakesSignature
  <2>4. CASE JoinFails(s)
    BY <2>4 DEF JoinFails, EndGen
  <2>5. CASE NotSelected(s)
    BY <2>5 DEF NotSelected, EndGen
  <2>6. CASE PartyFormed(s)
    BY <2>6 DEF PartyFormed
  <2>7. CASE SignMessage(s)
    BY <2>7 DEF SignMessage
  <2>8. CASE SignatureGenerated(s)
    BY <2>8 DEF SignatureGenerated, SendSigChan
  <2> QED
    BY <1>3, <2>1, <2>2, <2>3, <2>4, <2>5, <2>6, <2>7, <2>8 DEF GenStep
<1>4. ASSUME NEW data, HandleStream(data) PROVE Empty'
  BY <1>4 DEF HandleStream
<1>5. CASE SendResponse
  BY <1>5 DEF SendResponse
<1>6. CASE UNCHANGED vars
  BY <1>6
<1> QED
  BY <1>1, <1>2, <1>3, <1>4, <1>5, <1>6 DEF Next

(***************************************************************************)
(* A value in sigChan during the join can only be the waiting goroutine's; *)
(* nothing changes an outcome once KeySign has chosen its answer.          *)
(***************************************************************************)
LEMMA OutcomesNext == TypeOK /\ Slots /\ Outcomes /\ [Next]_vars => Outcomes'
<1> SUFFICES ASSUME TypeOK, Slots, Outcomes, [Next]_vars PROVE Outcomes'
  OBVIOUS
<1> USE SessionsAssumption, NoneAssumption DEF TypeOK, Slots, Received, Generated, Outcomes, Answer
<1>1. ASSUME NEW s \in Sessions, MainStep(s) PROVE Outcomes'
  <2>1. CASE SetSubscribe(s)
    BY <2>1 DEF SetSubscribe
  <2>2. CASE RejectRequest(s)
    BY <2>2 DEF RejectRequest
  <2>3. CASE StartGoroutines(s)
    BY <2>3 DEF StartGoroutines
  <2>4. CASE ChooseAnswer(s)
    BY <2>4 DEF ChooseAnswer
  <2>5. CASE CancelSubscribe(s)
    BY <2>5 DEF CancelSubscribe
  <2> QED
    BY <1>1, <2>1, <2>2, <2>3, <2>4, <2>5 DEF MainStep
<1>2. ASSUME NEW s \in Sessions, WaitStep(s) PROVE Outcomes'
  <2>1. CASE NewNotifierFails(s)
    BY <2>1 DEF NewNotifierFails
  <2>2. CASE AddToNotifiers(s)
    BY <2>2 DEF AddToNotifiers
  <2>3. CASE TakeResponse(s)
    BY <2>3 DEF TakeResponse, EndWait
  <2>4. CASE WaitTimeout(s)
    BY <2>4 DEF WaitTimeout, EndWait
  <2>5. CASE TakeSigGenerated(s)
    BY <2>5 DEF TakeSigGenerated, EndWait
  <2>6. CASE RemoveNotifier(s)
    BY <2>6 DEF RemoveNotifier
  <2>7. CASE SignatureReceived(s)
    BY <2>7 DEF SignatureReceived, SendSigChan
  <2> QED
    BY <1>2, <2>1, <2>2, <2>3, <2>4, <2>5, <2>6, <2>7 DEF WaitStep
<1>3. ASSUME NEW s \in Sessions, GenStep(s) PROVE Outcomes'
  <2>1. CASE NotJoining(s)
    BY <2>1 DEF NotJoining, EndGen
  <2>2. CASE JoinParty(s)
    BY <2>2 DEF JoinParty
  <2>3. CASE JoinTakesSignature(s)
    BY <2>3 DEF JoinTakesSignature
  <2>4. CASE JoinFails(s)
    BY <2>4 DEF JoinFails, EndGen
  <2>5. CASE NotSelected(s)
    BY <2>5 DEF NotSelected, EndGen
  <2>6. CASE PartyFormed(s)
    BY <2>6 DEF PartyFormed
  <2>7. CASE SignMessage(s)
    BY <2>7 DEF SignMessage
  <2>8. CASE SignatureGenerated(s)
    BY <2>8 DEF SignatureGenerated, SendSigChan
  <2> QED
    BY <1>3, <2>1, <2>2, <2>3, <2>4, <2>5, <2>6, <2>7, <2>8 DEF GenStep
<1>4. ASSUME NEW data, HandleStream(data) PROVE Outcomes'
  BY <1>4 DEF HandleStream
<1>5. CASE SendResponse
  BY <1>5 DEF SendResponse
<1>6. CASE UNCHANGED vars
  BY <1>6
<1> QED
  BY <1>1, <1>2, <1>3, <1>4, <1>5, <1>6 DEF Next

(***************************************************************************)
(* The inductive invariant holds in every run of a node.                   *)
(***************************************************************************)
THEOREM IInvCorrect == Spec => []IInv
<1>1. IInv /\ [Next]_vars => IInv'
  BY TypeNext, SlotsNext, EmptyNext, OutcomesNext DEF IInv
<1> QED
  BY InitIInv, <1>1, PTL DEF Spec

(***************************************************************************)
(* The state of the node's sessions, channels and maps keeps its types.    *)
(***************************************************************************)
THEOREM TypeCorrect == Spec => []TypeOK
<1>1. IInv => TypeOK
  BY DEF IInv
<1> QED
  BY IInvCorrect, <1>1, PTL

(***************************************************************************)
(* However many sessions of one message run at once, no goroutine of       *)
(* KeySign blocks on its sigChan or sends to it after it was closed.       *)
(***************************************************************************)
THEOREM SigChanNeverBlocksCorrect == Spec => []SigChanNeverBlocks
<1>1. IInv => SigChanNeverBlocks
  BY DEF IInv, TypeOK, Slots, Received, Generated, SigChanNeverBlocks, SigChanCap
<1> QED
  BY IInvCorrect, <1>1, PTL

(***************************************************************************)
(* However many signatures the peers send, handleStream never blocks while *)
(* it holds notifierLock.                                                  *)
(***************************************************************************)
THEOREM HandlerNeverBlocksCorrect == Spec => []HandlerNeverBlocks
<1>1. IInv => HandlerNeverBlocks
  BY DEF IInv, Empty, HandlerNeverBlocks
<1> QED
  BY IInvCorrect, <1>1, PTL

(***************************************************************************)
(* ErrSignReceived, which KeySign answers with receivedSig, is returned to *)
(* a session only if receivedSig is a signature.                           *)
(***************************************************************************)
THEOREM JoinTookSignatureCorrect == Spec => []JoinTookSignature
<1>1. IInv => JoinTookSignature
  BY DEF IInv, Outcomes, Answer, JoinTookSignature
<1> QED
  BY IInvCorrect, <1>1, PTL

(***************************************************************************)
(* KeySign answers with a signature if and only if one of its goroutines   *)
(* has one.                                                                *)
(***************************************************************************)
THEOREM AnswerIsSignatureCorrect == Spec => []AnswerIsSignature
<1>1. IInv => AnswerIsSignature
  BY NoneAssumption DEF IInv, Outcomes, Answer, AnswerIsSignature
<1> QED
  BY IInvCorrect, <1>1, PTL

(***************************************************************************)
(* Solo: a session that runs alone is the only one that has not returned,  *)
(* owns the subscription and, while it waits without a signature, owns the *)
(* notifier; goroutines run only while KeySign waits for them.             *)
(***************************************************************************)
Solo ==
  /\ \A s, t \in Sessions : alone[s] /\ Running(s) /\ Running(t) => s = t
  /\ \A s \in Sessions :
       /\ wait[s] \notin {"idle", "done"} \/ gen[s] \notin {"idle", "done"} => main[s] = "wg"
       /\ alone[s] /\ Running(s) => subscriber = s
  /\ WaiterRegistered

(***************************************************************************)
(* The leftovers of a session that returned never disturb the next one.    *)
(***************************************************************************)
LEMMA SoloNext == IInv /\ Solo /\ [Next]_vars => Solo'
<1> SUFFICES ASSUME TypeOK, Outcomes, Empty, Solo, [Next]_vars PROVE Solo'
  BY DEF IInv
<1> USE SessionsAssumption DEF TypeOK, Solo, WaiterRegistered, Running
<1>1. ASSUME NEW s \in Sessions, MainStep(s) PROVE Solo'
  <2>1. CASE SetSubscribe(s)
    BY <2>1 DEF SetSubscribe
  <2>2. CASE RejectRequest(s)
    BY <2>2 DEF RejectRequest
  <2>3. CASE StartGoroutines(s)
    BY <2>3 DEF StartGoroutines
  <2>4. CASE ChooseAnswer(s)
    BY <2>4 DEF ChooseAnswer
  <2>5. CASE CancelSubscribe(s)
    BY <2>5 DEF CancelSubscribe
  <2> QED
    BY <1>1, <2>1, <2>2, <2>3, <2>4, <2>5 DEF MainStep
<1>2. ASSUME NEW s \in Sessions, WaitStep(s) PROVE Solo'
  <2>1. CASE NewNotifierFails(s)
    BY <2>1 DEF NewNotifierFails
  <2>2. CASE AddToNotifiers(s)
    BY <2>2 DEF AddToNotifiers
  <2>3. CASE TakeResponse(s)
    BY <2>3 DEF TakeResponse, EndWait
  <2>4. CASE WaitTimeout(s)
    BY <2>4 DEF WaitTimeout, EndWait
  <2>5. CASE TakeSigGenerated(s)
    BY <2>5 DEF TakeSigGenerated, EndWait
  <2>6. CASE RemoveNotifier(s)
    BY <2>6 DEF RemoveNotifier
  <2>7. CASE SignatureReceived(s)
    BY <2>7 DEF SignatureReceived, SendSigChan
  <2> QED
    BY <1>2, <2>1, <2>2, <2>3, <2>4, <2>5, <2>6, <2>7 DEF WaitStep
<1>3. ASSUME NEW s \in Sessions, GenStep(s) PROVE Solo'
  <2>1. CASE NotJoining(s)
    BY <2>1 DEF NotJoining, EndGen
  <2>2. CASE JoinParty(s)
    BY <2>2 DEF JoinParty
  <2>3. CASE JoinTakesSignature(s)
    BY <2>3 DEF JoinTakesSignature
  <2>4. CASE JoinFails(s)
    BY <2>4 DEF JoinFails, EndGen
  <2>5. CASE NotSelected(s)
    BY <2>5 DEF NotSelected, EndGen
  <2>6. CASE PartyFormed(s)
    BY <2>6 DEF PartyFormed
  <2>7. CASE SignMessage(s)
    BY <2>7 DEF SignMessage
  <2>8. CASE SignatureGenerated(s)
    BY <2>8 DEF SignatureGenerated, SendSigChan
  <2> QED
    BY <1>3, <2>1, <2>2, <2>3, <2>4, <2>5, <2>6, <2>7, <2>8 DEF GenStep
<1>4. ASSUME NEW data, HandleStream(data) PROVE Solo'
  BY <1>4 DEF HandleStream
<1>5. CASE SendResponse
  BY <1>5 DEF SendResponse, Empty
<1>6. CASE UNCHANGED vars
  BY <1>6
<1> QED
  BY <1>1, <1>2, <1>3, <1>4, <1>5, <1>6 DEF Next

(***************************************************************************)
(* A session that runs alone and waits for a signature is registered with  *)
(* handleStream.                                                           *)
(***************************************************************************)
THEOREM WaiterRegisteredCorrect == Spec => []WaiterRegistered
<1>1. Init => Solo
  BY DEF Init, Solo, WaiterRegistered, Running
<1>2. IInv /\ Solo /\ [Next]_vars => Solo'
  BY SoloNext
<1>3. Solo => WaiterRegistered
  BY DEF Solo
<1> QED
  BY IInvCorrect, <1>1, <1>2, <1>3, PTL DEF Spec

(***************************************************************************)
(* A session that runs alone and signs gets the messages of its peers.     *)
(***************************************************************************)
THEOREM SignerSubscribedCorrect == Spec => []SignerSubscribed
<1>1. Init => Solo
  BY DEF Init, Solo, WaiterRegistered, Running
<1>2. IInv /\ Solo /\ [Next]_vars => Solo'
  BY SoloNext
<1>3. Solo => SignerSubscribed
  BY DEF Solo, SignerSubscribed, Running
<1> QED
  BY IInvCorrect, <1>1, <1>2, <1>3, PTL DEF Spec
=============================================================================
