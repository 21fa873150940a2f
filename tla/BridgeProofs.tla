--------------------------- MODULE BridgeProofs -----------------------------
(***************************************************************************)
(* What the pipeline between chain and TSS server guarantees for any       *)
(* number of workers, tasks, blocks and restarts: no key generation block  *)
(* is passed over, the registration is in one place, no goroutine blocks   *)
(* on the channel of a task, and the relayer's sequence numbers are in     *)
(* order.                                                                  *)
(***************************************************************************)
EXTENDS Bridge, FiniteSetTheorems, TLAPS

USE DEF vars, chainVars, scanVars, signVars, clientVars, procVars, history
USE DEF Doing, Job, Idle, Set, Finish

(***************************************************************************)
(* Scanned: between the query for a block and the step to the next height  *)
(* the block exists, and one with a key generation is on its way to a      *)
(* worker, was handed over, or its query failed.                           *)
(***************************************************************************)
Scanned ==
  /\ scanner # "next" => Next1 <= height
  /\ scanner = "sendKeygen" => Next1 \in KeygenBlocks
  /\ scanner \in {"register", "sendRegister"} /\ Next1 \in KeygenBlocks =>
       Next1 \in delivered \union skipped
  /\ PassedIsDelivered

(***************************************************************************)
(* Answered: a task is waiting for a request, in one request, about to be  *)
(* answered or answered, and its channel is empty until the last.          *)
(***************************************************************************)
Answered ==
  /\ \A t \in queue \union UNION signing : answers[t] = 0 /\ resp[t] = None
  /\ \A t \in Tasks : answers[t] > 0 => answers[t] = 1 /\ resp[t] = None
  /\ \A b \in signing : \A t \in b : t \notin queue /\ \A c \in signing : t \in c => c = b

(***************************************************************************)
(* Sequenced: one worker at a time has broadcastLock and a number, which   *)
(* is the client's; unless it is in doubt, the client's number is the next *)
(* of the account, or was not asked for yet and nothing is in the mempool. *)
(***************************************************************************)
Sequenced ==
  /\ \A w, v \in Workers : Doing(w, "broadcast") /\ Doing(v, "broadcast") => w = v
  /\ \A w \in Workers : Doing(w, "broadcast") => worker[w].data.seq = seqNumber
  /\ height = 0 => committed = 0
  /\ ~alive => seqNumber = 0 /\ currentBlockHeight = 0 /\ \A w \in Workers : worker[w] = Idle
  /\ ~doubt /\ alive =>
       \/ seqNumber = committed + pending
       \/ seqNumber = 0 /\ pending = 0 /\ currentBlockHeight = 0 /\ ~Locked
  /\ NoBadSequence

IInv == TypeOK /\ Scanned /\ Answered /\ RegisterInOnePlace /\ Sequenced

-----------------------------------------------------------------------------
(***************************************************************************)
(* The type of a worker's job.                                             *)
(***************************************************************************)
JobOK(j) ==
  /\ j = Job(j.state, j.data)
  /\ \/ j.state = "keygen" /\ j.data \in KeygenBlocks
     \/ j.state = "await" /\ j.data \in Tasks
     \/ j.state = "send" /\ j.data \in KeygenBlocks \union {None}
     \/ j.state = "broadcast" /\ j.data \in [seq : Nat, block : KeygenBlocks \union {None}]
     \/ j.state \in {"idle", "register", "putBack"} /\ j.data = None

WorkerType == /\ worker = [w \in Workers |-> worker[w]]
              /\ \A w \in Workers : JobOK(worker[w])

OtherTypes ==
  /\ height \in 0..MaxHeight /\ registration \in BOOLEAN /\ committed \in Nat /\ pending \in Nat
  /\ scanner \in {"next", "sendKeygen", "register", "sendRegister"}
  /\ currentBlock \in 0..height /\ hasRegistered \in BOOLEAN
  /\ queue \subseteq Tasks /\ signing \subseteq SUBSET Tasks
  /\ answers \in [Tasks -> Nat] /\ resp \in [Tasks -> {None, "signature", "error"}]
  /\ seqNumber \in Nat /\ currentBlockHeight \in 0..height
  /\ relayer \in BOOLEAN /\ alive \in BOOLEAN /\ restarts \in 0..MaxRestarts /\ refused \in 0..MaxRefused
  /\ delivered \subseteq KeygenBlocks /\ skipped \subseteq KeygenBlocks
  /\ registered \in BOOLEAN /\ doubt \in BOOLEAN /\ badSequence \in BOOLEAN

(***************************************************************************)
(* The type invariant in two parts: the workers' jobs, which almost every  *)
(* step changes one at a time, and the rest.                               *)
(***************************************************************************)
LEMMA TypeParts == (TypeOK <=> WorkerType /\ OtherTypes) /\ (TypeOK' <=> WorkerType' /\ OtherTypes')
<1>1. TypeOK => WorkerType /\ OtherTypes
  BY DEF TypeOK, WorkerType, OtherTypes, JobOK
<1>2. WorkerType /\ OtherTypes => TypeOK
  BY DEF TypeOK, WorkerType, OtherTypes, JobOK
<1>3. TypeOK' => WorkerType' /\ OtherTypes'
  BY DEF TypeOK, WorkerType, OtherTypes, JobOK
<1>4. WorkerType' /\ OtherTypes' => TypeOK'
  BY DEF TypeOK, WorkerType, OtherTypes, JobOK
<1> QED
  BY <1>1, <1>2, <1>3, <1>4

(***************************************************************************)
(* One worker takes a job.                                                 *)
(***************************************************************************)
LEMMA SetType ==
  ASSUME WorkerType, NEW w \in Workers, NEW j, JobOK(j), worker' = [worker EXCEPT ![w] = j]
  PROVE  /\ WorkerType'
         /\ worker'[w] = j
         /\ \A v \in Workers : v # w => worker'[v] = worker[v]
  BY DEF WorkerType

(***************************************************************************)
(* Die leaves the types and everything of the process as NewSigner has it. *)
(***************************************************************************)
LEMMA DieType ==
  ASSUME TypeOK, Die, pending' \in Nat, badSequence' \in BOOLEAN
  PROVE  TypeOK'
<1>1. WorkerType'
  BY DEF Die, WorkerType, JobOK
<1>2. OtherTypes
  BY TypeParts
<1>3. /\ height' \in 0..MaxHeight /\ committed' \in Nat /\ pending' \in Nat
      /\ scanner' \in {"next", "sendKeygen", "register", "sendRegister"}
      /\ currentBlock' \in 0..height' /\ seqNumber' \in Nat /\ currentBlockHeight' \in 0..height'
      /\ restarts' \in 0..MaxRestarts /\ refused' \in 0..MaxRefused
  BY <1>2, NumbersAssumption DEF OtherTypes, Die
<1>4. /\ registration' \in BOOLEAN /\ hasRegistered' \in BOOLEAN
      /\ relayer' \in BOOLEAN /\ alive' \in BOOLEAN
      /\ registered' \in BOOLEAN /\ doubt' \in BOOLEAN
  BY <1>2, Zenon DEF OtherTypes, Die
<1>5. /\ queue' \subseteq Tasks /\ signing' \subseteq SUBSET Tasks
      /\ answers' \in [Tasks -> Nat] /\ resp' \in [Tasks -> {None, "signature", "error"}]
      /\ delivered' \subseteq KeygenBlocks /\ skipped' \subseteq KeygenBlocks
  BY DEF Die
<1>6. OtherTypes'
  BY <1>3, <1>4, <1>5 DEF OtherTypes
<1> QED
  BY <1>1, <1>6, TypeParts

(***************************************************************************)
(* The choice of a task in RemoteSign is a free task.                      *)
(***************************************************************************)
LEMMA RemoteSignTask ==
  ASSUME NEW w \in Workers, RemoteSign(w)
  PROVE  \E t \in Tasks : /\ Free(t)
                          /\ worker' = [worker EXCEPT ![w] = Job("await", t)]
                          /\ queue' = queue \union {t}
                          /\ resp' = [resp EXCEPT ![t] = None]
<1> DEFINE t == CHOOSE t \in Tasks : Free(t)
<1>1. t \in Tasks /\ Free(t)
  BY DEF RemoteSign
<1> QED
  BY <1>1 DEF RemoteSign

(***************************************************************************)
(* Every step keeps the types; that currentBlock never passes the chain is *)
(* Scanned's matter.                                                       *)
(***************************************************************************)
LEMMA NextType ==
  ASSUME TypeOK, Scanned, [Next]_vars
  PROVE  TypeOK'
<1>0. WorkerType /\ OtherTypes
  BY TypeParts
<1> USE NumbersAssumption, SetsAssumption
<1>1. SUFFICES (WorkerType' /\ OtherTypes') \/ TypeOK'
  BY TypeParts
<1>2. CASE NewBlock
  <2>1. WorkerType'
    BY <1>0, <1>2 DEF NewBlock, WorkerType
  <2>2. PICK n \in 0..pending : committed' = committed + n /\ pending' = pending - n
    BY <1>2 DEF NewBlock
  <2>3. committed' \in Nat /\ pending' \in Nat
    BY <1>0, <2>2 DEF OtherTypes
  <2>4. height' \in 0..MaxHeight /\ currentBlock' \in 0..height' /\ currentBlockHeight' \in 0..height'
    BY <1>0, <1>2 DEF NewBlock, OtherTypes
  <2>5. OtherTypes'
    BY <1>0, <1>2, <2>3, <2>4 DEF NewBlock, OtherTypes
  <2> QED
    BY <2>1, <2>5
<1>3. CASE GetKeygenBlock
  BY <1>0, <1>3 DEF GetKeygenBlock, WorkerType, OtherTypes
<1>4. CASE GetRegisterKeygen
  <2>1. currentBlock' \in 0..height' /\ refused' \in 0..MaxRefused
    BY <1>0, <1>4 DEF GetRegisterKeygen, Advance, FoundRegistration, Repeat, Scanned, Next1, OtherTypes
  <2>2. scanner' \in {"next", "sendRegister"} /\ hasRegistered' \in {hasRegistered, TRUE}
    BY <1>4 DEF GetRegisterKeygen, Advance, FoundRegistration, Repeat
  <2>3. UNCHANGED <<chainVars, worker, signVars, clientVars, relayer, alive, restarts, history>>
    BY <1>4 DEF GetRegisterKeygen
  <2> QED
    BY <1>0, <2>1, <2>2, <2>3 DEF WorkerType, OtherTypes
<1>5. CASE ScannerPanics \/ KeySignPanics
  BY <1>0, <1>5, DieType DEF ScannerPanics, KeySignPanics, OtherTypes
<1>6. CASE Restart
  <2>1. restarts' \in 0..MaxRestarts
    BY <1>0, <1>6 DEF Restart, OtherTypes
  <2>2. alive' \in BOOLEAN /\ doubt' \in BOOLEAN
    BY <1>6, Zenon DEF Restart
  <2>3. UNCHANGED <<chainVars, scanVars, worker, signVars, clientVars, relayer, refused, delivered,
                    skipped, registered, badSequence>>
    BY <1>6 DEF Restart
  <2> QED
    BY <1>0, <2>1, <2>2, <2>3 DEF WorkerType, OtherTypes
<1>7. CASE ProcessKeySignTasks
  BY <1>0, <1>7 DEF ProcessKeySignTasks, WorkerType, OtherTypes
<1>8. ASSUME NEW b \in signing, ToLocalTSSSigner(b) PROVE WorkerType' /\ OtherTypes'
  <2>1. AnswersFor(b) \in [Tasks -> Nat]
    BY <1>0 DEF AnswersFor, OtherTypes
  <2> QED
    BY <1>0, <1>8, <2>1 DEF ToLocalTSSSigner, WorkerType, OtherTypes
<1>9. ASSUME NEW t \in Tasks, SendResp(t) PROVE WorkerType' /\ OtherTypes'
  BY <1>0, <1>9 DEF SendResp, WorkerType, OtherTypes
<1>10. ASSUME NEW w \in Workers, SendKeygen(w) PROVE WorkerType' /\ OtherTypes'
  <2>1. Next1 \in KeygenBlocks
    BY <1>10 DEF SendKeygen, Scanned
  <2>2. WorkerType'
    BY <1>0, <1>10, <2>1, SetType DEF SendKeygen, JobOK
  <2>3. OtherTypes'
    BY <1>0, <1>10, <2>1 DEF SendKeygen, OtherTypes
  <2> QED
    BY <2>2, <2>3
<1>11. ASSUME NEW w \in Workers, SendRegister(w) PROVE WorkerType' /\ OtherTypes'
  <2>1. WorkerType'
    BY <1>0, <1>11, SetType DEF SendRegister, JobOK
  <2>2. OtherTypes'
    BY <1>0, <1>11 DEF SendRegister, Advance, Scanned, Next1, OtherTypes
  <2> QED
    BY <2>1, <2>2
<1>12. ASSUME NEW w \in Workers, GenerateNewKey(w) PROVE WorkerType' /\ OtherTypes'
  <2>1. worker[w].data \in KeygenBlocks
    BY <1>0, <1>12 DEF GenerateNewKey, WorkerType, JobOK
  <2>2. WorkerType'
    BY <1>0, <1>12, <2>1, SetType DEF GenerateNewKey, JobOK
  <2> QED
    BY <1>0, <1>12, <2>2 DEF GenerateNewKey, OtherTypes
<1>13. ASSUME NEW w \in Workers, RemoteSign(w) PROVE WorkerType' /\ OtherTypes'
  <2>1. PICK t \in Tasks : /\ worker' = [worker EXCEPT ![w] = Job("await", t)]
                           /\ queue' = queue \union {t}
                           /\ resp' = [resp EXCEPT ![t] = None]
    BY <1>13, RemoteSignTask
  <2>2. WorkerType'
    BY <1>0, <2>1, SetType DEF JobOK
  <2> QED
    BY <1>0, <1>13, <2>1, <2>2 DEF RemoteSign, OtherTypes
<1>14. ASSUME NEW w \in Workers, NEW t \in Tasks, RemoteSignAnswered(w, t) PROVE WorkerType' /\ OtherTypes'
  <2>1. \E j \in {Job("send", None), Idle, Job("putBack", None)} : worker' = [worker EXCEPT ![w] = j]
    BY <1>14 DEF RemoteSignAnswered, SignSucceeds, SignFails
  <2>2. WorkerType'
    BY <1>0, <2>1, SetType DEF JobOK
  <2>3. registered' \in BOOLEAN
    BY <1>0, <1>14 DEF RemoteSignAnswered, SignSucceeds, SignFails, OtherTypes
  <2> QED
    BY <1>0, <1>14, <2>2, <2>3 DEF RemoteSignAnswered, OtherTypes
<1>15. ASSUME NEW w \in Workers, NEW t \in Tasks, RemoteSignTimeout(w, t) PROVE WorkerType' /\ OtherTypes'
  <2>1. WorkerType'
    BY <1>0, <1>15, SetType DEF RemoteSignTimeout, SignFails, JobOK
  <2> QED
    BY <1>0, <1>15, <2>1 DEF RemoteSignTimeout, SignFails, OtherTypes
<1>16. ASSUME NEW w \in Workers, NEW v \in Workers, TakeBack(w, v) PROVE WorkerType' /\ OtherTypes'
  <2>1. WorkerType'
    BY <1>0, <1>16 DEF TakeBack, WorkerType, JobOK
  <2> QED
    BY <1>0, <1>16, <2>1 DEF TakeBack, OtherTypes
<1>17. ASSUME NEW w \in Workers, PrepareTx(w) PROVE WorkerType' /\ OtherTypes'
  <2>1. worker[w].data \in KeygenBlocks \union {None}
    BY <1>0, <1>17 DEF PrepareTx, WorkerType, JobOK
  <2>2. seqNumber' \in Nat /\ currentBlockHeight' \in 0..height
    BY <1>0, <1>17 DEF PrepareTx, Refresh, Raise, OtherTypes
  <2>3. WorkerType'
    BY <1>0, <1>17, <2>1, <2>2, SetType DEF PrepareTx, JobOK
  <2> QED
    BY <1>0, <1>17, <2>2, <2>3 DEF PrepareTx, OtherTypes
<1>18. ASSUME NEW w \in Workers, BroadcastTx(w) PROVE WorkerType' /\ OtherTypes'
  <2>1. WorkerType'
    BY <1>0, <1>18, SetType DEF BroadcastTx, JobOK
  <2>2. seqNumber' \in Nat /\ pending' \in Nat
    BY <1>0, <1>18 DEF BroadcastTx, OtherTypes
  <2>3. registered' \in BOOLEAN /\ doubt' \in BOOLEAN
    BY <1>0, <1>18, Zenon DEF BroadcastTx, OtherTypes
  <2> QED
    BY <1>0, <1>18, <2>1, <2>2, <2>3 DEF BroadcastTx, OtherTypes
<1>19. ASSUME NEW w \in Workers, Panic(w) PROVE TypeOK'
  <2>1. badSequence' \in BOOLEAN
    BY <1>19 DEF Panic
  <2>2. pending' \in Nat
    BY <1>0, <1>19 DEF Panic, OtherTypes
  <2> QED
    BY <1>19, <2>1, <2>2, DieType DEF Panic
<1>20. CASE UNCHANGED vars
  BY <1>0, <1>20 DEF WorkerType, OtherTypes
<1> QED
  BY <1>2, <1>3, <1>4, <1>5, <1>6, <1>7, <1>8, <1>9, <1>10, <1>11, <1>12, <1>13, <1>14, <1>15,
     <1>16, <1>17, <1>18, <1>19, <1>20 DEF Next, ScannerStep, WorkerStep, KeysignStep

(***************************************************************************)
(* The scanner goes to the next height only past a block that a worker     *)
(* got or whose query failed, also when it repeats a height.               *)
(***************************************************************************)
LEMMA NextScanned ==
  ASSUME TypeOK, Scanned, [Next]_vars
  PROVE  Scanned'
<1>0. OtherTypes
  BY TypeParts
<1> USE DEF Scanned, PassedIsDelivered, Next1
<1> USE NumbersAssumption, SetsAssumption
<1>1. CASE NewBlock
  BY <1>0, <1>1 DEF NewBlock, OtherTypes
<1>2. CASE GetKeygenBlock
  BY <1>0, <1>2 DEF GetKeygenBlock, Reached, OtherTypes
<1>3. CASE GetRegisterKeygen
  BY <1>0, <1>3 DEF GetRegisterKeygen, Advance, FoundRegistration, Repeat, OtherTypes
<1>4. ASSUME NEW w \in Workers, SendKeygen(w) PROVE Scanned'
  BY <1>0, <1>4 DEF SendKeygen, OtherTypes
<1>5. ASSUME NEW w \in Workers, SendRegister(w) PROVE Scanned'
  BY <1>0, <1>5 DEF SendRegister, Advance, OtherTypes
<1>6. CASE Die
  BY <1>0, <1>6 DEF Die
<1>7. CASE UNCHANGED <<height, scanner, currentBlock, delivered, skipped>>
  BY <1>7
<1>8. \/ NewBlock \/ GetKeygenBlock \/ GetRegisterKeygen \/ Die
      \/ \E w \in Workers : SendKeygen(w) \/ SendRegister(w)
      \/ UNCHANGED <<height, scanner, currentBlock, delivered, skipped>>
  BY DEF Next, ScannerStep, ScannerPanics, KeySignPanics, WorkerStep, KeysignStep, GenerateNewKey, RemoteSign,
     PrepareTx, BroadcastTx, Panic, RemoteSignAnswered, RemoteSignTimeout, TakeBack,
     ProcessKeySignTasks, ToLocalTSSSigner, SendResp, Restart
<1> QED
  BY <1>1, <1>2, <1>3, <1>4, <1>5, <1>6, <1>7, <1>8

(***************************************************************************)
(* A task is answered at most once: RemoteSign reuses one that nobody      *)
(* refers to, processKeySignTasks puts a task into one request, and        *)
(* toLocalTSSSigner answers each task of its request once.                 *)
(***************************************************************************)
LEMMA NextAnswered ==
  ASSUME TypeOK, Answered, [Next]_vars
  PROVE  Answered'
<1>0. OtherTypes
  BY TypeParts
<1> USE DEF Answered, OtherTypes
<1>1. ASSUME NEW w \in Workers, RemoteSign(w) PROVE Answered'
  <2>1. PICK t \in Tasks : /\ Free(t)
                           /\ queue' = queue \union {t}
                           /\ resp' = [resp EXCEPT ![t] = None]
    BY <1>1, RemoteSignTask
  <2>2. answers' = answers /\ signing' = signing
    BY <1>1 DEF RemoteSign
  <2>3. answers[t] = 0 /\ t \notin UNION signing
    BY <2>1 DEF Free
  <2> QED
    BY <1>0, <2>1, <2>2, <2>3
<1>2. ASSUME NEW w \in Workers, NEW t \in Tasks, RemoteSignAnswered(w, t) PROVE Answered'
  BY <1>0, <1>2 DEF RemoteSignAnswered
<1>3. CASE ProcessKeySignTasks
  <2>1. PICK b \in SUBSET queue : queue' = queue \ b /\ signing' = signing \union {b}
    BY <1>3 DEF ProcessKeySignTasks
  <2>2. answers' = answers /\ resp' = resp
    BY <1>3 DEF ProcessKeySignTasks
  <2> QED
    BY <1>0, <2>1, <2>2
<1>4. ASSUME NEW b \in signing, ToLocalTSSSigner(b) PROVE Answered'
  <2>1. signing' = signing \ {b} /\ queue' = queue /\ resp' = resp
    BY <1>4 DEF ToLocalTSSSigner
  <2>2. CASE answers' = answers
    BY <1>0, <2>1, <2>2
  <2>3. CASE answers' = AnswersFor(b)
    <3>1. \A t \in Tasks : answers'[t] = IF t \in b THEN 1 ELSE answers[t]
      BY <2>3 DEF AnswersFor
    <3>2. \A t \in b : t \in Tasks /\ t \notin queue /\ t \notin UNION signing' /\ resp[t] = None
      BY <1>0, <2>1
    <3>3. queue' \union UNION signing' \subseteq Tasks
      BY <1>0, <2>1
    <3>4. \A t \in queue' \union UNION signing' : answers'[t] = 0 /\ resp'[t] = None
      BY <2>1, <3>1, <3>2, <3>3
    <3>5. \A t \in Tasks : answers'[t] > 0 => answers'[t] = 1 /\ resp'[t] = None
      BY <2>1, <3>1, <3>2
    <3> QED
      BY <2>1, <3>4, <3>5
  <2> QED
    BY <1>4, <2>2, <2>3 DEF ToLocalTSSSigner
<1>5. ASSUME NEW t \in Tasks, SendResp(t) PROVE Answered'
  <2>1. answers[t] = 1 /\ t \notin queue \union UNION signing
    BY <1>0, <1>5 DEF SendResp
  <2>2. PICK r : answers' = [answers EXCEPT ![t] = answers[t] - 1] /\ resp' = [resp EXCEPT ![t] = r]
    BY <1>5 DEF SendResp
  <2>3. queue' = queue /\ signing' = signing
    BY <1>5 DEF SendResp
  <2> QED
    BY <1>0, <2>1, <2>2, <2>3
<1>6. CASE Die
  BY <1>6 DEF Die
<1>7. CASE UNCHANGED signVars
  BY <1>7
<1>8. \/ ProcessKeySignTasks \/ Die
      \/ \E w \in Workers : RemoteSign(w) \/ \E t \in Tasks : RemoteSignAnswered(w, t)
      \/ \E b \in signing : ToLocalTSSSigner(b)
      \/ \E t \in Tasks : SendResp(t)
      \/ UNCHANGED signVars
  BY DEF Next, NewBlock, ScannerStep, GetKeygenBlock, GetRegisterKeygen, ScannerPanics, KeySignPanics, WorkerStep,
     KeysignStep, SendKeygen, SendRegister, GenerateNewKey, PrepareTx, BroadcastTx, Panic,
     RemoteSignTimeout, TakeBack, Restart
<1> QED
  BY <1>1, <1>2, <1>3, <1>4, <1>5, <1>6, <1>7, <1>8

-----------------------------------------------------------------------------
(***************************************************************************)
(* A job that holds the registration.                                      *)
(***************************************************************************)
Held(j) == \/ j.state \in {"register", "await", "putBack"}
           \/ j.state = "send" /\ j.data = None
           \/ j.state = "broadcast" /\ j.data.block = None

(***************************************************************************)
(* The workers that hold the registration are finitely many.               *)
(***************************************************************************)
LEMMA HoldingType ==
  /\ IsFiniteSet(Holding) /\ Cardinality(Holding) \in Nat
  /\ Holding = {w \in Workers : Held(worker[w])}
  /\ Holding' = {w \in Workers : Held(worker'[w])}
<1>1. Holding = {w \in Workers : Held(worker[w])} /\ Holding' = {w \in Workers : Held(worker'[w])}
  BY DEF Holding, Held
<1>2. IsFiniteSet(Holding)
  BY <1>1, SetsAssumption, FS_Subset
<1> QED
  BY <1>1, <1>2, FS_CardinalityType

(***************************************************************************)
(* A worker that holds the registration is counted: nothing else does.     *)
(***************************************************************************)
LEMMA HeldCounts ==
  ASSUME RegisterInOnePlace, NEW w \in Workers, Held(worker[w])
  PROVE  Cardinality(Holding) = 1 /\ ~registered /\ scanner # "sendRegister" /\ hasRegistered
<1>1. w \in Holding
  BY HoldingType
<1>2. Cardinality(Holding) # 0
  BY <1>1, HoldingType, FS_EmptySet
<1> QED
  BY <1>2, HoldingType DEF RegisterInOnePlace

(***************************************************************************)
(* The registration moves from one place to the next, whole.               *)
(***************************************************************************)
LEMMA NextRegister ==
  ASSUME TypeOK, RegisterInOnePlace, [Next]_vars
  PROVE  RegisterInOnePlace'
<1>0. WorkerType /\ OtherTypes
  BY TypeParts
<1> DEFINE n == Cardinality(Holding)
<1>t. n \in Nat
  BY HoldingType
<1>1. ASSUME NEW w \in Workers, NEW j, worker' = [worker EXCEPT ![w] = j],
             Held(j) <=> Held(worker[w]), UNCHANGED <<registered, hasRegistered>>,
             scanner' = "sendRegister" <=> scanner = "sendRegister"
      PROVE  RegisterInOnePlace'
  <2>1. Holding' = Holding
    BY <1>0, <1>1, HoldingType DEF WorkerType
  <2> QED
    BY <1>1, <2>1 DEF RegisterInOnePlace
<1>2. CASE UNCHANGED <<worker, registered, hasRegistered>> /\ (scanner' = "sendRegister" <=> scanner = "sendRegister")
  <2>1. Holding' = Holding
    BY <1>2, HoldingType
  <2> QED
    BY <1>2, <2>1 DEF RegisterInOnePlace
<1>3. CASE GetKeygenBlock
  BY <1>2, <1>3 DEF GetKeygenBlock
<1>4. CASE GetRegisterKeygen
  <2>1. Holding' = Holding /\ registered' = registered /\ scanner = "register"
    BY <1>4, HoldingType DEF GetRegisterKeygen
  <2>2. CASE ~hasRegistered /\ FoundRegistration
    BY <1>t, <2>1, <2>2 DEF RegisterInOnePlace, FoundRegistration
  <2>3. CASE hasRegistered' = hasRegistered /\ scanner' = "next"
    BY <2>1, <2>3 DEF RegisterInOnePlace
  <2> QED
    BY <1>4, <2>2, <2>3 DEF GetRegisterKeygen, Advance, Repeat
<1>5. ASSUME NEW w \in Workers, SendKeygen(w) PROVE RegisterInOnePlace'
  <2>1. worker' = [worker EXCEPT ![w] = Job("keygen", Next1)]
    BY <1>5 DEF SendKeygen
  <2>2. Held(Job("keygen", Next1)) <=> Held(worker[w])
    BY <1>5 DEF SendKeygen, Held
  <2>3. UNCHANGED <<registered, hasRegistered>> /\ scanner' # "sendRegister" /\ scanner # "sendRegister"
    BY <1>5 DEF SendKeygen
  <2> QED
    BY <1>1, <2>1, <2>2, <2>3
<1>6. ASSUME NEW w \in Workers, SendRegister(w) PROVE RegisterInOnePlace'
  <2>1. worker' = [worker EXCEPT ![w] = Job("register", None)]
    BY <1>6 DEF SendRegister
  <2>2. Held(Job("register", None)) /\ ~Held(worker[w])
    BY <1>6 DEF SendRegister, Held
  <2>3. Cardinality(Holding') = n + 1
    <3>1. Holding' = Holding \union {w} /\ w \notin Holding
      BY <1>0, <2>1, <2>2, HoldingType DEF WorkerType
    <3> QED
      BY <3>1, HoldingType, FS_AddElement
  <2>4. UNCHANGED <<registered, hasRegistered>> /\ scanner = "sendRegister" /\ scanner' = "next"
    BY <1>6 DEF SendRegister, Advance
  <2> QED
    BY <1>t, <2>3, <2>4 DEF RegisterInOnePlace
<1>7. ASSUME NEW w \in Workers, GenerateNewKey(w) PROVE RegisterInOnePlace'
  <2>1. worker[w].data # None
    BY <1>0, <1>7, SetsAssumption DEF GenerateNewKey, WorkerType, JobOK
  <2>2. \E j \in {Job("send", worker[w].data), Idle} : worker' = [worker EXCEPT ![w] = j]
    BY <1>7 DEF GenerateNewKey
  <2>3. \A j \in {Job("send", worker[w].data), Idle} : Held(j) <=> Held(worker[w])
    BY <1>7, <2>1 DEF GenerateNewKey, Held
  <2>4. UNCHANGED <<registered, hasRegistered, scanner>>
    BY <1>7 DEF GenerateNewKey
  <2> QED
    BY <1>1, <2>2, <2>3, <2>4
<1>8. ASSUME NEW w \in Workers, RemoteSign(w) PROVE RegisterInOnePlace'
  <2>1. PICK t \in Tasks : worker' = [worker EXCEPT ![w] = Job("await", t)]
    BY <1>8, RemoteSignTask
  <2>2. Held(Job("await", t)) <=> Held(worker[w])
    BY <1>8 DEF RemoteSign, Held
  <2>3. UNCHANGED <<registered, hasRegistered, scanner>>
    BY <1>8 DEF RemoteSign
  <2> QED
    BY <1>1, <2>1, <2>2, <2>3
<1>9. ASSUME NEW w \in Workers, NEW t \in Tasks, SignFails(w), Doing(w, "await"),
             UNCHANGED <<hasRegistered, scanner>>
      PROVE  RegisterInOnePlace'
  <2>1. Held(Job("putBack", None)) <=> Held(worker[w])
    BY <1>9 DEF Held
  <2> QED
    BY <1>1, <1>9, <2>1 DEF SignFails
\* The registration leaves a worker, and is done.
<1>10. ASSUME NEW w \in Workers, Held(worker[w]), worker' = [worker EXCEPT ![w] = Idle],
              registered' = TRUE, UNCHANGED <<hasRegistered, scanner>>
       PROVE  RegisterInOnePlace'
  <2>1. n = 1 /\ ~registered /\ scanner # "sendRegister" /\ hasRegistered
    BY <1>10, HeldCounts
  <2>2. Holding' = Holding \ {w} /\ w \in Holding
    BY <1>0, <1>10, HoldingType DEF WorkerType, Held
  <2>3. Cardinality(Holding') = 0
    <3>1. Cardinality(Holding \ {w}) = n - 1
      BY <2>2, HoldingType, FS_RemoveElement
    <3> QED
      BY <2>1, <2>2, <3>1
  <2> QED
    BY <1>10, <2>1, <2>3 DEF RegisterInOnePlace
<1>11. ASSUME NEW w \in Workers, NEW t \in Tasks, RemoteSignAnswered(w, t) PROVE RegisterInOnePlace'
  <2>1. Held(worker[w]) /\ Doing(w, "await") /\ UNCHANGED <<hasRegistered, scanner>>
    BY <1>11 DEF RemoteSignAnswered, Held
  <2>2. CASE SignFails(w)
    BY <1>9, <2>1, <2>2
  <2>3. CASE worker' = [worker EXCEPT ![w] = Job("send", None)] /\ UNCHANGED registered
    <3>1. Held(Job("send", None)) <=> Held(worker[w])
      BY <2>1 DEF Held
    <3> QED
      BY <1>1, <2>1, <2>3, <3>1
  <2>4. CASE worker' = [worker EXCEPT ![w] = Idle] /\ registered' = TRUE
    BY <1>10, <2>1, <2>4
  <2> QED
    BY <1>11, <2>2, <2>3, <2>4 DEF RemoteSignAnswered, SignSucceeds
<1>12. ASSUME NEW w \in Workers, NEW t \in Tasks, RemoteSignTimeout(w, t) PROVE RegisterInOnePlace'
  BY <1>9, <1>12 DEF RemoteSignTimeout
<1>13. ASSUME NEW w \in Workers, NEW v \in Workers, TakeBack(w, v) PROVE RegisterInOnePlace'
  <2>1. w \in Holding /\ v \notin Holding /\ v # w
    BY <1>13, HoldingType DEF TakeBack, Held
  <2>2. Holding' = (Holding \ {w}) \union {v}
    BY <1>0, <1>13, <2>1, HoldingType DEF TakeBack, WorkerType, Held
  <2>3. IsFiniteSet(Holding \ {w}) /\ Cardinality(Holding \ {w}) = n - 1
    BY <2>1, HoldingType, FS_RemoveElement
  <2>4. Cardinality(Holding') = (n - 1) + 1
    BY <2>1, <2>2, <2>3, FS_AddElement
  <2> QED
    BY <1>t, <1>13, <2>4 DEF TakeBack, RegisterInOnePlace
<1>14. ASSUME NEW w \in Workers, PrepareTx(w) PROVE RegisterInOnePlace'
  <2> DEFINE j == Job("broadcast", [seq |-> seqNumber', block |-> worker[w].data])
  <2>1. worker' = [worker EXCEPT ![w] = j]
    BY <1>14 DEF PrepareTx
  <2>2. Held(j) <=> Held(worker[w])
    BY <1>14 DEF PrepareTx, Held
  <2>3. UNCHANGED <<registered, hasRegistered, scanner>>
    BY <1>14 DEF PrepareTx
  <2> HIDE DEF j
  <2> QED
    BY <1>1, <2>1, <2>2, <2>3
<1>15. ASSUME NEW w \in Workers, BroadcastTx(w) PROVE RegisterInOnePlace'
  <2>1. worker' = [worker EXCEPT ![w] = Idle] /\ UNCHANGED <<hasRegistered, scanner>> /\ Doing(w, "broadcast")
    BY <1>15 DEF BroadcastTx
  <2>2. CASE worker[w].data.block = None
    <3>1. Held(worker[w]) /\ registered' = TRUE
      BY <1>15, <2>1, <2>2 DEF BroadcastTx, Held
    <3> QED
      BY <1>10, <2>1, <3>1
  <2>3. CASE worker[w].data.block # None
    <3>1. Held(Idle) <=> Held(worker[w])
      BY <2>1, <2>3 DEF Held
    <3>2. registered' = registered
      BY <1>0, <1>15, <2>3 DEF BroadcastTx, OtherTypes
    <3> QED
      BY <1>1, <2>1, <3>1, <3>2
  <2> QED
    BY <2>2, <2>3
<1>16. CASE Die
  <2>1. Holding' = {}
    BY <1>16, HoldingType DEF Die, Held
  <2> QED
    BY <1>16, <2>1, FS_EmptySet DEF Die, RegisterInOnePlace
<1>17. CASE NewBlock \/ KeysignStep \/ Restart \/ UNCHANGED vars
  BY <1>2, <1>17 DEF NewBlock, KeysignStep, ProcessKeySignTasks, ToLocalTSSSigner, SendResp, Restart
<1> QED
  BY <1>3, <1>4, <1>5, <1>6, <1>7, <1>8, <1>11, <1>12, <1>13, <1>14, <1>15, <1>16, <1>17
     DEF Next, ScannerStep, ScannerPanics, KeySignPanics, WorkerStep, Panic

-----------------------------------------------------------------------------
(***************************************************************************)
(* A worker that takes another job than a broadcast leaves the numbers,    *)
(* and the lock of the others, alone.                                      *)
(***************************************************************************)
LEMMA OtherJob ==
  ASSUME TypeOK, Sequenced, alive, UNCHANGED <<chainVars, clientVars, alive, doubt, badSequence>>,
         \A w \in Workers : worker'[w] = worker[w] \/ worker'[w].state # "broadcast"
  PROVE  Sequenced'
  BY DEF Sequenced, Locked, NoBadSequence

(***************************************************************************)
(* broadcast takes the next number of the account, which the mempool has   *)
(* not seen, under its lock; a panic finds the number in sequence.         *)
(***************************************************************************)
LEMMA NextSequenced ==
  ASSUME TypeOK, Sequenced, [Next]_vars
  PROVE  Sequenced'
<1>0. WorkerType /\ OtherTypes
  BY TypeParts
<1> USE DEF NoBadSequence
<1>1. CASE NewBlock
  <2>1. PICK n \in 0..pending : committed' = committed + n /\ pending' = pending - n
    BY <1>1 DEF NewBlock
  <2>2. committed' + pending' = committed + pending /\ (pending = 0 => pending' = 0)
    BY <1>0, <2>1 DEF OtherTypes
  <2>3. height' # 0
    BY <1>0, <1>1 DEF NewBlock, OtherTypes
  <2>4. UNCHANGED <<worker, seqNumber, currentBlockHeight, alive, doubt, badSequence>>
    BY <1>1 DEF NewBlock
  <2> QED
    BY <2>2, <2>3, <2>4 DEF Sequenced, Locked
<1>2. ASSUME NEW w \in Workers, PrepareTx(w) PROVE Sequenced'
  <2>1. /\ alive /\ ~Locked
        /\ UNCHANGED <<chainVars, alive, doubt, badSequence>>
        /\ worker' = [worker EXCEPT ![w] = Job("broadcast", [seq |-> seqNumber', block |-> worker[w].data])]
    BY <1>2 DEF PrepareTx
  <2>2. \A v \in Workers : v # w => worker'[v] = worker[v]
    BY <1>0, <2>1 DEF WorkerType
  <2>3. worker'[w].state = "broadcast" /\ worker'[w].data.seq = seqNumber'
    BY <1>0, <2>1 DEF WorkerType
  <2>4. \A v \in Workers : worker'[v].state = "broadcast" => v = w
    BY <2>1, <2>2 DEF Locked
  <2>5. ASSUME ~doubt PROVE seqNumber' = committed + pending
    <3>1. \/ seqNumber = committed + pending
          \/ seqNumber = 0 /\ pending = 0 /\ currentBlockHeight = 0
      BY <2>1, <2>5 DEF Sequenced
    <3>2. height = 0 => committed = 0
      BY DEF Sequenced
    <3> QED
      BY <1>0, <1>2, <3>1, <3>2 DEF PrepareTx, Refresh, Raise, OtherTypes
  <2> QED
    BY <2>1, <2>3, <2>4, <2>5 DEF Sequenced
<1>3. ASSUME NEW w \in Workers, BroadcastTx(w) PROVE Sequenced'
  <2>1. /\ alive /\ Doing(w, "broadcast") /\ seqNumber' = seqNumber + 1
        /\ UNCHANGED <<height, committed, currentBlockHeight, alive, badSequence>>
        /\ worker' = [worker EXCEPT ![w] = Idle]
    BY <1>3 DEF BroadcastTx
  <2>2. worker'[w] = Idle /\ \A v \in Workers : v # w => worker'[v] = worker[v]
    BY <1>0, <2>1 DEF WorkerType
  <2>3. \A v \in Workers : worker'[v].state # "broadcast"
    BY <2>1, <2>2 DEF Sequenced
  <2>4. \/ InSequence(w) /\ pending' = pending + 1 /\ UNCHANGED doubt
        \/ doubt' = TRUE
    BY <1>3 DEF BroadcastTx
  <2>5. ASSUME ~doubt' PROVE seqNumber' = committed' + pending'
    <3>1. worker[w].data.seq = seqNumber
      BY <2>1 DEF Sequenced
    <3> QED
      BY <1>0, <2>1, <2>4, <2>5, <3>1 DEF InSequence, OtherTypes
  <2> QED
    BY <2>1, <2>3, <2>5 DEF Sequenced
<1>4. CASE Die /\ ~badSequence'
  BY <1>4 DEF Die, Sequenced
<1>5. CASE ScannerPanics \/ KeySignPanics
  BY <1>4, <1>5 DEF ScannerPanics, KeySignPanics, Sequenced
<1>6. ASSUME NEW w \in Workers, Panic(w) PROVE Sequenced'
  <2>1. Doing(w, "broadcast") => InSequence(w) \/ doubt
    <3>1. SUFFICES ASSUME Doing(w, "broadcast"), ~doubt PROVE InSequence(w)
      OBVIOUS
    <3>2. alive /\ Locked
      BY <1>6, <3>1 DEF Panic, Die, Locked
    <3>3. seqNumber = committed + pending /\ worker[w].data.seq = seqNumber
      BY <3>1, <3>2 DEF Sequenced
    <3> QED
      BY <3>3 DEF InSequence
  <2>2. ~badSequence'
    BY <1>6, <2>1 DEF Panic, Sequenced
  <2> QED
    BY <1>4, <1>6, <2>2 DEF Panic
<1>7. CASE Restart
  <2>1. /\ ~alive /\ alive' = TRUE /\ doubt' = (doubt \/ pending > 0)
        /\ UNCHANGED <<chainVars, worker, clientVars, badSequence>>
    BY <1>7 DEF Restart
  <2>2. seqNumber = 0 /\ currentBlockHeight = 0 /\ ~Locked
    BY <2>1 DEF Sequenced, Locked
  <2>3. ~doubt' => ~doubt /\ ~(pending > 0)
    BY <2>1, Zenon
  <2>4. pending > 0 \/ pending = 0
    BY <1>0 DEF OtherTypes
  <2> QED
    BY <2>1, <2>2, <2>3, <2>4 DEF Sequenced, Locked
<1>8. CASE UNCHANGED <<chainVars, worker, clientVars, alive, doubt, badSequence>>
  BY <1>8 DEF Sequenced, Locked
<1>9. ASSUME NEW w \in Workers, NEW j, j.state # "broadcast", worker' = [worker EXCEPT ![w] = j], alive,
             UNCHANGED <<chainVars, clientVars, alive, doubt, badSequence>>
      PROVE  Sequenced'
  <2>1. \A v \in Workers : worker'[v] = worker[v] \/ worker'[v].state # "broadcast"
    BY <1>0, <1>9 DEF WorkerType
  <2> QED
    BY <1>9, <2>1, OtherJob
<1>10. ASSUME NEW w \in Workers, SendKeygen(w) \/ SendRegister(w) \/ GenerateNewKey(w) PROVE Sequenced'
  <2>1. \E j \in {Job("keygen", Next1), Job("register", None), Job("send", worker[w].data), Idle} :
          worker' = [worker EXCEPT ![w] = j]
    BY <1>10 DEF SendKeygen, SendRegister, GenerateNewKey
  <2>2. alive /\ UNCHANGED <<chainVars, clientVars, alive, doubt, badSequence>>
    BY <1>10 DEF SendKeygen, SendRegister, GenerateNewKey
  <2> QED
    BY <1>9, <2>1, <2>2
<1>11. ASSUME NEW w \in Workers, RemoteSign(w) PROVE Sequenced'
  <2>1. PICK t \in Tasks : worker' = [worker EXCEPT ![w] = Job("await", t)]
    BY <1>11, RemoteSignTask
  <2>2. alive /\ UNCHANGED <<chainVars, clientVars, alive, doubt, badSequence>>
    BY <1>11 DEF RemoteSign
  <2> QED
    BY <1>9, <2>1, <2>2
<1>12. ASSUME NEW w \in Workers, NEW t \in Tasks, RemoteSignAnswered(w, t) \/ RemoteSignTimeout(w, t)
       PROVE  Sequenced'
  <2>1. \E j \in {Job("send", None), Idle, Job("putBack", None)} : worker' = [worker EXCEPT ![w] = j]
    BY <1>12 DEF RemoteSignAnswered, RemoteSignTimeout, SignSucceeds, SignFails
  <2>2. alive /\ UNCHANGED <<chainVars, clientVars, alive, doubt, badSequence>>
    BY <1>12 DEF RemoteSignAnswered, RemoteSignTimeout
  <2> QED
    BY <1>9, <2>1, <2>2
<1>13. ASSUME NEW w \in Workers, NEW v \in Workers, TakeBack(w, v) PROVE Sequenced'
  <2>1. \A u \in Workers : worker'[u] = worker[u] \/ worker'[u].state # "broadcast"
    BY <1>0, <1>13 DEF TakeBack, WorkerType
  <2> QED
    BY <1>13, <2>1, OtherJob DEF TakeBack
<1>14. CASE ScannerStep \/ KeysignStep \/ UNCHANGED vars
  BY <1>8, <1>14 DEF ScannerStep, GetKeygenBlock, GetRegisterKeygen, KeysignStep, ProcessKeySignTasks,
     ToLocalTSSSigner, SendResp
<1> QED
  BY <1>1, <1>2, <1>3, <1>5, <1>6, <1>7, <1>10, <1>11, <1>12, <1>13, <1>14 DEF Next, WorkerStep

-----------------------------------------------------------------------------
(***************************************************************************)
(* A process as NewSigner starts it is in a state of the invariant.        *)
(***************************************************************************)
LEMMA InitIInv == Init => IInv
<1> SUFFICES ASSUME Init PROVE IInv
  OBVIOUS
<1>1. TypeOK
  <2>1. WorkerType
    BY DEF Init, WorkerType, JobOK
  <2>2. OtherTypes
    <3>1. /\ height \in 0..MaxHeight /\ committed \in Nat /\ pending \in Nat
          /\ currentBlock \in 0..height /\ seqNumber \in Nat /\ currentBlockHeight \in 0..height
          /\ restarts \in 0..MaxRestarts /\ refused \in 0..MaxRefused
      BY NumbersAssumption DEF Init
    <3>2. /\ registration \in BOOLEAN /\ hasRegistered \in BOOLEAN
          /\ relayer \in BOOLEAN /\ alive \in BOOLEAN
          /\ registered \in BOOLEAN /\ doubt \in BOOLEAN /\ badSequence \in BOOLEAN
      BY Zenon DEF Init
    <3> QED
      BY <3>1, <3>2 DEF Init, OtherTypes
  <2> QED
    BY <2>1, <2>2, TypeParts
<1>2. Scanned
  BY SetsAssumption, NumbersAssumption DEF Init, Scanned, PassedIsDelivered
<1>3. Answered
  BY DEF Init, Answered
<1>4. RegisterInOnePlace
  <2>1. Holding = {}
    BY HoldingType DEF Init, Held
  <2> QED
    BY <2>1, FS_EmptySet DEF Init, RegisterInOnePlace
<1>5. Sequenced
  BY DEF Init, Sequenced, NoBadSequence
<1> QED
  BY <1>1, <1>2, <1>3, <1>4, <1>5 DEF IInv

(***************************************************************************)
(* The invariant of the pipeline, which is inductive.                      *)
(***************************************************************************)
THEOREM Invariance == Spec => []IInv
<1>1. IInv /\ [Next]_vars => IInv'
  BY NextType, NextScanned, NextAnswered, NextRegister, NextSequenced DEF IInv
<1> QED
  BY <1>1, InitIInv, PTL DEF Spec

(***************************************************************************)
(* Every state of the pipeline is of its type: in particular the scanner   *)
(* is never ahead of the chain, and every worker's job has its data.       *)
(***************************************************************************)
THEOREM TypeCorrect == Spec => []TypeOK
<1>1. IInv => TypeOK
  BY DEF IInv
<1> QED
  BY <1>1, Invariance, PTL

(***************************************************************************)
(* scanKeygenBlock passes no key generation block without handing it to a  *)
(* worker, unless the query for it failed.                                 *)
(***************************************************************************)
THEOREM PassedIsDeliveredCorrect == Spec => []PassedIsDelivered
<1>1. IInv => PassedIsDelivered
  BY DEF IInv, Scanned
<1> QED
  BY <1>1, Invariance, PTL

(***************************************************************************)
(* The registration, once found, is with the scanner, with one worker or   *)
(* done, whatever times out, is answered late or is put back.              *)
(***************************************************************************)
THEOREM RegisterInOnePlaceCorrect == Spec => []RegisterInOnePlace
<1>1. IInv => RegisterInOnePlace
  BY DEF IInv
<1> QED
  BY <1>1, Invariance, PTL

(***************************************************************************)
(* toLocalTSSSigner always finds room in the channel of a task: even if    *)
(* RemoteSign has given up on the task, it is answered once.               *)
(***************************************************************************)
THEOREM RespNeverBlocksCorrect == Spec => []RespNeverBlocks
<1>1. IInv => RespNeverBlocks
  BY DEF IInv, Answered, RespNeverBlocks
<1> QED
  BY <1>1, Invariance, PTL

(***************************************************************************)
(* broadcast never sends a number that the chain refuses, unless a code 6  *)
(* or a restart with a full mempool has left the number in doubt, for any  *)
(* number of workers and any rate of blocks.                               *)
(***************************************************************************)
THEOREM NoBadSequenceCorrect == Spec => []NoBadSequence
<1>1. IInv => NoBadSequence
  BY DEF IInv, Sequenced
<1> QED
  BY <1>1, Invariance, PTL
=============================================================================
