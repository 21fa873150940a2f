------------------------------- MODULE Bridge -------------------------------
(***************************************************************************)
(* The pipeline between the bridge chain and the TSS server (network/):    *)
(* the scanner walks the blocks of the chain and hands key generation      *)
(* blocks and, once, the registration of the pool to two workers over      *)
(* unbuffered channels; a worker runs the key generation or has the        *)
(* registration signed by Keysign, and the relayer sends the outcome to    *)
(* the chain.  Most errors panic, and a panic of any goroutine ends the    *)
(* process; nothing of this state is saved.                                *)
(*                                                                         *)
(* The chain is external: its blocks, the registration, the sequence       *)
(* number of the relayer's account and the transactions in its mempool,    *)
(* which it checks against that number, keeps, and includes in some later  *)
(* block.  So are the ceremonies behind Keygen and KeySign (Ceremony).     *)
(***************************************************************************)
EXTENDS Naturals, FiniteSets

CONSTANTS Workers,       \* the goroutines of processKeygen
          Tasks,         \* bounds the key sign tasks that exist at a time
          KeygenBlocks,  \* the heights with a key generation block
          MaxHeight,     \* bounds the chain
          MaxPerRequest, \* maxKeysignPerRequest
          MaxRestarts,   \* bounds the restarts
          MaxRefused,    \* bounds the heights repeated for the registration
          None           \* no value

ASSUME NumbersAssumption == /\ MaxHeight \in Nat /\ MaxPerRequest \in Nat \ {0}
                            /\ MaxRestarts \in Nat /\ MaxRefused \in Nat
ASSUME SetsAssumption == /\ IsFiniteSet(Workers) /\ IsFiniteSet(Tasks)
                         /\ None \notin Tasks /\ None \notin KeygenBlocks
                         /\ KeygenBlocks \subseteq 1..MaxHeight

VARIABLES
  \* the chain
  height,        \* of the last block
  registration,  \* the pool to register is known
  committed,     \* sequence number of the relayer's account
  pending,       \* transactions of the relayer in the mempool
  \* BridgeScanner
  scanner,       \* "next", "sendKeygen", "register", "sendRegister"
  currentBlock,
  hasRegistered,
  \* Signer
  relayer,       \* the node is the relayer
  worker,        \* worker -> what it does and for which block
  \* Keysign
  queue,         \* the tasks that wait for the next idle second
  signing,       \* the requests that are with KeySign, each a set of tasks
  answers,       \* task -> answers that toLocalTSSSigner has yet to send
  resp,          \* task -> the content of its channel: None, "signature", "error"
  \* BridgeClient
  seqNumber, currentBlockHeight,
  \* the process
  alive, restarts,
  refused,       \* heights repeated so far
  \* history
  delivered,     \* blocks handed to a worker since the start
  skipped,       \* key generation blocks whose query failed with an error other than code 14
  registered,    \* the registration was carried to its end since the start
  doubt,         \* the mempool and the client may disagree
  badSequence    \* the chain refused a sequence number that was not in doubt

chainVars  == <<height, registration, committed, pending>>
scanVars   == <<scanner, currentBlock, hasRegistered>>
signVars   == <<queue, signing, answers, resp>>
clientVars == <<seqNumber, currentBlockHeight>>
procVars   == <<relayer, alive, restarts, refused>>
history    == <<delivered, skipped, registered, doubt, badSequence>>
vars == <<chainVars, scanVars, worker, signVars, clientVars, procVars, history>>

Next1 == currentBlock + 1

Doing(w, state) == worker[w].state = state
Job(state, data) == [state |-> state, data |-> data]
Idle == Job("idle", None)
Set(w, state, data) == worker' = [worker EXCEPT ![w] = Job(state, data)]
Finish(w) == worker' = [worker EXCEPT ![w] = Idle]

\* NewSigner: what a process starts with.
Init ==
  /\ scanner = "next" /\ currentBlock = 0 /\ hasRegistered = FALSE
  /\ worker = [w \in Workers |-> Idle]
  /\ queue = {} /\ signing = {}
  /\ answers = [t \in Tasks |-> 0] /\ resp = [t \in Tasks |-> None]
  /\ seqNumber = 0 /\ currentBlockHeight = 0
  /\ delivered = {} /\ skipped = {} /\ registered = FALSE
  /\ height = 0 /\ registration = FALSE /\ committed = 0 /\ pending = 0
  /\ relayer \in BOOLEAN /\ alive = TRUE /\ restarts = 0 /\ refused = 0
  /\ doubt = FALSE /\ badSequence = FALSE

-----------------------------------------------------------------------------
(***************************************************************************)
(* The chain: a new block takes some of the pending transactions.          *)
(***************************************************************************)
NewBlock ==
  /\ height < MaxHeight
  /\ height' = height + 1
  /\ registration' \in {registration, TRUE}
  /\ \E n \in 0..pending : committed' = committed + n /\ pending' = pending - n
  /\ UNCHANGED <<scanVars, worker, signVars, clientVars, procVars, history>>

(***************************************************************************)
(* scanKeygenBlock: the query for the next block.  An answer with code 14  *)
(* is tried again; after any other error, a refused connection included,   *)
(* the scanner goes on.                                                    *)
(***************************************************************************)
Reached == height >= Next1

\* Code 14 is treated like the other errors.
MutGetKeygenBlock ==
  /\ alive /\ scanner = "next" /\ Reached
  /\ \/ Next1 \in KeygenBlocks /\ scanner' = "sendKeygen" /\ UNCHANGED skipped
     \/ scanner' = "register" /\ UNCHANGED skipped
  /\ UNCHANGED <<chainVars, currentBlock, hasRegistered, worker, signVars, clientVars, procVars,
                 delivered, registered, doubt, badSequence>>

GetKeygenBlock ==
  /\ alive /\ scanner = "next" /\ Reached
  /\ \/ Next1 \in KeygenBlocks /\ scanner' = "sendKeygen" /\ UNCHANGED skipped
     \/ Next1 \notin KeygenBlocks /\ scanner' = "register" /\ UNCHANGED skipped
     \/ Next1 \in KeygenBlocks /\ scanner' = "register" /\ skipped' = skipped \union {Next1}
  /\ UNCHANGED <<chainVars, currentBlock, hasRegistered, worker, signVars, clientVars, procVars,
                 delivered, registered, doubt, badSequence>>

\* KeygenCh <- keygenBlock, received by a worker.
SendKeygen(w) ==
  /\ alive /\ scanner = "sendKeygen" /\ Doing(w, "idle")
  /\ scanner' = "register"
  /\ Set(w, "keygen", Next1)
  /\ delivered' = delivered \union {Next1}
  /\ UNCHANGED <<chainVars, currentBlock, hasRegistered, signVars, clientVars, procVars, skipped,
                 registered, doubt, badSequence>>

\* The registration is looked up at every height.
MutFoundRegistration == scanner' = "sendRegister" /\ UNCHANGED <<currentBlock, hasRegistered>>

FoundRegistration == scanner' = "sendRegister" /\ hasRegistered' = TRUE /\ UNCHANGED currentBlock

Advance == scanner' = "next" /\ currentBlock' = Next1

Repeat ==
  /\ refused < MaxRefused
  /\ refused' = refused + 1
  /\ scanner' = "next"
  /\ UNCHANGED <<currentBlock, hasRegistered>>

\* Found; code 14, which asks for the same height again; not found or another error.
GetRegisterKeygen ==
  /\ alive /\ scanner = "register"
  /\ \/ hasRegistered /\ Advance /\ UNCHANGED <<hasRegistered, refused>>
     \/ ~hasRegistered /\ registration /\ FoundRegistration /\ UNCHANGED refused
     \/ ~hasRegistered /\ Repeat
     \/ ~hasRegistered /\ Advance /\ UNCHANGED <<hasRegistered, refused>>
  /\ UNCHANGED <<chainVars, worker, signVars, clientVars, relayer, alive, restarts, history>>

SendRegister(w) ==
  /\ alive /\ scanner = "sendRegister" /\ Doing(w, "idle")
  /\ Advance
  /\ Set(w, "register", None)
  /\ UNCHANGED <<chainVars, hasRegistered, signVars, clientVars, procVars, history>>

-----------------------------------------------------------------------------
(***************************************************************************)
(* A worker with a key generation block: GenerateNewKey, and only the      *)
(* relayer sends the outcome.                                              *)
(***************************************************************************)
GenerateNewKey(w) ==
  /\ alive /\ Doing(w, "keygen")
  /\ IF relayer THEN Set(w, "send", worker[w].data) ELSE Finish(w)
  /\ UNCHANGED <<chainVars, scanVars, signVars, clientVars, procVars, history>>

(***************************************************************************)
(* A worker with the registration: RemoteSign creates a task, waits for    *)
(* its answer, and gives up after KeySignTimeout.                          *)
(***************************************************************************)
Waiting(t) == \E w \in Workers : Doing(w, "await") /\ worker[w].data = t

\* The task is referred to by nobody.
Free(t) == t \notin queue /\ t \notin UNION signing /\ answers[t] = 0 /\ ~Waiting(t)

RemoteSign(w) ==
  /\ alive /\ Doing(w, "register") /\ \E t \in Tasks : Free(t)
  /\ LET t == CHOOSE t \in Tasks : Free(t)
     IN  /\ Set(w, "await", t)
         /\ queue' = queue \union {t}
         /\ resp' = [resp EXCEPT ![t] = None]
  /\ UNCHANGED <<chainVars, scanVars, signing, answers, clientVars, procVars, history>>

\* A registration that could not be signed is dropped.
MutSignFails(w) == Finish(w) /\ UNCHANGED registered

\* registerKeygenCh <- registerKeygen, in the worker itself.
SignFails(w) == Set(w, "putBack", None) /\ UNCHANGED registered

\* A result without R and S, of a node that was not chosen, is treated like a signature.
SignSucceeds(w) ==
  IF relayer
    THEN Set(w, "send", None) /\ UNCHANGED registered
    ELSE Finish(w) /\ registered' = TRUE

RemoteSignAnswered(w, t) ==
  /\ alive /\ Doing(w, "await") /\ worker[w].data = t /\ resp[t] # None
  /\ resp' = [resp EXCEPT ![t] = None]
  /\ IF resp[t] = "signature" THEN SignSucceeds(w) ELSE SignFails(w)
  /\ UNCHANGED <<chainVars, scanVars, queue, signing, answers, clientVars, procVars, delivered,
                 skipped, doubt, badSequence>>

RemoteSignTimeout(w, t) ==
  /\ alive /\ Doing(w, "await") /\ worker[w].data = t
  /\ SignFails(w)
  /\ UNCHANGED <<chainVars, scanVars, signVars, clientVars, procVars, delivered, skipped, doubt,
                 badSequence>>

\* Only another worker receives what a worker puts back.
TakeBack(w, v) ==
  /\ alive /\ Doing(w, "putBack") /\ Doing(v, "idle")
  /\ worker' = [worker EXCEPT ![w] = Idle, ![v] = Job("register", None)]
  /\ UNCHANGED <<chainVars, scanVars, signVars, clientVars, procVars, history>>

-----------------------------------------------------------------------------
(***************************************************************************)
(* processKeySignTasks: after an idle second a request with some of the    *)
(* tasks goes to KeySign, in a goroutine of its own.  All tasks are for    *)
(* the registration and have the same message.  A request that fails is    *)
(* not answered; a successful one is answered once for every task, with    *)
(* the signature of its message or an error if there is none.              *)
(***************************************************************************)
ProcessKeySignTasks ==
  /\ alive /\ queue # {}
  /\ \E b \in SUBSET queue :
       /\ IF Cardinality(queue) <= MaxPerRequest THEN b = queue ELSE Cardinality(b) = MaxPerRequest
       /\ queue' = queue \ b
       /\ signing' = signing \union {b}
  /\ UNCHANGED <<chainVars, scanVars, worker, answers, resp, clientVars, procVars, history>>

\* Every signature with the message of the task is sent to it.
MutAnswersFor(b) == [t \in Tasks |-> IF t \in b THEN Cardinality(b) ELSE answers[t]]

AnswersFor(b) == [t \in Tasks |-> IF t \in b THEN 1 ELSE answers[t]]

ToLocalTSSSigner(b) ==
  /\ alive /\ b \in signing
  /\ signing' = signing \ {b}
  /\ answers' \in {answers, AnswersFor(b)}
  /\ UNCHANGED <<chainVars, scanVars, worker, queue, resp, clientVars, procVars, history>>

SendResp(t) ==
  /\ alive /\ answers[t] > 0 /\ resp[t] = None
  /\ answers' = [answers EXCEPT ![t] = @ - 1]
  /\ \E r \in {"signature", "error"} : resp' = [resp EXCEPT ![t] = r]
  /\ UNCHANGED <<chainVars, scanVars, worker, queue, signing, clientVars, procVars, history>>

-----------------------------------------------------------------------------
(***************************************************************************)
(* broadcast, under broadcastLock.  First the sequence number: the one of  *)
(* the account is asked for once a block, and used if it is larger (a      *)
(* block between the two queries changes nothing but the height at which   *)
(* the next transaction asks again).  Then the transaction, which carries  *)
(* the number read here.                                                   *)
(***************************************************************************)
Locked == \E w \in Workers : Doing(w, "broadcast")

Raise(n) == IF n > seqNumber THEN n ELSE seqNumber

\* The number of the account is used as it is.
MutRefresh ==
  /\ seqNumber' = IF height > currentBlockHeight THEN committed ELSE seqNumber
  /\ currentBlockHeight' = IF height > currentBlockHeight THEN height ELSE currentBlockHeight

Refresh ==
  /\ seqNumber' = IF height > currentBlockHeight THEN Raise(committed) ELSE seqNumber
  /\ currentBlockHeight' = IF height > currentBlockHeight THEN height ELSE currentBlockHeight

PrepareTx(w) ==
  /\ alive /\ Doing(w, "send") /\ ~Locked
  /\ Refresh
  /\ Set(w, "broadcast", [seq |-> seqNumber', block |-> worker[w].data])
  /\ UNCHANGED <<chainVars, scanVars, signVars, procVars, history>>

InSequence(w) == worker[w].data.seq = committed + pending

\* The chain takes the transaction, or refuses it with code 6, which counts as success too.
BroadcastTx(w) ==
  /\ alive /\ Doing(w, "broadcast")
  /\ \/ InSequence(w) /\ pending' = pending + 1 /\ UNCHANGED doubt
     \/ doubt' = TRUE /\ UNCHANGED pending
  /\ seqNumber' = seqNumber + 1
  /\ registered' = (registered \/ worker[w].data.block = None)
  /\ Finish(w)
  /\ UNCHANGED <<height, registration, committed, scanVars, signVars, currentBlockHeight,
                 procVars, delivered, skipped, badSequence>>

(***************************************************************************)
(* A panic ends the process: the scanner's for a block without a request,  *)
(* that of a request inside KeySign, a worker's for a blame, an error or   *)
(* thirty minutes in GenerateNewKey, for an account without an address, or *)
(* for a failed query or transaction.  Code 32 of the chain, for a number  *)
(* out of sequence, makes the client take over the number of the account,  *)
(* but is an error too; so is a lost answer of a node that has taken the   *)
(* transaction.                                                            *)
(***************************************************************************)
Die ==
  /\ alive /\ alive' = FALSE
  /\ scanner' = "next" /\ currentBlock' = 0 /\ hasRegistered' = FALSE
  /\ worker' = [v \in Workers |-> Idle]
  /\ queue' = {} /\ signing' = {}
  /\ answers' = [t \in Tasks |-> 0] /\ resp' = [t \in Tasks |-> None]
  /\ seqNumber' = 0 /\ currentBlockHeight' = 0
  /\ delivered' = {} /\ skipped' = {} /\ registered' = FALSE
  /\ UNCHANGED <<height, registration, committed, relayer, restarts, refused, doubt>>

ScannerPanics == scanner = "next" /\ Reached /\ Die /\ UNCHANGED <<pending, badSequence>>

KeySignPanics == signing # {} /\ Die /\ UNCHANGED <<pending, badSequence>>

Panic(w) ==
  /\ \/ Doing(w, "keygen")
     \/ Doing(w, "await") /\ resp[worker[w].data] = "signature"
     \/ Doing(w, "send") /\ ~Locked
     \/ Doing(w, "broadcast")
  /\ pending' = pending \/ (Doing(w, "broadcast") /\ InSequence(w) /\ pending' = pending + 1)
  /\ badSequence' = (badSequence \/ (Doing(w, "broadcast") /\ ~InSequence(w) /\ ~doubt))
  /\ Die

\* What the process sent may still be in the mempool, which the account does not show.
Restart ==
  /\ ~alive /\ restarts < MaxRestarts
  /\ alive' = TRUE /\ restarts' = restarts + 1
  /\ doubt' = (doubt \/ pending > 0)
  /\ UNCHANGED <<chainVars, scanVars, worker, signVars, clientVars, relayer, refused, delivered,
                 skipped, registered, badSequence>>

-----------------------------------------------------------------------------
WorkerStep(w) ==
  \/ SendKeygen(w) \/ SendRegister(w)
  \/ GenerateNewKey(w) \/ RemoteSign(w) \/ PrepareTx(w) \/ BroadcastTx(w) \/ Panic(w)
  \/ \E t \in Tasks : RemoteSignAnswered(w, t) \/ RemoteSignTimeout(w, t)
  \/ \E v \in Workers : TakeBack(w, v)

ScannerStep == GetKeygenBlock \/ GetRegisterKeygen

KeysignStep ==
  \/ ProcessKeySignTasks
  \/ \E b \in signing : ToLocalTSSSigner(b)
  \/ \E t \in Tasks : SendResp(t)

Next ==
  \/ NewBlock
  \/ ScannerStep \/ ScannerPanics \/ KeySignPanics
  \/ \E w \in Workers : WorkerStep(w)
  \/ KeysignStep
  \/ Restart

Spec == Init /\ [][Next]_vars

(***************************************************************************)
(* The goroutines run: the workers, the loop of Keysign and its requests.  *)
(* KeySign and GenerateNewKey return, the first by its own timeouts and    *)
(* the second after thirty minutes at the latest.  A worker receives by a  *)
(* select, which chooses at random among the senders that are ready, so    *)
(* that neither the scanner nor a worker with something to put back is     *)
(* passed over forever.  Nothing is assumed of the chain.                  *)
(***************************************************************************)
FairSpec ==
  /\ Spec
  /\ WF_vars(\E w \in Workers : WorkerStep(w))
  /\ WF_vars(KeysignStep)
  /\ SF_vars(\E w \in Workers : SendKeygen(w) \/ SendRegister(w))
  /\ SF_vars(\E w, v \in Workers : TakeBack(w, v))

-----------------------------------------------------------------------------
\* Types.
TypeOK ==
  /\ height \in 0..MaxHeight /\ registration \in BOOLEAN /\ committed \in Nat /\ pending \in Nat
  /\ scanner \in {"next", "sendKeygen", "register", "sendRegister"}
  /\ currentBlock \in 0..height /\ hasRegistered \in BOOLEAN
  /\ worker = [w \in Workers |-> Job(worker[w].state, worker[w].data)]
  /\ \A w \in Workers :
       \/ Doing(w, "keygen") /\ worker[w].data \in KeygenBlocks
       \/ Doing(w, "await") /\ worker[w].data \in Tasks
       \/ Doing(w, "send") /\ worker[w].data \in KeygenBlocks \union {None}
       \/ Doing(w, "broadcast") /\ worker[w].data \in [seq : Nat, block : KeygenBlocks \union {None}]
       \/ worker[w].state \in {"idle", "register", "putBack"} /\ worker[w].data = None
  /\ queue \subseteq Tasks /\ signing \subseteq SUBSET Tasks
  /\ answers \in [Tasks -> Nat] /\ resp \in [Tasks -> {None, "signature", "error"}]
  /\ seqNumber \in Nat /\ currentBlockHeight \in 0..height
  /\ relayer \in BOOLEAN /\ alive \in BOOLEAN /\ restarts \in 0..MaxRestarts /\ refused \in 0..MaxRefused
  /\ delivered \subseteq KeygenBlocks /\ skipped \subseteq KeygenBlocks
  /\ {registered, doubt, badSequence} \subseteq BOOLEAN

(***************************************************************************)
(* A key generation block that the scanner has passed was handed to a      *)
(* worker of this process, unless its query failed with an error other     *)
(* than code 14; repeating a height for the registration loses none.       *)
(***************************************************************************)
PassedIsDelivered ==
  \A b \in KeygenBlocks : b <= currentBlock => b \in delivered \union skipped

\* The workers that have the registration, from the queue to the broadcast.
Holding ==
  {w \in Workers : \/ worker[w].state \in {"register", "await", "putBack"}
                   \/ Doing(w, "send") /\ worker[w].data = None
                   \/ Doing(w, "broadcast") /\ worker[w].data.block = None}

(***************************************************************************)
(* Once it was found, the registration is in one place: on its way from    *)
(* the scanner, with one worker, or done.  A failed signing neither loses  *)
(* nor doubles it, even if the answer comes after the timeout.             *)
(***************************************************************************)
RegisterInOnePlace ==
  Cardinality(Holding)
    + (IF scanner = "sendRegister" THEN 1 ELSE 0)
    + (IF registered THEN 1 ELSE 0)
  = IF hasRegistered THEN 1 ELSE 0

(***************************************************************************)
(* A goroutine of toLocalTSSSigner never blocks on the channel of a task:  *)
(* there is room, or somebody reads, even if RemoteSign has given up and   *)
(* the registration is in the request a second time.                       *)
(***************************************************************************)
RespNeverBlocks ==
  alive => \A t \in Tasks : answers[t] > 0 => resp[t] = None \/ Waiting(t)

(***************************************************************************)
(* The chain refuses a sequence number only if the process was restarted   *)
(* while its transactions were in the mempool, or a transaction was        *)
(* refused with code 6.  Two workers that send at the same time, and a     *)
(* block that leaves a transaction in the mempool, do no harm.             *)
(***************************************************************************)
NoBadSequence == ~badSequence

(***************************************************************************)
(* Nobody waits forever at the unbuffered channels: a registration that a  *)
(* worker puts back is taken by the other one, and the scanner gets rid of *)
(* what it found.                                                          *)
(***************************************************************************)
HandOverEnds ==
  /\ []<>(alive => \A w \in Workers : ~Doing(w, "putBack"))
  /\ []<>(alive => scanner \in {"next", "register"})
=============================================================================
