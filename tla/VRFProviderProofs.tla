-------------------------- MODULE VRFProviderProofs --------------------------
(***************************************************************************)
(* The provider against the coordinator, for any number of requests,       *)
(* faults, retries and operators: its types, that it passes over no        *)
(* request, and that it answers none twice.                                *)
(***************************************************************************)
EXTENDS VRFProvider, VRFCallProofs

-----------------------------------------------------------------------------
(* The inductive invariant *)

\* The transactions the chain has or has had.
Known == {mempool[i] : i \in DOMAIN mempool} \cup {r.tx : r \in receipts}

\* The requests of complete transactions, in the order of their events.
Log == Committed.requested

\* Fulfilments do not nest: the provider's is the only one.  Whatever its callback
\* has asked for so far is of the current block.
ChainInv ==
    /\ FollowInv
    /\ Len(frames) <= 1
    /\ \A i \in DOMAIN evm.requested :
         /\ evm.requested[i].rc.blockNum <= blockNumber
         /\ i \notin DOMAIN Log => evm.requested[i].rc.blockNum = blockNumber

\* Transactions are about requests of earlier blocks, and the fulfilment under
\* way is the head of the mempool.
TxInv ==
    /\ \A tx \in Known :
         /\ tx.hash <= sent
         /\ tx.kind # "register" => tx.event \in DOMAIN Log /\ Log[tx.event].rc.blockNum < blockNumber
    /\ frames # <<>> =>
         /\ mempool # <<>> /\ Head(mempool).kind = "fulfill"
         /\ Top.id = Log[Head(mempool).event].id /\ Top.rc = Log[Head(mempool).event].rc

\* A height the process has reached: the chain is there, or it is the first one.
Reached(h) == h <= StartHeight \/ h <= LatestHeight

\* Where the process is while it serves the requests of a height.
Serving == {"store", "storeWait", "fulfill", "fulfillWait"}

\* While relay serves a height, each of its requests was attempted or is still
\* to do; the receipt it waits for is of the current one.
RelayInv ==
    /\ pc \in Serving =>
         /\ height < LatestHeight /\ todo \subseteq EventsAt(height)
         /\ \A i \in EventsAt(height) : Attempted(i) \/ i \in todo
    /\ pc = "fulfillWait" =>
         \A tx \in Known : tx.hash = awaited => tx.kind = "fulfill" /\ Current(tx.event)
    /\ Running => Reached(height)
    /\ cache.state = "saved" => Reached(cache.height)
    /\ NoRequestSkipped

\* The receipt of a fulfilment that went through.
Answer(r) == r.tx.kind = "fulfill" /\ r.status = 1

\* A request that was answered has lost its commitment, at every level; the one
\* being answered had it when the fulfilment started and has it no more.
OnceInv ==
    /\ \A r \in receipts : Answer(r) =>
         \A k \in Levels :
           Level(k).s_requestCommitments[Log[r.tx.event].id] # Log[r.tx.event].rc
    /\ frames # <<>> =>
         /\ Top.pre.s_requestCommitments[Top.id] = Top.rc
         /\ evm.s_requestCommitments[Top.id] # Top.rc
    /\ AnsweredOnce

\* The parts need each other: a step of the chain keeps RelayInv because of TxInv.
ProviderInv == ProviderTypeOK /\ ChainInv /\ TxInv /\ RelayInv /\ OnceInv

-----------------------------------------------------------------------------
(* What a step does to the requests and their commitments *)

\* Nothing.
Calm ==
    /\ UNCHANGED frames /\ evm'.requested = evm.requested
    /\ evm'.s_requestCommitments = evm.s_requestCommitments
    /\ UNCHANGED blockNumber \/ (frames = <<>> /\ blockNumber' = blockNumber + 1)

\* A new request, of this block.
Asks ==
    /\ UNCHANGED <<frames, blockNumber>>
    /\ \E event \in RequestEvent :
         /\ event.rc.blockNum = blockNumber
         /\ evm'.requested = Append(evm.requested, event)
         /\ evm'.s_requestCommitments = [evm.s_requestCommitments EXCEPT ![event.id] = event.rc]

\* A fulfilment starts: its commitment is deleted.
Starts(id, rc) ==
    /\ frames = <<>> /\ frames' = <<[pre |-> evm, id |-> id, rc |-> rc]>>
    /\ evm.s_requestCommitments[id] = rc /\ evm'.requested = evm.requested
    /\ evm'.s_requestCommitments = [evm.s_requestCommitments EXCEPT ![id] = NoCommitment]
    /\ UNCHANGED blockNumber

\* It ends, with what its callback did or, when that failed, without.
Ends ==
    /\ frames # <<>> /\ frames' = <<>> /\ UNCHANGED blockNumber
    /\ \/ /\ evm'.requested = evm.requested
          /\ evm'.s_requestCommitments = evm.s_requestCommitments
       \/ /\ evm'.requested = Top.pre.requested
          /\ evm'.s_requestCommitments = [Top.pre.s_requestCommitments EXCEPT ![Top.id] = NoCommitment]

\* It runs out of gas and everything is undone.
Undoes == frames # <<>> /\ frames' = <<>> /\ UNCHANGED blockNumber /\ evm' = Top.pre

\* A stack of at most one frame.
LEMMA OneFrame ==
    ASSUME TypeOK, Len(frames) <= 1
    PROVE  /\ frames = <<>> => Committed = evm /\ \A k \in Levels : Level(k) = evm
           /\ frames # <<>> => /\ Pop = <<>> /\ Committed = Top.pre /\ Top \in Frame
                               /\ \A k \in Levels : Level(k) \in {Top.pre, evm}
           /\ Level(Len(frames) + 1) = evm /\ Len(frames) + 1 \in Levels /\ 1 \in Levels
           /\ Committed \in Storage
<1>0. frames \in Seq(Frame) /\ Len(frames) \in Nat /\ evm \in Storage
  BY DEF TypeOK
<1>1. CASE frames = <<>>
  <2>1. Len(frames) = 0
    BY <1>1
  <2> QED BY <1>0, <1>1, <2>1 DEF Levels, Level, Committed
<1>2. CASE frames # <<>>
  <2>0. Len(frames) # 0
    BY <1>0, <1>2
  <2>1. Len(frames) = 1
    <3>1. \A n \in Nat : n # 0 /\ n <= 1 => n = 1
      OBVIOUS
    <3> QED BY <1>0, <2>0, <3>1
  <2>2. Pop \in Seq(Frame) /\ Len(Pop) = 0 /\ Top \in Frame /\ Top.pre \in Storage
    BY <1>0, <1>2, <2>1, PopType
  <2>3. Pop = <<>>
    BY <2>2
  <2>4. 1 \in Levels /\ 2 \in Levels /\ Level(1) = Top.pre /\ Level(2) = evm /\ Len(frames) + 1 = 2
    BY <2>1 DEF Levels, Level, Top
  <2>5. \A k \in Levels : k = 1 \/ k = 2
    BY <2>1 DEF Levels
  <2> QED BY <1>2, <2>2, <2>3, <2>4, <2>5 DEF Committed
<1> QED BY <1>1, <1>2

\* storeBlockHash writes the block store only.
LEMMA StoreParts ==
    ASSUME TypeOK, NEW h \in Nat, StoreBlockHash(Account, h, FALSE)
    PROVE  TypeOK' /\ Guarded(evm') = Guarded(evm) /\ UNCHANGED <<frames, blockNumber>>
<1>1. evm' = [evm EXCEPT !.s_blockStore = @ \cup {h}] /\ UNCHANGED <<frames, blockNumber>>
  BY DEF StoreBlockHash
<1> QED BY <1>1 DEF TypeOK, Storage, Guarded

\* The events of the transactions about requests.
LEMMA TxEvent ==
    ASSUME TypeOK, ProviderTypeOK, TxInv, Len(frames) <= 1, mempool # <<>>
    PROVE  /\ Head(mempool) \in Tx /\ Head(mempool) \in Known
           /\ \A i \in DOMAIN Log : Log[i] \in RequestEvent
           /\ frames = <<>> => Log = evm.requested
           /\ Head(mempool).kind # "register" =>
                Head(mempool).event \in DOMAIN Log /\ Log[Head(mempool).event] \in RequestEvent
<1>1. mempool \in Seq(Tx) /\ 1 \in DOMAIN mempool /\ Head(mempool) = mempool[1]
  BY DEF ProviderTypeOK
<1>2. Head(mempool) \in Tx /\ Head(mempool) \in Known
  BY <1>1 DEF Known
<1>3. Log \in Seq(RequestEvent)
  BY OneFrame DEF Log, Storage
<1>4. \A i \in DOMAIN Log : Log[i] \in RequestEvent
  BY <1>3
<1>5. frames = <<>> => Log = evm.requested
  BY OneFrame DEF Log
<1> QED BY <1>2, <1>4, <1>5 DEF TxInv

\* What a step does to the chain and, with it, to the mempool and the receipts.
ChainStep ==
    \/ UNCHANGED vars /\ (ProviderStep \/ FaultStep)
    \/ Calm /\ UNCHANGED <<providerVars, chainVars>>
    \/ /\ Calm /\ frames = <<>> /\ mempool # <<>>
       /\ \E status \in {0, 1} :
            /\ Included(status, FALSE)
            /\ Head(mempool).kind = "fulfill" => status = 0
    \/ Asks /\ UNCHANGED <<providerVars, chainVars>>
    \/ /\ mempool # <<>> /\ Head(mempool).kind = "fulfill"
       /\ Starts(Log[Head(mempool).event].id, Log[Head(mempool).event].rc)
       /\ UNCHANGED <<providerVars, chainVars>>
    \/ Ends /\ Included(1, FALSE)
    \/ Undoes /\ Included(0, TRUE)

\* The end of a fulfilment that is the only one.
LEMMA EndSteps ==
    ASSUME TypeOK, Len(frames) <= 1
    PROVE  /\ \A success \in BOOLEAN : CallbackReturns(success) => Ends
           /\ FulfillReverts => Undoes
<1>1. ASSUME NEW success \in BOOLEAN, CallbackReturns(success)
      PROVE  Ends
  <2> DEFINE e == IF success THEN evm ELSE AtCallback(Top.pre, Top.id)
  <2>1. /\ frames # <<>> /\ frames' = Pop /\ evm' = AfterCallback(e, Top.id, Top.rc)
        /\ UNCHANGED blockNumber
    BY <1>1 DEF CallbackReturns
  <2>2. /\ evm \in Storage /\ Top.pre \in Storage /\ Top.id \in RequestId /\ Top.rc \in RequestCommitment
        /\ frames' = <<>>
    BY <2>1, OneFrame, PopType DEF TypeOK
  <2>3. /\ AtCallback(Top.pre, Top.id).requested = Top.pre.requested
        /\ AtCallback(Top.pre, Top.id).s_requestCommitments
             = [Top.pre.s_requestCommitments EXCEPT ![Top.id] = NoCommitment]
        /\ AtCallback(Top.pre, Top.id) \in Storage
    BY <2>2, CallbackParts, AtCallbackType DEF KeptParts
  <2>4. e \in Storage
    BY <2>2, <2>3
  <2>5. /\ e = evm \/ e = AtCallback(Top.pre, Top.id)
    OBVIOUS
  <2> HIDE DEF e
  <2>6. evm'.requested = e.requested /\ evm'.s_requestCommitments = e.s_requestCommitments
    BY <2>1, <2>2, <2>4, CallbackParts DEF KeptParts
  <2> QED BY <2>1, <2>2, <2>3, <2>5, <2>6 DEF Ends
<1>2. FulfillReverts => Undoes
  BY OneFrame DEF FulfillReverts, Undoes
<1> QED BY <1>1, <1>2

\* Every step is one of these.
LEMMA ChainSteps ==
    ASSUME TypeOK, ProviderTypeOK, TxInv, Len(frames) <= 1, ProviderNext
    PROVE  ChainStep
<1>1. ASSUME NEW sender \in Address, Administer(sender) \/ Subscribe(sender)
      PROVE  Calm
  <2>1. UNCHANGED blockNumber
    BY <1>1 DEF Administer, Subscribe, RegisterProvingKey, DeregisterProvingKey, StoreBlockHash,
                SetConfig, TransferOwnership, CreateSubscription, AddConsumer, RemoveConsumer,
                CancelSubscription
  <2> QED BY <1>1, <2>1, ManagementKeepsLedger DEF Calm
<1>2. ASSUME NEW sender \in Address, Request(sender)
      PROVE  Asks
  BY <1>2, RequestParts DEF Asks
<1>3. NextBlock \/ UNCHANGED vars => Calm
  BY DEF NextBlock, Calm, vars
<1>4. ASSUME ProviderStep \/ FaultStep
      PROVE  UNCHANGED vars
  BY <1>4 DEF ProviderStep, FaultStep, Start, Registered, LoadCache, BeginRelay, Send,
       ReceiptFound, ReceiptMissing, GiveUp, TruncateCache, WriteCache, SendFails,
       CacheWriteFails, Crash, MempoolLost
<1>5. CASE ExecuteTx
  <2> DEFINE tx == Head(mempool)
  <2>1. mempool # <<>> /\ frames = <<>> /\ tx \in Tx
    BY <1>5, TxEvent DEF ExecuteTx
  <2>2. CASE tx.kind = "register" /\ RegisterProvingKey(Account, AdminKey) /\ Included(1, FALSE)
    <3>1. Account \in Address /\ Administer(Account)
      BY <2>2, ProviderAssumption DEF Administer
    <3> QED BY <1>1, <2>1, <2>2, <3>1 DEF ChainStep
  <2>3. CASE /\ tx.kind = "store" /\ StoreBlockHash(Account, Event(tx).rc.blockNum, FALSE)
             /\ Included(1, FALSE)
    <3>1. Event(tx) = Log[tx.event] /\ Event(tx) \in RequestEvent
      BY <2>1, <2>3, TxEvent DEF Event
    <3>2. Event(tx).rc.blockNum \in Nat
      BY <3>1 DEF RequestEvent, RequestCommitment
    <3>3. Calm
      BY <2>3, <3>2, StoreParts DEF Calm, Guarded
    <3> QED BY <2>1, <2>3, <3>3 DEF ChainStep
  <2>4. CASE /\ tx.kind = "fulfill" /\ FulfillRandomWords(Account, Event(tx).id, Event(tx).rc)
             /\ UNCHANGED <<providerVars, chainVars>>
    <3>1. Event(tx) = Log[tx.event] /\ Event(tx) \in RequestEvent
      BY <2>1, <2>4, TxEvent DEF Event
    <3>2. Event(tx).id \in RequestId /\ Event(tx).rc \in RequestCommitment /\ evm \in Storage
      BY <3>1 DEF RequestEvent, TypeOK
    <3>3. /\ evm' = AtCallback(evm, Event(tx).id) /\ UNCHANGED blockNumber
          /\ frames' = Append(frames, [pre |-> evm, id |-> Event(tx).id, rc |-> Event(tx).rc])
          /\ evm.s_requestCommitments[Event(tx).id] = Event(tx).rc
      BY <2>4 DEF FulfillRandomWords, getRandomnessFromProof
    <3>4. frames' = <<[pre |-> evm, id |-> Event(tx).id, rc |-> Event(tx).rc]>>
      BY <2>1, <3>3
    <3>5. /\ evm'.requested = evm.requested
          /\ evm'.s_requestCommitments
               = [evm.s_requestCommitments EXCEPT ![Event(tx).id] = NoCommitment]
      BY <3>2, <3>3, CallbackParts DEF KeptParts
    <3>6. Starts(Event(tx).id, Event(tx).rc)
      BY <2>1, <3>3, <3>4, <3>5 DEF Starts
    <3> QED BY <2>1, <2>4, <3>1, <3>6 DEF ChainStep
  <2>5. CASE Included(0, FALSE) /\ UNCHANGED vars
    BY <1>3, <2>1, <2>5 DEF ChainStep
  <2> QED BY <1>5, <2>2, <2>3, <2>4, <2>5 DEF ExecuteTx
<1>6. CASE EndFulfill
  BY <1>6, EndSteps DEF EndFulfill, ChainStep
<1>7. CASE Environment
  BY <1>1, <1>2, <1>3, <1>7, ProviderAssumption DEF Environment, ChainStep
<1> QED BY <1>4, <1>5, <1>6, <1>7 DEF ProviderNext, ChainStep

\* For the coordinator it is a step of its own, or storeBlockHash for a height
\* that only the provider knows.
LEMMA CoordinatorSteps ==
    ASSUME TypeOK, ProviderTypeOK, TxInv, Len(frames) <= 1, ProviderNext
    PROVE  \/ [Next]_vars
           \/ frames = <<>> /\ \E h \in Nat : StoreBlockHash(Account, h, FALSE)
<1>1. ASSUME ProviderStep \/ FaultStep
      PROVE  UNCHANGED vars
  BY <1>1 DEF ProviderStep, FaultStep, Start, Registered, LoadCache, BeginRelay, Send,
       ReceiptFound, ReceiptMissing, GiveUp, TruncateCache, WriteCache, SendFails,
       CacheWriteFails, Crash, MempoolLost
<1>2. CASE ExecuteTx
  <2> DEFINE tx == Head(mempool)
  <2>0. frames = <<>> /\ Account \in Address /\ AdminKey \in KeyHash
    BY <1>2, ProviderAssumption DEF ExecuteTx
  <2>1. CASE RegisterProvingKey(Account, AdminKey)
    BY <2>0, <2>1 DEF Next, Administer
  <2>2. CASE mempool # <<>> /\ tx.kind \in {"store", "fulfill"}
    <3>1. /\ tx.event \in DOMAIN evm.requested /\ Event(tx) \in RequestEvent
          /\ Event(tx) = evm.requested[tx.event]
      BY <2>0, <2>2, TxEvent DEF Event
    <3>2. Event(tx).rc.blockNum \in Nat
      BY <3>1 DEF RequestEvent, RequestCommitment
    <3>3. FulfillRandomWords(Account, Event(tx).id, Event(tx).rc) => Next
      BY <2>0, <3>1 DEF Next, Fulfill
    <3> QED BY <1>2, <2>0, <2>2, <3>2, <3>3 DEF ExecuteTx
  <2> QED BY <1>2, <2>1, <2>2 DEF ExecuteTx
<1>3. CASE EndFulfill \/ Environment
  BY <1>3, ProviderAssumption DEF EndFulfill, Environment, Next
<1> QED BY <1>1, <1>2, <1>3 DEF ProviderNext

\* So the committed storage only grows, and every level follows it.
LEMMA ProviderFollows ==
    ASSUME FollowInv, ProviderTypeOK, TxInv, Len(frames) <= 1, ProviderNext
    PROVE  FollowInv' /\ Follows(Committed, Committed')
<1>0. TypeOK
  BY DEF FollowInv
<1>1. CASE [Next]_vars
  BY <1>1, FollowNext
<1>2. ASSUME frames = <<>>, NEW h \in Nat, StoreBlockHash(Account, h, FALSE)
      PROVE  FollowInv' /\ Follows(Committed, Committed')
  <2>1. TypeOK' /\ Guarded(evm') = Guarded(evm) /\ frames' = <<>>
    BY <1>0, <1>2, StoreParts
  <2>2. Committed = evm /\ Committed' = evm' /\ \A k \in Levels' : Level(k)' = evm'
    BY <1>2, <2>1 DEF Committed, Levels, Level
  <2>3. Follows(evm, evm) /\ Follows(evm', evm')
    BY <1>0, <2>1, FollowsReflexive DEF TypeOK
  <2>4. Follows(evm, evm')
    BY <2>1, <2>3 DEF Guarded, Follows
  <2> QED BY <2>1, <2>2, <2>3, <2>4 DEF FollowInv
<1> QED BY <1>0, <1>1, <1>2, CoordinatorSteps

\* The log keeps its entries, and the new ones are of this block.
Grows ==
    /\ \A i \in DOMAIN Log : i \in DOMAIN Log' /\ Log'[i] = Log[i]
    /\ \A i \in DOMAIN Log' : i \notin DOMAIN Log => Log'[i].rc.blockNum = blockNumber
    /\ blockNumber \in Nat /\ blockNumber' \in Nat /\ blockNumber <= blockNumber'

\* ChainInv, and what it says about the log.
LEMMA ChainNext ==
    ASSUME ChainInv, ProviderTypeOK, TxInv, ProviderNext
    PROVE  ChainInv' /\ Grows /\ Follows(Committed, Committed')
<1>0. /\ FollowInv /\ TypeOK /\ Len(frames) <= 1 /\ FollowInv' /\ TypeOK'
      /\ Follows(Committed, Committed') /\ Follows(Committed, evm) /\ Follows(Committed', evm')
      /\ blockNumber \in Nat /\ blockNumber' \in Nat
  <2>1. FollowInv /\ TypeOK /\ Len(frames) <= 1
    BY DEF ChainInv, FollowInv
  <2>2. FollowInv' /\ Follows(Committed, Committed') /\ TypeOK'
    BY <2>1, ProviderFollows DEF FollowInv
  <2>3. Follows(Committed, evm)
    BY <2>1, StackLevels DEF FollowInv
  <2>4. Len(frames') + 1 \in Levels' /\ Level(Len(frames) + 1)' = evm'
    <3>1. Len(frames') \in Nat
      BY <2>2 DEF TypeOK
    <3> QED BY <3>1 DEF Levels, Level
  <2>5. Follows(Committed', evm')
    BY <2>2, <2>4 DEF FollowInv
  <2> QED BY <2>1, <2>2, <2>3, <2>5 DEF TypeOK
<1>1. /\ evm.requested \in Seq(RequestEvent) /\ evm'.requested \in Seq(RequestEvent)
      /\ Committed \in Storage /\ Log \in Seq(RequestEvent)
  BY <1>0, OneFrame DEF TypeOK, Storage, Log
<1>2. ChainStep
  BY <1>0, ChainSteps
<1>3. \A i \in DOMAIN Log : /\ i \in DOMAIN evm.requested /\ evm.requested[i] = Log[i]
                            /\ Log[i].rc.blockNum <= blockNumber
  <2> TAKE i \in DOMAIN Log
  <2>1. evm.requested[i] = Log[i] /\ Len(Log) <= Len(evm.requested)
    BY <1>0 DEF Follows, Log
  <2>2. i \in DOMAIN evm.requested
    BY <1>1, <2>1
  <2> QED BY <2>1, <2>2 DEF ChainInv
<1>4. \A i \in DOMAIN evm'.requested :
        (i \in DOMAIN Log /\ evm'.requested[i] = Log[i]) \/ evm'.requested[i].rc.blockNum = blockNumber
  <2>1. CASE evm'.requested = evm.requested
    BY <1>3, <2>1 DEF ChainInv
  <2>2. CASE frames # <<>> /\ evm'.requested = Top.pre.requested
    BY <1>0, <2>2, OneFrame DEF Log
  <2>3. CASE Asks
    <3>1. PICK event \in RequestEvent : /\ event.rc.blockNum = blockNumber
                                        /\ evm'.requested = Append(evm.requested, event)
      BY <2>3 DEF Asks
    <3>2. \A i \in DOMAIN evm'.requested :
            (i \in DOMAIN evm.requested /\ evm'.requested[i] = evm.requested[i])
            \/ evm'.requested[i] = event
      BY <1>1, <3>1
    <3> QED BY <1>3, <3>1, <3>2 DEF ChainInv
  <2> QED BY <1>2, <2>1, <2>2, <2>3 DEF ChainStep, Calm, Starts, Ends, Undoes, vars
<1>5. /\ Len(frames') <= 1
      /\ blockNumber' = blockNumber \/ (frames' = <<>> /\ blockNumber' = blockNumber + 1)
  <2>1. Len(<<>>) <= 1 /\ \A x : Len(<<x>>) <= 1
    OBVIOUS
  <2> QED BY <1>0, <1>2, <2>1 DEF ChainStep, Calm, Asks, Starts, Ends, Undoes, vars
<1>6. blockNumber <= blockNumber'
  BY <1>0, <1>5
<1>7. frames' = <<>> => Log' = evm'.requested
  BY DEF Log, Committed, Level
<1>8. Log' = Log \/ Log' = evm'.requested
  <2>1. CASE frames' = <<>>
    BY <1>7, <2>1
  <2>2. CASE frames # <<>> /\ UNCHANGED frames
    <3>1. Len(frames) \in Nat /\ Len(frames) # 0
      BY <1>0, <2>2 DEF TypeOK
    <3> QED BY <2>2, <3>1 DEF Log, Committed, Level
  <2>3. ASSUME NEW id, NEW rc, Starts(id, rc) PROVE Log' = evm'.requested
    <3>1. Len(frames') = 1 /\ frames'[1] = [pre |-> evm, id |-> id, rc |-> rc]
      BY <2>3 DEF Starts
    <3>2. Committed' = evm
      BY <3>1 DEF Committed, Level
    <3> QED BY <2>3, <3>2 DEF Starts, Log
  <2> QED BY <1>2, <2>1, <2>2, <2>3 DEF ChainStep, Calm, Asks, Ends, Undoes, vars
<1>9. \A i \in DOMAIN Log : i \in DOMAIN Log' /\ Log'[i] = Log[i]
  <2> TAKE i \in DOMAIN Log
  <2>1. Log'[i] = Log[i] /\ Len(Log) <= Len(Log')
    BY <1>0 DEF Follows, Log
  <2>2. Log' \in Seq(RequestEvent)
    BY <1>1, <1>8
  <2> QED BY <1>1, <2>1, <2>2
<1>10. Grows
  BY <1>0, <1>4, <1>6, <1>8, <1>9 DEF Grows
<1>11. \A i \in DOMAIN evm'.requested :
         /\ evm'.requested[i].rc.blockNum <= blockNumber'
         /\ i \notin DOMAIN Log' => evm'.requested[i].rc.blockNum = blockNumber'
  <2> TAKE i \in DOMAIN evm'.requested
  <2> DEFINE b == evm'.requested[i].rc.blockNum
  <2>1. b \in Nat
    <3>1. evm'.requested[i] \in RequestEvent
      BY <1>1
    <3> QED BY <3>1 DEF RequestEvent, RequestCommitment
  <2>2. b <= blockNumber
    <3>1. CASE i \in DOMAIN Log /\ evm'.requested[i] = Log[i]
      BY <1>3, <3>1
    <3>2. CASE b = blockNumber
      <4> HIDE DEF b
      <4> QED BY <1>0, <3>2
    <3> QED BY <1>4, <3>1, <3>2
  <2>3. i \notin DOMAIN Log' => b = blockNumber /\ blockNumber' = blockNumber
    BY <1>4, <1>5, <1>7, <1>9
  <2> HIDE DEF b
  <2>4. b <= blockNumber'
    BY <1>0, <1>6, <2>1, <2>2
  <2> QED BY <2>3, <2>4 DEF b
<1> QED BY <1>0, <1>5, <1>10, <1>11 DEF ChainInv

-----------------------------------------------------------------------------
(* The types, and the transactions *)

\* Sending a transaction.
LEMMA SendParts ==
    ASSUME ProviderTypeOK, NEW kind \in {"register", "store", "fulfill"}, NEW event \in Nat,
           SendTx(kind, event)
    PROVE  LET tx == [hash |-> sent + 1, kind |-> kind, event |-> event]
           IN  /\ tx \in Tx /\ mempool' \in Seq(Tx) /\ Known' = Known \cup {tx}
               /\ sent' = sent + 1 /\ sent' \in Nat /\ awaited' \in 0 .. sent' /\ awaited' = tx.hash
               /\ tries' = 0 /\ UNCHANGED <<receipts, faults>>
               /\ mempool # <<>> => mempool' # <<>> /\ Head(mempool') = Head(mempool)
<1> DEFINE tx == [hash |-> sent + 1, kind |-> kind, event |-> event]
<1>1. /\ mempool \in Seq(Tx) /\ sent \in Nat /\ mempool' = Append(mempool, tx)
      /\ sent' = sent + 1 /\ awaited' = sent + 1 /\ tries' = 0 /\ UNCHANGED <<receipts, faults>>
  BY DEF ProviderTypeOK, SendTx
<1>2. tx \in Tx /\ tx.hash = sent + 1 /\ sent + 1 \in Nat /\ sent + 1 \in 0 .. sent + 1
  BY <1>1 DEF Tx
<1> HIDE DEF tx
<1>3. mempool' \in Seq(Tx) /\ Len(mempool') = Len(mempool) + 1 /\ DOMAIN mempool' = 1 .. Len(mempool) + 1
      /\ mempool'[Len(mempool) + 1] = tx /\ \A i \in 1 .. Len(mempool) : mempool'[i] = mempool[i]
      /\ Len(mempool) \in Nat /\ DOMAIN mempool = 1 .. Len(mempool)
  BY <1>1, <1>2
<1>4. {mempool'[i] : i \in DOMAIN mempool'} = {mempool[i] : i \in DOMAIN mempool} \cup {tx}
  <2>1. \A i \in 1 .. Len(mempool) + 1 : i \in 1 .. Len(mempool) \/ i = Len(mempool) + 1
    BY <1>3
  <2>2. \A i \in 1 .. Len(mempool) : i \in 1 .. Len(mempool) + 1
    BY <1>3
  <2>3. Len(mempool) + 1 \in 1 .. Len(mempool) + 1
    BY <1>3
  <2>4. \A x \in {mempool'[i] : i \in DOMAIN mempool'} : x \in {mempool[i] : i \in DOMAIN mempool} \cup {tx}
    BY <1>3, <2>1
  <2>5. \A x \in {mempool[i] : i \in DOMAIN mempool} \cup {tx} : x \in {mempool'[i] : i \in DOMAIN mempool'}
    BY <1>3, <2>2, <2>3
  <2> QED BY <2>4, <2>5
<1>5. Known' = Known \cup {tx}
  <2>1. receipts' = receipts
    BY <1>1
  <2> QED BY <1>4, <2>1 DEF Known
<1>6. mempool # <<>> => mempool' # <<>> /\ Head(mempool') = Head(mempool)
  BY <1>1, <1>2
<1> QED BY <1>1, <1>2, <1>3, <1>5, <1>6 DEF tx

\* Including one.
LEMMA IncludedParts ==
    ASSUME ProviderTypeOK, TypeOK, mempool # <<>>, NEW status \in {0, 1}, NEW outOfGas \in BOOLEAN,
           Included(status, outOfGas)
    PROVE  LET r == [tx |-> Head(mempool), status |-> status, block |-> blockNumber,
                     outOfGas |-> outOfGas]
           IN  /\ r \in Receipt /\ receipts' = receipts \cup {r} /\ mempool' \in Seq(Tx)
               /\ Known' \subseteq Known /\ UNCHANGED <<providerVars, sent, faults>>
<1> DEFINE r == [tx |-> Head(mempool), status |-> status, block |-> blockNumber,
                 outOfGas |-> outOfGas]
<1>1. /\ mempool \in Seq(Tx) /\ mempool' = Tail(mempool) /\ receipts' = receipts \cup {r}
      /\ blockNumber \in Nat /\ UNCHANGED <<providerVars, sent, faults>>
  BY DEF ProviderTypeOK, TypeOK, Included
<1>2. Head(mempool) \in Tx /\ 1 \in DOMAIN mempool /\ Head(mempool) = mempool[1]
  BY <1>1
<1>3. mempool' \in Seq(Tx) /\ \A i \in DOMAIN mempool' : i + 1 \in DOMAIN mempool /\ mempool'[i] = mempool[i + 1]
  BY <1>1
<1>4. r \in Receipt /\ r.tx = mempool[1]
  BY <1>1, <1>2 DEF Receipt
<1> HIDE DEF r
<1>5. \A tx \in Known' : tx \in Known
  BY <1>1, <1>2, <1>3, <1>4 DEF Known
<1> QED BY <1>1, <1>3, <1>4, <1>5 DEF r

\* Positions in the log.
LEMMA EventPositions ==
    ASSUME TypeOK, Len(frames) <= 1
    PROVE  Log \in Seq(RequestEvent) /\ \A h : EventsAt(h) \subseteq Nat \ {0} /\ EventsAt(h) \subseteq DOMAIN Log
<1>1. Log \in Seq(RequestEvent)
  BY OneFrame DEF Log, Storage
<1>2. DOMAIN Log \subseteq Nat \ {0}
  BY <1>1
<1> QED BY <1>1, <1>2 DEF EventsAt, Log

\* Sending, for the request that is the current one.
LEMMA SendStep ==
    ASSUME ProviderTypeOK, Send
    PROVE  \E i \in todo, kind \in {"store", "fulfill"} :
             /\ Current(i) /\ i \in Nat /\ SendTx(kind, i)
             /\ \/ kind = "store" /\ pc = "store" /\ pc' = "storeWait"
                \/ kind = "fulfill" /\ pc = "fulfill" /\ pc' = "fulfillWait"
BY DEF Send, ProviderTypeOK

\* A step of the process keeps the types.
LEMMA ProcessTypes ==
    ASSUME ChainInv, ProviderTypeOK, ProviderStep \/ FaultStep
    PROVE  ProviderTypeOK'
<1>0. TypeOK /\ Len(frames) <= 1 /\ MaxFaults \in Nat /\ RetryTimes \in Nat \ {0} /\ StartHeight \in Nat
  BY ProviderAssumption DEF ChainInv, FollowInv
<1> USE DEF ProviderTypeOK, chainVars, PC
<1>1. ASSUME Fault PROVE faults' \in 0 .. MaxFaults
  BY <1>0, <1>1 DEF Fault
<1>2. 0 \in 0 .. RetryTimes - 1 /\ 0 \in 0 .. sent
  BY <1>0
<1>3. CASE Start
  <2>1. CASE SendTx("register", 0)
    BY <1>2, <1>3, <2>1, SendParts DEF Start
  <2>2. CASE UNCHANGED <<chainVars, awaited, tries>>
    BY <1>3, <2>2 DEF Start
  <2> QED BY <1>3, <2>1, <2>2 DEF Start
<1>4. CASE Send
  <2>1. PICK i \in todo, kind \in {"store", "fulfill"} :
          /\ i \in Nat /\ SendTx(kind, i) /\ pc' \in {"storeWait", "fulfillWait"}
    BY <1>4, SendStep
  <2> QED BY <1>2, <1>4, <2>1, SendParts DEF Send
<1>5. CASE BeginRelay
  BY <1>0, <1>5, EventPositions DEF BeginRelay, Advance
<1>6. CASE ReceiptFound
  <2>1. ASSUME NEW i \in todo, Advance(todo \ {i})
        PROVE  pc' \in PC /\ height' \in Nat /\ todo' \subseteq Nat \ {0}
    BY <2>1 DEF Advance
  <2>2. pc' \in PC /\ height' \in Nat /\ todo' \subseteq Nat \ {0}
    BY <1>6, <2>1 DEF ReceiptFound
  <2> QED BY <1>6, <2>2 DEF ReceiptFound
<1>7. CASE ReceiptMissing
  BY <1>0, <1>7 DEF ReceiptMissing, PollsLeft
<1>8. CASE GiveUp
  BY <1>1, <1>8 DEF GiveUp
<1>9. CASE Registered \/ LoadCache
  BY <1>0, <1>9 DEF Registered, LoadCache, CacheFile
<1>10. CASE TruncateCache \/ WriteCache
  <2>1. [state |-> "empty", height |-> 0] \in CacheFile /\ [state |-> "saved", height |-> height] \in CacheFile
    BY DEF CacheFile
  <2> QED BY <1>10, <2>1 DEF TruncateCache, WriteCache, SavedHeight
<1>11. CASE SendFails \/ CacheWriteFails
  BY <1>1, <1>11 DEF SendFails, CacheWriteFails
<1>12. CASE Crash
  BY <1>1, <1>2, <1>12 DEF Crash
<1>13. CASE MempoolLost
  BY <1>1, <1>13 DEF MempoolLost, providerVars
<1> QED BY <1>3, <1>4, <1>5, <1>6, <1>7, <1>8, <1>9, <1>10, <1>11, <1>12, <1>13
        DEF ProviderStep, FaultStep

\* So does every step.
LEMMA ProviderTypesNext ==
    ASSUME ChainInv, ProviderTypeOK, TxInv, ProviderNext
    PROVE  ProviderTypeOK'
<1>0. TypeOK /\ Len(frames) <= 1
  BY DEF ChainInv, FollowInv
<1>1. ASSUME UNCHANGED <<providerVars, chainVars>> PROVE ProviderTypeOK'
  BY <1>1 DEF ProviderTypeOK, providerVars, chainVars
<1>2. ASSUME NEW status \in {0, 1}, NEW gas \in BOOLEAN, Included(status, gas), mempool # <<>>
      PROVE  ProviderTypeOK'
  BY <1>0, <1>2, IncludedParts DEF ProviderTypeOK, providerVars
<1>3. frames # <<>> => mempool # <<>>
  BY DEF TxInv
<1>4. CASE UNCHANGED vars /\ (ProviderStep \/ FaultStep)
  BY <1>4, ProcessTypes
<1> QED BY <1>0, <1>1, <1>2, <1>3, <1>4, ChainSteps DEF ChainStep, Ends, Undoes

\* What happens to the known transactions: they are forgotten or kept, and the
\* process adds one about a request of the height it serves.
LEMMA KnownStep ==
    ASSUME ChainInv, ProviderTypeOK, TxInv, RelayInv, ProviderNext
    PROVE  /\ sent \in Nat /\ sent' \in Nat /\ sent <= sent'
           /\ \A tx \in Known' :
                \/ tx \in Known
                \/ /\ tx.hash = sent + 1 /\ sent' = sent + 1 /\ awaited' = tx.hash
                   /\ \/ tx.kind = "register" /\ pc' = "registering"
                      \/ tx.kind = "store" /\ pc' = "storeWait" /\ tx.event \in EventsAt(height) /\ height < LatestHeight
                      \/ /\ tx.kind = "fulfill" /\ pc' = "fulfillWait" /\ Current(tx.event)
                         /\ tx.event \in EventsAt(height) /\ height < LatestHeight
           /\ receipts \subseteq receipts'
<1>0. TypeOK /\ Len(frames) <= 1 /\ sent \in Nat /\ sent <= sent
  BY DEF ChainInv, FollowInv, ProviderTypeOK
<1> DEFINE Same == sent' = sent /\ Known' \subseteq Known /\ receipts \subseteq receipts'
<1>1. ASSUME UNCHANGED <<mempool, receipts, sent>> PROVE Same
  BY <1>1 DEF Known
<1>2. ASSUME NEW status \in {0, 1}, NEW gas \in BOOLEAN, Included(status, gas), mempool # <<>>
      PROVE  Same
  BY <1>0, <1>2, IncludedParts
<1>3. MempoolLost => Same
  <2>1. ASSUME MempoolLost PROVE mempool' = <<>> /\ UNCHANGED <<receipts, sent>>
    BY <2>1 DEF MempoolLost
  <2> QED BY <2>1 DEF Known
<1>4. ASSUME SendTx("register", 0), pc' = "registering"
      PROVE  /\ sent' = sent + 1 /\ receipts' = receipts
             /\ \A tx \in Known' : tx \in Known \/ (/\ tx.hash = sent + 1 /\ awaited' = tx.hash
                                                    /\ tx.kind = "register")
  <2> DEFINE tx == [hash |-> sent + 1, kind |-> "register", event |-> 0]
  <2>1. Known' = Known \cup {tx} /\ sent' = sent + 1 /\ receipts' = receipts /\ awaited' = tx.hash
    BY <1>4, SendParts
  <2>2. tx.hash = sent + 1 /\ tx.kind = "register"
    OBVIOUS
  <2> HIDE DEF tx
  <2> QED BY <2>1, <2>2
<1>5. ASSUME Send
      PROVE  /\ sent' = sent + 1 /\ receipts' = receipts
             /\ \A tx \in Known' :
                  \/ tx \in Known
                  \/ /\ tx.hash = sent + 1 /\ awaited' = tx.hash /\ Current(tx.event)
                     /\ tx.event \in EventsAt(height) /\ height < LatestHeight
                     /\ \/ tx.kind = "store" /\ pc' = "storeWait"
                        \/ tx.kind = "fulfill" /\ pc' = "fulfillWait"
  <2>1. PICK i \in todo, kind \in {"store", "fulfill"} :
          /\ Current(i) /\ i \in Nat /\ SendTx(kind, i)
          /\ \/ kind = "store" /\ pc = "store" /\ pc' = "storeWait"
             \/ kind = "fulfill" /\ pc = "fulfill" /\ pc' = "fulfillWait"
    BY <1>5, SendStep
  <2>2. todo \subseteq EventsAt(height) /\ height < LatestHeight
    BY <2>1 DEF RelayInv, Serving
  <2> DEFINE tx == [hash |-> sent + 1, kind |-> kind, event |-> i]
  <2>3. Known' = Known \cup {tx} /\ sent' = sent + 1 /\ receipts' = receipts /\ awaited' = tx.hash
    BY <2>1, SendParts
  <2>4. tx.hash = sent + 1 /\ tx.kind = kind /\ tx.event = i
    OBVIOUS
  <2> HIDE DEF tx
  <2> QED BY <2>1, <2>2, <2>3, <2>4
<1>6. ASSUME ProviderStep \/ FaultStep
      PROVE  Same \/ (SendTx("register", 0) /\ pc' = "registering") \/ Send
  <2>1. CASE Start
    BY <1>1, <2>1 DEF Start, chainVars
  <2>2. CASE Registered \/ LoadCache \/ BeginRelay \/ ReceiptFound \/ ReceiptMissing \/ GiveUp
    BY <1>1, <2>2 DEF Registered, LoadCache, BeginRelay, ReceiptFound, ReceiptMissing, GiveUp, chainVars
  <2>3. CASE TruncateCache \/ WriteCache \/ SendFails \/ CacheWriteFails \/ Crash
    BY <1>1, <2>3 DEF TruncateCache, WriteCache, SendFails, CacheWriteFails, Crash, chainVars
  <2> QED BY <1>3, <1>6, <2>1, <2>2, <2>3 DEF ProviderStep, FaultStep
<1>7. ASSUME UNCHANGED <<providerVars, chainVars>> PROVE Same
  BY <1>1, <1>7 DEF chainVars
<1>8. frames # <<>> => mempool # <<>>
  BY DEF TxInv
<1>9. Same \/ (SendTx("register", 0) /\ pc' = "registering") \/ Send
  BY <1>0, <1>2, <1>6, <1>7, <1>8, ChainSteps DEF ChainStep, Ends, Undoes
<1>10. sent <= sent + 1 /\ sent + 1 \in Nat
  BY <1>0
<1> QED BY <1>0, <1>4, <1>5, <1>9, <1>10

\* The transactions stay about requests of earlier blocks.
LEMMA TxNext ==
    ASSUME ChainInv, ProviderTypeOK, TxInv, RelayInv, ProviderNext
    PROVE  TxInv'
<1>0. TypeOK /\ Len(frames) <= 1 /\ Grows /\ ProviderTypeOK'
  BY ChainNext, ProviderTypesNext DEF ChainInv, FollowInv
<1>1. \A tx \in Known : tx \in Tx
  BY DEF Known, ProviderTypeOK, Receipt
<1>2. \A i \in DOMAIN Log : Log[i].rc.blockNum \in Nat
  <2> TAKE i \in DOMAIN Log
  <2>1. Log[i] \in RequestEvent
    BY <1>0, EventPositions
  <2> QED BY <2>1 DEF RequestEvent, RequestCommitment
<1>3. ASSUME NEW i \in DOMAIN Log, Log[i].rc.blockNum < blockNumber
      PROVE  i \in DOMAIN Log' /\ Log'[i].rc.blockNum < blockNumber'
  <2>1. Log'[i] = Log[i] /\ i \in DOMAIN Log' /\ blockNumber \in Nat /\ blockNumber' \in Nat
        /\ blockNumber <= blockNumber'
    BY <1>0 DEF Grows
  <2>2. Log[i].rc.blockNum < blockNumber'
    BY <1>2, <1>3, <2>1
  <2> QED BY <2>1, <2>2
<1>4. ASSUME NEW tx \in Known'
      PROVE  /\ tx.hash <= sent'
             /\ tx.kind # "register" => tx.event \in DOMAIN Log' /\ Log'[tx.event].rc.blockNum < blockNumber'
  <2>1. CASE tx \in Known
    <3>1. tx.hash \in Nat /\ tx.hash <= sent
      BY <1>1, <2>1 DEF TxInv, Tx
    <3>2. tx.hash <= sent'
      BY <3>1, KnownStep
    <3> QED BY <1>3, <2>1, <3>2 DEF TxInv
  <2>2. CASE tx \notin Known
    <3>1. tx.hash = sent + 1 /\ sent' = sent + 1 /\ sent' \in Nat
      BY <2>2, KnownStep
    <3>2. tx.kind # "register" => tx.event \in EventsAt(height) /\ height < LatestHeight
      BY <2>2, KnownStep
    <3>3. \A i \in EventsAt(height) : i \in DOMAIN Log /\ Log[i].rc.blockNum = height
      BY DEF EventsAt, Log
    <3>4. blockNumber \in Nat /\ height \in Nat /\ (height < LatestHeight => height < blockNumber)
      BY <1>0 DEF TypeOK, ProviderTypeOK, LatestHeight
    <3>5. tx.hash <= sent'
      BY <3>1
    <3> QED BY <1>3, <3>2, <3>3, <3>4, <3>5
  <2> QED BY <2>1, <2>2
<1>5. ASSUME frames' # <<>>
      PROVE  /\ mempool' # <<>> /\ Head(mempool').kind = "fulfill"
             /\ Top'.id = Log'[Head(mempool').event].id /\ Top'.rc = Log'[Head(mempool').event].rc
  <2> DEFINE tx == Head(mempool)
  <2>1. ASSUME mempool # <<>>, tx.kind = "fulfill" PROVE Log'[tx.event] = Log[tx.event]
    BY <1>0, <2>1, TxEvent DEF Grows
  <2>2. ASSUME UNCHANGED frames, mempool' # <<>>, Head(mempool') = Head(mempool)
        PROVE  /\ Head(mempool').kind = "fulfill"
               /\ Top'.id = Log'[Head(mempool').event].id /\ Top'.rc = Log'[Head(mempool').event].rc
    BY <1>5, <2>1, <2>2 DEF TxInv, Top
  <2>3. frames # <<>> => mempool # <<>>
    BY DEF TxInv
  <2>4. CASE UNCHANGED vars /\ (ProviderStep \/ FaultStep)
    <3>1. UNCHANGED frames /\ mempool # <<>>
      BY <1>5, <2>3, <2>4 DEF vars
    <3>2. \/ UNCHANGED mempool
          \/ \E kind \in {"register", "store", "fulfill"}, event \in Nat : SendTx(kind, event)
      BY <1>5, <2>4, SendStep DEF ProviderStep, FaultStep, Start, Registered, LoadCache, BeginRelay,
           ReceiptFound, ReceiptMissing, GiveUp, TruncateCache, WriteCache, SendFails,
           CacheWriteFails, Crash, MempoolLost, chainVars, vars
    <3>3. mempool' # <<>> /\ Head(mempool') = Head(mempool)
      BY <3>1, <3>2, SendParts
    <3> QED BY <2>2, <3>1, <3>3
  <2>5. CASE (Calm \/ Asks) /\ UNCHANGED <<providerVars, chainVars>>
    <3>1. UNCHANGED frames /\ mempool' = mempool
      BY <2>5 DEF Calm, Asks, chainVars
    <3> QED BY <1>5, <2>2, <2>3, <3>1
  <2>6. CASE /\ mempool # <<>> /\ tx.kind = "fulfill"
             /\ Starts(Log[tx.event].id, Log[tx.event].rc)
             /\ UNCHANGED <<providerVars, chainVars>>
    <3>1. mempool' = mempool
      BY <2>6 DEF chainVars
    <3>2. Top' = [pre |-> evm, id |-> Log[tx.event].id, rc |-> Log[tx.event].rc]
      BY <2>6 DEF Starts, Top
    <3> QED BY <2>1, <2>6, <3>1, <3>2
  <2> QED BY <1>0, <1>5, <2>4, <2>5, <2>6, ChainSteps DEF ChainStep, Calm, Ends, Undoes
<1> QED BY <1>4, <1>5 DEF TxInv

-----------------------------------------------------------------------------
(* No request is passed over *)

\* A step of the chain: the process, wherever it is, has nothing new behind it,
\* since new requests are of the current block.
LEMMA RelayChain ==
    ASSUME ChainInv, ProviderTypeOK, RelayInv, Grows, UNCHANGED providerVars,
           receipts \subseteq receipts', Known' \subseteq Known
    PROVE  RelayInv'
<1>0. /\ TypeOK /\ Len(frames) <= 1 /\ height \in Nat /\ cache \in CacheFile /\ StartHeight \in Nat
      /\ pc' = pc /\ height' = height /\ todo' = todo /\ awaited' = awaited /\ cache' = cache
      /\ blockNumber \in Nat /\ blockNumber' \in Nat /\ blockNumber <= blockNumber'
      /\ Running' = Running
  BY ProviderAssumption DEF ChainInv, FollowInv, ProviderTypeOK, providerVars, Grows, Running
<1>1. \A i : Attempted(i) => Attempted(i)'
  BY DEF Attempted
<1>2. \A h \in Nat : Reached(h) => Reached(h)'
  <2>1. \A h, b, c \in Nat : h <= b - 1 /\ b <= c => h <= c - 1
    OBVIOUS
  <2> QED BY <1>0, <2>1 DEF Reached, LatestHeight
<1>3. \A h \in Nat : h < LatestHeight => h < LatestHeight' /\ EventsAt(h)' = EventsAt(h)
  <2> TAKE h \in Nat
  <2> HAVE h < LatestHeight
  <2>1. h < LatestHeight' /\ h # blockNumber
    <3>1. \A b, c \in Nat : h < b - 1 /\ b <= c => h < c - 1 /\ h # b
      OBVIOUS
    <3> QED BY <1>0, <3>1 DEF LatestHeight
  <2>2. \A i : i \in {k \in DOMAIN Log' : Log'[k].rc.blockNum = h}
               <=> i \in {k \in DOMAIN Log : Log[k].rc.blockNum = h}
    BY <2>1 DEF Grows
  <2> QED BY <2>1, <2>2 DEF EventsAt, Log
<1>4. pc \in Serving =>
        /\ height < LatestHeight' /\ todo \subseteq EventsAt(height)'
        /\ \A i \in EventsAt(height)' : Attempted(i)' \/ i \in todo
  BY <1>0, <1>1, <1>3 DEF RelayInv
<1>5. pc = "fulfillWait" =>
        \A tx \in Known' : tx.hash = awaited => tx.kind = "fulfill" /\ Current(tx.event)'
  BY <1>0 DEF RelayInv, Current
<1>6. (Running => Reached(height)') /\ (cache.state = "saved" => Reached(cache.height)')
  BY <1>0, <1>2 DEF RelayInv, CacheFile
<1>7. NoRequestSkipped'
  <2>2. ~Passed(blockNumber)
    <3>1. \A h \in Nat : Reached(h) /\ StartHeight <= blockNumber => ~(blockNumber < h)
      BY <1>0 DEF Reached, LatestHeight
    <3>2. cache.height \in Nat
      BY <1>0 DEF CacheFile
    <3> QED BY <1>0, <3>1, <3>2 DEF Passed, RelayInv
  <2>3. \A i \in DOMAIN Log' : Passed(Log'[i].rc.blockNum) => Attempted(i)'
    <3> TAKE i \in DOMAIN Log'
    <3> HAVE Passed(Log'[i].rc.blockNum)
    <3>1. i \in DOMAIN Log /\ Log'[i] = Log[i]
      BY <2>2 DEF Grows
    <3> QED BY <1>1, <3>1 DEF RelayInv, NoRequestSkipped, Log
  <2> QED BY <1>0, <2>3 DEF NoRequestSkipped, Passed, Log
<1> QED BY <1>0, <1>4, <1>5, <1>6, <1>7 DEF RelayInv, EventsAt

\* A step of the process: it leaves a height behind only when every request of
\* it was attempted.
LEMMA RelayProcess ==
    ASSUME ChainInv, ProviderTypeOK, TxInv, RelayInv, UNCHANGED vars, ProviderStep \/ FaultStep
    PROVE  RelayInv'
<1>0. /\ TypeOK /\ Len(frames) <= 1 /\ height \in Nat /\ cache \in CacheFile /\ StartHeight \in Nat
      /\ blockNumber \in Nat /\ todo \subseteq Nat \ {0} /\ pc \in PC /\ cache.height \in Nat
  BY ProviderAssumption DEF ChainInv, FollowInv, ProviderTypeOK, TypeOK, CacheFile
<1>1. /\ Log' = Log /\ LatestHeight' = LatestHeight /\ LatestHeight \in Int
      /\ blockNumber' = blockNumber
  BY <1>0 DEF Log, Committed, Level, LatestHeight, vars
<1>2. \A h : {i \in DOMAIN Log : Log[i].rc.blockNum = h} = EventsAt(h)
  BY DEF EventsAt, Log
<1>3. CASE MempoolLost
  <2>1. Known' \subseteq Known /\ receipts' = receipts /\ UNCHANGED providerVars
    <3>1. mempool' = <<>> /\ receipts' = receipts /\ UNCHANGED providerVars
      BY <1>3 DEF MempoolLost
    <3> QED BY <3>1 DEF Known
  <2>2. Grows
    BY <1>0, <1>1 DEF Grows
  <2> QED BY <2>1, <2>2, RelayChain
<1>4. ASSUME ~MempoolLost PROVE receipts' = receipts /\ \A i : Attempted(i)' = Attempted(i)
  <2>1. receipts' = receipts
    BY <1>4 DEF ProviderStep, FaultStep, Start, Registered, LoadCache, BeginRelay, Send, SendTx,
       ReceiptFound, ReceiptMissing, GiveUp, TruncateCache, WriteCache, SendFails,
       CacheWriteFails, Crash, chainVars
  <2> QED BY <2>1 DEF Attempted
\* What is left to show of each action.
<1> DEFINE Behind(h) == \A i \in EventsAt(h) : Attempted(i)
           Serves == pc' \in Serving =>
                       /\ height' < LatestHeight /\ todo' \subseteq EventsAt(height')
                       /\ \A i \in EventsAt(height') : Attempted(i) \/ i \in todo'
           Waits == pc' = "fulfillWait" =>
                      \A tx \in Known' : tx.hash = awaited' =>
                        tx.kind = "fulfill" /\ tx.event \in todo' /\ \A j \in todo' : tx.event <= j
           Stands == Running' =>
                       /\ height' \in Nat /\ Reached(height')
                       /\ \A h \in Nat : StartHeight <= h /\ h < height' => Behind(h)
           Saves == \/ cache' = cache \/ cache'.state = "empty"
                    \/ Running /\ cache'.height = height
           Goal == Serves /\ Waits /\ Stands /\ Saves
<1>5. \A h : Passed(h) => Behind(h)
  BY <1>2 DEF RelayInv, NoRequestSkipped, EventsAt, Log
<1>6. /\ Running => \A h \in Nat : StartHeight <= h /\ h < height => Behind(h)
      /\ cache.state = "saved" => \A h \in Nat : StartHeight <= h /\ h < cache.height => Behind(h)
  BY <1>5 DEF Passed
<1>7. ASSUME ~MempoolLost, Goal PROVE RelayInv'
  <2>1. \A h : Reached(h)' <=> Reached(h)
    BY <1>1 DEF Reached
  <2>2. \A i \in DOMAIN Log : Passed(Log[i].rc.blockNum)' => Attempted(i)
    <3> TAKE i \in DOMAIN Log
    <3> DEFINE b == Log[i].rc.blockNum
    <3>1. b \in Nat /\ i \in EventsAt(b)
      <4>1. Log[i] \in RequestEvent
        BY <1>0, EventPositions
      <4> QED BY <1>2, <4>1 DEF RequestEvent, RequestCommitment
    <3>2. ASSUME Passed(Log[i].rc.blockNum)'
          PROVE  /\ StartHeight <= b
                 /\ (Running' /\ b < height') \/ (cache'.state = "saved" /\ b < cache'.height)
      BY <1>1, <3>2 DEF Passed
    <3> HIDE DEF b
    <3>3. ASSUME Passed(Log[i].rc.blockNum)' PROVE Behind(b)
      <4>1. CASE Running' /\ b < height'
        BY <1>7, <3>1, <3>2, <3>3, <4>1
      <4>2. CASE cache'.state = "saved" /\ b < cache'.height
        BY <1>6, <1>7, <3>1, <3>2, <3>3, <4>2
      <4> QED BY <3>2, <3>3, <4>1, <4>2
    <3> QED BY <3>1, <3>3
  <2>3. NoRequestSkipped'
    <3>1. \A i \in DOMAIN Log' : Passed(Log[i].rc.blockNum)' => Attempted(i)'
      BY <1>1, <1>4, <1>7, <2>2
    <3> QED BY <3>1 DEF NoRequestSkipped, Log
  <2>4. cache'.state = "saved" => Reached(cache'.height)
    BY <1>7 DEF RelayInv
  <2>5. (Running => Reached(height))' /\ (cache.state = "saved" => Reached(cache.height))'
    BY <1>1, <1>7, <2>4 DEF Reached
  <2>6. (pc = "fulfillWait" =>
           \A tx \in Known : tx.hash = awaited => tx.kind = "fulfill" /\ Current(tx.event))'
    BY <1>7 DEF Current
  <2>7. EventsAt(height)' = EventsAt(height')
    BY <1>1 DEF EventsAt, Log
  <2>8. (pc \in Serving =>
           /\ height < LatestHeight /\ todo \subseteq EventsAt(height)
           /\ \A i \in EventsAt(height) : Attempted(i) \/ i \in todo)'
    BY <1>1, <1>4, <1>7, <2>7
  <2> QED BY <2>3, <2>5, <2>6, <2>8 DEF RelayInv
<1> SUFFICES ASSUME ~MempoolLost PROVE Goal
  BY <1>3, <1>7
<1> HIDE DEF Serves, Waits, Stands, Saves
\* An action that stays at its height, or stops, and serves nothing.
<1>8. ASSUME pc' \notin Serving, Running' => Running /\ height' = height, Saves
      PROVE  Goal
  <2>1. Serves /\ Waits
    BY <1>8 DEF Serves, Waits, Serving
  <2>2. Running => Reached(height)
    BY DEF RelayInv
  <2> HIDE DEF Behind
  <2>3. Stands
    BY <1>0, <1>6, <1>8, <2>2 DEF Stands
  <2> QED BY <1>8, <2>1, <2>3
\* An action that stays at its height and goes on serving it.
<1>9. ASSUME pc \in Serving, UNCHANGED <<height, todo, cache>>, Waits
       PROVE  Goal
  <2>1. Running
    BY <1>9 DEF Serving, Running
  <2>2. Serves
    BY <1>9 DEF Serves, RelayInv
  <2>3. Reached(height)
    BY <2>1 DEF RelayInv
  <2> HIDE DEF Behind
  <2>4. Stands /\ Saves
    BY <1>0, <1>6, <1>9, <2>1, <2>3 DEF Stands, Saves
  <2> QED BY <1>9, <2>2, <2>4
<1>10. CASE Start \/ Registered \/ Crash
  <2>1. pc' \in {"load", "registering", "down"} /\ cache' = cache
    BY <1>10 DEF Start, Registered, Crash
  <2>2. ~Running' /\ pc' \notin Serving /\ Saves
    BY <2>1 DEF Running, Serving, Saves
  <2> QED BY <1>8, <2>2
<1>11. CASE LoadCache
  <2>1. /\ cache' = cache /\ pc' \in {"down", "idle"}
        /\ pc' = "idle" => \/ height' = StartHeight
                           \/ cache.state = "saved" /\ height' = cache.height
    BY <1>0, <1>11 DEF LoadCache, CacheFile
  <2>2. Running' => height' \in Nat /\ Reached(height')
    BY <1>0, <2>1 DEF Running, Reached, RelayInv
  <2>3. Running' => \A h \in Nat : StartHeight <= h /\ h < height' => Behind(h)
    BY <1>0, <1>6, <2>1 DEF Running
  <2>4. Serves /\ Waits /\ Saves
    BY <2>1 DEF Serves, Waits, Saves, Serving
  <2> HIDE DEF Behind
  <2> QED BY <2>2, <2>3, <2>4 DEF Stands
\* The end of a height.
<1>12. ASSUME NEW rest, Advance(rest), pc \in Serving \cup {"idle"}, height < LatestHeight,
              rest \subseteq EventsAt(height), \A i \in EventsAt(height) : Attempted(i) \/ i \in rest,
              cache' = cache
       PROVE  Goal
  <2>1. Running /\ Running' /\ pc' # "fulfillWait"
    BY <1>12 DEF Running, Serving, Advance
  <2>2. CASE rest = {}
    <3>1. pc' = "truncate" /\ height' = height + 1 /\ Behind(height)
      BY <1>12, <2>2 DEF Advance
    <3>2. height' \in Nat /\ Reached(height')
      BY <1>0, <1>12, <3>1 DEF Reached, LatestHeight
    <3>3. \A h \in Nat : h < height' => h < height \/ h = height
      BY <1>0, <3>1
    <3>4. \A h \in Nat : StartHeight <= h /\ h < height' => Behind(h)
      BY <1>6, <2>1, <3>1, <3>3
    <3>5. Serves /\ Waits /\ Saves
      BY <1>12, <3>1 DEF Serves, Waits, Saves, Serving
    <3> HIDE DEF Behind
    <3> QED BY <3>2, <3>4, <3>5 DEF Stands
  <2>3. CASE rest # {}
    <3>1. height' = height /\ todo' = rest
      BY <1>12, <2>3 DEF Advance
    <3>2. Reached(height)
      BY <2>1 DEF RelayInv
    <3>3. Waits
      BY <2>1 DEF Waits
    <3>4. Serves /\ Saves
      BY <1>12, <3>1 DEF Serves, Saves
    <3> HIDE DEF Behind
    <3> QED BY <1>0, <1>6, <2>1, <3>1, <3>2, <3>3, <3>4 DEF Stands
  <2> QED BY <2>2, <2>3
<1>13. CASE BeginRelay
  BY <1>12, <1>13 DEF BeginRelay
<1>14. ASSUME Send PROVE Goal
  <2>1. /\ UNCHANGED <<height, todo, cache>> /\ pc \in Serving /\ Running
        /\ pc' \in {"storeWait", "fulfillWait"}
    BY <1>14 DEF Send, Serving, Running
  <2>2. ASSUME pc' = "fulfillWait", NEW tx \in Known', tx.hash = awaited'
        PROVE  tx.kind = "fulfill" /\ Current(tx.event)
    <3>1. ProviderNext
      BY DEF ProviderNext
    <3>2. PICK i \in todo, kind \in {"store", "fulfill"} : i \in Nat /\ SendTx(kind, i)
      BY <1>14, SendStep
    <3>3. awaited' = sent + 1 /\ sent \in Nat
      BY <3>2 DEF SendTx, ProviderTypeOK
    <3>4. tx \notin Known
      <4>1. tx \in Known => tx.hash <= sent
        BY DEF TxInv
      <4> QED BY <2>2, <3>3, <4>1
    <3> QED BY <2>2, <3>1, <3>4, KnownStep
  <2>3. Waits
    BY <2>1, <2>2 DEF Waits, Current
  <2> QED BY <1>9, <2>1, <2>3
<1>15. CASE ReceiptFound
  <2>1. CASE pc = "storeWait" /\ pc' = "fulfill" /\ UNCHANGED <<height, todo>>
    <3>1. Running /\ cache' = cache /\ pc \in Serving
      BY <1>15, <2>1 DEF Running, ReceiptFound, Serving
    <3>2. Waits
      BY <2>1 DEF Waits
    <3> QED BY <1>9, <2>1, <3>1, <3>2
  <2>2. ASSUME pc = "fulfillWait", NEW i \in todo, Current(i), Advance(todo \ {i})
        PROVE  Goal
    <3>1. PICK r \in receipts : r.tx.hash = awaited
      BY <1>15 DEF ReceiptFound, Settled, HasReceipt
    <3>2. r.tx \in Known
      BY DEF Known
    <3>3. r.tx.kind = "fulfill" /\ Current(r.tx.event)
      BY <2>2, <3>1, <3>2 DEF RelayInv
    <3>4. r.tx.event = i
      <4>1. r.tx.event \in Nat /\ i \in Nat /\ r.tx.event <= i /\ i <= r.tx.event
        BY <1>0, <2>2, <3>3 DEF Current
      <4> QED BY <4>1
    <3>5. Attempted(i)
      BY <3>3, <3>4 DEF Attempted
    <3>6. /\ height < LatestHeight /\ todo \subseteq EventsAt(height)
          /\ \A k \in EventsAt(height) : Attempted(k) \/ k \in todo
      BY <2>2 DEF RelayInv, Serving
    <3>7. /\ todo \ {i} \subseteq EventsAt(height)
          /\ \A k \in EventsAt(height) : Attempted(k) \/ k \in todo \ {i}
      BY <3>5, <3>6
    <3>8. cache' = cache /\ pc \in Serving \cup {"idle"}
      BY <1>15, <2>2 DEF ReceiptFound, Serving
    <3> QED BY <1>12, <2>2, <3>6, <3>7, <3>8
  <2> QED BY <1>15, <2>1, <2>2 DEF ReceiptFound
<1>16. CASE ReceiptMissing
  <2>1. UNCHANGED <<pc, height, todo, awaited, cache, mempool, receipts>> /\ pc \in Serving /\ Running
    BY <1>16 DEF ReceiptMissing, chainVars, Running, Serving
  <2>2. Known' = Known
    BY <2>1 DEF Known
  <2>3. Waits
    BY <2>1, <2>2 DEF Waits, RelayInv, Current
  <2> QED BY <1>9, <2>1, <2>3
<1>17. CASE GiveUp \/ SendFails \/ CacheWriteFails
  <2>1. Running /\ pc' = "idle" /\ height' = height /\ cache' = cache
    BY <1>17 DEF GiveUp, SendFails, CacheWriteFails, Running
  <2> QED BY <1>8, <2>1 DEF Saves, Serving
<1>18. CASE TruncateCache \/ WriteCache
  <2>1. /\ Running /\ pc' \in {"write", "idle"} /\ height' = height
        /\ cache'.state = "empty" \/ cache'.height = height
    BY <1>18 DEF TruncateCache, WriteCache, SavedHeight, Running
  <2> QED BY <1>8, <2>1 DEF Saves, Serving
<1> HIDE DEF Goal
<1> QED BY <1>10, <1>11, <1>13, <1>14, <1>15, <1>16, <1>17, <1>18 DEF ProviderStep, FaultStep

-----------------------------------------------------------------------------
(* No request is answered twice *)

\* The commitment of the i-th request is gone, or is that of a later one.
Closed(e, i) == e.s_requestCommitments[Log[i].id] # Log[i].rc

\* A commitment, once gone, does not come back: a new request for the same id is of
\* a later block, and what is undone is what was done since.
LEMMA ClosedStays ==
    ASSUME ChainInv, ProviderTypeOK, TxInv, ProviderNext, NEW i \in DOMAIN Log,
           Log[i].rc.blockNum < blockNumber, Closed(evm, i), frames # <<>> => Closed(Top.pre, i)
    PROVE  Closed(evm', i)
<1>0. /\ TypeOK /\ Len(frames) <= 1 /\ blockNumber \in Nat /\ Log[i] \in RequestEvent
      /\ evm.s_requestCommitments \in [RequestId -> RequestCommitment \cup {NoCommitment}]
  BY EventPositions DEF ChainInv, FollowInv, TypeOK, Storage
<1>1. Log[i].id \in RequestId /\ Log[i].rc \in RequestCommitment /\ Log[i].rc.blockNum # blockNumber
      /\ Log[i].rc # NoCommitment
  <2>1. Log[i].id \in RequestId /\ Log[i].rc \in RequestCommitment
    BY <1>0 DEF RequestEvent
  <2>2. Log[i].rc.blockNum \in Nat
    BY <2>1 DEF RequestCommitment
  <2> QED BY <1>0, <2>1, <2>2, CommitmentAssumption
<1>2. ASSUME NEW c \in [RequestId -> RequestCommitment \cup {NoCommitment}], NEW id,
             evm'.s_requestCommitments = [c EXCEPT ![id] = NoCommitment], c[Log[i].id] # Log[i].rc
      PROVE  Closed(evm', i)
  BY <1>1, <1>2 DEF Closed
<1>3. CASE evm'.s_requestCommitments = evm.s_requestCommitments
  BY <1>3 DEF Closed
<1>4. CASE Asks
  <2>1. PICK event \in RequestEvent :
          /\ event.rc.blockNum = blockNumber
          /\ evm'.s_requestCommitments = [evm.s_requestCommitments EXCEPT ![event.id] = event.rc]
    BY <1>4 DEF Asks
  <2>2. event.rc # Log[i].rc
    BY <1>1, <2>1
  <2> QED BY <1>0, <1>1, <2>1, <2>2 DEF Closed
<1>5. ASSUME NEW id, NEW rc, Starts(id, rc) PROVE Closed(evm', i)
  BY <1>0, <1>2, <1>5 DEF Starts, Closed
<1>6. CASE Ends
  <2>1. frames # <<>> /\ Top \in Frame
    BY <1>0, <1>6, OneFrame DEF Ends
  <2>2. Top.pre.s_requestCommitments \in [RequestId -> RequestCommitment \cup {NoCommitment}]
    BY <2>1 DEF Frame, Storage
  <2> QED BY <1>2, <1>3, <1>6, <2>1, <2>2 DEF Ends, Closed
<1>7. CASE Undoes
  BY <1>7 DEF Undoes, Closed
<1> QED BY <1>0, <1>3, <1>4, <1>5, <1>6, <1>7, ChainSteps DEF ChainStep, Calm, vars

\* Every step keeps OnceInv.
LEMMA OnceNext ==
    ASSUME ChainInv, ProviderTypeOK, TxInv, RelayInv, OnceInv, ProviderNext
    PROVE  OnceInv'
<1>0. /\ TypeOK /\ Len(frames) <= 1 /\ TypeOK' /\ Len(frames') <= 1 /\ Grows /\ ChainStep
      /\ ProviderTypeOK'
  <2>1. TypeOK /\ Len(frames) <= 1
    BY DEF ChainInv, FollowInv
  <2> QED BY <2>1, ChainNext, ChainSteps, ProviderTypesNext DEF ChainInv, FollowInv
<1>1. \A r \in receipts : Answer(r) =>
        /\ r.tx.event \in DOMAIN Log /\ Log[r.tx.event].rc.blockNum < blockNumber
        /\ Log'[r.tx.event] = Log[r.tx.event]
        /\ Closed(Committed, r.tx.event) /\ Closed(evm, r.tx.event)
        /\ frames # <<>> => Closed(Top.pre, r.tx.event)
  <2> TAKE r \in receipts
  <2> HAVE Answer(r)
  <2>1. r.tx \in Known /\ r.tx.kind # "register"
    BY DEF Known, Answer
  <2>2. r.tx.event \in DOMAIN Log /\ Log[r.tx.event].rc.blockNum < blockNumber
    BY <2>1 DEF TxInv
  <2>3. \A k \in Levels : Closed(Level(k), r.tx.event)
    BY DEF OnceInv, Closed
  <2>4. Closed(Committed, r.tx.event) /\ Closed(evm, r.tx.event)
    BY <1>0, <2>3, OneFrame DEF Committed
  <2> QED BY <1>0, <2>2, <2>4, OneFrame DEF Grows
<1>2. \A r \in receipts : Answer(r) => Closed(evm', r.tx.event)
  BY <1>1, ClosedStays
\* The frame.
<1>3. ASSUME frames' # <<>>
      PROVE  /\ Top'.pre.s_requestCommitments[Top'.id] = Top'.rc
             /\ evm'.s_requestCommitments[Top'.id] # Top'.rc
             /\ \/ frames # <<>> /\ Top' = Top
                \/ frames = <<>> /\ Top'.pre = evm
  <2>1. CASE UNCHANGED frames
    <3> DEFINE i == Head(mempool).event
    <3>1. /\ frames # <<>> /\ Top' = Top /\ mempool # <<>> /\ Head(mempool).kind = "fulfill"
          /\ Top.id = Log[i].id /\ Top.rc = Log[i].rc
      BY <1>3, <2>1 DEF TxInv, Top
    <3>2. i \in DOMAIN Log /\ Log[i].rc.blockNum < blockNumber
      BY <1>0, <3>1, TxEvent DEF TxInv
    <3> HIDE DEF i
    <3>3. /\ Top.pre.s_requestCommitments[Top.id] = Top.rc
          /\ evm.s_requestCommitments[Top.id] # Top.rc
      BY <3>1 DEF OnceInv
    <3>4. evm'.s_requestCommitments[Top.id] # Top.rc
      <4>1. CASE evm'.s_requestCommitments = evm.s_requestCommitments
        BY <3>3, <4>1
      <4>2. CASE Asks
        <5>1. PICK event \in RequestEvent :
                /\ event.rc.blockNum = blockNumber
                /\ evm'.s_requestCommitments = [evm.s_requestCommitments EXCEPT ![event.id] = event.rc]
          BY <4>2 DEF Asks
        <5>2. /\ evm.s_requestCommitments \in [RequestId -> RequestCommitment \cup {NoCommitment}]
              /\ Log[i] \in RequestEvent /\ blockNumber \in Nat
          BY <1>0, <3>2, EventPositions DEF TypeOK, Storage
        <5>3. Log[i].rc.blockNum \in Nat /\ Top.id \in RequestId
          BY <3>1, <5>2 DEF RequestEvent, RequestCommitment
        <5>4. event.rc # Top.rc
          BY <3>1, <3>2, <5>1, <5>2, <5>3
        <5> QED BY <3>3, <5>1, <5>2, <5>3, <5>4
      <4> QED BY <1>0, <1>3, <3>1, <4>1, <4>2 DEF ChainStep, Calm, Starts, Ends, Undoes, vars
    <3> QED BY <3>1, <3>3, <3>4
  <2>2. ASSUME NEW id \in RequestId, NEW rc \in RequestCommitment, Starts(id, rc)
        PROVE  /\ Top'.pre.s_requestCommitments[Top'.id] = Top'.rc
               /\ evm'.s_requestCommitments[Top'.id] # Top'.rc
               /\ frames = <<>> /\ Top'.pre = evm
    <3>1. Top' = [pre |-> evm, id |-> id, rc |-> rc]
      BY <2>2 DEF Starts, Top
    <3>2. evm.s_requestCommitments \in [RequestId -> RequestCommitment \cup {NoCommitment}]
      BY <1>0 DEF TypeOK, Storage
    <3>3. Top'.pre = evm /\ Top'.id = id /\ Top'.rc = rc
      BY <3>1
    <3>4. evm'.s_requestCommitments[id] = NoCommitment /\ NoCommitment # rc
      BY <2>2, <3>2, CommitmentAssumption DEF Starts
    <3> QED BY <2>2, <3>3, <3>4 DEF Starts
  <2>3. ASSUME mempool # <<>>, Head(mempool).kind = "fulfill"
        PROVE  /\ Log[Head(mempool).event].id \in RequestId
               /\ Log[Head(mempool).event].rc \in RequestCommitment
    BY <1>0, <2>3, TxEvent DEF RequestEvent
  <2> QED BY <1>0, <1>3, <2>1, <2>2, <2>3 DEF ChainStep, Calm, Asks, Ends, Undoes, vars
\* What was answered before.
<1>4. ASSUME NEW r \in receipts, Answer(r), NEW k \in Levels'
      PROVE  Level(k)'.s_requestCommitments[Log'[r.tx.event].id] # Log'[r.tx.event].rc
  <2>1. frames' = <<>> => Level(k)' = evm'
    BY DEF Levels, Level
  <2>2. frames' # <<>> => Level(k)' \in {Top'.pre, evm'}
    <3>1. ASSUME frames' # <<>> PROVE Len(frames') = 1
      <4>1. Len(frames') \in Nat /\ Len(frames') # 0
        BY <1>0, <3>1 DEF TypeOK
      <4>2. \A n \in Nat : n # 0 /\ n <= 1 => n = 1
        OBVIOUS
      <4> QED BY <1>0, <4>1, <4>2
    <3>2. ASSUME frames' # <<>> PROVE Level(k)' \in {Top'.pre, evm'}
      <4>1. Len(frames') = 1
        BY <3>1, <3>2
      <4>2. k \in 1 .. 1 + 1
        BY <4>1 DEF Levels
      <4>3. k = 1 \/ k = 2
        BY <4>2
      <4>4. Level(k)' = IF k = 1 + 1 THEN evm' ELSE frames'[k].pre
        BY <4>1 DEF Level
      <4>5. Top' = frames'[1]
        BY <4>1 DEF Top
      <4> QED BY <4>3, <4>4, <4>5
    <3> QED BY <3>2
  <2>3. Closed(evm', r.tx.event) /\ (frames' # <<>> => Closed(Top'.pre, r.tx.event))
    BY <1>1, <1>2, <1>3, <1>4
  <2>4. Log'[r.tx.event] = Log[r.tx.event]
    BY <1>1, <1>4
  <2> QED BY <2>1, <2>2, <2>3, <2>4 DEF Closed
\* The receipts.
<1>5. CASE Ends /\ Included(1, FALSE)
  <2> DEFINE r0 == [tx |-> Head(mempool), status |-> 1, block |-> blockNumber, outOfGas |-> FALSE]
             i == Head(mempool).event
  <2>1. /\ frames # <<>> /\ frames' = <<>> /\ mempool # <<>> /\ Head(mempool).kind = "fulfill"
        /\ Top.id = Log[i].id /\ Top.rc = Log[i].rc
    BY <1>5 DEF Ends, TxInv
  <2>2. receipts' = receipts \cup {r0} /\ r0.tx = Head(mempool)
    BY <1>0, <1>5, <2>1, IncludedParts
  <2>3. i \in DOMAIN Log /\ Log'[i] = Log[i]
    BY <1>0, <2>1, TxEvent DEF Grows
  <2>4. /\ Top.pre.s_requestCommitments[Log[i].id] = Log[i].rc
        /\ evm.s_requestCommitments[Log[i].id] # Log[i].rc
    BY <2>1 DEF OnceInv
  <2>5. evm'.s_requestCommitments[Log[i].id] # Log[i].rc
    <3>1. Top \in Frame /\ Log[i] \in RequestEvent
      BY <1>0, <2>1, <2>3, OneFrame, EventPositions
    <3>2. /\ Top.pre.s_requestCommitments \in [RequestId -> RequestCommitment \cup {NoCommitment}]
          /\ Log[i].id \in RequestId /\ Log[i].rc \in RequestCommitment
      BY <3>1 DEF Frame, Storage, RequestEvent
    <3>3. [Top.pre.s_requestCommitments EXCEPT ![Top.id] = NoCommitment][Log[i].id] # Log[i].rc
      BY <2>1, <3>2, CommitmentAssumption
    <3> QED BY <1>5, <2>4, <3>3 DEF Ends
  <2>6. \A r \in receipts : Answer(r) => r.tx.event # i
    BY <1>1, <2>1, <2>4 DEF Closed
  <2>7. \A k \in Levels' : Level(k)' = evm'
    BY <2>1 DEF Levels, Level
  <2> HIDE DEF i
  <2>8. r0.tx.event = i
    BY <2>2 DEF i
  <2> HIDE DEF r0
  <2>9. ASSUME NEW r \in receipts', Answer(r), NEW k \in Levels'
        PROVE  Level(k)'.s_requestCommitments[Log'[r.tx.event].id] # Log'[r.tx.event].rc
    <3>1. CASE r \in receipts
      BY <1>4, <2>9, <3>1
    <3>2. CASE r = r0
      BY <2>3, <2>5, <2>7, <2>8, <2>9, <3>2
    <3> QED BY <2>2, <2>9, <3>1, <3>2
  <2>10. AnsweredOnce'
    <3>1. \A r1, r2 \in receipts' : Answer(r1) /\ Answer(r2) /\ r1.tx.event = r2.tx.event => r1 = r2
      BY <2>2, <2>6, <2>8 DEF OnceInv, AnsweredOnce, Answer
    <3> QED BY <3>1 DEF AnsweredOnce, Answer
  <2> QED BY <1>3, <2>9, <2>10 DEF OnceInv, Answer
<1>6. ASSUME \A r \in receipts' : Answer(r) => r \in receipts
      PROVE  OnceInv'
  <2>1. AnsweredOnce'
    BY <1>6 DEF OnceInv, AnsweredOnce, Answer
  <2>2. \A r \in receipts' : Answer(r) => \A k \in Levels' :
          Level(k)'.s_requestCommitments[Log'[r.tx.event].id] # Log'[r.tx.event].rc
    BY <1>4, <1>6
  <2> QED BY <1>3, <2>1, <2>2 DEF OnceInv, Answer
<1>7. ASSUME NEW status \in {0, 1}, NEW gas \in BOOLEAN, Included(status, gas), mempool # <<>>,
             Head(mempool).kind = "fulfill" => status = 0
      PROVE  \A r \in receipts' : Answer(r) => r \in receipts
  <2> DEFINE r0 == [tx |-> Head(mempool), status |-> status, block |-> blockNumber, outOfGas |-> gas]
  <2>1. receipts' = receipts \cup {r0}
    BY <1>0, <1>7, IncludedParts
  <2>2. ~Answer(r0)
    BY <1>7 DEF Answer
  <2> HIDE DEF r0
  <2> QED BY <2>1, <2>2
<1>8. ASSUME UNCHANGED vars /\ (ProviderStep \/ FaultStep)
      PROVE  receipts' = receipts
  BY <1>8 DEF ProviderStep, FaultStep, Start, Registered, LoadCache, BeginRelay, Send, SendTx,
     ReceiptFound, ReceiptMissing, GiveUp, TruncateCache, WriteCache, SendFails,
     CacheWriteFails, Crash, MempoolLost, chainVars
<1>9. frames # <<>> => mempool # <<>>
  BY DEF TxInv
<1>10. ASSUME ~(Ends /\ Included(1, FALSE))
       PROVE  \A r \in receipts' : Answer(r) => r \in receipts
  <2>1. CASE UNCHANGED <<providerVars, chainVars>>
    BY <2>1 DEF chainVars
  <2>2. CASE Undoes /\ Included(0, TRUE)
    BY <1>7, <1>9, <2>2 DEF Undoes
  <2> QED BY <1>0, <1>7, <1>8, <1>10, <2>1, <2>2 DEF ChainStep
<1> QED BY <1>5, <1>6, <1>10

-----------------------------------------------------------------------------
(* The theorems *)

\* The process serves a height, or the chain moves under it.
LEMMA RelayNext ==
    ASSUME ChainInv, ProviderTypeOK, TxInv, RelayInv, ProviderNext
    PROVE  RelayInv'
<1>0. TypeOK /\ Len(frames) <= 1 /\ Grows
  BY ChainNext DEF ChainInv, FollowInv
<1>1. CASE UNCHANGED vars /\ (ProviderStep \/ FaultStep)
  BY <1>1, RelayProcess
<1>2. CASE UNCHANGED <<providerVars, chainVars>>
  <2>1. UNCHANGED providerVars /\ receipts \subseteq receipts' /\ Known' \subseteq Known
    BY <1>2 DEF chainVars, Known
  <2> QED BY <1>0, <2>1, RelayChain
<1>3. ASSUME NEW status \in {0, 1}, NEW gas \in BOOLEAN, Included(status, gas), mempool # <<>>
      PROVE  RelayInv'
  <2>1. UNCHANGED providerVars /\ receipts \subseteq receipts' /\ Known' \subseteq Known
    BY <1>0, <1>3, IncludedParts
  <2> QED BY <1>0, <2>1, RelayChain
<1>4. frames # <<>> => mempool # <<>>
  BY DEF TxInv
<1> QED BY <1>0, <1>1, <1>2, <1>3, <1>4, ChainSteps DEF ChainStep, Ends, Undoes

\* The deployed coordinator, a process that was never started and no transaction.
LEMMA ProviderInvInit == ProviderInit => ProviderInv
<1> SUFFICES ASSUME ProviderInit PROVE ProviderInv
  OBVIOUS
<1>1. TypeOK /\ evm.requested = <<>>
  <2>1. PICK minConf \in Confirmations, maxGas \in GasLimits :
          evm = [initialize(minConf, maxGas) EXCEPT
                   !.s_currentSubId = 1,
                   !.s_subscriptions[1] = [owner |-> Deployer, reqCount |-> 0, consumers |-> <<App>>],
                   !.s_consumers[App][1] = 1]
    BY DEF ProviderInit
  <2>2. 0 \in SubId /\ 0 \in Nonce /\ 1 \in SubId /\ 1 \in Nonce /\ App \in Address
    BY BoundAssumption, ProviderAssumption, AddressAssumption DEF SubId, Nonce
  <2>3. /\ NoSubscription \in Subscription
        /\ [owner |-> Deployer, reqCount |-> 0, consumers |-> <<App>>] \in Subscription
    BY <2>2, AddressAssumption DEF NoSubscription, Subscription
  <2>4. evm \in Storage /\ evm.requested = <<>>
    <3> DEFINE e == initialize(minConf, maxGas)
               sub == [owner |-> Deployer, reqCount |-> 0, consumers |-> <<App>>]
    <3>1. e \in Storage /\ e.requested = <<>>
      BY <2>2, <2>3, AddressAssumption DEF initialize, Storage, Config
    <3>2. /\ [e.s_subscriptions EXCEPT ![1] = sub] \in [SubId -> Subscription]
          /\ [e.s_consumers EXCEPT ![App][1] = 1] \in [Address -> [SubId -> Nonce]]
      BY <2>2, <2>3, <3>1 DEF Storage
    <3>3. evm = [e EXCEPT !.s_currentSubId = 1,
                          !.s_subscriptions = [e.s_subscriptions EXCEPT ![1] = sub],
                          !.s_consumers = [e.s_consumers EXCEPT ![App][1] = 1]]
      BY <2>1, <2>2, <3>1 DEF Storage
    <3> HIDE DEF e, sub
    <3> QED BY <2>2, <3>1, <3>2, <3>3 DEF Storage
  <2> QED BY <2>4 DEF ProviderInit, TypeOK
<1>2. /\ frames = <<>> /\ Committed = evm /\ Log = <<>> /\ \A k \in Levels : Level(k) = evm
      /\ Len(frames) <= 1
  BY <1>1 DEF ProviderInit, Committed, Levels, Level, Log
<1>3. ChainInv
  BY <1>1, <1>2, FollowsReflexive DEF ChainInv, FollowInv, TypeOK
<1>4. ProviderTypeOK
  BY ProviderAssumption DEF ProviderInit, ProviderTypeOK, PC, CacheFile
<1>5. Known = {} /\ receipts = {} /\ pc = "down" /\ cache.state = "absent"
  BY DEF ProviderInit, Known
<1>6. TxInv /\ OnceInv
  BY <1>2, <1>5 DEF TxInv, OnceInv, AnsweredOnce
<1>7. RelayInv
  BY <1>2, <1>5 DEF RelayInv, Serving, Running, NoRequestSkipped, Log
<1> QED BY <1>3, <1>4, <1>6, <1>7 DEF ProviderInv

\* One part at a time: each step of the process, of its faults and of the chain.
LEMMA ProviderInvNext == ProviderInv /\ [ProviderNext]_allVars => ProviderInv'
<1>1. ASSUME ProviderInv, ProviderNext PROVE ProviderInv'
  BY <1>1, ChainNext, ProviderTypesNext, TxNext, RelayNext, OnceNext DEF ProviderInv
<1>2. ASSUME ProviderInv, UNCHANGED allVars PROVE ProviderInv'
  <2>1. /\ evm' = evm /\ frames' = frames /\ blockNumber' = blockNumber
        /\ UNCHANGED providerVars /\ UNCHANGED chainVars
    BY <1>2 DEF allVars, vars
  <2>2. /\ pc' = pc /\ height' = height /\ todo' = todo /\ awaited' = awaited /\ tries' = tries
        /\ cache' = cache /\ mempool' = mempool /\ receipts' = receipts /\ sent' = sent
        /\ faults' = faults
    BY <2>1 DEF providerVars, chainVars
  <2>3. ProviderTypeOK' /\ TypeOK' = TypeOK
    BY <1>2, <2>1, <2>2 DEF ProviderInv, ProviderTypeOK, TypeOK
  <2>4. /\ Committed' = Committed /\ Levels' = Levels /\ Log' = Log /\ Known' = Known
        /\ \A k : Level(k)' = Level(k)
    BY <2>1, <2>2 DEF Committed, Levels, Level, Log, Known
  <2>5. ChainInv'
    BY <1>2, <2>1, <2>3, <2>4 DEF ProviderInv, ChainInv, FollowInv
  <2>6. TxInv' /\ OnceInv'
    BY <1>2, <2>1, <2>2, <2>4 DEF ProviderInv, TxInv, OnceInv, AnsweredOnce, Top
  <2>7. RelayInv'
    <3>1. Grows
      BY <1>2, <2>1, <2>4 DEF ProviderInv, ChainInv, FollowInv, TypeOK, Grows
    <3> QED BY <1>2, <2>1, <2>2, <2>4, <3>1, RelayChain DEF ProviderInv
  <2> QED BY <2>3, <2>5, <2>6, <2>7 DEF ProviderInv
<1> QED BY <1>1, <1>2

\* The process, its file and its transactions keep their types: the position of
\* the loop, the polls within RetryTimes, a cache that is absent, truncated or a
\* height.
THEOREM ProviderTypes == ProviderSpec => []ProviderTypeOK
<1> QED BY ProviderInvInit, ProviderInvNext, PTL DEF ProviderSpec, ProviderInv

\* relay and the cache file pass over no request, for any number of blocks,
\* requests, crashes, retries, lost transactions and failed writes.
THEOREM RequestsNotSkipped == ProviderSpec => []NoRequestSkipped
<1>1. ProviderInv => NoRequestSkipped
  BY DEF ProviderInv, RelayInv
<1> QED BY <1>1, ProviderInvInit, ProviderInvNext, PTL DEF ProviderSpec

\* No request is answered by two transactions, however often relay sends it again.
THEOREM RequestsAnsweredOnce == ProviderSpec => []AnsweredOnce
<1>1. ProviderInv => AnsweredOnce
  BY DEF ProviderInv, OnceInv
<1> QED BY <1>1, ProviderInvInit, ProviderInvNext, PTL DEF ProviderSpec

=============================================================================
