------------------------ MODULE VRFCoordinatorProofs ------------------------
(* Theorems about the coordinator for every value of its constants. *)
EXTENDS VRFCoordinator, SequenceTheorems, FiniteSetTheorems, TLAPS

\* Removing an element with a swap leaves a list of the same elements' type.
LEMMA SwapRemoveType ==
    ASSUME NEW S, NEW list \in Seq(S), NEW x
    PROVE  SwapRemove(list, x) \in Seq(S)
<1>1. CASE Listed(x, list)
  <2> DEFINE at == CHOOSE i \in DOMAIN list : list[i] = x
             n == Len(list) - 1
  <2>1. n \in Nat
    BY <1>1 DEF Listed
  <2>2. \A j \in 1 .. n : (IF j = at THEN list[Len(list)] ELSE list[j]) \in S
    BY <2>1
  <2>3. SwapRemove(list, x) = [j \in 1 .. n |-> IF j = at THEN list[Len(list)] ELSE list[j]]
    BY <1>1 DEF SwapRemove
  <2> HIDE DEF at, n
  <2> QED BY <2>1, <2>2, <2>3
<1>2. CASE ~Listed(x, list)
  BY <1>2 DEF SwapRemove
<1> QED BY <1>1, <1>2

\* The storage during a callback is well formed.
LEMMA AtCallbackType ==
    ASSUME NEW e \in Storage, NEW id \in RequestId
    PROVE  AtCallback(e, id) \in Storage
BY DEF AtCallback, Storage, Config

\* So is the storage after it, unless reqCount overflows.
LEMMA AfterCallbackType ==
    ASSUME NEW e \in Storage, NEW id \in RequestId, NEW rc \in RequestCommitment,
           Fits(e.s_subscriptions[rc.subId].reqCount + 1)
    PROVE  AfterCallback(e, id, rc) \in Storage
<1>1. rc.subId \in SubId
  BY DEF RequestCommitment
<1>2. e.s_subscriptions[rc.subId].reqCount + 1 \in Nonce
  <2>1. e.s_subscriptions[rc.subId] \in Subscription
    BY <1>1 DEF Storage
  <2>2. e.s_subscriptions[rc.subId].reqCount \in Nonce
    BY <2>1 DEF Subscription
  <2> QED BY <2>2, BoundAssumption DEF Nonce, Fits
<1>3. [e.s_config EXCEPT !.reentrancyLock = FALSE] \in Config
  BY DEF Storage, Config
<1>4. [e.s_subscriptions EXCEPT ![rc.subId].reqCount = @ + 1] \in [SubId -> Subscription]
  BY <1>1, <1>2 DEF Storage, Subscription
<1>5. [e.fulfilled EXCEPT ![id] = @ + 1] \in [RequestId -> Nat]
  BY DEF Storage
<1> QED BY <1>3, <1>4, <1>5 DEF AfterCallback, Storage

\* initialize leaves a well-formed storage.
LEMMA InitType == Init => TypeOK
<1> SUFFICES ASSUME NEW minConf \in Confirmations, NEW maxGas \in GasLimits,
                    evm = initialize(minConf, maxGas),
                    blockNumber = 1, frames = <<>>
             PROVE  TypeOK
  BY DEF Init
<1>1. 0 \in SubId /\ 0 \in Nonce
  BY BoundAssumption DEF SubId, Nonce
<1>2. NoSubscription \in Subscription
  BY <1>1, AddressAssumption DEF NoSubscription, Subscription
<1>3. evm \in Storage
  BY <1>1, <1>2, AddressAssumption DEF initialize, Storage, Config
<1> QED BY <1>3 DEF TypeOK

\* The administrator's calls.
LEMMA AdministerType ==
    ASSUME TypeOK, NEW sender \in Address, Administer(sender)
    PROVE  TypeOK'
<1> USE DEF TypeOK
<1>1. ASSUME NEW kh \in KeyHash, RegisterProvingKey(sender, kh)
      PROVE  TypeOK'
  <2>1. Append(evm.s_provingKeyHashes, kh) \in Seq(KeyHash)
    BY DEF Storage
  <2> QED BY <1>1, <2>1 DEF RegisterProvingKey, Storage
<1>2. ASSUME NEW kh \in KeyHash, DeregisterProvingKey(sender, kh)
      PROVE  TypeOK'
  <2>1. SwapRemove(evm.s_provingKeyHashes, kh) \in Seq(KeyHash)
    BY SwapRemoveType DEF Storage
  <2> QED BY <1>2, <2>1 DEF DeregisterProvingKey, Storage
<1>3. ASSUME NEW height \in Heights, NEW isZero \in BOOLEAN,
             StoreBlockHash(sender, height, isZero)
      PROVE  TypeOK'
  <2>1. (IF isZero THEN evm.s_blockStore \ {height} ELSE evm.s_blockStore \cup {height})
          \in SUBSET Nat
    BY InputAssumption DEF Storage
  <2> QED BY <1>3, <2>1 DEF StoreBlockHash, Storage
<1>4. ASSUME NEW minConf \in Confirmations, NEW maxGas \in GasLimits,
             SetConfig(sender, minConf, maxGas)
      PROVE  TypeOK'
  BY <1>4 DEF SetConfig, Storage, Config
<1>5. ASSUME NEW newOwner \in NewOwners, TransferOwnership(sender, newOwner)
      PROVE  TypeOK'
  BY <1>5, InputAssumption DEF TransferOwnership, Storage
<1> QED BY <1>1, <1>2, <1>3, <1>4, <1>5 DEF Administer

\* The calls that manage subscriptions.
LEMMA SubscribeType ==
    ASSUME TypeOK, NEW sender \in Address, Subscribe(sender)
    PROVE  TypeOK'
<1> USE DEF TypeOK
<1>0. SubIds \subseteq SubId /\ Consumers \subseteq Address
  BY InputAssumption DEF SubId
<1>1. ASSUME NEW subscriber \in Address, CreateSubscription(sender, subscriber)
      PROVE  TypeOK'
  <2>1. evm.s_currentSubId + 1 \in SubId
    <3>1. evm.s_currentSubId \in SubId
      BY DEF Storage
    <3>2. evm.s_currentSubId < MaxSubId
      BY <1>1 DEF CreateSubscription
    <3> QED BY <3>1, <3>2, BoundAssumption DEF SubId
  <2>2. [NoSubscription EXCEPT !.owner = subscriber] \in Subscription
    <3>1. 0 \in Nonce
      BY BoundAssumption DEF Nonce
    <3>2. [NoSubscription EXCEPT !.owner = subscriber]
            = [owner |-> subscriber, reqCount |-> 0, consumers |-> <<>>]
      BY DEF NoSubscription
    <3>3. <<>> \in Seq(Address)
      OBVIOUS
    <3> QED BY <3>1, <3>2, <3>3 DEF Subscription
  <2> QED BY <1>1, <2>1, <2>2 DEF CreateSubscription, NextSubId, Storage
<1>2. ASSUME NEW subId \in SubIds, NEW consumer \in Consumers,
             AddConsumer(sender, subId, consumer)
      PROVE  TypeOK'
  <2>1. [evm.s_consumers EXCEPT ![consumer][subId] = 1] \in [Address -> [SubId -> Nonce]]
    BY <1>0, BoundAssumption DEF Storage, Nonce
  <2>2. [evm.s_subscriptions EXCEPT ![subId].consumers = Append(@, consumer)]
          \in [SubId -> Subscription]
    <3>1. evm.s_subscriptions[subId] \in Subscription
      BY <1>0 DEF Storage
    <3>2. Append(evm.s_subscriptions[subId].consumers, consumer) \in Seq(Address)
      BY <1>0, <3>1 DEF Subscription
    <3>3. [evm.s_subscriptions[subId] EXCEPT
             !.consumers = Append(evm.s_subscriptions[subId].consumers, consumer)] \in Subscription
      BY <3>1, <3>2 DEF Subscription
    <3> QED BY <1>0, <3>3 DEF Storage
  <2> QED BY <1>2, <2>1, <2>2 DEF AddConsumer, Storage
<1>3. ASSUME NEW subId \in SubIds, NEW consumer \in Consumers,
             RemoveConsumer(sender, subId, consumer)
      PROVE  TypeOK'
  <2>1. [evm.s_consumers EXCEPT ![consumer][subId] = 0] \in [Address -> [SubId -> Nonce]]
    BY <1>0, BoundAssumption DEF Storage, Nonce
  <2>2. SwapRemove(evm.s_subscriptions[subId].consumers, consumer) \in Seq(Address)
    BY <1>0, SwapRemoveType DEF Storage, Subscription
  <2>3. [evm.s_subscriptions EXCEPT ![subId].consumers = SwapRemove(@, consumer)]
          \in [SubId -> Subscription]
    BY <1>0, <2>2 DEF Storage, Subscription
  <2> QED BY <1>3, <2>1, <2>3 DEF RemoveConsumer, Storage
<1>4. ASSUME NEW subId \in SubIds, CancelSubscription(sender, subId)
      PROVE  TypeOK'
  <2>1. [a \in Address |->
           IF Listed(a, evm.s_subscriptions[subId].consumers)
             THEN [evm.s_consumers[a] EXCEPT ![subId] = 0]
             ELSE evm.s_consumers[a]] \in [Address -> [SubId -> Nonce]]
    BY <1>0, BoundAssumption DEF Storage, Nonce
  <2>2. NoSubscription \in Subscription
    BY BoundAssumption, AddressAssumption DEF NoSubscription, Subscription, Nonce
  <2> QED BY <1>4, <2>1, <2>2 DEF CancelSubscription, Storage
<1> QED BY <1>1, <1>2, <1>3, <1>4, InputAssumption DEF Subscribe

\* A request.
LEMMA RequestType ==
    ASSUME TypeOK, NEW sender \in Address, Request(sender)
    PROVE  TypeOK'
<1> USE DEF TypeOK
<1> PICK keyHash \in KeyHash, subId \in SubIds, confirmations \in Confirmations,
         gasLimit \in GasLimits, numWords \in WordCounts :
           RequestRandomWords(sender, keyHash, subId, confirmations, gasLimit, numWords)
  BY DEF Request
<1> DEFINE nonce == evm.s_consumers[sender][subId] + 1
           id == computeRequestId(keyHash, sender, subId, nonce)
           rc == [blockNum |-> blockNumber, subId |-> subId, callbackGasLimit |-> gasLimit,
                  numWords |-> numWords, sender |-> sender]
           event == [id |-> id, rc |-> rc, minimumRequestConfirmations |-> confirmations]
<1>0. subId \in SubId
  BY InputAssumption DEF SubId
<1>1. nonce \in Nonce
  <2>1. Fits(nonce)
    BY DEF RequestRandomWords
  <2>2. evm.s_consumers[sender][subId] \in Nonce
    BY <1>0 DEF Storage
  <2> QED BY <2>1, <2>2, BoundAssumption DEF Fits, Nonce
<1>2. id \in RequestId /\ rc \in RequestCommitment
  BY <1>0, <1>1 DEF computeRequestId, RequestId, RequestCommitment
<1>3. event \in RequestEvent
  BY <1>2 DEF RequestEvent
<1>4. /\ evm' = [evm EXCEPT !.s_requestCommitments[id] = rc,
                            !.requested = Append(@, event),
                            !.s_consumers[sender][subId] = nonce]
      /\ UNCHANGED <<blockNumber, frames>>
  BY DEF RequestRandomWords, Commit
<1> HIDE DEF nonce, id, rc, event
<1>5. Append(evm.requested, event) \in Seq(RequestEvent)
  BY <1>3 DEF Storage
<1>6. [evm.s_consumers EXCEPT ![sender][subId] = nonce] \in [Address -> [SubId -> Nonce]]
  BY <1>0, <1>1 DEF Storage
<1>7. [evm.s_requestCommitments EXCEPT ![id] = rc]
        \in [RequestId -> RequestCommitment \cup {NoCommitment}]
  BY <1>2 DEF Storage
<1> QED BY <1>4, <1>5, <1>6, <1>7 DEF Storage

\* The stack without its last frame.
LEMMA PopType ==
    ASSUME frames \in Seq(Frame), frames # <<>>
    PROVE  /\ Pop \in Seq(Frame) /\ Len(Pop) = Len(frames) - 1
           /\ \A k \in 1 .. Len(frames) - 1 : Pop[k] = frames[k]
           /\ Len(frames) \in DOMAIN frames /\ Top \in Frame
           /\ Top.pre \in Storage /\ Top.id \in RequestId /\ Top.rc \in RequestCommitment
<1>1. Len(frames) \in Nat \ {0} /\ Len(frames) \in DOMAIN frames
  OBVIOUS
<1>2. Top \in Frame
  BY <1>1 DEF Top
<1> DEFINE n == Len(frames) - 1
<1>3. n \in Nat /\ \A i \in 1 .. n : frames[i] \in Frame
  BY <1>1
<1> HIDE DEF n
<1>4. /\ SubSeq(frames, 1, n) \in Seq(Frame)
      /\ Len(SubSeq(frames, 1, n)) = IF 1 <= n THEN n - 1 + 1 ELSE 0
      /\ \A i \in 1 .. n - 1 + 1 : SubSeq(frames, 1, n)[i] = frames[1 + i - 1]
  BY <1>3, SubSeqProperties
<1>5. \A k \in 1 .. n : SubSeq(frames, 1, n)[k] = frames[k]
  <2> TAKE k \in 1 .. n
  <2>1. k \in 1 .. n - 1 + 1 /\ 1 + k - 1 = k
    BY <1>3
  <2> QED BY <1>4, <2>1
<1>6. Pop = SubSeq(frames, 1, n)
  BY DEF Pop, n
<1>7. Pop \in Seq(Frame) /\ Len(Pop) = n /\ \A k \in 1 .. n : Pop[k] = frames[k]
  BY <1>3, <1>4, <1>5, <1>6
<1> QED BY <1>1, <1>2, <1>7 DEF Frame, n

\* The steps of fulfillRandomWords.
LEMMA FulfillType ==
    ASSUME TypeOK, NEW sender \in Address, Fulfill(sender)
    PROVE  TypeOK'
<1> USE DEF TypeOK
<1> PICK i \in DOMAIN evm.requested, j \in DOMAIN evm.requested :
      FulfillRandomWords(sender, evm.requested[i].id, evm.requested[j].rc)
  BY DEF Fulfill
<1>1. evm.requested[i] \in RequestEvent /\ evm.requested[j] \in RequestEvent
  BY DEF Storage
<1>2. evm.requested[i].id \in RequestId /\ evm.requested[j].rc \in RequestCommitment
  BY <1>1 DEF RequestEvent
<1>3. AtCallback(evm, evm.requested[i].id) \in Storage
  BY <1>2, AtCallbackType
<1>4. [pre |-> evm, id |-> evm.requested[i].id, rc |-> evm.requested[j].rc] \in Frame
  BY <1>2 DEF Frame
<1>5. frames' \in Seq(Frame)
  BY <1>4 DEF FulfillRandomWords
<1> QED BY <1>3, <1>5 DEF FulfillRandomWords

\* The second half of fulfillRandomWords keeps the types.
LEMMA CallbackReturnsType ==
    ASSUME TypeOK, NEW success \in BOOLEAN, CallbackReturns(success)
    PROVE  TypeOK'
<1> DEFINE e == IF success THEN evm ELSE AtCallback(Top.pre, Top.id)
<1>1. frames \in Seq(Frame) /\ frames # <<>>
  BY DEF TypeOK, CallbackReturns
<1>2. e \in Storage
  BY <1>1, PopType, AtCallbackType DEF TypeOK
<1>3. /\ Fits(e.s_subscriptions[Top.rc.subId].reqCount + 1)
      /\ evm' = AfterCallback(e, Top.id, Top.rc) /\ frames' = Pop /\ UNCHANGED blockNumber
  BY DEF CallbackReturns
<1> HIDE DEF e
<1>4. evm' \in Storage
  BY <1>1, <1>2, <1>3, PopType, AfterCallbackType
<1> QED BY <1>1, <1>3, <1>4, PopType DEF TypeOK

\* A revert reinstates storage that was well formed.
LEMMA FulfillRevertsType ==
    ASSUME TypeOK, FulfillReverts
    PROVE  TypeOK'
BY PopType DEF TypeOK, FulfillReverts

\* Every step keeps the types.
LEMMA NextType == TypeOK /\ [Next]_vars => TypeOK'
<1> SUFFICES ASSUME TypeOK, [Next]_vars PROVE TypeOK'
  OBVIOUS
<1>1. CASE NextBlock
  BY <1>1 DEF NextBlock, TypeOK
<1>2. CASE UNCHANGED vars
  BY <1>2 DEF vars, TypeOK
<1> QED
  BY <1>1, <1>2, AdministerType, SubscribeType, RequestType, FulfillType,
     CallbackReturnsType, FulfillRevertsType DEF Next

\* Type correctness: no call sequence, callback or revert takes the storage out
\* of its types; in particular the uint64 counters never overflow.
THEOREM TypeCorrect == Spec => []TypeOK
<1> QED BY InitType, NextType, PTL DEF Spec

-----------------------------------------------------------------------------
(* No request is answered twice *)

\* Sets of positions of a sequence can be counted, and a new last position
\* adds one.
LEMMA CountPositions ==
    ASSUME NEW n \in Nat, NEW S \in SUBSET (1 .. n)
    PROVE  /\ Cardinality(S) \in Nat
           /\ Cardinality(S \cup {n + 1}) = Cardinality(S) + 1
<1>1. IsFiniteSet(1 .. n)
  BY FS_Interval
<1>2. IsFiniteSet(S)
  BY <1>1, FS_Subset
<1>3. n + 1 \notin S
  OBVIOUS
<1> QED BY <1>2, <1>3, FS_CardinalityType, FS_AddElement

\* What is answered, owed and under way for id is covered by what was asked.
Balanced(e, id, underWay) == e.fulfilled[id] + Pending(e, id) + underWay <= Asked(e, id)

\* The parts of the balance are natural numbers.
LEMMA CountTypes ==
    ASSUME TypeOK, NEW id \in RequestId
    PROVE  /\ \A e \in Storage : Asked(e, id) \in Nat /\ Pending(e, id) \in {0, 1}
                                 /\ e.fulfilled[id] \in Nat
           /\ \A k \in Levels : InFlight(k, id) \in Nat /\ Level(k) \in Storage
           /\ Len(frames) \in Nat
<1>1. ASSUME NEW e \in Storage
      PROVE  Asked(e, id) \in Nat /\ Pending(e, id) \in {0, 1} /\ e.fulfilled[id] \in Nat
  <2>1. e.requested \in Seq(RequestEvent) /\ e.fulfilled[id] \in Nat
    BY DEF Storage
  <2>2. Len(e.requested) \in Nat
        /\ {i \in DOMAIN e.requested : e.requested[i].id = id} \in SUBSET (1 .. Len(e.requested))
    BY <2>1
  <2> QED BY <2>1, <2>2, CountPositions DEF Asked, Pending
<1>2. frames \in Seq(Frame) /\ Len(frames) \in Nat
  BY DEF TypeOK
<1>3. ASSUME NEW k \in Levels
      PROVE  InFlight(k, id) \in Nat /\ Level(k) \in Storage
  <2>1. k - 1 \in Nat /\ {m \in 1 .. k - 1 : frames[m].id = id} \in SUBSET (1 .. k - 1)
    BY <1>2 DEF Levels
  <2>2. InFlight(k, id) \in Nat
    BY <2>1, CountPositions DEF InFlight
  <2>3. Level(k) \in Storage
    <3>1. CASE k = Len(frames) + 1
      BY <3>1 DEF Level, TypeOK
    <3>2. CASE k # Len(frames) + 1
      <4>1. k \in 1 .. Len(frames)
        BY <3>2, <1>2 DEF Levels
      <4>2. frames[k] \in Frame
        BY <4>1, <1>2
      <4> QED BY <3>2, <4>2 DEF Level, Frame
    <3> QED BY <3>1, <3>2
  <2> QED BY <2>2, <2>3
<1> QED BY <1>1, <1>2, <1>3

\* A step that leaves the stack alone and keeps the balance of the storage.
LEMMA BalanceSameStack ==
    ASSUME TypeOK, AnsweredWithinAsked, UNCHANGED frames,
           \A id \in RequestId : \A n \in Nat : Balanced(evm, id, n) => Balanced(evm', id, n)
    PROVE  AnsweredWithinAsked'
<1> SUFFICES ASSUME NEW k \in Levels, NEW id \in RequestId
             PROVE  Balanced(Level(k)', id, InFlight(k, id))
  BY DEF AnsweredWithinAsked, Balanced, Levels, InFlight
<1>1. Balanced(Level(k), id, InFlight(k, id)) /\ InFlight(k, id) \in Nat
  BY CountTypes DEF AnsweredWithinAsked, Balanced
<1>2. CASE k = Len(frames) + 1
  <2>1. Level(k) = evm /\ Level(k)' = evm'
    BY <1>2 DEF Level
  <2> QED BY <1>1, <2>1
<1>3. CASE k # Len(frames) + 1
  <2>1. Level(k)' = Level(k)
    BY <1>3 DEF Level
  <2> QED BY <1>1, <2>1
<1> QED BY <1>2, <1>3

\* The calls of administrators and subscribers touch none of the ledger.
LEMMA ManagementKeepsLedger ==
    ASSUME TypeOK, NEW sender \in Address, Administer(sender) \/ Subscribe(sender)
    PROVE  /\ evm'.fulfilled = evm.fulfilled
           /\ evm'.s_requestCommitments = evm.s_requestCommitments
           /\ evm'.requested = evm.requested
           /\ UNCHANGED frames
<1> USE DEF TypeOK, Storage
<1>1. ASSUME NEW kh \in KeyHash,
             RegisterProvingKey(sender, kh) \/ DeregisterProvingKey(sender, kh)
      PROVE  evm'.fulfilled = evm.fulfilled
             /\ evm'.s_requestCommitments = evm.s_requestCommitments
             /\ evm'.requested = evm.requested /\ UNCHANGED frames
  BY <1>1 DEF RegisterProvingKey, DeregisterProvingKey
<1>2. ASSUME NEW height \in Heights, NEW isZero \in BOOLEAN,
             StoreBlockHash(sender, height, isZero)
      PROVE  evm'.fulfilled = evm.fulfilled
             /\ evm'.s_requestCommitments = evm.s_requestCommitments
             /\ evm'.requested = evm.requested /\ UNCHANGED frames
  BY <1>2 DEF StoreBlockHash
<1>3. ASSUME NEW minConf \in Confirmations, NEW maxGas \in GasLimits,
             SetConfig(sender, minConf, maxGas)
      PROVE  evm'.fulfilled = evm.fulfilled
             /\ evm'.s_requestCommitments = evm.s_requestCommitments
             /\ evm'.requested = evm.requested /\ UNCHANGED frames
  BY <1>3 DEF SetConfig
<1>4. ASSUME NEW newOwner \in NewOwners, TransferOwnership(sender, newOwner)
      PROVE  evm'.fulfilled = evm.fulfilled
             /\ evm'.s_requestCommitments = evm.s_requestCommitments
             /\ evm'.requested = evm.requested /\ UNCHANGED frames
  BY <1>4 DEF TransferOwnership
<1>5. ASSUME NEW subscriber, CreateSubscription(sender, subscriber)
      PROVE  evm'.fulfilled = evm.fulfilled
             /\ evm'.s_requestCommitments = evm.s_requestCommitments
             /\ evm'.requested = evm.requested /\ UNCHANGED frames
  BY <1>5 DEF CreateSubscription
<1>6. ASSUME NEW subId, NEW consumer,
             AddConsumer(sender, subId, consumer) \/ RemoveConsumer(sender, subId, consumer)
             \/ CancelSubscription(sender, subId)
      PROVE  evm'.fulfilled = evm.fulfilled
             /\ evm'.s_requestCommitments = evm.s_requestCommitments
             /\ evm'.requested = evm.requested /\ UNCHANGED frames
  BY <1>6 DEF AddConsumer, RemoveConsumer, CancelSubscription
<1> QED BY <1>1, <1>2, <1>3, <1>4, <1>5, <1>6 DEF Administer, Subscribe

\* A request adds one event for its id and leaves at most one answer owed.
LEMMA RequestBalance ==
    ASSUME TypeOK, AnsweredWithinAsked, NEW sender \in Address, Request(sender)
    PROVE  AnsweredWithinAsked'
<1> PICK keyHash \in KeyHash, subId \in SubIds, confirmations \in Confirmations,
         gasLimit \in GasLimits, numWords \in WordCounts :
           RequestRandomWords(sender, keyHash, subId, confirmations, gasLimit, numWords)
  BY DEF Request
<1> DEFINE new == computeRequestId(keyHash, sender, subId, evm.s_consumers[sender][subId] + 1)
           rc == [blockNum |-> blockNumber, subId |-> subId, callbackGasLimit |-> gasLimit,
                  numWords |-> numWords, sender |-> sender]
           event == [id |-> new, rc |-> rc, minimumRequestConfirmations |-> confirmations]
<1>1. evm \in Storage
  BY DEF TypeOK
<1>2. /\ evm'.fulfilled = evm.fulfilled
      /\ evm'.requested = Append(evm.requested, event)
      /\ evm'.s_requestCommitments = [evm.s_requestCommitments EXCEPT ![new] = rc]
      /\ UNCHANGED frames
  BY <1>1 DEF RequestRandomWords, Commit, Storage
<1>3. event.id = new
  OBVIOUS
<1> HIDE DEF new, rc, event
<1>4. ASSUME NEW id \in RequestId, NEW n \in Nat, Balanced(evm, id, n)
      PROVE  Balanced(evm', id, n)
  <2> DEFINE len == Len(evm.requested)
             S == {i \in DOMAIN evm.requested : evm.requested[i].id = id}
  <2>1. evm.requested \in Seq(RequestEvent) /\ len \in Nat /\ S \in SUBSET (1 .. len)
    BY <1>1 DEF Storage
  <2>2. /\ Asked(evm, id) = Cardinality(S) /\ Cardinality(S) \in Nat
        /\ Cardinality(S \cup {len + 1}) = Cardinality(S) + 1
    BY <2>1, CountPositions DEF Asked
  <2>3. /\ evm.fulfilled[id] \in Nat
        /\ Pending(evm, id) \in {0, 1} /\ Pending(evm', id) \in {0, 1}
    BY <1>1 DEF Storage, Pending
  <2>4. /\ DOMAIN evm'.requested = 1 .. len + 1
        /\ \A i \in 1 .. len : evm'.requested[i] = evm.requested[i]
        /\ evm'.requested[len + 1] = event
        /\ DOMAIN evm.requested = 1 .. len
    BY <1>2, <2>1
  <2>5. CASE id = new
    <3>1. {i \in DOMAIN evm'.requested : evm'.requested[i].id = id} = S \cup {len + 1}
      BY <1>3, <2>1, <2>4, <2>5
    <3>2. Asked(evm', id) = Asked(evm, id) + 1
      BY <2>2, <3>1 DEF Asked
    <3> QED BY <1>2, <1>4, <2>2, <2>3, <3>2 DEF Balanced
  <2>6. CASE id # new
    <3>1. {i \in DOMAIN evm'.requested : evm'.requested[i].id = id} = S
      BY <1>3, <2>1, <2>4, <2>6
    <3>2. Asked(evm', id) = Asked(evm, id)
      BY <2>2, <3>1 DEF Asked
    <3>3. Pending(evm', id) = Pending(evm, id)
      BY <1>1, <1>2, <2>6 DEF Pending, Storage
    <3> QED BY <1>2, <1>4, <3>2, <3>3 DEF Balanced
  <2> QED BY <2>5, <2>6
<1> QED BY <1>2, <1>4, BalanceSameStack

\* What is under way below level k, by position of the stack.
LEMMA InFlightIs ==
    ASSUME NEW k \in Nat, NEW id
    PROVE  InFlight(k + 1, id) = Cardinality({m \in 1 .. k : frames[m].id = id})
<1>1. ASSUME NEW j, j - 1 = k
      PROVE  InFlight(j, id) = Cardinality({m \in 1 .. k : frames[m].id = id})
  <2>1. {m \in 1 .. j - 1 : frames[m].id = id} = {m \in 1 .. k : frames[m].id = id}
    BY <1>1
  <2> QED BY <2>1 DEF InFlight
<1>2. (k + 1) - 1 = k
  OBVIOUS
<1> QED BY <1>1, <1>2

\* Every fulfilment on the stack started with its commitment in place.
FramesOpen ==
    \A k \in DOMAIN frames : frames[k].pre.s_requestCommitments[frames[k].id] # NoCommitment

\* Starting a fulfilment pushes the storage as a new level: the answer moves from
\* owed to under way.
LEMMA FulfillBalance ==
    ASSUME TypeOK, AnsweredWithinAsked, FramesOpen, NEW sender \in Address, Fulfill(sender)
    PROVE  AnsweredWithinAsked' /\ FramesOpen'
<1> PICK i \in DOMAIN evm.requested, j \in DOMAIN evm.requested :
      FulfillRandomWords(sender, evm.requested[i].id, evm.requested[j].rc)
  BY DEF Fulfill
<1> DEFINE rid == evm.requested[i].id
           top == [pre |-> evm, id |-> rid, rc |-> evm.requested[j].rc]
           n == Len(frames)
<1>1. evm \in Storage /\ frames \in Seq(Frame) /\ n \in Nat /\ rid \in RequestId
  <2>1. evm.requested[i] \in RequestEvent
    BY DEF TypeOK, Storage
  <2> QED BY <2>1 DEF TypeOK, RequestEvent
<1>2. /\ evm' = AtCallback(evm, rid) /\ frames' = Append(frames, top)
      /\ evm.s_requestCommitments[rid] # NoCommitment
      /\ top.pre = evm /\ top.id = rid
  BY DEF FulfillRandomWords, getRandomnessFromProof
<1> HIDE DEF rid, top
<1>3. /\ Len(frames') = n + 1 /\ frames'[n + 1] = top
      /\ \A k \in 1 .. n : frames'[k] = frames[k]
      /\ DOMAIN frames = 1 .. n /\ DOMAIN frames' = 1 .. n + 1
  BY <1>1, <1>2
<1> HIDE DEF n
<1>4. FramesOpen'
  <2> SUFFICES ASSUME NEW k \in 1 .. n + 1
               PROVE  frames'[k].pre.s_requestCommitments[frames'[k].id] # NoCommitment
    BY <1>3 DEF FramesOpen
  <2>1. CASE k = n + 1
    BY <1>2, <1>3, <2>1
  <2>2. CASE k \in 1 .. n
    BY <1>3, <2>2 DEF FramesOpen
  <2> QED BY <1>1, <2>1, <2>2
<1>5. ASSUME NEW k \in 1 .. n + 2, NEW id \in RequestId
      PROVE  Balanced(Level(k)', id, InFlight(k, id)')
  <2>1. CASE k \in 1 .. n + 1
    <3>1. k \in Levels
      BY <2>1 DEF Levels, n
    <3>2. Level(k)' = Level(k)
      BY <1>1, <1>2, <1>3, <2>1 DEF Level, n
    <3>3. {m \in 1 .. k - 1 : frames'[m].id = id} = {m \in 1 .. k - 1 : frames[m].id = id}
      BY <1>1, <1>3, <2>1
    <3>4. InFlight(k, id)' = InFlight(k, id)
      BY <3>3 DEF InFlight
    <3> QED BY <3>1, <3>2, <3>4 DEF AnsweredWithinAsked, Balanced
  <2>2. CASE k = n + 2
    <3> DEFINE S == {m \in 1 .. n : frames[m].id = id}
    <3>1. Level(k)' = evm' /\ Level(n + 1) = evm /\ n + 1 \in Levels
      BY <1>1, <1>3, <2>2 DEF Level, Levels, n
    <3>2. Balanced(evm, id, InFlight(n + 1, id))
      BY <3>1 DEF AnsweredWithinAsked, Balanced
    <3>3. S \in SUBSET (1 .. n) /\ InFlight(n + 1, id) = Cardinality(S)
      <4>1. S \in SUBSET (1 .. n)
        OBVIOUS
      <4> QED BY <1>1, <4>1, InFlightIs
    <3>4. /\ Cardinality(S) \in Nat /\ Cardinality(S \cup {n + 1}) = Cardinality(S) + 1
      BY <1>1, <3>3, CountPositions
    <3>5. InFlight(k, id)' = Cardinality({m \in 1 .. n + 1 : frames'[m].id = id})
      <4>1. k - 1 = n + 1
        BY <1>1, <2>2
      <4>2. {m \in 1 .. k - 1 : frames'[m].id = id} = {m \in 1 .. n + 1 : frames'[m].id = id}
        BY <4>1
      <4> QED BY <4>2 DEF InFlight
    <3>6. /\ evm'.fulfilled = evm.fulfilled /\ evm'.requested = evm.requested
          /\ evm'.s_requestCommitments = [evm.s_requestCommitments EXCEPT ![rid] = NoCommitment]
      BY <1>1, <1>2 DEF AtCallback, Storage
    <3>7. Asked(evm', id) = Asked(evm, id)
      BY <3>6 DEF Asked
    <3>8. evm.fulfilled[id] \in Nat /\ Asked(evm, id) \in Nat /\ Pending(evm, id) \in {0, 1}
      BY <1>1, CountTypes
    <3>9. CASE id = rid
      <4>1. {m \in 1 .. n + 1 : frames'[m].id = id} = S \cup {n + 1}
        BY <1>1, <1>2, <1>3, <3>9
      <4>2. Pending(evm, id) = 1 /\ Pending(evm', id) = 0
        BY <1>1, <1>2, <3>6, <3>9 DEF Pending, Storage
      <4>3. InFlight(k, id)' = InFlight(n + 1, id) + 1 /\ InFlight(n + 1, id) \in Nat
        BY <3>3, <3>4, <3>5, <4>1
      <4> QED BY <3>1, <3>2, <3>6, <3>7, <3>8, <4>2, <4>3 DEF Balanced
    <3>10. CASE id # rid
      <4>1. {m \in 1 .. n + 1 : frames'[m].id = id} = S
        BY <1>1, <1>2, <1>3, <3>10
      <4>2. Pending(evm', id) = Pending(evm, id)
        BY <1>1, <3>6, <3>10 DEF Pending, Storage
      <4>3. InFlight(k, id)' = InFlight(n + 1, id)
        BY <3>3, <3>5, <4>1
      <4> QED BY <3>1, <3>2, <3>6, <3>7, <4>2, <4>3 DEF Balanced
    <3> QED BY <3>9, <3>10
  <2> QED BY <1>1, <2>1, <2>2
<1>6. Levels' = 1 .. n + 2
  BY <1>1, <1>3 DEF Levels
<1>7. AnsweredWithinAsked'
  BY <1>5, <1>6 DEF AnsweredWithinAsked, Balanced
<1> QED BY <1>4, <1>7

\* Taking the last frame off: the levels below it stay, and the new storage must
\* be balanced with what is under way below the frame.
LEMMA PopBalance ==
    ASSUME TypeOK, AnsweredWithinAsked, FramesOpen, frames # <<>>, frames' = Pop,
           \A id \in RequestId : Balanced(evm', id, InFlight(Len(frames), id))
    PROVE  AnsweredWithinAsked' /\ FramesOpen'
<1> DEFINE n == Len(frames)
<1>1. frames \in Seq(Frame) /\ n \in Nat \ {0} /\ DOMAIN frames = 1 .. n
  BY DEF TypeOK
<1>2. /\ Len(frames') = n - 1 /\ DOMAIN frames' = 1 .. n - 1
      /\ \A k \in 1 .. n - 1 : frames'[k] = frames[k]
  <2>1. /\ Pop \in Seq(Frame) /\ Len(Pop) = n - 1
        /\ \A k \in 1 .. n - 1 : Pop[k] = frames[k]
    BY <1>1, PopType
  <2>2. DOMAIN Pop = 1 .. Len(Pop)
    BY <2>1
  <2> QED BY <2>1, <2>2
<1> HIDE DEF n
<1>3. FramesOpen'
  BY <1>1, <1>2 DEF FramesOpen
<1>4. ASSUME NEW k \in 1 .. n, NEW id \in RequestId
      PROVE  Balanced(Level(k)', id, InFlight(k, id)')
  <2>1. {m \in 1 .. k - 1 : frames'[m].id = id} = {m \in 1 .. k - 1 : frames[m].id = id}
    BY <1>1, <1>2
  <2>2. InFlight(k, id)' = InFlight(k, id)
    BY <2>1 DEF InFlight
  <2>3. CASE k = n
    <3>1. Level(k)' = evm'
      BY <1>1, <1>2, <2>3 DEF Level
    <3> QED BY <2>2, <2>3, <3>1 DEF n
  <2>4. CASE k # n
    <3>1. k \in 1 .. n - 1 /\ k # n - 1 + 1 /\ k \in 1 .. n + 1 /\ k # n + 1
      BY <1>1, <2>4
    <3>2. k \in Levels
      BY <3>1 DEF Levels, n
    <3>3. Level(k)' = frames'[k].pre /\ Level(k) = frames[k].pre
      BY <1>2, <3>1 DEF Level, n
    <3>4. Level(k)' = Level(k)
      BY <1>2, <3>1, <3>3
    <3> QED BY <2>2, <3>2, <3>4 DEF AnsweredWithinAsked, Balanced
  <2> QED BY <2>3, <2>4
<1>5. Levels' = 1 .. n
  BY <1>1, <1>2 DEF Levels
<1> QED BY <1>3, <1>4, <1>5 DEF AnsweredWithinAsked, Balanced

\* The end of a fulfilment: what was under way is now answered.
LEMMA CallbackReturnsBalance ==
    ASSUME TypeOK, AnsweredWithinAsked, FramesOpen,
           NEW success \in BOOLEAN, CallbackReturns(success)
    PROVE  AnsweredWithinAsked' /\ FramesOpen'
<1> DEFINE n == Len(frames)
           rid == Top.id
           e == IF success THEN evm ELSE AtCallback(Top.pre, rid)
<1>1. /\ frames \in Seq(Frame) /\ frames # <<>> /\ n \in Nat \ {0} /\ n \in DOMAIN frames
      /\ evm \in Storage /\ Top.pre \in Storage /\ rid \in RequestId
      /\ Top.rc \in RequestCommitment
  BY PopType DEF TypeOK, CallbackReturns
<1>2. e \in Storage
  BY <1>1, AtCallbackType
<1>3. evm' = AfterCallback(e, rid, Top.rc) /\ frames' = Pop
  BY DEF CallbackReturns
<1>4. \A id \in RequestId :
        Balanced(e, id, InFlight(n, id) + (IF id = rid THEN 1 ELSE 0)) /\ InFlight(n, id) \in Nat
  <2> SUFFICES ASSUME NEW id \in RequestId
               PROVE  Balanced(e, id, InFlight(n, id) + (IF id = rid THEN 1 ELSE 0))
                      /\ InFlight(n, id) \in Nat
    OBVIOUS
  <2> DEFINE S == {m \in 1 .. n - 1 : frames[m].id = id}
  <2>1. n \in Levels /\ n + 1 \in Levels
    BY <1>1 DEF Levels
  <2>2. /\ Level(n) = Top.pre /\ Level(n + 1) = evm
    BY <1>1 DEF Level, Top
  <2>3. /\ Balanced(Top.pre, id, InFlight(n, id)) /\ Balanced(evm, id, InFlight(n + 1, id))
        /\ InFlight(n, id) \in Nat
    BY <2>1, <2>2, CountTypes DEF AnsweredWithinAsked, Balanced
  <2> HIDE DEF n
  <2>4. CASE success
    <3>1. n - 1 \in Nat /\ n - 1 + 1 = n /\ n + 1 - 1 = n /\ S \in SUBSET (1 .. n - 1)
      BY <1>1
    <3>2. Cardinality(S) \in Nat /\ Cardinality(S \cup {n}) = Cardinality(S) + 1
      BY <3>1, CountPositions
    <3>3. InFlight(n, id) = Cardinality(S)
      <4>1. InFlight(n - 1 + 1, id) = Cardinality(S)
        BY <3>1, InFlightIs
      <4> QED BY <3>1, <4>1
    <3>4. InFlight(n + 1, id) = Cardinality({m \in 1 .. n : frames[m].id = id})
      BY <1>1, InFlightIs
    <3>5. InFlight(n + 1, id) = InFlight(n, id) + (IF id = rid THEN 1 ELSE 0)
      <4>1. CASE id = rid
        <5>1. {m \in 1 .. n : frames[m].id = id} = S \cup {n}
          BY <1>1, <3>1, <4>1 DEF Top, n
        <5> QED BY <3>2, <3>3, <3>4, <4>1, <5>1
      <4>2. CASE id # rid
        <5>1. {m \in 1 .. n : frames[m].id = id} = S
          BY <1>1, <3>1, <4>2 DEF Top, n
        <5>2. InFlight(n + 1, id) = InFlight(n, id)
          BY <3>3, <3>4, <5>1
        <5> QED BY <2>3, <4>2, <5>2
      <4> QED BY <4>1, <4>2
    <3> QED BY <2>3, <2>4, <3>5
  <2>5. CASE ~success
    <3>1. e = AtCallback(Top.pre, rid)
      BY <2>5
    <3>2. /\ e.fulfilled = Top.pre.fulfilled /\ e.requested = Top.pre.requested
          /\ e.s_requestCommitments
               = [Top.pre.s_requestCommitments EXCEPT ![rid] = NoCommitment]
      BY <1>1, <3>1 DEF AtCallback, Storage
    <3>3. Asked(e, id) = Asked(Top.pre, id)
      BY <3>2 DEF Asked
    <3>4. /\ Top.pre.fulfilled[id] \in Nat /\ Asked(Top.pre, id) \in Nat
          /\ Pending(Top.pre, id) \in {0, 1}
      BY <1>1, CountTypes
    <3>5. CASE id = rid
      <4>1. Top.pre.s_requestCommitments[rid] # NoCommitment
        BY <1>1 DEF FramesOpen, Top, n
      <4>2. Pending(Top.pre, id) = 1 /\ Pending(e, id) = 0
        BY <1>1, <3>2, <3>5, <4>1 DEF Pending, Storage
      <4> QED BY <2>3, <3>2, <3>3, <3>4, <3>5, <4>2 DEF Balanced
    <3>6. CASE id # rid
      <4>1. Pending(e, id) = Pending(Top.pre, id)
        BY <1>1, <3>2, <3>6 DEF Pending, Storage
      <4> QED BY <2>3, <3>2, <3>3, <3>4, <3>6, <4>1 DEF Balanced
    <3> QED BY <3>5, <3>6
  <2> QED BY <2>4, <2>5
<1> HIDE DEF e, rid, n
<1>5. \A id \in RequestId : Balanced(evm', id, InFlight(n, id))
  <2> TAKE id \in RequestId
  <2>1. /\ evm'.fulfilled = [e.fulfilled EXCEPT ![rid] = @ + 1]
        /\ evm'.requested = e.requested /\ evm'.s_requestCommitments = e.s_requestCommitments
    BY <1>2, <1>3 DEF AfterCallback, Storage
  <2>2. Asked(evm', id) = Asked(e, id) /\ Pending(evm', id) = Pending(e, id)
    BY <2>1 DEF Asked, Pending
  <2>3. e.fulfilled[id] \in Nat /\ Asked(e, id) \in Nat /\ Pending(e, id) \in {0, 1}
    BY <1>2, CountTypes
  <2>4. evm'.fulfilled[id] = e.fulfilled[id] + (IF id = rid THEN 1 ELSE 0)
    BY <1>1, <1>2, <2>1, <2>3 DEF Storage
  <2> QED BY <1>4, <2>2, <2>3, <2>4 DEF Balanced
<1> QED BY <1>1, <1>3, <1>5, PopBalance DEF n

\* The revert of a fulfilment: the storage is that of the level below.
LEMMA FulfillRevertsBalance ==
    ASSUME TypeOK, AnsweredWithinAsked, FramesOpen, FulfillReverts
    PROVE  AnsweredWithinAsked' /\ FramesOpen'
<1>1. frames # <<>> /\ evm' = Top.pre /\ frames' = Pop
  BY DEF FulfillReverts
<1>2. Len(frames) \in Nat \ {0}
  BY <1>1 DEF TypeOK
<1>3. Len(frames) \in Levels /\ Level(Len(frames)) = Top.pre
  BY <1>2 DEF Levels, Level, Top
<1>4. \A id \in RequestId : Balanced(evm', id, InFlight(Len(frames), id))
  BY <1>1, <1>3 DEF AnsweredWithinAsked, Balanced
<1> QED BY <1>1, <1>4, PopBalance

\* The inductive invariant: AnsweredWithinAsked alone is not inductive, because
\* a callback that fails goes back to the start of its fulfilment, where the
\* commitment it has used must have been there.
AnswerInv == TypeOK /\ AnsweredWithinAsked /\ FramesOpen

\* The invariant of NoDoubleAnswer holds when the contract is initialized.
LEMMA AnswerInit == Init => AnswerInv
<1> SUFFICES ASSUME Init PROVE AnsweredWithinAsked /\ FramesOpen
  BY InitType DEF AnswerInv
<1>1. /\ frames = <<>> /\ evm.requested = <<>>
      /\ evm.fulfilled = [id \in RequestId |-> 0]
      /\ evm.s_requestCommitments = [id \in RequestId |-> NoCommitment]
  BY DEF Init, initialize
<1>2. FramesOpen
  BY <1>1 DEF FramesOpen
<1>3. ASSUME NEW k \in Levels, NEW id \in RequestId
      PROVE  Level(k).fulfilled[id] + Pending(Level(k), id) + InFlight(k, id)
               <= Asked(Level(k), id)
  <2>1. k = 1 /\ Level(k) = evm
    BY <1>1 DEF Levels, Level
  <2>2. {i \in DOMAIN evm.requested : evm.requested[i].id = id} = {}
        /\ {m \in 1 .. k - 1 : frames[m].id = id} = {}
    BY <1>1, <2>1
  <2>3. Asked(evm, id) = 0 /\ InFlight(k, id) = 0
    BY <2>2, FS_EmptySet DEF Asked, InFlight
  <2>4. Pending(evm, id) = 0 /\ evm.fulfilled[id] = 0
    BY <1>1 DEF Pending
  <2> QED BY <2>1, <2>3, <2>4
<1> QED BY <1>2, <1>3 DEF AnsweredWithinAsked

\* Every call, callback and revert keeps it.
LEMMA AnswerNext == AnswerInv /\ [Next]_vars => AnswerInv'
<1> SUFFICES ASSUME TypeOK, AnsweredWithinAsked, FramesOpen, [Next]_vars
             PROVE  AnsweredWithinAsked' /\ FramesOpen'
  BY NextType DEF AnswerInv
<1>1. ASSUME evm'.fulfilled = evm.fulfilled,
             evm'.s_requestCommitments = evm.s_requestCommitments,
             evm'.requested = evm.requested, UNCHANGED frames
      PROVE  AnsweredWithinAsked' /\ FramesOpen'
  <2>1. \A id \in RequestId : \A n \in Nat : Balanced(evm, id, n) => Balanced(evm', id, n)
    BY <1>1 DEF Balanced, Asked, Pending
  <2> QED BY <1>1, <2>1, BalanceSameStack DEF FramesOpen
<1>2. ASSUME NEW sender \in Address, Administer(sender) \/ Subscribe(sender)
      PROVE  AnsweredWithinAsked' /\ FramesOpen'
  BY <1>1, <1>2, ManagementKeepsLedger
<1>3. ASSUME NEW sender \in Address, Request(sender)
      PROVE  AnsweredWithinAsked' /\ FramesOpen'
  <2>1. UNCHANGED frames
    BY <1>3 DEF Request, RequestRandomWords
  <2> QED BY <1>3, <2>1, RequestBalance DEF FramesOpen
<1>4. CASE NextBlock
  BY <1>1, <1>4 DEF NextBlock
<1>5. CASE UNCHANGED vars
  BY <1>1, <1>5 DEF vars
<1> QED
  BY <1>2, <1>3, <1>4, <1>5, FulfillBalance, CallbackReturnsBalance, FulfillRevertsBalance
  DEF Next

\* fulfillRandomWords answers no request twice, for any number of consumers,
\* keys, requests and nested callbacks, failing or reverting in any order.
THEOREM NoDoubleAnswer == Spec => []AnsweredWithinAsked
<1>1. AnswerInv => AnsweredWithinAsked
  BY DEF AnswerInv
<1> QED BY <1>1, AnswerInit, AnswerNext, PTL DEF Spec
=============================================================================
