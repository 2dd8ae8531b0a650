-------------------------- MODULE VRFStorageProofs --------------------------
(* What holds of the coordinator's storage at every depth of the call stack. *)
EXTENDS VRFCoordinatorProofs

-----------------------------------------------------------------------------
(* The levels of the call stack *)

\* The storage now and the storage the last fulfilment started from are levels.
LEMMA StackLevels ==
    ASSUME TypeOK
    PROVE  /\ Len(frames) \in Nat /\ Len(frames) + 1 \in Levels
           /\ Level(Len(frames) + 1) = evm
           /\ frames # <<>> => Len(frames) \in Levels /\ Level(Len(frames)) = Top.pre
<1>1. Len(frames) \in Nat /\ (frames # <<>> => Len(frames) # 0)
  BY DEF TypeOK
<1> QED BY <1>1 DEF Levels, Level, Top

\* The storage of every level is well formed.
LEMMA LevelTypes ==
    ASSUME TypeOK, NEW k \in Levels
    PROVE  Level(k) \in Storage
<1>1. frames \in Seq(Frame) /\ Len(frames) \in Nat
  BY DEF TypeOK
<1>2. CASE k = Len(frames) + 1
  BY <1>2 DEF Level, TypeOK
<1>3. CASE k # Len(frames) + 1
  <2>1. frames[k] \in Frame
    BY <1>1, <1>3 DEF Levels
  <2> QED BY <1>3, <2>1 DEF Level, Frame
<1> QED BY <1>2, <1>3

\* A step makes no storage of its own but the one it leaves: every other level
\* was there before, at the same depth.
LEMMA NewLevels ==
    ASSUME TypeOK, [Next]_vars
    PROVE  \A k \in Levels' : \/ k = Len(frames') + 1 /\ Level(k)' = evm'
                              \/ k \in Levels /\ Level(k)' = Level(k)
<1> DEFINE n == Len(frames)
<1>0. frames \in Seq(Frame) /\ n \in Nat /\ (frames # <<>> => n # 0)
  BY DEF TypeOK
<1>1. CASE UNCHANGED frames
  <2> TAKE k \in Levels'
  <2>1. k \in Levels
    BY <1>1 DEF Levels
  <2>2. Level(k)' = (IF k = n + 1 THEN evm' ELSE frames[k].pre)
    BY <1>1 DEF Level
  <2>3. Level(k) = (IF k = n + 1 THEN evm ELSE frames[k].pre) /\ Len(frames') + 1 = n + 1
    BY <1>1 DEF Level
  <2> QED BY <2>1, <2>2, <2>3
<1>2. CASE frames # <<>> /\ frames' = Pop
  <2> TAKE k \in Levels'
  <2>1. Len(frames') = n - 1 /\ \A m \in 1 .. n - 1 : frames'[m] = frames[m]
    BY <1>0, <1>2, PopType
  <2>2. k \in 1 .. n /\ Level(k)' = (IF k = n THEN evm' ELSE frames'[k].pre)
    BY <1>0, <1>2, <2>1 DEF Levels, Level
  <2>3. k # n => k \in 1 .. n - 1 /\ k # n + 1 /\ k \in Levels
    BY <1>0, <2>2 DEF Levels
  <2>4. Level(k) = (IF k = n + 1 THEN evm ELSE frames[k].pre) /\ Len(frames') + 1 = n
    BY <1>0, <2>1 DEF Level
  <2> HIDE DEF n
  <2> QED BY <2>1, <2>2, <2>3, <2>4
<1>3. ASSUME NEW sender \in Address, Fulfill(sender)
      PROVE  \A k \in Levels' : \/ k = Len(frames') + 1 /\ Level(k)' = evm'
                                \/ k \in Levels /\ Level(k)' = Level(k)
  <2> TAKE k \in Levels'
  <2>1. PICK id, rc : frames' = Append(frames, [pre |-> evm, id |-> id, rc |-> rc])
    BY <1>3 DEF Fulfill, FulfillRandomWords
  <2>2. /\ Len(frames') = n + 1 /\ frames'[n + 1].pre = evm
        /\ \A m \in 1 .. n : frames'[m] = frames[m]
    BY <1>0, <2>1
  <2>3. k \in 1 .. n + 2 /\ Level(k)' = (IF k = n + 2 THEN evm' ELSE frames'[k].pre)
    BY <1>0, <2>2 DEF Levels, Level
  <2>4. k # n + 2 => k \in Levels /\ (k = n + 1 \/ (k \in 1 .. n /\ k # n + 1))
    BY <1>0, <2>3 DEF Levels
  <2>5. Level(k) = (IF k = n + 1 THEN evm ELSE frames[k].pre) /\ Len(frames') + 1 = n + 2
    BY <1>0, <2>2 DEF Level
  <2> HIDE DEF n
  <2> QED BY <2>2, <2>3, <2>4, <2>5
<1>4. ASSUME NEW sender \in Address, Administer(sender) \/ Subscribe(sender)
      PROVE  UNCHANGED frames
  BY <1>4, ManagementKeepsLedger
<1>5. ASSUME NEW sender \in Address, Request(sender)
      PROVE  UNCHANGED frames
  BY <1>5 DEF Request, RequestRandomWords
<1>6. ASSUME NEW success \in BOOLEAN, CallbackReturns(success)
      PROVE  frames # <<>> /\ frames' = Pop
  BY <1>6 DEF CallbackReturns
<1>7. FulfillReverts => frames # <<>> /\ frames' = Pop
  BY DEF FulfillReverts
<1>8. NextBlock \/ UNCHANGED vars => UNCHANGED frames
  BY DEF NextBlock, vars
<1> HIDE DEF n
<1> QED BY <1>1, <1>2, <1>3, <1>4, <1>5, <1>6, <1>7, <1>8 DEF Next

-----------------------------------------------------------------------------
(* Lists with removal by swap *)

\* No element is in the list twice.
NoRepeats(list) == \A i, j \in DOMAIN list : list[i] = list[j] => i = j

\* A new last element.
LEMMA AppendLists ==
    ASSUME NEW S, NEW list \in Seq(S), NEW x \in S
    PROVE  /\ \A y : Listed(y, Append(list, x)) <=> Listed(y, list) \/ y = x
           /\ NoRepeats(list) /\ ~Listed(x, list) => NoRepeats(Append(list, x))
           /\ Len(Append(list, x)) = Len(list) + 1
<1> DEFINE n == Len(list)
           long == Append(list, x)
<1>1. /\ n \in Nat /\ DOMAIN list = 1 .. n /\ DOMAIN long = 1 .. n + 1 /\ Len(long) = n + 1
      /\ long[n + 1] = x /\ \A i \in 1 .. n : long[i] = list[i]
  OBVIOUS
<1> HIDE DEF n, long
<1>2. ASSUME NEW y PROVE Listed(y, long) <=> Listed(y, list) \/ y = x
  <2>1. \A i \in 1 .. n + 1 : i \in 1 .. n \/ i = n + 1
    BY <1>1
  <2>2. n + 1 \in 1 .. n + 1 /\ \A i \in 1 .. n : i \in 1 .. n + 1
    BY <1>1
  <2> QED BY <1>1, <2>1, <2>2 DEF Listed
<1>3. ASSUME NoRepeats(list), ~Listed(x, list) PROVE NoRepeats(long)
  <2> SUFFICES ASSUME NEW i \in 1 .. n + 1, NEW j \in 1 .. n + 1, long[i] = long[j]
               PROVE  i = j
    BY <1>1 DEF NoRepeats
  <2>1. (i \in 1 .. n \/ i = n + 1) /\ (j \in 1 .. n \/ j = n + 1)
    BY <1>1
  <2> QED BY <1>1, <1>3, <2>1 DEF NoRepeats, Listed
<1> QED BY <1>1, <1>2, <1>3 DEF long, n

\* SwapRemove takes exactly its element out of a list without repetitions.
LEMMA SwapRemoveLists ==
    ASSUME NEW S, NEW list \in Seq(S), NoRepeats(list), NEW x
    PROVE  /\ NoRepeats(SwapRemove(list, x))
           /\ \A y : Listed(y, SwapRemove(list, x)) <=> Listed(y, list) /\ y # x
           /\ Len(SwapRemove(list, x)) <= Len(list)
<1> DEFINE n == Len(list)
           at == CHOOSE i \in DOMAIN list : list[i] = x
           short == SwapRemove(list, x)
<1>0. n \in Nat /\ DOMAIN list = 1 .. n
  OBVIOUS
<1>1. CASE ~Listed(x, list)
  <2>1. SwapRemove(list, x) = list
    BY <1>1 DEF SwapRemove
  <2> QED BY <1>0, <1>1, <2>1
<1>2. CASE Listed(x, list)
  <2>1. at \in 1 .. n /\ list[at] = x
    BY <1>0, <1>2 DEF Listed
  <2>2. n - 1 \in Nat
    BY <1>0, <2>1
  <2>3. short = [j \in 1 .. n - 1 |-> IF j = at THEN list[n] ELSE list[j]]
    BY <1>2 DEF SwapRemove
  <2>4. /\ DOMAIN short = 1 .. n - 1 /\ Len(short) = n - 1
        /\ \A j \in 1 .. n - 1 : short[j] = IF j = at THEN list[n] ELSE list[j]
    BY <2>2, <2>3
  <2> HIDE DEF n, at, short
  <2>5. \A i, j \in 1 .. n : list[i] = list[j] => i = j
    BY <1>0 DEF NoRepeats
  <2>6. n \in 1 .. n /\ \A j \in 1 .. n - 1 : j \in 1 .. n /\ j # n
    BY <1>0, <2>1
  <2>7. NoRepeats(short)
    <3> SUFFICES ASSUME NEW i \in 1 .. n - 1, NEW j \in 1 .. n - 1, short[i] = short[j]
                 PROVE  i = j
      BY <2>4 DEF NoRepeats
    <3> QED BY <2>4, <2>5, <2>6
  <2>8. ASSUME NEW y PROVE Listed(y, short) <=> Listed(y, list) /\ y # x
    <3>1. ASSUME Listed(y, short) PROVE Listed(y, list) /\ y # x
      <4>1. PICK j \in 1 .. n - 1 : short[j] = y
        BY <2>4, <3>1 DEF Listed
      <4> QED BY <1>0, <2>1, <2>4, <2>5, <2>6, <4>1 DEF Listed
    <3>2. ASSUME Listed(y, list), y # x PROVE Listed(y, short)
      <4>1. PICK i \in 1 .. n : list[i] = y
        BY <1>0, <3>2 DEF Listed
      <4>2. i # at
        BY <2>1, <3>2, <4>1
      <4>3. CASE i = n
        <5>1. at \in 1 .. n - 1
          BY <1>0, <2>1, <4>2, <4>3
        <5> QED BY <2>4, <4>1, <4>3, <5>1 DEF Listed
      <4>4. CASE i # n
        <5>1. i \in 1 .. n - 1
          BY <1>0, <4>4
        <5> QED BY <2>4, <4>1, <4>2, <5>1 DEF Listed
      <4> QED BY <4>3, <4>4
    <3> QED BY <3>1, <3>2
  <2>9. Len(short) <= n
    BY <1>0, <2>4
  <2> QED BY <2>7, <2>8, <2>9 DEF short, n
<1> QED BY <1>1, <1>2

-----------------------------------------------------------------------------
(* The parts of the storage that calls leave alone *)

\* What no part of fulfillRandomWords writes.
KeptParts(d, e) ==
    /\ d.s_provingKeyHashes = e.s_provingKeyHashes /\ d.s_provingKeys = e.s_provingKeys
    /\ d.s_consumers = e.s_consumers /\ d.requested = e.requested
    /\ d.s_currentSubId = e.s_currentSubId
    /\ \A s \in SubId : /\ d.s_subscriptions[s].consumers = e.s_subscriptions[s].consumers
                        /\ d.s_subscriptions[s].owner = e.s_subscriptions[s].owner

\* What the two halves of fulfillRandomWords write.
LEMMA CallbackParts ==
    ASSUME NEW e \in Storage, NEW id \in RequestId, NEW rc \in RequestCommitment
    PROVE  /\ KeptParts(AtCallback(e, id), e) /\ KeptParts(AfterCallback(e, id, rc), e)
           /\ AtCallback(e, id).fulfilled = e.fulfilled
           /\ AtCallback(e, id).s_requestCommitments
                = [e.s_requestCommitments EXCEPT ![id] = NoCommitment]
           /\ AfterCallback(e, id, rc).s_requestCommitments = e.s_requestCommitments
           /\ \A i \in RequestId : AfterCallback(e, id, rc).fulfilled[i]
                                   = e.fulfilled[i] + (IF i = id THEN 1 ELSE 0)
<1>1. rc.subId \in SubId
  BY DEF RequestCommitment
<1>2. AfterCallback(e, id, rc).s_subscriptions
        = [e.s_subscriptions EXCEPT ![rc.subId].reqCount = @ + 1]
  BY DEF AfterCallback, Storage
<1>3. \A s \in SubId : e.s_subscriptions[s] \in Subscription
  BY DEF Storage
<1>4. ASSUME NEW s \in SubId
      PROVE  /\ AfterCallback(e, id, rc).s_subscriptions[s].consumers
                  = e.s_subscriptions[s].consumers
             /\ AfterCallback(e, id, rc).s_subscriptions[s].owner = e.s_subscriptions[s].owner
  BY <1>1, <1>2, <1>3 DEF Storage, Subscription
<1>5. KeptParts(AfterCallback(e, id, rc), e)
  BY <1>4 DEF AfterCallback, Storage, KeptParts
<1>6. KeptParts(AtCallback(e, id), e)
  BY DEF AtCallback, Storage, KeptParts
<1>7. \A i \in RequestId : AfterCallback(e, id, rc).fulfilled[i]
                             = e.fulfilled[i] + (IF i = id THEN 1 ELSE 0)
  <2>1. AfterCallback(e, id, rc).fulfilled = [e.fulfilled EXCEPT ![id] = @ + 1]
        /\ e.fulfilled \in [RequestId -> Nat]
    BY DEF AfterCallback, Storage
  <2> QED BY <2>1
<1> QED BY <1>5, <1>6, <1>7 DEF AtCallback, AfterCallback, Storage

\* The administrator's calls write no subscription, consumer or commitment, and
\* never take the lock.
LEMMA AdministerParts ==
    ASSUME TypeOK, NEW sender \in Address, Administer(sender)
    PROVE  /\ Guarded(evm') = Guarded(evm)
           /\ evm'.s_config.reentrancyLock => evm.s_config.reentrancyLock
<1> USE DEF TypeOK, Storage, Guarded
<1> DEFINE Kept == /\ Guarded(evm') = Guarded(evm)
                   /\ evm'.s_config.reentrancyLock => evm.s_config.reentrancyLock
<1>1. ASSUME NEW kh \in KeyHash,
             RegisterProvingKey(sender, kh) \/ DeregisterProvingKey(sender, kh)
      PROVE  Kept
  BY <1>1 DEF RegisterProvingKey, DeregisterProvingKey
<1>2. ASSUME NEW height \in Heights, NEW isZero \in BOOLEAN,
             StoreBlockHash(sender, height, isZero)
      PROVE  Kept
  BY <1>2 DEF StoreBlockHash
<1>3. ASSUME NEW minConf \in Confirmations, NEW maxGas \in GasLimits,
             SetConfig(sender, minConf, maxGas)
      PROVE  Kept
  <2>1. evm'.s_config = [minimumRequestConfirmations |-> minConf,
                         maxGasLimit |-> maxGas, reentrancyLock |-> FALSE]
        /\ Guarded(evm') = Guarded(evm)
    BY <1>3 DEF SetConfig
  <2> QED BY <2>1
<1>4. ASSUME NEW newOwner \in NewOwners, TransferOwnership(sender, newOwner)
      PROVE  Kept
  BY <1>4 DEF TransferOwnership
<1> QED BY <1>1, <1>2, <1>3, <1>4 DEF Administer

\* A request, by the event it emits.
LEMMA RequestParts ==
    ASSUME TypeOK, NEW sender \in Address, Request(sender)
    PROVE  \E event \in RequestEvent :
             /\ event.id.sender = sender /\ event.rc.sender = sender
             /\ event.rc.subId = event.id.subId /\ event.id.nonce # 0
             /\ event.rc.blockNum = blockNumber /\ UNCHANGED blockNumber
             /\ evm.s_consumers[sender][event.id.subId] # 0
             /\ evm'.requested = Append(evm.requested, event)
             /\ evm'.s_requestCommitments
                  = [evm.s_requestCommitments EXCEPT ![event.id] = event.rc]
             /\ evm'.s_consumers
                  = [evm.s_consumers EXCEPT ![sender][event.id.subId] = event.id.nonce]
             /\ evm'.s_provingKeyHashes = evm.s_provingKeyHashes
             /\ evm'.s_provingKeys = evm.s_provingKeys
             /\ evm'.s_subscriptions = evm.s_subscriptions
             /\ evm'.s_currentSubId = evm.s_currentSubId
             /\ evm'.s_config = evm.s_config /\ evm'.fulfilled = evm.fulfilled
             /\ ~evm.s_config.reentrancyLock /\ UNCHANGED frames
<1> PICK keyHash \in KeyHash, subId \in SubIds, confirmations \in Confirmations,
         gasLimit \in GasLimits, numWords \in WordCounts :
           RequestRandomWords(sender, keyHash, subId, confirmations, gasLimit, numWords)
  BY DEF Request
<1> DEFINE nonce == evm.s_consumers[sender][subId] + 1
           id == computeRequestId(keyHash, sender, subId, nonce)
           rc == [blockNum |-> blockNumber, subId |-> subId, callbackGasLimit |-> gasLimit,
                  numWords |-> numWords, sender |-> sender]
           event == [id |-> id, rc |-> rc, minimumRequestConfirmations |-> confirmations]
<1>0. evm \in Storage /\ subId \in SubId
  BY InputAssumption DEF TypeOK, SubId
<1>1. evm.s_consumers[sender][subId] \in Nonce
  BY <1>0 DEF Storage
<1>2. nonce \in Nonce /\ nonce # 0
  <2>1. Fits(nonce)
    BY DEF RequestRandomWords
  <2> QED BY <1>1, <2>1, BoundAssumption DEF Fits, Nonce
<1>3. event \in RequestEvent
  <2>1. id \in RequestId /\ rc \in RequestCommitment
    BY <1>0, <1>2 DEF computeRequestId, RequestId, RequestCommitment, TypeOK
  <2> QED BY <2>1 DEF RequestEvent
<1>4. /\ event.id = id /\ event.rc = rc /\ id.sender = sender /\ rc.sender = sender
      /\ rc.subId = subId /\ id.subId = subId /\ id.nonce = nonce /\ rc.blockNum = blockNumber
  BY DEF computeRequestId
<1>5. /\ evm' = [evm EXCEPT !.s_requestCommitments[id] = rc,
                            !.requested = Append(@, event),
                            !.s_consumers[sender][subId] = nonce]
      /\ evm.s_consumers[sender][subId] # 0
      /\ ~evm.s_config.reentrancyLock /\ UNCHANGED <<frames, blockNumber>>
  BY DEF RequestRandomWords, Commit, nonReentrant
<1> HIDE DEF nonce, id, rc, event
<1>6. /\ evm'.requested = Append(evm.requested, event)
      /\ evm'.s_requestCommitments = [evm.s_requestCommitments EXCEPT ![id] = rc]
      /\ evm'.s_consumers = [evm.s_consumers EXCEPT ![sender][subId] = nonce]
      /\ evm'.s_provingKeyHashes = evm.s_provingKeyHashes
      /\ evm'.s_provingKeys = evm.s_provingKeys
      /\ evm'.s_subscriptions = evm.s_subscriptions
      /\ evm'.s_currentSubId = evm.s_currentSubId
      /\ evm'.s_config = evm.s_config /\ evm'.fulfilled = evm.fulfilled
  BY <1>0, <1>5 DEF Storage
<1> WITNESS event \in RequestEvent
<1> QED BY <1>2, <1>4, <1>5, <1>6

\* Managing subscriptions writes neither view of the keys, and takes an open lock.
LEMMA SubscribeParts ==
    ASSUME TypeOK, NEW sender \in Address, Subscribe(sender)
    PROVE  /\ evm'.s_provingKeyHashes = evm.s_provingKeyHashes
           /\ evm'.s_provingKeys = evm.s_provingKeys
           /\ evm'.s_config = evm.s_config /\ ~evm.s_config.reentrancyLock
<1> USE DEF TypeOK, Storage, nonReentrant
<1> DEFINE Kept == /\ evm'.s_provingKeyHashes = evm.s_provingKeyHashes
                   /\ evm'.s_provingKeys = evm.s_provingKeys
                   /\ evm'.s_config = evm.s_config /\ ~evm.s_config.reentrancyLock
<1>1. ASSUME NEW subscriber, CreateSubscription(sender, subscriber) PROVE Kept
  BY <1>1 DEF CreateSubscription
<1>2. ASSUME NEW subId, NEW consumer,
             AddConsumer(sender, subId, consumer) \/ RemoveConsumer(sender, subId, consumer)
      PROVE  Kept
  BY <1>2 DEF AddConsumer, RemoveConsumer
<1>3. ASSUME NEW subId, CancelSubscription(sender, subId) PROVE Kept
  BY <1>3 DEF CancelSubscription
<1> QED BY <1>1, <1>2, <1>3 DEF Subscribe

-----------------------------------------------------------------------------
(* The key list *)

\* registerProvingKey and deregisterProvingKey write both views of the keys.
LEMMA AdministerKeys ==
    ASSUME TypeOK, ExactKeyList(evm), NEW sender \in Address, Administer(sender)
    PROVE  ExactKeyList(evm')
<1> DEFINE list == evm.s_provingKeyHashes
<1>0. evm \in Storage /\ list \in Seq(KeyHash) /\ NoRepeats(list)
  BY DEF TypeOK, Storage, ExactKeyList, NoRepeats
<1>1. ASSUME NEW kh \in KeyHash, RegisterProvingKey(sender, kh)
      PROVE  ExactKeyList(evm')
  <2>1. /\ evm'.s_provingKeyHashes = Append(list, kh)
        /\ evm'.s_provingKeys = evm.s_provingKeys \cup {kh} /\ kh \notin evm.s_provingKeys
    BY <1>0, <1>1 DEF RegisterProvingKey, Storage
  <2>2. ~Listed(kh, list)
    BY <2>1 DEF ExactKeyList
  <2>3. /\ NoRepeats(Append(list, kh))
        /\ \A y : Listed(y, Append(list, kh)) <=> Listed(y, list) \/ y = kh
    BY <1>0, <2>2, AppendLists
  <2> HIDE DEF list
  <2>4. \A y \in KeyHash : Listed(y, list) <=> y \in evm.s_provingKeys
    BY DEF ExactKeyList, list
  <2> QED BY <2>1, <2>3, <2>4 DEF ExactKeyList, NoRepeats
<1>2. ASSUME NEW kh \in KeyHash, DeregisterProvingKey(sender, kh)
      PROVE  ExactKeyList(evm')
  <2>1. /\ evm'.s_provingKeyHashes = SwapRemove(list, kh)
        /\ evm'.s_provingKeys = evm.s_provingKeys \ {kh}
    BY <1>0, <1>2 DEF DeregisterProvingKey, Storage
  <2>2. /\ NoRepeats(SwapRemove(list, kh))
        /\ \A y : Listed(y, SwapRemove(list, kh)) <=> Listed(y, list) /\ y # kh
    BY <1>0, SwapRemoveLists
  <2> HIDE DEF list
  <2>3. \A y \in KeyHash : Listed(y, list) <=> y \in evm.s_provingKeys
    BY DEF ExactKeyList, list
  <2> QED BY <2>1, <2>2, <2>3 DEF ExactKeyList, NoRepeats
<1>3. ASSUME evm'.s_provingKeyHashes = list, evm'.s_provingKeys = evm.s_provingKeys
      PROVE  ExactKeyList(evm')
  BY <1>3 DEF ExactKeyList
<1>4. ASSUME NEW height \in Heights, NEW isZero \in BOOLEAN,
             StoreBlockHash(sender, height, isZero)
      PROVE  ExactKeyList(evm')
  BY <1>0, <1>3, <1>4 DEF StoreBlockHash, Storage
<1>5. ASSUME NEW minConf \in Confirmations, NEW maxGas \in GasLimits,
             SetConfig(sender, minConf, maxGas)
      PROVE  ExactKeyList(evm')
  BY <1>0, <1>3, <1>5 DEF SetConfig, Storage
<1>6. ASSUME NEW newOwner \in NewOwners, TransferOwnership(sender, newOwner)
      PROVE  ExactKeyList(evm')
  BY <1>0, <1>3, <1>6 DEF TransferOwnership, Storage
<1> QED BY <1>1, <1>2, <1>4, <1>5, <1>6 DEF Administer

-----------------------------------------------------------------------------
(* The consumer lists *)

\* The list of one subscription, as SoundConsumerLists asks for each.
SoundList(e, s) ==
    /\ Len(e.s_subscriptions[s].consumers) <= MAX_CONSUMERS
    /\ NoRepeats(e.s_subscriptions[s].consumers)
    /\ \A a : Listed(a, e.s_subscriptions[s].consumers) => e.s_consumers[a][s] # 0

\* The consumer lists are sound one subscription at a time.
LEMMA SoundListIs == \A e : SoundConsumerLists(e) <=> \A s \in SubId : SoundList(e, s)
BY DEF SoundConsumerLists, SoundList, NoRepeats, Listed

\* A step that writes the list and the nonces of one subscription only.
LEMMA OtherLists ==
    ASSUME SoundConsumerLists(evm), NEW s0 \in SubId, SoundList(evm', s0),
           \A s \in SubId \ {s0} :
             /\ evm'.s_subscriptions[s].consumers = evm.s_subscriptions[s].consumers
             /\ \A a \in Address : evm'.s_consumers[a][s] = evm.s_consumers[a][s],
           TypeOK
    PROVE  SoundConsumerLists(evm')
<1> SUFFICES ASSUME NEW s \in SubId \ {s0} PROVE SoundList(evm', s)
  BY SoundListIs
<1>1. SoundList(evm, s)
  BY SoundListIs
<1>2. evm.s_subscriptions[s].consumers \in Seq(Address)
  BY DEF TypeOK, Storage, Subscription
<1>3. \A a : Listed(a, evm.s_subscriptions[s].consumers) => a \in Address
  BY <1>2 DEF Listed
<1> QED BY <1>1, <1>3 DEF SoundList

\* createSubscription, addConsumer, removeConsumer and cancelSubscription.
LEMMA SubscribeLists ==
    ASSUME TypeOK, SoundConsumerLists(evm), NEW sender \in Address, Subscribe(sender)
    PROVE  SoundConsumerLists(evm')
<1>0. /\ evm \in Storage /\ SubIds \subseteq SubId /\ Consumers \subseteq Address
      /\ \A s \in SubId : evm.s_subscriptions[s] \in Subscription
  BY InputAssumption DEF TypeOK, SubId, Storage
<1>e. NoRepeats(<<>>) /\ Len(<<>>) <= MAX_CONSUMERS /\ \A a : ~Listed(a, <<>>)
  BY BoundAssumption DEF NoRepeats, Listed
<1>1. ASSUME NEW subscriber \in Address, CreateSubscription(sender, subscriber)
      PROVE  SoundConsumerLists(evm')
  <2> DEFINE new == evm.s_currentSubId + 1
  <2>1. new \in SubId
    BY <1>0, <1>1, BoundAssumption DEF CreateSubscription, Storage, SubId
  <2>2. /\ evm'.s_subscriptions
             = [evm.s_subscriptions EXCEPT ![new] = [NoSubscription EXCEPT !.owner = subscriber]]
        /\ evm'.s_consumers = evm.s_consumers
    BY <1>0, <1>1 DEF CreateSubscription, NextSubId, Storage
  <2> HIDE DEF new
  <2>3. evm'.s_subscriptions[new].consumers = <<>>
    BY <1>0, <2>1, <2>2 DEF Storage, NoSubscription
  <2>4. SoundList(evm', new)
    BY <1>e, <2>3 DEF SoundList
  <2>5. \A s \in SubId \ {new} : evm'.s_subscriptions[s] = evm.s_subscriptions[s]
    BY <1>0, <2>1, <2>2 DEF Storage
  <2> QED BY <2>1, <2>2, <2>4, <2>5, OtherLists
<1>2. ASSUME NEW subId \in SubIds, NEW consumer \in Consumers,
             AddConsumer(sender, subId, consumer)
      PROVE  SoundConsumerLists(evm')
  <2> DEFINE list == evm.s_subscriptions[subId].consumers
  <2>0. subId \in SubId /\ consumer \in Address /\ list \in Seq(Address) /\ SoundList(evm, subId)
    BY <1>0, SoundListIs DEF Subscription
  <2>1. /\ evm'.s_subscriptions
             = [evm.s_subscriptions EXCEPT ![subId].consumers = Append(@, consumer)]
        /\ evm'.s_consumers = [evm.s_consumers EXCEPT ![consumer][subId] = 1]
        /\ Len(list) # MAX_CONSUMERS /\ evm.s_consumers[consumer][subId] = 0
    BY <1>0, <1>2 DEF AddConsumer, AlreadyAdded, Storage
  <2>2. evm'.s_subscriptions[subId].consumers = Append(list, consumer)
    BY <1>0, <2>0, <2>1 DEF Storage, Subscription
  <2>3. \A s \in SubId \ {subId} : evm'.s_subscriptions[s] = evm.s_subscriptions[s]
    BY <1>0, <2>0, <2>1 DEF Storage
  <2>4. /\ \A a \in Address : \A s \in SubId \ {subId} :
             evm'.s_consumers[a][s] = evm.s_consumers[a][s]
        /\ evm'.s_consumers[consumer][subId] = 1
        /\ \A a \in Address \ {consumer} : evm'.s_consumers[a] = evm.s_consumers[a]
    BY <1>0, <2>0, <2>1 DEF Storage
  <2>5. ~Listed(consumer, list) /\ NoRepeats(list) /\ Len(list) <= MAX_CONSUMERS
        /\ \A a : Listed(a, list) => evm.s_consumers[a][subId] # 0 /\ a \in Address
    BY <2>0, <2>1 DEF SoundList, Listed
  <2> HIDE DEF list
  <2>6. /\ \A y : Listed(y, Append(list, consumer)) <=> Listed(y, list) \/ y = consumer
        /\ NoRepeats(Append(list, consumer)) /\ Len(Append(list, consumer)) = Len(list) + 1
    BY <2>0, <2>5, AppendLists
  <2>7. Len(Append(list, consumer)) <= MAX_CONSUMERS
    <3>1. Len(list) \in Nat
      BY <2>0
    <3> QED BY <2>1, <2>5, <2>6, <3>1, BoundAssumption
  <2>8. \A a : Listed(a, Append(list, consumer)) => evm'.s_consumers[a][subId] # 0
    BY <2>4, <2>5, <2>6
  <2>9. SoundList(evm', subId)
    BY <2>2, <2>6, <2>7, <2>8 DEF SoundList
  <2> QED BY <2>0, <2>3, <2>4, <2>9, OtherLists
<1>3. ASSUME NEW subId \in SubIds, NEW consumer \in Consumers,
             RemoveConsumer(sender, subId, consumer)
      PROVE  SoundConsumerLists(evm')
  <2> DEFINE list == evm.s_subscriptions[subId].consumers
  <2>0. subId \in SubId /\ consumer \in Address /\ list \in Seq(Address) /\ SoundList(evm, subId)
    BY <1>0, SoundListIs DEF Subscription
  <2>1. /\ evm'.s_subscriptions
             = [evm.s_subscriptions EXCEPT ![subId].consumers = SwapRemove(@, consumer)]
        /\ evm'.s_consumers = [evm.s_consumers EXCEPT ![consumer][subId] = 0]
    BY <1>0, <1>3 DEF RemoveConsumer, Storage
  <2>2. evm'.s_subscriptions[subId].consumers = SwapRemove(list, consumer)
    BY <1>0, <2>0, <2>1 DEF Storage, Subscription
  <2>3. \A s \in SubId \ {subId} : evm'.s_subscriptions[s] = evm.s_subscriptions[s]
    BY <1>0, <2>0, <2>1 DEF Storage
  <2>4. /\ \A a \in Address : \A s \in SubId \ {subId} :
             evm'.s_consumers[a][s] = evm.s_consumers[a][s]
        /\ \A a \in Address \ {consumer} : evm'.s_consumers[a] = evm.s_consumers[a]
    BY <1>0, <2>0, <2>1 DEF Storage
  <2>5. NoRepeats(list) /\ Len(list) <= MAX_CONSUMERS
        /\ \A a : Listed(a, list) => evm.s_consumers[a][subId] # 0 /\ a \in Address
    BY <2>0 DEF SoundList, Listed
  <2> HIDE DEF list
  <2>6. /\ \A y : Listed(y, SwapRemove(list, consumer)) <=> Listed(y, list) /\ y # consumer
        /\ NoRepeats(SwapRemove(list, consumer))
        /\ Len(SwapRemove(list, consumer)) <= Len(list)
    BY <2>0, <2>5, SwapRemoveLists
  <2>7. Len(SwapRemove(list, consumer)) <= MAX_CONSUMERS
    <3>1. Len(list) \in Nat /\ SwapRemove(list, consumer) \in Seq(Address)
      BY <2>0, SwapRemoveType
    <3>2. Len(SwapRemove(list, consumer)) \in Nat
      BY <3>1
    <3> QED BY <2>5, <2>6, <3>1, <3>2, BoundAssumption
  <2>8. \A a : Listed(a, SwapRemove(list, consumer)) => evm'.s_consumers[a][subId] # 0
    BY <2>4, <2>5, <2>6
  <2>9. SoundList(evm', subId)
    BY <2>2, <2>6, <2>7, <2>8 DEF SoundList
  <2> QED BY <2>0, <2>3, <2>4, <2>9, OtherLists
<1>4. ASSUME NEW subId \in SubIds, CancelSubscription(sender, subId)
      PROVE  SoundConsumerLists(evm')
  <2>1. /\ evm'.s_subscriptions = [evm.s_subscriptions EXCEPT ![subId] = NoSubscription]
        /\ evm'.s_consumers = [a \in Address |->
              IF Listed(a, evm.s_subscriptions[subId].consumers)
                THEN [evm.s_consumers[a] EXCEPT ![subId] = 0]
                ELSE evm.s_consumers[a]]
    BY <1>0, <1>4 DEF CancelSubscription, Storage
  <2>2. evm'.s_subscriptions[subId].consumers = <<>>
    BY <1>0, <2>1 DEF Storage, NoSubscription
  <2>3. SoundList(evm', subId)
    BY <1>e, <2>2 DEF SoundList
  <2>4. /\ \A s \in SubId \ {subId} : evm'.s_subscriptions[s] = evm.s_subscriptions[s]
        /\ \A a \in Address : \A s \in SubId \ {subId} :
             evm'.s_consumers[a][s] = evm.s_consumers[a][s]
    BY <1>0, <2>1 DEF Storage
  <2> QED BY <1>0, <2>3, <2>4, OtherLists
<1> QED BY <1>1, <1>2, <1>3, <1>4, InputAssumption DEF Subscribe

\* A request only raises the nonce of its consumer.
LEMMA RequestLists ==
    ASSUME TypeOK, SoundConsumerLists(evm), NEW sender \in Address, Request(sender)
    PROVE  SoundConsumerLists(evm')
<1> PICK event \in RequestEvent :
      /\ event.id.nonce # 0 /\ evm'.s_subscriptions = evm.s_subscriptions
      /\ evm'.s_consumers
           = [evm.s_consumers EXCEPT ![sender][event.id.subId] = event.id.nonce]
  BY RequestParts
<1>1. evm \in Storage /\ event.id.subId \in SubId
  BY DEF TypeOK, RequestEvent, RequestId
<1>2. \A a \in Address, s \in SubId :
        evm.s_consumers[a][s] # 0 => evm'.s_consumers[a][s] # 0
  BY <1>1 DEF Storage
<1> SUFFICES ASSUME NEW s \in SubId PROVE SoundList(evm', s)
  BY SoundListIs
<1>3. SoundList(evm, s) /\ evm.s_subscriptions[s].consumers \in Seq(Address)
  BY <1>1, SoundListIs DEF Storage, Subscription
<1> QED BY <1>2, <1>3 DEF SoundList, Listed

-----------------------------------------------------------------------------
(* The commitments *)

\* The event of a request is the last of its id, and its commitment the event's.
LEMMA RequestCommitments ==
    ASSUME TypeOK, OpenableCommitments(evm), NEW sender \in Address, Request(sender)
    PROVE  OpenableCommitments(evm')
<1> PICK event \in RequestEvent :
      /\ event.id.sender = sender /\ event.rc.sender = sender
      /\ event.rc.subId = event.id.subId
      /\ evm'.requested = Append(evm.requested, event)
      /\ evm'.s_requestCommitments
           = [evm.s_requestCommitments EXCEPT ![event.id] = event.rc]
  BY RequestParts
<1> DEFINE n == Len(evm.requested)
<1>1. /\ evm.requested \in Seq(RequestEvent) /\ n \in Nat /\ event.id \in RequestId
      /\ DOMAIN evm.s_requestCommitments = RequestId
  BY DEF TypeOK, Storage, RequestEvent
<1>2. /\ DOMAIN evm.requested = 1 .. n /\ DOMAIN evm'.requested = 1 .. n + 1
      /\ evm'.requested[n + 1] = event
      /\ \A i \in 1 .. n : evm'.requested[i] = evm.requested[i]
  BY <1>1
<1> HIDE DEF n
<1> SUFFICES ASSUME NEW id \in RequestId, evm'.s_requestCommitments[id] # NoCommitment
             PROVE  /\ evm'.s_requestCommitments[id].sender = id.sender
                    /\ evm'.s_requestCommitments[id].subId = id.subId
                    /\ \E i \in DOMAIN evm'.requested :
                         /\ evm'.requested[i].id = id
                         /\ evm'.requested[i].rc = evm'.s_requestCommitments[id]
                         /\ \A j \in DOMAIN evm'.requested :
                              evm'.requested[j].id = id => j <= i
  BY DEF OpenableCommitments
<1>3. CASE id = event.id
  <2>1. evm'.s_requestCommitments[id] = event.rc
    BY <1>1, <1>3
  <2>2. n + 1 \in 1 .. n + 1 /\ \A j \in 1 .. n + 1 : j <= n + 1
    BY <1>1
  <2> QED BY <1>2, <1>3, <2>1, <2>2
<1>4. CASE id # event.id
  <2>1. evm'.s_requestCommitments[id] = evm.s_requestCommitments[id]
    BY <1>1, <1>4
  <2>2. /\ evm.s_requestCommitments[id].sender = id.sender
        /\ evm.s_requestCommitments[id].subId = id.subId
    BY <2>1 DEF OpenableCommitments
  <2>3. PICK i \in 1 .. n :
          /\ evm.requested[i].id = id /\ evm.requested[i].rc = evm.s_requestCommitments[id]
          /\ \A j \in 1 .. n : evm.requested[j].id = id => j <= i
    BY <1>2, <2>1 DEF OpenableCommitments
  <2>4. i \in 1 .. n + 1 /\ \A j \in 1 .. n + 1 : j \in 1 .. n \/ j = n + 1
    BY <1>1
  <2>5. \A j \in 1 .. n + 1 : evm'.requested[j].id = id => j <= i
    BY <1>2, <1>4, <2>3, <2>4
  <2> QED BY <1>2, <2>1, <2>2, <2>3, <2>4, <2>5
<1> QED BY <1>3, <1>4

-----------------------------------------------------------------------------
(* The storage at every level *)

\* What StorageInv says of the storage at a level.
SoundStorage(e) == ExactKeyList(e) /\ SoundConsumerLists(e) /\ OpenableCommitments(e)

\* Both halves of fulfillRandomWords keep a storage sound.
LEMMA CallbackSound ==
    ASSUME NEW e \in Storage, SoundStorage(e),
           NEW id \in RequestId, NEW rc \in RequestCommitment
    PROVE  SoundStorage(AtCallback(e, id)) /\ SoundStorage(AfterCallback(e, id, rc))
<1>1. ASSUME NEW d, KeptParts(d, e) PROVE ExactKeyList(d)
  BY <1>1 DEF SoundStorage, ExactKeyList, KeptParts
<1>2. ASSUME NEW d, KeptParts(d, e) PROVE SoundConsumerLists(d)
  BY <1>2 DEF SoundStorage, SoundConsumerLists, KeptParts
<1>3. ASSUME NEW d, KeptParts(d, e),
             \A i \in RequestId : \/ d.s_requestCommitments[i] = NoCommitment
                                  \/ d.s_requestCommitments[i] = e.s_requestCommitments[i]
      PROVE  OpenableCommitments(d)
  <2> SUFFICES ASSUME NEW i \in RequestId, d.s_requestCommitments[i] # NoCommitment
               PROVE  /\ d.s_requestCommitments[i].sender = i.sender
                      /\ d.s_requestCommitments[i].subId = i.subId
                      /\ \E k \in DOMAIN d.requested :
                           /\ d.requested[k].id = i
                           /\ d.requested[k].rc = d.s_requestCommitments[i]
                           /\ \A j \in DOMAIN d.requested : d.requested[j].id = i => j <= k
    BY DEF OpenableCommitments
  <2>1. d.s_requestCommitments[i] = e.s_requestCommitments[i] /\ d.requested = e.requested
    BY <1>3 DEF KeptParts
  <2> QED BY <2>1 DEF SoundStorage, OpenableCommitments
<1>4. /\ KeptParts(AtCallback(e, id), e) /\ KeptParts(AfterCallback(e, id, rc), e)
      /\ AfterCallback(e, id, rc).s_requestCommitments = e.s_requestCommitments
      /\ \A i \in RequestId :
           \/ AtCallback(e, id).s_requestCommitments[i] = NoCommitment
           \/ AtCallback(e, id).s_requestCommitments[i] = e.s_requestCommitments[i]
  <2>1. DOMAIN e.s_requestCommitments = RequestId
    BY DEF Storage
  <2>2. /\ KeptParts(AtCallback(e, id), e) /\ KeptParts(AfterCallback(e, id, rc), e)
        /\ AfterCallback(e, id, rc).s_requestCommitments = e.s_requestCommitments
        /\ AtCallback(e, id).s_requestCommitments
             = [e.s_requestCommitments EXCEPT ![id] = NoCommitment]
    BY CallbackParts
  <2> QED BY <2>1, <2>2
<1>5. OpenableCommitments(AtCallback(e, id)) /\ OpenableCommitments(AfterCallback(e, id, rc))
  <2>1. OpenableCommitments(AtCallback(e, id))
    BY <1>3, <1>4
  <2>2. \A i \in RequestId :
          AfterCallback(e, id, rc).s_requestCommitments[i] = e.s_requestCommitments[i]
    BY <1>4
  <2>3. OpenableCommitments(AfterCallback(e, id, rc))
    BY <1>3, <1>4, <2>2
  <2> QED BY <2>1, <2>3
<1>6. ExactKeyList(AtCallback(e, id)) /\ ExactKeyList(AfterCallback(e, id, rc))
  BY <1>1, <1>4
<1>7. SoundConsumerLists(AtCallback(e, id)) /\ SoundConsumerLists(AfterCallback(e, id, rc))
  BY <1>2, <1>4
<1> QED BY <1>5, <1>6, <1>7 DEF SoundStorage

\* The inductive invariant: the storage is sound at every level, also the ones a
\* revert or a failed callback goes back to.
StorageInv == TypeOK /\ \A k \in Levels : SoundStorage(Level(k))

\* The storage of a new contract is sound.
LEMMA StorageInit == Init => StorageInv
<1> SUFFICES ASSUME Init PROVE \A k \in Levels : SoundStorage(Level(k))
  BY InitType DEF StorageInv
<1>1. /\ frames = <<>> /\ evm.requested = <<>>
      /\ evm.s_provingKeyHashes = <<>> /\ evm.s_provingKeys = {}
      /\ \A s \in SubId : evm.s_subscriptions[s].consumers = <<>>
      /\ \A id \in RequestId : evm.s_requestCommitments[id] = NoCommitment
  BY DEF Init, initialize, NoSubscription
<1>2. \A k \in Levels : Level(k) = evm
  BY <1>1 DEF Levels, Level
<1>3. ExactKeyList(evm)
  BY <1>1 DEF ExactKeyList, Listed
<1>4. SoundConsumerLists(evm)
  BY <1>1, BoundAssumption DEF SoundConsumerLists
<1>5. OpenableCommitments(evm)
  BY <1>1 DEF OpenableCommitments
<1> QED BY <1>2, <1>3, <1>4, <1>5 DEF SoundStorage

\* Every step keeps the storage of every level sound.
LEMMA StorageNext == StorageInv /\ [Next]_vars => StorageInv'
<1> SUFFICES ASSUME StorageInv, [Next]_vars PROVE SoundStorage(evm')
  BY NewLevels, NextType DEF StorageInv
<1>1. /\ TypeOK /\ evm \in Storage /\ SoundStorage(evm)
      /\ frames # <<>> => SoundStorage(Top.pre)
  BY StackLevels DEF StorageInv, TypeOK
<1>2. frames # <<>> => /\ Top.pre \in Storage /\ Top.id \in RequestId
                       /\ Top.rc \in RequestCommitment
  BY <1>1, PopType DEF TypeOK
<1>3. ASSUME NEW sender \in Address, Administer(sender)
      PROVE  SoundStorage(evm')
  <2>1. ExactKeyList(evm')
    BY <1>1, <1>3, AdministerKeys DEF SoundStorage
  <2>2. Guarded(evm') = Guarded(evm)
    BY <1>1, <1>3, AdministerParts
  <2>3. /\ evm'.s_consumers = evm.s_consumers /\ evm'.s_subscriptions = evm.s_subscriptions
        /\ evm'.s_requestCommitments = evm.s_requestCommitments
        /\ evm'.requested = evm.requested
    BY <2>2 DEF Guarded
  <2>4. SoundConsumerLists(evm')
    BY <1>1, <2>3 DEF SoundStorage, SoundConsumerLists
  <2>5. OpenableCommitments(evm')
    BY <1>1, <2>3 DEF SoundStorage, OpenableCommitments
  <2> QED BY <2>1, <2>4, <2>5 DEF SoundStorage
<1>4. ASSUME NEW sender \in Address, Subscribe(sender)
      PROVE  SoundStorage(evm')
  <2>1. ExactKeyList(evm')
    BY <1>1, <1>4, SubscribeParts DEF SoundStorage, ExactKeyList
  <2>2. SoundConsumerLists(evm')
    BY <1>1, <1>4, SubscribeLists DEF SoundStorage
  <2>3. OpenableCommitments(evm')
    BY <1>1, <1>4, ManagementKeepsLedger DEF SoundStorage, OpenableCommitments
  <2> QED BY <2>1, <2>2, <2>3 DEF SoundStorage
<1>5. ASSUME NEW sender \in Address, Request(sender)
      PROVE  SoundStorage(evm')
  <2>0. /\ evm'.s_provingKeyHashes = evm.s_provingKeyHashes
        /\ evm'.s_provingKeys = evm.s_provingKeys
    BY <1>1, <1>5, RequestParts
  <2>1. ExactKeyList(evm')
    BY <1>1, <2>0 DEF SoundStorage, ExactKeyList
  <2> QED BY <1>1, <1>5, <2>1, RequestLists, RequestCommitments DEF SoundStorage
<1>6. ASSUME NEW sender \in Address, Fulfill(sender)
      PROVE  SoundStorage(evm')
  <2>1. PICK i \in DOMAIN evm.requested, j \in DOMAIN evm.requested :
          FulfillRandomWords(sender, evm.requested[i].id, evm.requested[j].rc)
    BY <1>6 DEF Fulfill
  <2>2. /\ evm' = AtCallback(evm, evm.requested[i].id)
        /\ evm.requested[i] \in RequestEvent /\ evm.requested[j] \in RequestEvent
    BY <1>1, <2>1 DEF FulfillRandomWords, Storage
  <2> QED BY <1>1, <2>2, CallbackSound DEF RequestEvent
<1>7. ASSUME NEW success \in BOOLEAN, CallbackReturns(success)
      PROVE  SoundStorage(evm')
  <2> DEFINE e == IF success THEN evm ELSE AtCallback(Top.pre, Top.id)
  <2>1. frames # <<>> /\ evm' = AfterCallback(e, Top.id, Top.rc)
    BY <1>7 DEF CallbackReturns
  <2>2. e \in Storage /\ SoundStorage(e)
    BY <1>1, <1>2, <2>1, AtCallbackType, CallbackSound
  <2> HIDE DEF e
  <2> QED BY <1>2, <2>1, <2>2, CallbackSound
<1>8. FulfillReverts => SoundStorage(evm')
  BY <1>1 DEF FulfillReverts
<1>9. NextBlock \/ UNCHANGED vars => SoundStorage(evm')
  BY <1>1 DEF NextBlock, vars
<1> QED BY <1>3, <1>4, <1>5, <1>6, <1>7, <1>8, <1>9 DEF Next

\* The storage is sound at every level of every reachable call stack.
LEMMA StorageCorrect == Spec => []StorageInv
<1> QED BY StorageInit, StorageNext, PTL DEF Spec

\* The array and the map of registerProvingKey / deregisterProvingKey stay two
\* views of one set, whatever is registered, removed or reverted.
THEOREM KeyViewsAgree == Spec => []KeyListExact
<1>1. StorageInv => KeyListExact
  BY DEF StorageInv, SoundStorage, KeyListExact
<1> QED BY <1>1, StorageCorrect, PTL

\* addConsumer / removeConsumer / cancelSubscription keep every list within
\* MAX_CONSUMERS, without repetitions and in step with the nonces.
THEOREM ConsumersListed == Spec => []ConsumerListSound
<1>1. StorageInv => ConsumerListSound
  BY DEF StorageInv, SoundStorage, ConsumerListSound
<1> QED BY <1>1, StorageCorrect, PTL

\* Every commitment requestRandomWords stores can be opened from the events
\* until a fulfilment deletes it.
THEOREM CommitmentsOpen == Spec => []CommitmentOpenable
<1>1. StorageInv => CommitmentOpenable
  BY DEF StorageInv, SoundStorage, CommitmentOpenable
<1> QED BY <1>1, StorageCorrect, PTL
=============================================================================
