--------------------------- MODULE VRFCoordinator ---------------------------
(***************************************************************************)
(* The coordinator contract of how-to/2.deploy-vrf/vrf/contracts/          *)
(* VRFCoordinator.sol, one action per external function that can change    *)
(* the contract's storage.                                                 *)
(*                                                                         *)
(* The EVM runs one call at a time, and a call that reverts leaves no      *)
(* trace, so a call is one step, with one exception: fulfillRandomWords    *)
(* hands control to the consumer contract in the middle of its body.  It   *)
(* is three steps (before the callback, after it, and the revert of the    *)
(* whole call) and `frames' is the stack of fulfilments that wait for      *)
(* their callback.  Everything a revert undoes, storage and event logs, is *)
(* in the single record `evm'; a frame keeps the value to go back to.      *)
(***************************************************************************)
EXTENDS Integers, Sequences, FiniteSets

CONSTANTS
    Address,        \* account addresses, ZeroAddress included
    ZeroAddress,    \* address(0)
    Contract,       \* the addresses that have code
    Deployer,       \* msg.sender of initialize
    KeyHash,        \* hashes of proving keys
    NoCommitment,   \* the zero word of s_requestCommitments
    MaxSubId,       \* largest subscription id   (2^64-1 in the contract)
    MaxNonce,       \* largest nonce, and reqCount (2^64-1 in the contract)
    MAX_CONSUMERS, MAX_REQUEST_CONFIRMATIONS, MAX_NUM_WORDS,
    BlockHashWindow,\* how many recent hashes BLOCKHASH serves (256)
    (* the arguments callers choose *)
    Confirmations,  \* of (minimum)RequestConfirmations
    GasLimits,      \* of max/callbackGasLimit
    WordCounts,     \* of numWords
    Subscribers,    \* of createSubscription(address)
    Consumers,      \* of addConsumer and removeConsumer
    SubIds,         \* of every function that takes a subId
    NewOwners,      \* of transferOwnership (ZeroAddress: renounceOwnership)
    Heights,        \* of storeBlockHash
    (* bounds of the model *)
    MaxHeight,      \* bound on the block number
    MaxRequests,    \* bound on the number of request events
    MaxDepth        \* bound on nested fulfilments

ASSUME AddressAssumption ==
    /\ ZeroAddress \in Address
    /\ Contract \subseteq Address \ {ZeroAddress}
    /\ Deployer \in Address \ {ZeroAddress}

ASSUME BoundAssumption ==
    /\ MaxSubId \in Nat /\ MaxNonce \in Nat \ {0}
    /\ MAX_CONSUMERS \in Nat /\ MAX_REQUEST_CONFIRMATIONS \in Nat
    /\ MAX_NUM_WORDS \in Nat /\ BlockHashWindow \in Nat
    /\ MaxHeight \in Nat /\ MaxRequests \in Nat /\ MaxDepth \in Nat

ASSUME InputAssumption ==
    /\ Confirmations \subseteq Nat /\ GasLimits \subseteq Nat /\ WordCounts \subseteq Nat
    /\ Subscribers \subseteq Address /\ Consumers \subseteq Address
    /\ NewOwners \subseteq Address
    /\ SubIds \subseteq 0 .. MaxSubId /\ Heights \subseteq Nat

SubId == 0 .. MaxSubId
Nonce == 0 .. MaxNonce

\* keccak256(keccak256(keyHash, sender, subId, nonce)) is taken to be
\* injective: a request id is the tuple it is the hash of.
RequestId ==
    [keyHash : KeyHash, sender : Address, subId : SubId, nonce : Nonce]

RequestCommitment ==
    [blockNum : Nat, subId : SubId, callbackGasLimit : GasLimits,
     numWords : WordCounts, sender : Address]

ASSUME CommitmentAssumption == NoCommitment \notin RequestCommitment

Subscription == [owner : Address, reqCount : Nonce, consumers : Seq(Address)]

Config == [minimumRequestConfirmations : Confirmations, maxGasLimit : GasLimits,
           reentrancyLock : BOOLEAN]

\* event RandomWordsRequested: the id, the values the commitment hashes, and
\* the confirmations asked for, which the contract checks but does not keep.
RequestEvent ==
    [id : RequestId, rc : RequestCommitment, minimumRequestConfirmations : Confirmations]

\* What a revert restores: the storage slots, and the two event logs the
\* contract's users rely on: the sequence of RandomWordsRequested and the
\* number of RandomWordsFulfilled per id.
Storage ==
    [owner : Address,
     s_currentSubId : SubId,
     s_provingKeyHashes : Seq(KeyHash),
     s_provingKeys : SUBSET KeyHash,
     s_consumers : [Address -> [SubId -> Nonce]],
     s_subscriptions : [SubId -> Subscription],
     s_requestCommitments : [RequestId -> RequestCommitment \cup {NoCommitment}],
     s_blockStore : SUBSET Nat,
     s_config : Config,
     requested : Seq(RequestEvent),
     fulfilled : [RequestId -> Nat]]

Frame == [pre : Storage, id : RequestId, rc : RequestCommitment]

VARIABLES evm, blockNumber, frames
vars == <<evm, blockNumber, frames>>

-----------------------------------------------------------------------------
(* Helpers *)

Listed(x, list) == \E i \in DOMAIN list : list[i] = x

\* Mutant: only pops.
SwapRemovePopsOnly(list, x) ==
    IF Listed(x, list) THEN SubSeq(list, 1, Len(list) - 1) ELSE list

\* The position of x is overwritten with the last element, which is popped.
SwapRemove(list, x) ==
    LET at == CHOOSE i \in DOMAIN list : list[i] = x
    IN  IF Listed(x, list)
          THEN [j \in 1 .. Len(list) - 1 |-> IF j = at THEN list[Len(list)] ELSE list[j]]
          ELSE list

\* Mutant: no overflow check.
FitsAlways(n) == TRUE

\* Solidity 0.8 arithmetic reverts when a uint64 overflows.
Fits(n) == n <= MaxNonce

NoSubscription == [owner |-> ZeroAddress, reqCount |-> 0, consumers |-> <<>>]

computeRequestId(keyHash, sender, subId, nonce) ==
    [keyHash |-> keyHash, sender |-> sender, subId |-> subId, nonce |-> nonce]

\* Who may be msg.sender now: anyone between transactions, a contract (the
\* consumer or one it calls) while a callback runs.
MayCall(sender) ==
    /\ sender # ZeroAddress
    /\ frames # <<>> => sender \in Contract

\* Mutant: the lock is not looked at.
nonReentrantIgnored(e) == TRUE

nonReentrant(e) == ~e.s_config.reentrancyLock

onlyOwner(e, sender) == sender = e.owner

onlySubOwnerOrAdmin(e, sender, subId) ==
    \/ sender = e.owner
    \/ /\ e.s_subscriptions[subId].owner # ZeroAddress
       /\ sender = e.s_subscriptions[subId].owner

\* BLOCKHASH(n) is not zero, or the owner has uploaded a hash for n.
BlockHashFound(e, n) ==
    \/ n < blockNumber /\ blockNumber <= n + BlockHashWindow
    \/ n \in e.s_blockStore

\* The only nonce asked about is the consumer's latest, and the only keys the
\* registered ones.
pendingRequestExists(e, subId) ==
    LET consumers == e.s_subscriptions[subId].consumers
        keys == e.s_provingKeyHashes
    IN  \E i \in DOMAIN consumers, j \in DOMAIN keys :
          e.s_requestCommitments[computeRequestId(keys[j], consumers[i], subId,
                                   e.s_consumers[consumers[i]][subId])] # NoCommitment

-----------------------------------------------------------------------------
(* Administration *)

\* The storage initialize leaves; it does not bound minConf.
initialize(minConf, maxGas) ==
    [owner |-> Deployer,
     s_currentSubId |-> 0,
     s_provingKeyHashes |-> <<>>,
     s_provingKeys |-> {},
     s_consumers |-> [a \in Address |-> [s \in SubId |-> 0]],
     s_subscriptions |-> [s \in SubId |-> NoSubscription],
     s_requestCommitments |-> [id \in RequestId |-> NoCommitment],
     s_blockStore |-> {},
     s_config |-> [minimumRequestConfirmations |-> minConf,
                   maxGasLimit |-> maxGas, reentrancyLock |-> FALSE],
     requested |-> <<>>,
     fulfilled |-> [id \in RequestId |-> 0]]

Init ==
    /\ \E minConf \in Confirmations, maxGas \in GasLimits : evm = initialize(minConf, maxGas)
    /\ blockNumber = 1
    /\ frames = <<>>

RegisterProvingKey(sender, kh) ==
    /\ MayCall(sender) /\ onlyOwner(evm, sender)
    /\ kh \notin evm.s_provingKeys
    /\ evm' = [evm EXCEPT !.s_provingKeys = @ \cup {kh},
                          !.s_provingKeyHashes = Append(@, kh)]
    /\ UNCHANGED <<blockNumber, frames>>

DeregisterProvingKey(sender, kh) ==
    /\ MayCall(sender) /\ onlyOwner(evm, sender)
    /\ kh \in evm.s_provingKeys
    /\ evm' = [evm EXCEPT !.s_provingKeys = @ \ {kh},
                          !.s_provingKeyHashes = SwapRemove(@, kh)]
    /\ UNCHANGED <<blockNumber, frames>>

\* Storing the zero word (isZero) clears the slot.
StoreBlockHash(sender, height, isZero) ==
    /\ MayCall(sender) /\ onlyOwner(evm, sender)
    /\ evm' = [evm EXCEPT !.s_blockStore = IF isZero THEN @ \ {height} ELSE @ \cup {height}]
    /\ UNCHANGED <<blockNumber, frames>>

\* Overwrites the whole Config word, the lock included.
SetConfig(sender, minConf, maxGas) ==
    /\ MayCall(sender) /\ onlyOwner(evm, sender)
    /\ minConf <= MAX_REQUEST_CONFIRMATIONS
    /\ evm' = [evm EXCEPT !.s_config = [minimumRequestConfirmations |-> minConf,
                                        maxGasLimit |-> maxGas, reentrancyLock |-> FALSE]]
    /\ UNCHANGED <<blockNumber, frames>>

\* OwnableUpgradeable: transferOwnership refuses address(0), renounceOwnership
\* sets it.
TransferOwnership(sender, newOwner) ==
    /\ MayCall(sender) /\ onlyOwner(evm, sender)
    /\ evm' = [evm EXCEPT !.owner = newOwner]
    /\ UNCHANGED <<blockNumber, frames>>

-----------------------------------------------------------------------------
(* Subscriptions *)

\* Mutant: the lowest id without an owner is used again.
NextSubIdReused(e) ==
    CHOOSE s \in 1 .. MaxSubId : e.s_subscriptions[s].owner = ZeroAddress

\* ++s_currentSubId
NextSubId(e) == e.s_currentSubId + 1

\* createSubscription() makes msg.sender the owner; createSubscription(address)
\* lets the contract's owner name any subscriber, address(0) included.
CreateSubscription(sender, subscriber) ==
    /\ MayCall(sender) /\ nonReentrant(evm)
    /\ subscriber = sender \/ onlyOwner(evm, sender)
    /\ evm.s_currentSubId < MaxSubId
    /\ LET subId == NextSubId(evm)
       IN  evm' = [evm EXCEPT !.s_currentSubId = subId,
                              !.s_subscriptions[subId] = [NoSubscription EXCEPT !.owner = subscriber]]
    /\ UNCHANGED <<blockNumber, frames>>

\* Mutant: a consumer can be added again.
AlreadyAddedIgnored(e, subId, consumer) == FALSE

AlreadyAdded(e, subId, consumer) == e.s_consumers[consumer][subId] # 0

\* The return for a consumer that is already there is a stuttering step.
AddConsumer(sender, subId, consumer) ==
    /\ MayCall(sender) /\ onlySubOwnerOrAdmin(evm, sender, subId) /\ nonReentrant(evm)
    /\ Len(evm.s_subscriptions[subId].consumers) # MAX_CONSUMERS
    /\ ~AlreadyAdded(evm, subId, consumer)
    /\ evm' = [evm EXCEPT !.s_consumers[consumer][subId] = 1,
                          !.s_subscriptions[subId].consumers = Append(@, consumer)]
    /\ UNCHANGED <<blockNumber, frames>>

\* consumers.length - 1 is checked arithmetic: an empty list reverts.
RemoveConsumer(sender, subId, consumer) ==
    /\ MayCall(sender) /\ onlySubOwnerOrAdmin(evm, sender, subId) /\ nonReentrant(evm)
    /\ evm.s_consumers[consumer][subId] # 0
    /\ evm.s_subscriptions[subId].consumers # <<>>
    /\ evm' = [evm EXCEPT !.s_consumers[consumer][subId] = 0,
                          !.s_subscriptions[subId].consumers = SwapRemove(@, consumer)]
    /\ UNCHANGED <<blockNumber, frames>>

CancelSubscription(sender, subId) ==
    /\ MayCall(sender) /\ onlySubOwnerOrAdmin(evm, sender, subId) /\ nonReentrant(evm)
    /\ ~pendingRequestExists(evm, subId)
    /\ evm' = [evm EXCEPT
                 !.s_consumers = [a \in Address |->
                    IF Listed(a, evm.s_subscriptions[subId].consumers)
                      THEN [evm.s_consumers[a] EXCEPT ![subId] = 0]
                      ELSE evm.s_consumers[a]],
                 !.s_subscriptions[subId] = NoSubscription]
    /\ UNCHANGED <<blockNumber, frames>>

-----------------------------------------------------------------------------
(* Requests and their fulfilment *)

\* Mutant: a commitment that is still there is kept.
CommitKeepsOld(e, id, rc) ==
    IF e.s_requestCommitments[id] = NoCommitment THEN rc ELSE e.s_requestCommitments[id]

\* The word stored for a new request: it overwrites whatever was there.
Commit(e, id, rc) == rc

RequestRandomWords(sender, keyHash, subId, confirmations, gasLimit, numWords) ==
    LET nonce == evm.s_consumers[sender][subId] + 1
        id == computeRequestId(keyHash, sender, subId, nonce)
        rc == [blockNum |-> blockNumber, subId |-> subId, callbackGasLimit |-> gasLimit,
               numWords |-> numWords, sender |-> sender]
    IN  /\ MayCall(sender) /\ nonReentrant(evm)
        /\ evm.s_subscriptions[subId].owner # ZeroAddress
        /\ evm.s_consumers[sender][subId] # 0
        /\ confirmations >= evm.s_config.minimumRequestConfirmations
        /\ confirmations <= MAX_REQUEST_CONFIRMATIONS
        /\ gasLimit <= evm.s_config.maxGasLimit
        /\ numWords <= MAX_NUM_WORDS
        /\ Fits(nonce)
        /\ Len(evm.requested) < MaxRequests
        /\ evm' = [evm EXCEPT
                     !.s_requestCommitments[id] = Commit(evm, id, rc),
                     !.requested = Append(@, [id |-> id, rc |-> rc,
                                              minimumRequestConfirmations |-> confirmations]),
                     !.s_consumers[sender][subId] = nonce]
        /\ UNCHANGED <<blockNumber, frames>>

\* getRandomnessFromProof: the proof's key and seed determine the id.
getRandomnessFromProof(e, id, rc) ==
    /\ id.keyHash \in e.s_provingKeys
    /\ e.s_requestCommitments[id] # NoCommitment
    /\ e.s_requestCommitments[id] = rc
    /\ BlockHashFound(e, rc.blockNum)

\* Mutant: the commitment is not deleted.
AtCallbackKeepsCommitment(e, id) == [e EXCEPT !.s_config.reentrancyLock = TRUE]

\* The storage the consumer's callback starts from.
AtCallback(e, id) ==
    [e EXCEPT !.s_requestCommitments[id] = NoCommitment, !.s_config.reentrancyLock = TRUE]

\* Mutant: the lock stays held.
AfterCallbackLocked(e, id, rc) ==
    [e EXCEPT !.s_blockStore = @ \ {rc.blockNum},
              !.s_subscriptions[rc.subId].reqCount = @ + 1,
              !.fulfilled[id] = @ + 1]

\* Mutant: the subscription's counter was read before the callback.
AfterCallbackStaleCount(e, id, rc) ==
    [e EXCEPT !.s_config.reentrancyLock = FALSE,
              !.s_blockStore = @ \ {rc.blockNum},
              !.s_subscriptions[rc.subId].reqCount =
                  frames[Len(frames)].pre.s_subscriptions[rc.subId].reqCount + 1,
              !.fulfilled[id] = @ + 1]

\* What fulfillRandomWords does once the callback has returned.
AfterCallback(e, id, rc) ==
    [e EXCEPT !.s_config.reentrancyLock = FALSE,
              !.s_blockStore = @ \ {rc.blockNum},
              !.s_subscriptions[rc.subId].reqCount = @ + 1,
              !.fulfilled[id] = @ + 1]

\* fulfillRandomWords up to the callback.  Anyone may submit a valid proof;
\* callWithExactGas reverts when the target has no code.
FulfillRandomWords(sender, id, rc) ==
    /\ MayCall(sender) /\ nonReentrant(evm)
    /\ Len(frames) < MaxDepth
    /\ getRandomnessFromProof(evm, id, rc)
    /\ rc.sender \in Contract
    /\ evm' = AtCallback(evm, id)
    /\ frames' = Append(frames, [pre |-> evm, id |-> id, rc |-> rc])
    /\ UNCHANGED blockNumber

Top == frames[Len(frames)]
Pop == SubSeq(frames, 1, Len(frames) - 1)

\* The callback returns and fulfillRandomWords finishes.  A callback that
\* failed has been rolled back to where it started; the fulfilment stands.
CallbackReturns(success) ==
    LET e == IF success THEN evm ELSE AtCallback(Top.pre, Top.id)
    IN  /\ frames # <<>>
        /\ Fits(e.s_subscriptions[Top.rc.subId].reqCount + 1)
        /\ evm' = AfterCallback(e, Top.id, Top.rc)
        /\ frames' = Pop
        /\ UNCHANGED blockNumber

\* Mutant: the commitment stays deleted.
FulfillRevertsConsumes ==
    /\ frames # <<>>
    /\ evm' = [Top.pre EXCEPT !.s_requestCommitments[Top.id] = NoCommitment]
    /\ frames' = Pop
    /\ UNCHANGED blockNumber

\* The whole fulfilment reverts: out of gas, or reqCount overflows.
FulfillReverts ==
    /\ frames # <<>>
    /\ evm' = Top.pre
    /\ frames' = Pop
    /\ UNCHANGED blockNumber

\* The chain: transactions do not span blocks.
NextBlock ==
    /\ frames = <<>>
    /\ blockNumber < MaxHeight
    /\ blockNumber' = blockNumber + 1
    /\ UNCHANGED <<evm, frames>>

-----------------------------------------------------------------------------
Administer(sender) ==
    \/ \E kh \in KeyHash : RegisterProvingKey(sender, kh) \/ DeregisterProvingKey(sender, kh)
    \/ \E height \in Heights, isZero \in BOOLEAN : StoreBlockHash(sender, height, isZero)
    \/ \E minConf \in Confirmations, maxGas \in GasLimits : SetConfig(sender, minConf, maxGas)
    \/ \E newOwner \in NewOwners : TransferOwnership(sender, newOwner)

Subscribe(sender) ==
    \/ \E subscriber \in Subscribers \cup {sender} : CreateSubscription(sender, subscriber)
    \/ \E subId \in SubIds :
         \/ \E consumer \in Consumers :
              AddConsumer(sender, subId, consumer) \/ RemoveConsumer(sender, subId, consumer)
         \/ CancelSubscription(sender, subId)

Request(sender) ==
    \E keyHash \in KeyHash, subId \in SubIds, confirmations \in Confirmations,
       gasLimit \in GasLimits, numWords \in WordCounts :
         RequestRandomWords(sender, keyHash, subId, confirmations, gasLimit, numWords)

\* A fulfiller knows the requests from their events; it may pair an id with
\* the commitment values of another event.
Fulfill(sender) ==
    \E i, j \in DOMAIN evm.requested :
        FulfillRandomWords(sender, evm.requested[i].id, evm.requested[j].rc)

Next ==
    \/ \E sender \in Address :
         Administer(sender) \/ Subscribe(sender) \/ Request(sender) \/ Fulfill(sender)
    \/ \E success \in BOOLEAN : CallbackReturns(success)
    \/ FulfillReverts
    \/ NextBlock

Spec == Init /\ [][Next]_vars

-----------------------------------------------------------------------------
(* Properties *)

\* The storage at every depth of the call stack: Level(k) is where fulfilment
\* k started, the last level is the storage now.
Levels == 1 .. Len(frames) + 1
Level(k) == IF k = Len(frames) + 1 THEN evm ELSE frames[k].pre

\* Type correctness of the storage, of every saved copy of it and of the stack.
TypeOK ==
    /\ evm \in Storage
    /\ blockNumber \in Nat
    /\ frames \in Seq(Frame)

\* registerProvingKey / deregisterProvingKey keep the array (returned by
\* getRequestConfig and looped over by pendingRequestExists) and the map
\* (consulted by fulfillRandomWords) two views of one set, without duplicates.
ExactKeyList(e) ==
    /\ \A i, j \in DOMAIN e.s_provingKeyHashes :
          e.s_provingKeyHashes[i] = e.s_provingKeyHashes[j] => i = j
    /\ \A kh \in KeyHash : Listed(kh, e.s_provingKeyHashes) <=> kh \in e.s_provingKeys

KeyListExact == \A k \in Levels : ExactKeyList(Level(k))

\* addConsumer / removeConsumer / cancelSubscription keep every consumer list
\* free of duplicates, within MAX_CONSUMERS, and listing only consumers whose
\* nonce says they are allocated.
SoundConsumerLists(e) ==
    \A s \in SubId :
      LET consumers == e.s_subscriptions[s].consumers
      IN  /\ Len(consumers) <= MAX_CONSUMERS
          /\ \A i, j \in DOMAIN consumers : consumers[i] = consumers[j] => i = j
          /\ \A i \in DOMAIN consumers : e.s_consumers[consumers[i]][s] # 0

ConsumerListSound == \A k \in Levels : SoundConsumerLists(Level(k))

\* How often id was asked for, and whether an answer is still owed.
Asked(e, id) == Cardinality({i \in DOMAIN e.requested : e.requested[i].id = id})
Pending(e, id) == IF e.s_requestCommitments[id] = NoCommitment THEN 0 ELSE 1
InFlight(k, id) == Cardinality({m \in 1 .. k - 1 : frames[m].id = id})

\* fulfillRandomWords answers no request twice: the answers given, being given
\* (callbacks on the stack) and still owed for an id never exceed the requests
\* emitted for it, whatever callbacks re-enter, fail or revert.
AnsweredWithinAsked ==
    \A k \in Levels : \A id \in RequestId :
      Level(k).fulfilled[id] + Pending(Level(k), id) + InFlight(k, id)
        <= Asked(Level(k), id)

\* The answers to the requests of a subscription: the n-th to each id.
Answers(e, s) ==
    UNION {{<<id, n>> : n \in 1 .. e.fulfilled[id]} : id \in {i \in RequestId : i.subId = s}}

\* What getSubscription's reqCount counts in this code: the answers to the requests
\* of the subscription, for as long as it exists; callbacks that fail, re-enter or
\* cancel other subscriptions lose and add nothing.  The interface says `number of
\* requests for this subscription': see ReqCountIsRequests.
ReqCountExact ==
    \A k \in Levels : \A s \in SubId :
      Level(k).s_subscriptions[s].owner # ZeroAddress =>
        Level(k).s_subscriptions[s].reqCount = Cardinality(Answers(Level(k), s))

\* An owed commitment can be opened from the events alone: its preimage is in
\* the last RandomWordsRequested event of its id, and agrees with the id on
\* the consumer and the subscription.
OpenableCommitments(e) ==
    \A id \in RequestId : e.s_requestCommitments[id] # NoCommitment =>
      /\ e.s_requestCommitments[id].sender = id.sender
      /\ e.s_requestCommitments[id].subId = id.subId
      /\ \E i \in DOMAIN e.requested :
           /\ e.requested[i].id = id
           /\ e.requested[i].rc = e.s_requestCommitments[id]
           /\ \A j \in DOMAIN e.requested : e.requested[j].id = id => j <= i

CommitmentOpenable == \A k \in Levels : OpenableCommitments(Level(k))

\* The reentrancy lock is released whenever no fulfilment is running, also
\* after callbacks that failed and fulfilments that reverted; otherwise no
\* subscription or request call would ever succeed again.
LockReleased ==
    /\ frames = <<>> => ~evm.s_config.reentrancyLock
    /\ \A k \in DOMAIN frames : ~frames[k].pre.s_config.reentrancyLock

\* The part of the storage that only nonReentrant functions write.
Guarded(e) ==
    <<e.s_currentSubId, e.s_consumers, e.s_subscriptions, e.s_requestCommitments,
      e.requested, e.fulfilled>>

\* While the lock is held, the callback has changed no subscription, consumer,
\* commitment or log, whatever contracts it called.
LockIsolates ==
    frames # <<>> /\ evm.s_config.reentrancyLock =>
      Guarded(evm) = Guarded(AtCallback(Top.pre, Top.id))

\* What other transactions can see: the storage before the running one.
Committed == Level(1)

\* A later storage: ids were only handed out upwards, an owner was only lost
\* or given to a new id, events were only added.
Follows(d, e) ==
    /\ d.s_currentSubId <= e.s_currentSubId
    /\ \A s \in 0 .. d.s_currentSubId :
         e.s_subscriptions[s].owner \in {ZeroAddress, d.s_subscriptions[s].owner}
    /\ \A id \in RequestId : d.fulfilled[id] <= e.fulfilled[id]
    /\ Len(d.requested) <= Len(e.requested)
    /\ \A i \in DOMAIN d.requested : e.requested[i] = d.requested[i]

\* createSubscription never reuses an id and nothing else gives a subscription
\* an owner: a cancelled subscription stays cancelled, a live one keeps its
\* owner until then, across every transaction with its callbacks.
SubscriptionLifecycle == [][Follows(Committed, Committed')]_vars

\* The coordinator keeps the promise of RandomnessService: what a transaction
\* leaves behind, whatever its callbacks asked, answered, undid or had reverted,
\* is a step of it, and nobody sees less than a whole one.
Service ==
    INSTANCE RandomnessService WITH
        Id <- RequestId,
        asked <- [id \in RequestId |-> Asked(Committed, id)],
        owed <- {id \in RequestId : Committed.s_requestCommitments[id] # NoCommitment},
        answered <- Committed.fulfilled

ImplementsService == Service!Spec

-----------------------------------------------------------------------------
(* What the interface and the comments say, and the code does not do *)

\* VRFCoordinatorV2Interface: requestRandomWords returns "a unique identifier of
\* the request".
RequestIdUnique ==
    \A i, j \in DOMAIN evm.requested :
      evm.requested[i].id = evm.requested[j].id => i = j

\* VRFCoordinatorV2Interface: pendingRequestExists is "true if there exists at
\* least one unfulfilled request for the subscription, false otherwise"; here
\* only of requests that listed consumers made to registered keys.
PendingRequestFound ==
    \A s \in SubId :
      (\E id \in RequestId :
         /\ id.subId = s /\ id.keyHash \in evm.s_provingKeys
         /\ Listed(id.sender, evm.s_subscriptions[s].consumers)
         /\ evm.s_requestCommitments[id] # NoCommitment)
      => pendingRequestExists(evm, s)

\* VRFCoordinatorV2Interface: getSubscription's reqCount is the "number of requests
\* for this subscription".  Between transactions, every request that the log has of
\* a live subscription is counted.
ReqCountIsRequests ==
    frames = <<>> =>
      \A s \in SubId : evm.s_subscriptions[s].owner # ZeroAddress =>
        evm.s_subscriptions[s].reqCount =
          Cardinality({i \in DOMAIN evm.requested : evm.requested[i].id.subId = s})
=============================================================================
