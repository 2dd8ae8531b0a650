----------------------------- MODULE VRFProvider -----------------------------
(***************************************************************************)
(* The off-chain VRF provider (how-to/2.deploy-vrf/vrf-provider) running   *)
(* against the coordinator contract.                                       *)
(*                                                                         *)
(* The provider is one goroutine (services/listener.go) that walks the     *)
(* chain height by height.  For every RandomWordsRequested event of a      *)
(* height it sends storeBlockHash, waits for the receipt, sends            *)
(* fulfillRandomWords, waits for the receipt (channels.go); then it moves  *)
(* to the next height and saves that height to a cache file                *)
(* (writer_mw.go, cache_file_write.go), from which a restarted process     *)
(* resumes (initialization/channel.go).  `pc' is where it is in that loop. *)
(* Its transactions wait in a mempool and leave receipts.                  *)
(***************************************************************************)
EXTENDS VRFCoordinator

CONSTANTS
    Account,        \* the account of opt_priv_key, sender of all transactions
    AdminKey,       \* the hash of vrf_admin_key
    App,            \* the consumer contract the service starts with
    Operators,      \* who administers the contract besides the provider
    StartHeight,    \* cache.start_height of the configuration
    RetryTimes,     \* polls of a receipt before giving up (20 in the code)
    MaxSent,        \* bound on the transactions sent
    MaxFaults       \* bound on crashes, RPC errors, lost mempools, timeouts

ASSUME ProviderAssumption ==
    /\ Account \in Address \ {ZeroAddress} /\ AdminKey \in KeyHash
    /\ App \in Contract /\ MaxSubId >= 1 /\ Operators \subseteq Address
    /\ StartHeight \in Nat /\ RetryTimes \in Nat \ {0} /\ MaxFaults \in Nat
    /\ MaxSent \in Nat

VARIABLES
    pc,             \* where the process is
    height,         \* Context.height, lost in a crash
    todo,           \* indices into the log: events of `height' still to serve
    awaited,        \* hash of the transaction whose receipt is polled
    tries,          \* polls so far
    cache,          \* the cache file: absent, truncated, or holding a height
    mempool,        \* the account's transactions, in nonce order
    receipts,       \* of its executed transactions
    sent,           \* transactions sent, which makes hashes unique
    faults

providerVars == <<pc, height, todo, awaited, tries, cache>>
chainVars == <<mempool, receipts, sent, faults>>
allVars == <<vars, providerVars, chainVars>>

CacheFile == [state : {"absent", "empty", "saved"}, height : Nat]

PC == {"down", "load", "registering", "idle", "store", "storeWait",
       "fulfill", "fulfillWait", "truncate", "write"}

Tx == [hash : Nat, kind : {"register", "store", "fulfill"}, event : Nat]
Receipt == [tx : Tx, status : {0, 1}, block : Nat, outOfGas : BOOLEAN]

\* eth_blockNumber: the last block that is complete.
LatestHeight == blockNumber - 1

\* eth_getLogs for one complete height: indices into the request log.
EventsAt(h) == {i \in DOMAIN Committed.requested : Committed.requested[i].rc.blockNum = h}

\* The event relay is at: it takes them in the order of the log.
Current(i) == i \in todo /\ \A j \in todo : i <= j

Event(tx) == evm.requested[tx.event]

HasReceipt(hash) == \E r \in receipts : r.tx.hash = hash
InMempool(hash) == \E i \in DOMAIN mempool : mempool[i].hash = hash
StatusOf(hash) == (CHOOSE r \in receipts : r.tx.hash = hash).status

-----------------------------------------------------------------------------
(* The process *)

\* The service starts against a coordinator on which the deployment steps have
\* been taken: createSubscription(), then addConsumer(1, App).
ProviderInit ==
    /\ \E minConf \in Confirmations, maxGas \in GasLimits :
         evm = [initialize(minConf, maxGas) EXCEPT
                  !.s_currentSubId = 1,
                  !.s_subscriptions[1] = [owner |-> Deployer, reqCount |-> 0, consumers |-> <<App>>],
                  !.s_consumers[App][1] = 1]
    /\ blockNumber = 1 /\ frames = <<>>
    /\ pc = "down" /\ height = 0 /\ todo = {} /\ awaited = 0 /\ tries = 0
    /\ cache = [state |-> "absent", height |-> 0]
    /\ mempool = <<>> /\ receipts = {} /\ sent = 0 /\ faults = 0

SendTx(kind, event) ==
    /\ sent < MaxSent /\ sent' = sent + 1
    /\ awaited' = sent + 1
    /\ tries' = 0
    /\ mempool' = Append(mempool, [hash |-> sent + 1, kind |-> kind, event |-> event])
    /\ UNCHANGED <<receipts, faults>>

\* registerAdminProvider: registers the key unless getRequestConfig lists it.
Start ==
    /\ pc = "down"
    /\ \/ /\ Listed(AdminKey, Committed.s_provingKeyHashes)
          /\ pc' = "load"
          /\ UNCHANGED <<chainVars, awaited, tries>>
       \/ /\ ~Listed(AdminKey, Committed.s_provingKeyHashes)
          /\ pc' = "registering"
          /\ SendTx("register", 0)
    /\ UNCHANGED <<vars, height, todo, cache>>

\* A failed registration is fatal; a missing receipt is polled for ever.
Registered ==
    /\ pc = "registering" /\ HasReceipt(awaited)
    /\ pc' = IF StatusOf(awaited) = 1 THEN "load" ELSE "down"
    /\ UNCHANGED <<vars, chainVars, height, todo, awaited, tries, cache>>

\* A file that does not parse is fatal.
LoadCache ==
    /\ pc = "load"
    /\ IF cache.state = "empty"
         THEN pc' = "down" /\ UNCHANGED height
         ELSE pc' = "idle" /\ height' = IF cache.state = "absent" THEN StartHeight ELSE cache.height
    /\ UNCHANGED <<vars, chainVars, todo, awaited, tries, cache>>

\* Mutant: the block hash is stored for no event.
AdvanceWithoutStore(rest) ==
    /\ todo' = rest
    /\ pc' = IF rest = {} THEN "truncate" ELSE "fulfill"
    /\ height' = IF rest = {} THEN height + 1 ELSE height

\* Mutant: the last event of a height is left out.
AdvanceDropsLast(rest) ==
    /\ todo' = rest
    /\ pc' = IF Cardinality(rest) <= 1 THEN "truncate" ELSE "store"
    /\ height' = IF Cardinality(rest) <= 1 THEN height + 1 ELSE height

\* The end of relay: the next event, or the next height and its cache entry.
Advance(rest) ==
    /\ todo' = rest
    /\ pc' = IF rest = {} THEN "truncate" ELSE "store"
    /\ height' = IF rest = {} THEN height + 1 ELSE height

\* IsNotRelay and the head of relay.
BeginRelay ==
    /\ pc = "idle" /\ height < LatestHeight
    /\ Advance(EventsAt(height))
    /\ UNCHANGED <<vars, chainVars, awaited, tries, cache>>

Send ==
    /\ \E i \in todo :
         /\ Current(i)
         /\ \/ pc = "store" /\ pc' = "storeWait" /\ SendTx("store", i)
            \/ pc = "fulfill" /\ pc' = "fulfillWait" /\ SendTx("fulfill", i)
    /\ UNCHANGED <<vars, height, todo, cache>>

\* reTryEthResult accepts any receipt, status 0 included.
Settled(hash) == HasReceipt(hash)

ReceiptFound ==
    /\ Settled(awaited)
    /\ \/ pc = "storeWait" /\ pc' = "fulfill" /\ UNCHANGED <<height, todo>>
       \/ pc = "fulfillWait" /\ \E i \in todo : Current(i) /\ Advance(todo \ {i})
    /\ UNCHANGED <<vars, chainVars, awaited, tries, cache>>

\* Mutant: one poll too many.
PollsLeftOneMore == tries < RetryTimes

PollsLeft == tries + 1 < RetryTimes

\* No receipt yet: poll again, up to RetryTimes.
ReceiptMissing ==
    /\ pc \in {"storeWait", "fulfillWait"} /\ ~Settled(awaited)
    /\ PollsLeft
    /\ tries' = tries + 1
    /\ UNCHANGED <<vars, chainVars, pc, height, todo, awaited, cache>>

Fault == faults < MaxFaults /\ faults' = faults + 1

\* The last of RetryTimes polls finds no receipt: relay returns an error and the
\* height will be served again from its first event.  That the chain is slower
\* than the polls is a fault; that it has lost the transaction was one already.
GiveUp ==
    /\ pc \in {"storeWait", "fulfillWait"} /\ ~Settled(awaited)
    /\ ~PollsLeft
    /\ IF InMempool(awaited) THEN Fault ELSE UNCHANGED faults
    /\ pc' = "idle" /\ todo' = {}
    /\ UNCHANGED <<vars, height, awaited, tries, cache, mempool, receipts, sent>>

\* CacheFileWriter.Write: O_TRUNC, then the new height.
TruncateCache ==
    /\ pc = "truncate"
    /\ cache' = [state |-> "empty", height |-> 0] /\ pc' = "write"
    /\ UNCHANGED <<vars, chainVars, height, todo, awaited, tries>>

\* Mutant: the height saved is the one after the next.
SavedHeightAhead == height + 1

SavedHeight == height

WriteCache ==
    /\ pc = "write"
    /\ cache' = [state |-> "saved", height |-> SavedHeight] /\ pc' = "idle"
    /\ UNCHANGED <<vars, chainVars, height, todo, awaited, tries>>

ProviderStep ==
    \/ Start \/ Registered \/ LoadCache \/ BeginRelay \/ Send \/ ReceiptFound
    \/ ReceiptMissing \/ GiveUp \/ TruncateCache \/ WriteCache

-----------------------------------------------------------------------------
(* Faults *)

\* The node does not accept the transaction: relay returns an error.
SendFails ==
    /\ Fault
    /\ pc \in {"store", "fulfill"} /\ pc' = "idle" /\ todo' = {}
    /\ UNCHANGED <<vars, height, awaited, tries, cache, mempool, receipts, sent>>

\* The file cannot be opened or written; Relay ignores the error.
CacheWriteFails ==
    /\ Fault
    /\ pc \in {"truncate", "write"} /\ pc' = "idle"
    /\ UNCHANGED <<vars, height, todo, awaited, tries, cache, mempool, receipts, sent>>

Crash ==
    /\ Fault
    /\ pc # "down" /\ pc' = "down"
    /\ height' = 0 /\ todo' = {} /\ awaited' = 0 /\ tries' = 0
    /\ UNCHANGED <<vars, cache, mempool, receipts, sent>>

\* The node loses the transactions it has not executed.
MempoolLost ==
    /\ Fault
    /\ frames = <<>> /\ mempool # <<>> /\ mempool' = <<>>
    /\ UNCHANGED <<vars, providerVars, receipts, sent>>

FaultStep == SendFails \/ CacheWriteFails \/ Crash \/ MempoolLost

-----------------------------------------------------------------------------
(* The chain executes the account's transactions *)

\* outOfGas: the receipt's gasUsed is the whole gas_limit.
Included(status, outOfGas) ==
    /\ mempool' = Tail(mempool)
    /\ receipts' = receipts \cup 
                   {[tx |-> Head(mempool), status |-> status, block |-> blockNumber,
                     outOfGas |-> outOfGas]}
    /\ UNCHANGED <<providerVars, sent, faults>>

\* fulfillRandomWords proves with the admin key whatever key the event names:
\* for another key the recomputed request id has no commitment.
CanFulfill(tx) ==
    /\ Event(tx).id.keyHash = AdminKey
    /\ nonReentrant(evm)
    /\ getRandomnessFromProof(evm, Event(tx).id, Event(tx).rc)
    /\ Event(tx).rc.sender \in Contract

\* Would the call go through (or, for fulfillRandomWords, reach its callback)?
Succeeds(tx) ==
    CASE tx.kind = "register" -> onlyOwner(evm, Account) /\ AdminKey \notin evm.s_provingKeys
      [] tx.kind = "store" -> onlyOwner(evm, Account)
      [] tx.kind = "fulfill" -> CanFulfill(tx)

\* A transaction that reverts is included too, with status 0.
ExecuteTx ==
    /\ mempool # <<>> /\ frames = <<>>
    /\ LET tx == Head(mempool)
       IN  \/ /\ tx.kind = "register" /\ RegisterProvingKey(Account, AdminKey)
              /\ Included(1, FALSE)
           \/ /\ tx.kind = "store" /\ StoreBlockHash(Account, Event(tx).rc.blockNum, FALSE)
              /\ Included(1, FALSE)
           \/ /\ tx.kind = "fulfill" /\ CanFulfill(tx)
              /\ FulfillRandomWords(Account, Event(tx).id, Event(tx).rc)
              /\ UNCHANGED <<providerVars, chainVars>>
           \/ /\ ~Succeeds(tx)
              /\ Included(0, FALSE)
              /\ UNCHANGED vars

\* The end of a fulfilment; frames[1] belongs to the head of the mempool.
EndFulfill ==
    \/ \E success \in BOOLEAN :
         CallbackReturns(success) /\ Included(1, FALSE)
    \/ FulfillReverts /\ Included(0, TRUE)

\* Everyone else's calls, and the next block.
Environment ==
    /\ \/ \E sender \in Operators : Administer(sender) \/ Subscribe(sender)
       \/ \E sender \in Address : Request(sender)
       \/ NextBlock
    /\ UNCHANGED <<providerVars, chainVars>>

ProviderNext == ProviderStep \/ FaultStep \/ ExecuteTx \/ EndFulfill \/ Environment

\* The process keeps running and is restarted after a crash; the chain keeps
\* producing blocks and executes what is in its mempool.
ProviderSpec ==
    /\ ProviderInit /\ [][ProviderNext]_allVars
    /\ WF_allVars(ProviderStep)
    /\ WF_allVars(ExecuteTx) /\ WF_allVars(EndFulfill)
    /\ WF_allVars(NextBlock /\ UNCHANGED <<providerVars, chainVars>>)

-----------------------------------------------------------------------------
(* Properties *)

\* Type correctness of the process, its file and its transactions.
ProviderTypeOK ==
    /\ pc \in PC /\ height \in Nat /\ todo \subseteq Nat \ {0}
    /\ awaited \in 0 .. sent /\ tries \in 0 .. RetryTimes - 1
    /\ cache \in CacheFile
    /\ mempool \in Seq(Tx) /\ receipts \subseteq Receipt
    /\ sent \in Nat /\ faults \in 0 .. MaxFaults

Running == pc \notin {"down", "load", "registering"}

\* Event i has been tried on chain: a fulfilment of it was executed.
Attempted(i) == \E r \in receipts : r.tx.kind = "fulfill" /\ r.tx.event = i

\* The heights the process, or a restart of it, will not look at again.
Passed(h) ==
    /\ StartHeight <= h
    /\ \/ Running /\ h < height
       \/ cache.state = "saved" /\ h < cache.height

\* relay and the cache file never skip a request: when the process or the saved
\* height is past a block, every request of that block had its fulfilment
\* executed, across crashes, retries, lost transactions and failed file writes.
NoRequestSkipped ==
    \A i \in DOMAIN Committed.requested :
      Passed(Committed.requested[i].rc.blockNum) => Attempted(i)

\* A request is answered by one transaction at most, however often relay sends
\* it again after a timeout or a restart.
AnsweredOnce ==
    \A r1, r2 \in receipts :
      /\ r1.tx.kind = "fulfill" /\ r1.status = 1
      /\ r2.tx.kind = "fulfill" /\ r2.status = 1
      /\ r1.tx.event = r2.tx.event
      => r1 = r2

\* The process cannot go on by itself: it crashed while the file was truncated,
\* or registerAdminProvider polls for a transaction the node has lost.
Wedged ==
    \/ cache.state = "empty" /\ ~Running
    \/ pc = "registering" /\ ~HasReceipt(awaited) /\ ~InMempool(awaited)

\* Request i is in a block the chain of the model gets past.
Due(i) ==
    /\ i \in DOMAIN Committed.requested
    /\ Committed.requested[i].rc.blockNum \in StartHeight .. MaxHeight - 2

\* Every request, for whatever proving key, has its fulfilment executed in the
\* end, unless the process is wedged: relay never waits for ever on one event.
EveryRequestAttempted ==
    \A i \in 1 .. MaxRequests : Due(i) ~> (Attempted(i) \/ Wedged)

\* A fulfilment of request i succeeded, or ran out of gas once it was under way.
Answered(i) ==
    \E r \in receipts :
      /\ r.tx.kind = "fulfill" /\ r.tx.event = i
      /\ r.status = 1 \/ r.outOfGas

\* When nobody takes the key away, every request for the provider's key is
\* answered in the end, if gas_limit suffices and the process is not wedged: the
\* hash relay stores is still there when its fulfilment executes.
EveryRequestAnswered ==
    \A i \in 1 .. MaxRequests :
      (Due(i) /\ Committed.requested[i].id.keyHash = AdminKey) ~> (Answered(i) \/ Wedged)

=============================================================================
