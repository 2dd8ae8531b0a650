# Verification of IRITA: randomness service, node snapshots, wallet

This directory holds TLA+ models of the IRITA repository, the TLC runs that
check them on small instances, and TLAPS proofs of their main properties for
every instance. IRITA assembles a blockchain node from libraries; the models
are of the parts that have logic of their own:

- the verifiable random function (VRF) service under `src/how-to/2.deploy-vrf`: a
  Solidity coordinator contract, its proof verification, and an off-chain
  provider that answers its requests;
- `snapshot create` and `snapshot prune` (`src/cmd/irita/cmd`), which roll a
  stopped node back and copy its databases;
- the command line wallet (`src/wallet`), a directory of files that must survive a
  crash at any moment.

## 1. Inventory

| Component | State | Operations | Interactions | Hard behaviour | What makes it correct |
|---|---|---|---|---|---|
| Coordinator contract (`vrf/contracts/VRFCoordinator.sol`) | proving keys (map and array), subscriptions, consumer nonces, request commitments, uploaded block hashes, configuration with the reentrancy lock | key, configuration and block-hash administration, subscription and consumer management, `requestRandomWords`, `fulfillRandomWords` | called by owners, consumers and providers; calls back into consumers | a callback re-enters in the middle of `fulfillRandomWords`; a callback or the whole fulfilment fails; nonces start again; `uint64` limits | no request answered twice; every owed commitment can be opened; the lock is always released; lists and maps agree; subscription ids are never reused |
| Consumer contracts (`VRFConsumerBase.sol`) | the consumer's own | `rawFulfillRandomWords` | called by the coordinator, may call anything | arbitrary code | none assumed |
| Proof verification (`VRF.sol`) | none | curve arithmetic | used by the coordinator | field edge cases | a proof that verifies satisfies the equations of the scheme, and an honest one verifies |
| Provider (`vrf-provider/internal`) | current height, events of it, awaited receipt, cache file | start and registration, `relay`, receipt polling, cache writes | JSON-RPC node: logs, transactions, receipts; local file | crash, restart, timeout with a late answer, lost transactions, failed file writes, reverted transactions | no request is passed over, every request is attempted, none is answered twice |
| Wallet (`wallet/`) | root record, key hash file, key and address records | init, recover, update passphrase, create, export | a directory of files | crash between two file writes, truncated files, commands that overlap without a lock | an exported key is the key of its address; a passphrase update never loses the wallet |
| Rollback and snapshot commands (`cmd/irita/cmd/rollback.go`, `snapshot.go`) | block store, state store, application database | roll back one height, copy, prune | offline access to the node's databases | stores one height apart; crash between any two writes; errors the commands ignore; validators and parameters that changed in the last blocks; concurrent pruning of stores; a half-written target | the node can always start again; a complete snapshot is of one height |
| Ante handlers and EVM glue (`app/ante`, `modules/evm`) | account sequences | route a transaction to a decorator chain | library keepers | wrong chain for a mixed transaction | every transaction is authenticated by exactly one chain |
| TIBC wrappers (`modules/tibc`) | none | permission check, delegate | library keepers | none | permission before effect |
| Wiring, commands, servers, simulation (`app/`, `cmd/`, `modules/evm/server`, `simapp/`, `lite/`) | none | construct and start | libraries | none of their own | not modelled |
| Vendored and generated code (`vrf-provider/chainlink`, contract bindings, `*.pb.go`, `lite/swagger-ui`, `docs/.third_party`) | | | | | not modelled |

`PROJECT.json` lists the components with their status, and the hazards at the
lines where they bite.

## 2. Modules

| Module | Models | Contents |
|---|---|---|
| `VRFCoordinator` | `VRFCoordinator.sol` | state, one action per writing function, safety properties, the refinement of `RandomnessService` |
| `RandomnessService` | | what the coordinator promises: the abstract specification |
| `MCVRFCoordinator` | | the instance TLC runs, and key symmetry |
| `VRFCoordinatorProofs` | | its types, and that no request is answered twice |
| `VRFStorageProofs` | | its keys, consumer lists and commitments, at every level of the call stack |
| `VRFCallProofs` | | the reentrancy lock, what a whole transaction may change, the counter of a subscription, and that the contract implements `RandomnessService` |
| `VRFProvider` | the provider process, its file, its transactions | extends `VRFCoordinator`: the composition of the service with the contract |
| `VRFProviderProofs` | | that the provider passes over no request and answers none twice |
| `MCVRFProvider` | | the instance TLC runs |
| `VRF` | `VRF.sol` | its arithmetic as operators, `verifyVRFProof` as a machine, the group law as reference |
| `VRFProofs` | | theorems about all of its invariants, for every such curve |
| `MCVRF` | | the small curve |
| `NodeStores` | `rollback.go`, `snapshot.go`; the node as they find it | data and target directory, the commands write by write, crashes, ignored errors, restores |
| `NodeStoresProofs` | | its types, that the node can start, its state and its application database |
| `NodeSnapshotProofs` | | the parameter and validator records, and complete snapshots |
| `MCNodeStores` | | the instance TLC runs, symmetric in validator sets and parameters |
| `WalletKeystore` | `wallet/`, `wallet/keys`, `wallet/keyring` | the wallet's directory and the five commands that use it, with crashes and overlaps |
| `WalletKeystoreProofs` | | theorems about all of its invariants |
| `MCWalletKeystore` | | the instance TLC runs, symmetric in names, passphrases and terminals |

### 2.1 The coordinator

*State.* `evm` is one record with a field for each storage variable of the
contract plus two histories of events: `requested`, the sequence of
`RandomWordsRequested`, and `fulfilled`, the number of `RandomWordsFulfilled`
for each id. Everything that an EVM revert undoes is in this record, so going
back is one assignment. `blockNumber` is `block.number`. `frames` is the call
stack: one frame for each `fulfillRandomWords` whose callback is running, with
the storage it started from.

*Actions.* A call either reverts, which changes nothing, or does all of its
writes; since the EVM runs one call at a time a call is one step. Its guard is
the conjunction of the function's modifiers and `revert` conditions. The one
exception is `fulfillRandomWords`, which hands control to the consumer in the
middle of its body. It is split there:

- `FulfillRandomWords`: checks, deletion of the commitment, lock taken; pushes a
  frame;
- while a frame is on the stack, any contract may call any function (the guard
  `MayCall`), so a callback is any sequence of calls. A second fulfilment may
  start inside the first when the lock permits it;
- `CallbackReturns(success)`: the rest of the body. If the callback failed, its
  changes are first undone; the fulfilment stands, as in the code, which only
  records `success` in the event;
- `FulfillReverts`: the whole call runs out of gas or its `reqCount` addition
  overflows, and everything since its start is undone.

Two simplifications lose no behaviour that the properties can see. A
transaction that makes several calls outside a callback is the sequence of these
calls: nothing in the contract depends on where one transaction ends. And a call
that reverts inside a callback and is caught there is a call that was not made.

*Data.* `keccak256` is injective: a request id is the tuple that is hashed, a
commitment is the record that is hashed, and the zero word is the model value
`NoCommitment`. A proof is valid for an id when its key is the id's key.
`uint64` counters have a limit (`MaxNonce`, `MaxSubId`) at which checked
arithmetic reverts. `maxGasLimit`, `numWords` and confirmations are members of
small input sets on both sides of each limit. `BLOCKHASH` serves the last
`BlockHashWindow` heights.

`requestSubscriptionOwnerTransfer` and `acceptSubscriptionOwnerTransfer` have
empty bodies in the source: calling them is a stuttering step. The functions of
`OwnableUpgradeable` come from a library and are modelled from their use.

### 2.2 The provider

The process is a single goroutine (`services/listener.go`): `pc` says where it
is.

| `pc` | Code |
|---|---|
| `down` | not running; `Start` is `registerAdminProvider` |
| `registering` | unbounded poll for the registration's receipt |
| `load` | reading the cache file (`initialization/channel.go`) |
| `idle` | `IsNotRelay` and the head of `relay` |
| `store`, `storeWait` | `StoreBlockHash` and its receipt (`reTryEthResult`) |
| `fulfill`, `fulfillWait` | `FulfillRandomWords` and its receipt |
| `truncate`, `write` | `CacheFileWriter.Write`: `O_TRUNC`, then the content |

`todo` has the log positions of the height's events that are still to serve; `relay`
takes the smallest first (`Current`), the order in which the node lists them.

The node's side is `mempool` (transactions sent and not executed), `receipts`,
and the coordinator itself: `ExecuteTx` executes the head of the mempool as a
call of the coordinator, a reverting one included, with status 0. A fulfilment
under way ends with one of the coordinator's own actions (`EndFulfill`).

Faults are explicit and counted (`MaxFaults`): a crash at any step, a lost
mempool, a refused transaction, a failed file write, and a poll limit reached
while the transaction is still in the mempool. A poll limit reached because the
transaction is lost needs no fault of its own.

`gas_limit` is a fixed number in the configuration (`2000000`), so the client does
not estimate gas and a transaction that will revert is sent and executed all the
same; this is why a status-0 receipt is the normal fate of a repeated fulfilment.

### 2.3 The wallet

`disk` is the directory: the root record, the keyhash, an info record for each
name and an entry for each address. A file is absent, has a content, or is torn:
`ioutil.WriteFile` truncates before it writes, so every write is two steps, and a
torn file fails to parse. `job` has for each terminal the running command
with what it has read and typed; each step of a command is one prompt or one file operation.

| `pc` | Code |
|---|---|
| `unlock` | `promptPassword`, called by `unlock` from the first `Encrypt` or `Decrypt`: the passphrase of the keyhash, or a new one if there is no keyhash |
| `hashCreate`, `hashWrite`, `hashLost` | the `WriteFile` of the keyhash, in `promptPassword` and in `Reset`; lost if another `Reset` has removed the file meanwhile |
| `rootTruncate`, `rootWrite` | `Set` of the root record in `writeRoot` and `UpdateRoot` |
| `confirm`, `removeAll` | `confirmMnemonic`, and `RemoveAll` file by file when it fails |
| `hashRemove` | `os.Remove` in `Reset` |
| `exists`, `infoTruncate` ... `addrWrite` | `writeInfo` |

A key is its mnemonic and index, since the HD path differs in the index only, and
an address is its key. One signing algorithm stands for the two. `init` draws a
mnemonic that was never drawn before; `init --recover` is given one that was, or a
malformed one, which the code detects only after the root record is written. A key
may be asked for under the name `root`: the code then advances the index and keeps
no record. A write that fails without a crash ends the command with the file as a
crash leaves it.

The directory has no lock, so commands of two terminals overlap step by step. What
the file system makes of it is part of the model: a command may read a root record
that another has truncated; of two writers of one file the second may leave the tail
of the first's longer content, which does not parse; the keyhash is read-only, so a
second command cannot open it for writing; a file that is removed while it is open
takes the write with it. `init` and `init --recover` are assumed to run alone.

`hurt` is a history of what crashes interrupted and where commands met. Each
property names the one interruption it does not survive, so that it also says which
do no harm: a crash between the info record and the address entry alone, or while
the keyhash is first written, leaves every property standing, and so do two
`create`s that read the same index, however long their prompts are open, as
long as they do not also meet between the check of `writeInfo` and its writes.

### 2.4 The node's stores

`data` is the node's data directory and `target` the directory of the snapshot: the
heights of the blocks, the state, the validator and parameter records by height
(with the set itself only where it changed and at checkpoints, as `ss.Save` writes
them), the responses, the marks of the consensus WAL, the last signed height, and the
application database with its latest version, commit infos and trees. `job` is the
one process that has the databases open.

The node is external. Its writes while it commits a block (`SaveBlock` to
`UpdateState`) are modelled, each a step, because the commands find whatever a
stopped or crashed node left. `chain` is what the network has agreed on: validators
and parameters of every height, any of them, so changes fall on every height.

`snapshot create` is `Recover` up to its first write, the three writes of `ss.Save`
(shared with the node), the batch of `rollBackApplication`, and the copies in their
order. A panic is recovered by the command and leaves the target as it is; an
error removes it. `snapshot prune` runs a goroutine for each store; the stores
include one that the chain never mounted. `Restore` puts a complete snapshot in the
place of the data directory, whatever the target held before. It asks only what the
starting node asks (`NodeAccepts`): that the application's latest version loads and the
handshake finds the stores where it expects them. `KeepRecent` is the number of versions
the node keeps besides the latest, which is 0 with `--pruning everything`.

Several errors are not looked at, and the command goes on to "snapshot completed!". Each
is an alternative of its action (`Swallow`), and `swallowed` remembers which happened:

| `swallowed` | Code | What is left |
|---|---|---|
| `rollApp` | `batch.WriteSync`, `rollback.go:132` | the application one version ahead of the state |
| `records` | `targetDb.Set` of the validators' and parameters' records, `snapshot.go:431` ff. | a snapshot without some of them |
| `wal` | `snapshotCsWAL`: no mark of the height, a log damaged by a crash, a failed write, `snapshot.go:313` ff. | some or none of the later messages, and no mark |
| `copy` | `dstFile.Write`, `snapshot.go:388` | a torn application database |

A damaged WAL needs no failing disk, only an ordinary crash of the node, and is
not counted among the faults; the failed writes are. `flawed` says that the node goes on
from a snapshot whose target also held the block of an earlier attempt, or lacks records.
A property that an ignored error or such a restore breaks names it.

### 2.5 Proof verification

`VRF` translates the arithmetic of `VRF.sol` over the field of 43 elements, where
the curve has 31 points: like secp256k1 a prime number, and smaller than the
field, so that abscissas beyond the group order occur. `keccak256` is any function, a
hash being chosen when it is computed; `ecrecover` is the precompile's
definition. `Plus` and `Times` are the textbook group law, defined independently of the contract's
projective formulas. The parts of a proof, wrong ones included, are chosen when the
contract first looks at them.

### 2.6 What the coordinator promises

`RandomnessService` has for each id the number of requests, the number of answers
and whether an answer is owed. In one step an answer uses up an owed or a new
request, and a request does not disappear unless it is answered or replaced by
another under its id. `VRFCoordinator` implements it (`ImplementsService`) with the
storage as of the last finished transaction: `Committed`, the bottom of the call
stack. So whatever callbacks do, nest and revert, a transaction as a whole is a step of
the service.

## 3. Runs

Deadlock checking is off except for the wallet: in the other runs the bounds on
heights, requests and restores, and a verified proof, stop a behaviour in the end. The wallet always accepts a
command and is checked for deadlock.

| Run | Instance | Question |
|---|---|---|
| `requests` | one consumer, three requests, three blocks, window of one, nonces up to 3 | Requests, failing callbacks, reverts, hashes leaving the window, renounced ownership, a consumer removed and added again: `TypeOK`, `AnsweredWithinAsked`, `CommitmentOpenable`, `LockReleased` |
| `reentrancy` | the contract's owner is itself a consumer contract, two nested fulfilments, three requests | a callback may call `setConfig`, which clears the lock: `AnsweredWithinAsked`, `LockIsolates`, `LockReleased`, `ReqCountExact`, `SubscriptionLifecycle`, `ImplementsService` |
| `administration` | three keys (symmetric), two subscriptions, three consumers, a limit of two | `KeyListExact`, `ConsumerListSound`, `SubscriptionLifecycle` |
| `provider` | two requests, three heights, two faults, five transactions; the coordinator's owner registers and deregisters the key, sets the configuration and cancels the subscription meanwhile | `ProviderTypeOK`, `NoRequestSkipped`, `AnsweredOnce` |
| `provider_live` | two requests for two keys, four heights, one fault | `EveryRequestAttempted`, `EveryRequestAnswered` |
| `wallet` | two names besides `root`, two passphrases, two well-formed mnemonics and a malformed one, indices up to 2, two terminals, two faults (a crash, or a command beside another) | `WalletTypeOK`, `AddressIndexSound`, `NoKeyTwice`, `PassphraseOpens`, `ExportMatches` |
| `snapshot` | three heights, two validator sets, two parameter values that change once, one version kept besides the latest, checkpoints every 3 heights, batches of 2, one fault (a crash or a failed write), two restores | `NodeTypeOK`, `NodeCanStart`, `StateTrue`, `ParamsTrue`, `AppLoadable`, `ValidatorRecordsThere`, `SnapshotConsistent` |
| `proof_verification` | 31 points, scalars 0, 1, 2, n-1, n, n+2, three keys, four gammas, every witness | `VRFTypeOK`, `HashIsPoint`, `EquationsHold`, `HonestAccepted` |
| `request_id`, `pending`, `request_count`, `stored_sets` | minimal | statements of the repository that the code does not keep (section 5) |

*Why the bounds are enough.* Reusing an id needs a request, a removal, an
addition and a second request of one consumer: two requests do; the third makes
an id collide with one that is owed and one that is answered. A nested
fulfilment differs from a single one in depth two; a third level repeats the
second. The swap-and-pop removal has its cases (first, middle, last, only) with
three keys. A window of one height lets a hash expire while its request is owed.
For the provider two requests cover both the second event of one height and an
event of a later height, and two faults cover a fault during the recovery from
another. Five transactions are the registration and the two of a request, each of
these sent twice. The operator has no consumers, block hashes or ownership to
administer there: the runs `requests` and `administration` are about those, and the
proofs about all of it. For the wallet, giving one key to two names needs two faults: an
address entry lost in a crash, and a root record lost in another or an index that an
overlap made stale. For the snapshots three heights put a change
of validators at and around the height rolled back to, and a checkpoint between; two
creates, with replayed blocks between, fit into them, and so does a create after a
restore, and a restore of a target that was used twice. One fault can fall at any write,
of the node or of a command, and whatever it leaves is then used by every command; the
proofs of section 4 are for any number of heights and faults, and for a node that keeps
any number of versions. For the proofs the scalars are on
both sides of every limit, and the field is small enough to try every witness.

*Fairness.* `ProviderSpec` has weak fairness for the process (its loop never
blocks except on the receipt polls, which are its steps, and a supervisor
restarts it after a crash), for the execution of the transactions in the mempool,
for the end of a fulfilment (calls terminate: they have finite gas), and for block
production. Nothing is assumed of requests, operators or faults; faults are
finite in number, the usual assumption for a property that says something
happens in the end.

*Wedged.* Two states need an operator, and the liveness properties exclude them
by name: a crash between the truncation and the write of the cache file leaves
a file that is fatal at every later start, and `registerAdminProvider` polls
without a limit for a transaction the node has lost.

`EveryRequestAnswered` counts a fulfilment that reverted after its callback had
started as answered: this is what happens when the fixed gas limit does not
suffice, and the provider does not try again.

## 4. Proofs

`VRFCoordinatorProofs` proves for all values of the constants that satisfy the
named assumptions of `VRFCoordinator`:

- `TypeCorrect`: `Spec => []TypeOK`. `TypeOK` is inductive as it stands, because
  it speaks of the storage saved in the frames too: a revert reinstates one of them.
- `NoDoubleAnswer`: `Spec => []AnsweredWithinAsked`. For each id and each level of
  the call stack, the answers given, the answers under way below that level and the
  answer owed are together at most the requests emitted.

  The inductive invariant is
  `AnswerInv == TypeOK /\ AnsweredWithinAsked /\ FramesOpen`. `FramesOpen` says that
  every frame was pushed while its commitment was there. It is needed when a
  callback fails: the storage is then rebuilt from the frame's saved copy with the
  commitment deleted, and the count balances only if that deletion removed an owed
  answer. The statement ranges over all levels since a revert makes a lower level
  the current storage. Apart from the stack lemmas (`PopBalance`, `FulfillBalance`)
  each group of actions has one lemma: administration and subscriptions keep the
  ledger (`ManagementKeepsLedger`), a request adds one to both sides
  (`RequestBalance`: the overwritten commitment of a reissued id is forgotten, which
  is why the property is an inequality), a fulfilment moves one answer from owed to
  under way, and its end moves it to given.

`VRFStorageProofs`: `KeyViewsAgree`, `ConsumersListed` and `CommitmentsOpen`. The
inductive invariant `StorageInv` says all three of the storage at every level of the
stack: a failed callback or a revert makes a saved copy the storage again, so what is
said of the current one alone is lost there. The work is in two lemmas about
sequences: what `push` and swap-and-pop do to a list without repetitions
(`AppendLists`, `SwapRemoveLists`).

`VRFCallProofs`:

- `LockAlwaysReleased` and `LockAlwaysIsolates` are inductive together (`LockInv`):
  a fulfilment may only start with the lock open, which is why its saved copy has it
  open too; while it is held, only the owner's functions get through, and they leave
  the guarded storage alone. The owner may clear the lock from a callback, as the code
  permits: then nothing is claimed until the frame ends, which leaves the lock open.
- `LifecycleHolds` is the action property `SubscriptionLifecycle`. One step of
  `Committed` is a whole transaction, the effects of all its nested callbacks; the
  invariant `FollowInv` therefore says of every level that it is later than the
  committed storage, and `Follows` is reflexive and transitive.

- `CoordinatorImplementsService` is the refinement `Spec => Service!Spec`. Initial
  states map to initial states, and every step to a step of the service or to a
  stutter. The invariant `ServiceInv` extends `AnswerInv`: for each level and id,
  what has happened since the committed storage, with the fulfilments under way
  below that level, is what one step of the service may do. `ServedMoves` shows that
  it stays so when the level requests, starts a fulfilment or ends one.
- `ReqCountAlwaysExact` is `ReqCountExact`. The answers of a subscription are
  counted as the set of pairs of an id and a number up to the answers it had
  (`Answers`), so that one more answer is one more element. `CountInv` says it at
  every level of the stack, that the ids of a subscription that is not handed out
  yet have no answers, and that the commitment a frame opened is of a subscription
  that was.

`VRFProviderProofs` is about `ProviderSpec`, the provider and the coordinator
together, for any number of blocks, requests, operators, faults and retries:

- `ProviderTypes`, `RequestsNotSkipped`, `RequestsAnsweredOnce`. The invariant
  `ProviderInv` has four parts besides the types. `ChainInv`: fulfilments do
  not nest here, and a callback's new requests are of the current block. `TxInv`:
  a transaction is about a request of an earlier, complete block, and the fulfilment
  under way is the head of the mempool. `RelayInv`: while `relay` is at a height, each
  request of that height was attempted or is in `todo`; a receipt it waits for can only
  be of the current event (hashes are never reused, so a late receipt of an earlier
  attempt is not taken for it); and neither the process nor its file is ahead of the
  chain, so a passed height gets no new requests. `OnceInv`: the commitment of an
  answered request is gone at every level, and cannot come back since a new commitment
  under the same id is of a later block.
- The steps of the whole system are first reduced to a few cases (`ChainSteps`): the
  process moves, or the chain does nothing, asks, starts, ends or undoes. Each part of
  the invariant is then proved against those. The facts about the log come from
  `FollowInv` of `VRFCallProofs`.

`WalletKeystoreProofs` is about `WalletSpec`, for any number of names, passphrases,
mnemonics, terminals and faults. `WalletTypes` rests on `Shape`, which says for each
command where it can be and which of its values it has by then. On it rest

- `AddressesLead` (`IndexInv`: a command inside `writeInfo` has its name and its address
  for itself, unless a race is recorded);
- `PassphraseAlwaysOpens` (`PassInv`: every command that was let in was let in by the
  keyhash that is still there; only an `update` between the root record and the keyhash
  may see them differ);
- `ExportsMatch` (`FamilyInv`: as long as no root record is lost, the root record, all
  keys and all running commands have one mnemonic);
- `KeysOnce`, by two independent arguments, one for each half of the property's
  exception: the check of `writeInfo` finds the address entry (`ListedInv`,
  `UniqueInv`), or every key was the last one when it was made (`OrderInv`).

`NodeStoresProofs` and `NodeSnapshotProofs` are about `NodeStores`, for every chain of
validators and parameters, any number of heights, crashes, failed writes and restores,
any checkpoint interval and any number of versions kept. None of the seven invariants is inductive: what a directory is
like when a command begins depends on where an earlier one died. They are proved in
layers, each of which uses the ones before it.

- `NodeTypesHold`. `TypeInv` adds to the types what the `pc` of a process says of its
  own data and of the directory it works on (`Formed`).
- `NodeAlwaysStarts`. `StartInv` is `Started`, which is `Startable` and what one more
  rollback needs (the block of the state's height, and the responses of the last block
  if the application has executed it); `Apart`, how far apart the stores are at each
  `pc`; and `Snapped`, what each step of `create` has already copied.
- `StateAlwaysTrue` and `AppAlwaysLoadable`: `StateInv` also speaks of the last
  validators, which `Recover` takes for the validators of the state it saves, and
  `AppInv` of the version before the latest, to which `rollBackApplication` goes back.
  That version is there whenever the block before the last one is. It is not with
  `KeepRecent = 0`, where the claim would be false and is not made (section 5), nor in a
  `flawed` directory, whose extra block has no version of its own.
- `ParamsAlwaysTrue`: `ParamsInv` follows a record to the one it refers to, and says
  that the parameters have not changed in between; `ss.Save` may then overwrite a record
  only as long as no other refers to it.
- `ValidatorRecordsKept` and `SnapshotsConsistent`: by `ValidatorsInv` every height that
  may still be asked for has a record and so has the last checkpoint or change below it;
  `create` copies exactly these. It says that the records are there, not that they hold
  the right set, since a rollback over a change of validators loses it (`stored_sets`).
  `SnapshotsConsistent` is about every completed snapshot, those with ignored errors
  included, and gives up for each error only what that error damages: blocks, state and
  last signed height always agree; the application agrees too, unless its rollback or its
  copy failed, and is at most one ahead if only the rollback did; the mark is in the WAL
  unless its copy ended early; the validators load as in the source unless records were
  lost or the source was `flawed`.
- That a set of heights has a least and a greatest element comes from the
  well-foundedness of `<` (`MinOf`, `MaxOf`), and a lemma on remainders
  (`ModStep`) says where the checkpoint of the next height is.

`VRFProofs` is about `VRF`, for every field and every set of scalars that satisfy the
assumptions below. TLC's field has 43 elements, secp256k1's is as well covered.

- `Cong` and its lemmas are arithmetic modulo a number, and `NoDivisors` is the one
  place where the modulus has to be prime.
- `VRFTypesHold` and `HashAlwaysPoint`. The square root is a power defined by
  recursion; `PowerExists` shows that the recursion has a solution, and
  `PowerInField` that any solution stays in the field, both by a least
  counterexample. That the result is a root is not needed: the contract checks the
  candidate. It is even since the modulus is odd.
- `EquationsAlwaysHold`. A point is identified with its logarithm (`LogIs`, `SameLog`),
  where equations of the group are congruences modulo its order. `UniquePoint`: the
  abscissa and the parity that `ecrecover` gets determine the point. `Product` and
  `Combination`: the inverse of the abscissa that `ecrecover` multiplies by cancels the
  one in its arguments. `Numerators`, `SecantIs`, `ProjectiveIs` and `AffineIs`: both
  branches of `projectiveECAdd` compute numerators of the textbook's sum over the third
  coordinate.
- `HonestAlwaysAccepted`, from the same lemmas in the other direction (`ScalarKept`,
  `CombinationAccepted`, `ProductAccepted`).

*Assumptions.* The proofs use the `ASSUME`s of the modules, which TLC evaluates in the
runs: `AddressAssumption`, `BoundAssumption`, `InputAssumption` and
`CommitmentAssumption` of the coordinator (the zero address is neither a contract nor the deployer, the bounds
are numbers, the zero word is no hash), `ProviderAssumption` (the account and the key
exist, the deployment made one subscription), and of the wallet that the sets of inputs
are what they are named for and `MarkersAssumption` (an absent or torn file is not a
record). Of the node: `NodeAssumption` (the
bounds are numbers, of which the checkpoint interval, the batch size and the greatest
height are not zero, while `KeepRecent` and the numbers of faults and restores may be;
the mounted stores are among the stores; the markers for what is absent or torn are no
values) and `RecordsAssumption` (nor are they records). Of the
verification: `ScalarAssumption` (the field has `q % 4 = 3` elements, the chosen multiples are
not infinity), `PrimeAssumption` (what is not zero has an inverse, modulo the field's size
and the group's order) and `CurveAssumption` (the points are the multiples of
the generator, each once, and add as their scalars do): the facts about
secp256k1 that the contract relies on, and that a proof in this logic cannot get from its
numbers. The invariants were checked by TLC before they were proved.

*Only model-checked.* The liveness properties `EveryRequestAttempted` and
`EveryRequestAnswered`, since the prover does no fairness. Every other property of a passing
run is a theorem. That `CurveAssumption` and `PrimeAssumption` are true is evaluated by
TLC for the small curve only, and so is what the recursive definition of `Multiple` yields.

## 5. Where documentation and code part

Each is a run whose property states what the documentation says and whose
counterexample shows what the code does.

- `request_id`: `removeConsumer` deletes a consumer's nonce and `addConsumer` starts
  it again, so `requestRandomWords` returns an id it has returned before; the
  interface calls it "a unique identifier of the request". If the first
  request is still owed its commitment is overwritten.
- `pending`: `pendingRequestExists` looks at the latest nonce of each
  consumer only. The property is restricted to listed consumers and registered keys,
  and fails still when a later request is answered before an earlier one.
- `request_count`: `getSubscription` returns `reqCount`, by the interface the "number of
  requests for this subscription" (`VRFCoordinatorV2Interface.sol:67`). It is increased by
  `fulfillRandomWords` only (`VRFCoordinator.sol:514`), so a request that was made and not
  answered is not counted. What it does count, the answers, is `ReqCountExact`.
- `stored_sets`: `Recover` caps the height of the last change of validators at
  the height after the one it rolls back to (`rollback.go:77`). If the change was in
  one of the last two blocks, `ss.Save` then rewrites the record that holds the new set
  without it, and makes it refer to the height after the one rolled back to, or to the
  last checkpoint if that is later. In the run, where no checkpoint lies between, the
  record there has no set and the validators cannot be loaded any more; at a
  checkpoint the old set would be loaded in place of the new one.
  The comment over `ss.Save` says that what it overwrites "should be the same".
  Replaying the rolled back block does not write that record again, and the node
  needs these validators to execute the block after theirs (`ExecuteBlock`).

Seen while modelling, without a run of their own:

- Coordinator: the administrator can add a consumer to an id that is not handed out
  yet. `createSubscription` then starts with an empty list while the consumer stays
  allocated, though the list "maintains the list of keys in s_consumers"; it cannot be
  removed while the list is empty, since `consumers.length - 1` underflows.
- Provider: `minimumRequestConfirmations`, "how many blocks you'd like the oracle
  to wait", is read by nobody; a request is answered when the next height exists.
- Wallet: a crash between truncating and writing `root.ini`, which every `create` and
  `update` does, leaves an empty file. `HasInit` takes it for a wallet that was never
  created, and `init` draws a new mnemonic beside the accounts of the old one. Exporting
  an old account then gives the key of another: this is why `ExportMatches` excludes
  a lost root record. Recovering with the old mnemonic instead repairs the wallet.
- Wallet: a `create` or `export` that meets an `update` after `Reset` removed the
  keyhash asks its user for a new passphrase and stores it; the prompt then accepts a
  passphrase that does not decrypt the root record.
- Rollback: the command's comment says it "does not affect application state", but
  `rollBackApplication` sets the application's latest version back.
- Snapshot: `saveConsensusParamsInfo` writes the height of the last change without
  the parameters. A restored node cannot load them, and rolling it back
  saves a state without parameters: `ParamsTrue` is stated up to a restore.
- Snapshot: `upgrade-info.json` is never copied. The check in `copyUpgradeInfo` is
  for a target with an application, which has just been copied.
- Snapshot: the source is rolled back before the copies. When the validators changed
  in the last blocks, `saveValidatorsInfo` panics after that, and the command, which
  recovers the panic, ends without an error.
- Snapshot: a create that was interrupted leaves a target without `application.db`,
  which the next one takes for a free directory. At the same height it panics in
  `SaveBlock`; one height on, it adds its block to the old one. `SnapshotConsistent`
  holds for such a target too. A prune of it creates an empty `application.db`, which
  makes every later create refuse the directory.
- Snapshot: the ignored errors of section 2.4. "snapshot completed!" is also printed for a
  snapshot without the WAL mark of its height (a log that an ordinary crash damaged is
  enough), with a torn application, without validators' or parameters' records, or with
  an application one version ahead. `SnapshotConsistent` says what is left in each case.
- Snapshot: with `--pruning everything`, or `pruning-keep-recent 0`, the node has only its
  latest version. `rollBackApplication` makes the one before it the latest without looking
  whether it is there: after `snapshot create` neither the node nor the copy can load its
  application. `AppLoadable` is therefore stated for a node that keeps a version.
- Snapshot: a target that held the block of an earlier attempt, once restored, has a block
  below its oldest version. A rollback to it before new blocks are made leaves an
  application that cannot be loaded: the properties call such a directory `flawed`.
- Snapshot: creating one directly after a restore panics, since the parameters
  record of the height is not there.
- Snapshot: the last signed height of the copy is that of the snapshot, although the
  source's validator has signed the next one.

A last remark: the owner-only functions of the coordinator are not
`nonReentrant`, and `setConfig` in a callback even clears the lock. The run
`reentrancy` is about exactly this case: `LockIsolates`, `LockReleased` and
`NoDoubleAnswer` say what still holds.

## 6. Plan

1. Done: coordinator, provider, their composition; `TypeCorrect`, `NoDoubleAnswer`.
2. Done: `WalletKeystore`, with crashes and overlapping commands.
3. Done: `NodeStores`, `VRF`, `RandomnessService` and its refinement.
4. Done: proofs of the coordinator's remaining invariants, of `SubscriptionLifecycle`
   and `ImplementsService`; of the provider's and the wallet's invariants.
5. Done: proofs of all invariants of `NodeStores` and `VRF`, and of `ReqCountExact`.
6. Done: the errors that the snapshot commands ignore, nodes that keep no old version,
   reused targets that are restored; the proofs of `NodeStores` redone for them.
7. Open: liveness has no proof. That nobody waits for the confirmations of a request
   has no property either: one would need a model of chain reorganisations, which the code does not handle.
   The notes of the hazards say where a property excludes by name the very interruption
   that a hazard is about: there the code does not recover, and the property says that
   nothing else does the same harm.

## 7. Not modelled

- Ante handlers (`app/ante`) and the EVM glue: constant lists of decorators, nearly
  all of them from libraries that are not in the repository. What they read and
  write would have to be guessed.
- TIBC wrappers: a permission check and a call of a library keeper.
- Application wiring, servers, genesis and testnet commands: they construct library
  objects or write files from flags, once and in sequence.
- Vendored and generated code. By far the most lines of JavaScript in
  the repository are the minified Swagger UI (`lite/swagger-ui`) and the theme of
  the documentation site (`docs/.third_party`); both are third-party and neither
  has anything to do with the chain. The program's own code is Go and Solidity,
  so a share of JavaScript lines says nothing about these models.

## 8. How to run

    tlc -workers 2 -config MCRequests.cfg MCVRFCoordinator
    tlc -workers 2 -config MCProvider.cfg MCVRFProvider
    tlc -workers 2 -config MCSnapshot.cfg MCNodeStores
    tlc -workers 2 -config MCVRF.cfg MCVRF
    tlc -workers 2 -config MCWallet.cfg MCWalletKeystore
    tlapm VRFCoordinatorProofs.tla
    tlapm VRFStorageProofs.tla
    tlapm VRFCallProofs.tla
    tlapm VRFProviderProofs.tla
    tlapm WalletKeystoreProofs.tla
    tlapm NodeStoresProofs.tla
    tlapm NodeSnapshotProofs.tla
    tlapm VRFProofs.tla
