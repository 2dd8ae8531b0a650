------------------------------ MODULE NodeStores ------------------------------
(***************************************************************************)
(* The data directory of a node and the offline commands that change it    *)
(* (cmd/irita/cmd/rollback.go, snapshot.go): `snapshot create' rolls the   *)
(* node back by one height and copies what is needed to start from there   *)
(* to a target directory, `snapshot prune' deletes old application         *)
(* versions in the copy.  The node itself is external; its writes while it *)
(* commits a block are modelled because a command finds what they left.    *)
(*                                                                         *)
(* One process has the databases open at a time.  Every write is a step    *)
(* and the process may die before it.  A write may also fail, and the      *)
(* commands go on where they do not look at the error.                     *)
(***************************************************************************)
EXTENDS Integers, FiniteSets, FiniteSetsExt

CONSTANTS
    ValidatorSet,       \* sets of validators
    ConsensusParams,    \* consensus parameters
    NoParams,           \* the zero value of consensus parameters
    Store,              \* storeKeys: names of the application's stores
    Mounted,            \* those that exist in this chain
    Nothing,            \* what is not there
    Torn,               \* an application database copied in part
    KeepRecent,         \* versions the node keeps besides the latest; none with
                        \* --pruning everything or pruning-keep-recent 0
    batchNum,           \* --max-pruning-versions
    valSetCheckpointInterval,
    MaxHeight,          \* bound on the height
    MaxParamChanges,    \* bound on the changes of parameters along the chain
    MaxFaults,          \* bound on the crashes and failed writes
    MaxRestores         \* bound on the restores from a snapshot

ASSUME NodeAssumption ==
    /\ Mounted \subseteq Store
    /\ NoParams \notin ConsensusParams /\ Nothing # Torn
    /\ {Nothing, Torn} \cap (ValidatorSet \cup ConsensusParams \cup {NoParams}) = {}
    /\ {batchNum, valSetCheckpointInterval, MaxHeight} \subseteq Nat \ {0}
    /\ {KeepRecent, MaxParamChanges, MaxFaults, MaxRestores} \subseteq Nat

Height == 1 .. MaxHeight
InfoHeight == 1 .. MaxHeight + 2

\* state.State.  appHash is the height after which the application has it.
State == [height : 0 .. MaxHeight, lastVals : ValidatorSet \cup {Nothing},
          vals : ValidatorSet, nextVals : ValidatorSet, valsChanged : InfoHeight,
          params : ConsensusParams \cup {NoParams}, paramsChanged : InfoHeight,
          appHash : 0 .. MaxHeight]
\* ValidatorsInfo and ConsensusParamsInfo: the value itself only where it changed.
ValidatorsInfo == [changed : InfoHeight, value : ValidatorSet \cup {Nothing}]
ParamsInfo == [changed : InfoHeight, value : ConsensusParams \cup {NoParams}]
\* The application database: its latest version, commit infos and trees.
App == [latest : 0 .. MaxHeight, commits : SUBSET Height, trees : [Store -> SUBSET Height]]

\* What is not there is told apart from every record.
ASSUME RecordsAssumption ==
    {Nothing, Torn} \cap (State \cup ValidatorsInfo \cup ParamsInfo \cup App) = {}

\* A data directory.
Directory ==
    [blocks : SUBSET Height, state : State \cup {Nothing},
     valInfo : [InfoHeight -> ValidatorsInfo \cup {Nothing}],
     paramsInfo : [InfoHeight -> ParamsInfo \cup {Nothing}],
     abci : SUBSET Height, wal : SUBSET (0 .. MaxHeight), priv : 0 .. MaxHeight,
     app : App \cup {Nothing, Torn}, files : SUBSET {"blockstore", "evidence", "upgrade"}]

EmptyApp == [latest |-> 0, commits |-> {}, trees |-> [s \in Store |-> {}]]
EmptyDirectory ==
    [blocks |-> {}, state |-> Nothing, valInfo |-> [h \in InfoHeight |-> Nothing],
     paramsInfo |-> [h \in InfoHeight |-> Nothing], abci |-> {}, wal |-> {}, priv |-> 0,
     app |-> Nothing, files |-> {}]

VARIABLES
    chain,          \* what the network agrees on: validators and parameters by height
    data,           \* the node's directory
    target,         \* --tmp-dir
    completed,      \* history: the target was reported complete
    swallowed,      \* history: the errors that the last create ignored
    flawed,         \* history: the data directory came from a snapshot that was made
                    \* over the block of an earlier attempt, or without its records
    job,            \* the process that has the databases open
    faults, restores

vars == <<chain, data, target, completed, swallowed, flawed, job, faults, restores>>

\* The errors: of the batch that rolls the application back, of the validators' and
\* the parameters' records, of the WAL and of the application's files.
Swallowed == {"rollApp", "records", "wal", "copy"}

Idle == [pc |-> "idle", cmd |-> "none", state |-> Nothing, height |-> 0,
         start |-> [s \in Store |-> 0]]

-----------------------------------------------------------------------------
(* What the stores answer *)

\* bs.Height()
StoreHeight(dir) == IF dir.blocks = {} THEN 0 ELSE Max(dir.blocks)

Larger(m, n) == IF m > n THEN m ELSE n

lastStoredHeightFor(height, lastHeightChanged) ==
    Larger(height - (height % valSetCheckpointInterval), lastHeightChanged)

\* ss.LoadValidators: Nothing is an error.
LoadValidators(dir, height) ==
    LET info == dir.valInfo[height] IN
    IF info = Nothing THEN Nothing
    ELSE IF info.value # Nothing THEN info.value
    ELSE LET stored == dir.valInfo[lastStoredHeightFor(height, info.changed)]
         IN  IF stored = Nothing THEN Nothing ELSE stored.value

\* ss.LoadConsensusParams: Nothing is an error, NoParams is an answer.
LoadConsensusParams(dir, height) ==
    LET info == dir.paramsInfo[height] IN
    IF info = Nothing THEN Nothing
    ELSE IF info.value # NoParams THEN info.value
    ELSE LET stored == dir.paramsInfo[info.changed]
         IN  IF stored = Nothing THEN Nothing ELSE stored.value

\* ss.Save writes these two and then the state.
NextValidatorsInfo(s) ==
    LET height == s.height + 2 IN
    [changed |-> s.valsChanged,
     value |-> IF height = s.valsChanged \/ height % valSetCheckpointInterval = 0
                 THEN s.nextVals ELSE Nothing]
NextParamsInfo(s) ==
    [changed |-> s.paramsChanged,
     value |-> IF s.height + 1 = s.paramsChanged THEN s.params ELSE NoParams]

\* The handshake of a starting node accepts the directory: the block store is
\* at the state or one ahead, and the application is at one of the two, with
\* the responses of a block it has committed and the state has not.
Startable(dir) ==
    /\ StoreHeight(dir) \in {dir.state.height, dir.state.height + 1}
    /\ dir.app.latest \in {dir.state.height, StoreHeight(dir)}
    /\ dir.app.latest > dir.state.height => dir.app.latest \in dir.abci

\* The version that is said to be the application's latest has its commit info
\* and is in every tree.
Loadable(app) ==
    app.latest > 0 => /\ app.latest \in app.commits
                      /\ \A s \in Mounted : app.latest \in app.trees[s]

\* A node starts from the directory: the application loads its latest version
\* before the handshake.
NodeAccepts(dir) == dir.app \notin {Nothing, Torn} /\ Loadable(dir.app) /\ Startable(dir)

-----------------------------------------------------------------------------
(* The node *)

\* The state after the next block, as the node computes it from the current one.
NextState(s) ==
    LET h == s.height + 1
        valsUpdated == chain.vals[h + 2] # chain.vals[h + 1]
        paramsUpdated == chain.params[h + 1] # chain.params[h]
    IN  [height |-> h, lastVals |-> s.vals, vals |-> s.nextVals,
         nextVals |-> IF valsUpdated THEN chain.vals[h + 2] ELSE s.nextVals,
         valsChanged |-> IF valsUpdated THEN h + 2 ELSE s.valsChanged,
         params |-> IF paramsUpdated THEN chain.params[h + 1] ELSE s.params,
         paramsChanged |-> IF paramsUpdated THEN h + 1 ELSE s.paramsChanged,
         appHash |-> h]

NodeStart ==
    /\ job = Idle /\ NodeAccepts(data)
    /\ job' = [Idle EXCEPT !.pc = "node", !.cmd = "node"]
    /\ UNCHANGED <<chain, data, target, completed, swallowed, faults, restores, flawed>>

NodeStop ==
    /\ job.pc = "node" /\ job' = Idle
    /\ UNCHANGED <<chain, data, target, completed, swallowed, faults, restores, flawed>>

\* A decided block is signed and saved.
SaveBlock ==
    /\ job.pc = "node" /\ StoreHeight(data) = data.state.height
    /\ data.state.height < MaxHeight
    /\ LET h == data.state.height + 1
       IN  data' = [data EXCEPT !.blocks = @ \cup {h}, !.priv = h]
    /\ job' = [job EXCEPT !.pc = "endHeight"]
    /\ UNCHANGED <<chain, target, completed, swallowed, faults, restores, flawed>>

WriteEndHeight ==
    /\ job.pc = "endHeight"
    /\ data' = [data EXCEPT !.wal = @ \cup {StoreHeight(data)}]
    /\ job' = [job EXCEPT !.pc = "node"]
    /\ UNCHANGED <<chain, target, completed, swallowed, faults, restores, flawed>>

\* BeginBlock needs the validators of the block before, and the node panics
\* without; the responses are saved before the application commits.
ExecuteBlock ==
    /\ job.pc = "node" /\ StoreHeight(data) = data.state.height + 1
    /\ data.app.latest = data.state.height
    /\ LET h == StoreHeight(data)
       IN  IF h = 1 \/ LoadValidators(data, h - 1) # Nothing
             THEN /\ data' = [data EXCEPT !.abci = @ \cup {h}]
                  /\ job' = [job EXCEPT !.pc = "trees"]
             ELSE job' = Idle /\ UNCHANGED data
    /\ UNCHANGED <<chain, target, completed, swallowed, faults, restores, flawed>>

\* Every tree saves its version and drops the old ones.
CommitTrees ==
    /\ job.pc = "trees"
    /\ LET h == StoreHeight(data)
       IN  data' = [data EXCEPT !.app.trees =
                      [s \in Store |-> IF s \in Mounted
                                         THEN {v \in @[s] \cup {h} : v >= h - KeepRecent}
                                         ELSE {}]]
    /\ job' = [job EXCEPT !.pc = "flush"]
    /\ UNCHANGED <<chain, target, completed, swallowed, faults, restores, flawed>>

FlushMetadata ==
    /\ job.pc = "flush"
    /\ LET h == StoreHeight(data)
       IN  data' = [data EXCEPT !.app.latest = h, !.app.commits = @ \cup {h}]
    /\ job' = [job EXCEPT !.pc = "node"]
    /\ UNCHANGED <<chain, target, completed, swallowed, faults, restores, flawed>>

UpdateState ==
    /\ job.pc = "node" /\ StoreHeight(data) = data.state.height + 1
    /\ data.app.latest = StoreHeight(data)
    /\ job' = [job EXCEPT !.pc = "saveVals", !.state = NextState(data.state)]
    /\ UNCHANGED <<chain, data, target, completed, swallowed, faults, restores, flawed>>

-----------------------------------------------------------------------------
(* ss.Save, of the node and of Recover *)

SaveVals ==
    /\ job.pc = "saveVals"
    /\ data' = [data EXCEPT !.valInfo[job.state.height + 2] = NextValidatorsInfo(job.state)]
    /\ job' = [job EXCEPT !.pc = "saveParams"]
    /\ UNCHANGED <<chain, target, completed, swallowed, faults, restores, flawed>>

SaveParams ==
    /\ job.pc = "saveParams"
    /\ data' = [data EXCEPT !.paramsInfo[job.state.height + 1] = NextParamsInfo(job.state)]
    /\ job' = [job EXCEPT !.pc = "saveState"]
    /\ UNCHANGED <<chain, target, completed, swallowed, faults, restores, flawed>>

SaveState ==
    /\ job.pc = "saveState"
    /\ data' = [data EXCEPT !.state = job.state]
    /\ job' = [job EXCEPT !.pc = IF job.cmd = "node" THEN "node" ELSE "rollApp",
                          !.state = Nothing]
    /\ UNCHANGED <<chain, target, completed, swallowed, faults, restores, flawed>>

-----------------------------------------------------------------------------
(* snapshot create *)

\* A target that has an application is refused before anything is opened.
CreateSnapshot ==
    /\ job = Idle /\ target.app = Nothing
    /\ job' = [Idle EXCEPT !.pc = "recover", !.cmd = "create"]
    /\ swallowed' = {}
    /\ UNCHANGED <<chain, data, target, completed, faults, restores, flawed>>

\* A write fails and the command goes on.
Swallow(error) ==
    /\ faults < MaxFaults /\ faults' = faults + 1
    /\ swallowed' = swallowed \cup {error}

\* Mutant: the next validators are not shifted back.
RolledBackKeepsNext ==
    LET s == data.state
        r == s.height - 1
    IN  [s EXCEPT !.height = r, !.lastVals = LoadValidators(data, r), !.vals = s.lastVals,
                  !.valsChanged = IF @ > r THEN r + 1 ELSE @,
                  !.params = LoadConsensusParams(data, r + 1),
                  !.paramsChanged = IF @ > r THEN r + 1 ELSE @, !.appHash = r]

\* Mutant: the parameters of the invalid state are kept.
RolledBackKeepsParams ==
    LET s == data.state
        r == s.height - 1
    IN  [s EXCEPT !.height = r, !.lastVals = LoadValidators(data, r), !.vals = s.lastVals,
                  !.nextVals = s.vals, !.valsChanged = IF @ > r THEN r + 1 ELSE @,
                  !.paramsChanged = IF @ > r THEN r + 1 ELSE @, !.appHash = r]

\* The state of the block before, of what the state, the stores and the last
\* block say.  The application hash of a height is in the next header.
RolledBackState ==
    LET s == data.state
        r == s.height - 1
    IN  [height |-> r, lastVals |-> LoadValidators(data, r), vals |-> s.lastVals,
         nextVals |-> s.vals,
         valsChanged |-> IF s.valsChanged > r THEN r + 1 ELSE s.valsChanged,
         params |-> LoadConsensusParams(data, r + 1),
         paramsChanged |-> IF s.paramsChanged > r THEN r + 1 ELSE s.paramsChanged,
         appHash |-> r]

\* What Recover reads before it writes.
CanRollBack ==
    LET r == data.state.height - 1
    IN  /\ StoreHeight(data) = data.state.height
        /\ r \in data.blocks
        /\ LoadValidators(data, r) # Nothing
        /\ LoadConsensusParams(data, r + 1) # Nothing

\* Mutant: a block store that is ahead is rolled back like any other.
RecoverTwice ==
    /\ job.pc = "recover"
    /\ IF data.state.height - 1 \in data.blocks
         THEN /\ job' = [job EXCEPT !.pc = "saveVals", !.state = RolledBackState,
                                    !.height = RolledBackState.height]
              /\ UNCHANGED <<target, completed>>
         ELSE job' = Idle /\ target' = EmptyDirectory /\ completed' = FALSE
    /\ UNCHANGED <<chain, data, swallowed, faults, restores, flawed>>

\* Mutant: the error of Recover is not looked at.
RecoverErrorIgnored ==
    /\ job.pc = "recover"
    /\ job' = IF StoreHeight(data) = data.state.height + 1
                THEN [job EXCEPT !.pc = "rollApp", !.height = data.state.height]
                ELSE IF CanRollBack
                THEN [job EXCEPT !.pc = "saveVals", !.state = RolledBackState,
                                 !.height = RolledBackState.height]
                ELSE [job EXCEPT !.pc = "block", !.height = -1]
    /\ UNCHANGED <<chain, data, target, completed, swallowed, faults, restores, flawed>>

\* Up to the first write.  An error removes the target directory.
Recover ==
    /\ job.pc = "recover"
    /\ \/ /\ StoreHeight(data) = data.state.height + 1
          /\ job' = [job EXCEPT !.pc = "rollApp", !.height = data.state.height]
          /\ UNCHANGED <<target, completed>>
       \/ /\ CanRollBack
          /\ job' = [job EXCEPT !.pc = "saveVals", !.state = RolledBackState,
                                !.height = RolledBackState.height]
          /\ UNCHANGED <<target, completed>>
       \/ /\ StoreHeight(data) # data.state.height + 1 /\ ~CanRollBack
          /\ job' = Idle /\ target' = EmptyDirectory /\ completed' = FALSE
    /\ UNCHANGED <<chain, data, swallowed, faults, restores, flawed>>

\* One batch.  The trees keep the version that is no longer the latest.  The
\* error of WriteSync is not looked at.
rollBackApplication ==
    /\ job.pc = "rollApp"
    /\ \/ /\ data' = [data EXCEPT !.app.latest = job.height,
                                  !.app.commits = @ \ {job.height + 1}]
          /\ UNCHANGED <<swallowed, faults>>
       \/ Swallow("rollApp") /\ UNCHANGED data
    /\ job' = [job EXCEPT !.pc = "block"]
    /\ UNCHANGED <<chain, target, completed, restores, flawed>>

\* A panic is recovered by the command: what the target has so far stays.
Panic == job' = Idle

\* The target's block store takes only the block after its last one.
snapshotBlock ==
    /\ job.pc = "block"
    /\ IF /\ job.height \in data.blocks
          /\ target.blocks = {} \/ job.height = StoreHeight(target) + 1
         THEN /\ target' = [target EXCEPT !.blocks = @ \cup {job.height},
                                          !.files = @ \cup {"blockstore"}]
              /\ job' = [job EXCEPT !.pc = "state"]
         ELSE Panic /\ target' = [target EXCEPT !.files = @ \cup {"blockstore"}]
    /\ UNCHANGED <<chain, data, completed, swallowed, faults, restores, flawed>>

\* What newStore.Save puts in the target.
SavedState(dir, s) ==
    [dir EXCEPT !.state = s, !.valInfo[s.height + 2] = NextValidatorsInfo(s),
                !.paramsInfo[s.height + 1] = NextParamsInfo(s)]

\* Mutant: the record that holds the set is not copied.
saveValidatorsNoSet(height, lastHeightChanged) == {height, height + 1}

\* Mutant: the next height is not copied.
saveValidatorsNoNext(height, lastHeightChanged) ==
    {height, lastStoredHeightFor(height, lastHeightChanged)}

\* The heights whose records are copied: the height, the next, and the one that
\* holds the set.
saveValidatorsInfo(height, lastHeightChanged) ==
    {height, height + 1, lastStoredHeightFor(height, lastHeightChanged)}

\* With the source's records of these heights.
WithRecords(dir, heights) ==
    [dir EXCEPT !.valInfo = [h \in InfoHeight |->
        IF h \in heights THEN data.valInfo[h] ELSE dir.valInfo[h]]]

\* Only the height of the change is written, under that height.
saveConsensusParamsInfo(dir, height) ==
    LET changed == data.paramsInfo[height].changed
    IN  [dir EXCEPT !.paramsInfo[changed] = [changed |-> changed, value |-> NoParams]]

\* The writes to the target's state database are one step: nothing reads them
\* before the next command, which a panic or a crash in between stops at the
\* block.  It panics without the responses of the height, when the validators
\* changed after it, at a validators' record that is not there (what comes before
\* is written), and without the parameters of the height.  The errors of Set are
\* not looked at.
snapshotState ==
    LET h == job.height
        s == data.state
        saved == [SavedState(target, s) EXCEPT !.abci = @ \cup {h}]
        copied == saveValidatorsInfo(h, s.valsChanged)
        there == {x \in copied : data.valInfo[x] # Nothing}
    IN  /\ job.pc = "state"
        /\ \/ /\ h \notin data.abci
              /\ Panic /\ UNCHANGED <<target, swallowed, faults>>
           \/ /\ h \in data.abci /\ s.valsChanged > h
              /\ Panic /\ target' = saved /\ UNCHANGED <<swallowed, faults>>
           \/ /\ h \in data.abci /\ s.valsChanged <= h /\ there # copied
              /\ Panic /\ \E written \in SUBSET there : target' = WithRecords(saved, written)
              /\ UNCHANGED <<swallowed, faults>>
           \/ /\ h \in data.abci /\ s.valsChanged <= h /\ there = copied
              /\ data.paramsInfo[h] = Nothing
              /\ Panic /\ target' = WithRecords(saved, copied) /\ UNCHANGED <<swallowed, faults>>
           \/ /\ h \in data.abci /\ s.valsChanged <= h /\ there = copied
              /\ data.paramsInfo[h] # Nothing
              /\ job' = [job EXCEPT !.pc = "wal"]
              /\ \/ /\ target' = saveConsensusParamsInfo(WithRecords(saved, copied), h)
                    /\ UNCHANGED <<swallowed, faults>>
                 \/ /\ Swallow("records")
                    /\ \E written \in SUBSET copied :
                          \/ target' = WithRecords(saved, written)
                          \/ target' = saveConsensusParamsInfo(WithRecords(saved, written), h)
        /\ UNCHANGED <<chain, data, completed, restores, flawed>>

\* The messages after the mark of the height, then the mark.  Nothing without the
\* mark; a damaged log, as a crash leaves it, or a write that fails ends the copy
\* before it.  The command goes on as if it had it all.
snapshotCsWAL ==
    LET later == {h \in data.wal : h > job.height /\ job.height \in data.wal}
    IN  /\ job.pc = "wal"
        /\ \/ /\ job.height \in data.wal
              /\ target' = [target EXCEPT !.wal = @ \cup later \cup {job.height}]
              /\ UNCHANGED swallowed
           \/ /\ \E last \in later \cup {job.height} :
                    target' = [target EXCEPT !.wal = @ \cup {h \in later : h <= last}]
              /\ swallowed' = swallowed \cup {"wal"}
        /\ job' = [job EXCEPT !.pc = "priv"]
        /\ UNCHANGED <<chain, data, completed, faults, restores, flawed>>

createPrivValidatorState ==
    /\ job.pc = "priv"
    /\ target' = [target EXCEPT !.priv = job.height]
    /\ job' = [job EXCEPT !.pc = "app"]
    /\ UNCHANGED <<chain, data, completed, swallowed, faults, restores, flawed>>

\* File after file.
copyAppDBBegin ==
    /\ job.pc = "app"
    /\ target' = [target EXCEPT !.app = Torn]
    /\ job' = [job EXCEPT !.pc = "appEnd"]
    /\ UNCHANGED <<chain, data, completed, swallowed, faults, restores, flawed>>

\* The error of dstFile.Write is not looked at.
copyAppDBEnd ==
    /\ job.pc = "appEnd"
    /\ \/ /\ target' = [target EXCEPT !.app = data.app]
          /\ UNCHANGED <<swallowed, faults>>
       \/ Swallow("copy") /\ UNCHANGED target
    /\ job' = [job EXCEPT !.pc = "evidence"]
    /\ UNCHANGED <<chain, data, completed, restores, flawed>>

\* What is in the copy nothing here depends on.
copyEvidenceDB ==
    /\ job.pc = "evidence"
    /\ target' = [target EXCEPT !.files = @ \cup {"evidence"}]
    /\ job' = [job EXCEPT !.pc = "upgrade"]
    /\ UNCHANGED <<chain, data, completed, swallowed, faults, restores, flawed>>

\* The file is skipped when the target has an application.
copyUpgradeInfo ==
    /\ job.pc = "upgrade"
    /\ target' = IF target.app # Nothing THEN target
                                        ELSE [target EXCEPT !.files = @ \cup {"upgrade"}]
    /\ completed' = TRUE /\ job' = Idle
    /\ UNCHANGED <<chain, data, swallowed, faults, restores, flawed>>

-----------------------------------------------------------------------------
(* snapshot prune *)

Unread == 0
Done == MaxHeight + 1

\* Opening a database that is not there creates it; a torn one is either taken
\* for that or refused.  An application without a version needs no pruning.
PruneSnapshot ==
    /\ job = Idle /\ target # EmptyDirectory
    /\ \/ target' = [target EXCEPT !.app = IF @ \in {Nothing, Torn} THEN EmptyApp ELSE @]
       \/ target.app = Torn /\ UNCHANGED target
    /\ job' = IF target.app \notin {Nothing, Torn} /\ target.app.latest > 0
                THEN [Idle EXCEPT !.pc = "prune", !.cmd = "prune"] ELSE Idle
    /\ UNCHANGED <<chain, data, completed, swallowed, faults, restores, flawed>>

\* pruneStore, one goroutine per store: the tree is read and its first version found.
pruneStoreRead(s) ==
    /\ job.pc = "prune" /\ job.start[s] = Unread
    /\ LET versions == target.app.trees[s]
       IN  job' = [job EXCEPT !.start[s] =
                     IF target.app.latest \in versions THEN Min(versions) ELSE Done]
    /\ UNCHANGED <<chain, data, target, completed, swallowed, faults, restores, flawed>>

\* Mutant: the end of a batch is not clamped.
DeleteUnclamped(s) ==
    LET start == job.start[s]
        end == start + batchNum
    IN  /\ job.pc = "prune" /\ start # Unread /\ start < target.app.latest
        /\ target' = [target EXCEPT !.app.trees[s] = @ \ (start .. end - 1)]
        /\ job' = [job EXCEPT !.start[s] = end]
        /\ UNCHANGED <<chain, data, completed, swallowed, faults, restores, flawed>>

\* One round of the loop, which an error ends.
DeleteVersionsRange(s) ==
    LET start == job.start[s]
        end == IF start + batchNum > target.app.latest THEN target.app.latest
                                                       ELSE start + batchNum
    IN  /\ job.pc = "prune" /\ start # Unread /\ start < target.app.latest
        /\ \/ /\ target' = [target EXCEPT !.app.trees[s] = @ \ (start .. end - 1)]
              /\ job' = [job EXCEPT !.start[s] = end]
              /\ UNCHANGED faults
           \/ /\ faults < MaxFaults /\ faults' = faults + 1
              /\ job' = [job EXCEPT !.start[s] = Done]
              /\ UNCHANGED target
        /\ UNCHANGED <<chain, data, completed, swallowed, restores, flawed>>

\* w.Wait()
PruneEnd ==
    /\ job.pc = "prune" /\ \A s \in Store : job.start[s] >= target.app.latest
    /\ job' = Idle
    /\ UNCHANGED <<chain, data, target, completed, swallowed, faults, restores, flawed>>

-----------------------------------------------------------------------------
(* The operator, and the end of a process *)

DiscardTarget ==
    /\ job = Idle /\ target # EmptyDirectory
    /\ target' = EmptyDirectory /\ completed' = FALSE /\ swallowed' = {}
    /\ UNCHANGED <<chain, data, job, faults, restores, flawed>>

\* A complete snapshot takes the place of the data directory.  One that the node
\* does not start from is taken away again.
Restore ==
    /\ job = Idle /\ completed /\ restores < MaxRestores
    /\ NodeAccepts(target)
    /\ data' = target /\ target' = EmptyDirectory /\ completed' = FALSE
    /\ flawed' = (flawed \/ target.blocks # {target.state.height} \/ "records" \in swallowed)
    /\ swallowed' = {} /\ restores' = restores + 1
    /\ UNCHANGED <<chain, job, faults>>

Crash ==
    /\ job # Idle /\ faults < MaxFaults
    /\ job' = Idle /\ faults' = faults + 1
    /\ UNCHANGED <<chain, data, target, completed, swallowed, flawed, restores>>

-----------------------------------------------------------------------------

\* A chain: an update of block h changes the validators of h + 2 and the
\* parameters of h + 1.
Chain == [vals : {v \in [InfoHeight -> ValidatorSet] : v[1] = v[2]},
          params : {p \in [1 .. MaxHeight + 1 -> ConsensusParams] :
                      Cardinality({h \in Height : p[h] # p[h + 1]}) <= MaxParamChanges}]

\* A node that has started from genesis, with the file of a planned upgrade.
GenesisDirectory ==
    [EmptyDirectory EXCEPT
        !.state = [height |-> 0, lastVals |-> Nothing, vals |-> chain.vals[1],
                   nextVals |-> chain.vals[2], valsChanged |-> 1,
                   params |-> chain.params[1], paramsChanged |-> 1, appHash |-> 0],
        !.valInfo[1] = [changed |-> 1, value |-> chain.vals[1]],
        !.valInfo[2] = [changed |-> 1,
                        value |-> IF 2 % valSetCheckpointInterval = 0 THEN chain.vals[2]
                                                                      ELSE Nothing],
        !.paramsInfo[1] = [changed |-> 1, value |-> chain.params[1]],
        !.wal = {0}, !.app = EmptyApp, !.files = {"blockstore", "evidence", "upgrade"}]

Init ==
    /\ chain \in Chain
    /\ data = GenesisDirectory
    /\ target = EmptyDirectory /\ completed = FALSE /\ swallowed = {} /\ flawed = FALSE
    /\ job = Idle /\ faults = 0 /\ restores = 0

CommandStep ==
    \/ SaveVals \/ SaveParams \/ SaveState
    \/ Recover \/ rollBackApplication \/ snapshotBlock \/ snapshotState \/ snapshotCsWAL
    \/ createPrivValidatorState \/ copyAppDBBegin \/ copyAppDBEnd \/ copyEvidenceDB
    \/ copyUpgradeInfo \/ PruneEnd
PruneStep(s) == pruneStoreRead(s) \/ DeleteVersionsRange(s)

Next ==
    \/ NodeStart \/ NodeStop \/ SaveBlock \/ WriteEndHeight \/ ExecuteBlock
    \/ CommitTrees \/ FlushMetadata \/ UpdateState
    \/ CreateSnapshot \/ PruneSnapshot \/ DiscardTarget \/ Restore \/ Crash
    \/ CommandStep
    \/ \E s \in Store : PruneStep(s)

Spec == Init /\ [][Next]_vars

-----------------------------------------------------------------------------
(* Properties *)

JobPc == {"idle", "node", "endHeight", "trees", "flush", "saveVals", "saveParams",
          "saveState", "recover", "rollApp", "block", "state", "wal", "priv", "app",
          "appEnd", "evidence", "upgrade", "prune"}

\* What a process may hold.
Job == [pc : JobPc, cmd : {"none", "node", "create", "prune"}, state : State \cup {Nothing},
        height : 0 .. MaxHeight, start : [Store -> 0 .. Done]]

\* Type invariant: the directories hold well-formed stores and the running
\* command's local values are in range.
NodeTypeOK ==
    /\ chain \in Chain
    /\ data \in Directory /\ target \in Directory /\ data.state # Nothing
    /\ completed \in BOOLEAN /\ swallowed \subseteq Swallowed /\ flawed \in BOOLEAN
    /\ job \in Job
    /\ faults \in 0 .. MaxFaults /\ restores \in 0 .. MaxRestores

\* Whenever the process that uses the data directory ends, by itself or by a
\* crash between any two writes of a block, of Recover's ss.Save or of
\* rollBackApplication, or when the error of rollBackApplication was ignored, the
\* handshake of a node accepts what it left: the block store is at most one ahead
\* of the state, and the application at one of the two (AppLoadable says when the
\* application can be loaded).
NodeCanStart == Startable(data)

\* Whatever was rolled back, replayed and restored, the state the node goes on
\* from names the chain's validators, next validators and application hash of
\* its height, unless it goes on from a flawed snapshot.
StateTrue ==
    LET s == data.state IN
    ~flawed => /\ s.vals = chain.vals[s.height + 1] /\ s.nextVals = chain.vals[s.height + 2]
               /\ s.appHash = s.height

\* The same of the consensus parameters, as the state and as LoadConsensusParams
\* name them, until a snapshot is restored: saveConsensusParamsInfo drops them.
ParamsTrue ==
    restores = 0 =>
        /\ data.state.params = chain.params[data.state.height + 1]
        /\ \A h \in 1 .. data.state.height + 1 : LoadConsensusParams(data, h) = chain.params[h]

\* The version that is said to be the application's latest can be loaded, also
\* after rollBackApplication made an older one the latest and pruneStore deleted
\* what is below: the version before the latest is there whenever the block before
\* the last one is.  It is not when the node keeps no version besides the latest
\* (--pruning everything), since rollBackApplication does not look, nor in a
\* directory that has the block of an earlier attempt below its oldest version.
AppLoadable ==
    KeepRecent > 0 /\ ~flawed =>
        /\ Loadable(data.app)
        /\ target.app \notin {Nothing, Torn} => Loadable(target.app)

\* The three records that saveValidatorsInfo copies are in the source, so
\* loadValidatorsInfo does not panic, unless the source came from a flawed snapshot.
ValidatorRecordsThere ==
    ~flawed /\ job.pc = "state" /\ data.state.valsChanged <= job.height =>
        LET stored == lastStoredHeightFor(job.height, data.state.valsChanged)
        IN  \A h \in {job.height, job.height + 1, stored} : data.valInfo[h] # Nothing

\* A snapshot that was reported complete, pruned or not, is of one height as far as
\* no error was ignored on the way: the last block, the state and the last signed
\* height always agree; so does the application, and a node can start from it, unless
\* its rollback or its copy failed; it is at most one ahead if only the rollback
\* failed; the WAL has the mark of the height unless its copy ended early; and
\* unless records were lost, it answers for the validators of that height and of the
\* next two what the source answers, if the source has the validators of its last
\* change (StoredSetsKept is about how it loses them).
SnapshotConsistent ==
    completed =>
        LET r == target.state.height IN
        /\ r = StoreHeight(target) /\ r = target.priv /\ r \in target.abci
        /\ swallowed \cap {"rollApp", "copy"} = {} =>
              target.app.latest = r /\ Startable(target)
        /\ "copy" \notin swallowed => target.app.latest \in {r, r + 1}
        /\ "wal" \notin swallowed => r \in target.wal
        /\ /\ "records" \notin swallowed /\ ~flawed
           /\ data.valInfo[lastStoredHeightFor(r, target.state.valsChanged)].value # Nothing
           => \A h \in r .. r + 2 : LoadValidators(target, h) = LoadValidators(data, h)

-----------------------------------------------------------------------------
(* What a comment says *)

\* rollback.go, over ss.Save(rolledBackState): `this will also persist the
\* validator set and consensus params over the existing structures, but both
\* should be the same'.  The validators of every height that had them can be
\* loaded after the Save as before it.
StoredSetsKept ==
    [][SaveVals /\ job.cmd = "create" =>
          \A h \in 1 .. job.state.height + 2 :
             LoadValidators(data, h) # Nothing =>
                LoadValidators(data', h) = LoadValidators(data, h)]_vars

=============================================================================
