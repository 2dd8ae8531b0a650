-------------------------- MODULE NodeStoresProofs --------------------------
(***************************************************************************)
(* The node's stores for every chain, height bound, pruning setting and    *)
(* number of faults and restores.                                         *)
(***************************************************************************)
EXTENDS NodeStores, WellFoundedInduction, TLAPS

-----------------------------------------------------------------------------
(* The inductive invariants *)

\* The steps of a running node, of ss.Save, and of snapshot create: all of them,
\* those that copy, and those after the state was copied.
Running == {"node", "endHeight", "trees", "flush"}
Saving == {"saveVals", "saveParams", "saveState"}
Copied == {"wal", "priv", "app", "appEnd", "evidence", "upgrade"}
Copying == {"block", "state"} \cup Copied
Creating == {"recover", "rollApp"} \cup Copying

\* A state that Recover can go back from.
WellFormed(s) == s \in State /\ (s.height > 0 => s.lastVals \in ValidatorSet)

\* The target has an application, whole unless an error of its copy was ignored.
AppCopied == target.app # Nothing /\ ("copy" \notin swallowed => target.app \in App)

\* What a step reads is there.
Formed ==
    /\ data.app \in App /\ WellFormed(data.state)
    /\ job.pc \in Running => job.cmd = "node"
    /\ job.pc \in Creating => job.cmd = "create"
    /\ job.pc \in Saving => WellFormed(job.state) /\ job.cmd \in {"node", "create"}
    /\ job.pc \in {"trees", "flush"} => data.blocks # {}
    /\ job.pc = "prune" => target.app \in App
    /\ job.pc \in Copied => WellFormed(target.state)
    /\ job.pc = "appEnd" => target.app = Torn
    /\ job.pc \in {"evidence", "upgrade"} => AppCopied
    /\ completed => WellFormed(target.state) /\ AppCopied /\ job.cmd # "create"
TypeInv == NodeTypeOK /\ Formed

\* A directory between two commands: it can be started from, also after one more
\* rollback.
Started(dir) ==
    /\ Startable(dir)
    /\ dir.state.height \in dir.blocks \cup {0}
    /\ StoreHeight(dir) > 0 /\ dir.app.latest = StoreHeight(dir) => StoreHeight(dir) \in dir.abci

\* What Recover computes of the state alone, without a store.
RolledBack(s, old) ==
    LET r == old.height - 1
        Capped(changed) == IF changed > r THEN r + 1 ELSE changed
    IN  /\ s.height = r /\ s.appHash = r
        /\ s.vals = old.lastVals /\ s.nextVals = old.vals
        /\ s.valsChanged = Capped(old.valsChanged)
        /\ s.paramsChanged = Capped(old.paramsChanged)

\* How far the stores are apart in the middle of a block and of a rollback.
Apart ==
    LET h == data.state.height
        store == StoreHeight(data)
        app == data.app.latest
    IN  /\ job.pc \in {"trees", "flush"} => store = h + 1 /\ app = h /\ store \in data.abci
        /\ job.pc \in Saving /\ job.cmd = "node" =>
              store = h + 1 /\ app = store /\ job.state = NextState(data.state)
        /\ job.pc \in Saving /\ job.cmd = "create" =>
              /\ store = h /\ app = h /\ job.height = h - 1 /\ job.height \in data.blocks
              /\ RolledBack(job.state, data.state)
        /\ job.pc = "rollApp" => store = h + 1 /\ job.height = h
        /\ job.pc \in Copying =>
              store = h + 1 /\ job.height = h /\ (app = h \/ "rollApp" \in swallowed)

\* What the target has of the height r.
BlockCopied(r) == r \in target.blocks /\ StoreHeight(target) = r
StateCopied(r) == BlockCopied(r) /\ target.state.height = r /\ r \in target.abci
WALCopied(r) == "wal" \notin swallowed => r \in target.wal

\* How far the copy is.
Snapped ==
    LET r == job.height
        done == target.state.height
    IN  /\ job.pc = "state" => BlockCopied(r)
        /\ job.pc \in Copied => StateCopied(r) /\ target.state = data.state
        /\ job.pc \in Copied \ {"wal"} => WALCopied(r)
        /\ job.pc \in {"app", "appEnd", "evidence", "upgrade"} => target.priv = r
        /\ job.pc \in {"evidence", "upgrade"} /\ "copy" \notin swallowed =>
              target.app = data.app
        /\ completed => StateCopied(done) /\ WALCopied(done) /\ target.priv = done
        /\ completed /\ "copy" \notin swallowed =>
              /\ target.app.latest \in {done, done + 1}
              /\ target.app.latest = done \/ "rollApp" \in swallowed
StartInv == Started(data) /\ Apart /\ Snapped

\* A state of the chain.  The last validators may be those of no block right after
\* a rollback, and are then not used.
TrueState(s) ==
    /\ s.vals = chain.vals[s.height + 1] /\ s.nextVals = chain.vals[s.height + 2]
    /\ s.appHash = s.height
TrueLastVals(dir) ==
    StoreHeight(dir) = dir.state.height /\ dir.state.height - 1 \in dir.blocks =>
        dir.state.lastVals = chain.vals[dir.state.height]
StateInv ==
    ~flawed => /\ TrueState(data.state) /\ TrueLastVals(data)
               /\ completed => TrueState(target.state)

\* The version before the latest is there for rollBackApplication to go back to.
HasVersion(app, v) == v \in app.commits /\ \A s \in Mounted : v \in app.trees[s]
AppThere ==
    /\ Loadable(data.app)
    /\ data.app.latest = StoreHeight(data) /\ data.app.latest - 1 \in data.blocks =>
          HasVersion(data.app, data.app.latest - 1)
    /\ job.pc = "flush" => \A s \in Mounted : StoreHeight(data) \in data.app.trees[s]
    /\ target.app \in App => Loadable(target.app)
AppInv == KeepRecent > 0 /\ ~flawed => AppThere

-----------------------------------------------------------------------------
(* Lemmas about the operators *)

\* A bounded set of heights that is not empty has a first and a last one.
LEMMA MinOf ==
    ASSUME NEW S, S \subseteq Nat, S # {}
    PROVE  Min(S) \in S /\ \A y \in S : Min(S) <= y
<1>1. PICK x \in S : \A y \in S : ~ (<<y, x>> \in OpToRel(<, Nat))
    BY NatLessThanWellFounded, WFMin
<1>2. ASSUME NEW y \in S PROVE x <= y
    <2>1. ~ (<<y, x>> \in OpToRel(<, Nat)) BY <1>1
    <2>2. <<y, x>> \in Nat \X Nat BY <1>1
    <2>3. ~ (y < x) BY <2>1, <2>2 DEF OpToRel
    <2> QED BY <2>3
<1> QED BY <1>2 DEF Min

LEMMA MaxOf ==
    ASSUME NEW N \in Nat, NEW S, S \subseteq 0 .. N, S # {}
    PROVE  Max(S) \in S /\ \A y \in S : y <= Max(S)
<1> DEFINE T == {N - x : x \in S}
<1>1. T \subseteq Nat /\ T # {}
    <2>1. \A x \in S : N - x \in Nat OBVIOUS
    <2> QED BY <2>1
<1>2. Min(T) \in T /\ \A t \in T : Min(T) <= t BY <1>1, MinOf
<1>3. PICK x \in S : Min(T) = N - x BY <1>2
<1>4. \A y \in S : N - y \in T OBVIOUS
<1>5. \A y \in S : N - x <= N - y BY <1>2, <1>3, <1>4
<1>6. \A y \in S : y <= x BY <1>5
<1> QED BY <1>6 DEF Max

\* bs.Height() is the last block, or 0.
LEMMA StoreHeightOf ==
    ASSUME NEW d, d.blocks \subseteq Height
    PROVE  /\ StoreHeight(d) \in 0 .. MaxHeight
           /\ d.blocks = {} <=> StoreHeight(d) = 0
           /\ d.blocks # {} => StoreHeight(d) \in d.blocks
           /\ \A b \in d.blocks : b <= StoreHeight(d)
<1>1. MaxHeight \in Nat BY NodeAssumption
<1>2. d.blocks \subseteq 0 .. MaxHeight BY <1>1 DEF Height
<1>3. CASE d.blocks = {} BY <1>1, <1>3 DEF StoreHeight
<1>4. CASE d.blocks # {}
    <2>1. Max(d.blocks) \in d.blocks /\ \A y \in d.blocks : y <= Max(d.blocks)
        BY <1>1, <1>2, <1>4, MaxOf
    <2> QED BY <1>1, <1>4, <2>1 DEF StoreHeight, Height
<1> QED BY <1>3, <1>4

\* It is h when h is the last block.
LEMMA StoreHeightIs ==
    ASSUME NEW d, d.blocks \subseteq Height,
           NEW h \in d.blocks, \A b \in d.blocks : b <= h
    PROVE  StoreHeight(d) = h
BY StoreHeightOf, NodeAssumption DEF Height

-----------------------------------------------------------------------------
(* Checkpoints *)

\* The last checkpoint at or below a height.
Checkpoint(h) == h - (h % valSetCheckpointInterval)

LEMMA CheckpointRange ==
    ASSUME NEW h \in Nat
    PROVE  /\ h % valSetCheckpointInterval \in Nat
           /\ Checkpoint(h) \in Nat /\ Checkpoint(h) <= h
<1> DEFINE K == valSetCheckpointInterval
<1>1. K \in Nat \ {0} BY NodeAssumption
<1>2. h % K \in Nat /\ h % K <= h BY <1>1
<1> QED BY <1>2 DEF Checkpoint

LEMMA DivMod ==
    ASSUME NEW K \in Nat \ {0}, NEW h \in Nat
    PROVE  /\ h \div K \in Int /\ h % K \in Nat /\ h % K < K
           /\ h = K * (h \div K) + (h % K)
OBVIOUS

LEMMA ModStep ==
    ASSUME NEW K \in Nat \ {0}, NEW h \in Nat, (h + 1) % K # 0
    PROVE  (h + 1) - ((h + 1) % K) = h - (h % K)
<1> DEFINE d == h \div K  m == h % K  e == (h + 1) \div K  n == (h + 1) % K
<1>1. /\ d \in Int /\ m \in Nat /\ m < K /\ h = K * d + m
      /\ e \in Int /\ n \in Nat /\ n < K /\ h + 1 = K * e + n /\ n # 0
    <2>1. h + 1 \in Nat OBVIOUS
    <2> QED BY <2>1, DivMod
<1> HIDE DEF d, m, e, n
<1>2. K * (e - d) = (K * e) - (K * d) BY <1>1
<1>3. -K < K * (e - d) /\ K * (e - d) < K
    <2>1. K * d \in Int /\ K * e \in Int BY <1>1
    <2>2. \A a, b \in Int : h = a + m /\ h + 1 = b + n => -K < b - a /\ b - a < K BY <1>1
    <2> QED BY <1>1, <1>2, <2>1, <2>2
<1>4. ASSUME NEW x \in Int, -K < K * x, K * x < K PROVE x = 0 BY <1>4
<1>5. e - d \in Int BY <1>1
<1>6. e - d = 0 BY <1>3, <1>4, <1>5
<1>7. e = d BY <1>1, <1>6
<1>8. K * e = K * d BY <1>7
<1>9. \A a \in Int : h = a + m /\ h + 1 = a + n => (h + 1) - n = h - m BY <1>1
<1>10. K * d \in Int BY <1>1
<1>11. (h + 1) - n = h - m BY <1>1, <1>8, <1>9, <1>10
<1> QED BY <1>11 DEF m, n

\* A height that is no checkpoint has the one of the height before.
LEMMA CheckpointStep ==
    ASSUME NEW h \in Nat, (h + 1) % valSetCheckpointInterval # 0
    PROVE  Checkpoint(h + 1) = Checkpoint(h)
<1>1. valSetCheckpointInterval \in Nat \ {0} BY NodeAssumption
<1> QED BY <1>1, ModStep DEF Checkpoint

\* lastStoredHeightFor lies between the two heights, and at an interval's end or
\* from one height to the next it moves to the height itself or not at all.
LEMMA StoredRange ==
    ASSUME NEW h \in Nat, NEW c \in Nat
    PROVE  /\ lastStoredHeightFor(h, c) \in Nat
           /\ c <= lastStoredHeightFor(h, c)
           /\ lastStoredHeightFor(h, c) \in {c, Checkpoint(h)}
           /\ c <= h => lastStoredHeightFor(h, c) <= h
<1>1. Checkpoint(h) \in Nat /\ Checkpoint(h) <= h BY CheckpointRange
<1> QED BY <1>1 DEF lastStoredHeightFor, Larger, Checkpoint

LEMMA StoredStep ==
    ASSUME NEW h \in Nat, NEW c \in Nat, c <= h
    PROVE  lastStoredHeightFor(h + 1, c) \in {h + 1, lastStoredHeightFor(h, c)}
<1>1. CASE (h + 1) % valSetCheckpointInterval = 0
    BY <1>1 DEF lastStoredHeightFor, Larger
<1>2. CASE (h + 1) % valSetCheckpointInterval # 0
    <2>1. Checkpoint(h + 1) = Checkpoint(h) BY <1>2, CheckpointStep
    <2> QED BY <2>1 DEF lastStoredHeightFor, Checkpoint
<1> QED BY <1>1, <1>2

-----------------------------------------------------------------------------
(* Types *)

LEMMA Bounds ==
    /\ MaxHeight \in Nat /\ MaxHeight > 0 /\ KeepRecent \in Nat
    /\ batchNum \in Nat /\ batchNum > 0
    /\ MaxFaults \in Nat /\ MaxRestores \in Nat
    /\ Height = 1 .. MaxHeight /\ InfoHeight = 1 .. MaxHeight + 2
    /\ \A h \in 0 .. MaxHeight : h + 1 \in InfoHeight /\ h + 2 \in InfoHeight
    /\ \A h \in Height : h \in InfoHeight /\ h \in 0 .. MaxHeight
BY NodeAssumption DEF Height, InfoHeight

LEMMA Markers ==
    /\ Nothing \notin State /\ Nothing \notin ValidatorsInfo /\ Nothing \notin ParamsInfo
    /\ Nothing \notin App /\ Torn \notin App /\ Nothing # Torn
    /\ Nothing \notin ValidatorSet /\ Nothing \notin ConsensusParams /\ Nothing # NoParams
BY NodeAssumption, RecordsAssumption

\* The fields of the records, one fact each.
LEMMA DirectoryFields ==
    ASSUME NEW d \in Directory
    PROVE  /\ d.blocks \subseteq Height /\ d.state \in State \cup {Nothing}
           /\ d.valInfo \in [InfoHeight -> ValidatorsInfo \cup {Nothing}]
           /\ d.paramsInfo \in [InfoHeight -> ParamsInfo \cup {Nothing}]
           /\ d.abci \subseteq Height /\ d.wal \subseteq 0 .. MaxHeight
           /\ d.priv \in 0 .. MaxHeight /\ d.app \in App \cup {Nothing, Torn}
           /\ d.files \subseteq {"blockstore", "evidence", "upgrade"}
BY DEF Directory

LEMMA StateFields ==
    ASSUME NEW s \in State
    PROVE  /\ s.height \in 0 .. MaxHeight /\ s.lastVals \in ValidatorSet \cup {Nothing}
           /\ s.vals \in ValidatorSet /\ s.nextVals \in ValidatorSet
           /\ s.valsChanged \in InfoHeight
           /\ s.params \in ConsensusParams \cup {NoParams} /\ s.paramsChanged \in InfoHeight
           /\ s.appHash \in 0 .. MaxHeight
BY DEF State

LEMMA AppFields ==
    ASSUME NEW a \in App
    PROVE  /\ a.latest \in 0 .. MaxHeight /\ a.commits \subseteq Height
           /\ a.trees \in [Store -> SUBSET Height]
BY DEF App

LEMMA JobFields ==
    ASSUME NEW j \in Job
    PROVE  /\ j.pc \in JobPc /\ j.cmd \in {"none", "node", "create", "prune"}
           /\ j.state \in State \cup {Nothing} /\ j.height \in 0 .. MaxHeight
           /\ j.start \in [Store -> 0 .. Done]
BY DEF Job

LEMMA ChainFields ==
    ASSUME chain \in Chain
    PROVE  /\ chain.vals \in [InfoHeight -> ValidatorSet] /\ chain.vals[1] = chain.vals[2]
           /\ chain.params \in [1 .. MaxHeight + 1 -> ConsensusParams]
BY DEF Chain

LEMMA EmptyTypes ==
    /\ EmptyApp \in App /\ EmptyApp.latest = 0
    /\ EmptyDirectory \in Directory /\ EmptyDirectory.app = Nothing
    /\ EmptyDirectory.blocks = {} /\ EmptyDirectory.wal = {}
    /\ Idle \in Job /\ Idle.pc = "idle" /\ Idle.cmd = "none"
<1>1. EmptyApp \in App /\ EmptyApp.latest = 0 BY Bounds DEF EmptyApp, App
<1>2. EmptyDirectory \in Directory BY Bounds DEF EmptyDirectory, Directory
<1>3. /\ EmptyDirectory.app = Nothing
      /\ EmptyDirectory.blocks = {} /\ EmptyDirectory.wal = {}
    BY DEF EmptyDirectory
<1>4. 0 \in 0 .. Done BY Bounds DEF Done
<1>5. Idle \in Job BY <1>4, Bounds DEF Idle, Job, JobPc
<1>6. Idle.pc = "idle" /\ Idle.cmd = "none" BY DEF Idle
<1> QED BY <1>1, <1>2, <1>3, <1>5, <1>6

\* What the stores answer is of its type.
LEMMA LoadValidatorsType ==
    ASSUME NEW d \in Directory, NEW h \in InfoHeight
    PROVE  LoadValidators(d, h) \in ValidatorSet \cup {Nothing}
<1> DEFINE info == d.valInfo[h]
<1>1. info \in ValidatorsInfo \cup {Nothing} BY DirectoryFields
<1>2. CASE info = Nothing BY <1>2 DEF LoadValidators
<1>3. CASE info \in ValidatorsInfo
    <2>1. info.changed \in InfoHeight /\ info.value \in ValidatorSet \cup {Nothing}
        BY <1>3 DEF ValidatorsInfo
    <2> DEFINE stored == lastStoredHeightFor(h, info.changed)
    <2>2. stored \in InfoHeight
        <3> DEFINE c == info.changed
        <3>1. c \in InfoHeight BY <2>1
        <3> HIDE DEF c
        <3>2. h \in Nat /\ c \in Nat BY <3>1, Bounds
        <3>3. Checkpoint(h) \in Nat /\ Checkpoint(h) <= h BY <3>2, CheckpointRange
        <3>4. /\ lastStoredHeightFor(h, c) \in Nat /\ c <= lastStoredHeightFor(h, c)
              /\ lastStoredHeightFor(h, c) \in {c, Checkpoint(h)}
            BY <3>2, StoredRange
        <3>5. lastStoredHeightFor(h, c) \in InfoHeight BY <3>1, <3>2, <3>3, <3>4, Bounds
        <3> QED BY <3>5 DEF c
    <2> HIDE DEF stored
    <2>3. d.valInfo[stored] \in ValidatorsInfo \cup {Nothing} BY <2>2, DirectoryFields
    <2>4. d.valInfo[stored] # Nothing => d.valInfo[stored].value \in ValidatorSet \cup {Nothing}
        BY <2>3 DEF ValidatorsInfo
    <2>5. LoadValidators(d, h) \in {Nothing, info.value, d.valInfo[stored].value}
        BY DEF LoadValidators, stored
    <2>6. CASE d.valInfo[stored] = Nothing
        BY <1>3, <2>1, <2>6, Markers DEF LoadValidators, stored
    <2>7. CASE d.valInfo[stored] # Nothing BY <2>1, <2>4, <2>5, <2>7
    <2> QED BY <2>6, <2>7
<1> QED BY <1>1, <1>2, <1>3

LEMMA LoadParamsType ==
    ASSUME NEW d \in Directory, NEW h \in InfoHeight
    PROVE  LoadConsensusParams(d, h) \in ConsensusParams \cup {NoParams, Nothing}
<1> DEFINE info == d.paramsInfo[h]
<1>1. info \in ParamsInfo \cup {Nothing} BY DirectoryFields
<1>2. CASE info = Nothing BY <1>2 DEF LoadConsensusParams
<1>3. CASE info # Nothing
    <2>1. info.changed \in InfoHeight /\ info.value \in ConsensusParams \cup {NoParams}
        BY <1>1, <1>3 DEF ParamsInfo
    <2> DEFINE stored == d.paramsInfo[info.changed]
    <2>2. stored \in ParamsInfo \cup {Nothing} BY <2>1, DirectoryFields
    <2>3. stored # Nothing => stored.value \in ConsensusParams \cup {NoParams}
        BY <2>2 DEF ParamsInfo
    <2> QED BY <1>3, <2>1, <2>3 DEF LoadConsensusParams
<1> QED BY <1>2, <1>3

LEMMA NextInfoTypes ==
    ASSUME NEW s \in State
    PROVE  NextValidatorsInfo(s) \in ValidatorsInfo /\ NextParamsInfo(s) \in ParamsInfo
<1>1. NextValidatorsInfo(s) \in ValidatorsInfo
    BY StateFields DEF NextValidatorsInfo, ValidatorsInfo
<1>2. NextParamsInfo(s) \in ParamsInfo
    BY StateFields DEF NextParamsInfo, ParamsInfo
<1> QED BY <1>1, <1>2

LEMMA NextStateType ==
    ASSUME chain \in Chain, NEW s \in State, s.height < MaxHeight
    PROVE  WellFormed(NextState(s)) /\ NextState(s).height = s.height + 1
<1> DEFINE h == s.height + 1
<1>1. h \in 0 .. MaxHeight /\ h \in Height /\ h + 1 \in 1 .. MaxHeight + 1
    BY StateFields, Bounds
<1>2. h + 1 \in InfoHeight /\ h + 2 \in InfoHeight BY <1>1, Bounds
<1>3. chain.vals[h + 2] \in ValidatorSet /\ chain.params[h + 1] \in ConsensusParams
    BY <1>1, <1>2, ChainFields
<1> HIDE DEF h
<1>4. NextState(s) \in State BY <1>1, <1>2, <1>3, StateFields DEF NextState, State, h
<1>5. NextState(s).lastVals = s.vals /\ NextState(s).height = s.height + 1 BY DEF NextState
<1> QED BY <1>4, <1>5, StateFields DEF WellFormed

LEMMA RolledBackType ==
    ASSUME data \in Directory, WellFormed(data.state), CanRollBack
    PROVE  /\ WellFormed(RolledBackState) /\ RolledBackState.height \in Height
           /\ RolledBackState.height \in data.blocks
           /\ RolledBackState.height = data.state.height - 1
           /\ RolledBackState.params = LoadConsensusParams(data, data.state.height)
           /\ RolledBack(RolledBackState, data.state)
<1> DEFINE s == data.state  r == data.state.height - 1
<1>1. r \in Height /\ s.height \in 0 .. MaxHeight /\ s.height = r + 1 /\ r + 1 \in Height
    <2>1. r \in data.blocks BY DEF CanRollBack
    <2>2. r \in Height BY <2>1, DirectoryFields
    <2> QED BY <2>2, StateFields, Bounds DEF WellFormed
<1>2. r \in InfoHeight /\ r + 1 \in InfoHeight /\ r \in 0 .. MaxHeight BY <1>1, Bounds
<1>3. LoadValidators(data, r) \in ValidatorSet
    BY <1>2, LoadValidatorsType DEF CanRollBack
<1>4. LoadConsensusParams(data, r + 1) \in ConsensusParams \cup {NoParams}
    BY <1>2, LoadParamsType DEF CanRollBack
<1>5. s.lastVals \in ValidatorSet BY <1>1, Bounds DEF WellFormed
<1>6. s \in State BY DEF WellFormed
<1>7. /\ RolledBackState.height = r /\ RolledBackState.lastVals = LoadValidators(data, r)
      /\ RolledBackState.params = LoadConsensusParams(data, r + 1)
      /\ RolledBack(RolledBackState, s)
    BY DEF RolledBackState, RolledBack
<1>8. RolledBackState \in State
    BY <1>2, <1>3, <1>4, <1>5, <1>6, StateFields DEF RolledBackState, State
<1>9. LoadConsensusParams(data, r + 1) = LoadConsensusParams(data, s.height) BY <1>1
<1>10. r \in data.blocks BY DEF CanRollBack
<1> QED BY <1>1, <1>3, <1>7, <1>8, <1>9, <1>10 DEF WellFormed

-----------------------------------------------------------------------------
(* The type invariant is inductive *)

LEMMA InitTypes == Init => TypeInv
<1> SUFFICES ASSUME Init PROVE TypeInv OBVIOUS
<1> DEFINE s == [height |-> 0, lastVals |-> Nothing, vals |-> chain.vals[1],
                 nextVals |-> chain.vals[2], valsChanged |-> 1,
                 params |-> chain.params[1], paramsChanged |-> 1, appHash |-> 0]
           i == [changed |-> 1, value |-> chain.vals[1]]
           n == [changed |-> 1, value |-> IF 2 % valSetCheckpointInterval = 0
                                            THEN chain.vals[2] ELSE Nothing]
           p == [changed |-> 1, value |-> chain.params[1]]
<1>1. chain \in Chain BY DEF Init
<1>2. 1 \in InfoHeight /\ 2 \in InfoHeight /\ 1 \in 1 .. MaxHeight + 1 /\ 0 \in 0 .. MaxHeight
    BY Bounds
<1>3. s \in State BY <1>1, <1>2, ChainFields DEF State
<1>4. i \in ValidatorsInfo /\ n \in ValidatorsInfo /\ p \in ParamsInfo
    BY <1>1, <1>2, ChainFields DEF ValidatorsInfo, ParamsInfo
<1>5. data = [EmptyDirectory EXCEPT !.state = s, !.valInfo[1] = i, !.valInfo[2] = n,
                !.paramsInfo[1] = p, !.wal = {0}, !.app = EmptyApp,
                !.files = {"blockstore", "evidence", "upgrade"}]
    BY DEF Init, GenesisDirectory
<1>6. s.height = 0 OBVIOUS
<1> HIDE DEF s, i, n, p
<1>7. data \in Directory /\ data.state = s /\ data.app = EmptyApp
    <2> DEFINE e == EmptyDirectory
               v == [[e.valInfo EXCEPT ![1] = i] EXCEPT ![2] = n]
               q == [e.paramsInfo EXCEPT ![1] = p]
    <2>1. e \in Directory BY EmptyTypes
    <2>2. v \in [InfoHeight -> ValidatorsInfo \cup {Nothing}]
        <3>1. e.valInfo \in [InfoHeight -> ValidatorsInfo \cup {Nothing}]
            BY <2>1, DirectoryFields
        <3> QED BY <1>4, <3>1
    <2>3. q \in [InfoHeight -> ParamsInfo \cup {Nothing}]
        <3>1. e.paramsInfo \in [InfoHeight -> ParamsInfo \cup {Nothing}]
            BY <2>1, DirectoryFields
        <3> QED BY <1>4, <3>1
    <2>4. data = [e EXCEPT !.state = s, !.valInfo = v, !.paramsInfo = q, !.wal = {0},
                    !.app = EmptyApp, !.files = {"blockstore", "evidence", "upgrade"}]
        BY <1>5, <2>1 DEF Directory
    <2> HIDE DEF e, v, q
    <2> QED BY <1>2, <1>3, <2>1, <2>2, <2>3, <2>4, EmptyTypes DEF Directory
<1>8. WellFormed(data.state) BY <1>3, <1>6, <1>7 DEF WellFormed
<1>9. /\ target = EmptyDirectory /\ completed = FALSE /\ swallowed = {} /\ flawed = FALSE
      /\ job = Idle /\ faults = 0 /\ restores = 0
    BY DEF Init
<1>10. NodeTypeOK
    <2>1. data.state # Nothing BY <1>3, <1>7, Markers
    <2>2. faults \in 0 .. MaxFaults /\ restores \in 0 .. MaxRestores BY <1>9, Bounds
    <2>3. completed \in BOOLEAN /\ flawed \in BOOLEAN /\ swallowed \subseteq Swallowed BY <1>9
    <2> QED BY <1>1, <1>7, <1>9, <2>1, <2>2, <2>3, EmptyTypes DEF NodeTypeOK
<1>11. Formed
    BY <1>7, <1>8, <1>9, EmptyTypes DEF Formed, Running, Creating, Copying, Copied, Saving
<1> QED BY <1>10, <1>11 DEF TypeInv

LEMMA TypeFacts ==
    ASSUME TypeInv
    PROVE  /\ chain \in Chain /\ data \in Directory /\ target \in Directory /\ job \in Job
           /\ data.state \in State /\ data.app \in App /\ completed \in BOOLEAN
           /\ data.state.height \in 0 .. MaxHeight /\ data.app.latest \in 0 .. MaxHeight
           /\ StoreHeight(data) \in 0 .. MaxHeight /\ StoreHeight(target) \in 0 .. MaxHeight
           /\ data.blocks \subseteq Height /\ target.blocks \subseteq Height
           /\ job.height \in 0 .. MaxHeight
           /\ swallowed \subseteq Swallowed /\ flawed \in BOOLEAN
<1>1. /\ chain \in Chain /\ data \in Directory /\ target \in Directory /\ job \in Job
      /\ data.state \in State /\ data.app \in App
    BY DEF TypeInv, NodeTypeOK, Formed, WellFormed
<1>2. data.state.height \in 0 .. MaxHeight BY <1>1, StateFields
<1>3. data.app.latest \in 0 .. MaxHeight BY <1>1, AppFields
<1>4. data.blocks \subseteq Height /\ target.blocks \subseteq Height BY <1>1, DirectoryFields
<1>5. StoreHeight(data) \in 0 .. MaxHeight /\ StoreHeight(target) \in 0 .. MaxHeight
    BY <1>4, StoreHeightOf
<1>6. completed \in BOOLEAN /\ swallowed \subseteq Swallowed /\ flawed \in BOOLEAN
    BY DEF TypeInv, NodeTypeOK
<1> QED BY <1>1, <1>2, <1>3, <1>4, <1>5, <1>6, JobFields

\* A command goes to its next step, or ends.
LEMMA JobGoesTo ==
    ASSUME TypeInv, NEW p \in JobPc, job' = [job EXCEPT !.pc = p]
    PROVE  /\ job' \in Job /\ job'.pc = p /\ job'.cmd = job.cmd /\ job'.state = job.state
           /\ job'.height = job.height /\ job'.start = job.start
BY TypeFacts DEF Job

LEMMA TypesFrom ==
    ASSUME TypeInv, chain' = chain, data' \in Directory, target' \in Directory, job' \in Job,
           completed' \in BOOLEAN, swallowed' \subseteq Swallowed, flawed' \in BOOLEAN,
           faults' \in 0 .. MaxFaults, restores' \in 0 .. MaxRestores, Formed'
    PROVE  TypeInv'
<1>1. chain' \in Chain BY TypeFacts DEF Chain
<1>2. data'.state # Nothing BY Markers DEF Formed, WellFormed
<1> QED BY <1>1, <1>2 DEF TypeInv, NodeTypeOK

\* A step that is no fault and no restore.
LEMMA TypesFromStep ==
    ASSUME TypeInv, UNCHANGED <<chain, faults, restores, flawed>>, data' \in Directory,
           target' \in Directory, job' \in Job, completed' \in BOOLEAN,
           swallowed' \subseteq Swallowed, Formed'
    PROVE  TypeInv'
<1>1. /\ faults' \in 0 .. MaxFaults /\ restores' \in 0 .. MaxRestores /\ flawed' \in BOOLEAN
    BY DEF TypeInv, NodeTypeOK
<1> QED BY <1>1, TypesFrom

\* A process that ends leaves the directories as they are.
LEMMA TypesFromEnd ==
    ASSUME TypeInv, UNCHANGED <<chain, data, target, completed, swallowed, flawed, restores>>,
           job' = Idle, faults' \in 0 .. MaxFaults
    PROVE  TypeInv'
<1>1. job' \in Job /\ job'.pc = "idle" /\ job'.cmd = "none" BY EmptyTypes
<1>2. Formed'
    BY <1>1 DEF TypeInv, Formed, AppCopied, WellFormed, Running, Saving, Creating, Copying, Copied
<1>3. /\ restores' \in 0 .. MaxRestores /\ swallowed' \subseteq Swallowed /\ flawed' \in BOOLEAN
    BY DEF TypeInv, NodeTypeOK
<1>4. data' \in Directory /\ target' \in Directory /\ completed' \in BOOLEAN BY TypeFacts
<1> QED BY <1>1, <1>2, <1>3, <1>4, TypesFrom

\* What an ignored error counts.
LEMMA SwallowTypes ==
    ASSUME TypeInv, NEW e \in Swallowed, Swallow(e) \/ UNCHANGED <<swallowed, faults>>
    PROVE  /\ swallowed' \subseteq Swallowed /\ faults' \in 0 .. MaxFaults
           /\ swallowed \subseteq swallowed' /\ swallowed' \subseteq swallowed \cup {e}
<1>1. swallowed \subseteq Swallowed /\ faults \in 0 .. MaxFaults BY DEF TypeInv, NodeTypeOK
<1>2. CASE Swallow(e)
    <2>1. faults' \in 0 .. MaxFaults BY <1>1, <1>2, Bounds DEF Swallow
    <2> QED BY <1>1, <1>2, <2>1 DEF Swallow
<1>3. CASE UNCHANGED <<swallowed, faults>> BY <1>1, <1>3
<1> QED BY <1>2, <1>3

-----------------------------------------------------------------------------
(* What the steps of the node write *)

LEMMA SaveBlockParts ==
    ASSUME TypeInv, SaveBlock
    PROVE  /\ data' \in Directory /\ StoreHeight(data) = data.state.height
           /\ data.state.height + 1 \in Height
           /\ data'.blocks = data.blocks \cup {data.state.height + 1}
           /\ data'.state = data.state /\ data'.valInfo = data.valInfo
           /\ data'.paramsInfo = data.paramsInfo /\ data'.abci = data.abci
           /\ data'.app = data.app
           /\ job.pc = "node" /\ job' = [job EXCEPT !.pc = "endHeight"]
<1> DEFINE h == data.state.height + 1
<1>1. data \in Directory /\ data.state.height \in 0 .. MaxHeight BY TypeFacts
<1>2. h \in Height /\ h \in 0 .. MaxHeight
    <2>1. data.state.height < MaxHeight BY DEF SaveBlock
    <2> QED BY <1>1, <2>1, Bounds
<1>3. data' = [data EXCEPT !.blocks = @ \cup {h}, !.priv = h] BY DEF SaveBlock
<1> HIDE DEF h
<1>4. /\ data' \in Directory /\ data'.blocks = data.blocks \cup {h}
      /\ data'.state = data.state /\ data'.valInfo = data.valInfo
      /\ data'.paramsInfo = data.paramsInfo /\ data'.abci = data.abci /\ data'.app = data.app
    BY <1>1, <1>2, <1>3 DEF Directory
<1> QED BY <1>2, <1>4 DEF SaveBlock, h

LEMMA WriteEndHeightParts ==
    ASSUME TypeInv, WriteEndHeight
    PROVE  /\ data' \in Directory /\ data'.blocks = data.blocks
           /\ data'.state = data.state /\ data'.valInfo = data.valInfo
           /\ data'.paramsInfo = data.paramsInfo /\ data'.abci = data.abci
           /\ data'.app = data.app
           /\ job.pc = "endHeight" /\ job' = [job EXCEPT !.pc = "node"]
<1>1. data \in Directory /\ StoreHeight(data) \in 0 .. MaxHeight BY TypeFacts
<1> QED BY <1>1 DEF WriteEndHeight, Directory

LEMMA ExecuteBlockParts ==
    ASSUME TypeInv, ExecuteBlock, data' # data \/ job' # Idle
    PROVE  /\ data' \in Directory /\ data'.blocks = data.blocks
           /\ data'.state = data.state /\ data'.valInfo = data.valInfo
           /\ data'.paramsInfo = data.paramsInfo
           /\ data'.abci = data.abci \cup {StoreHeight(data)}
           /\ data'.app = data.app
           /\ StoreHeight(data) = data.state.height + 1 /\ data.app.latest = data.state.height
           /\ job.pc = "node" /\ job' = [job EXCEPT !.pc = "trees"]
<1>1. data \in Directory /\ StoreHeight(data) \in 0 .. MaxHeight /\ data.state.height \in 0 .. MaxHeight
    BY TypeFacts
<1>2. StoreHeight(data) \in Height BY <1>1, Bounds DEF ExecuteBlock
<1>3. /\ data' = [data EXCEPT !.abci = @ \cup {StoreHeight(data)}]
      /\ job' = [job EXCEPT !.pc = "trees"]
    BY DEF ExecuteBlock
<1> QED BY <1>1, <1>2, <1>3 DEF ExecuteBlock, Directory

LEMMA CommitTreesParts ==
    ASSUME TypeInv, CommitTrees
    PROVE  /\ data' \in Directory /\ data'.app \in App /\ data'.blocks = data.blocks
           /\ data'.state = data.state /\ data'.valInfo = data.valInfo
           /\ data'.paramsInfo = data.paramsInfo /\ data'.abci = data.abci
           /\ data'.app.latest = data.app.latest /\ data'.app.commits = data.app.commits
           /\ \A s \in Mounted : data'.app.trees[s] =
                 {v \in data.app.trees[s] \cup {StoreHeight(data)} :
                    v >= StoreHeight(data) - KeepRecent}
           /\ job.pc = "trees" /\ job' = [job EXCEPT !.pc = "flush"]
<1> DEFINE h == StoreHeight(data)
           t == [s \in Store |-> IF s \in Mounted
                                   THEN {v \in data.app.trees[s] \cup {h} : v >= h - KeepRecent}
                                   ELSE {}]
<1>1. data \in Directory /\ data.app \in App BY TypeFacts
<1>2. h \in Height
    <2>1. data.blocks # {} BY DEF TypeInv, Formed, CommitTrees
    <2> QED BY <2>1, TypeFacts, StoreHeightOf
<1>3. data.app.trees \in [Store -> SUBSET Height] BY <1>1, AppFields
<1>4. t \in [Store -> SUBSET Height] BY <1>2, <1>3
<1>5. data' = [data EXCEPT !.app.trees = t] BY <1>1 DEF CommitTrees, Directory
<1>6. Mounted \subseteq Store BY NodeAssumption
<1>7. \A s \in Mounted : t[s] = {v \in data.app.trees[s] \cup {h} : v >= h - KeepRecent}
    BY <1>6
<1> HIDE DEF h, t
<1>8. /\ data' \in Directory /\ data'.app = [data.app EXCEPT !.trees = t]
      /\ data'.blocks = data.blocks
      /\ data'.state = data.state /\ data'.valInfo = data.valInfo
      /\ data'.paramsInfo = data.paramsInfo /\ data'.abci = data.abci
    <2>1. [data.app EXCEPT !.trees = t] \in App BY <1>1, <1>4 DEF App
    <2>2. data' = [data EXCEPT !.app = [data.app EXCEPT !.trees = t]] BY <1>1, <1>5 DEF Directory
    <2> QED BY <1>1, <2>1, <2>2 DEF Directory
<1>9. /\ data'.app \in App /\ data'.app.trees = t
      /\ data'.app.latest = data.app.latest /\ data'.app.commits = data.app.commits
    BY <1>1, <1>4, <1>8 DEF App
<1> QED BY <1>7, <1>8, <1>9 DEF CommitTrees, h

LEMMA FlushMetadataParts ==
    ASSUME TypeInv, FlushMetadata
    PROVE  /\ data' \in Directory /\ data'.app \in App /\ data'.blocks = data.blocks
           /\ data'.state = data.state /\ data'.valInfo = data.valInfo
           /\ data'.paramsInfo = data.paramsInfo /\ data'.abci = data.abci
           /\ data'.app.latest = StoreHeight(data) /\ StoreHeight(data) \in Height
           /\ data'.app.commits = data.app.commits \cup {StoreHeight(data)}
           /\ data'.app.trees = data.app.trees
           /\ job.pc = "flush" /\ job' = [job EXCEPT !.pc = "node"]
<1> DEFINE h == StoreHeight(data)
           a == [data.app EXCEPT !.latest = h, !.commits = @ \cup {h}]
<1>1. data \in Directory /\ data.app \in App BY TypeFacts
<1>2. h \in Height /\ h \in 0 .. MaxHeight
    <2>1. data.blocks # {} BY DEF TypeInv, Formed, FlushMetadata
    <2> QED BY <2>1, TypeFacts, StoreHeightOf
<1>3. data' = [data EXCEPT !.app.latest = h, !.app.commits = @ \cup {h}]
    BY DEF FlushMetadata
<1>4. data' = [data EXCEPT !.app = a] BY <1>1, <1>3 DEF Directory
<1> HIDE DEF h
<1>5. /\ a \in App /\ a.latest = h /\ a.commits = data.app.commits \cup {h}
      /\ a.trees = data.app.trees
    BY <1>1, <1>2 DEF App
<1> HIDE DEF a
<1> QED BY <1>1, <1>2, <1>4, <1>5 DEF FlushMetadata, Directory, h

LEMMA UpdateStateParts ==
    ASSUME TypeInv, UpdateState
    PROVE  /\ WellFormed(NextState(data.state))
           /\ NextState(data.state).height = data.state.height + 1
           /\ data.state.height < MaxHeight
           /\ job' \in Job /\ job.pc = "node" /\ job'.pc = "saveVals" /\ job'.cmd = job.cmd
           /\ job'.state = NextState(data.state)
           /\ StoreHeight(data) = data.state.height + 1 /\ data.app.latest = StoreHeight(data)
<1>1. chain \in Chain /\ data.state \in State /\ job \in Job BY TypeFacts
<1>2. data.state.height < MaxHeight
    <2> DEFINE h == data.state.height  b == StoreHeight(data)
    <2>1. h \in 0 .. MaxHeight /\ b \in 0 .. MaxHeight BY TypeFacts
    <2>2. b = h + 1 BY DEF UpdateState
    <2>3. MaxHeight \in Nat BY Bounds
    <2> HIDE DEF h, b
    <2>4. h < MaxHeight BY <2>1, <2>2, <2>3
    <2> QED BY <2>4 DEF h
<1>3. WellFormed(NextState(data.state)) /\ NextState(data.state).height = data.state.height + 1
    BY <1>1, <1>2, NextStateType
<1>4. job' = [job EXCEPT !.pc = "saveVals", !.state = NextState(data.state)] BY DEF UpdateState
<1>5. /\ job' \in Job /\ job'.pc = "saveVals" /\ job'.cmd = job.cmd
      /\ job'.state = NextState(data.state)
    BY <1>1, <1>3, <1>4 DEF Job, JobPc, WellFormed
<1> QED BY <1>2, <1>3, <1>5 DEF UpdateState

-----------------------------------------------------------------------------
(* What ss.Save and the commands write *)

LEMMA SaveValsParts ==
    ASSUME TypeInv, SaveVals
    PROVE  /\ data' \in Directory /\ data'.blocks = data.blocks
           /\ job.state \in State /\ job.state.height + 2 \in InfoHeight
           /\ data'.valInfo = [data.valInfo EXCEPT ![job.state.height + 2] = NextValidatorsInfo(job.state)]
           /\ data'.state = data.state /\ data'.paramsInfo = data.paramsInfo
           /\ data'.abci = data.abci /\ data'.app = data.app
           /\ job.pc = "saveVals" /\ job' = [job EXCEPT !.pc = "saveParams"]
<1> DEFINE h == job.state.height + 2
           i == NextValidatorsInfo(job.state)
           v == [data.valInfo EXCEPT ![h] = i]
<1>1. data \in Directory BY TypeFacts
<1>2. job.state \in State BY DEF TypeInv, Formed, WellFormed, SaveVals, Saving
<1>3. h \in InfoHeight BY <1>2, StateFields, Bounds
<1>4. i \in ValidatorsInfo BY <1>2, NextInfoTypes
<1>5. data' = [data EXCEPT !.valInfo[h] = i] BY DEF SaveVals
<1> HIDE DEF h, i
<1>6. data.valInfo \in [InfoHeight -> ValidatorsInfo \cup {Nothing}] BY <1>1, DirectoryFields
<1>7. v \in [InfoHeight -> ValidatorsInfo \cup {Nothing}] BY <1>4, <1>6
<1>8. data' = [data EXCEPT !.valInfo = v] BY <1>1, <1>5 DEF Directory
<1> HIDE DEF v
<1>9. /\ data' \in Directory /\ data'.blocks = data.blocks /\ data'.valInfo = v
      /\ data'.state = data.state /\ data'.paramsInfo = data.paramsInfo
      /\ data'.abci = data.abci /\ data'.app = data.app
    BY <1>1, <1>7, <1>8 DEF Directory
<1> QED BY <1>2, <1>3, <1>9 DEF SaveVals, v, i, h

LEMMA SaveParamsParts ==
    ASSUME TypeInv, SaveParams
    PROVE  /\ data' \in Directory /\ data'.blocks = data.blocks
           /\ job.state \in State /\ job.state.height + 1 \in InfoHeight
           /\ data'.paramsInfo = [data.paramsInfo EXCEPT ![job.state.height + 1] = NextParamsInfo(job.state)]
           /\ data'.state = data.state /\ data'.valInfo = data.valInfo
           /\ data'.abci = data.abci /\ data'.app = data.app
           /\ job.pc = "saveParams" /\ job' = [job EXCEPT !.pc = "saveState"]
<1> DEFINE h == job.state.height + 1
           i == NextParamsInfo(job.state)
           v == [data.paramsInfo EXCEPT ![h] = i]
<1>1. data \in Directory BY TypeFacts
<1>2. job.state \in State BY DEF TypeInv, Formed, WellFormed, SaveParams, Saving
<1>3. h \in InfoHeight BY <1>2, StateFields, Bounds
<1>4. i \in ParamsInfo BY <1>2, NextInfoTypes
<1>5. data' = [data EXCEPT !.paramsInfo[h] = i] BY DEF SaveParams
<1> HIDE DEF h, i
<1>6. data.paramsInfo \in [InfoHeight -> ParamsInfo \cup {Nothing}] BY <1>1, DirectoryFields
<1>7. v \in [InfoHeight -> ParamsInfo \cup {Nothing}] BY <1>4, <1>6
<1>8. data' = [data EXCEPT !.paramsInfo = v] BY <1>1, <1>5 DEF Directory
<1> HIDE DEF v
<1>9. /\ data' \in Directory /\ data'.blocks = data.blocks /\ data'.paramsInfo = v
      /\ data'.state = data.state /\ data'.valInfo = data.valInfo
      /\ data'.abci = data.abci /\ data'.app = data.app
    BY <1>1, <1>7, <1>8 DEF Directory
<1> QED BY <1>2, <1>3, <1>9 DEF SaveParams, v, i, h

LEMMA SaveStateParts ==
    ASSUME TypeInv, SaveState
    PROVE  /\ data' \in Directory /\ data'.blocks = data.blocks
           /\ WellFormed(job.state) /\ data'.state = job.state /\ data'.valInfo = data.valInfo
           /\ data'.paramsInfo = data.paramsInfo
           /\ data'.abci = data.abci /\ data'.app = data.app
           /\ job.pc = "saveState" /\ job' \in Job
           /\ job'.pc = (IF job.cmd = "node" THEN "node" ELSE "rollApp")
           /\ job'.cmd = job.cmd /\ job'.height = job.height
<1>1. data \in Directory /\ job \in Job BY TypeFacts
<1>2. job.pc = "saveState" BY DEF SaveState
<1>3. WellFormed(job.state) BY <1>2 DEF TypeInv, Formed, Saving
<1>4. job.state \in State BY <1>3 DEF WellFormed
<1>5. data' = [data EXCEPT !.state = job.state] BY DEF SaveState
<1>6. /\ data' \in Directory /\ data'.blocks = data.blocks
      /\ data'.state = job.state /\ data'.valInfo = data.valInfo
      /\ data'.paramsInfo = data.paramsInfo
      /\ data'.abci = data.abci /\ data'.app = data.app
    BY <1>1, <1>4, <1>5 DEF Directory
<1>7. job' = [job EXCEPT !.pc = IF job.cmd = "node" THEN "node" ELSE "rollApp", !.state = Nothing]
    BY DEF SaveState
<1>8. /\ job' \in Job /\ job'.pc = (IF job.cmd = "node" THEN "node" ELSE "rollApp")
      /\ job'.cmd = job.cmd /\ job'.height = job.height
    BY <1>1, <1>7 DEF Job, JobPc
<1> QED BY <1>2, <1>3, <1>6, <1>8

LEMMA rollBackParts ==
    ASSUME TypeInv, rollBackApplication
    PROVE  /\ data' \in Directory /\ data'.app \in App /\ data'.blocks = data.blocks
           /\ data'.state = data.state /\ data'.valInfo = data.valInfo
           /\ data'.paramsInfo = data.paramsInfo /\ data'.abci = data.abci
           /\ \/ /\ data'.app.latest = job.height
                 /\ data'.app.commits = data.app.commits \ {job.height + 1}
                 /\ data'.app.trees = data.app.trees
              \/ data' = data /\ "rollApp" \in swallowed'
           /\ job.pc = "rollApp" /\ job' = [job EXCEPT !.pc = "block"]
           /\ Swallow("rollApp") \/ UNCHANGED <<swallowed, faults>>
<1> DEFINE a == [data.app EXCEPT !.latest = job.height, !.commits = @ \ {job.height + 1}]
<1>1. data \in Directory /\ data.app \in App /\ job.height \in 0 .. MaxHeight BY TypeFacts
<1>2. CASE Swallow("rollApp") /\ data' = data BY <1>1, <1>2 DEF rollBackApplication, Swallow
<1>3. CASE /\ data' = [data EXCEPT !.app.latest = job.height, !.app.commits = @ \ {job.height + 1}]
           /\ UNCHANGED <<swallowed, faults>>
    <2>1. data' = [data EXCEPT !.app = a] BY <1>1, <1>3 DEF Directory
    <2>2. /\ a \in App /\ a.latest = job.height
          /\ a.commits = data.app.commits \ {job.height + 1} /\ a.trees = data.app.trees
        BY <1>1 DEF App
    <2> HIDE DEF a
    <2>3. /\ data' \in Directory /\ data'.app = a /\ data'.blocks = data.blocks
          /\ data'.state = data.state /\ data'.valInfo = data.valInfo
          /\ data'.paramsInfo = data.paramsInfo /\ data'.abci = data.abci
        BY <1>1, <2>1, <2>2 DEF Directory
    <2> QED BY <1>3, <2>2, <2>3 DEF rollBackApplication
<1> QED BY <1>2, <1>3 DEF rollBackApplication

\* Recover goes on with the stores as they are, or from the state before, or fails.
LEMMA RecoverParts ==
    ASSUME TypeInv, Recover
    PROVE  /\ job.pc = "recover" /\ job' \in Job
           /\ \/ /\ StoreHeight(data) = data.state.height + 1
                 /\ job'.pc = "rollApp" /\ job'.cmd = job.cmd /\ job'.height = data.state.height
                 /\ UNCHANGED <<target, completed>>
              \/ /\ CanRollBack
                 /\ job'.pc = "saveVals" /\ job'.cmd = job.cmd
                 /\ job'.state = RolledBackState /\ job'.height = RolledBackState.height
                 /\ UNCHANGED <<target, completed>>
              \/ job' = Idle /\ target' = EmptyDirectory /\ completed' = FALSE
<1>1. job \in Job /\ data.state.height \in 0 .. MaxHeight BY TypeFacts
<1>2. job.pc = "recover" BY DEF Recover
<1>3. CASE /\ StoreHeight(data) = data.state.height + 1
           /\ job' = [job EXCEPT !.pc = "rollApp", !.height = data.state.height]
           /\ UNCHANGED <<target, completed>>
    <2>1. job' \in Job /\ job'.pc = "rollApp" /\ job'.cmd = job.cmd /\ job'.height = data.state.height
        BY <1>1, <1>3 DEF Job, JobPc
    <2> QED BY <1>2, <1>3, <2>1
<1>4. CASE /\ CanRollBack
           /\ job' = [job EXCEPT !.pc = "saveVals", !.state = RolledBackState,
                                 !.height = RolledBackState.height]
           /\ UNCHANGED <<target, completed>>
    <2>1. WellFormed(RolledBackState) /\ RolledBackState.height \in Height
        BY <1>4, TypeFacts, RolledBackType DEF TypeInv, Formed
    <2>2. RolledBackState \in State /\ RolledBackState.height \in 0 .. MaxHeight
        BY <2>1, Bounds DEF WellFormed
    <2>3. /\ job' \in Job /\ job'.pc = "saveVals" /\ job'.cmd = job.cmd
          /\ job'.state = RolledBackState /\ job'.height = RolledBackState.height
        BY <1>1, <1>4, <2>2 DEF Job, JobPc
    <2> QED BY <1>2, <1>4, <2>3
<1>5. CASE job' = Idle /\ target' = EmptyDirectory /\ completed' = FALSE
    BY <1>2, <1>5, EmptyTypes
<1> QED BY <1>3, <1>4, <1>5 DEF Recover

LEMMA snapshotBlockParts ==
    ASSUME TypeInv, snapshotBlock
    PROVE  /\ job.pc = "block" /\ target' \in Directory
           /\ target'.state = target.state /\ target'.valInfo = target.valInfo
           /\ target'.abci = target.abci /\ target'.wal = target.wal
           /\ target'.priv = target.priv /\ target'.app = target.app
           /\ \/ /\ job.height \in data.blocks
                 /\ target.blocks = {} \/ job.height = StoreHeight(target) + 1
                 /\ target'.blocks = target.blocks \cup {job.height}
                 /\ job' = [job EXCEPT !.pc = "state"]
              \/ job' = Idle /\ target'.blocks = target.blocks
<1>1. target \in Directory /\ data.blocks \subseteq Height BY TypeFacts
<1>2. CASE /\ job.height \in data.blocks
           /\ target.blocks = {} \/ job.height = StoreHeight(target) + 1
           /\ target' = [target EXCEPT !.blocks = @ \cup {job.height},
                                       !.files = @ \cup {"blockstore"}]
           /\ job' = [job EXCEPT !.pc = "state"]
    <2>1. /\ target' \in Directory /\ target'.blocks = target.blocks \cup {job.height}
          /\ target'.state = target.state /\ target'.valInfo = target.valInfo
          /\ target'.abci = target.abci /\ target'.wal = target.wal
          /\ target'.priv = target.priv /\ target'.app = target.app
        BY <1>1, <1>2 DEF Directory
    <2> QED BY <1>2, <2>1 DEF snapshotBlock
<1>3. CASE job' = Idle /\ target' = [target EXCEPT !.files = @ \cup {"blockstore"}]
    <2>1. /\ target' \in Directory /\ target'.blocks = target.blocks
          /\ target'.state = target.state /\ target'.valInfo = target.valInfo
          /\ target'.abci = target.abci /\ target'.wal = target.wal
          /\ target'.priv = target.priv /\ target'.app = target.app
        BY <1>1, <1>3 DEF Directory
    <2> QED BY <1>3, <2>1 DEF snapshotBlock
<1> QED BY <1>2, <1>3 DEF snapshotBlock, Panic

\* The three stages of snapshotState.
LEMMA SavedParts ==
    ASSUME NEW d \in Directory, NEW s \in State, NEW h \in Height
    PROVE  LET saved == [SavedState(d, s) EXCEPT !.abci = @ \cup {h}]
           IN  /\ saved \in Directory /\ saved.blocks = d.blocks /\ saved.state = s
               /\ saved.valInfo = [d.valInfo EXCEPT ![s.height + 2] = NextValidatorsInfo(s)]
               /\ saved.abci = d.abci \cup {h} /\ saved.wal = d.wal
               /\ saved.priv = d.priv /\ saved.app = d.app
<1> DEFINE v == [d.valInfo EXCEPT ![s.height + 2] = NextValidatorsInfo(s)]
           p == [d.paramsInfo EXCEPT ![s.height + 1] = NextParamsInfo(s)]
           saved == [SavedState(d, s) EXCEPT !.abci = @ \cup {h}]
<1>1. NextValidatorsInfo(s) \in ValidatorsInfo /\ NextParamsInfo(s) \in ParamsInfo
    BY NextInfoTypes
<1>2. v \in [InfoHeight -> ValidatorsInfo \cup {Nothing}] BY <1>1, DirectoryFields
<1>3. p \in [InfoHeight -> ParamsInfo \cup {Nothing}] BY <1>1, DirectoryFields
<1>4. SavedState(d, s) = [d EXCEPT !.state = s, !.valInfo = v, !.paramsInfo = p]
    BY DEF SavedState, Directory
<1> HIDE DEF v, p
<1>5. /\ SavedState(d, s) \in Directory /\ SavedState(d, s).blocks = d.blocks
      /\ SavedState(d, s).state = s /\ SavedState(d, s).valInfo = v
      /\ SavedState(d, s).abci = d.abci /\ SavedState(d, s).wal = d.wal
      /\ SavedState(d, s).priv = d.priv /\ SavedState(d, s).app = d.app
    BY <1>2, <1>3, <1>4 DEF Directory
<1>6. /\ saved \in Directory /\ saved.blocks = d.blocks /\ saved.state = s /\ saved.valInfo = v
      /\ saved.abci = d.abci \cup {h} /\ saved.wal = d.wal
      /\ saved.priv = d.priv /\ saved.app = d.app
    BY <1>5 DEF Directory
<1> QED BY <1>6 DEF v

LEMMA WithRecordsParts ==
    ASSUME data \in Directory, NEW d \in Directory, NEW heights
    PROVE  LET all == WithRecords(d, heights)
           IN  /\ all \in Directory /\ all.blocks = d.blocks /\ all.state = d.state
               /\ \A x \in InfoHeight : all.valInfo[x] =
                     IF x \in heights THEN data.valInfo[x] ELSE d.valInfo[x]
               /\ all.abci = d.abci /\ all.wal = d.wal
               /\ all.priv = d.priv /\ all.app = d.app
<1> DEFINE v == [x \in InfoHeight |-> IF x \in heights THEN data.valInfo[x] ELSE d.valInfo[x]]
           all == WithRecords(d, heights)
<1>1. v \in [InfoHeight -> ValidatorsInfo \cup {Nothing}] BY DirectoryFields
<1>2. all = [d EXCEPT !.valInfo = v] BY DEF WithRecords
<1>3. \A x \in InfoHeight : v[x] = IF x \in heights THEN data.valInfo[x] ELSE d.valInfo[x]
    OBVIOUS
<1> HIDE DEF v, all
<1>4. /\ all \in Directory /\ all.blocks = d.blocks /\ all.state = d.state
      /\ all.valInfo = v /\ all.abci = d.abci /\ all.wal = d.wal
      /\ all.priv = d.priv /\ all.app = d.app
    BY <1>1, <1>2 DEF Directory
<1> QED BY <1>3, <1>4 DEF all

LEMMA WithParamsParts ==
    ASSUME data \in Directory, NEW d \in Directory, NEW h \in InfoHeight,
           data.paramsInfo[h] # Nothing
    PROVE  LET all == saveConsensusParamsInfo(d, h)
           IN  /\ all \in Directory /\ all.blocks = d.blocks /\ all.state = d.state
               /\ all.valInfo = d.valInfo /\ all.abci = d.abci /\ all.wal = d.wal
               /\ all.priv = d.priv /\ all.app = d.app
<1> DEFINE changed == data.paramsInfo[h].changed
           i == [changed |-> changed, value |-> NoParams]
           p == [d.paramsInfo EXCEPT ![changed] = i]
           all == saveConsensusParamsInfo(d, h)
<1>1. data.paramsInfo[h] \in ParamsInfo BY DirectoryFields
<1>2. changed \in InfoHeight BY <1>1 DEF ParamsInfo
<1>3. i \in ParamsInfo BY <1>2 DEF ParamsInfo
<1>4. all = [d EXCEPT !.paramsInfo[changed] = i] BY DEF saveConsensusParamsInfo
<1> HIDE DEF i, changed, all
<1>5. p \in [InfoHeight -> ParamsInfo \cup {Nothing}] BY <1>3, DirectoryFields
<1>6. all = [d EXCEPT !.paramsInfo = p] BY <1>4 DEF Directory
<1> HIDE DEF p
<1>7. /\ all \in Directory /\ all.blocks = d.blocks /\ all.state = d.state
      /\ all.valInfo = d.valInfo /\ all.abci = d.abci /\ all.wal = d.wal
      /\ all.priv = d.priv /\ all.app = d.app
    BY <1>5, <1>6 DEF Directory
<1> QED BY <1>7 DEF all

LEMMA snapshotStateParts ==
    ASSUME TypeInv, snapshotState
    PROVE  /\ job.pc = "state" /\ target' \in Directory
           /\ target'.blocks = target.blocks /\ target'.wal = target.wal
           /\ target'.priv = target.priv /\ target'.app = target.app
           /\ Swallow("records") \/ UNCHANGED <<swallowed, faults>>
           /\ \/ job' = Idle
              \/ /\ job' = [job EXCEPT !.pc = "wal"]
                 /\ target'.state = data.state /\ data.state.valsChanged <= job.height
                 /\ job.height \in Height
                 /\ target'.abci = target.abci \cup {job.height}
                 /\ \/ "records" \in swallowed'
                    \/ LET stored == lastStoredHeightFor(job.height, data.state.valsChanged)
                           saved == [target.valInfo EXCEPT ![data.state.height + 2] =
                                                               NextValidatorsInfo(data.state)]
                       IN  \A x \in InfoHeight : target'.valInfo[x] =
                             IF x \in {job.height, job.height + 1, stored}
                               THEN data.valInfo[x] ELSE saved[x]
<1> DEFINE h == job.height
           s == data.state
           saved == [SavedState(target, s) EXCEPT !.abci = @ \cup {h}]
           copied == saveValidatorsInfo(h, s.valsChanged)
           there == {x \in copied : data.valInfo[x] # Nothing}
           v == [target.valInfo EXCEPT ![s.height + 2] = NextValidatorsInfo(s)]
           Same(d) == /\ d \in Directory /\ d.blocks = target.blocks /\ d.wal = target.wal
                      /\ d.priv = target.priv /\ d.app = target.app
           Full(d) == Same(d) /\ d.state = s /\ d.abci = target.abci \cup {h}
<1>1. data \in Directory /\ target \in Directory /\ s \in State BY TypeFacts
<1>2. job.pc = "state" BY DEF snapshotState
<1>3. CASE h \notin data.abci
    <2>1. job' = Idle /\ target' = target /\ UNCHANGED <<swallowed, faults>>
        BY <1>3 DEF snapshotState, Panic
    <2> QED BY <1>1, <1>2, <2>1
<1>4. CASE h \in data.abci
    <2>1. h \in Height /\ h \in InfoHeight BY <1>1, <1>4, DirectoryFields, Bounds
    <2>2. Full(saved) /\ saved.valInfo = v BY <1>1, <2>1, SavedParts
    <2> HIDE DEF saved, v
    <2>3. ASSUME NEW w
          PROVE  /\ Full(WithRecords(saved, w))
                 /\ \A x \in InfoHeight : WithRecords(saved, w).valInfo[x] =
                       IF x \in w THEN data.valInfo[x] ELSE v[x]
        <3> DEFINE all == WithRecords(saved, w)
        <3>1. /\ all \in Directory /\ all.blocks = saved.blocks /\ all.state = saved.state
              /\ all.abci = saved.abci /\ all.wal = saved.wal /\ all.priv = saved.priv
              /\ all.app = saved.app
              /\ \A x \in InfoHeight : all.valInfo[x] =
                    IF x \in w THEN data.valInfo[x] ELSE saved.valInfo[x]
            BY <1>1, <2>2, WithRecordsParts
        <3> HIDE DEF all, s
        <3>2. /\ Full(all)
              /\ \A x \in InfoHeight : all.valInfo[x] = IF x \in w THEN data.valInfo[x] ELSE v[x]
            BY <2>2, <3>1
        <3> QED BY <3>2 DEF all
    <2>4. ASSUME NEW d, Full(d), data.paramsInfo[h] # Nothing
          PROVE  /\ Full(saveConsensusParamsInfo(d, h))
                 /\ saveConsensusParamsInfo(d, h).valInfo = d.valInfo
        BY <1>1, <2>1, <2>4, WithParamsParts
    <2>5. CASE job' = Idle
        <3>1. UNCHANGED <<swallowed, faults>> /\ Same(target')
            <4> HIDE DEF s, h, copied, there
            <4>1. ASSUME target' = saved PROVE Same(target') BY <2>2, <4>1
            <4>2. ASSUME NEW w, target' = WithRecords(saved, w) PROVE Same(target')
                BY <2>3, <4>2
            <4>3. /\ UNCHANGED <<swallowed, faults>>
                  /\ \/ target' = saved \/ target' = WithRecords(saved, copied)
                     \/ \E w \in SUBSET there : target' = WithRecords(saved, w)
                <5>1. job' # [job EXCEPT !.pc = "wal"]
                    BY <2>5, EmptyTypes, TypeFacts DEF Job
                <5> QED BY <1>4, <2>5, <5>1 DEF snapshotState, Panic, saved, s, h, copied, there
            <4> QED BY <4>1, <4>2, <4>3
        <3> QED BY <1>2, <2>5, <3>1
    <2>6. CASE job' # Idle
        <3>1. /\ s.valsChanged <= h /\ data.paramsInfo[h] # Nothing
              /\ job' = [job EXCEPT !.pc = "wal"]
            BY <1>4, <2>6 DEF snapshotState, Panic
        <3>2. \/ /\ target' = saveConsensusParamsInfo(WithRecords(saved, copied), h)
                 /\ UNCHANGED <<swallowed, faults>>
              \/ /\ Swallow("records")
                 /\ \E w \in SUBSET copied :
                       \/ target' = WithRecords(saved, w)
                       \/ target' = saveConsensusParamsInfo(WithRecords(saved, w), h)
            BY <1>4, <2>6 DEF snapshotState, Panic, saved
        <3> HIDE DEF copied, s, h
        <3>3. CASE /\ target' = saveConsensusParamsInfo(WithRecords(saved, copied), h)
                   /\ UNCHANGED <<swallowed, faults>>
            <4>1. /\ Full(target')
                  /\ \A x \in InfoHeight : target'.valInfo[x] =
                        IF x \in copied THEN data.valInfo[x] ELSE v[x]
                BY <2>3, <2>4, <3>1, <3>3
            <4> QED BY <1>2, <2>1, <3>1, <3>3, <4>1 DEF copied, saveValidatorsInfo, v, s, h
        <3>4. CASE /\ Swallow("records")
                   /\ \E w \in SUBSET copied :
                         \/ target' = WithRecords(saved, w)
                         \/ target' = saveConsensusParamsInfo(WithRecords(saved, w), h)
            <4>1. Full(target') BY <2>3, <2>4, <3>1, <3>4
            <4>2. "records" \in swallowed' BY <3>4 DEF Swallow
            <4> QED BY <1>2, <2>1, <3>1, <3>4, <4>1, <4>2 DEF s, h
        <3> QED BY <3>2, <3>3, <3>4
    <2> QED BY <2>5, <2>6
<1> QED BY <1>3, <1>4

LEMMA snapshotCsWALParts ==
    ASSUME TypeInv, snapshotCsWAL
    PROVE  /\ job.pc = "wal" /\ target' \in Directory /\ target'.blocks = target.blocks
           /\ target'.state = target.state /\ target'.valInfo = target.valInfo
           /\ target'.abci = target.abci /\ target'.priv = target.priv
           /\ target'.app = target.app /\ job' = [job EXCEPT !.pc = "priv"]
           /\ swallowed' \in {swallowed, swallowed \cup {"wal"}}
           /\ job.height \in target'.wal \/ "wal" \in swallowed'
<1> DEFINE later == {h \in data.wal : h > job.height /\ job.height \in data.wal}
           Same == /\ target' \in Directory /\ target'.blocks = target.blocks
                   /\ target'.state = target.state /\ target'.valInfo = target.valInfo
                   /\ target'.abci = target.abci /\ target'.priv = target.priv
                   /\ target'.app = target.app
<1>1. data \in Directory /\ target \in Directory /\ job.height \in 0 .. MaxHeight BY TypeFacts
<1>2. later \subseteq 0 .. MaxHeight BY <1>1, DirectoryFields
<1> HIDE DEF later
<1>3. ASSUME NEW w, w \subseteq 0 .. MaxHeight, target' = [target EXCEPT !.wal = @ \cup w]
      PROVE  Same /\ target'.wal = target.wal \cup w
    BY <1>1, <1>3 DEF Directory
<1> HIDE DEF Same
<1>4. job.pc = "wal" /\ job' = [job EXCEPT !.pc = "priv"] BY DEF snapshotCsWAL
<1>5. CASE /\ target' = [target EXCEPT !.wal = @ \cup later \cup {job.height}]
           /\ swallowed' = swallowed
    <2> DEFINE w == later \cup {job.height}
    <2>1. w \subseteq 0 .. MaxHeight BY <1>1, <1>2
    <2>2. target' = [target EXCEPT !.wal = @ \cup w]
        <3>1. (target.wal \cup later) \cup {job.height} = target.wal \cup w OBVIOUS
        <3> HIDE DEF w
        <3> QED BY <1>1, <1>5, <3>1 DEF Directory
    <2>3. job.height \in w OBVIOUS
    <2> HIDE DEF w
    <2>4. Same /\ target'.wal = target.wal \cup w BY <1>3, <2>1, <2>2
    <2> QED BY <1>4, <1>5, <2>3, <2>4 DEF Same
<1>6. ASSUME NEW last, target' = [target EXCEPT !.wal = @ \cup {h \in later : h <= last}],
             swallowed' = swallowed \cup {"wal"}
      PROVE  Same /\ swallowed' = swallowed \cup {"wal"}
    <2> DEFINE w == {h \in later : h <= last}
    <2>1. w \subseteq 0 .. MaxHeight BY <1>2
    <2> HIDE DEF w
    <2>2. Same BY <1>3, <1>6, <2>1 DEF w
    <2> QED BY <1>6, <2>2
<1>7. \/ /\ target' = [target EXCEPT !.wal = @ \cup later \cup {job.height}]
         /\ swallowed' = swallowed
      \/ /\ \E last : target' = [target EXCEPT !.wal = @ \cup {h \in later : h <= last}]
         /\ swallowed' = swallowed \cup {"wal"}
    BY DEF snapshotCsWAL, later
<1> QED BY <1>4, <1>5, <1>6, <1>7 DEF Same

LEMMA createPrivParts ==
    ASSUME TypeInv, createPrivValidatorState
    PROVE  /\ job.pc = "priv" /\ target' \in Directory /\ target'.blocks = target.blocks
           /\ target'.wal = target.wal
           /\ target'.state = target.state /\ target'.valInfo = target.valInfo
           /\ target'.abci = target.abci /\ target'.priv = job.height
           /\ target'.app = target.app /\ job' = [job EXCEPT !.pc = "app"]
<1>1. target \in Directory /\ job.height \in 0 .. MaxHeight BY TypeFacts
<1>2. target' = [target EXCEPT !.priv = job.height] BY DEF createPrivValidatorState
<1>3. /\ target' \in Directory /\ target'.blocks = target.blocks
      /\ target'.wal = target.wal
      /\ target'.state = target.state /\ target'.valInfo = target.valInfo
      /\ target'.abci = target.abci /\ target'.priv = job.height /\ target'.app = target.app
    BY <1>1, <1>2 DEF Directory
<1> QED BY <1>3 DEF createPrivValidatorState

LEMMA copyAppParts ==
    ASSUME TypeInv, copyAppDBBegin \/ copyAppDBEnd
    PROVE  /\ target' \in Directory /\ target'.blocks = target.blocks
           /\ target'.wal = target.wal
           /\ target'.state = target.state /\ target'.valInfo = target.valInfo
           /\ target'.abci = target.abci /\ target'.priv = target.priv
           /\ Swallow("copy") \/ UNCHANGED <<swallowed, faults>>
           /\ \/ /\ job.pc = "app" /\ target'.app = Torn
                 /\ job' = [job EXCEPT !.pc = "appEnd"]
              \/ /\ job.pc = "appEnd" /\ job' = [job EXCEPT !.pc = "evidence"]
                 /\ \/ target'.app = data.app
                    \/ target'.app = Torn /\ "copy" \in swallowed'
<1>1. target \in Directory /\ data.app \in App BY TypeFacts
<1>2. job.pc = "appEnd" => target.app = Torn BY DEF TypeInv, Formed
<1>3. PICK a \in {Torn, data.app} :
        /\ target' = [target EXCEPT !.app = a]
        /\ \/ /\ job.pc = "app" /\ a = Torn
              /\ job' = [job EXCEPT !.pc = "appEnd"]
           \/ /\ job.pc = "appEnd" /\ job' = [job EXCEPT !.pc = "evidence"]
              /\ a = data.app \/ (a = Torn /\ "copy" \in swallowed')
    <2>1. CASE target' = target /\ copyAppDBEnd /\ Swallow("copy")
        <3>1. target' = [target EXCEPT !.app = Torn]
            BY <1>1, <1>2, <2>1 DEF copyAppDBEnd, Directory
        <3> QED BY <2>1, <3>1 DEF copyAppDBEnd, Swallow
    <2>2. CASE copyAppDBEnd /\ target' = [target EXCEPT !.app = data.app]
        BY <2>2 DEF copyAppDBEnd
    <2>3. CASE copyAppDBBegin BY <2>3 DEF copyAppDBBegin
    <2> QED BY <2>1, <2>2, <2>3 DEF copyAppDBEnd
<1>4. a \in App \cup {Torn} BY <1>1, <1>3
<1>5. /\ target' \in Directory /\ target'.blocks = target.blocks
      /\ target'.wal = target.wal
      /\ target'.state = target.state /\ target'.valInfo = target.valInfo
      /\ target'.abci = target.abci /\ target'.priv = target.priv /\ target'.app = a
    BY <1>1, <1>3, <1>4 DEF Directory
<1>6. Swallow("copy") \/ UNCHANGED <<swallowed, faults>> BY DEF copyAppDBBegin, copyAppDBEnd
<1> QED BY <1>3, <1>5, <1>6

LEMMA copyFilesParts ==
    ASSUME TypeInv, copyEvidenceDB \/ copyUpgradeInfo
    PROVE  /\ target' \in Directory /\ target'.blocks = target.blocks
           /\ target'.wal = target.wal
           /\ target'.state = target.state /\ target'.valInfo = target.valInfo
           /\ target'.abci = target.abci /\ target'.priv = target.priv
           /\ target'.app = target.app
<1>1. target \in Directory BY TypeFacts
<1>2. CASE target' = target BY <1>1, <1>2
<1>3. ASSUME NEW f \in {"evidence", "upgrade"}, target' = [target EXCEPT !.files = @ \cup {f}]
      PROVE  /\ target' \in Directory /\ target'.blocks = target.blocks
             /\ target'.wal = target.wal
             /\ target'.state = target.state /\ target'.valInfo = target.valInfo
             /\ target'.abci = target.abci /\ target'.priv = target.priv
             /\ target'.app = target.app
    BY <1>1, <1>3 DEF Directory
<1>4. \/ target' = target
      \/ \E f \in {"evidence", "upgrade"} : target' = [target EXCEPT !.files = @ \cup {f}]
    BY DEF copyEvidenceDB, copyUpgradeInfo
<1> QED BY <1>2, <1>3, <1>4

\* prune finds an application, or makes an empty one, or refuses a torn one.
LEMMA PruneSnapshotParts ==
    ASSUME TypeInv, PruneSnapshot
    PROVE  /\ job = Idle /\ job' \in Job
           /\ target' \in Directory /\ target'.blocks = target.blocks
           /\ target'.wal = target.wal
           /\ target'.state = target.state /\ target'.valInfo = target.valInfo
           /\ target'.abci = target.abci /\ target'.priv = target.priv
           /\ \/ target.app \in App /\ target'.app = target.app
              \/ target.app \notin App /\ target'.app = EmptyApp /\ job' = Idle
              \/ target.app = Torn /\ target'.app = Torn /\ job' = Idle
           /\ job' = Idle \/ (job'.pc = "prune" /\ job'.cmd = "prune")
<1>1. target \in Directory /\ job \in Job BY TypeFacts
<1>2. target.app \in App \cup {Nothing, Torn} BY <1>1, DirectoryFields
<1>3. job' \in {Idle, [Idle EXCEPT !.pc = "prune", !.cmd = "prune"]} BY DEF PruneSnapshot
<1>4. job' \in Job /\ (job' = Idle \/ (job'.pc = "prune" /\ job'.cmd = "prune"))
    BY <1>3, EmptyTypes DEF Job, JobPc
<1>5. CASE target.app = Torn /\ target' = target
    <2>1. job' = Idle BY <1>5 DEF PruneSnapshot
    <2> QED BY <1>1, <1>4, <1>5, <2>1 DEF PruneSnapshot
<1>6. CASE target' = [target EXCEPT !.app = IF @ \in {Nothing, Torn} THEN EmptyApp ELSE @]
    <2> DEFINE a == IF target.app \in {Nothing, Torn} THEN EmptyApp ELSE target.app
    <2>1. a \in App BY <1>2, EmptyTypes
    <2>2. target' = [target EXCEPT !.app = a] BY <1>1, <1>6 DEF Directory
    <2>3. \/ target.app \in App /\ a = target.app
          \/ target.app \notin App /\ a = EmptyApp /\ job' = Idle
        BY <1>2, Markers DEF PruneSnapshot
    <2> HIDE DEF a
    <2>4. /\ target' \in Directory /\ target'.blocks = target.blocks
          /\ target'.wal = target.wal
          /\ target'.state = target.state /\ target'.valInfo = target.valInfo
          /\ target'.abci = target.abci /\ target'.priv = target.priv /\ target'.app = a
        BY <1>1, <2>1, <2>2 DEF Directory
    <2> QED BY <1>4, <2>3, <2>4 DEF PruneSnapshot
<1> QED BY <1>5, <1>6 DEF PruneSnapshot

\* A round of pruneStore takes versions below the latest from one tree.
LEMMA DeleteParts ==
    ASSUME TypeInv, NEW s \in Store, DeleteVersionsRange(s)
    PROVE  /\ job.pc = "prune" /\ job' \in Job /\ job'.pc = job.pc /\ job'.cmd = job.cmd
           /\ target.app \in App
           /\ target' \in Directory /\ target'.blocks = target.blocks
           /\ target'.wal = target.wal
           /\ target'.state = target.state /\ target'.valInfo = target.valInfo
           /\ target'.abci = target.abci /\ target'.priv = target.priv
           /\ target'.app \in App /\ target'.app.latest = target.app.latest
           /\ target'.app.commits = target.app.commits
           /\ \A t \in Store : target.app.latest \in target.app.trees[t] =>
                                 target.app.latest \in target'.app.trees[t]
<1> DEFINE start == job.start[s]
           latest == target.app.latest
           end == IF start + batchNum > latest THEN latest ELSE start + batchNum
           kept == target.app.trees[s] \ (start .. end - 1)
           trees == [target.app.trees EXCEPT ![s] = kept]
           a == [target.app EXCEPT !.trees = trees]
<1>1. job.pc = "prune" BY DEF DeleteVersionsRange
<1>2. target \in Directory /\ job \in Job /\ target.app \in App
    BY <1>1, TypeFacts DEF TypeInv, Formed
<1>15. CASE target' = target /\ job' = [job EXCEPT !.start[s] = Done]
    <2>1. Done \in 0 .. Done BY Bounds DEF Done
    <2>2. job' \in Job /\ job'.pc = job.pc /\ job'.cmd = job.cmd
        BY <1>2, <1>15, <2>1, JobFields DEF Job
    <2> QED BY <1>1, <1>2, <1>15, <2>2
<1>16. SUFFICES ASSUME ~(target' = target /\ job' = [job EXCEPT !.start[s] = Done])
                PROVE  /\ job' \in Job /\ job'.pc = job.pc /\ job'.cmd = job.cmd
                       /\ target' \in Directory /\ target'.blocks = target.blocks
                       /\ target'.wal = target.wal
                       /\ target'.state = target.state /\ target'.valInfo = target.valInfo
                       /\ target'.abci = target.abci /\ target'.priv = target.priv
                       /\ target'.app \in App /\ target'.app.latest = target.app.latest
                       /\ target'.app.commits = target.app.commits
                       /\ \A t \in Store : latest \in target.app.trees[t] =>
                                             latest \in target'.app.trees[t]
    BY <1>1, <1>2, <1>15
<1>3. start \in 0 .. Done /\ latest \in 0 .. MaxHeight BY <1>2, JobFields, AppFields
<1>4. end \in 0 .. Done /\ end <= latest BY <1>3, Bounds DEF Done
<1>5. target' = [target EXCEPT !.app.trees[s] = kept] BY <1>2, <1>16 DEF DeleteVersionsRange
<1>6. job' = [job EXCEPT !.start[s] = end] BY <1>16 DEF DeleteVersionsRange
<1>7. target.app.trees \in [Store -> SUBSET Height] BY <1>2, AppFields
<1>8. latest \notin start .. end - 1 BY <1>3, <1>4 DEF Done
<1> HIDE DEF start, end
<1>9. trees \in [Store -> SUBSET Height] BY <1>7
<1>10. \A t \in Store : latest \in target.app.trees[t] => latest \in trees[t]
    BY <1>7, <1>8
<1>11. target' = [target EXCEPT !.app = a] BY <1>2, <1>5, <1>7 DEF Directory, App
<1> HIDE DEF trees, latest
<1>12. /\ a \in App /\ a.latest = target.app.latest /\ a.commits = target.app.commits
       /\ a.trees = trees
    BY <1>2, <1>9 DEF App
<1> HIDE DEF a
<1>13. /\ target' \in Directory /\ target'.blocks = target.blocks
       /\ target'.wal = target.wal
       /\ target'.state = target.state /\ target'.valInfo = target.valInfo
       /\ target'.abci = target.abci /\ target'.priv = target.priv /\ target'.app = a
    BY <1>2, <1>11, <1>12 DEF Directory
<1>14. job' \in Job /\ job'.pc = job.pc /\ job'.cmd = job.cmd
    BY <1>2, <1>4, <1>6, JobFields DEF Job
<1> QED BY <1>1, <1>2, <1>10, <1>12, <1>13, <1>14 DEF latest

LEMMA pruneReadParts ==
    ASSUME TypeInv, NEW s \in Store, pruneStoreRead(s)
    PROVE  job.pc = "prune" /\ job' \in Job /\ job'.pc = job.pc /\ job'.cmd = job.cmd
<1> DEFINE versions == target.app.trees[s]
           first == IF target.app.latest \in versions THEN Min(versions) ELSE Done
<1>1. job.pc = "prune" BY DEF pruneStoreRead
<1>2. job \in Job /\ target.app \in App BY <1>1, TypeFacts DEF TypeInv, Formed
<1>3. versions \subseteq Height /\ Height \subseteq Nat BY <1>2, AppFields, Bounds
<1>4. target.app.latest \in versions => Min(versions) \in Height BY <1>3, MinOf
<1>5. first \in 0 .. Done BY <1>4, Bounds DEF Done
<1>6. job' = [job EXCEPT !.start[s] = first] BY DEF pruneStoreRead
<1> HIDE DEF first
<1>7. job' \in Job /\ job'.pc = job.pc /\ job'.cmd = job.cmd
    BY <1>2, <1>5, <1>6, JobFields DEF Job
<1> QED BY <1>1, <1>7

-----------------------------------------------------------------------------
(* Every step preserves the type invariant *)

LEMMA CreatingNotCompleted ==
    ASSUME TypeInv, job.pc \in Creating \/ (job.pc \in Saving /\ job.cmd = "create")
    PROVE  job.cmd = "create" /\ ~completed
BY DEF TypeInv, Formed

LEMMA NodeTypes ==
    ASSUME TypeInv,
           \/ NodeStart \/ NodeStop \/ SaveBlock \/ WriteEndHeight \/ ExecuteBlock
           \/ CommitTrees \/ FlushMetadata \/ UpdateState
    PROVE  TypeInv'
<1> USE DEF Running, Saving, Creating, Copying, Copied
<1> DEFINE Same == UNCHANGED <<chain, target, completed, swallowed, flawed, faults, restores>>
<1>1. target \in Directory /\ data \in Directory /\ job \in Job /\ completed \in BOOLEAN
      /\ faults \in 0 .. MaxFaults /\ swallowed \subseteq Swallowed
    BY TypeFacts DEF TypeInv, NodeTypeOK
<1>2. CASE NodeStart
    <2>1. job' = [Idle EXCEPT !.pc = "node", !.cmd = "node"] BY <1>2 DEF NodeStart
    <2>2. job' \in Job /\ job'.pc = "node" /\ job'.cmd = "node" BY <2>1, EmptyTypes DEF Job, JobPc
    <2>3. UNCHANGED <<chain, data, target, completed, swallowed, flawed, faults, restores>> BY <1>2 DEF NodeStart
    <2>4. Formed' BY <2>2, <2>3 DEF TypeInv, Formed, AppCopied, WellFormed
    <2> QED BY <1>1, <2>2, <2>3, <2>4, TypesFromStep
<1>3. CASE NodeStop BY <1>1, <1>3, TypesFromEnd DEF NodeStop
<1>4. ASSUME Same, data' \in Directory, data'.app \in App, data'.state = data.state,
             data'.blocks = {} => data.blocks = {},
             NEW p \in Running, job.pc \in Running, job' = [job EXCEPT !.pc = p],
             p \in {"trees", "flush"} => data.blocks # {}
      PROVE  TypeInv'
    <2>1. p \in JobPc BY <1>4 DEF JobPc
    <2>2. job' \in Job /\ job'.pc = p /\ job'.cmd = job.cmd BY <1>4, <2>1, JobGoesTo
    <2>3. job.cmd = "node" BY <1>4 DEF TypeInv, Formed
    <2>4. WellFormed(data.state)' BY <1>4 DEF TypeInv, Formed, AppCopied, WellFormed
    <2>5. p \in Running /\ p \notin Creating /\ p \notin Saving /\ p \notin Copied /\ p # "prune"
        BY <1>4
    <2>6. Formed' BY <1>4, <2>2, <2>3, <2>4, <2>5 DEF TypeInv, Formed, AppCopied, WellFormed
    <2> QED BY <1>1, <1>4, <2>2, <2>6, TypesFromStep
<1> USE DEF Same
<1>5. CASE SaveBlock BY <1>4, <1>5, SaveBlockParts, TypeFacts DEF SaveBlock
<1>6. CASE WriteEndHeight BY <1>4, <1>6, WriteEndHeightParts, TypeFacts DEF WriteEndHeight
<1>7. CASE ExecuteBlock
    <2>1. CASE data' = data /\ job' = Idle
        BY <1>1, <1>7, <2>1, TypesFromEnd DEF ExecuteBlock
    <2>2. CASE data' # data \/ job' # Idle
        <3>1. data.blocks # {}
            <4>1. StoreHeight(data) > 0 BY <1>7, TypeFacts DEF ExecuteBlock
            <4> QED BY <4>1, TypeFacts, StoreHeightOf
        <3> QED BY <1>4, <1>7, <2>2, <3>1, ExecuteBlockParts, TypeFacts DEF ExecuteBlock
    <2> QED BY <2>1, <2>2
<1>8. CASE CommitTrees
    <2>1. data.blocks # {} BY <1>8 DEF CommitTrees, TypeInv, Formed
    <2> QED BY <1>4, <1>8, <2>1, CommitTreesParts DEF CommitTrees
<1>9. CASE FlushMetadata BY <1>4, <1>9, FlushMetadataParts DEF FlushMetadata
<1>10. CASE UpdateState
    <2>1. /\ WellFormed(NextState(data.state))
          /\ job' \in Job /\ job.pc = "node" /\ job'.pc = "saveVals" /\ job'.cmd = job.cmd
          /\ job'.state = NextState(data.state)
        BY <1>10, UpdateStateParts
    <2>2. job.cmd = "node" BY <2>1 DEF TypeInv, Formed
    <2>3. UNCHANGED <<chain, data, target, completed, swallowed, flawed, faults, restores>> BY <1>10 DEF UpdateState
    <2>4. WellFormed(job.state)' BY <2>1 DEF WellFormed
    <2>5. Formed' BY <2>1, <2>2, <2>3, <2>4 DEF TypeInv, Formed, AppCopied, WellFormed
    <2> QED BY <1>1, <2>1, <2>3, <2>5, TypesFromStep
<1> QED BY <1>2, <1>3, <1>5, <1>6, <1>7, <1>8, <1>9, <1>10

LEMMA SaveTypes ==
    ASSUME TypeInv, SaveVals \/ SaveParams \/ SaveState \/ Recover \/ rollBackApplication
    PROVE  TypeInv'
<1> USE DEF Running, Saving, Creating, Copying, Copied
<1>1. target \in Directory /\ data \in Directory /\ job \in Job /\ completed \in BOOLEAN
      /\ swallowed \subseteq Swallowed
    BY TypeFacts
<1>2. ASSUME UNCHANGED <<chain, target, completed, swallowed, flawed, faults, restores>>, data' \in Directory,
             data'.app = data.app, data'.state = data.state,
             NEW p \in Saving, job.pc \in Saving, job' = [job EXCEPT !.pc = p]
      PROVE  TypeInv'
    <2>1. p \in JobPc BY <1>2 DEF JobPc
    <2>2. /\ job' \in Job /\ job'.pc = p /\ job'.cmd = job.cmd /\ job'.state = job.state
        BY <1>2, <2>1, JobGoesTo
    <2>3. p \in Saving /\ p \notin Running /\ p \notin Creating /\ p \notin Copied /\ p # "prune"
        BY <1>2
    <2>4. Formed' BY <1>2, <2>2, <2>3 DEF TypeInv, Formed, AppCopied, WellFormed
    <2> QED BY <1>1, <1>2, <2>2, <2>4, TypesFromStep
<1>3. CASE SaveVals BY <1>2, <1>3, SaveValsParts DEF SaveVals
<1>4. CASE SaveParams BY <1>2, <1>4, SaveParamsParts DEF SaveParams
<1>5. CASE SaveState
    <2>1. /\ data' \in Directory /\ WellFormed(job.state) /\ data'.state = job.state
          /\ data'.app = data.app
          /\ job.pc = "saveState" /\ job' \in Job
          /\ job'.pc = (IF job.cmd = "node" THEN "node" ELSE "rollApp")
          /\ job'.cmd = job.cmd
        BY <1>5, SaveStateParts
    <2>2. UNCHANGED <<chain, target, completed, swallowed, flawed, faults, restores>> BY <1>5 DEF SaveState
    <2>3. job.cmd \in {"node", "create"} BY <2>1 DEF TypeInv, Formed
    <2>4. WellFormed(data.state)' BY <2>1 DEF WellFormed
    <2>5. Formed' BY <2>1, <2>2, <2>3, <2>4 DEF TypeInv, Formed, AppCopied, WellFormed
    <2> QED BY <1>1, <2>1, <2>2, <2>5, TypesFromStep
<1>6. CASE Recover
    <2>1. job.pc = "recover" /\ job.cmd = "create" /\ ~completed /\ job' \in Job
        BY <1>6, RecoverParts, CreatingNotCompleted
    <2>2. UNCHANGED <<chain, data, swallowed, flawed, faults, restores>> BY <1>6 DEF Recover
    <2>3. CASE job'.pc = "rollApp" /\ job'.cmd = job.cmd /\ UNCHANGED <<target, completed>>
        <3>1. Formed' BY <2>1, <2>2, <2>3 DEF TypeInv, Formed, AppCopied, WellFormed
        <3> QED BY <1>1, <2>1, <2>2, <2>3, <3>1, TypesFromStep
    <2>4. CASE /\ CanRollBack /\ job'.pc = "saveVals" /\ job'.cmd = job.cmd
               /\ job'.state = RolledBackState /\ UNCHANGED <<target, completed>>
        <3>1. WellFormed(RolledBackState)
            BY <1>1, <2>4, RolledBackType DEF TypeInv, Formed
        <3>2. WellFormed(job.state)' BY <2>4, <3>1 DEF WellFormed
        <3>3. Formed' BY <2>1, <2>2, <2>4, <3>2 DEF TypeInv, Formed, AppCopied, WellFormed
        <3> QED BY <1>1, <2>1, <2>2, <2>4, <3>3, TypesFromStep
    <2>5. CASE job' = Idle /\ target' = EmptyDirectory /\ completed' = FALSE
        <3>1. job' \in Job /\ job'.pc = "idle" /\ job'.cmd = "none" /\ target' \in Directory
            BY <2>5, EmptyTypes
        <3>2. Formed' BY <2>2, <2>5, <3>1 DEF TypeInv, Formed, AppCopied, WellFormed
        <3>3. completed' \in BOOLEAN BY <2>5
        <3> QED BY <1>1, <2>2, <3>1, <3>2, <3>3, TypesFromStep
    <2> QED BY <1>6, <2>3, <2>4, <2>5, RecoverParts
<1>7. CASE rollBackApplication
    <2>1. /\ data' \in Directory /\ data'.app \in App /\ data'.state = data.state
          /\ job.pc = "rollApp" /\ job' = [job EXCEPT !.pc = "block"]
        BY <1>7, rollBackParts
    <2>2. job' \in Job /\ job'.pc = "block" /\ job'.cmd = job.cmd BY <2>1, JobGoesTo DEF JobPc
    <2>3. job.cmd = "create" /\ ~completed BY <2>1, CreatingNotCompleted
    <2>4. UNCHANGED <<chain, target, completed, flawed, restores>>
        BY <1>7 DEF rollBackApplication
    <2>5. swallowed' \subseteq Swallowed /\ faults' \in 0 .. MaxFaults
        BY <1>7, rollBackParts, SwallowTypes DEF Swallowed
    <2>6. Formed' BY <2>1, <2>2, <2>3, <2>4 DEF TypeInv, Formed, AppCopied, WellFormed
    <2>7. flawed' \in BOOLEAN /\ restores' \in 0 .. MaxRestores
        BY <2>4 DEF TypeInv, NodeTypeOK
    <2> QED BY <1>1, <2>1, <2>2, <2>4, <2>5, <2>6, <2>7, TypesFrom
<1> QED BY <1>3, <1>4, <1>5, <1>6, <1>7

CopyStep ==
    \/ snapshotBlock \/ snapshotState \/ snapshotCsWAL \/ createPrivValidatorState
    \/ copyAppDBBegin \/ copyAppDBEnd \/ copyEvidenceDB \/ copyUpgradeInfo

LEMMA CopySwallows ==
    ASSUME TypeInv, CopyStep
    PROVE  /\ swallowed' \subseteq Swallowed /\ swallowed \subseteq swallowed'
           /\ faults' \in 0 .. MaxFaults
           /\ snapshotState \/ ("records" \in swallowed' => "records" \in swallowed)
<1> USE DEF Swallowed
<1>1. swallowed \subseteq Swallowed /\ faults \in 0 .. MaxFaults BY DEF TypeInv, NodeTypeOK
<1>2. CASE UNCHANGED <<swallowed, faults>> BY <1>1, <1>2
<1>3. CASE snapshotState BY <1>3, snapshotStateParts, SwallowTypes
<1>4. CASE copyAppDBEnd
    <2>1. Swallow("copy") \/ UNCHANGED <<swallowed, faults>> BY <1>4 DEF copyAppDBEnd
    <2>2. /\ swallowed' \subseteq Swallowed /\ swallowed \subseteq swallowed'
          /\ faults' \in 0 .. MaxFaults /\ swallowed' \subseteq swallowed \cup {"copy"}
        BY <2>1, SwallowTypes
    <2> QED BY <2>2
<1>5. CASE snapshotCsWAL
    <2>1. faults' = faults BY <1>5 DEF snapshotCsWAL
    <2>2. swallowed' \in {swallowed, swallowed \cup {"wal"}} BY <1>5, snapshotCsWALParts
    <2> QED BY <1>1, <2>1, <2>2
<1> QED BY <1>2, <1>3, <1>4, <1>5
    DEF CopyStep, snapshotBlock, createPrivValidatorState, copyAppDBBegin, copyEvidenceDB,
        copyUpgradeInfo

LEMMA CopyTypes ==
    ASSUME TypeInv, CopyStep
    PROVE  TypeInv'
<1> USE DEF Running, Saving, Creating, Copying, Copied
<1>1. /\ target \in Directory /\ data \in Directory /\ job \in Job /\ completed \in BOOLEAN
      /\ data.app \in App
    BY TypeFacts
<1>2. UNCHANGED <<chain, data, flawed, restores>>
    BY DEF CopyStep, snapshotBlock, snapshotState, snapshotCsWAL, createPrivValidatorState,
           copyAppDBBegin, copyAppDBEnd, copyEvidenceDB, copyUpgradeInfo
<1>3. job.pc \in Copying /\ job.cmd = "create" /\ ~completed
    <2>1. job.pc \in Copying
        BY DEF CopyStep, snapshotBlock, snapshotState, snapshotCsWAL, createPrivValidatorState,
               copyAppDBBegin, copyAppDBEnd, copyEvidenceDB, copyUpgradeInfo
    <2> QED BY <2>1, CreatingNotCompleted
<1>4. ASSUME completed' \in BOOLEAN, target' \in Directory, job' \in Job, Formed'
      PROVE  TypeInv'
    <2>1. flawed' \in BOOLEAN /\ restores' \in 0 .. MaxRestores
        BY <1>2 DEF TypeInv, NodeTypeOK
    <2> QED BY <1>1, <1>2, <1>4, <2>1, CopySwallows, TypesFrom
<1>5. ASSUME completed' = completed, target' \in Directory, job' = Idle
      PROVE  TypeInv'
    <2>1. job' \in Job /\ job'.pc = "idle" /\ job'.cmd = "none" BY <1>5, EmptyTypes
    <2>2. Formed' BY <1>2, <1>3, <1>5, <2>1 DEF TypeInv, Formed, WellFormed
    <2> QED BY <1>1, <1>4, <1>5, <2>1, <2>2
<1>6. ASSUME completed' = completed, target' \in Directory, NEW p \in Copying,
             job' = [job EXCEPT !.pc = p],
             p \in Copied => WellFormed(target.state)',
             p = "appEnd" => target'.app = Torn,
             p \in {"evidence", "upgrade"} => AppCopied'
      PROVE  TypeInv'
    <2>1. p \in JobPc BY <1>6 DEF JobPc
    <2>2. job' \in Job /\ job'.pc = p /\ job'.cmd = job.cmd BY <1>6, <2>1, JobGoesTo
    <2>3. p \notin Running /\ p \notin Saving /\ p # "prune" BY <1>6
    <2>4. Formed' BY <1>2, <1>3, <1>6, <2>2, <2>3 DEF TypeInv, Formed, WellFormed
    <2> QED BY <1>1, <1>4, <1>6, <2>2, <2>4
<1>7. CASE snapshotBlock BY <1>5, <1>6, <1>7, snapshotBlockParts DEF snapshotBlock
<1>8. CASE snapshotState
    <2>1. completed' = completed BY <1>8 DEF snapshotState
    <2>2. CASE job' = Idle BY <1>5, <1>8, <2>1, <2>2, snapshotStateParts
    <2>3. CASE job' = [job EXCEPT !.pc = "wal"] /\ target'.state = data.state
        <3>1. WellFormed(target.state)' BY <2>3 DEF TypeInv, Formed, WellFormed
        <3> QED BY <1>6, <1>8, <2>1, <2>3, <3>1, snapshotStateParts
    <2> QED BY <1>8, <2>2, <2>3, snapshotStateParts
<1>9. ASSUME job.pc \in Copied, target'.state = target.state PROVE WellFormed(target.state)'
    BY <1>9 DEF TypeInv, Formed, WellFormed
<1>10. CASE snapshotCsWAL BY <1>6, <1>9, <1>10, snapshotCsWALParts DEF snapshotCsWAL
<1>11. CASE createPrivValidatorState
    BY <1>6, <1>9, <1>11, createPrivParts DEF createPrivValidatorState
<1>12. CASE copyAppDBBegin
    <2>1. job.pc = "app" /\ job' = [job EXCEPT !.pc = "appEnd"] BY <1>12 DEF copyAppDBBegin
    <2>2. target'.app = Torn BY <1>12, <2>1, copyAppParts
    <2> QED BY <1>6, <1>9, <1>12, <2>1, <2>2, copyAppParts DEF copyAppDBBegin
<1>13. CASE copyAppDBEnd
    <2>1. job.pc = "appEnd" /\ job' = [job EXCEPT !.pc = "evidence"] BY <1>13 DEF copyAppDBEnd
    <2>2. target'.app = data.app \/ (target'.app = Torn /\ "copy" \in swallowed')
        BY <1>13, <2>1, copyAppParts
    <2>3. AppCopied' BY <1>1, <2>2, Markers DEF AppCopied
    <2> QED BY <1>1, <1>6, <1>9, <1>13, <2>1, <2>3, copyAppParts DEF copyAppDBEnd
<1>14. CASE copyEvidenceDB
    <2>1. job.pc = "evidence" /\ job' = [job EXCEPT !.pc = "upgrade"] BY <1>14 DEF copyEvidenceDB
    <2>2. AppCopied BY <2>1 DEF TypeInv, Formed
    <2>3. target'.app = target.app /\ swallowed' = swallowed
        BY <1>14, copyFilesParts DEF copyEvidenceDB
    <2>4. AppCopied' BY <2>2, <2>3 DEF AppCopied
    <2> QED BY <1>6, <1>9, <1>14, <2>1, <2>4, copyFilesParts DEF copyEvidenceDB
<1>15. CASE copyUpgradeInfo
    <2>1. job.pc = "upgrade" /\ job' = Idle /\ completed' = TRUE /\ swallowed' = swallowed
        BY <1>15 DEF copyUpgradeInfo
    <2>2. AppCopied BY <2>1 DEF TypeInv, Formed
    <2>3. target' \in Directory /\ target'.app = target.app /\ target'.state = target.state
        BY <1>15, copyFilesParts
    <2>4. job' \in Job /\ job'.pc = "idle" /\ job'.cmd = "none" BY <2>1, EmptyTypes
    <2>5. WellFormed(target.state)' BY <1>9, <2>1, <2>3
    <2>6. AppCopied' BY <2>1, <2>2, <2>3 DEF AppCopied
    <2>7. Formed' BY <1>2, <2>4, <2>5, <2>6 DEF TypeInv, Formed, WellFormed
    <2>8. completed' \in BOOLEAN BY <2>1
    <2> QED BY <1>4, <2>3, <2>4, <2>7, <2>8
<1> QED BY <1>7, <1>8, <1>10, <1>11, <1>12, <1>13, <1>14, <1>15 DEF CopyStep

LEMMA OperatorTypes ==
    ASSUME TypeInv,
           \/ CreateSnapshot \/ PruneSnapshot \/ DiscardTarget \/ Restore \/ Crash \/ PruneEnd
           \/ \E s \in Store : PruneStep(s)
    PROVE  TypeInv'
<1> USE DEF Running, Saving, Creating, Copying, Copied
<1>1. /\ target \in Directory /\ data \in Directory /\ job \in Job /\ completed \in BOOLEAN
      /\ faults \in 0 .. MaxFaults /\ restores \in 0 .. MaxRestores
      /\ swallowed \subseteq Swallowed /\ flawed \in BOOLEAN
    BY TypeFacts DEF TypeInv, NodeTypeOK
<1>2. CASE CreateSnapshot
    <2>1. job' = [Idle EXCEPT !.pc = "recover", !.cmd = "create"] BY <1>2 DEF CreateSnapshot
    <2>2. job' \in Job /\ job'.pc = "recover" /\ job'.cmd = "create"
        BY <2>1, EmptyTypes DEF Job, JobPc
    <2>3. UNCHANGED <<chain, data, target, completed, flawed, faults, restores>>
          /\ swallowed' \subseteq Swallowed
        BY <1>2 DEF CreateSnapshot
    <2>4. target.app = Nothing BY <1>2 DEF CreateSnapshot
    <2>5. ~completed BY <2>4 DEF TypeInv, Formed, AppCopied
    <2>6. Formed' BY <2>2, <2>3, <2>5 DEF TypeInv, Formed, AppCopied, WellFormed
    <2> QED BY <1>1, <2>2, <2>3, <2>6, TypesFromStep
<1>3. CASE PruneSnapshot
    <2>1. /\ job' \in Job /\ target' \in Directory /\ target'.state = target.state
          /\ target.app \in App => target'.app = target.app
          /\ target.app # Nothing => target'.app # Nothing
          /\ \/ job'.pc = "idle" /\ job'.cmd = "none"
             \/ job'.pc = "prune" /\ job'.cmd = "prune" /\ target'.app \in App
        BY <1>3, PruneSnapshotParts, EmptyTypes, Markers
    <2>2. UNCHANGED <<chain, data, completed, swallowed, flawed, faults, restores>>
        BY <1>3 DEF PruneSnapshot
    <2>3. Formed' BY <2>1, <2>2 DEF TypeInv, Formed, AppCopied, WellFormed
    <2> QED BY <1>1, <2>1, <2>2, <2>3, TypesFromStep
<1>4. CASE DiscardTarget
    <2>1. /\ job = Idle /\ target' = EmptyDirectory /\ completed' = FALSE /\ swallowed' = {}
          /\ UNCHANGED <<chain, data, job, flawed, faults, restores>>
        BY <1>4 DEF DiscardTarget
    <2>2. job'.pc = "idle" /\ job'.cmd = "none" /\ target' \in Directory BY <2>1, EmptyTypes
    <2>3. Formed' BY <2>1, <2>2 DEF TypeInv, Formed, AppCopied, WellFormed
    <2>4. completed' \in BOOLEAN /\ job' \in Job BY <1>1, <2>1
    <2> QED BY <1>1, <2>1, <2>2, <2>3, <2>4, TypesFromStep
<1>5. CASE Restore
    <2>1. /\ job = Idle /\ completed /\ data' = target /\ target' = EmptyDirectory
          /\ completed' = FALSE /\ swallowed' = {} /\ NodeAccepts(target)
          /\ UNCHANGED <<chain, job, faults>>
        BY <1>5 DEF Restore
    <2>2. job'.pc = "idle" /\ job'.cmd = "none" /\ target' \in Directory BY <2>1, EmptyTypes
    <2>3. WellFormed(data.state)' /\ data'.app \in App
        <3>1. target.app \in App BY <1>1, <2>1, DirectoryFields DEF NodeAccepts
        <3> QED BY <2>1, <3>1 DEF TypeInv, Formed, WellFormed
    <2>4. Formed' BY <2>1, <2>2, <2>3 DEF Formed, WellFormed
    <2>5. restores' \in 0 .. MaxRestores BY <1>1, <1>5, Bounds DEF Restore
    <2>6. completed' \in BOOLEAN /\ job' \in Job /\ flawed' \in BOOLEAN
        BY <1>1, <1>5, <2>1 DEF Restore
    <2> QED BY <1>1, <2>1, <2>2, <2>4, <2>5, <2>6, TypesFrom
<1>6. CASE Crash
    <2>1. faults' \in 0 .. MaxFaults BY <1>1, <1>6, Bounds DEF Crash
    <2> QED BY <1>6, <2>1, TypesFromEnd DEF Crash
<1>7. CASE PruneEnd BY <1>1, <1>7, TypesFromEnd DEF PruneEnd
<1>8. ASSUME NEW s \in Store, PruneStep(s) PROVE TypeInv'
    <2>1. UNCHANGED <<chain, data, completed, swallowed, flawed, restores>>
        BY <1>8 DEF PruneStep, pruneStoreRead, DeleteVersionsRange
    <2>2. /\ job' \in Job /\ job'.pc = "prune" /\ job'.cmd = job.cmd
          /\ target' \in Directory /\ target'.app \in App /\ target'.state = target.state
        <3>1. CASE pruneStoreRead(s)
            <4>1. target' = target BY <3>1 DEF pruneStoreRead
            <4>2. job.pc = "prune" /\ job' \in Job /\ job'.pc = job.pc /\ job'.cmd = job.cmd
                BY <3>1, pruneReadParts
            <4> QED BY <1>1, <4>1, <4>2 DEF TypeInv, Formed
        <3>2. CASE DeleteVersionsRange(s) BY <3>2, DeleteParts
        <3> QED BY <1>8, <3>1, <3>2 DEF PruneStep
    <2>3. Formed' BY <2>1, <2>2, Markers DEF TypeInv, Formed, AppCopied, WellFormed
    <2>4. faults' \in 0 .. MaxFaults
        BY <1>1, <1>8, Bounds DEF PruneStep, pruneStoreRead, DeleteVersionsRange
    <2>5. restores' \in 0 .. MaxRestores /\ flawed' \in BOOLEAN /\ swallowed' \subseteq Swallowed
          /\ completed' \in BOOLEAN
        BY <1>1, <2>1
    <2> QED BY <1>1, <2>1, <2>2, <2>3, <2>4, <2>5, TypesFrom
<1> QED BY <1>2, <1>3, <1>4, <1>5, <1>6, <1>7, <1>8

LEMMA TypesStep == TypeInv /\ [Next]_vars => TypeInv'
<1> SUFFICES ASSUME TypeInv, [Next]_vars PROVE TypeInv' OBVIOUS
<1>1. CASE UNCHANGED vars
    BY <1>1 DEF vars, TypeInv, NodeTypeOK, Formed, AppCopied, WellFormed, Chain
<1>2. CASE Next
    BY <1>2, NodeTypes, SaveTypes, CopyTypes, OperatorTypes DEF Next, CommandStep, CopyStep
<1> QED BY <1>1, <1>2

LEMMA TypesHold == Spec => []TypeInv
BY InitTypes, TypesStep, PTL DEF Spec

\* The stores are well formed and the commands' values in range, whatever the
\* chain, the heights and the faults: no step reads a record, a version or a
\* state that is not there.
THEOREM NodeTypesHold == Spec => []NodeTypeOK
<1>1. TypeInv => NodeTypeOK BY DEF TypeInv
<1> QED BY <1>1, TypesHold, PTL

-----------------------------------------------------------------------------
(* A node can start from what is left *)

LEMMA SameStoreHeight ==
    ASSUME NEW d, NEW e, e.blocks = d.blocks
    PROVE  StoreHeight(e) = StoreHeight(d)
BY DEF StoreHeight

LEMMA SaveBlockHeight ==
    ASSUME TypeInv, SaveBlock
    PROVE  StoreHeight(data') = data.state.height + 1
<1> DEFINE h == data.state.height
<1>1. /\ StoreHeight(data) = h /\ h + 1 \in Height
      /\ data'.blocks = data.blocks \cup {h + 1}
    BY SaveBlockParts
<1>2. h \in 0 .. MaxHeight /\ data.blocks \subseteq Height BY TypeFacts
<1>3. \A b \in data'.blocks : b <= h + 1
    <2>1. \A b \in data.blocks : b <= h BY <1>1, <1>2, StoreHeightOf
    <2> QED BY <1>1, <1>2, <2>1, Bounds
<1>4. data'.blocks \subseteq Height /\ h + 1 \in data'.blocks BY <1>1, <1>2
<1> QED BY <1>3, <1>4, StoreHeightIs

LEMMA StartedFrom ==
    ASSUME NEW d, NEW e, e.blocks = d.blocks, e.state.height = d.state.height,
           e.app.latest = d.app.latest, d.abci \subseteq e.abci, Started(d)
    PROVE  Started(e)
<1>1. StoreHeight(e) = StoreHeight(d) BY SameStoreHeight
<1> QED BY <1>1 DEF Started, Startable

LEMMA SnappedSame ==
    ASSUME Snapped, UNCHANGED <<target, completed>>, completed => swallowed' = swallowed,
           job'.pc \notin Copying
    PROVE  Snapped'
BY DEF Snapped, Copying, Copied, BlockCopied, StateCopied, WALCopied

\* A step that writes nothing, before a command has read anything or at its end.
LEMMA StartQuiet ==
    ASSUME StartInv, UNCHANGED <<data, target, completed>>,
           completed => swallowed' = swallowed,
           job'.pc \in {"idle", "node", "recover", "prune"}
    PROVE  StartInv'
<1>1. Started(data)' BY DEF StartInv, Started, Startable
<1>2. Apart' BY DEF Apart, Saving, Copying, Copied
<1>3. Snapped' BY SnappedSame DEF StartInv, Copying, Copied
<1> QED BY <1>1, <1>2, <1>3 DEF StartInv

LEMMA InitStart == Init => StartInv
<1> SUFFICES ASSUME Init PROVE StartInv OBVIOUS
<1>1. /\ data.blocks = {} /\ data.state.height = 0 /\ data.app.latest = 0
    BY DEF Init, GenesisDirectory, EmptyDirectory, EmptyApp
<1>2. Started(data) BY <1>1 DEF Started, Startable, StoreHeight
<1>3. job.pc = "idle" /\ completed = FALSE BY EmptyTypes DEF Init
<1>4. Apart BY <1>3 DEF Apart, Saving, Copying, Copied
<1>5. Snapped BY <1>3 DEF Snapped, Copied
<1> QED BY <1>2, <1>4, <1>5 DEF StartInv

LEMMA NodeStartInv ==
    ASSUME TypeInv, StartInv,
           \/ NodeStart \/ NodeStop \/ SaveBlock \/ WriteEndHeight \/ ExecuteBlock
           \/ CommitTrees \/ FlushMetadata \/ UpdateState
    PROVE  StartInv'
<1> DEFINE h == data.state.height
<1>1. /\ h \in 0 .. MaxHeight /\ StoreHeight(data) \in 0 .. MaxHeight
      /\ data.app.latest \in 0 .. MaxHeight /\ data.blocks \subseteq Height
    BY TypeFacts
<1>2. Started(data) /\ Snapped BY DEF StartInv
<1>3. CASE NodeStart
    <2>1. job'.pc = "node" BY <1>3, EmptyTypes DEF NodeStart, Job
    <2> QED BY <1>3, <2>1, StartQuiet DEF NodeStart
<1>4. CASE NodeStop BY <1>4, EmptyTypes, StartQuiet DEF NodeStop
<1>5. ASSUME NEW p \in Running, job' = [job EXCEPT !.pc = p],
             UNCHANGED <<target, completed, swallowed>>, Started(data)',
             p \in {"trees", "flush"} =>
                /\ StoreHeight(data)' = data'.state.height + 1
                /\ data'.app.latest = data'.state.height /\ StoreHeight(data)' \in data'.abci
      PROVE  StartInv'
    <2>1. job'.pc = p BY <1>5, JobGoesTo DEF Running, JobPc
    <2>2. Apart' BY <1>5, <2>1 DEF Apart, Running, Saving, Copying, Copied
    <2>3. Snapped' BY <1>2, <1>5, <2>1, SnappedSame DEF Running, Copying, Copied
    <2> QED BY <1>5, <2>2, <2>3 DEF StartInv
<1>6. CASE SaveBlock
    <2>1. /\ StoreHeight(data) = h /\ h + 1 \in Height
          /\ data' \in Directory /\ data'.blocks = data.blocks \cup {h + 1}
          /\ data'.state = data.state /\ data'.app = data.app
          /\ job' = [job EXCEPT !.pc = "endHeight"]
        BY <1>6, SaveBlockParts
    <2>3. StoreHeight(data') = h + 1 BY <1>6, SaveBlockHeight
    <2>4. data.app.latest = h BY <1>2, <2>1 DEF Started, Startable
    <2>5. h \in data.blocks \cup {0} BY <1>2 DEF Started
    <2>6. Started(data)' BY <1>1, <2>1, <2>3, <2>4, <2>5 DEF Started, Startable
    <2> QED BY <1>5, <1>6, <2>1, <2>6 DEF SaveBlock, Running
<1>7. CASE WriteEndHeight
    <2>1. Started(data)' BY <1>2, <1>7, WriteEndHeightParts, StartedFrom
    <2> QED BY <1>5, <1>7, <2>1, WriteEndHeightParts DEF WriteEndHeight, Running
<1>8. CASE ExecuteBlock
    <2>1. CASE data' = data /\ job' = Idle BY <1>8, <2>1, EmptyTypes, StartQuiet DEF ExecuteBlock
    <2>2. CASE data' # data \/ job' # Idle
        <3>1. /\ data'.blocks = data.blocks
              /\ data'.state = data.state /\ data'.app = data.app
              /\ data'.abci = data.abci \cup {StoreHeight(data)}
              /\ StoreHeight(data) = h + 1 /\ data.app.latest = h
              /\ job' = [job EXCEPT !.pc = "trees"]
            BY <1>8, <2>2, ExecuteBlockParts
        <3>2. Started(data') BY <1>2, <3>1, StartedFrom
        <3>3. StoreHeight(data') = StoreHeight(data) BY <3>1, SameStoreHeight
        <3> QED BY <1>5, <1>8, <3>1, <3>2, <3>3 DEF ExecuteBlock, Running
    <2> QED BY <2>1, <2>2
<1>9. CASE CommitTrees
    <2>1. /\ data'.blocks = data.blocks /\ data'.state = data.state /\ data'.abci = data.abci
          /\ data'.app.latest = data.app.latest
          /\ job.pc = "trees" /\ job' = [job EXCEPT !.pc = "flush"]
        BY <1>9, CommitTreesParts
    <2>2. Started(data') BY <1>2, <2>1, StartedFrom
    <2>3. StoreHeight(data') = StoreHeight(data) BY <2>1, SameStoreHeight
    <2>4. StoreHeight(data) = h + 1 /\ data.app.latest = h /\ StoreHeight(data) \in data.abci
        BY <2>1 DEF StartInv, Apart
    <2> QED BY <1>5, <1>9, <2>1, <2>2, <2>3, <2>4 DEF CommitTrees, Running
<1>10. CASE FlushMetadata
    <2>1. /\ data'.blocks = data.blocks /\ data'.state = data.state /\ data'.abci = data.abci
          /\ data'.app.latest = StoreHeight(data)
          /\ job.pc = "flush" /\ job' = [job EXCEPT !.pc = "node"]
        BY <1>10, FlushMetadataParts
    <2>2. StoreHeight(data') = StoreHeight(data) BY <2>1, SameStoreHeight
    <2>3. StoreHeight(data) = h + 1 /\ StoreHeight(data) \in data.abci
        BY <2>1 DEF StartInv, Apart
    <2>4. Started(data)' BY <1>2, <2>1, <2>2, <2>3 DEF Started, Startable
    <2> QED BY <1>5, <1>10, <2>1, <2>4 DEF FlushMetadata, Running
<1>11. CASE UpdateState
    <2>1. /\ job.pc = "node" /\ job'.pc = "saveVals" /\ job'.cmd = job.cmd
          /\ job'.state = NextState(data.state)
          /\ StoreHeight(data) = h + 1 /\ data.app.latest = StoreHeight(data)
        BY <1>11, UpdateStateParts
    <2>2. UNCHANGED <<chain, data, target, completed, swallowed>> BY <1>11 DEF UpdateState
    <2>3. job.cmd = "node" BY <2>1 DEF TypeInv, Formed, Running
    <2>4. Started(data)' BY <1>2, <2>2 DEF Started, Startable
    <2>5. job'.state = NextState(data.state)' BY <2>1, <2>2 DEF NextState
    <2>6. StoreHeight(data)' = StoreHeight(data) BY <2>2
    <2>7. Apart' BY <2>1, <2>2, <2>3, <2>5, <2>6 DEF Apart, Saving, Copying, Copied
    <2>8. Snapped' BY <1>2, <2>1, <2>2, SnappedSame DEF Copying, Copied
    <2> QED BY <2>4, <2>7, <2>8 DEF StartInv
<1> QED BY <1>3, <1>4, <1>6, <1>7, <1>8, <1>9, <1>10, <1>11

LEMMA SaveStartInv ==
    ASSUME TypeInv, StartInv,
           SaveVals \/ SaveParams \/ SaveState \/ Recover \/ rollBackApplication
    PROVE  StartInv'
<1> DEFINE h == data.state.height
<1>1. /\ h \in 0 .. MaxHeight /\ StoreHeight(data) \in 0 .. MaxHeight
      /\ data.app.latest \in 0 .. MaxHeight /\ data.blocks \subseteq Height
    BY TypeFacts
<1>2. Started(data) /\ Snapped /\ Apart BY DEF StartInv
<1>3. ASSUME NEW p \in Saving, job.pc \in Saving, job' = [job EXCEPT !.pc = p],
             UNCHANGED <<chain, target, completed, swallowed>>,
             data'.blocks = data.blocks, data'.state = data.state,
             data'.abci = data.abci, data'.app = data.app
      PROVE  StartInv'
    <2>1. /\ job'.pc = p /\ job'.cmd = job.cmd /\ job'.state = job.state
          /\ job'.height = job.height
        BY <1>3, JobGoesTo DEF Saving, JobPc
    <2>2. Started(data)' BY <1>2, <1>3, StartedFrom
    <2>3. StoreHeight(data') = StoreHeight(data) BY <1>3, SameStoreHeight
    <2>4. NextState(data.state)' = NextState(data.state) BY <1>3 DEF NextState
    <2>5. RolledBack(job.state, data.state)' = RolledBack(job.state, data.state)
        BY <1>3, <2>1 DEF RolledBack
    <2>6. p \notin {"trees", "flush", "rollApp"} /\ p \notin Copying
        BY <1>3 DEF Saving, Copying, Copied
    <2>7. Apart' BY <1>2, <1>3, <2>1, <2>3, <2>4, <2>5, <2>6 DEF Apart
    <2>8. Snapped' BY <1>2, <1>3, <2>1, <2>6, SnappedSame
    <2> QED BY <2>2, <2>7, <2>8 DEF StartInv
<1>4. CASE SaveVals BY <1>3, <1>4, SaveValsParts DEF SaveVals, Saving
<1>5. CASE SaveParams BY <1>3, <1>5, SaveParamsParts DEF SaveParams, Saving
<1>6. CASE SaveState
    <2>1. /\ data'.blocks = data.blocks /\ data'.state = job.state
          /\ data'.abci = data.abci /\ data'.app = data.app
          /\ job.pc = "saveState" /\ job'.cmd = job.cmd /\ job'.height = job.height
          /\ job'.pc = (IF job.cmd = "node" THEN "node" ELSE "rollApp")
        BY <1>6, SaveStateParts
    <2>2. UNCHANGED <<chain, target, completed, swallowed>> BY <1>6 DEF SaveState
    <2>3. StoreHeight(data') = StoreHeight(data) BY <2>1, SameStoreHeight
    <2>4. job.cmd \in {"node", "create"} BY <2>1 DEF TypeInv, Formed, Saving
    <2>5. Snapped' BY <1>2, <2>1, <2>2, SnappedSame DEF Copying, Copied
    <2>6. CASE job.cmd = "node"
        <3>1. StoreHeight(data) = h + 1 /\ data.app.latest = h + 1 /\ job.state = NextState(data.state)
            BY <1>2, <2>1, <2>6 DEF Apart, Saving
        <3>2. job.state.height = h + 1 BY <3>1 DEF NextState
        <3>3. h + 1 \in data.blocks BY <1>1, <3>1, StoreHeightOf
        <3>4. h + 1 \in data.abci BY <1>1, <1>2, <3>1 DEF Started
        <3>5. Started(data)' BY <1>1, <2>1, <2>3, <3>1, <3>2, <3>3, <3>4 DEF Started, Startable
        <3>6. Apart' BY <2>1, <2>6 DEF Apart, Saving, Copying, Copied
        <3> QED BY <2>5, <3>5, <3>6 DEF StartInv
    <2>7. CASE job.cmd = "create"
        <3>1. /\ StoreHeight(data) = h /\ data.app.latest = h /\ job.height = h - 1
              /\ job.height \in data.blocks /\ RolledBack(job.state, data.state)
            BY <1>2, <2>1, <2>7 DEF Apart, Saving
        <3>2. job.state.height = h - 1 BY <3>1 DEF RolledBack
        <3>3. h > 0 BY <1>1, <3>1, Bounds
        <3>4. h \in data.abci BY <1>1, <1>2, <3>1, <3>3 DEF Started
        <3>5. Started(data)'
            BY <1>1, <2>1, <2>3, <3>1, <3>2, <3>3, <3>4 DEF Started, Startable
        <3>6. Apart' BY <1>1, <2>1, <2>3, <2>7, <3>1, <3>2, <3>3 DEF Apart, Saving, Copying, Copied
        <3> QED BY <2>5, <3>5, <3>6 DEF StartInv
    <2> QED BY <2>4, <2>6, <2>7
<1>7. CASE Recover
    <2>1. job.pc = "recover" /\ job.cmd = "create" /\ ~completed
        BY <1>7, RecoverParts, CreatingNotCompleted DEF Creating
    <2>2. UNCHANGED <<chain, data>> BY <1>7 DEF Recover
    <2>3. Started(data)' BY <1>2, <2>2 DEF Started, Startable
    <2>4. StoreHeight(data)' = StoreHeight(data) BY <2>2
    <2>5. CASE /\ StoreHeight(data) = h + 1 /\ job'.pc = "rollApp" /\ job'.height = h
               /\ UNCHANGED <<target, completed>>
        <3>1. Apart' BY <2>2, <2>4, <2>5 DEF Apart, Saving, Copying, Copied
        <3>2. Snapped' BY <1>2, <2>1, <2>5, SnappedSame DEF Copying, Copied
        <3> QED BY <2>3, <3>1, <3>2 DEF StartInv
    <2>6. CASE /\ CanRollBack /\ job'.pc = "saveVals" /\ job'.cmd = job.cmd
               /\ job'.state = RolledBackState /\ job'.height = RolledBackState.height
               /\ UNCHANGED <<target, completed>>
        <3>1. /\ RolledBackState.height \in data.blocks /\ RolledBackState.height = h - 1
              /\ RolledBack(RolledBackState, data.state)
            BY <2>6, TypeFacts, RolledBackType DEF TypeInv, Formed
        <3>2. StoreHeight(data) = h BY <2>6 DEF CanRollBack
        <3>3. data.app.latest = h BY <1>2, <3>2 DEF Started, Startable
        <3>4. RolledBack(job.state, data.state)' BY <2>2, <2>6, <3>1 DEF RolledBack
        <3>5. Apart' BY <2>1, <2>2, <2>4, <2>6, <3>1, <3>2, <3>3, <3>4 DEF Apart, Saving, Copying, Copied
        <3>6. Snapped' BY <1>2, <2>1, <2>6, SnappedSame DEF Copying, Copied
        <3> QED BY <2>3, <3>5, <3>6 DEF StartInv
    <2>7. CASE job' = Idle /\ target' = EmptyDirectory /\ completed' = FALSE
        <3>1. job'.pc = "idle" BY <2>7, EmptyTypes
        <3>2. Apart' BY <3>1 DEF Apart, Saving, Copying, Copied
        <3>3. Snapped' BY <2>7, <3>1 DEF Snapped, Copied
        <3> QED BY <2>3, <3>2, <3>3 DEF StartInv
    <2> QED BY <1>7, <2>5, <2>6, <2>7, RecoverParts
<1>8. CASE rollBackApplication
    <2>1. /\ data'.blocks = data.blocks /\ data'.state = data.state /\ data'.abci = data.abci
          /\ data'.app.latest = job.height \/ (data' = data /\ "rollApp" \in swallowed')
          /\ job.pc = "rollApp" /\ job' = [job EXCEPT !.pc = "block"]
        BY <1>8, rollBackParts
    <2>2. UNCHANGED <<target, completed>> BY <1>8 DEF rollBackApplication
    <2>3. StoreHeight(data') = StoreHeight(data) BY <2>1, SameStoreHeight
    <2>4. StoreHeight(data) = h + 1 /\ job.height = h BY <1>2, <2>1 DEF Apart
    <2>5. Started(data)'
        <3>1. CASE data' = data BY <1>2, <3>1 DEF Started, Startable
        <3>2. CASE data'.app.latest = job.height
            BY <1>1, <1>2, <2>1, <2>3, <2>4, <3>2 DEF Started, Startable
        <3> QED BY <2>1, <3>1, <3>2
    <2>6. job'.pc = "block" /\ job'.height = job.height BY <2>1, JobGoesTo DEF JobPc
    <2>7. Apart' BY <2>1, <2>3, <2>4, <2>6 DEF Apart, Saving, Copying, Copied
    <2>8. Snapped'
        <3>1. ~completed BY <2>1, CreatingNotCompleted DEF Creating
        <3> QED BY <1>2, <2>2, <2>6, <3>1 DEF Snapped, Copied
    <2> QED BY <2>5, <2>7, <2>8 DEF StartInv
<1> QED BY <1>4, <1>5, <1>6, <1>7, <1>8

LEMMA CopyStartInv ==
    ASSUME TypeInv, StartInv, CopyStep
    PROVE  StartInv'
<1> DEFINE r == job.height
<1>1. /\ job.pc \in Copying /\ UNCHANGED <<chain, data>>
    BY DEF CopyStep, snapshotBlock, snapshotState, snapshotCsWAL, createPrivValidatorState,
           copyAppDBBegin, copyAppDBEnd, copyEvidenceDB, copyUpgradeInfo, Copying, Copied
<1>2. ~completed BY <1>1, CreatingNotCompleted DEF Creating
<1>3. Started(data) /\ Snapped /\ Apart BY DEF StartInv
<1>4. Started(data)' BY <1>1, <1>3 DEF Started, Startable
<1>5. /\ StoreHeight(data) = data.state.height + 1 /\ r = data.state.height
      /\ data.app.latest = r \/ "rollApp" \in swallowed
      /\ data.app.latest \in {r, r + 1}
    BY <1>1, <1>3 DEF Apart, Started, Startable
<1>6. target.blocks \subseteq Height /\ r \in 0 .. MaxHeight /\ data.blocks \subseteq Height
    BY TypeFacts
<1>7. ASSUME job' = Idle, Snapped' PROVE StartInv'
    <2>1. job'.pc = "idle" BY <1>7, EmptyTypes
    <2>2. Apart' BY <2>1 DEF Apart, Saving, Copying, Copied
    <2> QED BY <1>4, <1>7, <2>2 DEF StartInv
<1>8. ASSUME NEW p \in Copying, job' = [job EXCEPT !.pc = p]
      PROVE  job'.pc = p /\ job'.height = r
    BY <1>8, JobGoesTo DEF JobPc, Copying, Copied
<1>9. ASSUME NEW p \in Copying, job' = [job EXCEPT !.pc = p], Snapped' PROVE StartInv'
    <2>1. job'.pc = p /\ job'.height = r BY <1>8, <1>9
    <2>2. p \notin {"trees", "flush", "rollApp"} /\ p \notin Saving
        BY <1>9 DEF Saving, Copying, Copied
    <2>3. StoreHeight(data)' = StoreHeight(data) BY <1>1
    <2>4. data'.app.latest = r \/ "rollApp" \in swallowed' BY <1>1, <1>5, CopySwallows
    <2>5. Apart' BY <1>1, <1>5, <2>1, <2>2, <2>3, <2>4 DEF Apart
    <2> QED BY <1>4, <1>9, <2>5 DEF StartInv
<1>10. CASE snapshotBlock
    <2>1. target' \in Directory /\ completed' = completed
        BY <1>10, snapshotBlockParts DEF snapshotBlock
    <2>2. CASE job' = Idle /\ target'.blocks = target.blocks
        <3>1. job'.pc = "idle" BY <2>2, EmptyTypes
        <3>2. Snapped' BY <1>2, <1>3, <2>1, <2>2, <3>1 DEF Snapped, Copied
        <3> QED BY <1>7, <2>2, <3>2
    <2>3. CASE /\ r \in data.blocks
               /\ target.blocks = {} \/ r = StoreHeight(target) + 1
               /\ target'.blocks = target.blocks \cup {r}
               /\ job' = [job EXCEPT !.pc = "state"]
        <3>1. job'.pc = "state" /\ job'.height = r BY <1>8, <2>3 DEF Copying
        <3>2. \A b \in target.blocks : b <= r
            <4>1. /\ \A b \in target.blocks : b \in Int /\ b <= StoreHeight(target)
                  /\ StoreHeight(target) \in Int
                BY <1>6, StoreHeightOf, Bounds
            <4> QED BY <1>6, <2>3, <4>1
        <3>3. StoreHeight(target') = r
            <4>1. target'.blocks \subseteq Height /\ r \in target'.blocks BY <1>6, <2>3
            <4>2. \A b \in target'.blocks : b <= r BY <1>6, <2>3, <3>2
            <4> QED BY <4>1, <4>2, StoreHeightIs
        <3>4. BlockCopied(job.height)' BY <2>3, <3>1, <3>3 DEF BlockCopied
        <3>5. Snapped' BY <1>2, <2>1, <3>1, <3>4 DEF Snapped, Copied
        <3> QED BY <1>9, <2>3, <3>5 DEF Copying
    <2> QED BY <1>10, <2>2, <2>3, snapshotBlockParts
<1>11. CASE snapshotState
    <2>1. job.pc = "state" /\ target'.blocks = target.blocks /\ completed' = completed
        BY <1>11, snapshotStateParts DEF snapshotState
    <2>2. CASE job' = Idle
        <3>1. job'.pc = "idle" BY <2>2, EmptyTypes
        <3>2. Snapped' BY <1>2, <1>3, <2>1, <2>2, <3>1 DEF Snapped, Copied
        <3> QED BY <1>7, <2>2, <3>2
    <2>3. CASE /\ job' = [job EXCEPT !.pc = "wal"] /\ target'.state = data.state
               /\ target'.abci = target.abci \cup {r}
        <3>1. job'.pc = "wal" /\ job'.height = r BY <1>8, <2>3 DEF Copying, Copied
        <3>2. BlockCopied(r) BY <1>3, <2>1 DEF Snapped
        <3>3. StoreHeight(target') = StoreHeight(target) BY <2>1, SameStoreHeight
        <3>4. StateCopied(job.height)'
            BY <1>5, <2>1, <2>3, <3>1, <3>2, <3>3 DEF StateCopied, BlockCopied
        <3>5. Snapped' BY <1>1, <1>2, <1>3, <2>1, <2>3, <3>1, <3>4 DEF Snapped, Copied
        <3> QED BY <1>9, <2>3, <3>5 DEF Copying, Copied
    <2> QED BY <1>11, <2>2, <2>3, snapshotStateParts
<1>12. ASSUME job.pc \in Copied, target'.blocks = target.blocks, target'.state = target.state,
              target'.abci = target.abci, job'.height = r
       PROVE  StateCopied(job.height)' /\ target'.state = data'.state
    <2>1. StateCopied(r) /\ target.state = data.state BY <1>3, <1>12 DEF Snapped
    <2>2. StoreHeight(target') = StoreHeight(target) BY <1>12, SameStoreHeight
    <2> QED BY <1>1, <1>12, <2>1, <2>2 DEF StateCopied, BlockCopied
<1>13. CASE snapshotCsWAL
    <2>1. /\ job.pc = "wal" /\ target'.blocks = target.blocks
          /\ r \in target'.wal \/ "wal" \in swallowed'
          /\ target'.state = target.state /\ target'.abci = target.abci
          /\ job' = [job EXCEPT !.pc = "priv"] /\ completed' = completed
        BY <1>13, snapshotCsWALParts DEF snapshotCsWAL
    <2>2. job'.pc = "priv" /\ job'.height = r BY <1>8, <2>1 DEF Copying, Copied
    <2>3. StateCopied(job.height)' /\ target'.state = data'.state
        BY <1>12, <2>1, <2>2 DEF Copied
    <2>4. WALCopied(job.height)' BY <2>1, <2>2 DEF WALCopied
    <2>5. Snapped' BY <1>2, <2>1, <2>2, <2>3, <2>4 DEF Snapped, Copied
    <2> QED BY <1>9, <2>1, <2>5 DEF Copying, Copied
<1>14. ASSUME job.pc \in Copied \ {"wal"}, target'.wal = target.wal, job'.height = r
       PROVE  WALCopied(job.height)'
    <2>1. WALCopied(r) BY <1>3, <1>14 DEF Snapped
    <2> QED BY <1>14, <2>1, CopySwallows DEF WALCopied
<1>15. CASE createPrivValidatorState
    <2>1. /\ job.pc = "priv" /\ target'.blocks = target.blocks /\ target'.wal = target.wal
          /\ target'.state = target.state /\ target'.abci = target.abci /\ target'.priv = r
          /\ job' = [job EXCEPT !.pc = "app"] /\ completed' = completed
        BY <1>15, createPrivParts DEF createPrivValidatorState
    <2>2. job'.pc = "app" /\ job'.height = r BY <1>8, <2>1 DEF Copying, Copied
    <2>3. StateCopied(job.height)' /\ target'.state = data'.state
        BY <1>12, <2>1, <2>2 DEF Copied
    <2>4. WALCopied(job.height)' BY <1>14, <2>1, <2>2 DEF Copied
    <2>5. Snapped' BY <1>2, <2>1, <2>2, <2>3, <2>4 DEF Snapped, Copied
    <2> QED BY <1>9, <2>1, <2>5 DEF Copying, Copied
<1>16. CASE copyAppDBBegin \/ copyAppDBEnd
    <2>1. /\ target'.blocks = target.blocks /\ target'.wal = target.wal
          /\ target'.state = target.state /\ target'.abci = target.abci
          /\ target'.priv = target.priv /\ completed' = completed
        BY <1>16, copyAppParts DEF copyAppDBBegin, copyAppDBEnd
    <2>2. PICK p \in {"appEnd", "evidence"} :
            /\ job.pc \in {"app", "appEnd"} /\ job' = [job EXCEPT !.pc = p]
            /\ p = "evidence" => target'.app = data.app \/ "copy" \in swallowed'
        BY <1>16, copyAppParts
    <2>3. job'.pc = p /\ job'.height = r BY <1>8, <2>2 DEF Copying, Copied
    <2>4. StateCopied(job.height)' /\ target'.state = data'.state
        BY <1>12, <2>1, <2>2, <2>3 DEF Copied
    <2>5. WALCopied(job.height)' BY <1>14, <2>1, <2>2, <2>3 DEF Copied
    <2>6. target.priv = r BY <1>3, <2>2 DEF Snapped
    <2>7. Snapped' BY <1>1, <1>2, <2>1, <2>2, <2>3, <2>4, <2>5, <2>6 DEF Snapped, Copied
    <2> QED BY <1>9, <2>2, <2>7 DEF Copying, Copied
<1>17. CASE copyEvidenceDB \/ copyUpgradeInfo
    <2>1. /\ target'.blocks = target.blocks /\ target'.wal = target.wal
          /\ target'.state = target.state /\ target'.abci = target.abci
          /\ target'.priv = target.priv /\ target'.app = target.app
        BY <1>17, copyFilesParts
    <2>2. job.pc \in {"evidence", "upgrade"} /\ swallowed' = swallowed
        BY <1>17 DEF copyEvidenceDB, copyUpgradeInfo
    <2>3. target.priv = r /\ ("copy" \notin swallowed => target.app = data.app)
        BY <1>3, <2>2 DEF Snapped
    <2>4. CASE copyEvidenceDB
        <3>1. job' = [job EXCEPT !.pc = "upgrade"] /\ completed' = completed
            BY <2>4 DEF copyEvidenceDB
        <3>2. job'.pc = "upgrade" /\ job'.height = r BY <1>8, <3>1 DEF Copying, Copied
        <3>3. StateCopied(job.height)' /\ target'.state = data'.state
            BY <1>12, <2>1, <2>2, <3>2 DEF Copied
        <3>4. WALCopied(job.height)' BY <1>14, <2>1, <2>2, <3>2 DEF Copied
        <3>5. Snapped'
            BY <1>1, <1>2, <2>1, <2>2, <2>3, <3>1, <3>2, <3>3, <3>4 DEF Snapped, Copied
        <3> QED BY <1>9, <3>1, <3>5 DEF Copying, Copied
    <2>5. CASE copyUpgradeInfo
        <3>1. job' = Idle BY <2>5 DEF copyUpgradeInfo
        <3>2. job'.pc = "idle" BY <3>1, EmptyTypes
        <3>3. StateCopied(r) /\ WALCopied(r) BY <1>3, <2>2 DEF Snapped, Copied
        <3>4. target'.state.height = r BY <2>1, <3>3 DEF StateCopied
        <3>5. StoreHeight(target') = StoreHeight(target) BY <2>1, SameStoreHeight
        <3>6. StateCopied(target.state.height)'
            BY <2>1, <3>3, <3>4, <3>5 DEF StateCopied, BlockCopied
        <3>7. WALCopied(target.state.height)' BY <2>1, <2>2, <3>3, <3>4 DEF WALCopied
        <3>8. target'.priv = r BY <2>1, <2>3
        <3>9. "copy" \notin swallowed' =>
                 /\ target'.app.latest \in {r, r + 1}
                 /\ target'.app.latest = r \/ "rollApp" \in swallowed'
            BY <1>5, <2>1, <2>2, <2>3
        <3>10. Snapped' BY <3>2, <3>4, <3>6, <3>7, <3>8, <3>9 DEF Snapped, Copied
        <3> QED BY <1>7, <3>1, <3>10
    <2> QED BY <1>17, <2>4, <2>5
<1> QED BY <1>10, <1>11, <1>13, <1>15, <1>16, <1>17 DEF CopyStep

LEMMA OperatorStartInv ==
    ASSUME TypeInv, StartInv,
           \/ CreateSnapshot \/ PruneSnapshot \/ DiscardTarget \/ Restore \/ Crash \/ PruneEnd
           \/ \E s \in Store : PruneStep(s)
    PROVE  StartInv'
<1>1. Started(data) /\ Snapped /\ Apart BY DEF StartInv
<1>2. CASE CreateSnapshot
    <2>1. job'.pc = "recover" BY <1>2, EmptyTypes DEF CreateSnapshot, Job
    <2>2. ~completed BY <1>2 DEF CreateSnapshot, TypeInv, Formed, AppCopied
    <2> QED BY <1>2, <2>1, <2>2, StartQuiet DEF CreateSnapshot
<1>3. CASE Crash BY <1>3, EmptyTypes, StartQuiet DEF Crash
<1>4. CASE PruneEnd BY <1>4, EmptyTypes, StartQuiet DEF PruneEnd
<1>5. ASSUME data' = data, completed' = FALSE, job'.pc = "idle"
      PROVE  StartInv'
    <2>1. Started(data)' BY <1>1, <1>5 DEF Started, Startable
    <2>2. Apart' BY <1>5 DEF Apart, Saving, Copying, Copied
    <2>3. Snapped' BY <1>5 DEF Snapped, Copied
    <2> QED BY <2>1, <2>2, <2>3 DEF StartInv
<1>6. CASE DiscardTarget
    BY <1>5, <1>6, EmptyTypes DEF DiscardTarget
<1>7. CASE Restore
    <2>1. /\ job = Idle /\ completed /\ data' = target /\ completed' = FALSE /\ job' = job
          /\ Startable(target)
        BY <1>7 DEF Restore, NodeAccepts
    <2>2. job'.pc = "idle" BY <2>1, EmptyTypes
    <2>3. StateCopied(target.state.height) BY <1>1, <2>1 DEF Snapped
    <2>4. Started(data)' BY <2>1, <2>3 DEF Started, Startable, StateCopied, BlockCopied
    <2>5. Apart' BY <2>2 DEF Apart, Saving, Copying, Copied
    <2>6. Snapped' BY <2>1, <2>2 DEF Snapped, Copied
    <2> QED BY <2>4, <2>5, <2>6 DEF StartInv
<1>8. ASSUME data' = data, UNCHANGED <<completed, swallowed>>, job'.pc \in {"idle", "prune"},
             target'.blocks = target.blocks, target'.wal = target.wal,
             target'.state = target.state, target'.abci = target.abci,
             target'.priv = target.priv,
             completed /\ "copy" \notin swallowed => target'.app.latest = target.app.latest
      PROVE  StartInv'
    <2>1. Started(data)' BY <1>1, <1>8 DEF Started, Startable
    <2>2. Apart' BY <1>8 DEF Apart, Saving, Copying, Copied
    <2>3. StoreHeight(target') = StoreHeight(target) BY <1>8, SameStoreHeight
    <2>4. Snapped'
        BY <1>1, <1>8, <2>3 DEF Snapped, Copied, StateCopied, BlockCopied, WALCopied
    <2> QED BY <2>1, <2>2, <2>4 DEF StartInv
<1>9. CASE PruneSnapshot
    <2>1. completed /\ "copy" \notin swallowed => target.app \in App
        BY DEF TypeInv, Formed, AppCopied
    <2>2. job'.pc \in {"idle", "prune"} BY <1>9, PruneSnapshotParts, EmptyTypes
    <2>3. data' = data /\ UNCHANGED <<completed, swallowed>> BY <1>9 DEF PruneSnapshot
    <2>4. target.app \in App => target'.app = target.app BY <1>9, PruneSnapshotParts
    <2> QED BY <1>8, <1>9, <2>1, <2>2, <2>3, <2>4, PruneSnapshotParts
<1>10. ASSUME NEW s \in Store, pruneStoreRead(s) PROVE StartInv'
    BY <1>10, pruneReadParts, StartQuiet DEF pruneStoreRead
<1>11. ASSUME NEW s \in Store, DeleteVersionsRange(s) PROVE StartInv'
    BY <1>8, <1>11, DeleteParts DEF DeleteVersionsRange
<1> QED BY <1>2, <1>3, <1>4, <1>6, <1>7, <1>9, <1>10, <1>11 DEF PruneStep

LEMMA StartStep == TypeInv /\ StartInv /\ [Next]_vars => StartInv'
<1> SUFFICES ASSUME TypeInv, StartInv, [Next]_vars PROVE StartInv' OBVIOUS
<1>1. CASE UNCHANGED vars
    BY <1>1 DEF vars, StartInv, Started, Startable, Apart, RolledBack, NextState, Snapped,
                StateCopied, BlockCopied, WALCopied
<1>2. CASE Next
    BY <1>2, NodeStartInv, SaveStartInv, CopyStartInv, OperatorStartInv
    DEF Next, CommandStep, CopyStep
<1> QED BY <1>1, <1>2

LEMMA StartHolds == Spec => []StartInv
<1>1. StartInv /\ TypeInv /\ [Next]_vars => StartInv' BY StartStep
<1> QED BY <1>1, InitStart, TypesHold, PTL DEF Spec

\* A node can start from what any command, block, crash or failed write leaves, for
\* every chain and every number of them: no order of the writes of a block, of
\* ss.Save and of rollBackApplication takes the block store, the state and the
\* application further apart than the handshake accepts.
THEOREM NodeAlwaysStarts == Spec => []NodeCanStart
<1>1. StartInv => NodeCanStart BY DEF StartInv, Started, NodeCanStart
<1> QED BY <1>1, StartHolds, PTL

-----------------------------------------------------------------------------
(* Which step may change what *)

DataFrame ==
    /\ data'.blocks = data.blocks \/ SaveBlock \/ Restore
    /\ data'.state = data.state \/ SaveState \/ Restore
    /\ data'.valInfo = data.valInfo \/ SaveVals \/ Restore
    /\ data'.paramsInfo = data.paramsInfo \/ SaveParams \/ Restore
    /\ data'.app = data.app \/ CommitTrees \/ FlushMetadata \/ rollBackApplication \/ Restore
    /\ restores' = restores \/ Restore
    /\ flawed' = flawed \/ Restore
    /\ flawed => flawed'
TargetFrame ==
    /\ completed' => \/ copyUpgradeInfo
                     \/ /\ completed /\ swallowed' = swallowed
                        /\ target'.blocks = target.blocks
                        /\ target'.state = target.state /\ target'.valInfo = target.valInfo
    /\ target'.app \in App => \/ target'.app = target.app \/ target'.app = EmptyApp
                              \/ copyAppDBEnd \/ \E s \in Store : DeleteVersionsRange(s)
JobFrame ==
    /\ job'.pc = "flush" => CommitTrees
    /\ job'.pc \in Saving => UpdateState \/ Recover \/ SaveVals \/ SaveParams
    /\ job'.pc = "state" => snapshotBlock
    /\ job'.pc \in Copied => \/ snapshotState
                             \/ /\ job.pc \in Copied /\ data' = data
                                /\ swallowed \subseteq swallowed'
                                /\ target'.state = target.state /\ target'.valInfo = target.valInfo
Frame == chain' = chain /\ DataFrame /\ TargetFrame /\ JobFrame

LEMMA NodeFrame ==
    ASSUME TypeInv,
           \/ NodeStart \/ NodeStop \/ SaveBlock \/ WriteEndHeight \/ ExecuteBlock
           \/ CommitTrees \/ FlushMetadata \/ UpdateState
    PROVE  Frame
<1>1. UNCHANGED <<chain, target, completed, swallowed, flawed, restores>>
    BY DEF NodeStart, NodeStop, SaveBlock, WriteEndHeight, ExecuteBlock, CommitTrees,
           FlushMetadata, UpdateState
<1>2. TargetFrame BY <1>1 DEF TargetFrame
<1>3. DataFrame
    <2>1. CASE data' = data BY <1>1, <2>1 DEF DataFrame
    <2>2. CASE SaveBlock BY <1>1, <2>2, SaveBlockParts DEF DataFrame
    <2>3. CASE WriteEndHeight BY <1>1, <2>3, WriteEndHeightParts DEF DataFrame
    <2>4. CASE ExecuteBlock /\ data' # data BY <1>1, <2>4, ExecuteBlockParts DEF DataFrame
    <2>5. CASE CommitTrees BY <1>1, <2>5, CommitTreesParts DEF DataFrame
    <2>6. CASE FlushMetadata BY <1>1, <2>6, FlushMetadataParts DEF DataFrame
    <2> QED BY <2>1, <2>2, <2>3, <2>4, <2>5, <2>6 DEF NodeStart, NodeStop, UpdateState
<1>4. JobFrame
    <2>1. CASE NodeStart
        <3>1. job'.pc = "node" BY <2>1, EmptyTypes DEF NodeStart, Job
        <3> QED BY <3>1 DEF JobFrame, Saving, Copied
    <2>2. CASE CommitTrees
        <3>1. job'.pc = "flush" BY <2>2, CommitTreesParts, JobGoesTo DEF JobPc
        <3> QED BY <2>2, <3>1 DEF JobFrame, Saving, Copied
    <2>3. CASE UpdateState
        <3>1. job'.pc = "saveVals" BY <2>3, UpdateStateParts
        <3> QED BY <2>3, <3>1 DEF JobFrame, Saving, Copied
    <2>4. ASSUME NEW p \in {"node", "endHeight", "trees"}, job' = [job EXCEPT !.pc = p]
          PROVE  JobFrame
        <3>1. job'.pc = p BY <2>4, JobGoesTo DEF JobPc
        <3> QED BY <2>4, <3>1 DEF JobFrame, Saving, Copied
    <2>5. CASE job' = Idle
        <3>1. job'.pc = "idle" BY <2>5, EmptyTypes
        <3> QED BY <3>1 DEF JobFrame, Saving, Copied
    <2> QED BY <2>1, <2>2, <2>3, <2>4, <2>5
        DEF NodeStop, SaveBlock, WriteEndHeight, ExecuteBlock, FlushMetadata
<1> QED BY <1>1, <1>2, <1>3, <1>4 DEF Frame

LEMMA SaveFrame ==
    ASSUME TypeInv, SaveVals \/ SaveParams \/ SaveState \/ Recover \/ rollBackApplication
    PROVE  Frame
<1>1. UNCHANGED <<chain, restores, flawed>>
    BY DEF SaveVals, SaveParams, SaveState, Recover, rollBackApplication
<1>2. TargetFrame
    <2>1. CASE Recover
        <3>1. \/ UNCHANGED <<target, completed, swallowed>>
              \/ completed' = FALSE /\ target'.app = Nothing
            BY <2>1, EmptyTypes DEF Recover
        <3> QED BY <3>1, Markers DEF TargetFrame
    <2>2. CASE UNCHANGED <<target, completed, swallowed>> BY <2>2 DEF TargetFrame
    <2>3. CASE rollBackApplication
        <3>1. ~completed BY <2>3, CreatingNotCompleted DEF rollBackApplication, Creating
        <3> QED BY <2>3, <3>1 DEF rollBackApplication, TargetFrame
    <2> QED BY <2>1, <2>2, <2>3 DEF SaveVals, SaveParams, SaveState
<1>3. DataFrame
    <2>1. CASE data' = data BY <1>1, <2>1 DEF DataFrame
    <2>2. CASE SaveVals BY <1>1, <2>2, SaveValsParts DEF DataFrame
    <2>3. CASE SaveParams BY <1>1, <2>3, SaveParamsParts DEF DataFrame
    <2>4. CASE SaveState BY <1>1, <2>4, SaveStateParts DEF DataFrame
    <2>5. CASE rollBackApplication BY <1>1, <2>5, rollBackParts DEF DataFrame
    <2> QED BY <2>1, <2>2, <2>3, <2>4, <2>5 DEF Recover
<1>4. JobFrame
    <2>1. CASE SaveVals
        <3>1. job'.pc = "saveParams" BY <2>1, SaveValsParts, JobGoesTo DEF JobPc
        <3> QED BY <2>1, <3>1 DEF JobFrame, Copied
    <2>2. CASE SaveParams
        <3>1. job'.pc = "saveState" BY <2>2, SaveParamsParts, JobGoesTo DEF JobPc
        <3> QED BY <2>2, <3>1 DEF JobFrame, Copied
    <2>3. CASE SaveState
        <3>1. job'.pc \in {"node", "rollApp"} BY <2>3, SaveStateParts
        <3> QED BY <3>1 DEF JobFrame, Saving, Copied
    <2>4. CASE Recover
        <3>1. job'.pc \in {"rollApp", "saveVals", "idle"} BY <2>4, RecoverParts, EmptyTypes
        <3> QED BY <2>4, <3>1 DEF JobFrame, Saving, Copied
    <2>5. CASE rollBackApplication
        <3>1. job'.pc = "block" BY <2>5, rollBackParts, JobGoesTo DEF JobPc
        <3> QED BY <3>1 DEF JobFrame, Saving, Copied
    <2> QED BY <2>1, <2>2, <2>3, <2>4, <2>5
<1> QED BY <1>1, <1>2, <1>3, <1>4 DEF Frame

LEMMA CopyFrame ==
    ASSUME TypeInv, CopyStep
    PROVE  Frame
<1>1. job.pc \in Copying /\ UNCHANGED <<chain, data, restores, flawed>>
    BY DEF CopyStep, snapshotBlock, snapshotState, snapshotCsWAL, createPrivValidatorState,
           copyAppDBBegin, copyAppDBEnd, copyEvidenceDB, copyUpgradeInfo, Copying, Copied
<1>2. DataFrame BY <1>1 DEF DataFrame
<1>3. ~completed BY <1>1, CreatingNotCompleted DEF Creating
<1>4. TargetFrame
    <2>1. completed' => copyUpgradeInfo
        BY <1>3
        DEF CopyStep, snapshotBlock, snapshotState, snapshotCsWAL, createPrivValidatorState,
            copyAppDBBegin, copyAppDBEnd, copyEvidenceDB
    <2>2. CASE copyAppDBBegin
        <3>1. job.pc = "app" BY <2>2 DEF copyAppDBBegin
        <3>2. target'.app = Torn BY <2>2, <3>1, copyAppParts
        <3> QED BY <2>1, <3>2, Markers DEF TargetFrame
    <2>3. CASE copyAppDBEnd BY <2>1, <2>3 DEF TargetFrame
    <2>4. CASE target'.app = target.app BY <2>1, <2>4 DEF TargetFrame
    <2> QED BY <2>2, <2>3, <2>4, snapshotBlockParts, snapshotStateParts, snapshotCsWALParts,
               createPrivParts, copyFilesParts DEF CopyStep
<1>5. JobFrame
    <2>1. CASE job' = Idle
        <3>1. job'.pc = "idle" BY <2>1, EmptyTypes
        <3> QED BY <3>1 DEF JobFrame, Saving, Copied
    <2>2. CASE snapshotBlock /\ job' # Idle
        <3>1. job' = [job EXCEPT !.pc = "state"] BY <2>2, snapshotBlockParts
        <3>2. job'.pc = "state" BY <3>1, JobGoesTo DEF JobPc
        <3> QED BY <2>2, <3>2 DEF JobFrame, Saving, Copied
    <2>3. CASE snapshotState /\ job' # Idle
        <3>1. job' = [job EXCEPT !.pc = "wal"] BY <2>3, snapshotStateParts
        <3>2. job'.pc = "wal" BY <3>1, JobGoesTo DEF JobPc
        <3> QED BY <2>3, <3>2 DEF JobFrame, Saving
    <2>4. ASSUME job.pc \in Copied, NEW p \in Copied, job' = [job EXCEPT !.pc = p],
                 target'.state = target.state, target'.valInfo = target.valInfo
          PROVE  JobFrame
        <3>1. job'.pc = p BY <2>4, JobGoesTo DEF JobPc, Copied
        <3>2. p \notin Saving /\ p # "flush" /\ p # "state" BY <2>4 DEF Copied, Saving
        <3> QED BY <1>1, <2>4, <3>1, <3>2, CopySwallows DEF JobFrame
    <2>5. CASE snapshotCsWAL BY <2>4, <2>5, snapshotCsWALParts DEF Copied
    <2>6. CASE createPrivValidatorState BY <2>4, <2>6, createPrivParts DEF Copied
    <2>7. CASE copyAppDBBegin \/ copyAppDBEnd BY <2>4, <2>7, copyAppParts DEF Copied
    <2>8. CASE copyEvidenceDB BY <2>4, <2>8, copyFilesParts DEF copyEvidenceDB, Copied
    <2>9. CASE copyUpgradeInfo BY <2>1, <2>9 DEF copyUpgradeInfo
    <2> QED BY <2>1, <2>2, <2>3, <2>5, <2>6, <2>7, <2>8, <2>9 DEF CopyStep
<1> QED BY <1>1, <1>2, <1>4, <1>5 DEF Frame

LEMMA OperatorFrame ==
    ASSUME TypeInv,
           \/ CreateSnapshot \/ PruneSnapshot \/ DiscardTarget \/ Restore \/ Crash \/ PruneEnd
           \/ \E s \in Store : PruneStep(s)
    PROVE  Frame
<1>1. /\ chain' = chain /\ ((data' = data /\ UNCHANGED <<restores, flawed>>) \/ Restore)
      /\ flawed => flawed'
    <2>1. CASE Restore
        <3>1. flawed => flawed' BY <2>1, Zenon DEF Restore
        <3> QED BY <2>1, <3>1 DEF Restore
    <2>2. CASE UNCHANGED <<chain, data, restores, flawed>> BY <2>2
    <2> QED BY <2>1, <2>2
        DEF CreateSnapshot, PruneSnapshot, DiscardTarget, Crash, PruneEnd, PruneStep,
            pruneStoreRead, DeleteVersionsRange
<1>2. DataFrame BY <1>1 DEF DataFrame
<1>3. TargetFrame
    <2>1. CASE UNCHANGED <<target, completed, swallowed>> BY <2>1 DEF TargetFrame
    <2>2. CASE target' = EmptyDirectory /\ completed' = FALSE
        BY <2>2, EmptyTypes, Markers DEF TargetFrame
    <2>3. CASE PruneSnapshot
        <3>1. UNCHANGED <<completed, swallowed>> BY <2>3 DEF PruneSnapshot
        <3>2. target'.app \in App => target'.app = target.app \/ target'.app = EmptyApp
            BY <2>3, PruneSnapshotParts, Markers
        <3> QED BY <2>3, <3>1, <3>2, PruneSnapshotParts DEF TargetFrame
    <2>4. ASSUME NEW s \in Store, DeleteVersionsRange(s) PROVE TargetFrame
        <3>1. UNCHANGED <<completed, swallowed>> BY <2>4 DEF DeleteVersionsRange
        <3> QED BY <2>4, <3>1, DeleteParts DEF TargetFrame
    <2>5. CASE CreateSnapshot
        <3>1. ~completed BY <2>5 DEF CreateSnapshot, TypeInv, Formed, AppCopied
        <3> QED BY <2>5, <3>1 DEF CreateSnapshot, TargetFrame
    <2> QED BY <2>1, <2>2, <2>3, <2>4, <2>5
        DEF DiscardTarget, Crash, PruneEnd, PruneStep, Restore, pruneStoreRead
<1>4. JobFrame
    <2>1. job'.pc \in {"idle", "recover", "prune"}
        <3>1. CASE job' = Idle BY <3>1, EmptyTypes
        <3>2. CASE CreateSnapshot BY <3>2, EmptyTypes DEF CreateSnapshot, Job
        <3>3. CASE PruneSnapshot BY <3>3, PruneSnapshotParts, EmptyTypes
        <3>4. ASSUME NEW s \in Store, PruneStep(s) PROVE job'.pc = "prune"
            BY <3>4, pruneReadParts, DeleteParts DEF PruneStep
        <3> QED BY <3>1, <3>2, <3>3, <3>4 DEF DiscardTarget, Restore, Crash, PruneEnd
    <2> QED BY <2>1 DEF JobFrame, Saving, Copied
<1> QED BY <1>1, <1>2, <1>3, <1>4 DEF Frame

LEMMA StepFrame ==
    ASSUME TypeInv, Next
    PROVE  Frame
BY NodeFrame, SaveFrame, CopyFrame, OperatorFrame DEF Next, CommandStep, CopyStep

-----------------------------------------------------------------------------
(* The state names the chain's validators *)

LEMMA InitState == Init => StateInv
<1> SUFFICES ASSUME Init PROVE StateInv OBVIOUS
<1>1. /\ data.blocks = {} /\ data.state.height = 0 /\ data.state.appHash = 0
      /\ data.state.vals = chain.vals[1] /\ data.state.nextVals = chain.vals[2]
    BY DEF Init, GenesisDirectory, EmptyDirectory
<1>2. completed = FALSE BY DEF Init
<1> QED BY <1>1, <1>2 DEF StateInv, TrueState, TrueLastVals

\* The state after a block, and the one Recover makes, are states of the chain.
LEMMA NextStateTrue ==
    ASSUME TypeInv, TrueState(data.state)
    PROVE  /\ TrueState(NextState(data.state))
           /\ NextState(data.state).lastVals = chain.vals[NextState(data.state).height]
<1> DEFINE s == data.state  h == s.height + 1  n == NextState(s)
<1>1. s.height \in Nat BY TypeFacts
<1>2. s.vals = chain.vals[h] /\ s.nextVals = chain.vals[h + 1]
    <2>1. s.height + 2 = h + 1 BY <1>1
    <2> QED BY <2>1 DEF TrueState
<1>3. /\ n.height = h /\ n.appHash = h /\ n.lastVals = s.vals /\ n.vals = s.nextVals
      /\ n.nextVals = IF chain.vals[h + 2] # chain.vals[h + 1] THEN chain.vals[h + 2] ELSE s.nextVals
    BY DEF NextState
<1> HIDE DEF n, h
<1> QED BY <1>2, <1>3 DEF TrueState, n, h

LEMMA RolledBackTrue ==
    ASSUME TypeInv, TrueState(data.state), TrueLastVals(data), NEW s,
           StoreHeight(data) = data.state.height, data.state.height - 1 \in data.blocks,
           RolledBack(s, data.state)
    PROVE  TrueState(s)
<1> DEFINE h == data.state.height
<1>1. h \in Nat BY TypeFacts
<1>2. data.state.lastVals = chain.vals[h] /\ data.state.vals = chain.vals[h + 1]
    BY DEF TrueState, TrueLastVals
<1>3. /\ s.height = h - 1 /\ s.appHash = h - 1
      /\ s.vals = data.state.lastVals /\ s.nextVals = data.state.vals
    BY DEF RolledBack
<1>4. s.height + 1 = h /\ s.height + 2 = h + 1 BY <1>1, <1>3
<1> QED BY <1>2, <1>3, <1>4 DEF TrueState

LEMMA StateStep == TypeInv /\ StartInv /\ StateInv /\ [Next]_vars => StateInv'
<1> SUFFICES ASSUME TypeInv, StartInv, StateInv, [Next]_vars, ~flawed' PROVE StateInv'
    BY DEF StateInv
<1> DEFINE h == data.state.height
<1>2. CASE UNCHANGED vars BY <1>2 DEF vars, StateInv, TrueState, TrueLastVals
<1>3. CASE Next
    <2>1. Frame BY <1>3, StepFrame
    <2>8. ~flawed BY <2>1 DEF Frame, DataFrame
    <2>9. TrueState(data.state) /\ TrueLastVals(data) BY <2>8 DEF StateInv
    <2>2. chain' = chain BY <2>1 DEF Frame
    <2>3. completed' => TrueState(target.state)'
        <3>1. CASE completed /\ target'.state = target.state
            BY <2>2, <2>8, <3>1 DEF StateInv, TrueState
        <3>2. CASE copyUpgradeInfo
            <4>1. job.pc = "upgrade" BY <3>2 DEF copyUpgradeInfo
            <4>2. target.state = data.state BY <4>1 DEF StartInv, Snapped, Copied
            <4>3. target'.state = data.state BY <3>2, <4>2, copyFilesParts
            <4> QED BY <2>9, <2>2, <4>3 DEF TrueState
        <3> QED BY <2>1, <3>1, <3>2 DEF Frame, TargetFrame
    <2>4. CASE data'.blocks = data.blocks /\ data'.state = data.state
        <3>1. StoreHeight(data') = StoreHeight(data) BY <2>4, SameStoreHeight
        <3>2. TrueState(data.state)' BY <2>9, <2>2, <2>4 DEF TrueState
        <3>3. TrueLastVals(data)' BY <2>9, <2>2, <2>4, <3>1 DEF TrueLastVals
        <3> QED BY <2>3, <3>2, <3>3 DEF StateInv
    <2>5. CASE SaveBlock
        <3>1. StoreHeight(data') = h + 1 /\ data'.state = data.state /\ h \in Nat
            BY <2>5, SaveBlockHeight, SaveBlockParts, TypeFacts
        <3>2. TrueLastVals(data)' BY <3>1 DEF TrueLastVals
        <3>3. TrueState(data.state)' BY <2>9, <2>2, <3>1 DEF TrueState
        <3> QED BY <2>3, <3>2, <3>3 DEF StateInv
    <2>6. CASE SaveState
        <3>1. /\ data'.blocks = data.blocks /\ data'.state = job.state /\ job.pc = "saveState"
            BY <2>6, SaveStateParts
        <3>2. StoreHeight(data') = StoreHeight(data) BY <3>1, SameStoreHeight
        <3>3. job.cmd \in {"node", "create"} BY <3>1 DEF TypeInv, Formed, Saving
        <3>4. CASE job.cmd = "node"
            <4>1. job.state = NextState(data.state) BY <3>1, <3>4 DEF StartInv, Apart, Saving
            <4>2. TrueState(job.state) /\ job.state.lastVals = chain.vals[job.state.height]
                BY <2>9, <4>1, NextStateTrue
            <4>3. TrueState(data.state)' BY <2>2, <3>1, <4>2 DEF TrueState
            <4>4. TrueLastVals(data)' BY <2>2, <3>1, <4>2 DEF TrueLastVals
            <4> QED BY <2>3, <4>3, <4>4 DEF StateInv
        <3>5. CASE job.cmd = "create"
            <4>1. /\ StoreHeight(data) = h /\ h - 1 \in data.blocks
                  /\ RolledBack(job.state, data.state)
                BY <3>1, <3>5 DEF StartInv, Apart, Saving
            <4>2. TrueState(job.state) BY <2>9, <4>1, RolledBackTrue
            <4>3. job.state.height = h - 1 BY <4>1 DEF RolledBack
            <4>4. StoreHeight(data') # data'.state.height BY <3>1, <3>2, <4>1, <4>3, TypeFacts
            <4>5. TrueState(data.state)' BY <2>2, <3>1, <4>2 DEF TrueState
            <4>6. TrueLastVals(data)' BY <4>4 DEF TrueLastVals
            <4> QED BY <2>3, <4>5, <4>6 DEF StateInv
        <3> QED BY <3>3, <3>4, <3>5
    <2>7. CASE Restore
        <3>1. completed /\ data' = target /\ target.blocks = {target.state.height}
            BY <2>7 DEF Restore
        <3>2. TrueState(data.state)' BY <2>2, <2>8, <3>1 DEF StateInv, TrueState
        <3>3. target.state.height \in Nat
            <4>1. target.state \in State BY <3>1 DEF TypeInv, Formed, WellFormed
            <4> QED BY <4>1, StateFields
        <3>4. data'.state.height - 1 \notin data'.blocks BY <3>1, <3>3
        <3>5. TrueLastVals(data)' BY <3>4 DEF TrueLastVals
        <3> QED BY <2>3, <3>2, <3>5 DEF StateInv
    <2> QED BY <2>1, <2>4, <2>5, <2>6, <2>7, SaveBlockParts, SaveStateParts DEF Frame, DataFrame
<1> QED BY <1>2, <1>3

LEMMA StateHolds == Spec => []StateInv
<1>1. StateInv /\ StartInv /\ TypeInv /\ [Next]_vars => StateInv' BY StateStep
<1> QED BY <1>1, InitState, StartHolds, TypesHold, PTL DEF Spec

\* However often blocks were committed, rolled back and replayed and snapshots
\* restored, the state names the chain's validators of its height and the next, as
\* long as no restored snapshot was made over an earlier attempt or lost records.
\* Recover takes them from the state it undoes: that state's last validators are
\* the chain's whenever CanRollBack lets it.
THEOREM StateAlwaysTrue == Spec => []StateTrue
<1>1. StateInv => StateTrue BY DEF StateInv, TrueState, StateTrue
<1> QED BY <1>1, StateHolds, PTL

-----------------------------------------------------------------------------
(* The application can be loaded *)

LEMMA InitApp == Init => AppInv
<1> SUFFICES ASSUME Init PROVE AppInv OBVIOUS
<1>1. data.app.latest = 0 /\ data.blocks = {} BY DEF Init, GenesisDirectory, EmptyDirectory, EmptyApp
<1>2. job.pc = "idle" /\ target.app = Nothing BY EmptyTypes DEF Init
<1> QED BY <1>1, <1>2, Markers DEF AppInv, AppThere, Loadable

\* Only versions below the latest are ever taken from the target's trees.
LEMMA TargetLoadable ==
    ASSUME TypeInv, AppThere, Frame, target'.app \in App
    PROVE  Loadable(target'.app)
<1>1. CASE target'.app = target.app BY <1>1 DEF AppThere
<1>2. CASE target'.app = EmptyApp BY <1>2, EmptyTypes DEF Loadable
<1>3. CASE copyAppDBEnd
    <2>1. job.pc = "appEnd" BY <1>3 DEF copyAppDBEnd
    <2>2. target'.app = data.app BY <1>3, <2>1, copyAppParts, Markers
    <2> QED BY <2>2 DEF AppThere
<1>4. ASSUME NEW s \in Store, DeleteVersionsRange(s) PROVE Loadable(target'.app)
    <2>1. /\ target.app \in App /\ target'.app.latest = target.app.latest
          /\ target'.app.commits = target.app.commits
          /\ \A t \in Store : target.app.latest \in target.app.trees[t] =>
                                target.app.latest \in target'.app.trees[t]
        BY <1>4, DeleteParts
    <2>2. Loadable(target.app) BY <2>1 DEF AppThere
    <2> QED BY <2>1, <2>2, NodeAssumption DEF Loadable
<1> QED BY <1>1, <1>2, <1>3, <1>4 DEF Frame, TargetFrame

LEMMA AppStep == TypeInv /\ StartInv /\ AppInv /\ [Next]_vars => AppInv'
<1> SUFFICES ASSUME TypeInv, StartInv, AppInv, [Next]_vars, KeepRecent > 0, ~flawed'
             PROVE  AppThere'
    BY DEF AppInv
<1> DEFINE h == data.state.height
<1>1. CASE UNCHANGED vars BY <1>1 DEF vars, AppInv, AppThere, Loadable, HasVersion
<1>2. CASE Next
    <2>1. Frame BY <1>2, StepFrame
    <2>12. ~flawed BY <2>1 DEF Frame, DataFrame
    <2>13. AppThere BY <2>12 DEF AppInv
    <2>2. (target.app \in App => Loadable(target.app))'
        BY <2>1, <2>13, TargetLoadable DEF Loadable
    <2>3. job'.pc = "flush" => CommitTrees BY <2>1 DEF Frame, JobFrame
    <2>4. h \in Nat /\ StoreHeight(data) \in Nat /\ data.app.latest \in Nat
          /\ data.blocks \subseteq Height
        BY TypeFacts
    <2>5. Loadable(data.app) /\ Started(data) BY <2>13 DEF AppThere, StartInv
    <2>6. CASE data'.app = data.app /\ data'.blocks = data.blocks /\ ~CommitTrees
        <3>1. StoreHeight(data') = StoreHeight(data) BY <2>6, SameStoreHeight
        <3>2. job'.pc # "flush" BY <2>3, <2>6
        <3> QED BY <2>2, <2>6, <2>13, <3>1, <3>2 DEF AppThere, Loadable, HasVersion
    <2>7. CASE SaveBlock
        <3>1. /\ StoreHeight(data') = h + 1 /\ data'.app = data.app
              /\ StoreHeight(data) = h /\ job' = [job EXCEPT !.pc = "endHeight"]
            BY <2>7, SaveBlockHeight, SaveBlockParts
        <3>2. job'.pc = "endHeight" BY <3>1, JobGoesTo DEF JobPc
        <3>3. data.app.latest = h BY <2>5, <3>1 DEF Started, Startable
        <3>4. data'.app.latest # StoreHeight(data') BY <2>4, <3>1, <3>3
        <3> QED BY <2>2, <2>5, <3>1, <3>2, <3>4 DEF AppThere, Loadable
    <2>8. CASE CommitTrees
        <3>1. /\ data'.blocks = data.blocks /\ job.pc = "trees"
              /\ data'.app.latest = data.app.latest /\ data'.app.commits = data.app.commits
              /\ \A s \in Mounted : data'.app.trees[s] =
                    {v \in data.app.trees[s] \cup {StoreHeight(data)} :
                       v >= StoreHeight(data) - KeepRecent}
            BY <2>8, CommitTreesParts
        <3>2. StoreHeight(data') = StoreHeight(data) BY <3>1, SameStoreHeight
        <3>3. StoreHeight(data) = h + 1 /\ data.app.latest = h BY <3>1 DEF StartInv, Apart
        <3>4. h >= StoreHeight(data) - KeepRecent
              /\ StoreHeight(data) >= StoreHeight(data) - KeepRecent
            BY <2>4, <3>3, Bounds
        <3>5. Loadable(data.app)'
            BY <2>5, <3>1, <3>3, <3>4 DEF Loadable
        <3>6. data'.app.latest # StoreHeight(data') BY <2>4, <3>1, <3>2, <3>3
        <3>7. \A s \in Mounted : StoreHeight(data)' \in data'.app.trees[s]
            BY <3>1, <3>2, <3>4
        <3> QED BY <2>2, <3>5, <3>6, <3>7 DEF AppThere
    <2>9. CASE FlushMetadata
        <3>1. /\ data'.blocks = data.blocks /\ job.pc = "flush"
              /\ data'.app.latest = StoreHeight(data)
              /\ data'.app.commits = data.app.commits \cup {StoreHeight(data)}
              /\ data'.app.trees = data.app.trees
              /\ job' = [job EXCEPT !.pc = "node"]
            BY <2>9, FlushMetadataParts
        <3>2. job'.pc = "node" BY <3>1, JobGoesTo DEF JobPc
        <3>3. StoreHeight(data) = h + 1 /\ data.app.latest = h BY <3>1 DEF StartInv, Apart
        <3>4. \A s \in Mounted : StoreHeight(data) \in data.app.trees[s] BY <2>13, <3>1 DEF AppThere
        <3>5. Loadable(data.app)' BY <3>1, <3>4 DEF Loadable
        <3>6. h \in data.blocks => HasVersion(data.app, h)
            BY <2>4, <2>5, <3>3, Bounds DEF Loadable, HasVersion
        <3>7. data'.app.latest - 1 = h BY <2>4, <3>1, <3>3
        <3>8. HasVersion(data.app, h) => HasVersion(data.app', h) BY <3>1 DEF HasVersion
        <3>9. (data.app.latest - 1 \in data.blocks => HasVersion(data.app, data.app.latest - 1))'
            BY <3>1, <3>6, <3>7, <3>8 DEF HasVersion
        <3> QED BY <2>2, <3>2, <3>5, <3>9 DEF AppThere
    <2>14. CASE rollBackApplication /\ data' = data
        <3>1. job'.pc = "block" BY <2>14, rollBackParts, JobGoesTo DEF JobPc
        <3> QED BY <2>2, <2>13, <2>14, <3>1 DEF AppThere, Loadable, HasVersion
    <2>10. CASE rollBackApplication /\ data' # data
        <3>1. /\ data'.blocks = data.blocks /\ job.pc = "rollApp"
              /\ data'.app.latest = job.height
              /\ data'.app.commits = data.app.commits \ {job.height + 1}
              /\ data'.app.trees = data.app.trees
              /\ job' = [job EXCEPT !.pc = "block"]
            BY <2>10, rollBackParts
        <3>2. job'.pc = "block" BY <3>1, JobGoesTo DEF JobPc
        <3>3. StoreHeight(data) = h + 1 /\ job.height = h BY <3>1 DEF StartInv, Apart
        <3>4. StoreHeight(data') = h + 1 BY <3>1, <3>3, SameStoreHeight
        <3>5. h > 0 => HasVersion(data.app, h)
            <4>1. h > 0 => h \in data.blocks BY <2>5 DEF Started
            <4>2. CASE data.app.latest = h BY <2>5, <4>2 DEF Loadable, HasVersion
            <4>3. CASE data.app.latest = h + 1
                <5>1. data.app.latest - 1 = h BY <2>4, <4>3
                <5> QED BY <2>13, <3>3, <4>1, <4>3, <5>1 DEF AppThere
            <4> QED BY <2>5, <3>3, <4>2, <4>3 DEF Started, Startable
        <3>6. h # h + 1 BY <2>4
        <3>7. Loadable(data.app)' BY <3>1, <3>3, <3>5, <3>6 DEF Loadable, HasVersion
        <3>8. data'.app.latest # StoreHeight(data') BY <3>1, <3>3, <3>4, <3>6
        <3> QED BY <2>2, <3>2, <3>7, <3>8 DEF AppThere
    <2>11. CASE Restore
        <3>1. /\ completed /\ data' = target /\ target.blocks = {target.state.height}
              /\ job = Idle /\ job' = job /\ NodeAccepts(target)
            BY <2>11 DEF Restore
        <3>2. job'.pc = "idle" BY <3>1, EmptyTypes
        <3>3. Loadable(target.app) /\ Startable(target) BY <3>1 DEF NodeAccepts
        <3>4. StoreHeight(target) = target.state.height
            BY <3>1 DEF StartInv, Snapped, StateCopied, BlockCopied
        <3>5. target.app.latest = target.state.height BY <3>3, <3>4 DEF Startable
        <3>6. target.state.height \in Nat
            <4>1. target.state \in State BY <3>1 DEF TypeInv, Formed, WellFormed
            <4> QED BY <4>1, StateFields
        <3>7. data'.app.latest - 1 \notin data'.blocks BY <3>1, <3>5, <3>6
        <3>8. Loadable(data.app)' BY <3>1, <3>3 DEF Loadable
        <3> QED BY <2>2, <3>2, <3>7, <3>8 DEF AppThere
    <2> QED BY <2>1, <2>6, <2>7, <2>8, <2>9, <2>10, <2>11, <2>14 DEF Frame, DataFrame
<1> QED BY <1>1, <1>2

LEMMA AppHolds == Spec => []AppInv
<1>1. AppInv /\ StartInv /\ TypeInv /\ [Next]_vars => AppInv' BY AppStep
<1> QED BY <1>1, InitApp, StartHolds, TypesHold, PTL DEF Spec

\* In a node that keeps a version besides the latest, the application's latest
\* version can be loaded at every point, in the data directory and in the copy:
\* rollBackApplication, whether its batch is written or lost, finds the version before
\* the latest wherever Recover finds the block before the last, and pruneStore stops
\* short of the latest.  Outside is what the code does not look at: a node that keeps
\* none, and a data directory that came from a flawed snapshot.
THEOREM AppAlwaysLoadable == Spec => []AppLoadable
<1>1. TypeInv /\ AppInv => AppLoadable
    <2> SUFFICES ASSUME TypeInv, AppInv PROVE AppLoadable OBVIOUS
    <2>1. target.app \in App \cup {Nothing, Torn} BY TypeFacts, DirectoryFields
    <2> QED BY <2>1 DEF AppInv, AppThere, AppLoadable
<1> QED BY <1>1, AppHolds, TypesHold, PTL

=============================================================================
