SPECIFICATION Spec
CONSTANTS
    ValidatorSet = {v1, v2}
    ConsensusParams = {p1, p2}
    NoParams = NoParams
    Store = {bank, evm, tibc}
    Mounted = {bank, evm}
    Nothing = Nothing
    Torn = Torn
    KeepRecent = 1
    batchNum = 2
    valSetCheckpointInterval = 3
    MaxHeight = 3
    MaxParamChanges = 1
    MaxFaults = 1
    MaxRestores = 2
SYMMETRY Symmetry
CHECK_DEADLOCK FALSE
INVARIANTS
    NodeTypeOK
    NodeCanStart
    StateTrue
    ParamsTrue
    AppLoadable
    ValidatorRecordsThere
    SnapshotConsistent
