SPECIFICATION Spec
CONSTANTS
    ValidatorSet = {v1, v2}
    ConsensusParams = {p1}
    NoParams = NoParams
    Store = {bank, evm, tibc}
    Mounted = {bank, evm}
    Nothing = Nothing
    Torn = Torn
    KeepRecent = 1
    batchNum = 2
    valSetCheckpointInterval = 10
    MaxHeight = 4
    MaxParamChanges = 1
    MaxFaults = 1
    MaxRestores = 1
CHECK_DEADLOCK FALSE
PROPERTY StoredSetsKept
