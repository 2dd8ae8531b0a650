SPECIFICATION Spec
CONSTANTS
    Address = {zero, admin, app}
    ZeroAddress = zero
    Contract = {app}
    Deployer = admin
    KeyHash = {k1}
    NoCommitment = NoCommitment
    MaxSubId = 1
    MaxNonce = 3
    MAX_CONSUMERS = 1
    MAX_REQUEST_CONFIRMATIONS = 2
    MAX_NUM_WORDS = 1
    BlockHashWindow = 1
    Confirmations = {1}
    GasLimits = {1}
    WordCounts = {1}
    Subscribers = {}
    Consumers = {app}
    SubIds = {1}
    NewOwners = {}
    Heights = {}
    MaxHeight = 2
    MaxRequests = 2
    MaxDepth = 1
INVARIANTS
    ReqCountIsRequests
CHECK_DEADLOCK FALSE
