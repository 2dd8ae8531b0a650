SPECIFICATION Spec
CONSTANTS
    Address = {zero, admin, app}
    ZeroAddress = zero
    Contract = {app}
    Deployer = admin
    KeyHash = {k1}
    NoCommitment = NoCommitment
    MaxSubId = 1
    MaxNonce = 3
    MAX_CONSUMERS = 1
    MAX_REQUEST_CONFIRMATIONS = 2
    MAX_NUM_WORDS = 1
    BlockHashWindow = 1
    Confirmations = {1, 3}
    GasLimits = {1}
    WordCounts = {1, 2}
    Subscribers = {}
    Consumers = {app}
    SubIds = {1}
    NewOwners = {zero}
    Heights = {1}
    MaxHeight = 3
    MaxRequests = 3
    MaxDepth = 1
INVARIANTS
    TypeOK
    AnsweredWithinAsked
    CommitmentOpenable
    LockReleased
CHECK_DEADLOCK FALSE
