SPECIFICATION Spec
CONSTANTS
    Address = {zero, app}
    ZeroAddress = zero
    Contract = {app}
    Deployer = app
    KeyHash = {k1}
    NoCommitment = NoCommitment
    MaxSubId = 2
    MaxNonce = 4
    MAX_CONSUMERS = 1
    MAX_REQUEST_CONFIRMATIONS = 2
    MAX_NUM_WORDS = 1
    BlockHashWindow = 1
    Confirmations = {1}
    GasLimits = {1}
    WordCounts = {1}
    Subscribers = {}
    Consumers = {app}
    SubIds = {1}
    NewOwners = {}
    Heights = {}
    MaxHeight = 2
    MaxRequests = 3
    MaxDepth = 2
INVARIANTS
    AnsweredWithinAsked
    LockIsolates
    LockReleased
    ReqCountExact
PROPERTIES
    SubscriptionLifecycle
    ImplementsService
CHECK_DEADLOCK FALSE
