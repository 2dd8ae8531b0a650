SPECIFICATION Spec
CONSTANTS
    Address = {zero, admin, app}
    ZeroAddress = zero
    Contract = {app}
    Deployer = admin
    KeyHash = {k1, k2, k3}
    NoCommitment = NoCommitment
    MaxSubId = 2
    MaxNonce = 1
    MAX_CONSUMERS = 2
    MAX_REQUEST_CONFIRMATIONS = 2
    MAX_NUM_WORDS = 1
    BlockHashWindow = 1
    Confirmations = {1}
    GasLimits = {1}
    WordCounts = {1}
    Subscribers = {zero}
    Consumers = {zero, admin, app}
    SubIds = {1, 2}
    NewOwners = {}
    Heights = {}
    MaxHeight = 1
    MaxRequests = 0
    MaxDepth = 0
INVARIANTS
    KeyListExact
    ConsumerListSound
PROPERTIES
    SubscriptionLifecycle
SYMMETRY KeySymmetry
CHECK_DEADLOCK FALSE
