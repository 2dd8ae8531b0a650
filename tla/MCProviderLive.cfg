SPECIFICATION ProviderSpec
CONSTANTS
    Address = {zero, admin, app}
    ZeroAddress = zero
    Contract = {app}
    Deployer = admin
    KeyHash = {k1, k2}
    NoCommitment = NoCommitment
    MaxSubId = 1
    MaxNonce = 3
    MAX_CONSUMERS = 1
    MAX_REQUEST_CONFIRMATIONS = 2
    MAX_NUM_WORDS = 1
    BlockHashWindow = 1
    Confirmations = {1}
    GasLimits = {1}
    WordCounts = {1}
    Subscribers = {}
    Consumers = {}
    SubIds = {1}
    NewOwners = {}
    Heights = {}
    MaxHeight = 4
    MaxRequests = 2
    MaxDepth = 1
    App = app
    Account = admin
    AdminKey = k1
    Operators = {}
    StartHeight = 1
    RetryTimes = 2
    MaxSent = 20
    MaxFaults = 1
PROPERTIES
    EveryRequestAttempted
    EveryRequestAnswered
CHECK_DEADLOCK FALSE
