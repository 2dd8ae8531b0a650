SPECIFICATION ProviderSpec
CONSTANTS
    Address = {zero, admin, app}
    ZeroAddress = zero
    Contract = {app}
    Deployer = admin
    KeyHash = {k1}
    NoCommitment = NoCommitment
    MaxSubId = 1
    MaxNonce = 3
    MAX_CONSUMERS = 1
    MAX_REQUEST_CONFIRMATIONS = 2
    MAX_NUM_WORDS = 1
    BlockHashWindow = 1
    Confirmations = {1}
    GasLimits = {1}
    WordCounts = {1}
    Subscribers = {}
    Consumers = {}
    SubIds = {1}
    NewOwners = {}
    Heights = {}
    MaxHeight = 3
    MaxRequests = 2
    MaxDepth = 1
    App = app
    Account = admin
    AdminKey = k1
    Operators = {admin}
    StartHeight = 1
    RetryTimes = 2
    MaxSent = 5
    MaxFaults = 2
INVARIANTS
    ProviderTypeOK
    NoRequestSkipped
    AnsweredOnce
CHECK_DEADLOCK FALSE
