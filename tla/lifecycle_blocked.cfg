\* The owner of ImuachainGateway whitelists a token before marking the bootstrap.
CONSTANTS
    Stakers = {alice}
    LSTs = {}
    Operators = {op1}
    Names = {n1}
    Keys = {k1}
    Validators = {}
    Amounts = {}
    TvlLimits = {0}
    GenesisTokens = {}
    MayPause = {"client"}
    FullRate = 1
    Registrations <- OneOffer
    Rates = {}
    SpawnTimes = {2, 3}
    OffsetDurations = {1}
    MaxDeposited = 0
    MaxListLength = 1
    MaxTime = 4
    NST = nst
    NoOne = nobody
    NoOperator = noOperator
    NoName = noName
    ZeroKey = zeroKey
    MinClaimInterval = 0
    ProofWindow = 1
    PectraForkTime = 1
    MaxEffectiveBalance = 2
    Gwei = 1
    Radix = 10
    Precision = 2
    PartDigits = 4
    MaxRequests = 0
    MaxEth = 0
    MaxOwnerMessages = 2
    MaxFunds = 0
    MaxNST = 0
    ClockSkew = 1
SPECIFICATION LifecycleFairSpec
PROPERTY MessagesAreExecuted
CHECK_DEADLOCK FALSE
