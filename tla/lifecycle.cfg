\* One staker of one LST that either owner whitelists; one deposit of 126 units
\* before the upgrade, one digit more than the genesis keeps, two requests and
\* two owner messages after it; pauses, a lagging clock and a gateway logic that
\* is replaced.
CONSTANTS
    Stakers = {alice}
    LSTs = {lst}
    Operators = {op1}
    Names = {n1}
    Keys = {k1}
    Validators = {}
    Amounts = {126}
    TvlLimits = {252}
    GenesisTokens = {}
    MayPause = {"client"}
    FullRate = 1
    Registrations <- OneOffer
    Rates = {}
    SpawnTimes = {2}
    OffsetDurations = {1}
    MaxDeposited = 126
    MaxListLength = 1
    MaxTime = 2
    NST = nst
    NoOne = nobody
    NoOperator = noOperator
    NoName = noName
    ZeroKey = zeroKey
    MinClaimInterval = 0
    ProofWindow = 1
    PectraForkTime = 1
    MaxEffectiveBalance = 2
    Gwei = 1
    Radix = 10
    Precision = 2
    PartDigits = 4
    MaxRequests = 2
    MaxEth = 0
    MaxOwnerMessages = 2
    MaxFunds = 1
    MaxNST = 0
    ClockSkew = 1
SPECIFICATION LifecycleFairSpec
 
INVARIANT TokensSurviveUpgrade
PROPERTY MarkLeadsToUpgrade
CHECK_DEADLOCK FALSE
