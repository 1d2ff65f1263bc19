\* Two native restakers of one operator; the beacon chain slashes one of them.
\* Amounts have few digits: nothing is rounded.
CONSTANTS
    Families = {"native"}
    Stakers = {alice, bob}
    LSTs = {}
    Operators = {op1, op2}
    Names = {n1, n2}
    Keys = {k1, k2}
    Validators = {v1, v2}
    Amounts = {1, 2}
    TvlLimits = {}
    GenesisTokens = {nst}
    MayPause = {}
    FullRate = 1
    Registrations <- OneOffer
    Rates = {}
    SpawnTimes = {2}
    OffsetDurations = {1}
    MaxDeposited = 0
    MaxListLength = 2
    MaxTime = 0
    NST = nst
    NoOne = nobody
    NoOperator = noOperator
    NoName = noName
    ZeroKey = zeroKey
    MinClaimInterval = 0
    ProofWindow = 1
    PectraForkTime = 1
    MaxEffectiveBalance = 2
    Gwei = 1
    Radix = 10
    Precision = 2
    PartDigits = 4
SPECIFICATION MCSpec
INVARIANT OthersKeepTheirDelegations
CHECK_DEADLOCK FALSE
