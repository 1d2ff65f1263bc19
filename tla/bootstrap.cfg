\* Two stakers and two operators, amounts of four digits of which the genesis
\* keeps three. Family lst: up to two deposits of each of two tokens, delegated,
\* undelegated, claimed and withdrawn in every order before the lock. Family lock: any registration with every commission up to 100 per
\* cent in halves and beyond, the owner pauses, adds a token and moves both the
\* spawn time and the offset, and time passes the lock. Family native: two beacon
\* chain validators, stale and foreign proofs, delegations, the lock, and any
\* balance the beacon chain may report, in gwei of 1200, when the genesis is
\* generated.
CONSTANTS
    Families = {"lst", "lock", "native"}
    Stakers = {alice, bob}
    LSTs = {lst, lst2}
    Operators = {op1, op2}
    Names = {n1, n2}
    Keys = {k1, k2}
    Validators = {v1, v2}
    Amounts = {1133, 2266, 2400}
    TvlLimits = {2266, 3399}
    GenesisTokens = {lst, nst}
    MayPause = {"client"}
    FullRate = 2
    Registrations <- AllOffers
    Rates = {0, 1, 2, 3}
    SpawnTimes = {2, 3}
    OffsetDurations = {1, 2}
    MaxDeposited = 2266
    MaxListLength = 2
    MaxTime = 2
    NST = nst
    NoOne = nobody
    NoOperator = noOperator
    NoName = noName
    ZeroKey = zeroKey
    MinClaimInterval = 0
    ProofWindow = 0
    PectraForkTime = 2
    MaxEffectiveBalance = 3600
    Gwei = 1200
    Radix = 10
    Precision = 3
    PartDigits = 5
SPECIFICATION MCSpec
SYMMETRY StakerSymmetry
INVARIANT ValidatorsAreDistinct
INVARIANT RateKeepsPromise
INVARIANT PubkeysAreDistinct
INVARIANT GenesisDepositIsEffective
INVARIANT GenesisPowerIsBacked
PROPERTY LockIsFinal
INVARIANT BooksAgree
INVARIANT GenesisListsAreComplete
CHECK_DEADLOCK FALSE
