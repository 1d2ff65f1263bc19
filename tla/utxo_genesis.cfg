\* Every ledger of three stakes of two senders for two accounts and two
\* operators, of which one is registered, and transactions that are no stakes,
\* for each chain; and one ledger of each with a state of Bootstrap, for the
\* whole script with its attempts, a crash and a second start.
CONSTANTS
    bob = bob
    carol = carol
    alice = alice
    dave = dave
    op1 = op1
    op2 = op2
    op3 = op3
    key1 = key1
    key2 = key2
    key3 = key3
    Senders = {bob, carol}
    ImAddresses = {alice, dave}
    Validators = {op1, op2, op3}
    ConsensusKey <- Keys
    KeyRank <- Ranks
    Price <- Prices
    Unit <- Units
    MaxValidators = 3
    GenesisTime <- GenesisTimes
    NoAddress = noAddress
    NoSender = noSender
    NoFile = noFile
    Partial = partial
    Null = null
    RateUnit = 10
    Radix = 10
    Precision = 2
    PartDigits = 2
    MinSelfDelegation = 1
    BaseOracleTokens <- OracleBase
    Ledgers <- MCLedgers
    Registrations = {{op1}, {op1, op2, op3}}
    LowerCase <- MCLowerCase
    Tips <- MCTips
    MinConfirmations = 2
    MinAmount <- Minimum
    BootStates <- MCBootStates
    EnabledChains = {{"Bitcoin"}, {"XRP"}, {"EVM", "Bitcoin", "XRP"}}
    Attempts = 3
    MaxRuns = 2
SPECIFICATION MCSpec
INVARIANT ExportMatchesLedger
INVARIANT ExportedPairsRegister
INVARIANT ExportMatchesGenesis
INVARIANT TotalsSurviveMerge
INVARIANT PowerAddsUp
INVARIANT FeedersFollowTokens
PROPERTY RunEnds
CHECK_DEADLOCK FALSE
