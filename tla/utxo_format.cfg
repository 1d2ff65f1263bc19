\* The ledgers of Bitcoin of utxo_genesis. The counterexample: two stakes of one
\* sender for two accounts, both credited to the first, or a stake with a second
\* output to the vault, below the minimum.
CONSTANTS
    bob = bob
    carol = carol
    alice = alice
    dave = dave
    op1 = op1
    op2 = op2
    op3 = op3
    key1 = key1
    key2 = key2
    key3 = key3
    Senders = {bob, carol}
    ImAddresses = {alice, dave}
    Validators = {op1, op2, op3}
    ConsensusKey <- Keys
    KeyRank <- Ranks
    Price <- Prices
    Unit <- Units
    MaxValidators = 3
    GenesisTime <- GenesisTimes
    NoAddress = noAddress
    NoSender = noSender
    NoFile = noFile
    Partial = partial
    Null = null
    RateUnit = 10
    Radix = 10
    Precision = 2
    PartDigits = 2
    MinSelfDelegation = 1
    BaseOracleTokens <- OracleBase
    Ledgers <- MCLedgers
    Registrations = {{op1}, {op1, op2, op3}}
    LowerCase <- MCLowerCase
    Tips <- MCTips
    MinConfirmations = 2
    MinAmount <- Minimum
    BootStates <- MCBootStates
    EnabledChains = {{"Bitcoin"}}
    Attempts = 1
    MaxRuns = 1
SPECIFICATION MCSpec
INVARIANT StakesFollowFormat
CHECK_DEADLOCK FALSE
