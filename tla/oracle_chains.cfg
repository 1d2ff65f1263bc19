\* The three chains with one ledger each: the merged oracle lists Ethereum,
\* Bitcoin and XRP Ledger from position one on, and the tokens of Bitcoin and
\* XRP carry 1 and 2.
CONSTANTS
    bob = bob
    carol = carol
    alice = alice
    dave = dave
    op1 = op1
    op2 = op2
    op3 = op3
    key1 = key1
    key2 = key2
    key3 = key3
    Senders = {bob, carol}
    ImAddresses = {alice, dave}
    Validators = {op1, op2, op3}
    ConsensusKey <- Keys
    KeyRank <- Ranks
    Price <- Prices
    Unit <- Units
    MaxValidators = 3
    GenesisTime <- GenesisTimes
    NoAddress = noAddress
    NoSender = noSender
    NoFile = noFile
    Partial = partial
    Null = null
    RateUnit = 10
    Radix = 10
    Precision = 2
    PartDigits = 2
    MinSelfDelegation = 1
    BaseOracleTokens <- OracleBase
    Ledgers <- MCLedgers
    Registrations = {{op1}, {op1, op2, op3}}
    LowerCase <- MCLowerCase
    Tips <- MCTips
    MinConfirmations = 2
    MinAmount <- Minimum
    BootStates <- MCBootStates
    EnabledChains = {{"EVM", "Bitcoin", "XRP"}}
    Attempts = 1
    MaxRuns = 1
SPECIFICATION MCSpec
INVARIANT OracleTokensNameTheirChain
CHECK_DEADLOCK FALSE
