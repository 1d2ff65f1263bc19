\* One native restaker, one validator, amounts 1 and 2: two requests, two ETH in
\* the capsule, one MIN_CLAIM_INTERVAL, while both gateways pause, the gateway
\* that pays for responses runs dry and a message of the owner is on the way back.
CONSTANTS
    Stakers = {alice}
    LSTs = {}
    NST = nst
    Amounts = {1, 2}
    TvlLimits = {}
    GenesisTokens = {nst}
    MayPause = {"client", "imua"}
    Validators = {v1}
    NoOne = nobody
    MinClaimInterval = 1
    ProofWindow = 1
    PectraForkTime = 1
    MaxEffectiveBalance = 1
    MaxRequests = 2
    MaxEth = 2
    MaxTime = 1
    MaxOwnerMessages = 1
    MaxFunds = 1
    MaxNST = 1
SPECIFICATION FairSpec
INVARIANT ClaimFlagIsExact
INVARIANT CapsuleSolvent
INVARIANT ClaimsAreSpaced
PROPERTY ClaimsAreAnswered
PROPERTY RequestsAreExecuted
CHECK_DEADLOCK FALSE
