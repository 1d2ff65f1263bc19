\* Two stakers, one LST, amounts 1 and 2: three requests, so that a deposit and
\* two claims, or two deposits and a claim, of one staker or of both, are in
\* flight at once.  Two TVL limits, so that the owner lowers the limit below what
\* is consumed.  The bridge stops when the callers have sent MaxRequests messages.
CONSTANTS
    Stakers = {alice, bob}
    LSTs = {steth}
    NST = nst
    Amounts = {1, 2}
    TvlLimits = {2, 3}
    GenesisTokens = {steth}
    MayPause = {}
    Validators = {}
    NoOne = nobody
    MinClaimInterval = 1
    ProofWindow = 1
    PectraForkTime = 1
    MaxEffectiveBalance = 1
    MaxRequests = 3
    MaxEth = 0
    MaxTime = 1
    MaxOwnerMessages = 0
    MaxFunds = 2
    MaxNST = 0
SPECIFICATION Spec
SYMMETRY StakerSymmetry
INVARIANT RegistryInv
INVARIANT LstPrincipalConserved
INVARIANT VaultSolvent
PROPERTY ImplementsLedger
CHECK_DEADLOCK FALSE
