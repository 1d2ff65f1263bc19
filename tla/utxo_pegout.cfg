\* Two stakers, with a stake of 10, or of 9 after the fee, and one of 5, that
\* delegate, undelegate and withdraw in parts of 5, and two peg-out requests,
\* principal or reward, that payments settle, while the owner pauses and, with
\* the threshold, switches between proofs and one signature.
CONSTANTS
    Witnesses = {w1}
    ClientAddresses = {bc1a, bc1b}
    ImAddresses = {alice, bob}
    TxIds = {tx1, tx2}
    StakeMsgs <- PegOutMsgs
    BootstrapEntries = {}
    Amounts = {5}
    RequiredProofs = {1, 2}
    FeeRates = {1000}
    ProofTimeout = 1
    MayPause = TRUE
    MaxNonce = 2
    MaxPegOuts = 2
    MaxTime = 2
    NoAddress = none
    ZeroAddress = zero
    ZeroTxId = tx0
    w1 = w1
    w2 = w2
    w3 = w3
    alice = alice
    bob = bob
    bc1a = bc1a
    bc1b = bc1b
    tx1 = tx1
    tx2 = tx2
SPECIFICATION FairSpec
INVARIANT PegOutQueueIntact
INVARIANT CreditsAreBacked
PROPERTY PegOutsAreServed
PROPERTY ImplementsPegLedger
CHECK_DEADLOCK FALSE
