\* Two client addresses and two accounts. The counterexample: a stake of one client
\* address registers an account, and a stake of the other names that account.
CONSTANTS
    Witnesses = {w1}
    ClientAddresses = {bc1a, bc1b}
    ImAddresses = {alice, bob}
    TxIds = {tx1, tx2}
    StakeMsgs <- RegistryMsgs
    BootstrapEntries <- RegistryEntries
    Amounts = {1}
    RequiredProofs = {1, 2}
    FeeRates = {0, 1000, 1001}
    ProofTimeout = 1
    MayPause = FALSE
    MaxNonce = 3
    MaxPegOuts = 1
    MaxTime = 1
    NoAddress = none
    ZeroAddress = zero
    ZeroTxId = tx0
    w1 = w1
    w2 = w2
    w3 = w3
    alice = alice
    bob = bob
    bc1a = bc1a
    bc1b = bc1b
    tx1 = tx1
    tx2 = tx2
SPECIFICATION Spec
PROPERTY StakesGoToRegistered
CHECK_DEADLOCK FALSE
