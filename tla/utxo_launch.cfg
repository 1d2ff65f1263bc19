\* The scripts alone: up to three runs, stopped at every step, while
\* ImuachainGateway is deployed again and the chain authorizes gateways. With
\* data: files of up to three entries in batches of two, two runs of the import,
\* transactions that are mined late or never, the owner's own imports, and
\* stakes with every pairing of two client addresses with two accounts. Of the
\* witnesses: three, thresholds 1 to 3 and a window of two.
CONSTANTS
    Witnesses = {w1, w2, w3}
    ClientAddresses = {bc1a, bc1b}
    ImAddresses = {alice, bob}
    TxIds = {tx1, tx2, tx3}
    StakeMsgs <- LaunchMsgs
    BootstrapEntries <- LaunchEntries
    Amounts = {1}
    RequiredProofs = {1, 2, 3}
    FeeRates = {}
    ProofTimeout = 2
    MayPause = FALSE
    MaxNonce = 4
    MaxPegOuts = 1
    MaxTime = 3
    NoAddress = none
    ZeroAddress = zero
    ZeroTxId = tx0
    w1 = w1
    w2 = w2
    w3 = w3
    alice = alice
    bob = bob
    bc1a = bc1a
    bc1b = bc1b
    tx1 = tx1
    tx2 = tx2
    tx3 = tx3
    DataFiles <- MCDataFiles
    BatchSize = 2
    MaxImports = 2
    ImuaGateways = {imua1, imua2}
    NoContract = noContract
    MaxRuns = 3
SPECIFICATION MCSpec
SYMMETRY WitnessSymmetry
INVARIANT NonceTxBijection
INVARIANT RegistryConsistent
INVARIANT PegOutPaysRequester
INVARIANT SavedMeansReady
INVARIANT RerunNeverFails
INVARIANT SuccessIsExact
INVARIANT ImportRegistersStakers
INVARIANT ProofsAreCounted
PROPERTY QuorumWithinWindow
CHECK_DEADLOCK FALSE
