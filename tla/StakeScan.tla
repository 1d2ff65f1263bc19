------------------------------ MODULE StakeScan ------------------------------
(***************************************************************************)
(* bitcoin_genesis.ts and xrp_genesis.ts: one run of a generator reads     *)
(* what the vault received on its chain, keeps the transactions that are   *)
(* bootstrap stakes, binds every sender to one Imuachain address and       *)
(* writes two files: the entries UTXOGateway imports and the genesis of    *)
(* the chain.  The chain grows meanwhile, a lookup at the Bootstrap        *)
(* contract may fail, and the process may die between any two steps.       *)
(*                                                                         *)
(* The ledger of a chain is fixed by Init, in chain order; its first       *)
(* blocks are public, up to the tip.                                       *)
(***************************************************************************)
EXTENDS StakeGenesis, TLC

CONSTANTS
    Ledgers,            \* what the two chains may hold, see LedgerType
    Registrations,      \* sets of validators Bootstrap may hold
    LowerCase,          \* String.toLowerCase on sender addresses
    Tips,               \* heights the chains start from and reach, name of a bound
    MinConfirmations,
    MinAmount           \* per chain

ASSUME AddressesAssumption == NoAddress \notin ImAddresses /\ NoSender \notin Senders

VARIABLES
    ledger,             \* per chain, the transactions of the vault's account
    registered,         \* validators registered in Bootstrap
    tip,                \* per chain, the height of the last block
    pc,                 \* where the generator's process is
    chain,              \* the chain it reads
    fetched,            \* the transactions it was given, newest first
    todo,               \* those not yet validated, once sorted
    height,             \* the tip it was told after it fetched
    addressMappings,    \* sender -> Imuachain address
    reverseMappings,    \* Imuachain address -> sender
    validatorInfoCache, \* validator -> what Bootstrap answered
    valid,              \* the transactions to credit, in order
    unanswered,         \* history: those whose validator could not be looked up
    dataFile,           \* per chain, btc_ and xrp_bootstrap_data.json
    genesisFile         \* per chain, temp_<chain>_genesis.json

scanVars == <<pc, chain, fetched, todo, height, addressMappings,
              reverseMappings, validatorInfoCache, valid, unanswered>>
worldVars == <<ledger, registered, tip>>
fileVars == <<dataFile, genesisFile>>
stakeScanVars == <<scanVars, worldVars, fileVars>>

\* A Partial file was opened and truncated; not all of it is written.
Complete(file) == file \notin {NoFile, Partial}

-----------------------------------------------------------------------------
(* Which transactions are stakes *)

\* parseOpReturnData: the payload of an OP_RETURN output, Null if the prefix,
\* the length, the UTF-8 or the validator's bech32 checksum is wrong.
ParseOpReturnData(out) ==
    IF out.form = "6a3d" /\ out.validatorAddress # "NOT_BECH32"
        THEN [imuachainAddress |-> out.imuachainAddress,
              validatorAddress |-> out.validatorAddress]
        ELSE Null

\* validateMemoFormat: every memo has a type and data.
ValidateMemoFormat(memos) == \A m \in ToSet(memos) : m.form # "MALFORMED"

\* parseAddressesFromBuffer: an account in 40 hexadecimal characters and a
\* validator in the last 41 bytes.
ParseAddressesFromBuffer(memo) ==
    IF memo.form = "40+41" /\ memo.validatorAddress # "NOT_BECH32"
        THEN [imuachainAddress |-> memo.imuachainAddress,
              validatorAddress |-> memo.validatorAddress]
        ELSE Null

\* parseMemoData: the first memo of type Description that can be parsed.
ParseMemoData(memos) ==
    LET parsed == [i \in DOMAIN memos |->
                      IF memos[i].type = "Description"
                          THEN ParseAddressesFromBuffer(memos[i]) ELSE Null]
        read == {i \in DOMAIN memos : parsed[i] # Null}
    IN  IF ~ValidateMemoFormat(memos) \/ read = {} THEN Null
        ELSE parsed[CHOOSE i \in read : \A j \in read : i <= j]

\* isValidBootstrapTransaction of Bitcoin, up to the lookup of the validator:
\* no input from the vault, one vault output of at least minAmount, one
\* OP_RETURN output, and what it says.
ReadBitcoinTx(tx) ==
    IF /\ ~tx.fromVault
       /\ Cardinality({i \in DOMAIN tx.vaultOutputs :
                          tx.vaultOutputs[i] >= MinAmount["Bitcoin"]}) = 1
       /\ Len(tx.opReturns) = 1
        THEN ParseOpReturnData(tx.opReturns[1])
        ELSE Null

\* The same of XRP: a successful payment of XRP to the vault, not from it, with
\* tag 9999, of at least the minimum, with a memo.
ReadXrpTx(tx) ==
    IF /\ tx.result = "tesSUCCESS"
       /\ tx.toVault
       /\ ~tx.fromVault
       /\ tx.destinationTag = 9999
       /\ tx.currency = "XRP"
       /\ tx.amount >= MinAmount["XRP"]
       /\ tx.memos # <<>>
        THEN ParseMemoData(tx.memos)
        ELSE Null

ReadTx(c, tx) == IF c = "Bitcoin" THEN ReadBitcoinTx(tx) ELSE ReadXrpTx(tx)

\* What a stake is credited with: of Bitcoin the first output to the vault,
\* of XRP the amount of the payment.
AmountOf(c, tx) == IF c = "Bitcoin" THEN tx.vaultOutputs[1] ELSE tx.amount

Sender(tx) == LowerCase[tx.sender]

\* The comparators of the two generators: block, then index in the block.
Earlier(t, u) ==
    t.height < u.height \/ (t.height = u.height /\ t.index < u.index)

\* Equal transactions may come in any order.
UnsortedTxs(txs) == {txs}
SortedTxs(txs) ==
    {sorted \in Reorderings(txs) :
        \A i, j \in DOMAIN sorted : i < j => ~Earlier(sorted[j], sorted[i])}

\* A ledger is in chain order, its transactions have identifiers of their own,
\* and of a transaction that is a stake the two addresses are addresses and the
\* amount is a number.
ASSUME LedgersAssumption ==
    \A l \in Ledgers : \A c \in UtxoChains :
        /\ l[c] \in Seq(ToSet(l[c]))
        /\ \A i, j \in DOMAIN l[c] :
               i < j => Earlier(l[c][i], l[c][j]) /\ l[c][i].txid # l[c][j].txid
        /\ \A tx \in ToSet(l[c]) :
               /\ tx.height \in Nat /\ tx.index \in Nat
               /\ ReadTx(c, tx) # Null =>
                      /\ Sender(tx) \in Senders
                      /\ ReadTx(c, tx).imuachainAddress \in ImAddresses
                      /\ AmountOf(c, tx) \in Nat

ASSUME TipsAssumption == Tips \in Nat \X Nat

\* The entries of a file.
TxIds == {tx.txid : tx \in UNION {ToSet(l[c]) : l \in Ledgers, c \in UtxoChains}}
Entries == [clientTxId : TxIds, clientAddress : Senders,
            imuachainAddress : ImAddresses \cup {NoAddress}]

ASSUME MarkersAssumption == {NoFile, Partial} \cap Seq(Entries) = {}

-----------------------------------------------------------------------------
(* The generator *)

NoMappings ==
    /\ addressMappings' = [s \in Senders |-> NoAddress]
    /\ reverseMappings' = [a \in ImAddresses |-> NoSender]
    /\ validatorInfoCache' = {}

ScanInit ==
    /\ ledger \in Ledgers
    /\ registered \in Registrations
    /\ tip = [c \in UtxoChains |-> Tips[1]]
    /\ pc = "off"
    /\ chain = "Bitcoin"
    /\ fetched = <<>> /\ todo = <<>> /\ valid = <<>> /\ unanswered = {}
    /\ height = 0
    /\ addressMappings = [s \in Senders |-> NoAddress]
    /\ reverseMappings = [a \in ImAddresses |-> NoSender]
    /\ validatorInfoCache = {}
    /\ dataFile = [c \in UtxoChains |-> NoFile]
    /\ genesisFile = [c \in Chains |-> NoFile]

\* A block is found.
Grow(c) ==
    /\ tip[c] < Tips[2]
    /\ tip' = [tip EXCEPT ![c] = @ + 1]
    /\ UNCHANGED <<ledger, registered, scanVars, fileVars>>

\* new GenesisGenerator(...) in a process of its own: empty mappings.
StartScan(c) ==
    /\ pc \in {"off", "exited", "killed"}
    /\ pc' = "fetch"
    /\ chain' = c
    /\ NoMappings
    /\ fetched' = <<>> /\ todo' = <<>> /\ valid' = <<>> /\ unanswered' = {}
    /\ height' = 0
    /\ UNCHANGED <<worldVars, fileVars>>

\* getConfirmedTransactions, getVaultTransactions: every transaction of the
\* vault's account that is in a block, the newest first.
FetchTransactions ==
    /\ pc = "fetch"
    /\ \E n \in 0..Len(ledger[chain]) :
           /\ \A i \in DOMAIN ledger[chain] :
                  ledger[chain][i].height <= tip[chain] <=> i <= n
           /\ fetched' = Reverse(SubSeq(ledger[chain], 1, n))
    /\ pc' = "height"
    /\ UNCHANGED <<worldVars, fileVars, chain, todo, height, addressMappings,
                   reverseMappings, validatorInfoCache, valid, unanswered>>

\* getBlockHeight, getCurrentLedgerIndex, and the sort.
ReadHeight ==
    /\ pc = "height"
    /\ height' = tip[chain]
    /\ todo' \in SortedTxs(fetched)
    /\ pc' = "validate"
    /\ UNCHANGED <<worldVars, fileVars, chain, fetched, addressMappings,
                   reverseMappings, validatorInfoCache, valid, unanswered>>

\* An error of either request: generateBootstrapGenesis rejects and the command
\* line prints the error.  That ends the process, unless the client of the XRP
\* Ledger is connected: only a scan that succeeds disconnects it, and an open
\* connection keeps the process alive.
RequestFails ==
    /\ pc \in {"fetch", "height"}
    /\ pc' \in {"exited"} \cup (IF chain = "XRP" THEN {"hung"} ELSE {})
    /\ UNCHANGED <<worldVars, fileVars, chain, fetched, todo, height,
                   addressMappings, reverseMappings, validatorInfoCache, valid,
                   unanswered>>

\* isValidatorRegistered: what the cache holds, or else what the contract
\* answers, which is cached; an error counts as not registered and is not.
LookUp(v, answered) == (v \in validatorInfoCache \/ answered) /\ v \in registered
CacheAfter(v, answered) ==
    validatorInfoCache \cup (IF answered THEN {v} ELSE {})

\* A new sender may take any address.
MayBindFirst(s, a) ==
    addressMappings[s] = NoAddress \/ reverseMappings[a] \in {NoSender, s}
\* The address is free, or bound to this sender already.
MayBind(s, a) == reverseMappings[a] \in {NoSender, s}

\* The first address a sender names stays its own; every address it names is
\* taken from the other senders.
Bind(s, a) ==
    /\ addressMappings' =
           IF addressMappings[s] = NoAddress
               THEN [addressMappings EXCEPT ![s] = a] ELSE addressMappings
    /\ reverseMappings' =
           IF reverseMappings[a] = NoSender
               THEN [reverseMappings EXCEPT ![a] = s] ELSE reverseMappings

\* Above the confirmation threshold at the height that was read.
DeepEnough(tx) ==
    tx.height <= height /\ height - tx.height + 1 >= MinConfirmations

\* isValidBootstrapTransaction for the next transaction in order, and whether
\* the filter that follows the loop will keep it: one that is too young is not
\* credited, but binds.
ValidateTx(answered) ==
    /\ pc = "validate"
    /\ todo # <<>>
    /\ LET tx == Head(todo)
           read == ReadTx(chain, tx)
           v == read.validatorAddress
           a == read.imuachainAddress
           s == Sender(tx)
       IN  IF read = Null
           THEN /\ answered
                /\ UNCHANGED <<addressMappings, reverseMappings,
                               validatorInfoCache, valid, unanswered>>
           ELSE /\ unanswered' = IF answered \/ v \in validatorInfoCache
                                     THEN unanswered ELSE unanswered \cup {tx}
                /\ validatorInfoCache' = CacheAfter(v, answered)
                /\ IF LookUp(v, answered) /\ MayBind(s, a)
                   THEN /\ Bind(s, a)
                        /\ valid' = IF DeepEnough(tx) THEN Append(valid, tx)
                                                      ELSE valid
                   ELSE UNCHANGED <<addressMappings, reverseMappings, valid>>
    /\ todo' = Tail(todo)
    /\ UNCHANGED <<worldVars, fileVars, pc, chain, fetched, height>>

-----------------------------------------------------------------------------
(* What it writes *)

\* generateGenesisStakes, its last part: each stake is credited to the address
\* its sender is bound to.
ToStake(c, tx) ==
    [txid |-> tx.txid, sender |-> Sender(tx),
     imuachainAddress |-> addressMappings[Sender(tx)],
     validatorAddress |-> ReadTx(c, tx).validatorAddress,
     amount |-> AmountOf(c, tx)]
Stakes(c) == [i \in DOMAIN valid |-> ToStake(c, valid[i])]

\* exportBootstrapData, exportXRPBootstrapData.
BootstrapData(stakes) ==
    [i \in DOMAIN stakes |->
        [clientTxId |-> stakes[i].txid, clientAddress |-> stakes[i].sender,
         imuachainAddress |-> stakes[i].imuachainAddress]]

\* generateBootstrapGenesis, generateXRPBootstrapGenesis, once every
\* transaction is validated: first the entries are written, then the genesis.
OpenDataFile ==
    /\ pc = "validate"
    /\ todo = <<>>
    /\ pc' = "export"
    /\ dataFile' = [dataFile EXCEPT ![chain] = Partial]
    /\ UNCHANGED <<worldVars, genesisFile, chain, fetched, todo, height,
                   addressMappings, reverseMappings, validatorInfoCache, valid,
                   unanswered>>

ExportBootstrapData ==
    /\ pc = "export"
    /\ dataFile' = [dataFile EXCEPT ![chain] = BootstrapData(Stakes(chain))]
    /\ genesisFile' = [genesisFile EXCEPT ![chain] = Partial]
    /\ pc' = "genesis"
    /\ UNCHANGED <<worldVars, chain, fetched, todo, height, addressMappings,
                   reverseMappings, validatorInfoCache, valid, unanswered>>

WriteGenesis ==
    /\ pc = "genesis"
    /\ genesisFile' = [genesisFile EXCEPT ![chain] =
                          GenesisState(chain, Stakes(chain))]
    /\ pc' = "exited"
    /\ UNCHANGED <<worldVars, dataFile, chain, fetched, todo, height,
                   addressMappings, reverseMappings, validatorInfoCache, valid,
                   unanswered>>

\* The process is killed; its files stay as they are.
Kill ==
    /\ pc \notin {"off", "exited", "killed"}
    /\ pc' = "killed"
    /\ UNCHANGED <<worldVars, fileVars, chain, fetched, todo, height,
                   addressMappings, reverseMappings, validatorInfoCache, valid,
                   unanswered>>

ScanStep ==
    \/ FetchTransactions
    \/ ReadHeight
    \/ RequestFails
    \/ \E answered \in BOOLEAN : ValidateTx(answered)
    \/ OpenDataFile
    \/ ExportBootstrapData
    \/ WriteGenesis

-----------------------------------------------------------------------------
(* Properties *)

\* What the entries of a chain are by the rule the scripts state
\* (bitcoin_genesis.ts:327-329), said without the order in which they work: an
\* address belongs to the sender who named it first, a sender is credited to the
\* first address that is the sender's, whatever a later stake names, and every
\* stake deep enough is there.  Only the transactions whose validator could not
\* be looked up are left out.  The documented format of Bitcoin's stakes has
\* another rule, see StakesFollowFormat.
ExpectedEntries(c) ==
    LET named(tx) == ReadTx(c, tx).imuachainAddress
        stakes == {tx \in ToSet(fetched) \ unanswered :
                      ReadTx(c, tx) # Null
                      /\ ReadTx(c, tx).validatorAddress \in registered}
        first(S) == CHOOSE tx \in S : \A u \in S : u = tx \/ Earlier(tx, u)
        owner(a) == Sender(first({tx \in stakes : named(tx) = a}))
        accepted == {tx \in stakes : owner(named(tx)) = Sender(tx)}
        home(s) == named(first({tx \in accepted : Sender(tx) = s}))
    IN  {[clientTxId |-> tx.txid, clientAddress |-> Sender(tx),
          imuachainAddress |-> home(Sender(tx))] :
             tx \in {u \in accepted : height - u.height + 1 >= MinConfirmations}}

\* The entries a generator exports are those the ledger and the scripts' rule
\* call for, each once: neither the order in which the transactions were handed
\* over, nor the blocks found meanwhile, nor the lookups that failed and
\* succeeded later change who is credited (generateGenesisStakes of both scripts).
ExportMatchesLedger ==
    pc = "genesis" =>
        /\ ToSet(dataFile[chain]) = ExpectedEntries(chain)
        /\ Len(dataFile[chain]) = Cardinality(ExpectedEntries(chain))

\* In a file of entries a client address stands for one account and an account
\* for one client address, so that UTXOGateway.bootstrapHistoricalData can
\* register each of its pairs.
ExportedPairsRegister ==
    \A c \in UtxoChains : Complete(dataFile[c]) =>
        \A i, j \in DOMAIN dataFile[c] :
            dataFile[c][i].clientAddress = dataFile[c][j].clientAddress
            <=> dataFile[c][i].imuachainAddress = dataFile[c][j].imuachainAddress

\* docs/bitcoin-bootstrap-tx-format-spec.md of a transaction of Bitcoin that is
\* credited: it has exactly one output to the vault (lines 21 and 69), and it
\* names the address its sender named first, on any mismatch it is ignored
\* (lines 54-58 and 75-77).
OneVaultOutput(tx) == Len(tx.vaultOutputs) = 1
NamesItsAccount(tx, account) == ReadBitcoinTx(tx).imuachainAddress = account

\* Every entry the generator of Bitcoin exports comes from a transaction that
\* the format of bootstrap stakes admits.  isValidBootstrapTransaction looks for
\* outputs of at least the minimum only, and credits a stake that names another
\* address to the first one.
StakesFollowFormat ==
    pc = "genesis" /\ chain = "Bitcoin" =>
        \A e \in ToSet(dataFile["Bitcoin"]), tx \in ToSet(ledger["Bitcoin"]) :
            tx.txid = e.clientTxId =>
                OneVaultOutput(tx) /\ NamesItsAccount(tx, e.imuachainAddress)
==============================================================================
