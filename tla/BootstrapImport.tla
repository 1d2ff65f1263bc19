---------------------------- MODULE BootstrapImport ----------------------------
(***************************************************************************)
(* importBootstrapData.ts: the entries a generator exported are imported   *)
(* into UTXOGateway, batch after batch, each a transaction of the owner.   *)
(* A transaction that was sent is mined later or never, whether or not the *)
(* script still waits for it; the script may die and be started again; and *)
(* everybody else goes on using the gateway.                               *)
(***************************************************************************)
EXTENDS UTXOGateway, Sequences

CONSTANTS
    DataFiles,      \* what btc_bootstrap_data.json may hold
    BatchSize,      \* BATCH_SIZE
    MaxImports      \* bound: runs of the script

ASSUME ImportAssumption ==
    /\ DataFiles \subseteq Seq(BootstrapEntry)
    /\ BatchSize \in Nat \ {0}
    /\ MaxImports \in Nat

VARIABLES
    allBootstrapData,   \* the entries of the file
    importer,           \* where the script is
    initialNonce,
    processedEntries,
    mempool,            \* batches sent and not mined, in order
    imports

importVars == <<allBootstrapData, importer, initialNonce, processedEntries,
                mempool, imports>>

ImportInit ==
    /\ allBootstrapData \in DataFiles
    /\ importer = "idle"
    /\ initialNonce = 0
    /\ processedEntries = 0
    /\ mempool = <<>>
    /\ imports = 0

-----------------------------------------------------------------------------
(* bootstrapHistoricalData with a batch: entry after entry, or nothing     *)

\* An entry without an address, or with a transaction that is known, be it from
\* an entry before, makes the whole call revert.
MayImport(batch) ==
    /\ ~paused
    /\ batch # <<>>
    /\ \A i \in DOMAIN batch :
        /\ batch[i].clientAddress # NoAddress
        /\ batch[i].imuachainAddress # ZeroAddress
        /\ clientTxIdToNonce[batch[i].clientTxId] = 0
        /\ \A k \in DOMAIN batch :
            batch[k].clientTxId = batch[i].clientTxId => k = i

\* The entries take the next nonces, in their order.
RecordBatch(batch) ==
    LET EntriesOf(tx) == {i \in DOMAIN batch : batch[i].clientTxId = tx}
    IN  /\ inboundNonce' = inboundNonce + Len(batch)
        /\ clientTxIdToNonce' = [tx \in AllTxIds |->
                IF EntriesOf(tx) = {} THEN clientTxIdToNonce[tx]
                ELSE inboundNonce + (CHOOSE i \in EntriesOf(tx) : TRUE)]
        /\ nonceToClientTxId' = [n \in Nonces |->
                IF n - inboundNonce \in DOMAIN batch
                THEN batch[n - inboundNonce].clientTxId
                ELSE nonceToClientTxId[n]]

\* An entry registers its addresses if neither is known, be it from an entry
\* before that registers.
Registers(batch, new) ==
    \A i \in DOMAIN batch : i \in new <=>
        /\ Unregistered(batch[i].clientAddress, batch[i].imuachainAddress)
        /\ \A k \in new : k < i =>
            /\ batch[k].clientAddress # batch[i].clientAddress
            /\ batch[k].imuachainAddress # batch[i].imuachainAddress

RegisterBatch(batch, new) ==
    LET ByClient(c) == {i \in new : batch[i].clientAddress = c}
        ByAccount(a) == {i \in new : batch[i].imuachainAddress = a}
    IN  /\ Registers(batch, new)
        /\ inboundRegistry' = [c \in ClientAddresses |->
                IF ByClient(c) = {} THEN inboundRegistry[c]
                ELSE batch[CHOOSE i \in ByClient(c) : TRUE].imuachainAddress]
        /\ outboundRegistry' = [a \in Accounts |->
                IF ByAccount(a) = {} THEN outboundRegistry[a]
                ELSE batch[CHOOSE i \in ByAccount(a) : TRUE].clientAddress]

BootstrapBatch(batch) ==
    /\ RecordBatch(batch)
    /\ \E new \in SUBSET DOMAIN batch : RegisterBatch(batch, new)
    /\ UNCHANGED <<paused, now, witnessVars, bridgeFeeRate, transactions,
                   pegOutVars, tokenActivated, ledgerVars>>

-----------------------------------------------------------------------------
(* The script *)

\* loadBootstrapData, validateBootstrapData: a file that is not empty and names
\* an address in every entry.  It has no eye for the zero address.
ValidBootstrapData(data) ==
    /\ data # <<>>
    /\ \A i \in DOMAIN data : data[i].clientAddress # NoAddress

StartImport ==
    /\ importer \in {"idle", "failed", "succeeded"}
    /\ imports < MaxImports
    /\ imports' = imports + 1
    /\ processedEntries' = 0
    /\ importer' = IF ValidBootstrapData(allBootstrapData) THEN "initial"
                                                           ELSE "failed"
    /\ UNCHANGED <<vars, allBootstrapData, initialNonce, mempool>>

ReadInitialNonce ==
    /\ importer = "initial"
    /\ initialNonce' = inboundNonce
    /\ importer' = "estimate"
    /\ UNCHANGED <<vars, allBootstrapData, processedEntries, mempool, imports>>

\* The next entries, the last batch being shorter.
NextBatch ==
    LET left == Len(allBootstrapData) - processedEntries
        size == IF left < BatchSize THEN left ELSE BatchSize
    IN  SubSeq(allBootstrapData, processedEntries + 1, processedEntries + size)

\* estimateGas executes the call: one that would revert is not sent, be it for
\* TxTagAlreadyProcessed, where the script returns false, or another error,
\* which it throws; both exit with an error.
SendBatch ==
    /\ importer = "estimate"
    /\ inboundNonce + Len(NextBatch) <= MaxNonce
    /\ IF MayImport(NextBatch)
       THEN /\ mempool' = Append(mempool, NextBatch)
            /\ importer' = "wait"
       ELSE /\ importer' = "failed"
            /\ UNCHANGED mempool
    /\ UNCHANGED <<vars, allBootstrapData, initialNonce, processedEntries, imports>>

\* The first transaction of the owner is mined; it may revert by now.  The
\* script that waits for it counts its entries or throws.
MineBatch ==
    /\ mempool # <<>>
    /\ inboundNonce + Len(Head(mempool)) <= MaxNonce
    /\ mempool' = Tail(mempool)
    /\ IF MayImport(Head(mempool))
       THEN BootstrapBatch(Head(mempool)) ELSE UNCHANGED vars
    /\ IF importer = "wait" /\ Len(mempool) = 1
       THEN IF MayImport(Head(mempool))
            THEN LET done == processedEntries + Len(Head(mempool))
                 IN  /\ processedEntries' = done
                     /\ importer' = IF done = Len(allBootstrapData)
                                        THEN "verify" ELSE "estimate"
            ELSE /\ importer' = "failed"
                 /\ UNCHANGED processedEntries
       ELSE UNCHANGED <<importer, processedEntries>>
    /\ UNCHANGED <<allBootstrapData, initialNonce, imports>>

\* A transaction nobody waits for is dropped.
DropBatch ==
    /\ importer # "wait"
    /\ mempool # <<>>
    /\ mempool' = Tail(mempool)
    /\ UNCHANGED <<vars, allBootstrapData, importer, initialNonce,
                   processedEntries, imports>>

\* The final verification: as many nonces were used as there are entries.
AllProcessed == processedEntries = Len(allBootstrapData)
NonceMatches == inboundNonce = initialNonce + Len(allBootstrapData)
VerifyNonce ==
    /\ importer = "verify"
    /\ importer' = IF NonceMatches THEN "succeeded" ELSE "failed"
    /\ UNCHANGED <<vars, allBootstrapData, initialNonce, processedEntries,
                   mempool, imports>>

\* The script dies, or a request of it fails; what it sent remains sent.
ImportStops ==
    /\ importer \in {"initial", "estimate", "wait", "verify"}
    /\ importer' = "failed"
    /\ UNCHANGED <<vars, allBootstrapData, initialNonce, processedEntries,
                   mempool, imports>>

ImportStep ==
    \/ StartImport \/ ReadInitialNonce \/ SendBatch \/ MineBatch
    \/ DropBatch \/ VerifyNonce \/ ImportStops

-----------------------------------------------------------------------------
(* Properties *)

\* An import that reports success has given the file's entries, and nothing
\* else, the nonces that follow the one it found: the genesis of the chain and
\* the gateway list the same transactions in the same order.  The script looks
\* at the number of nonces only (bootstrapInBatches), while witnesses, the
\* owner and batches of an earlier run compete for them.
SuccessIsExact ==
    importer = "succeeded" =>
        \A i \in DOMAIN allBootstrapData :
            nonceToClientTxId[initialNonce + i] = allBootstrapData[i].clientTxId

\* After an import that found a fresh gateway and reports success, every staker
\* of the file is registered with the account that was credited at genesis: a
\* stake seen meanwhile has not taken an address of either side.  Of a file the
\* generators wrote, see StakeScan!ExportedPairsRegister.
ImportRegistersStakers ==
    importer = "succeeded" /\ initialNonce = 0 =>
        \A i \in DOMAIN allBootstrapData :
            LET e == allBootstrapData[i]
            IN  /\ inboundRegistry[e.clientAddress] = e.imuachainAddress
                /\ outboundRegistry[e.imuachainAddress] = e.clientAddress
==============================================================================
