----------------------------- MODULE UTXOGateway -----------------------------
(***************************************************************************)
(* core/UTXOGateway.sol: the gateway on Imuachain for chains without       *)
(* contracts (Bitcoin, XRPL, Dogecoin).  Witnesses, which watch the client *)
(* chain, sign a stake message for each transaction they see there; the    *)
(* gateway credits the stake to the Imuachain address registered for the   *)
(* sender, and queues withdrawals as peg-out requests that the witnesses   *)
(* pay out on the client chain.                                            *)
(*                                                                         *)
(* Everything but the witnesses, the number of proofs and the fee is kept  *)
(* per client chain, and no operation touches two of them: the model has   *)
(* one.  An action is one external function; a revert is an action that is *)
(* not enabled.  A signature is its verdict.                               *)
(***************************************************************************)
EXTENDS Integers, FiniteSets

CONSTANTS
    Witnesses,
    ClientAddresses,   \* accounts of the client chain
    ImAddresses,       \* accounts of Imuachain
    TxIds,             \* transactions of the client chain
    NoAddress,         \* empty bytes
    ZeroAddress,       \* address(0)
    ZeroTxId,          \* bytes32(0)
    StakeMsgs,         \* the messages witnesses may sign
    BootstrapEntries,  \* the history the owner may import
    Amounts,           \* amounts stakers pass
    RequiredProofs,    \* the thresholds owners ask for
    FeeRates,          \* the fees owners ask for, in basis points
    ProofTimeout,      \* PROOF_TIMEOUT
    MayPause,          \* whether the owner pauses in this instance
    MaxNonce,          \* bound: stakes and imported entries
    MaxPegOuts,        \* bound: peg-out requests
    MaxTime            \* bound: block.timestamp

Nonces == 1 .. MaxNonce
PegOutNonces == 1 .. MaxPegOuts
Accounts == ImAddresses \cup {ZeroAddress}
AllTxIds == TxIds \cup {ZeroTxId}
Operators == {"NONE", "VALID", "INVALID"}

ValidRequiredProofs == 1 .. 10    \* MIN_REQUIRED_PROOFS, MAX_REQUIRED_PROOFS
MaxBridgeFeeRate == 1000

StakeMsg == [nonce : Nonces, clientTxId : AllTxIds,
             clientAddress : ClientAddresses \cup {NoAddress},
             imuachainAddress : Accounts, operator : Operators, amount : Nat]
BootstrapEntry == [clientAddress : ClientAddresses \cup {NoAddress},
                   imuachainAddress : Accounts, clientTxId : AllTxIds]

ASSUME ZeroAssumption ==
    /\ ZeroAddress \notin ImAddresses
    /\ NoAddress \notin ClientAddresses
    /\ ZeroTxId \notin TxIds
ASSUME MessagesAssumption ==
    /\ StakeMsgs \subseteq StakeMsg
    /\ BootstrapEntries \subseteq BootstrapEntry
    /\ Amounts \subseteq Nat
ASSUME WitnessesAssumption == IsFiniteSet(Witnesses)
\* address, bytes32 and what is signed are words of fixed width.
ASSUME WordsAssumption ==
    /\ IsFiniteSet(ImAddresses)
    /\ IsFiniteSet(TxIds)
    /\ IsFiniteSet(StakeMsgs)
ASSUME LimitsAssumption ==
    /\ RequiredProofs \subseteq Nat
    /\ FeeRates \subseteq Nat
    /\ ProofTimeout \in Nat \ {0}
    /\ MaxNonce \in Nat
    /\ MaxPegOuts \in Nat
    /\ MayPause \in BOOLEAN

VARIABLES
    paused,
    now,                    \* block.timestamp
    requiredProofs,
    authorizedWitnesses,
    authorizedWitnessCount,
    bridgeFeeRate,
    transactions,           \* by message hash, that is, by message
    inboundNonce,
    clientTxIdToNonce,
    nonceToClientTxId,
    inboundRegistry,
    outboundRegistry,
    pegOutNonce,            \* requests made
    outboundNonce,          \* requests handed to the witnesses
    pegOutRequests,
    pegOutTxIds,
    tokenActivated,         \* ASSETS: chain and token are registered
    staked,                 \* ASSETS: [account] all that is not withdrawn
    withdrawable            \* ASSETS: [account] the part not delegated

witnessVars == <<requiredProofs, authorizedWitnesses, authorizedWitnessCount>>
registryVars == <<inboundRegistry, outboundRegistry>>
nonceVars == <<inboundNonce, clientTxIdToNonce, nonceToClientTxId>>
pegOutVars == <<pegOutNonce, outboundNonce, pegOutRequests, pegOutTxIds>>
ledgerVars == <<staked, withdrawable>>
vars == <<paused, now, witnessVars, bridgeFeeRate, transactions, nonceVars,
          registryVars, pegOutVars, tokenActivated, ledgerVars>>

Transaction == [status : {"NOT_STARTED_OR_PROCESSED", "PENDING", "EXPIRED"},
                proofCount : Nat, expiryTime : Nat,
                witnessTime : [Witnesses -> Nat]]
NewTransaction == [status |-> "NOT_STARTED_OR_PROCESSED", proofCount |-> 0,
                   expiryTime |-> 0, witnessTime |-> [w \in Witnesses |-> 0]]

PegOutRequest == [requester : Accounts,
                  clientAddress : ClientAddresses \cup {NoAddress},
                  amount : Nat,
                  withdrawType : {"UNDEFINED", "WITHDRAW_PRINCIPAL",
                                  "WITHDRAW_REWARD"}]
NoRequest == [requester |-> ZeroAddress, clientAddress |-> NoAddress,
              amount |-> 0, withdrawType |-> "UNDEFINED"]

TypeOK ==
    /\ paused \in BOOLEAN
    /\ now \in Nat
    /\ requiredProofs \in ValidRequiredProofs
    /\ authorizedWitnesses \subseteq Witnesses
    /\ authorizedWitnessCount \in Nat
    /\ bridgeFeeRate \in 0 .. MaxBridgeFeeRate
    /\ transactions \in [StakeMsgs -> Transaction]
    /\ inboundNonce \in 0 .. MaxNonce
    /\ clientTxIdToNonce \in [AllTxIds -> 0 .. MaxNonce]
    /\ nonceToClientTxId \in [Nonces -> AllTxIds]
    /\ inboundRegistry \in [ClientAddresses -> Accounts]
    /\ outboundRegistry \in [Accounts -> ClientAddresses \cup {NoAddress}]
    /\ pegOutNonce \in 0 .. MaxPegOuts
    /\ outboundNonce \in 0 .. MaxPegOuts
    /\ pegOutRequests \in [PegOutNonces -> PegOutRequest]
    /\ pegOutTxIds \in [PegOutNonces -> AllTxIds]
    /\ tokenActivated \in BOOLEAN
    /\ staked \in [Accounts -> Nat]
    /\ withdrawable \in [Accounts -> Nat]

\* initialize, on a gateway that has imported and received nothing.
Init ==
    /\ paused = FALSE
    /\ now = 1
    /\ requiredProofs \in RequiredProofs \cap ValidRequiredProofs
    /\ authorizedWitnesses \in SUBSET Witnesses \ {{}}
    /\ authorizedWitnessCount = Cardinality(authorizedWitnesses)
    /\ bridgeFeeRate = 0
    /\ transactions = [m \in StakeMsgs |-> NewTransaction]
    /\ inboundNonce = 0
    /\ clientTxIdToNonce = [tx \in AllTxIds |-> 0]
    /\ nonceToClientTxId = [n \in Nonces |-> ZeroTxId]
    /\ inboundRegistry = [c \in ClientAddresses |-> ZeroAddress]
    /\ outboundRegistry = [a \in Accounts |-> NoAddress]
    /\ pegOutNonce = 0
    /\ outboundNonce = 0
    /\ pegOutRequests = [n \in PegOutNonces |-> NoRequest]
    /\ pegOutTxIds = [n \in PegOutNonces |-> ZeroTxId]
    /\ tokenActivated = FALSE
    /\ staked = [a \in Accounts |-> 0]
    /\ withdrawable = [a \in Accounts |-> 0]

------------------------------------------------------------------------------
(* The owner.                                                              *)

Pause ==
    /\ MayPause
    /\ ~paused
    /\ paused' = TRUE
    /\ UNCHANGED <<now, witnessVars, bridgeFeeRate, transactions, nonceVars,
                   registryVars, pegOutVars, tokenActivated, ledgerVars>>

Unpause ==
    /\ paused
    /\ paused' = FALSE
    /\ UNCHANGED <<now, witnessVars, bridgeFeeRate, transactions, nonceVars,
                   registryVars, pegOutVars, tokenActivated, ledgerVars>>

\* Registers chain and token, or updates them if they are registered.
ActivateStakingForClientChain ==
    /\ ~paused
    /\ tokenActivated' = TRUE
    /\ UNCHANGED <<paused, now, witnessVars, bridgeFeeRate, transactions,
                   nonceVars, registryVars, pegOutVars, ledgerVars>>

UpdateRequiredProofs(proofs) ==
    /\ ~paused
    /\ proofs \in ValidRequiredProofs
    /\ requiredProofs' = proofs
    /\ UNCHANGED <<paused, now, authorizedWitnesses, authorizedWitnessCount,
                   bridgeFeeRate, transactions, nonceVars, registryVars,
                   pegOutVars, tokenActivated, ledgerVars>>

\* One witness after the other: all are new and distinct, or all revert.
AddWitnesses(added) ==
    /\ ~paused
    /\ added \cap authorizedWitnesses = {}
    /\ authorizedWitnesses' = authorizedWitnesses \cup added
    /\ authorizedWitnessCount' = authorizedWitnessCount + Cardinality(added)
    /\ UNCHANGED <<paused, now, requiredProofs, bridgeFeeRate, transactions,
                   nonceVars, registryVars, pegOutVars, tokenActivated,
                   ledgerVars>>

\* One witness after the other, and never the last.
RemoveWitnesses(removed) ==
    /\ ~paused
    /\ removed \subseteq authorizedWitnesses
    /\ authorizedWitnessCount - Cardinality(removed) >= 1
    /\ authorizedWitnesses' = authorizedWitnesses \ removed
    /\ authorizedWitnessCount' = authorizedWitnessCount - Cardinality(removed)
    /\ UNCHANGED <<paused, now, requiredProofs, bridgeFeeRate, transactions,
                   nonceVars, registryVars, pegOutVars, tokenActivated,
                   ledgerVars>>

UpdateBridgeFeeRate(rate) ==
    /\ ~paused
    /\ rate <= MaxBridgeFeeRate
    /\ bridgeFeeRate' = rate
    /\ UNCHANGED <<paused, now, witnessVars, transactions, nonceVars,
                   registryVars, pegOutVars, tokenActivated, ledgerVars>>

------------------------------------------------------------------------------
(* Nonces, transactions and addresses.                                     *)

IsConsensusRequired == authorizedWitnessCount >= requiredProofs

\* _processStakeMsg and bootstrapHistoricalData give the next nonce to a
\* transaction.
RecordTx(tx) ==
    /\ inboundNonce' = inboundNonce + 1
    /\ clientTxIdToNonce' = [clientTxIdToNonce EXCEPT ![tx] = inboundNonce + 1]
    /\ nonceToClientTxId' = [nonceToClientTxId EXCEPT ![inboundNonce + 1] = tx]

Unregistered(c, a) ==
    /\ inboundRegistry[c] = ZeroAddress
    /\ outboundRegistry[a] = NoAddress

RegisterAddress(c, a) ==
    /\ a # ZeroAddress
    /\ inboundRegistry' = [inboundRegistry EXCEPT ![c] = a]
    /\ outboundRegistry' = [outboundRegistry EXCEPT ![a] = c]

\* A registration that asks only whether the sender is known.
RegisterIfSenderNew(c, a) ==
    IF inboundRegistry[c] = ZeroAddress
    THEN RegisterAddress(c, a)
    ELSE UNCHANGED registryVars
\* A registration that asks only whether the account is known.
RegisterIfAccountNew(c, a) ==
    IF outboundRegistry[a] = NoAddress
    THEN RegisterAddress(c, a)
    ELSE UNCHANGED registryVars

\* An address that either side of the registry knows is not registered again.
RegisterIfNew(c, a) ==
    IF Unregistered(c, a)
    THEN RegisterAddress(c, a)
    ELSE UNCHANGED registryVars

\* The import of one entry; a longer import is one after the other.
BootstrapHistoricalData(e) ==
    /\ ~paused
    /\ inboundNonce < MaxNonce
    /\ e.clientAddress # NoAddress
    /\ e.imuachainAddress # ZeroAddress
    /\ clientTxIdToNonce[e.clientTxId] = 0
    /\ RecordTx(e.clientTxId)
    /\ RegisterIfNew(e.clientAddress, e.imuachainAddress)
    /\ UNCHANGED <<paused, now, witnessVars, bridgeFeeRate, transactions,
                   pegOutVars, tokenActivated, ledgerVars>>

------------------------------------------------------------------------------
(* Stake messages.                                                         *)

\* A verification that relies on the nonce alone against a second credit.
VerifyNonceOnly(m) ==
    /\ m.clientTxId # ZeroTxId
    /\ m.clientAddress # NoAddress
    /\ m.amount # 0
    /\ m.operator # "INVALID"
    /\ m.nonce = inboundNonce + 1

\* _verifyStakeMessage.
VerifyStakeMessage(m) ==
    /\ m.clientTxId # ZeroTxId
    /\ m.clientAddress # NoAddress
    /\ m.amount # 0
    /\ m.operator # "INVALID"
    /\ m.nonce = inboundNonce + 1
    /\ clientTxIdToNonce[m.clientTxId] = 0

AmountAfterFee(amount) == amount - (amount * bridgeFeeRate) \div 10000

\* depositLST, then delegate if the message names an operator; the stake is
\* kept when the delegation is refused.
DepositAndDelegate(staker, amount, delegated) ==
    /\ tokenActivated
    /\ staked' = [staked EXCEPT ![staker] = @ + amount]
    /\ withdrawable' = IF delegated
                       THEN withdrawable
                       ELSE [withdrawable EXCEPT ![staker] = @ + amount]

ProcessStakeMsg(m, accepted) ==
    /\ RecordTx(m.clientTxId)
    /\ RegisterIfNew(m.clientAddress, m.imuachainAddress)
    /\ DepositAndDelegate(inboundRegistry'[m.clientAddress],
                          AmountAfterFee(m.amount),
                          m.operator = "VALID" /\ accepted)

RevokeTxIfExpired(txn) ==
    IF txn.status = "PENDING" /\ now >= txn.expiryTime
    THEN [txn EXCEPT !.status = "EXPIRED"]
    ELSE txn

\* A proof joins the proofs of an open window, or opens one.
JoinProof(txn, w) ==
    [txn EXCEPT !.proofCount = @ + 1,
                !.witnessTime = [@ EXCEPT ![w] = now]]

\* A new window that goes on counting the proofs of the expired one.
ReopenProof(txn, w) ==
    [txn EXCEPT !.status = "PENDING",
                !.proofCount = @ + 1,
                !.expiryTime = now + ProofTimeout,
                !.witnessTime = [@ EXCEPT ![w] = now]]

OpenProof(txn, w) ==
    [txn EXCEPT !.status = "PENDING",
                !.proofCount = 1,
                !.expiryTime = now + ProofTimeout,
                !.witnessTime = [@ EXCEPT ![w] = now]]

\* A check that lets the witness that opened the window prove again at once.
MayJoinAtStart(txn, w) == txn.witnessTime[w] <= txn.expiryTime - ProofTimeout

\* A witness proves once per window.
MayJoin(txn, w) == txn.witnessTime[w] < txn.expiryTime - ProofTimeout

WithProof(txn, w) ==
    IF txn.status = "PENDING" THEN JoinProof(txn, w) ELSE OpenProof(txn, w)

\* delete transactions[messageHash], which leaves the mapping in it alone.
Deleted(txn) == [NewTransaction EXCEPT !.witnessTime = txn.witnessTime]

SubmitProofForStakeMsg(w, m, accepted) ==
    LET txn == RevokeTxIfExpired(transactions[m])
        proved == WithProof(txn, w)
    IN
    /\ ~paused
    /\ IsConsensusRequired
    /\ w \in authorizedWitnesses
    /\ VerifyStakeMessage(m)
    /\ txn.status = "PENDING" => MayJoin(txn, w)
    /\ IF proved.proofCount >= requiredProofs
       THEN /\ ProcessStakeMsg(m, accepted)
            /\ transactions' = [transactions EXCEPT ![m] = Deleted(proved)]
       ELSE /\ transactions' = [transactions EXCEPT ![m] = proved]
            /\ UNCHANGED <<nonceVars, registryVars, ledgerVars>>
    /\ UNCHANGED <<paused, now, witnessVars, bridgeFeeRate, pegOutVars,
                   tokenActivated>>

\* With too few witnesses for a quorum, one signature is enough.
ProcessStakeMessage(w, m, accepted) ==
    /\ ~paused
    /\ ~IsConsensusRequired
    /\ w \in authorizedWitnesses
    /\ VerifyStakeMessage(m)
    /\ ProcessStakeMsg(m, accepted)
    /\ UNCHANGED <<paused, now, witnessVars, bridgeFeeRate, transactions,
                   pegOutVars, tokenActivated>>

------------------------------------------------------------------------------
(* Stakers.                                                                *)

IsRegistered(a) == outboundRegistry[a] # NoAddress

DelegateTo(a, amount) ==
    /\ ~paused
    /\ amount # 0
    /\ IsRegistered(a)
    /\ amount <= withdrawable[a]
    /\ withdrawable' = [withdrawable EXCEPT ![a] = @ - amount]
    /\ UNCHANGED <<paused, now, witnessVars, bridgeFeeRate, transactions,
                   nonceVars, registryVars, pegOutVars, tokenActivated, staked>>

\* Unless instant, the amount is withdrawable only when it matures.
UndelegateFrom(a, amount, instantUnbond) ==
    /\ ~paused
    /\ amount # 0
    /\ IsRegistered(a)
    /\ amount <= staked[a] - withdrawable[a]
    /\ withdrawable' = IF instantUnbond
                       THEN [withdrawable EXCEPT ![a] = @ + amount]
                       ELSE withdrawable
    /\ UNCHANGED <<paused, now, witnessVars, bridgeFeeRate, transactions,
                   nonceVars, registryVars, pegOutVars, tokenActivated, staked>>

\* A request whose slot is not the one of its nonce once a request was served.
InitiatePegOutInOrderOfService(a, amount, withdrawType) ==
    /\ pegOutNonce < MaxPegOuts
    /\ pegOutNonce' = pegOutNonce + 1
    /\ pegOutRequests' = [pegOutRequests EXCEPT ![outboundNonce + 1] =
            [requester |-> a, clientAddress |-> outboundRegistry[a],
             amount |-> amount, withdrawType |-> withdrawType]]

InitiatePegOut(a, amount, withdrawType) ==
    /\ pegOutNonce < MaxPegOuts
    /\ pegOutNonce' = pegOutNonce + 1
    /\ pegOutRequests[pegOutNonce + 1].requester = ZeroAddress
    /\ pegOutRequests' = [pegOutRequests EXCEPT ![pegOutNonce + 1] =
            [requester |-> a, clientAddress |-> outboundRegistry[a],
             amount |-> amount, withdrawType |-> withdrawType]]

WithdrawPrincipal(a, amount) ==
    /\ ~paused
    /\ amount # 0
    /\ IsRegistered(a)
    /\ amount <= withdrawable[a]
    /\ staked' = [staked EXCEPT ![a] = @ - amount]
    /\ withdrawable' = [withdrawable EXCEPT ![a] = @ - amount]
    /\ InitiatePegOut(a, amount, "WITHDRAW_PRINCIPAL")
    /\ UNCHANGED <<paused, now, witnessVars, bridgeFeeRate, transactions,
                   nonceVars, registryVars, outboundNonce, pegOutTxIds,
                   tokenActivated>>

\* The REWARD precompile grants what it grants.
WithdrawReward(a, amount) ==
    /\ ~paused
    /\ amount # 0
    /\ IsRegistered(a)
    /\ InitiatePegOut(a, amount, "WITHDRAW_REWARD")
    /\ UNCHANGED <<paused, now, witnessVars, bridgeFeeRate, transactions,
                   nonceVars, registryVars, outboundNonce, pegOutTxIds,
                   tokenActivated, ledgerVars>>

------------------------------------------------------------------------------
(* Peg-outs.                                                               *)

IsPegoutRequestProcessed(n) == pegOutTxIds[n] # ZeroTxId

ProcessNextPegOutRequest(w) ==
    /\ ~paused
    /\ w \in authorizedWitnesses
    /\ outboundNonce < MaxPegOuts
    /\ ~IsPegoutRequestProcessed(outboundNonce + 1)
    /\ pegOutRequests[outboundNonce + 1].requester # ZeroAddress
    /\ outboundNonce' = outboundNonce + 1
    /\ UNCHANGED <<paused, now, witnessVars, bridgeFeeRate, transactions,
                   nonceVars, registryVars, pegOutNonce, pegOutRequests,
                   pegOutTxIds, tokenActivated, ledgerVars>>

\* A payment that may be recorded for a request still to be handed out.
MarkAnyPegOutRequest(w, n, pegOutTxId) ==
    /\ ~paused
    /\ w \in authorizedWitnesses
    /\ ~IsPegoutRequestProcessed(n)
    /\ n <= pegOutNonce
    /\ pegOutTxIds' = [pegOutTxIds EXCEPT ![n] = pegOutTxId]
    /\ UNCHANGED <<paused, now, witnessVars, bridgeFeeRate, transactions,
                   nonceVars, registryVars, pegOutNonce, outboundNonce,
                   pegOutRequests, tokenActivated, ledgerVars>>
\* A payment that replaces the one recorded before.
MarkPegOutRequestAgain(w, n, pegOutTxId) ==
    /\ ~paused
    /\ w \in authorizedWitnesses
    /\ n <= outboundNonce
    /\ pegOutTxIds' = [pegOutTxIds EXCEPT ![n] = pegOutTxId]
    /\ UNCHANGED <<paused, now, witnessVars, bridgeFeeRate, transactions,
                   nonceVars, registryVars, pegOutNonce, outboundNonce,
                   pegOutRequests, tokenActivated, ledgerVars>>

MarkPegOutRequestProcessed(w, n, pegOutTxId) ==
    /\ ~paused
    /\ w \in authorizedWitnesses
    /\ ~IsPegoutRequestProcessed(n)
    /\ n <= outboundNonce
    /\ pegOutTxIds' = [pegOutTxIds EXCEPT ![n] = pegOutTxId]
    /\ UNCHANGED <<paused, now, witnessVars, bridgeFeeRate, transactions,
                   nonceVars, registryVars, pegOutNonce, outboundNonce,
                   pegOutRequests, tokenActivated, ledgerVars>>

------------------------------------------------------------------------------
(* The rest of Imuachain: time passes, undelegated stake matures, and      *)
(* operators are slashed.                                                  *)

Tick ==
    /\ now < MaxTime
    /\ now' = now + 1
    /\ UNCHANGED <<paused, witnessVars, bridgeFeeRate, transactions, nonceVars,
                   registryVars, pegOutVars, tokenActivated, ledgerVars>>

Mature(a, amount) ==
    /\ amount <= staked[a] - withdrawable[a]
    /\ withdrawable' = [withdrawable EXCEPT ![a] = @ + amount]
    /\ UNCHANGED <<paused, now, witnessVars, bridgeFeeRate, transactions,
                   nonceVars, registryVars, pegOutVars, tokenActivated, staked>>

Slash(a, amount) ==
    /\ amount <= staked[a] - withdrawable[a]
    /\ staked' = [staked EXCEPT ![a] = @ - amount]
    /\ UNCHANGED <<paused, now, witnessVars, bridgeFeeRate, transactions,
                   nonceVars, registryVars, pegOutVars, tokenActivated,
                   withdrawable>>

------------------------------------------------------------------------------
OwnerStep ==
    \/ Pause
    \/ Unpause
    \/ ActivateStakingForClientChain
    \/ \E proofs \in RequiredProofs : UpdateRequiredProofs(proofs)
    \/ \E added \in SUBSET Witnesses : AddWitnesses(added)
    \/ \E removed \in SUBSET Witnesses : RemoveWitnesses(removed)
    \/ \E rate \in FeeRates : UpdateBridgeFeeRate(rate)
    \/ \E e \in BootstrapEntries : BootstrapHistoricalData(e)

StakeStep ==
    \E w \in Witnesses, m \in StakeMsgs, accepted \in BOOLEAN :
        \/ SubmitProofForStakeMsg(w, m, accepted)
        \/ ProcessStakeMessage(w, m, accepted)

StakerStep ==
    \E a \in ImAddresses, amount \in Amounts :
        \/ DelegateTo(a, amount)
        \/ \E instantUnbond \in BOOLEAN :
                UndelegateFrom(a, amount, instantUnbond)
        \/ WithdrawPrincipal(a, amount)
        \/ WithdrawReward(a, amount)

PegOutStep ==
    \E w \in Witnesses :
        \/ ProcessNextPegOutRequest(w)
        \/ \E n \in PegOutNonces, tx \in AllTxIds :
                MarkPegOutRequestProcessed(w, n, tx)

LedgerStep ==
    \E a \in Accounts, amount \in Amounts :
        \/ Mature(a, amount)
        \/ Slash(a, amount)

Next == OwnerStep \/ StakeStep \/ StakerStep \/ PegOutStep \/ LedgerStep \/ Tick

Spec == Init /\ [][Next]_vars
------------------------------------------------------------------------------
(* Properties.                                                             *)

\* Every credited nonce stands for a transaction of its own, and a
\* transaction is credited under one nonce: the two mappings that
\* _processStakeMsg and bootstrapHistoricalData write are inverse to each
\* other up to inboundNonce and empty beyond it.
NonceTxBijection ==
    /\ \A n \in 1 .. inboundNonce :
            clientTxIdToNonce[nonceToClientTxId[n]] = n
    /\ \A tx \in AllTxIds : clientTxIdToNonce[tx] # 0 =>
            /\ clientTxIdToNonce[tx] <= inboundNonce
            /\ nonceToClientTxId[clientTxIdToNonce[tx]] = tx

\* The two registries are inverse to each other, whichever of stakes and
\* imports registered the addresses, and whatever pairs they named:
\* withdrawals of an account go to the client address whose stakes it gets.
RegistryConsistent ==
    /\ \A c \in ClientAddresses : inboundRegistry[c] # ZeroAddress =>
            outboundRegistry[inboundRegistry[c]] = c
    /\ \A a \in Accounts : outboundRegistry[a] # NoAddress =>
            inboundRegistry[outboundRegistry[a]] = a

\* The witnesses that proved m in the window that is open.
ProversInWindow(m) ==
    {w \in Witnesses : transactions[m].witnessTime[w]
                            >= transactions[m].expiryTime - ProofTimeout}

\* While proofs for a message are collected, its proofCount is the number of
\* distinct witnesses that proved it since the window opened: none is counted
\* twice, none is carried over from a window that expired, and none is lost
\* (submitProofForStakeMsg, _revokeTxIfExpired).
ProofsAreCounted ==
    \A m \in StakeMsgs : transactions[m].status = "PENDING" =>
        transactions[m].proofCount = Cardinality(ProversInWindow(m))

\* A peg-out is paid to the client address whose stakes the requester gets.
\* The address was copied when the request was made; it is still right
\* because a registration is final.
PegOutPaysRequester ==
    \A n \in 1 .. pegOutNonce :
        /\ pegOutRequests[n].clientAddress \in ClientAddresses
        /\ inboundRegistry[pegOutRequests[n].clientAddress]
                = pegOutRequests[n].requester
        /\ outboundRegistry[pegOutRequests[n].requester]
                = pegOutRequests[n].clientAddress

\* The queue of peg-outs has no gaps, and no request is marked as paid before
\* it was handed out: otherwise processNextPegOutRequest would revert on it,
\* and the requests behind it would wait for ever.
PegOutQueueIntact ==
    /\ outboundNonce <= pegOutNonce
    /\ \A n \in PegOutNonces :
        /\ (pegOutRequests[n].requester # ZeroAddress) <=> (n <= pegOutNonce)
        /\ IsPegoutRequestProcessed(n) => n <= outboundNonce

Credited(m) == staked' # staked /\ inboundNonce' = m.nonce
                 /\ nonceToClientTxId'[m.nonce] = m.clientTxId

\* The quorum: when a stake is credited while consensus is required, at least
\* requiredProofs distinct witnesses have signed one message for that nonce
\* and transaction, all within the last PROOF_TIMEOUT.
StakeHasQuorum ==
    inboundNonce' # inboundNonce /\ staked' # staked /\ IsConsensusRequired =>
        \E m \in StakeMsgs :
            /\ Credited(m)
            /\ Cardinality({w \in Witnesses :
                    transactions'[m].witnessTime[w] > now - ProofTimeout})
                    >= requiredProofs
QuorumWithinWindow == [][StakeHasQuorum]_vars

\* UTXOGateway.sol:934 calls the account that _processStakeMsg credits the
\* registered Imuachain address: whenever a stake is credited, the account
\* that gets it is registered.
StakesGoToRegistered ==
    [][\A a \in Accounts :
        inboundNonce' # inboundNonce /\ staked'[a] > staked[a]
            => outboundRegistry'[a] # NoAddress]_vars
==============================================================================
