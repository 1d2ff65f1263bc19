-------------------------- MODULE UTXOBridge_proofs --------------------------
(***************************************************************************)
(* Theorems about UTXOGateway, for any witnesses, accounts, messages and   *)
(* bounds: its types, nonces, registry, peg-out queue and quorum, that it  *)
(* implements PegLedger, and that what is staked has been paid in.         *)
(***************************************************************************)
EXTENDS UTXOBridge, SequenceTheorems, SumTheorems

USE ZeroAssumption, MessagesAssumption, WitnessesAssumption, LimitsAssumption

------------------------------------------------------------------------------
(* Type correctness.                                                       *)

\* No account has more withdrawable than it has staked: what the subtractions
\* of withdrawals and slashing rely on.
LedgerOK == \A a \in Accounts : withdrawable[a] <= staked[a]

\* The fee is never more than the amount it is taken from.
LEMMA FeeIsCovered ==
    ASSUME TypeOK, NEW amount \in Nat
    PROVE  AmountAfterFee(amount) \in Nat
<1> DEFINE fee == (amount * bridgeFeeRate) \div 10000
<1>1. bridgeFeeRate \in Nat /\ bridgeFeeRate <= 1000
  BY DEF TypeOK, MaxBridgeFeeRate
<1>2. PICK product \in Nat : product = amount * bridgeFeeRate
  BY <1>1
<1>3. product <= amount * 1000
  BY <1>1, <1>2
<1>4. product \div 10000 \in Nat /\ product \div 10000 <= amount
  BY <1>3
<1> QED
  BY <1>2, <1>4 DEF AmountAfterFee

LEMMA TransactionTypes ==
    ASSUME NEW txn \in Transaction, NEW w \in Witnesses, TypeOK
    PROVE  /\ RevokeTxIfExpired(txn) \in Transaction
           /\ JoinProof(txn, w) \in Transaction
           /\ OpenProof(txn, w) \in Transaction
           /\ WithProof(txn, w) \in Transaction
           /\ Deleted(txn) \in Transaction
<1>1. now \in Nat /\ ProofTimeout \in Nat
  BY DEF TypeOK
<1>2. PICK times \in [Witnesses -> Nat] :
            times = [txn.witnessTime EXCEPT ![w] = now]
  BY <1>1 DEF Transaction
<1>3. RevokeTxIfExpired(txn) \in Transaction
  BY DEF RevokeTxIfExpired, Transaction
<1>4. JoinProof(txn, w) \in Transaction
  <2>1. PICK count \in Nat : count = txn.proofCount + 1
    BY DEF Transaction
  <2>2. JoinProof(txn, w) = [txn EXCEPT !.proofCount = count,
                                        !.witnessTime = times]
    BY <1>2, <2>1 DEF JoinProof
  <2> QED
    BY <2>2 DEF Transaction
<1>5. OpenProof(txn, w) \in Transaction
  <2>1. PICK expiry \in Nat : expiry = now + ProofTimeout
    BY <1>1
  <2>2. PICK opened \in Transaction :
            opened = [txn EXCEPT !.status = "PENDING", !.proofCount = 1]
    BY DEF Transaction
  <2>3. OpenProof(txn, w) = [opened EXCEPT !.expiryTime = expiry,
                                           !.witnessTime = times]
    BY <1>2, <2>1, <2>2 DEF OpenProof, Transaction
  <2> QED
    BY <2>3 DEF Transaction
<1>6. WithProof(txn, w) \in Transaction
  BY <1>4, <1>5 DEF WithProof
<1>7. Deleted(txn) \in Transaction
  BY DEF Deleted, NewTransaction, Transaction
<1> QED
  BY <1>3, <1>4, <1>5, <1>6, <1>7

LEMMA InitTypes == Init => TypeOK /\ LedgerOK
<1> SUFFICES ASSUME Init PROVE TypeOK /\ LedgerOK
  OBVIOUS
<1>1. authorizedWitnesses \subseteq Witnesses /\ authorizedWitnessCount \in Nat
  BY FS_Subset, FS_CardinalityType DEF Init
<1>2. transactions \in [StakeMsgs -> Transaction]
  BY DEF Init, Transaction, NewTransaction
<1>3. pegOutRequests \in [PegOutNonces -> PegOutRequest]
  BY DEF Init, PegOutRequest, NoRequest, Accounts
<1>4. /\ inboundNonce \in 0 .. MaxNonce
      /\ clientTxIdToNonce \in [AllTxIds -> 0 .. MaxNonce]
      /\ nonceToClientTxId \in [Nonces -> AllTxIds]
  BY DEF Init, AllTxIds
<1>5. /\ inboundRegistry \in [ClientAddresses -> Accounts]
      /\ outboundRegistry \in [Accounts -> ClientAddresses \cup {NoAddress}]
  BY DEF Init, Accounts
<1>6. /\ pegOutNonce \in 0 .. MaxPegOuts
      /\ outboundNonce \in 0 .. MaxPegOuts
      /\ pegOutTxIds \in [PegOutNonces -> AllTxIds]
  BY DEF Init, AllTxIds
<1>7. /\ staked \in [Accounts -> Nat]
      /\ withdrawable \in [Accounts -> Nat]
      /\ LedgerOK
  BY DEF Init, LedgerOK
<1>8. now \in Nat /\ bridgeFeeRate \in 0 .. MaxBridgeFeeRate
  BY DEF Init, MaxBridgeFeeRate
<1>9. requiredProofs \in ValidRequiredProofs
  BY DEF Init
<1>10. paused \in BOOLEAN /\ tokenActivated \in BOOLEAN
  BY DEF Init
<1> QED
  BY <1>1, <1>2, <1>3, <1>4, <1>5, <1>6, <1>7, <1>8, <1>9, <1>10 DEF TypeOK

LEMMA RecordTxTypes ==
    ASSUME TypeOK, NEW tx \in AllTxIds, inboundNonce < MaxNonce, RecordTx(tx)
    PROVE  /\ inboundNonce' \in 0 .. MaxNonce
           /\ clientTxIdToNonce' \in [AllTxIds -> 0 .. MaxNonce]
           /\ nonceToClientTxId' \in [Nonces -> AllTxIds]
<1>1. inboundNonce + 1 \in 0 .. MaxNonce /\ inboundNonce + 1 \in Nonces
  BY DEF TypeOK, Nonces
<1> QED
  BY <1>1 DEF TypeOK, RecordTx

LEMMA RegisterTypes ==
    ASSUME TypeOK, NEW c \in ClientAddresses, NEW a \in Accounts,
           RegisterIfNew(c, a)
    PROVE  /\ inboundRegistry' \in [ClientAddresses -> Accounts]
           /\ outboundRegistry' \in
                    [Accounts -> ClientAddresses \cup {NoAddress}]
BY DEF TypeOK, RegisterIfNew, RegisterAddress, registryVars

LEMMA ProcessTypes ==
    ASSUME TypeOK, LedgerOK, NEW m \in StakeMsgs, NEW accepted \in BOOLEAN,
           VerifyStakeMessage(m), ProcessStakeMsg(m, accepted)
    PROVE  /\ inboundNonce' \in 0 .. MaxNonce
           /\ clientTxIdToNonce' \in [AllTxIds -> 0 .. MaxNonce]
           /\ nonceToClientTxId' \in [Nonces -> AllTxIds]
           /\ inboundRegistry' \in [ClientAddresses -> Accounts]
           /\ outboundRegistry' \in
                    [Accounts -> ClientAddresses \cup {NoAddress}]
           /\ staked' \in [Accounts -> Nat]
           /\ withdrawable' \in [Accounts -> Nat]
           /\ LedgerOK'
<1>1. /\ m.nonce \in Nonces
      /\ m.clientTxId \in AllTxIds
      /\ m.clientAddress \in ClientAddresses
      /\ m.imuachainAddress \in Accounts
      /\ m.amount \in Nat
  BY DEF StakeMsg, VerifyStakeMessage
<1>2. inboundNonce < MaxNonce
  BY <1>1 DEF VerifyStakeMessage, Nonces, TypeOK
<1>3. /\ RecordTx(m.clientTxId)
      /\ RegisterIfNew(m.clientAddress, m.imuachainAddress)
  BY DEF ProcessStakeMsg
<1>4. /\ inboundRegistry' \in [ClientAddresses -> Accounts]
      /\ outboundRegistry' \in [Accounts -> ClientAddresses \cup {NoAddress}]
  BY <1>1, <1>3, RegisterTypes
<1>5. PICK net \in Nat : net = AmountAfterFee(m.amount)
  BY <1>1, FeeIsCovered
<1>6. PICK staker \in Accounts : staker = inboundRegistry'[m.clientAddress]
  BY <1>1, <1>4
<1>7. PICK delegated \in BOOLEAN :
            delegated = (m.operator = "VALID" /\ accepted)
  OBVIOUS
<1>8. DepositAndDelegate(staker, net, delegated)
  BY <1>5, <1>6, <1>7 DEF ProcessStakeMsg
<1>9. /\ staked' \in [Accounts -> Nat]
      /\ withdrawable' \in [Accounts -> Nat]
      /\ LedgerOK'
  BY <1>8 DEF DepositAndDelegate, TypeOK, LedgerOK
<1> QED
  BY <1>1, <1>2, <1>3, <1>4, <1>9, RecordTxTypes

LEMMA OwnerTypes == TypeOK /\ LedgerOK /\ OwnerStep => TypeOK' /\ LedgerOK'
<1> SUFFICES ASSUME TypeOK, LedgerOK, OwnerStep
             PROVE  TypeOK' /\ LedgerOK'
  OBVIOUS
<1> USE DEF TypeOK, LedgerOK, witnessVars, nonceVars, registryVars,
     pegOutVars, ledgerVars
<1>1. CASE Pause
  BY <1>1 DEF Pause
<1>2. CASE Unpause
  BY <1>2 DEF Unpause
<1>3. CASE ActivateStakingForClientChain
  BY <1>3 DEF ActivateStakingForClientChain
<1>4. ASSUME NEW proofs \in RequiredProofs, UpdateRequiredProofs(proofs)
      PROVE  TypeOK' /\ LedgerOK'
  BY <1>4 DEF UpdateRequiredProofs
<1>5. ASSUME NEW added \in SUBSET Witnesses, AddWitnesses(added)
      PROVE  TypeOK' /\ LedgerOK'
  <2>1. Cardinality(added) \in Nat
    BY FS_Subset, FS_CardinalityType
  <2> QED
    BY <1>5, <2>1 DEF AddWitnesses
<1>6. ASSUME NEW removed \in SUBSET Witnesses, RemoveWitnesses(removed)
      PROVE  TypeOK' /\ LedgerOK'
  <2>1. Cardinality(removed) \in Nat
    BY FS_Subset, FS_CardinalityType
  <2> QED
    BY <1>6, <2>1 DEF RemoveWitnesses
<1>7. ASSUME NEW rate \in FeeRates, UpdateBridgeFeeRate(rate)
      PROVE  TypeOK' /\ LedgerOK'
  BY <1>7 DEF UpdateBridgeFeeRate, MaxBridgeFeeRate
<1>8. ASSUME NEW e \in BootstrapEntries, BootstrapHistoricalData(e)
      PROVE  TypeOK' /\ LedgerOK'
  <2>1. /\ e.clientAddress \in ClientAddresses
        /\ e.imuachainAddress \in Accounts
        /\ e.clientTxId \in AllTxIds
        /\ inboundNonce < MaxNonce
        /\ RecordTx(e.clientTxId)
        /\ RegisterIfNew(e.clientAddress, e.imuachainAddress)
    BY <1>8 DEF BootstrapHistoricalData, BootstrapEntry
  <2>2. /\ inboundNonce' \in 0 .. MaxNonce
        /\ clientTxIdToNonce' \in [AllTxIds -> 0 .. MaxNonce]
        /\ nonceToClientTxId' \in [Nonces -> AllTxIds]
    BY <2>1, RecordTxTypes
  <2>3. /\ inboundRegistry' \in [ClientAddresses -> Accounts]
        /\ outboundRegistry' \in
                [Accounts -> ClientAddresses \cup {NoAddress}]
    BY <2>1, RegisterTypes
  <2> QED
    BY <1>8, <2>2, <2>3 DEF BootstrapHistoricalData
<1> QED
  BY <1>1, <1>2, <1>3, <1>4, <1>5, <1>6, <1>7, <1>8 DEF OwnerStep

LEMMA StakeTypes == TypeOK /\ LedgerOK /\ StakeStep => TypeOK' /\ LedgerOK'
<1> SUFFICES ASSUME TypeOK, LedgerOK,
                    NEW w \in Witnesses, NEW m \in StakeMsgs,
                    NEW accepted \in BOOLEAN,
                    \/ SubmitProofForStakeMsg(w, m, accepted)
                    \/ ProcessStakeMessage(w, m, accepted)
             PROVE  TypeOK' /\ LedgerOK'
  BY DEF StakeStep
<1>1. VerifyStakeMessage(m)
  BY DEF SubmitProofForStakeMsg, ProcessStakeMessage
<1>2. transactions' \in [StakeMsgs -> Transaction]
  <2>1. PICK txn \in Transaction : txn = RevokeTxIfExpired(transactions[m])
    BY TransactionTypes DEF TypeOK
  <2>2. PICK proved \in Transaction : proved = WithProof(txn, w)
    BY TransactionTypes
  <2>3. Deleted(proved) \in Transaction
    BY TransactionTypes
  <2>4. CASE SubmitProofForStakeMsg(w, m, accepted)
    <3>1. \/ transactions' = [transactions EXCEPT ![m] = Deleted(proved)]
          \/ transactions' = [transactions EXCEPT ![m] = proved]
      BY <2>1, <2>2, <2>4 DEF SubmitProofForStakeMsg
    <3> QED
      BY <2>3, <3>1 DEF TypeOK
  <2>5. CASE ProcessStakeMessage(w, m, accepted)
    BY <2>5 DEF ProcessStakeMessage, TypeOK
  <2> QED
    BY <2>4, <2>5
<1>3. \/ ProcessStakeMsg(m, accepted)
      \/ UNCHANGED <<nonceVars, registryVars, ledgerVars>>
  BY DEF SubmitProofForStakeMsg, ProcessStakeMessage
<1>4. /\ inboundNonce' \in 0 .. MaxNonce
      /\ clientTxIdToNonce' \in [AllTxIds -> 0 .. MaxNonce]
      /\ nonceToClientTxId' \in [Nonces -> AllTxIds]
      /\ inboundRegistry' \in [ClientAddresses -> Accounts]
      /\ outboundRegistry' \in [Accounts -> ClientAddresses \cup {NoAddress}]
      /\ staked' \in [Accounts -> Nat]
      /\ withdrawable' \in [Accounts -> Nat]
      /\ LedgerOK'
  <2>1. CASE ProcessStakeMsg(m, accepted)
    BY <1>1, <2>1, ProcessTypes
  <2>2. CASE UNCHANGED <<nonceVars, registryVars, ledgerVars>>
    BY <2>2 DEF nonceVars, registryVars, ledgerVars, TypeOK, LedgerOK
  <2> QED
    BY <1>3, <2>1, <2>2
<1>5. UNCHANGED <<paused, now, witnessVars, bridgeFeeRate, pegOutVars,
                  tokenActivated>>
  BY DEF SubmitProofForStakeMsg, ProcessStakeMessage
<1> QED
  BY <1>2, <1>4, <1>5 DEF TypeOK, witnessVars, pegOutVars

LEMMA StakerTypes == TypeOK /\ LedgerOK /\ StakerStep => TypeOK' /\ LedgerOK'
<1> SUFFICES ASSUME TypeOK, LedgerOK,
                    NEW a \in ImAddresses, NEW amount \in Amounts,
                    \/ DelegateTo(a, amount)
                    \/ \E instantUnbond \in BOOLEAN :
                            UndelegateFrom(a, amount, instantUnbond)
                    \/ WithdrawPrincipal(a, amount)
                    \/ WithdrawReward(a, amount)
             PROVE  TypeOK' /\ LedgerOK'
  BY DEF StakerStep
<1>1. a \in Accounts /\ amount \in Nat
  BY DEF Accounts
<1>2. ASSUME NEW withdrawType \in {"WITHDRAW_PRINCIPAL", "WITHDRAW_REWARD"},
             InitiatePegOut(a, amount, withdrawType)
      PROVE  /\ pegOutNonce' \in 0 .. MaxPegOuts
             /\ pegOutRequests' \in [PegOutNonces -> PegOutRequest]
  <2>1. PICK request \in PegOutRequest :
            request = [requester |-> a, clientAddress |-> outboundRegistry[a],
                       amount |-> amount, withdrawType |-> withdrawType]
    BY <1>1 DEF PegOutRequest, TypeOK
  <2>2. /\ pegOutNonce' \in 0 .. MaxPegOuts
        /\ pegOutNonce + 1 \in PegOutNonces
    BY <1>2 DEF InitiatePegOut, TypeOK, PegOutNonces
  <2>3. pegOutRequests' = [pegOutRequests EXCEPT ![pegOutNonce + 1] = request]
    BY <1>2, <2>1 DEF InitiatePegOut
  <2> QED
    BY <2>2, <2>3 DEF TypeOK
<1>3. CASE DelegateTo(a, amount)
  <2>1. /\ withdrawable' \in [Accounts -> Nat]
        /\ LedgerOK'
    BY <1>1, <1>3 DEF DelegateTo, TypeOK, LedgerOK
  <2> QED
    BY <1>3, <2>1 DEF DelegateTo, TypeOK, witnessVars, nonceVars,
       registryVars, pegOutVars
<1>4. ASSUME NEW instantUnbond \in BOOLEAN,
             UndelegateFrom(a, amount, instantUnbond)
      PROVE  TypeOK' /\ LedgerOK'
  <2>1. /\ withdrawable' \in [Accounts -> Nat]
        /\ LedgerOK'
    BY <1>1, <1>4 DEF UndelegateFrom, TypeOK, LedgerOK
  <2> QED
    BY <1>4, <2>1 DEF UndelegateFrom, TypeOK, witnessVars, nonceVars,
       registryVars, pegOutVars
<1>5. CASE WithdrawPrincipal(a, amount)
  <2>1. /\ staked' \in [Accounts -> Nat]
        /\ withdrawable' \in [Accounts -> Nat]
        /\ LedgerOK'
    BY <1>1, <1>5 DEF WithdrawPrincipal, TypeOK, LedgerOK
  <2>2. /\ pegOutNonce' \in 0 .. MaxPegOuts
        /\ pegOutRequests' \in [PegOutNonces -> PegOutRequest]
    BY <1>2, <1>5 DEF WithdrawPrincipal
  <2> QED
    BY <1>5, <2>1, <2>2 DEF WithdrawPrincipal, TypeOK, witnessVars, nonceVars,
       registryVars
<1>6. CASE WithdrawReward(a, amount)
  <2>1. /\ pegOutNonce' \in 0 .. MaxPegOuts
        /\ pegOutRequests' \in [PegOutNonces -> PegOutRequest]
    BY <1>2, <1>6 DEF WithdrawReward
  <2> QED
    BY <1>6, <2>1 DEF WithdrawReward, TypeOK, LedgerOK, witnessVars, nonceVars,
       registryVars, ledgerVars
<1> QED
  BY <1>3, <1>4, <1>5, <1>6

LEMMA PegOutTypes == TypeOK /\ LedgerOK /\ PegOutStep => TypeOK' /\ LedgerOK'
<1> SUFFICES ASSUME TypeOK, LedgerOK, NEW w \in Witnesses,
                    \/ ProcessNextPegOutRequest(w)
                    \/ \E n \in PegOutNonces, tx \in AllTxIds :
                            MarkPegOutRequestProcessed(w, n, tx)
             PROVE  TypeOK' /\ LedgerOK'
  BY DEF PegOutStep
<1> USE DEF TypeOK, LedgerOK, witnessVars, nonceVars, registryVars, ledgerVars
<1>1. CASE ProcessNextPegOutRequest(w)
  BY <1>1 DEF ProcessNextPegOutRequest
<1>2. ASSUME NEW n \in PegOutNonces, NEW tx \in AllTxIds,
             MarkPegOutRequestProcessed(w, n, tx)
      PROVE  TypeOK' /\ LedgerOK'
  BY <1>2 DEF MarkPegOutRequestProcessed
<1> QED
  BY <1>1, <1>2

LEMMA LedgerTypes == TypeOK /\ LedgerOK /\ LedgerStep => TypeOK' /\ LedgerOK'
<1> SUFFICES ASSUME TypeOK, LedgerOK, NEW a \in Accounts, NEW amount \in Amounts,
                    Mature(a, amount) \/ Slash(a, amount)
             PROVE  TypeOK' /\ LedgerOK'
  BY DEF LedgerStep
<1>1. /\ staked' \in [Accounts -> Nat]
      /\ withdrawable' \in [Accounts -> Nat]
      /\ LedgerOK'
  BY DEF Mature, Slash, TypeOK, LedgerOK
<1> QED
  BY <1>1 DEF Mature, Slash, TypeOK, witnessVars, nonceVars, registryVars,
     pegOutVars

LEMMA TypesPreserved ==
    TypeOK /\ LedgerOK /\ [Next]_vars => TypeOK' /\ LedgerOK'
<1> SUFFICES ASSUME TypeOK, LedgerOK, [Next]_vars
             PROVE  TypeOK' /\ LedgerOK'
  OBVIOUS
<1>1. CASE Tick
  BY <1>1 DEF Tick, TypeOK, LedgerOK, witnessVars, nonceVars, registryVars,
     pegOutVars, ledgerVars
<1>2. CASE UNCHANGED vars
  BY <1>2 DEF vars, TypeOK, LedgerOK, witnessVars, nonceVars, registryVars,
     pegOutVars, ledgerVars
<1> QED
  BY <1>1, <1>2, OwnerTypes, StakeTypes, StakerTypes, PegOutTypes, LedgerTypes
     DEF Next

\* Every variable keeps its type: balances, counts, nonces and times never go
\* below zero, whatever is submitted, withdrawn, slashed or charged, and every
\* nonce stays within the bounds of its mappings.
THEOREM TypeCorrect == Spec => [](TypeOK /\ LedgerOK)
<1>1. Init => TypeOK /\ LedgerOK
  BY InitTypes
<1>2. TypeOK /\ LedgerOK /\ [Next]_vars => (TypeOK /\ LedgerOK)'
  BY TypesPreserved
<1> QED
  BY <1>1, <1>2, PTL DEF Spec

------------------------------------------------------------------------------
(* Nonces and transactions.                                                *)

\* Only imports and stakes touch nonces and registries.
LEMMA QuietSteps ==
    ASSUME [Next]_vars
    PROVE  \/ UNCHANGED <<nonceVars, registryVars>>
           \/ \E e \in BootstrapEntries : BootstrapHistoricalData(e)
           \/ StakeStep
<1>1. CASE OwnerStep
  BY <1>1 DEF OwnerStep, Pause, Unpause, ActivateStakingForClientChain,
     UpdateRequiredProofs, AddWitnesses, RemoveWitnesses, UpdateBridgeFeeRate
<1>2. CASE StakerStep
  BY <1>2 DEF StakerStep, DelegateTo, UndelegateFrom, WithdrawPrincipal,
     WithdrawReward
<1>3. CASE PegOutStep
  BY <1>3 DEF PegOutStep, ProcessNextPegOutRequest, MarkPegOutRequestProcessed
<1>4. CASE LedgerStep \/ Tick
  BY <1>4 DEF LedgerStep, Mature, Slash, Tick
<1>5. CASE UNCHANGED vars
  BY <1>5 DEF vars
<1> QED
  BY <1>1, <1>2, <1>3, <1>4, <1>5 DEF Next

\* What an import or a stake does: it gives the next nonce to a transaction
\* that has none, and registers two addresses only if both are new.
LEMMA RecordingSteps ==
    ASSUME TypeOK,
           \/ \E e \in BootstrapEntries : BootstrapHistoricalData(e)
           \/ StakeStep
    PROVE  \/ UNCHANGED <<nonceVars, registryVars>>
           \/ \E tx \in AllTxIds, c \in ClientAddresses, a \in Accounts :
                /\ inboundNonce < MaxNonce
                /\ clientTxIdToNonce[tx] = 0
                /\ RecordTx(tx)
                /\ RegisterIfNew(c, a)
<1>1. ASSUME NEW e \in BootstrapEntries, BootstrapHistoricalData(e)
      PROVE  \E tx \in AllTxIds, c \in ClientAddresses, a \in Accounts :
                /\ inboundNonce < MaxNonce
                /\ clientTxIdToNonce[tx] = 0
                /\ RecordTx(tx)
                /\ RegisterIfNew(c, a)
  <2>1. /\ e.clientAddress \in ClientAddresses
        /\ e.imuachainAddress \in Accounts
        /\ e.clientTxId \in AllTxIds
    BY <1>1 DEF BootstrapHistoricalData, BootstrapEntry
  <2> QED
    BY <1>1, <2>1 DEF BootstrapHistoricalData
<1>2. ASSUME NEW w \in Witnesses, NEW m \in StakeMsgs, NEW accepted \in BOOLEAN,
             VerifyStakeMessage(m), ProcessStakeMsg(m, accepted)
      PROVE  \E tx \in AllTxIds, c \in ClientAddresses, a \in Accounts :
                /\ inboundNonce < MaxNonce
                /\ clientTxIdToNonce[tx] = 0
                /\ RecordTx(tx)
                /\ RegisterIfNew(c, a)
  <2>1. /\ m.clientAddress \in ClientAddresses
        /\ m.imuachainAddress \in Accounts
        /\ m.clientTxId \in AllTxIds
        /\ m.nonce \in Nonces
    BY <1>2 DEF VerifyStakeMessage, StakeMsg
  <2>2. inboundNonce < MaxNonce
    BY <1>2, <2>1 DEF VerifyStakeMessage, Nonces, TypeOK
  <2> QED
    BY <1>2, <2>1, <2>2 DEF VerifyStakeMessage, ProcessStakeMsg
<1>3. ASSUME NEW w \in Witnesses, NEW m \in StakeMsgs, NEW accepted \in BOOLEAN,
             \/ SubmitProofForStakeMsg(w, m, accepted)
             \/ ProcessStakeMessage(w, m, accepted)
      PROVE  \/ UNCHANGED <<nonceVars, registryVars>>
             \/ VerifyStakeMessage(m) /\ ProcessStakeMsg(m, accepted)
  BY <1>3 DEF SubmitProofForStakeMsg, ProcessStakeMessage
<1> QED
  BY <1>1, <1>2, <1>3 DEF StakeStep

LEMMA NonceStep ==
    ASSUME TypeOK, NonceTxBijection, NEW tx \in AllTxIds,
           inboundNonce < MaxNonce, clientTxIdToNonce[tx] = 0, RecordTx(tx)
    PROVE  NonceTxBijection'
<1> DEFINE next == inboundNonce + 1
<1>1. /\ inboundNonce' = next
      /\ next \in Nonces
      /\ clientTxIdToNonce'[tx] = next
      /\ nonceToClientTxId'[next] = tx
  BY DEF RecordTx, TypeOK, Nonces
<1>2. ASSUME NEW n \in 1 .. inboundNonce'
      PROVE  clientTxIdToNonce'[nonceToClientTxId'[n]] = n
  <2>1. CASE n = next
    BY <1>1, <2>1
  <2>2. CASE n # next
    <3>1. n \in 1 .. inboundNonce /\ n \in Nonces
      BY <1>1, <2>2 DEF TypeOK, Nonces
    <3>2. nonceToClientTxId'[n] = nonceToClientTxId[n]
      BY <2>2, <3>1 DEF RecordTx, TypeOK
    <3>3. clientTxIdToNonce[nonceToClientTxId[n]] = n
      BY <3>1 DEF NonceTxBijection
    <3>4. nonceToClientTxId[n] # tx /\ nonceToClientTxId[n] \in AllTxIds
      BY <3>1, <3>3 DEF TypeOK
    <3> QED
      BY <3>2, <3>3, <3>4 DEF RecordTx, TypeOK
  <2> QED
    BY <2>1, <2>2
<1>3. ASSUME NEW other \in AllTxIds, clientTxIdToNonce'[other] # 0
      PROVE  /\ clientTxIdToNonce'[other] <= inboundNonce'
             /\ nonceToClientTxId'[clientTxIdToNonce'[other]] = other
  <2>1. CASE other = tx
    BY <1>1, <2>1 DEF TypeOK
  <2>2. CASE other # tx
    <3>1. clientTxIdToNonce'[other] = clientTxIdToNonce[other]
      BY <2>2 DEF RecordTx, TypeOK
    <3>2. PICK n \in Nonces : n = clientTxIdToNonce[other]
      BY <1>3, <3>1 DEF TypeOK, Nonces
    <3>3. n <= inboundNonce /\ nonceToClientTxId[n] = other
      BY <1>3, <3>1, <3>2 DEF NonceTxBijection
    <3>4. nonceToClientTxId'[n] = nonceToClientTxId[n]
      BY <3>2, <3>3 DEF RecordTx, TypeOK, Nonces
    <3> QED
      BY <1>1, <3>1, <3>2, <3>3, <3>4 DEF TypeOK, Nonces
  <2> QED
    BY <2>1, <2>2
<1> QED
  BY <1>2, <1>3 DEF NonceTxBijection

LEMMA NoncesPreserved ==
    TypeOK /\ NonceTxBijection /\ [Next]_vars => NonceTxBijection'
<1> SUFFICES ASSUME TypeOK, NonceTxBijection, [Next]_vars
             PROVE  NonceTxBijection'
  OBVIOUS
<1>1. CASE UNCHANGED <<nonceVars, registryVars>>
  BY <1>1 DEF NonceTxBijection, nonceVars
<1>2. CASE \E tx \in AllTxIds, c \in ClientAddresses, a \in Accounts :
                /\ inboundNonce < MaxNonce
                /\ clientTxIdToNonce[tx] = 0
                /\ RecordTx(tx)
                /\ RegisterIfNew(c, a)
  BY <1>2, NonceStep
<1> QED
  BY <1>1, <1>2, QuietSteps, RecordingSteps

LEMMA InitNonces == Init => NonceTxBijection
BY DEF Init, NonceTxBijection

\* Nonces and credited transactions stay in bijection over any sequence of
\* imports, proofs and single-witness stakes: no transaction is credited
\* twice, whatever the witnesses sign.
THEOREM NoncesCorrect == Spec => []NonceTxBijection
  BY InitNonces, NoncesPreserved, TypeCorrect, PTL DEF Spec

------------------------------------------------------------------------------
(* The registry and the queue of peg-outs.                                 *)

\* Nothing is registered under address(0).
NobodyUnregistered == outboundRegistry[ZeroAddress] = NoAddress

RegistryInv == RegistryConsistent /\ NobodyUnregistered

\* A step registers two addresses that were both new, or none.
LEMMA RegistrySteps ==
    ASSUME TypeOK, [Next]_vars
    PROVE  \/ UNCHANGED registryVars
           \/ \E c \in ClientAddresses, a \in ImAddresses :
                Unregistered(c, a) /\ RegisterAddress(c, a)
<1>1. ASSUME NEW c \in ClientAddresses, NEW a \in Accounts, RegisterIfNew(c, a)
      PROVE  \/ UNCHANGED registryVars
             \/ /\ a \in ImAddresses
                /\ Unregistered(c, a) /\ RegisterAddress(c, a)
  BY <1>1 DEF RegisterIfNew, RegisterAddress, Accounts
<1> QED
  BY <1>1, QuietSteps, RecordingSteps

LEMMA RegisterStep ==
    ASSUME TypeOK, RegistryInv, NEW c \in ClientAddresses, NEW a \in ImAddresses,
           Unregistered(c, a), RegisterAddress(c, a)
    PROVE  RegistryInv'
<1>1. /\ inboundRegistry'[c] = a
      /\ outboundRegistry'[a] = c
      /\ a \in Accounts /\ a # ZeroAddress
      /\ c # NoAddress
  BY DEF RegisterAddress, TypeOK, Accounts
<1>2. ASSUME NEW d \in ClientAddresses, inboundRegistry'[d] # ZeroAddress
      PROVE  outboundRegistry'[inboundRegistry'[d]] = d
  <2>1. CASE d = c
    BY <1>1, <2>1
  <2>2. CASE d # c
    <3>1. PICK b \in Accounts : b = inboundRegistry[d]
      BY DEF TypeOK
    <3>2. inboundRegistry'[d] = b
      BY <2>2, <3>1 DEF RegisterAddress, TypeOK
    <3>3. outboundRegistry[b] = d
      BY <1>2, <3>1, <3>2 DEF RegistryInv, RegistryConsistent
    <3>4. b # a
      BY <3>3 DEF Unregistered
    <3> QED
      BY <3>2, <3>3, <3>4 DEF RegisterAddress, TypeOK
  <2> QED
    BY <2>1, <2>2
<1>3. ASSUME NEW b \in Accounts, outboundRegistry'[b] # NoAddress
      PROVE  inboundRegistry'[outboundRegistry'[b]] = b
  <2>1. CASE b = a
    BY <1>1, <2>1
  <2>2. CASE b # a
    <3>1. outboundRegistry'[b] = outboundRegistry[b]
      BY <2>2 DEF RegisterAddress, TypeOK
    <3>2. PICK d \in ClientAddresses : d = outboundRegistry[b]
      BY <1>3, <3>1 DEF TypeOK
    <3>3. inboundRegistry[d] = b
      BY <1>3, <3>1, <3>2 DEF RegistryInv, RegistryConsistent
    <3>4. b # ZeroAddress
      BY <1>3, <3>1 DEF RegistryInv, NobodyUnregistered
    <3>5. d # c
      BY <3>3, <3>4 DEF Unregistered
    <3> QED
      BY <3>1, <3>2, <3>3, <3>5 DEF RegisterAddress, TypeOK
  <2> QED
    BY <2>1, <2>2
<1>4. NobodyUnregistered'
  BY <1>1 DEF RegisterAddress, RegistryInv, NobodyUnregistered, TypeOK, Accounts
<1> QED
  BY <1>2, <1>3, <1>4 DEF RegistryInv, RegistryConsistent

LEMMA RegistryPreserved ==
    TypeOK /\ RegistryInv /\ [Next]_vars => RegistryInv'
<1> SUFFICES ASSUME TypeOK, RegistryInv, [Next]_vars PROVE RegistryInv'
  OBVIOUS
<1>1. CASE UNCHANGED registryVars
  BY <1>1 DEF registryVars, RegistryInv, RegistryConsistent, NobodyUnregistered
<1>2. CASE \E c \in ClientAddresses, a \in ImAddresses :
                Unregistered(c, a) /\ RegisterAddress(c, a)
  BY <1>2, RegisterStep
<1> QED
  BY <1>1, <1>2, RegistrySteps

LEMMA InitRegistry == Init => RegistryInv
BY DEF Init, RegistryInv, RegistryConsistent, NobodyUnregistered, Accounts

\* The two registries stay inverse to each other whatever pairs of addresses
\* stakes and imports name, in whatever order.
THEOREM RegistryCorrect == Spec => []RegistryConsistent
<1>1. RegistryInv => RegistryConsistent
  BY DEF RegistryInv
<1> QED
  BY <1>1, InitRegistry, RegistryPreserved, TypeCorrect, PTL DEF Spec

PegOutInv == PegOutQueueIntact /\ PegOutPaysRequester

\* What a step does to the queue.
LEMMA PegOutSteps ==
    ASSUME [Next]_vars
    PROVE  \/ UNCHANGED pegOutVars
           \/ /\ \E a \in ImAddresses, amount \in Amounts,
                    withdrawType \in {"WITHDRAW_PRINCIPAL", "WITHDRAW_REWARD"} :
                        /\ IsRegistered(a)
                        /\ InitiatePegOut(a, amount, withdrawType)
              /\ UNCHANGED <<outboundNonce, pegOutTxIds, registryVars>>
           \/ \E w \in Witnesses :
                \/ ProcessNextPegOutRequest(w)
                \/ \E n \in PegOutNonces, tx \in AllTxIds :
                        MarkPegOutRequestProcessed(w, n, tx)
<1>1. CASE OwnerStep
  BY <1>1 DEF OwnerStep, Pause, Unpause, ActivateStakingForClientChain,
     UpdateRequiredProofs, AddWitnesses, RemoveWitnesses, UpdateBridgeFeeRate,
     BootstrapHistoricalData
<1>2. CASE StakeStep
  BY <1>2 DEF StakeStep, SubmitProofForStakeMsg, ProcessStakeMessage
<1>3. CASE StakerStep
  <2> SUFFICES ASSUME NEW a \in ImAddresses, NEW amount \in Amounts,
                      \/ DelegateTo(a, amount)
                      \/ \E instantUnbond \in BOOLEAN :
                              UndelegateFrom(a, amount, instantUnbond)
                      \/ WithdrawPrincipal(a, amount)
                      \/ WithdrawReward(a, amount)
               PROVE  \/ UNCHANGED pegOutVars
                      \/ /\ IsRegistered(a)
                         /\ \/ InitiatePegOut(a, amount, "WITHDRAW_PRINCIPAL")
                            \/ InitiatePegOut(a, amount, "WITHDRAW_REWARD")
                         /\ UNCHANGED <<outboundNonce, pegOutTxIds,
                                        registryVars>>
    BY <1>3 DEF StakerStep
  <2> QED
    BY DEF DelegateTo, UndelegateFrom, WithdrawPrincipal, WithdrawReward
<1>4. CASE LedgerStep \/ Tick
  BY <1>4 DEF LedgerStep, Mature, Slash, Tick
<1>5. CASE UNCHANGED vars
  BY <1>5 DEF vars
<1> QED
  BY <1>1, <1>2, <1>3, <1>4, <1>5 DEF Next, PegOutStep

LEMMA RequestStep ==
    ASSUME TypeOK, RegistryInv, PegOutInv,
           NEW a \in ImAddresses, NEW amount \in Amounts,
           NEW withdrawType \in {"WITHDRAW_PRINCIPAL", "WITHDRAW_REWARD"},
           IsRegistered(a), InitiatePegOut(a, amount, withdrawType),
           UNCHANGED <<outboundNonce, pegOutTxIds, registryVars>>
    PROVE  PegOutInv'
<1> DEFINE next == pegOutNonce + 1
<1>1. /\ pegOutNonce' = next
      /\ next \in PegOutNonces
      /\ a \in Accounts /\ a # ZeroAddress
  BY DEF InitiatePegOut, TypeOK, PegOutNonces, Accounts
<1>2. /\ pegOutRequests'[next].requester = a
      /\ pegOutRequests'[next].clientAddress = outboundRegistry[a]
  BY <1>1 DEF InitiatePegOut, TypeOK
<1>3. ASSUME NEW n \in PegOutNonces, n # next
      PROVE  pegOutRequests'[n] = pegOutRequests[n]
  BY <1>3 DEF InitiatePegOut, TypeOK
<1>4. /\ inboundRegistry[outboundRegistry[a]] = a
      /\ outboundRegistry[a] \in ClientAddresses
  BY <1>1 DEF IsRegistered, RegistryInv, RegistryConsistent, TypeOK
<1>5. PegOutQueueIntact'
  <2>1. outboundNonce' <= pegOutNonce'
    BY <1>1 DEF PegOutInv, PegOutQueueIntact, TypeOK
  <2>2. ASSUME NEW n \in PegOutNonces
        PROVE  (pegOutRequests'[n].requester # ZeroAddress)
                    <=> (n <= pegOutNonce')
    <3>1. CASE n = next
      BY <1>1, <1>2, <3>1 DEF TypeOK
    <3>2. CASE n # next
      <4>1. (n <= next) <=> (n <= pegOutNonce)
        BY <3>2 DEF TypeOK, PegOutNonces
      <4> QED
        BY <1>1, <1>3, <3>2, <4>1 DEF PegOutInv, PegOutQueueIntact
    <3> QED
      BY <3>1, <3>2
  <2>3. ASSUME NEW n \in PegOutNonces, IsPegoutRequestProcessed(n)'
        PROVE  n <= outboundNonce'
    BY <2>3 DEF PegOutInv, PegOutQueueIntact, IsPegoutRequestProcessed
  <2> QED
    BY <2>1, <2>2, <2>3 DEF PegOutQueueIntact
<1>6. ASSUME NEW n \in 1 .. pegOutNonce'
      PROVE  /\ pegOutRequests'[n].clientAddress \in ClientAddresses
             /\ inboundRegistry[pegOutRequests'[n].clientAddress]
                    = pegOutRequests'[n].requester
             /\ outboundRegistry[pegOutRequests'[n].requester]
                    = pegOutRequests'[n].clientAddress
  <2>1. CASE n = next
    BY <1>2, <1>4, <2>1
  <2>2. CASE n # next
    <3>1. n \in 1 .. pegOutNonce /\ n \in PegOutNonces
      BY <1>1, <2>2 DEF TypeOK, PegOutNonces
    <3> QED
      BY <1>3, <2>2, <3>1 DEF PegOutInv, PegOutPaysRequester
  <2> QED
    BY <2>1, <2>2
<1>7. PegOutPaysRequester'
  BY <1>6 DEF PegOutPaysRequester, registryVars
<1> QED
  BY <1>5, <1>7 DEF PegOutInv

\* A registration does not touch the two addresses of a request.
LEMMA RequestsKeepOwner ==
    ASSUME TypeOK, RegistryInv, PegOutInv, UNCHANGED pegOutVars,
           NEW c \in ClientAddresses, NEW a \in ImAddresses,
           Unregistered(c, a), RegisterAddress(c, a)
    PROVE  PegOutPaysRequester'
<1> SUFFICES ASSUME NEW n \in 1 .. pegOutNonce
             PROVE  /\ pegOutRequests[n].clientAddress \in ClientAddresses
                    /\ inboundRegistry'[pegOutRequests[n].clientAddress]
                            = pegOutRequests[n].requester
                    /\ outboundRegistry'[pegOutRequests[n].requester]
                            = pegOutRequests[n].clientAddress
  BY DEF PegOutPaysRequester, pegOutVars
<1>1. n \in PegOutNonces
  BY DEF TypeOK, PegOutNonces
<1>2. PICK d \in ClientAddresses, b \in Accounts :
        /\ d = pegOutRequests[n].clientAddress
        /\ b = pegOutRequests[n].requester
        /\ inboundRegistry[d] = b
        /\ outboundRegistry[b] = d
  BY <1>1 DEF PegOutInv, PegOutPaysRequester, TypeOK, PegOutRequest
<1>3. b # ZeroAddress
  BY <1>1, <1>2 DEF PegOutInv, PegOutQueueIntact, TypeOK, PegOutNonces
<1>4. d # c /\ b # a
  BY <1>2, <1>3 DEF Unregistered
<1> QED
  BY <1>2, <1>4 DEF RegisterAddress, TypeOK

LEMMA PegOutPreserved ==
    TypeOK /\ RegistryInv /\ PegOutInv /\ [Next]_vars => PegOutInv'
<1> SUFFICES ASSUME TypeOK, RegistryInv, PegOutInv, [Next]_vars
             PROVE  PegOutInv'
  OBVIOUS
<1>1. CASE UNCHANGED pegOutVars
  <2>1. PegOutQueueIntact'
    BY <1>1 DEF pegOutVars, PegOutInv, PegOutQueueIntact,
       IsPegoutRequestProcessed
  <2>2. CASE UNCHANGED registryVars
    BY <1>1, <2>1, <2>2 DEF pegOutVars, registryVars, PegOutInv,
       PegOutPaysRequester
  <2>3. CASE \E c \in ClientAddresses, a \in ImAddresses :
                Unregistered(c, a) /\ RegisterAddress(c, a)
    BY <1>1, <2>1, <2>3, RequestsKeepOwner DEF PegOutInv
  <2> QED
    BY <2>2, <2>3, RegistrySteps
<1>2. ASSUME NEW w \in Witnesses, ProcessNextPegOutRequest(w)
      PROVE  PegOutInv'
  <2>1. /\ outboundNonce' = outboundNonce + 1
        /\ outboundNonce + 1 \in PegOutNonces
        /\ pegOutRequests[outboundNonce + 1].requester # ZeroAddress
        /\ UNCHANGED <<pegOutNonce, pegOutRequests, pegOutTxIds,
                       inboundRegistry, outboundRegistry>>
    BY <1>2 DEF ProcessNextPegOutRequest, TypeOK, PegOutNonces, registryVars
  <2>2. outboundNonce' <= pegOutNonce'
    BY <2>1 DEF PegOutInv, PegOutQueueIntact
  <2>3. PegOutQueueIntact'
    BY <2>1, <2>2 DEF PegOutInv, PegOutQueueIntact, IsPegoutRequestProcessed,
       TypeOK, PegOutNonces
  <2>4. PegOutPaysRequester'
    BY <2>1 DEF PegOutInv, PegOutPaysRequester
  <2> QED
    BY <2>3, <2>4 DEF PegOutInv
<1>3. ASSUME NEW w \in Witnesses, NEW n \in PegOutNonces, NEW tx \in AllTxIds,
             MarkPegOutRequestProcessed(w, n, tx)
      PROVE  PegOutInv'
  <2>1. /\ n <= outboundNonce
        /\ pegOutTxIds' = [pegOutTxIds EXCEPT ![n] = tx]
        /\ UNCHANGED <<pegOutNonce, outboundNonce, pegOutRequests,
                       inboundRegistry, outboundRegistry>>
    BY <1>3 DEF MarkPegOutRequestProcessed, registryVars
  <2>2. PegOutQueueIntact'
    BY <2>1 DEF PegOutInv, PegOutQueueIntact, IsPegoutRequestProcessed, TypeOK
  <2>3. PegOutPaysRequester'
    BY <2>1 DEF PegOutInv, PegOutPaysRequester
  <2> QED
    BY <2>2, <2>3 DEF PegOutInv
<1> QED
  BY <1>1, <1>2, <1>3, PegOutSteps, RequestStep

LEMMA InitPegOuts == Init => PegOutInv
BY DEF Init, PegOutInv, PegOutQueueIntact, PegOutPaysRequester,
   IsPegoutRequestProcessed, PegOutNonces, NoRequest

LEMMA PegOutsCorrect == Spec => []PegOutInv
BY InitRegistry, RegistryPreserved, InitPegOuts, PegOutPreserved, TypeCorrect,
   PTL DEF Spec

\* Requests fill the queue without gaps, are handed out in order, and are
\* marked as paid only after they were handed out, so that
\* processNextPegOutRequest never reverts while a request waits.
THEOREM QueueCorrect == Spec => []PegOutQueueIntact
<1>1. PegOutInv => PegOutQueueIntact
  BY DEF PegOutInv
<1> QED
  BY <1>1, PegOutsCorrect, PTL

\* A peg-out is paid to the client address whose stakes its requester gets,
\* for ever after the address was copied into the request.
THEOREM PayeeCorrect == Spec => []PegOutPaysRequester
<1>1. PegOutInv => PegOutPaysRequester
  BY DEF PegOutInv
<1> QED
  BY <1>1, PegOutsCorrect, PTL

------------------------------------------------------------------------------
(* The quorum.                                                             *)

\* What makes counting right: a window opened in the past, and proofs are
\* given before it ends, so that the proofs of an expired window are older
\* than the start of the next; and a message whose proofs were deleted is
\* never proved again, because its nonce is used up.
WindowInv ==
    /\ now >= 1
    /\ \A m \in StakeMsgs :
        /\ transactions[m].status # "EXPIRED"
        /\ transactions[m].status = "PENDING" =>
            /\ transactions[m].expiryTime - ProofTimeout \in 1 .. now
            /\ \A w \in Witnesses :
                    transactions[m].witnessTime[w] < transactions[m].expiryTime
        /\ transactions[m].status = "NOT_STARTED_OR_PROCESSED" =>
            \/ m.nonce <= inboundNonce
            \/ \A w \in Witnesses : transactions[m].witnessTime[w] = 0

QuorumInv == ProofsAreCounted /\ WindowInv

ProversOf(txn) ==
    {w \in Witnesses : txn.witnessTime[w] >= txn.expiryTime - ProofTimeout}

\* What holds of a transaction whose proofs are being collected.
Collecting(txn) ==
    /\ txn \in Transaction
    /\ txn.status = "PENDING"
    /\ txn.proofCount = Cardinality(ProversOf(txn))
    /\ txn.expiryTime - ProofTimeout \in 1 .. now
    /\ now < txn.expiryTime
    /\ \A w \in Witnesses : txn.witnessTime[w] < txn.expiryTime

LEMMA JoinCounts ==
    ASSUME TypeOK, NEW w \in Witnesses, NEW txn,
           Collecting(txn), MayJoin(txn, w)
    PROVE  Collecting(JoinProof(txn, w))
<1>1. txn \in Transaction /\ now \in Nat /\ ProofTimeout \in Nat
  BY DEF Collecting, TypeOK
<1>2. PICK joined \in Transaction : joined = JoinProof(txn, w)
  BY <1>1, TransactionTypes
<1>3. /\ joined.status = "PENDING"
      /\ joined.proofCount = txn.proofCount + 1
      /\ joined.expiryTime = txn.expiryTime
      /\ joined.witnessTime = [txn.witnessTime EXCEPT ![w] = now]
  BY <1>1, <1>2 DEF JoinProof, Transaction, Collecting
<1>4. \A v \in Witnesses :
        joined.witnessTime[v] = IF v = w THEN now ELSE txn.witnessTime[v]
  BY <1>1, <1>3 DEF Transaction
<1>5. ProversOf(joined) = ProversOf(txn) \cup {w}
  BY <1>1, <1>3, <1>4 DEF ProversOf, Collecting
<1>6. w \notin ProversOf(txn)
  BY <1>1 DEF ProversOf, MayJoin, Transaction
<1>7. IsFiniteSet(ProversOf(txn))
  BY FS_Subset DEF ProversOf
<1>8. Cardinality(ProversOf(joined)) = Cardinality(ProversOf(txn)) + 1
  BY <1>5, <1>6, <1>7, FS_AddElement
<1> QED
  BY <1>1, <1>2, <1>3, <1>4, <1>8 DEF Collecting

LEMMA OpenCounts ==
    ASSUME TypeOK, NEW w \in Witnesses, NEW txn \in Transaction, now >= 1,
           \A v \in Witnesses : txn.witnessTime[v] < now
    PROVE  Collecting(OpenProof(txn, w))
<1>1. now \in Nat /\ ProofTimeout \in Nat /\ ProofTimeout # 0
  BY DEF TypeOK
<1>2. PICK opened \in Transaction : opened = OpenProof(txn, w)
  BY <1>1, TransactionTypes
<1>3. /\ opened.status = "PENDING"
      /\ opened.proofCount = 1
      /\ opened.expiryTime = now + ProofTimeout
      /\ opened.witnessTime = [txn.witnessTime EXCEPT ![w] = now]
  BY <1>1, <1>2 DEF OpenProof, Transaction
<1>4. \A v \in Witnesses :
        opened.witnessTime[v] = IF v = w THEN now ELSE txn.witnessTime[v]
  BY <1>1, <1>3 DEF Transaction
<1>5. opened.expiryTime - ProofTimeout = now
  BY <1>1, <1>3
<1>6. ProversOf(opened) = {w}
  <2>1. \A v \in Witnesses : txn.witnessTime[v] \in Nat
    BY DEF Transaction
  <2> QED
    BY <1>1, <1>4, <1>5, <2>1 DEF ProversOf
<1>7. Cardinality(ProversOf(opened)) = 1
  BY <1>6, FS_Singleton
<1>8. now < opened.expiryTime
  BY <1>1, <1>3
<1>9. \A v \in Witnesses : opened.witnessTime[v] < opened.expiryTime
  <2>1. \A v \in Witnesses : txn.witnessTime[v] \in Nat
    BY DEF Transaction
  <2> QED
    BY <1>1, <1>3, <1>4, <2>1
<1>10. opened.expiryTime - ProofTimeout \in 1 .. now
  BY <1>1, <1>5
<1> QED
  BY <1>2, <1>3, <1>7, <1>8, <1>9, <1>10 DEF Collecting

\* The proof of a witness that submitProofForStakeMsg accepts is counted, and
\* counted right.
LEMMA ProofCounted ==
    ASSUME TypeOK, QuorumInv, NEW w \in Witnesses, NEW m \in StakeMsgs,
           VerifyStakeMessage(m),
           NEW txn, txn = RevokeTxIfExpired(transactions[m]),
           txn.status = "PENDING" => MayJoin(txn, w)
    PROVE  Collecting(WithProof(txn, w))
<1>1. PICK old \in Transaction : old = transactions[m]
  BY DEF TypeOK
<1>2. /\ now \in Nat /\ now >= 1
      /\ old.status # "EXPIRED"
      /\ old.expiryTime \in Nat
      /\ \A v \in Witnesses : old.witnessTime[v] \in Nat
  BY <1>1 DEF TypeOK, QuorumInv, WindowInv, Transaction
<1>3. CASE old.status = "PENDING" /\ now < old.expiryTime
  <2>1. txn = old
    BY <1>1, <1>2, <1>3 DEF RevokeTxIfExpired
  <2>2. Collecting(old)
    BY <1>1, <1>3 DEF Collecting, QuorumInv, WindowInv, ProofsAreCounted,
       ProversInWindow, ProversOf
  <2> QED
    BY <1>3, <2>1, <2>2, JoinCounts DEF WithProof
<1>4. CASE old.status = "PENDING" /\ now >= old.expiryTime
  <2>1. txn = [old EXCEPT !.status = "EXPIRED"]
    BY <1>1, <1>4 DEF RevokeTxIfExpired
  <2>2. /\ txn \in Transaction
        /\ txn.status = "EXPIRED"
        /\ txn.witnessTime = old.witnessTime
    BY <2>1 DEF Transaction
  <2>3. \A v \in Witnesses : txn.witnessTime[v] < now
    BY <1>1, <1>2, <1>4, <2>2 DEF QuorumInv, WindowInv
  <2> QED
    BY <1>2, <2>2, <2>3, OpenCounts DEF WithProof
<1>5. CASE old.status # "PENDING"
  <2>1. old.status = "NOT_STARTED_OR_PROCESSED"
    BY <1>2, <1>5 DEF Transaction
  <2>2. txn = old
    BY <1>1, <1>5 DEF RevokeTxIfExpired
  <2>3. ~(m.nonce <= inboundNonce)
    BY DEF VerifyStakeMessage, TypeOK
  <2>4. \A v \in Witnesses : txn.witnessTime[v] < now
    BY <1>1, <1>2, <2>1, <2>2, <2>3 DEF QuorumInv, WindowInv
  <2> QED
    BY <1>2, <1>5, <2>2, <2>4, OpenCounts DEF WithProof
<1> QED
  BY <1>2, <1>3, <1>4, <1>5

\* A step submits a proof or leaves the proofs alone.
LEMMA TransactionSteps ==
    ASSUME TypeOK, [Next]_vars
    PROVE  /\ inboundNonce' >= inboundNonce
           /\ \/ UNCHANGED transactions /\ now' \in {now, now + 1}
              \/ \E w \in Witnesses, m \in StakeMsgs, accepted \in BOOLEAN :
                    SubmitProofForStakeMsg(w, m, accepted)
<1>1. inboundNonce' >= inboundNonce
  BY QuietSteps, RecordingSteps DEF TypeOK, nonceVars, RecordTx
<1>2. now \in Nat
  BY DEF TypeOK
<1>3. CASE OwnerStep
  BY <1>1, <1>2, <1>3 DEF OwnerStep, Pause, Unpause,
     ActivateStakingForClientChain, UpdateRequiredProofs, AddWitnesses,
     RemoveWitnesses, UpdateBridgeFeeRate, BootstrapHistoricalData
<1>4. CASE StakeStep
  BY <1>1, <1>2, <1>4 DEF StakeStep, ProcessStakeMessage
<1>5. CASE StakerStep
  BY <1>1, <1>2, <1>5 DEF StakerStep, DelegateTo, UndelegateFrom,
     WithdrawPrincipal, WithdrawReward
<1>6. CASE PegOutStep
  BY <1>1, <1>2, <1>6 DEF PegOutStep, ProcessNextPegOutRequest,
     MarkPegOutRequestProcessed
<1>7. CASE LedgerStep \/ Tick
  BY <1>1, <1>2, <1>7 DEF LedgerStep, Mature, Slash, Tick
<1>8. CASE UNCHANGED vars
  BY <1>1, <1>2, <1>8 DEF vars
<1> QED
  BY <1>3, <1>4, <1>5, <1>6, <1>7, <1>8 DEF Next

LEMMA SubmitStep ==
    ASSUME TypeOK, QuorumInv, NEW w \in Witnesses, NEW m \in StakeMsgs,
           NEW accepted \in BOOLEAN, SubmitProofForStakeMsg(w, m, accepted),
           inboundNonce' >= inboundNonce
    PROVE  QuorumInv'
<1>1. PICK txn : txn = RevokeTxIfExpired(transactions[m])
  OBVIOUS
<1>2. PICK proved : proved = WithProof(txn, w)
  OBVIOUS
<1>3. Collecting(proved)
  BY <1>1, <1>2, ProofCounted DEF SubmitProofForStakeMsg
<1>4. /\ now' = now /\ now \in Nat
      /\ ProofTimeout \in Nat
      /\ inboundNonce \in Nat /\ inboundNonce' \in Int
      /\ m.nonce = inboundNonce + 1
  <2>1. inboundNonce' = inboundNonce \/ inboundNonce' = inboundNonce + 1
    BY DEF SubmitProofForStakeMsg, ProcessStakeMsg, RecordTx, nonceVars
  <2> QED
    BY <2>1 DEF SubmitProofForStakeMsg, VerifyStakeMessage, TypeOK
<1>5. ASSUME NEW other \in StakeMsgs, other # m
      PROVE  transactions'[other] = transactions[other]
  BY <1>5 DEF SubmitProofForStakeMsg, TypeOK
<1>6. \/ transactions'[m] = proved
      \/ /\ transactions'[m] = Deleted(proved)
         /\ inboundNonce' = m.nonce
  BY <1>1, <1>2, <1>4 DEF SubmitProofForStakeMsg, ProcessStakeMsg, RecordTx,
     TypeOK
<1>7. Deleted(proved).status = "NOT_STARTED_OR_PROCESSED"
  BY DEF Deleted, NewTransaction
<1>8. ProofsAreCounted'
  <2> SUFFICES ASSUME NEW other \in StakeMsgs,
                      transactions'[other].status = "PENDING"
               PROVE  transactions'[other].proofCount
                            = Cardinality(ProversInWindow(other)')
    BY DEF ProofsAreCounted
  <2>1. CASE other = m
    <3>1. transactions'[m] = proved
      BY <1>6, <1>7, <2>1
    <3>2. ProversInWindow(other)' = ProversOf(proved)
      BY <2>1, <3>1 DEF ProversInWindow, ProversOf
    <3> QED
      BY <1>3, <2>1, <3>1, <3>2 DEF Collecting
  <2>2. CASE other # m
    <3>1. ProversInWindow(other)' = ProversInWindow(other)
      BY <1>5, <2>2 DEF ProversInWindow
    <3> QED
      BY <1>5, <2>2, <3>1 DEF QuorumInv, ProofsAreCounted
  <2> QED
    BY <2>1, <2>2
<1>9. WindowInv'
  <2>1. now' >= 1
    BY <1>4 DEF QuorumInv, WindowInv
  <2>2. ASSUME NEW other \in StakeMsgs
        PROVE
            /\ transactions'[other].status # "EXPIRED"
            /\ transactions'[other].status = "PENDING" =>
                /\ transactions'[other].expiryTime - ProofTimeout \in 1 .. now'
                /\ \A v \in Witnesses : transactions'[other].witnessTime[v]
                                            < transactions'[other].expiryTime
            /\ transactions'[other].status = "NOT_STARTED_OR_PROCESSED" =>
                \/ other.nonce <= inboundNonce'
                \/ \A v \in Witnesses : transactions'[other].witnessTime[v] = 0
    <3>1. CASE other = m /\ transactions'[m] = proved
      BY <1>3, <1>4, <3>1 DEF Collecting
    <3>2. CASE other = m /\ transactions'[m] = Deleted(proved)
      BY <1>4, <1>6, <1>7, <3>2, <1>3 DEF Collecting
    <3>3. CASE other # m
      <4>1. transactions'[other] = transactions[other]
        BY <1>5, <3>3
      <4>2. other.nonce \in Nat
        BY DEF StakeMsg, Nonces
      <4> QED
        BY <1>4, <4>1, <4>2 DEF QuorumInv, WindowInv
    <3> QED
      BY <1>6, <3>1, <3>2, <3>3
  <2> QED
    BY <2>1, <2>2 DEF WindowInv
<1> QED
  BY <1>8, <1>9 DEF QuorumInv

LEMMA QuorumPreserved ==
    TypeOK /\ QuorumInv /\ [Next]_vars => QuorumInv'
<1> SUFFICES ASSUME TypeOK, QuorumInv, [Next]_vars PROVE QuorumInv'
  OBVIOUS
<1>1. CASE UNCHANGED transactions /\ now' \in {now, now + 1}
  <2>1. ProofsAreCounted'
    BY <1>1 DEF QuorumInv, ProofsAreCounted, ProversInWindow
  <2>2. inboundNonce' >= inboundNonce /\ inboundNonce \in Int
    BY TransactionSteps DEF TypeOK
  <2>3. inboundNonce' \in Int
    <3>1. inboundNonce' = inboundNonce \/ inboundNonce' = inboundNonce + 1
      BY QuietSteps, RecordingSteps DEF nonceVars, RecordTx
    <3> QED
      BY <2>2, <3>1
  <2>4. now' \in Nat
    BY <1>1 DEF TypeOK
  <2>5. WindowInv'
    <3>1. ASSUME NEW m \in StakeMsgs
          PROVE  transactions[m].expiryTime - ProofTimeout \in 1 .. now =>
                 transactions[m].expiryTime - ProofTimeout \in 1 .. now'
      BY <1>1, <2>4 DEF TypeOK
    <3>2. ASSUME NEW m \in StakeMsgs, m.nonce <= inboundNonce
          PROVE  m.nonce <= inboundNonce'
      BY <2>2, <2>3, <3>2 DEF StakeMsg, Nonces
    <3> QED
      BY <1>1, <2>4, <3>1, <3>2 DEF QuorumInv, WindowInv, TypeOK
  <2> QED
    BY <2>1, <2>5 DEF QuorumInv
<1>2. CASE \E w \in Witnesses, m \in StakeMsgs, accepted \in BOOLEAN :
                SubmitProofForStakeMsg(w, m, accepted)
  BY <1>2, SubmitStep, TransactionSteps
<1> QED
  BY <1>1, <1>2, TransactionSteps

LEMMA InitQuorum == Init => QuorumInv
BY DEF Init, QuorumInv, ProofsAreCounted, WindowInv, NewTransaction

\* The proofCount of a pending message is the number of distinct witnesses
\* that proved it in the open window, over any number of windows, witnesses
\* and thresholds.
THEOREM ProofsCountedRight == Spec => []ProofsAreCounted
<1>1. QuorumInv => ProofsAreCounted
  BY DEF QuorumInv
<1> QED
  BY <1>1, InitQuorum, QuorumPreserved, TypeCorrect, PTL DEF Spec

\* Only a stake credits an account.
LEMMA CreditSteps ==
    ASSUME [Next]_vars, inboundNonce' # inboundNonce, staked' # staked
    PROVE  StakeStep
<1>1. \/ \E e \in BootstrapEntries : BootstrapHistoricalData(e)
      \/ StakeStep
  BY QuietSteps DEF nonceVars
<1> QED
  BY <1>1 DEF BootstrapHistoricalData, ledgerVars

LEMMA QuorumStep ==
    TypeOK /\ QuorumInv /\ [Next]_vars => StakeHasQuorum
<1> SUFFICES ASSUME TypeOK, QuorumInv, [Next]_vars,
                    inboundNonce' # inboundNonce, staked' # staked,
                    IsConsensusRequired
             PROVE  \E m \in StakeMsgs :
                        /\ Credited(m)
                        /\ Cardinality({w \in Witnesses :
                                transactions'[m].witnessTime[w]
                                    > now - ProofTimeout}) >= requiredProofs
  BY DEF StakeHasQuorum
<1>1. PICK w \in Witnesses, m \in StakeMsgs, accepted \in BOOLEAN :
            SubmitProofForStakeMsg(w, m, accepted)
  BY CreditSteps DEF StakeStep, ProcessStakeMessage
<1>2. PICK txn : txn = RevokeTxIfExpired(transactions[m])
  OBVIOUS
<1>3. PICK proved : proved = WithProof(txn, w)
  OBVIOUS
<1>4. Collecting(proved)
  BY <1>1, <1>2, <1>3, ProofCounted DEF SubmitProofForStakeMsg
<1>5. /\ proved.proofCount >= requiredProofs
      /\ ProcessStakeMsg(m, accepted)
      /\ transactions' = [transactions EXCEPT ![m] = Deleted(proved)]
  BY <1>1, <1>2, <1>3 DEF SubmitProofForStakeMsg, nonceVars
<1>6. transactions'[m].witnessTime = proved.witnessTime
  BY <1>5 DEF Deleted, NewTransaction, TypeOK
<1>7. Credited(m)
  <2>1. inboundNonce + 1 = m.nonce /\ m.nonce \in Nonces
    BY <1>1 DEF SubmitProofForStakeMsg, VerifyStakeMessage, StakeMsg
  <2> QED
    BY <1>5, <2>1 DEF Credited, ProcessStakeMsg, RecordTx, TypeOK
<1> DEFINE recent == {v \in Witnesses :
                        transactions'[m].witnessTime[v] > now - ProofTimeout}
<1>8. ProversOf(proved) \subseteq recent
  <2>1. /\ now \in Nat /\ ProofTimeout \in Nat
        /\ proved.expiryTime \in Nat
        /\ \A v \in Witnesses : proved.witnessTime[v] \in Nat
        /\ now < proved.expiryTime
    BY <1>4 DEF Collecting, Transaction, TypeOK
  <2> QED
    BY <1>6, <2>1 DEF ProversOf
<1>9. IsFiniteSet(recent)
  BY FS_Subset
<1>10. Cardinality(ProversOf(proved)) <= Cardinality(recent)
  BY <1>8, <1>9, FS_Subset
<1>11. Cardinality(recent) >= requiredProofs
  <2>1. /\ Cardinality(recent) \in Nat
        /\ requiredProofs \in Int
        /\ proved.proofCount \in Nat
        /\ proved.proofCount = Cardinality(ProversOf(proved))
    BY <1>4, <1>9, FS_CardinalityType
       DEF TypeOK, ValidRequiredProofs, Collecting, Transaction
  <2> QED
    BY <1>5, <1>10, <2>1
<1> QED
  BY <1>7, <1>11

\* No stake is credited under consensus without requiredProofs distinct
\* witnesses that signed it within the last PROOF_TIMEOUT, for any witnesses,
\* any timeout and any interleaving of proofs with changes of the witnesses
\* and of the threshold.
THEOREM QuorumReached == Spec => QuorumWithinWindow
<1>1. TypeOK /\ QuorumInv /\ [Next]_vars => [StakeHasQuorum]_vars
  BY QuorumStep
<1> QED
  BY <1>1, InitQuorum, QuorumPreserved, TypeCorrect, PTL
     DEF Spec, QuorumWithinWindow

------------------------------------------------------------------------------
(* UTXOGateway implements PegLedger: every step of the contract is one     *)
(* step of the abstract specification, or none.                            *)

LEMMA AppendToFunction ==
    ASSUME NEW S, NEW k \in Nat, NEW f \in [1 .. k -> S], NEW x \in S,
           NEW g \in [1 .. k + 1 -> S],
           \A n \in 1 .. k : g[n] = f[n],
           g[k + 1] = x
    PROVE  g = Append(f, x)
<1>1. f \in Seq(S) /\ Len(f) = k
  OBVIOUS
<1>2. Append(f, x) \in Seq(S) /\ Len(Append(f, x)) = k + 1
  BY <1>1
<1>3. \A n \in 1 .. k + 1 : Append(f, x)[n] = g[n]
  BY <1>1
<1>4. Append(f, x) \in [1 .. k + 1 -> S]
  BY <1>2, LenProperties
<1> QED
  BY <1>3, <1>4

LEMMA InitRefines == Init => Ledger!Init
BY DEF Init, Ledger!Init, CreditedTxs, RequestsMade, Payments

\* A step credits a transaction, changes the queue of peg-outs, or neither.
LEMMA LedgerSteps ==
    ASSUME TypeOK, [Next]_vars
    PROVE  \/ UNCHANGED <<nonceVars, pegOutVars>>
           \/ /\ UNCHANGED pegOutVars
              /\ \E tx \in AllTxIds :
                    /\ inboundNonce < MaxNonce
                    /\ clientTxIdToNonce[tx] = 0
                    /\ RecordTx(tx)
           \/ /\ UNCHANGED nonceVars
              /\ \/ /\ \E a \in ImAddresses, amount \in Amounts,
                          withdrawType \in
                                {"WITHDRAW_PRINCIPAL", "WITHDRAW_REWARD"} :
                            /\ IsRegistered(a)
                            /\ InitiatePegOut(a, amount, withdrawType)
                    /\ UNCHANGED <<outboundNonce, pegOutTxIds, registryVars>>
                 \/ \E w \in Witnesses :
                    \/ ProcessNextPegOutRequest(w)
                    \/ \E n \in PegOutNonces, tx \in AllTxIds :
                            MarkPegOutRequestProcessed(w, n, tx)
<1>1. CASE UNCHANGED nonceVars
  BY <1>1, PegOutSteps
<1>2. CASE \/ \E e \in BootstrapEntries : BootstrapHistoricalData(e)
           \/ StakeStep
  <2>1. UNCHANGED pegOutVars
    BY <1>2 DEF BootstrapHistoricalData, StakeStep, SubmitProofForStakeMsg,
       ProcessStakeMessage
  <2> QED
    BY <1>2, <2>1, RecordingSteps
<1> QED
  BY <1>1, <1>2, QuietSteps

LEMMA CreditRefines ==
    ASSUME TypeOK, NonceTxBijection, NEW tx \in AllTxIds,
           inboundNonce < MaxNonce, clientTxIdToNonce[tx] = 0, RecordTx(tx),
           UNCHANGED pegOutVars
    PROVE  Ledger!Credit(tx)
<1>1. /\ inboundNonce \in Nat /\ inboundNonce + 1 \in Nonces
      /\ CreditedTxs \in [1 .. inboundNonce -> AllTxIds]
  BY DEF TypeOK, Nonces, CreditedTxs
<1>2. \A i \in DOMAIN CreditedTxs : CreditedTxs[i] # tx
  BY <1>1 DEF CreditedTxs, NonceTxBijection
<1>3. CreditedTxs' = Append(CreditedTxs, tx)
  <2>1. CreditedTxs' \in [1 .. inboundNonce + 1 -> AllTxIds]
    BY <1>1 DEF CreditedTxs, RecordTx, TypeOK, Nonces
  <2>2. \A n \in 1 .. inboundNonce : CreditedTxs'[n] = CreditedTxs[n]
    BY <1>1 DEF CreditedTxs, RecordTx, TypeOK, Nonces
  <2>3. CreditedTxs'[inboundNonce + 1] = tx
    BY <1>1 DEF CreditedTxs, RecordTx, TypeOK, Nonces
  <2> QED
    BY <1>1, <2>1, <2>2, <2>3, AppendToFunction
<1>4. UNCHANGED <<RequestsMade, outboundNonce, Payments>>
  BY DEF RequestsMade, Payments, pegOutVars
<1> QED
  BY <1>2, <1>3, <1>4 DEF Ledger!Credit

LEMMA RequestRefines ==
    ASSUME TypeOK, PegOutInv, NEW a \in ImAddresses, NEW amount \in Amounts,
           NEW withdrawType \in {"WITHDRAW_PRINCIPAL", "WITHDRAW_REWARD"},
           IsRegistered(a), InitiatePegOut(a, amount, withdrawType),
           UNCHANGED <<nonceVars, outboundNonce, pegOutTxIds>>
    PROVE  \E r \in Requests : Ledger!Request(r)
<1>1. PICK r \in Requests :
        r = [requester |-> a, clientAddress |-> outboundRegistry[a],
             amount |-> amount, withdrawType |-> withdrawType]
  BY DEF Requests, IsRegistered, TypeOK, Accounts
<1>2. r \in PegOutRequest
  BY DEF Requests, PegOutRequest, Accounts
<1>3. /\ pegOutNonce \in Nat
      /\ pegOutNonce + 1 \in PegOutNonces
      /\ pegOutNonce' = pegOutNonce + 1
      /\ RequestsMade \in [1 .. pegOutNonce -> PegOutRequest]
      /\ Payments \in [1 .. pegOutNonce -> AllTxIds]
  BY DEF InitiatePegOut, TypeOK, PegOutNonces, RequestsMade, Payments
<1>4. RequestsMade' = Append(RequestsMade, r)
  <2>1. pegOutRequests' = [pegOutRequests EXCEPT ![pegOutNonce + 1] = r]
    BY <1>1 DEF InitiatePegOut
  <2>2. RequestsMade' \in [1 .. pegOutNonce + 1 -> PegOutRequest]
    BY <1>2, <1>3, <2>1 DEF RequestsMade, TypeOK, PegOutNonces
  <2>3. \A n \in 1 .. pegOutNonce : RequestsMade'[n] = RequestsMade[n]
    BY <1>3, <2>1 DEF RequestsMade, TypeOK, PegOutNonces
  <2>4. RequestsMade'[pegOutNonce + 1] = r
    BY <1>3, <2>1 DEF RequestsMade, TypeOK, PegOutNonces
  <2> QED
    BY <1>2, <1>3, <2>2, <2>3, <2>4, AppendToFunction
<1>5. Payments' = Append(Payments, ZeroTxId)
  <2>1. pegOutTxIds[pegOutNonce + 1] = ZeroTxId
    BY <1>3 DEF PegOutInv, PegOutQueueIntact, IsPegoutRequestProcessed, TypeOK
  <2>2. Payments' \in [1 .. pegOutNonce + 1 -> AllTxIds]
    BY <1>3 DEF Payments, TypeOK, PegOutNonces
  <2>3. \A n \in 1 .. pegOutNonce : Payments'[n] = Payments[n]
    BY <1>3 DEF Payments
  <2>4. Payments'[pegOutNonce + 1] = ZeroTxId
    BY <1>3, <2>1 DEF Payments
  <2>5. ZeroTxId \in AllTxIds
    BY DEF AllTxIds
  <2> QED
    BY <1>3, <2>2, <2>3, <2>4, <2>5, AppendToFunction
<1>6. UNCHANGED <<CreditedTxs, outboundNonce>>
  BY DEF CreditedTxs, nonceVars
<1> QED
  BY <1>4, <1>5, <1>6 DEF Ledger!Request

LEMMA ServeRefines ==
    ASSUME TypeOK, PegOutInv, NEW w \in Witnesses, ProcessNextPegOutRequest(w)
    PROVE  Ledger!Serve
<1>1. /\ outboundNonce < pegOutNonce
      /\ outboundNonce' = outboundNonce + 1
  BY DEF ProcessNextPegOutRequest, PegOutInv, PegOutQueueIntact, TypeOK,
     PegOutNonces
<1>2. Len(RequestsMade) = pegOutNonce
  <2>1. RequestsMade \in [1 .. pegOutNonce -> PegOutRequest]
    BY DEF RequestsMade, TypeOK, PegOutNonces
  <2>2. pegOutNonce \in Nat
    BY DEF TypeOK
  <2> QED
    BY <2>1, <2>2
<1>3. UNCHANGED <<CreditedTxs, RequestsMade, Payments>>
  BY DEF ProcessNextPegOutRequest, CreditedTxs, RequestsMade, Payments,
     nonceVars
<1> QED
  BY <1>1, <1>2, <1>3 DEF Ledger!Serve

LEMMA SettleRefines ==
    ASSUME TypeOK, PegOutInv, NEW w \in Witnesses, NEW n \in PegOutNonces,
           NEW tx \in AllTxIds, MarkPegOutRequestProcessed(w, n, tx)
    PROVE  n \in 1 .. outboundNonce /\ Ledger!Settle(n, tx)
<1>1. /\ n \in 1 .. outboundNonce
      /\ n \in 1 .. pegOutNonce
      /\ pegOutTxIds[n] = ZeroTxId
      /\ pegOutTxIds' = [pegOutTxIds EXCEPT ![n] = tx]
      /\ UNCHANGED <<nonceVars, pegOutNonce, outboundNonce, pegOutRequests>>
  BY DEF MarkPegOutRequestProcessed, IsPegoutRequestProcessed, PegOutInv,
     PegOutQueueIntact, TypeOK, PegOutNonces
<1>2. Payments[n] = ZeroTxId
  BY <1>1 DEF Payments
<1>3. Payments' = [Payments EXCEPT ![n] = tx]
  <2>1. /\ Payments \in [1 .. pegOutNonce -> AllTxIds]
        /\ Payments' \in [1 .. pegOutNonce -> AllTxIds]
    BY <1>1 DEF Payments, TypeOK, PegOutNonces
  <2>2. \A i \in 1 .. pegOutNonce :
            Payments'[i] = IF i = n THEN tx ELSE Payments[i]
    BY <1>1 DEF Payments, TypeOK, PegOutNonces
  <2> QED
    BY <1>1, <2>1, <2>2
<1>4. UNCHANGED <<CreditedTxs, RequestsMade, outboundNonce>>
  BY <1>1 DEF CreditedTxs, RequestsMade, nonceVars
<1> QED
  BY <1>1, <1>2, <1>3, <1>4 DEF Ledger!Settle

LEMMA StepRefines ==
    TypeOK /\ NonceTxBijection /\ PegOutInv /\ [Next]_vars
        => [Ledger!Next]_(Ledger!ledger)
<1> SUFFICES ASSUME TypeOK, NonceTxBijection, PegOutInv, [Next]_vars
             PROVE  [Ledger!Next]_(Ledger!ledger)
  OBVIOUS
<1>1. CASE UNCHANGED <<nonceVars, pegOutVars>>
  BY <1>1 DEF Ledger!ledger, nonceVars, pegOutVars, CreditedTxs, RequestsMade,
     Payments
<1>2. ASSUME NEW tx \in AllTxIds, inboundNonce < MaxNonce,
             clientTxIdToNonce[tx] = 0, RecordTx(tx), UNCHANGED pegOutVars
      PROVE  Ledger!Next
  BY <1>2, CreditRefines DEF Ledger!Next
<1>3. ASSUME NEW a \in ImAddresses, NEW amount \in Amounts,
             NEW withdrawType \in {"WITHDRAW_PRINCIPAL", "WITHDRAW_REWARD"},
             IsRegistered(a), InitiatePegOut(a, amount, withdrawType),
             UNCHANGED <<nonceVars, outboundNonce, pegOutTxIds, registryVars>>
      PROVE  Ledger!Next
  BY <1>3, RequestRefines DEF Ledger!Next
<1>4. ASSUME NEW w \in Witnesses, ProcessNextPegOutRequest(w)
      PROVE  Ledger!Next
  BY <1>4, ServeRefines DEF Ledger!Next
<1>5. ASSUME NEW w \in Witnesses, NEW n \in PegOutNonces, NEW tx \in AllTxIds,
             MarkPegOutRequestProcessed(w, n, tx)
      PROVE  Ledger!Next
  BY <1>5, SettleRefines DEF Ledger!Next
<1> QED
  BY <1>1, <1>2, <1>3, <1>4, <1>5, LedgerSteps

\* UTXOGateway implements PegLedger: client transactions are credited once
\* each, in the order of their nonces; peg-out requests never change and are
\* handed out in order; a payment that was recorded is never replaced.
THEOREM Refinement == Spec => ImplementsPegLedger
<1>1. TypeOK /\ NonceTxBijection /\ PegOutInv /\ [Next]_vars
        => [Ledger!Next]_(Ledger!ledger)
  BY StepRefines
<1> QED
  BY <1>1, InitRefines, TypeCorrect, NoncesCorrect, PegOutsCorrect, PTL
     DEF Spec, ImplementsPegLedger, Ledger!Spec

------------------------------------------------------------------------------
(* What was paid in covers what is staked and what was pegged out.         *)

\* A finite set of natural numbers has a maximum.
LEMMA MaxOfNats ==
    ASSUME NEW S \in SUBSET Nat, IsFiniteSet(S), S # {}
    PROVE  Max(S) \in S /\ \A y \in S : Max(S) >= y
<1> DEFINE G == {T \in SUBSET S : T = {} \/ \E x \in T : \A y \in T : x >= y}
<1>1. {} \in G
  OBVIOUS
<1>2. ASSUME NEW T \in SUBSET S, T # {}, \A x \in T : T \ {x} \in G
      PROVE  T \in G
  <2>1. PICK z \in T : TRUE
    BY <1>2
  <2>2. CASE T \ {z} = {}
    <3>1. \A y \in T : z >= y
      BY <2>1, <2>2
    <3> QED
      BY <3>1
  <2>3. CASE T \ {z} # {}
    <3>1. PICK x \in T \ {z} : \A y \in T \ {z} : x >= y
      BY <1>2, <2>1, <2>3
    <3>2. CASE x >= z
      <4>1. x \in T /\ \A y \in T : x >= y
        BY <3>1, <3>2
      <4> QED
        BY <4>1
    <3>3. CASE z >= x
      <4>1. z \in T /\ \A y \in T : z >= y
        BY <2>1, <3>1, <3>3
      <4> QED
        BY <4>1
    <3>4. x \in Nat /\ z \in Nat
      BY <2>1, <3>1
    <3> QED
      BY <3>2, <3>3, <3>4
  <2> QED
    BY <2>2, <2>3
<1> HIDE DEF G
<1>3. S \in G
  BY <1>1, <1>2, SetInduction
<1>4. \E x \in S : \A y \in S : x >= y
  BY <1>3 DEF G
<1> QED
  BY <1>4 DEF Max

\* A transaction paid in at least what each message says.
LEMMA PaidInFacts ==
    /\ \A tx : PaidIn(tx) \in Nat
    /\ \A m \in StakeMsgs : m.amount <= PaidIn(m.clientTxId)
<1> SUFFICES ASSUME NEW tx
             PROVE  /\ PaidIn(tx) \in Nat
                    /\ \A m \in StakeMsgs :
                           m.clientTxId = tx => m.amount <= PaidIn(tx)
  OBVIOUS
<1> DEFINE stakes == {m \in StakeMsgs : m.clientTxId = tx}
           amounts == {m.amount : m \in stakes}
<1>1. CASE stakes = {}
  BY <1>1 DEF PaidIn
<1>2. CASE stakes # {}
  <2>1. IsFiniteSet(stakes)
    BY WordsAssumption, FS_Subset
  <2>2. IsFiniteSet(amounts)
    <3> DEFINE f == [m \in stakes |-> m.amount]
    <3>1. f \in Surjection(stakes, amounts)
      BY DEF Surjection
    <3> HIDE DEF f, stakes, amounts
    <3> QED
      BY <2>1, <3>1, FS_Surjection
  <2>3. amounts \in SUBSET Nat /\ amounts # {}
    BY <1>2 DEF StakeMsg
  <2>4. PaidIn(tx) = Max(amounts)
    BY <1>2 DEF PaidIn
  <2>5. \A m \in StakeMsgs : m.clientTxId = tx => m.amount \in amounts
    OBVIOUS
  <2>6. Max(amounts) \in amounts /\ \A y \in amounts : Max(amounts) >= y
    <3> HIDE DEF amounts
    <3> QED
      BY <2>2, <2>3, MaxOfNats
  <2> HIDE DEF amounts
  <2>7. \A y \in amounts : y \in Nat /\ y <= Max(amounts)
    BY <2>3, <2>6
  <2> QED
    BY <2>3, <2>4, <2>5, <2>6, <2>7
<1> QED
  BY <1>1, <1>2

\* A transaction is credited, once; the stake it gives is what it paid in,
\* less the fee, or nothing if it is imported.
Credits(tx, a, amount) ==
    /\ clientTxIdToNonce[tx] = 0
    /\ clientTxIdToNonce' = [clientTxIdToNonce EXCEPT ![tx] = inboundNonce + 1]
    /\ amount <= PaidIn(tx)
    /\ \A b \in Accounts : staked'[b] = staked[b] + Where(b = a, amount)
    /\ UNCHANGED pegOutRequests

Withdraws(a, amount) ==
    /\ amount <= staked[a]
    /\ staked' = [staked EXCEPT ![a] = @ - amount]
    /\ InitiatePegOut(a, amount, "WITHDRAW_PRINCIPAL")
    /\ UNCHANGED clientTxIdToNonce

Rewards(a, amount) ==
    /\ InitiatePegOut(a, amount, "WITHDRAW_REWARD")
    /\ UNCHANGED <<staked, clientTxIdToNonce>>

Slashes(a, amount) ==
    /\ amount <= staked[a]
    /\ staked' = [staked EXCEPT ![a] = @ - amount]
    /\ UNCHANGED <<pegOutRequests, clientTxIdToNonce>>

LEMMA StakeCredits ==
    ASSUME TypeOK, TypeOK', NEW m \in StakeMsgs, NEW accepted \in BOOLEAN,
           VerifyStakeMessage(m), ProcessStakeMsg(m, accepted),
           UNCHANGED pegOutRequests
    PROVE  \E tx \in AllTxIds, a \in Accounts, amount \in Nat :
               Credits(tx, a, amount)
<1>1. m.clientTxId \in AllTxIds /\ m.amount \in Nat
      /\ m.clientAddress \in ClientAddresses
  BY DEF VerifyStakeMessage, StakeMsg
<1>2. PICK a \in Accounts : a = inboundRegistry'[m.clientAddress]
  BY <1>1 DEF TypeOK
<1>3. PICK amount \in Nat : amount = AmountAfterFee(m.amount)
  BY <1>1, FeeIsCovered
<1>4. amount <= PaidIn(m.clientTxId)
  <2>1. amount <= m.amount
    <3>1. bridgeFeeRate \in Nat
      BY DEF TypeOK, MaxBridgeFeeRate
    <3>2. PICK product \in Nat : product = m.amount * bridgeFeeRate
      BY <1>1, <3>1
    <3>3. product \div 10000 \in Nat
      BY <3>2
    <3> QED
      BY <1>1, <1>3, <3>2, <3>3 DEF AmountAfterFee
  <2>2. m.amount <= PaidIn(m.clientTxId) /\ PaidIn(m.clientTxId) \in Nat
    BY PaidInFacts
  <2> QED
    BY <1>1, <2>1, <2>2
<1>5. staked' = [staked EXCEPT ![a] = @ + amount]
  BY <1>2, <1>3 DEF ProcessStakeMsg, DepositAndDelegate
<1>6. \A b \in Accounts : staked'[b] = staked[b] + Where(b = a, amount)
  BY <1>5 DEF TypeOK, Where
<1>7. Credits(m.clientTxId, a, amount)
  BY <1>4, <1>6 DEF Credits, VerifyStakeMessage, ProcessStakeMsg, RecordTx
<1> QED
  BY <1>1, <1>7

\* What a step does to stakes, withdrawals and credited transactions.
LEMMA BackingSteps ==
    ASSUME TypeOK, TypeOK', LedgerOK, [Next]_vars
    PROVE  \/ UNCHANGED <<staked, pegOutRequests, clientTxIdToNonce>>
           \/ \E tx \in AllTxIds, a \in Accounts, amount \in Nat :
                  Credits(tx, a, amount)
           \/ \E a \in ImAddresses, amount \in Nat :
                  Withdraws(a, amount) \/ Rewards(a, amount)
           \/ \E a \in Accounts, amount \in Nat : Slashes(a, amount)
<1> USE DEF ledgerVars, nonceVars, pegOutVars
<1>1. CASE OwnerStep
  <2>1. ASSUME NEW e \in BootstrapEntries, BootstrapHistoricalData(e)
        PROVE  \E tx \in AllTxIds, a \in Accounts, amount \in Nat :
                   Credits(tx, a, amount)
    <3>1. e.clientTxId \in AllTxIds /\ ZeroAddress \in Accounts
          /\ PaidIn(e.clientTxId) \in Nat
      BY PaidInFacts DEF BootstrapEntry, Accounts
    <3>2. Credits(e.clientTxId, ZeroAddress, 0)
      BY <2>1, <3>1 DEF Credits, BootstrapHistoricalData, RecordTx, TypeOK, Where
    <3> QED
      BY <3>1, <3>2
  <2> QED
    BY <1>1, <2>1 DEF OwnerStep, Pause, Unpause, ActivateStakingForClientChain,
       UpdateRequiredProofs, AddWitnesses, RemoveWitnesses, UpdateBridgeFeeRate
<1>2. CASE StakeStep
  <2> SUFFICES ASSUME NEW w \in Witnesses, NEW m \in StakeMsgs,
                      NEW accepted \in BOOLEAN,
                      \/ SubmitProofForStakeMsg(w, m, accepted)
                      \/ ProcessStakeMessage(w, m, accepted)
               PROVE  \/ UNCHANGED <<staked, pegOutRequests, clientTxIdToNonce>>
                      \/ \E tx \in AllTxIds, a \in Accounts, amount \in Nat :
                             Credits(tx, a, amount)
    BY <1>2 DEF StakeStep
  <2>1. UNCHANGED pegOutRequests
    BY DEF SubmitProofForStakeMsg, ProcessStakeMessage
  <2>2. \/ UNCHANGED <<nonceVars, ledgerVars>>
        \/ VerifyStakeMessage(m) /\ ProcessStakeMsg(m, accepted)
    BY DEF SubmitProofForStakeMsg, ProcessStakeMessage
  <2> QED
    BY <2>1, <2>2, StakeCredits
<1>3. CASE StakerStep
  <2> SUFFICES ASSUME NEW a \in ImAddresses, NEW amount \in Amounts,
                      \/ DelegateTo(a, amount)
                      \/ \E instantUnbond \in BOOLEAN :
                              UndelegateFrom(a, amount, instantUnbond)
                      \/ WithdrawPrincipal(a, amount)
                      \/ WithdrawReward(a, amount)
               PROVE  \/ UNCHANGED <<staked, pegOutRequests, clientTxIdToNonce>>
                      \/ Withdraws(a, amount) \/ Rewards(a, amount)
    BY <1>3 DEF StakerStep
  <2>1. a \in Accounts /\ amount \in Nat
    BY DEF Accounts
  <2>2. CASE WithdrawPrincipal(a, amount)
    <3>1. amount <= withdrawable[a] /\ withdrawable[a] <= staked[a]
          /\ withdrawable[a] \in Nat /\ staked[a] \in Nat
      BY <2>1, <2>2 DEF WithdrawPrincipal, LedgerOK, TypeOK
    <3>2. amount <= staked[a]
      BY <2>1, <3>1
    <3> QED
      BY <2>2, <3>2 DEF WithdrawPrincipal, Withdraws
  <2> QED
    BY <2>2 DEF DelegateTo, UndelegateFrom, WithdrawReward, Rewards
<1>4. CASE PegOutStep
  BY <1>4 DEF PegOutStep, ProcessNextPegOutRequest, MarkPegOutRequestProcessed
<1>5. CASE LedgerStep
  <2> SUFFICES ASSUME NEW a \in Accounts, NEW amount \in Amounts,
                      Mature(a, amount) \/ Slash(a, amount)
               PROVE  \/ UNCHANGED <<staked, pegOutRequests, clientTxIdToNonce>>
                      \/ amount \in Nat /\ Slashes(a, amount)
    BY <1>5 DEF LedgerStep
  <2>1. CASE Slash(a, amount)
    <3>1. /\ amount \in Nat /\ withdrawable[a] \in Nat /\ staked[a] \in Nat
          /\ amount <= staked[a] - withdrawable[a]
      BY <2>1 DEF Slash, TypeOK
    <3>2. amount <= staked[a]
      BY <3>1
    <3> QED
      BY <2>1, <3>1, <3>2 DEF Slash, Slashes
  <2> QED
    BY <2>1 DEF Mature
<1>6. CASE Tick \/ UNCHANGED vars
  BY <1>6 DEF Tick, vars
<1> QED
  BY <1>1, <1>2, <1>3, <1>4, <1>5, <1>6 DEF Next

\* What each entry of the three tables counts for.
PeggedOut == [n \in PegOutNonces |->
    IF pegOutRequests[n].withdrawType = "WITHDRAW_PRINCIPAL"
    THEN pegOutRequests[n].amount ELSE 0]

Received == [tx \in AllTxIds |->
    IF clientTxIdToNonce[tx] # 0 THEN PaidIn(tx) ELSE 0]

LEMMA WordsAreFinite ==
    IsFiniteSet(Accounts) /\ IsFiniteSet(PegOutNonces) /\ IsFiniteSet(AllTxIds)
<1>1. IsFiniteSet(Accounts)
  BY WordsAssumption, FS_AddElement DEF Accounts
<1>2. IsFiniteSet(AllTxIds)
  BY WordsAssumption, FS_AddElement DEF AllTxIds
<1>3. IsFiniteSet(1 .. MaxPegOuts)
  BY FS_Interval
<1> QED
  BY <1>1, <1>2, <1>3 DEF PegOutNonces

LEMMA TotalsAreSums ==
    ASSUME TypeOK
    PROVE  /\ StakedInTotal = SumFunctionOnSet(staked, Accounts)
           /\ PrincipalPeggedOut = SumFunctionOnSet(PeggedOut, PegOutNonces)
           /\ CreditedInTotal = SumFunctionOnSet(Received, AllTxIds)
           /\ \A a \in Accounts : staked[a] \in Nat
           /\ \A n \in PegOutNonces : PeggedOut[n] \in Nat
           /\ \A tx \in AllTxIds : Received[tx] \in Nat
           /\ StakedInTotal \in Nat
           /\ PrincipalPeggedOut \in Nat
           /\ CreditedInTotal \in Nat
<1>1. /\ StakedInTotal = SumFunctionOnSet(staked, Accounts)
      /\ PrincipalPeggedOut = SumFunctionOnSet(PeggedOut, PegOutNonces)
      /\ CreditedInTotal = SumFunctionOnSet(Received, AllTxIds)
  BY DEF StakedInTotal, PrincipalPeggedOut, CreditedInTotal, SumFunction,
     PeggedOut, Received, TypeOK
<1>2. \A a \in Accounts : staked[a] \in Nat
  BY DEF TypeOK
<1>3. \A n \in PegOutNonces : PeggedOut[n] \in Nat
  BY DEF TypeOK, PegOutRequest, PeggedOut
<1>4. \A tx \in AllTxIds : Received[tx] \in Nat
  BY PaidInFacts DEF Received
<1> QED
  BY <1>1, <1>2, <1>3, <1>4, WordsAreFinite, SumType

\* A slot of the queue that no request fills counts for nothing.
UnusedSlots == \A n \in PegOutNonces :
    pegOutRequests[n].requester = ZeroAddress
        => pegOutRequests[n].withdrawType # "WITHDRAW_PRINCIPAL"

BackedInv == UnusedSlots /\ CreditsAreBacked

\* The stake of a, and with it the sum, falls by amount.
StakeFalls(a, amount) == staked' = [staked EXCEPT ![a] = @ - amount]

LEMMA StakeTaken ==
    ASSUME TypeOK, TypeOK', NEW a \in Accounts, NEW amount \in Nat,
           StakeFalls(a, amount)
    PROVE  StakedInTotal' = StakedInTotal - amount
<1>1. PICK change \in Int : change = 0 - amount
  OBVIOUS
<1>2. \A b \in Accounts : /\ staked[b] \in Nat /\ staked'[b] \in Nat
                          /\ staked'[b] = staked[b] + Where(b = a, change)
  BY <1>1 DEF TypeOK, Where, StakeFalls
<1>3. SumFunctionOnSet(staked', Accounts)
          = SumFunctionOnSet(staked, Accounts) + change
  BY <1>2, WordsAreFinite, SumAdded
<1>4. /\ StakedInTotal = SumFunctionOnSet(staked, Accounts)
      /\ StakedInTotal \in Nat
  BY TotalsAreSums
<1>5. StakedInTotal' = SumFunctionOnSet(staked', Accounts)
  BY DEF StakedInTotal, SumFunction, TypeOK
<1> QED
  BY <1>1, <1>3, <1>4, <1>5

\* A request takes the next slot, which counted for nothing.
LEMMA RequestAdds ==
    ASSUME TypeOK, TypeOK', UnusedSlots, NEW a \in ImAddresses,
           NEW amount \in Nat,
           NEW withdrawType \in {"WITHDRAW_PRINCIPAL", "WITHDRAW_REWARD"},
           InitiatePegOut(a, amount, withdrawType)
    PROVE  /\ UnusedSlots'
           /\ PrincipalPeggedOut' = PrincipalPeggedOut
                  + Where(withdrawType = "WITHDRAW_PRINCIPAL", amount)
<1>1. PICK n \in PegOutNonces : n = pegOutNonce + 1
  BY DEF InitiatePegOut, TypeOK, PegOutNonces
<1>2. /\ pegOutRequests[n].requester = ZeroAddress
      /\ pegOutRequests'[n].requester = a
      /\ pegOutRequests'[n].amount = amount
      /\ pegOutRequests'[n].withdrawType = withdrawType
      /\ \A k \in PegOutNonces : k # n => pegOutRequests'[k] = pegOutRequests[k]
  BY <1>1 DEF InitiatePegOut, TypeOK
<1>3. UnusedSlots'
  BY <1>2 DEF UnusedSlots
<1> DEFINE e == Where(withdrawType = "WITHDRAW_PRINCIPAL", amount)
           f == PeggedOut
           g == [k \in PegOutNonces |->
                    IF pegOutRequests'[k].withdrawType = "WITHDRAW_PRINCIPAL"
                    THEN pegOutRequests'[k].amount ELSE 0]
<1>4. e \in Int
  BY DEF Where
<1>5. \A k \in PegOutNonces : /\ f[k] \in Nat /\ g[k] \in Nat
                              /\ g[k] = f[k] + Where(k = n, e)
  <2> TAKE k \in PegOutNonces
  <2>1. f[k] \in Nat
    BY TotalsAreSums
  <2>2. CASE k = n
    BY <1>2, <2>1, <2>2 DEF Where, PeggedOut, UnusedSlots
  <2>3. CASE k # n
    BY <1>2, <2>1, <2>3 DEF Where, PeggedOut
  <2> QED
    BY <2>2, <2>3
<1>6. PrincipalPeggedOut = SumFunctionOnSet(f, PegOutNonces)
      /\ PrincipalPeggedOut' = SumFunctionOnSet(g, PegOutNonces)
  BY TotalsAreSums DEF PrincipalPeggedOut, SumFunction
<1> HIDE DEF e, f, g
<1>7. SumFunctionOnSet(g, PegOutNonces) = SumFunctionOnSet(f, PegOutNonces) + e
  BY <1>4, <1>5, WordsAreFinite, SumAdded
<1> QED
  BY <1>3, <1>6, <1>7 DEF e

\* A credit adds to the stakes no more than what the transaction paid in.
LEMMA CreditAdds ==
    ASSUME TypeOK, TypeOK', NEW tx \in AllTxIds, NEW a \in Accounts,
           NEW amount \in Nat, Credits(tx, a, amount)
    PROVE  /\ StakedInTotal' = StakedInTotal + amount
           /\ CreditedInTotal' = CreditedInTotal + PaidIn(tx)
           /\ PaidIn(tx) \in Nat /\ amount <= PaidIn(tx)
<1>1. \A b \in Accounts : /\ staked[b] \in Nat /\ staked'[b] \in Nat
                          /\ staked'[b] = staked[b] + Where(b = a, amount)
  BY DEF TypeOK, Credits
<1>2. SumFunctionOnSet(staked', Accounts)
          = SumFunctionOnSet(staked, Accounts) + amount
  BY <1>1, WordsAreFinite, SumAdded
<1>3. /\ StakedInTotal = SumFunctionOnSet(staked, Accounts)
      /\ StakedInTotal' = SumFunctionOnSet(staked', Accounts)
  BY DEF StakedInTotal, SumFunction, TypeOK
<1> DEFINE f == Received
           g == [t \in AllTxIds |->
                    IF clientTxIdToNonce'[t] # 0 THEN PaidIn(t) ELSE 0]
<1>4. PaidIn(tx) \in Nat
  BY PaidInFacts
<1>5. \A t \in AllTxIds : /\ f[t] \in Nat /\ g[t] \in Nat
                          /\ g[t] = f[t] + Where(t = tx, PaidIn(tx))
  <2> TAKE t \in AllTxIds
  <2>1. PaidIn(t) \in Nat
    BY PaidInFacts
  <2>2. CASE t = tx
    <3>1. clientTxIdToNonce[t] = 0 /\ clientTxIdToNonce'[t] # 0
      BY <2>2 DEF Credits, TypeOK
    <3> QED
      BY <2>1, <2>2, <3>1 DEF Where, Received
  <2>3. CASE t # tx
    <3>1. clientTxIdToNonce'[t] = clientTxIdToNonce[t]
      BY <2>3 DEF Credits, TypeOK
    <3> QED
      BY <2>1, <2>3, <3>1 DEF Where, Received
  <2> QED
    BY <2>2, <2>3
<1>6. CreditedInTotal = SumFunctionOnSet(f, AllTxIds)
      /\ CreditedInTotal' = SumFunctionOnSet(g, AllTxIds)
  BY TotalsAreSums, PaidInFacts DEF CreditedInTotal, SumFunction
<1> HIDE DEF f, g
<1>7. SumFunctionOnSet(g, AllTxIds)
          = SumFunctionOnSet(f, AllTxIds) + PaidIn(tx)
  BY <1>4, <1>5, WordsAreFinite, SumAdded
<1> QED
  BY <1>2, <1>3, <1>4, <1>6, <1>7 DEF Credits

LEMMA BackedNext ==
    ASSUME TypeOK, TypeOK', LedgerOK, BackedInv, [Next]_vars
    PROVE  BackedInv'
<1>1. /\ StakedInTotal \in Nat /\ PrincipalPeggedOut \in Nat
      /\ CreditedInTotal \in Nat
      /\ StakedInTotal + PrincipalPeggedOut <= CreditedInTotal
  BY TotalsAreSums DEF BackedInv, CreditsAreBacked
<1>2. CASE UNCHANGED <<staked, pegOutRequests, clientTxIdToNonce>>
  BY <1>2 DEF BackedInv, UnusedSlots, CreditsAreBacked, StakedInTotal,
     PrincipalPeggedOut, CreditedInTotal
<1>3. ASSUME NEW tx \in AllTxIds, NEW a \in Accounts, NEW amount \in Nat,
             Credits(tx, a, amount)
      PROVE  BackedInv'
  <2>1. UnusedSlots' /\ PrincipalPeggedOut' = PrincipalPeggedOut
    BY <1>3 DEF Credits, BackedInv, UnusedSlots, PrincipalPeggedOut
  <2>2. /\ StakedInTotal' = StakedInTotal + amount
        /\ CreditedInTotal' = CreditedInTotal + PaidIn(tx)
        /\ PaidIn(tx) \in Nat /\ amount <= PaidIn(tx)
    BY <1>3, CreditAdds
  <2> QED
    BY <1>1, <2>1, <2>2 DEF BackedInv, CreditsAreBacked
<1>4. ASSUME NEW a \in ImAddresses, NEW amount \in Nat, Withdraws(a, amount)
      PROVE  BackedInv'
  <2>1. StakedInTotal' = StakedInTotal - amount
    BY <1>4, StakeTaken DEF Withdraws, StakeFalls, Accounts
  <2>2. /\ UnusedSlots'
        /\ PrincipalPeggedOut' = PrincipalPeggedOut + amount
    BY <1>4, RequestAdds DEF Withdraws, BackedInv, Where
  <2>3. CreditedInTotal' = CreditedInTotal
    BY <1>4 DEF Withdraws, CreditedInTotal
  <2> QED
    BY <1>1, <2>1, <2>2, <2>3 DEF BackedInv, CreditsAreBacked
<1>5. ASSUME NEW a \in ImAddresses, NEW amount \in Nat, Rewards(a, amount)
      PROVE  BackedInv'
  <2>1. /\ UnusedSlots'
        /\ PrincipalPeggedOut' = PrincipalPeggedOut
    BY <1>1, <1>5, RequestAdds DEF Rewards, BackedInv, Where
  <2>2. StakedInTotal' = StakedInTotal /\ CreditedInTotal' = CreditedInTotal
    BY <1>5 DEF Rewards, StakedInTotal, CreditedInTotal
  <2> QED
    BY <1>1, <2>1, <2>2 DEF BackedInv, CreditsAreBacked
<1>6. ASSUME NEW a \in Accounts, NEW amount \in Nat, Slashes(a, amount)
      PROVE  BackedInv'
  <2>1. StakedInTotal' = StakedInTotal - amount
    BY <1>6, StakeTaken DEF Slashes, StakeFalls
  <2>2. /\ UnusedSlots'
        /\ PrincipalPeggedOut' = PrincipalPeggedOut
        /\ CreditedInTotal' = CreditedInTotal
    BY <1>6 DEF Slashes, BackedInv, UnusedSlots, PrincipalPeggedOut,
       CreditedInTotal
  <2> QED
    BY <1>1, <2>1, <2>2 DEF BackedInv, CreditsAreBacked
<1> QED
  BY <1>2, <1>3, <1>4, <1>5, <1>6, BackingSteps

LEMMA BackedInit == Init => BackedInv
<1> SUFFICES ASSUME Init
             PROVE  BackedInv
  OBVIOUS
<1>1. TypeOK
  BY InitTypes
<1>2. UnusedSlots
  BY DEF Init, UnusedSlots, NoRequest
<1>3. /\ \A a \in Accounts : staked[a] = 0
      /\ \A n \in PegOutNonces : PeggedOut[n] = 0
  BY DEF Init, PeggedOut, NoRequest
<1>4. StakedInTotal = 0 /\ PrincipalPeggedOut = 0
  BY <1>1, <1>3, TotalsAreSums, WordsAreFinite, SumZero
<1>5. CreditedInTotal \in Nat
  BY <1>1, TotalsAreSums
<1> QED
  BY <1>2, <1>4, <1>5 DEF BackedInv, CreditsAreBacked

\* The client chain paid in, through transactions that are all distinct, at
\* least what stakers hold and have withdrawn: whatever is proved, imported,
\* slashed and withdrawn, in whatever order (submitProofForStakeMsg,
\* processStakeMessage, withdrawPrincipal).
THEOREM StakesAreBacked == Spec => []CreditsAreBacked
<1>1. /\ TypeOK /\ LedgerOK /\ TypeOK' /\ BackedInv /\ [Next]_vars
            => BackedInv'
  BY BackedNext
<1>2. BackedInv => CreditsAreBacked
  BY DEF BackedInv
<1> QED
  BY <1>1, <1>2, BackedInit, TypeCorrect, PTL DEF Spec
==============================================================================
