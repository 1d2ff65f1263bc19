------------------------------ MODULE UTXOBridge ------------------------------
(***************************************************************************)
(* What UTXOGateway amounts to: it implements PegLedger, credits no more   *)
(* than the client chain paid in, and serves every peg-out.                *)
(***************************************************************************)
EXTENDS UTXOGateway, Functions, FiniteSetsExt

\* The requests stakers can make.
Requests == [requester : ImAddresses, clientAddress : ClientAddresses,
             amount : Amounts,
             withdrawType : {"WITHDRAW_PRINCIPAL", "WITHDRAW_REWARD"}]

\* The logs the mappings of the contract hold.
CreditedTxs == [n \in 1 .. inboundNonce |-> nonceToClientTxId[n]]
RequestsMade == [n \in 1 .. pegOutNonce |-> pegOutRequests[n]]
Payments == [n \in 1 .. pegOutNonce |-> pegOutTxIds[n]]

Ledger == INSTANCE PegLedger WITH
    Transactions <- AllTxIds,
    NoPayment <- ZeroTxId,
    credited <- CreditedTxs,
    requests <- RequestsMade,
    served <- outboundNonce,
    payments <- Payments

\* Whatever mix of proofs, imports, withdrawals and payments: transactions are
\* credited once each, requests are immutable and served in order, and a
\* payment that was recorded is not replaced.
ImplementsPegLedger == Ledger!Spec

\* The most a stake message says the transaction paid in.
PaidIn(tx) ==
    LET stakes == {m \in StakeMsgs : m.clientTxId = tx}
    IN  IF stakes = {} THEN 0 ELSE Max({m.amount : m \in stakes})

StakedInTotal == SumFunction(staked)

PrincipalPeggedOut ==
    SumFunction([n \in PegOutNonces |->
        IF pegOutRequests[n].withdrawType = "WITHDRAW_PRINCIPAL"
        THEN pegOutRequests[n].amount ELSE 0])

CreditedInTotal ==
    SumFunction([tx \in AllTxIds |->
        IF clientTxIdToNonce[tx] # 0 THEN PaidIn(tx) ELSE 0])

\* What stakers hold and what they have withdrawn is covered by distinct
\* transactions of the client chain: no transaction is credited twice, through
\* two messages, two windows or the two ways a message may be processed, and
\* no withdrawal pays what is still staked.
CreditsAreBacked == StakedInTotal + PrincipalPeggedOut <= CreditedInTotal

\* Owners unpause sooner or later; witnesses poll for the next peg-out, and a
\* pause only interrupts them.
Fairness ==
    /\ WF_vars(Unpause)
    /\ SF_vars(\E w \in Witnesses : ProcessNextPegOutRequest(w))
FairSpec == Spec /\ Fairness

\* Every peg-out request is handed to the witnesses, however witnesses come
\* and go, the owner pauses, and requests are marked as paid.
PegOutsAreServed ==
    \A n \in PegOutNonces : pegOutNonce >= n ~> outboundNonce >= n
==============================================================================
