-------------------------------- MODULE MCUTXO --------------------------------
(***************************************************************************)
(* Instances of UTXOGateway for TLC: which messages witnesses sign.        *)
(***************************************************************************)
EXTENDS UTXOBridge, TLC

CONSTANTS w1, w2, w3, alice, bob, bc1a, bc1b, tx1, tx2

Sign(n, tx, c, a, op, amount) ==
    [nonce |-> n, clientTxId |-> tx, clientAddress |-> c,
     imuachainAddress |-> a, operator |-> op, amount |-> amount]

\* Two transactions that compete for the first nonce.
QuorumMsgs == {Sign(1, tx1, bc1a, alice, "NONE", 1),
               Sign(1, tx2, bc1a, alice, "NONE", 1)}

\* Every pairing of two client addresses or none with two accounts or none.
RegistryMsgs == {Sign(n, tx, c, a, "NONE", 1) :
    n \in Nonces, tx \in {tx1, tx2}, c \in ClientAddresses, a \in Accounts}
RegistryEntries == [clientAddress : {bc1a, bc1b, NoAddress},
                    imuachainAddress : Accounts, clientTxId : {tx2, ZeroTxId}]

\* Stakes of two accounts, one of them delegated; the first transaction may
\* be signed again for the second nonce.
PegOutMsgs == {Sign(1, tx1, bc1a, alice, "VALID", 10),
               Sign(2, tx1, bc1a, alice, "NONE", 10),
               Sign(2, tx2, bc1b, bob, "NONE", 5),
               Sign(2, tx2, bc1b, bob, "INVALID", 5)}

WitnessSymmetry == Permutations(Witnesses)
==============================================================================
