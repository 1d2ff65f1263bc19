--------------------------- MODULE BridgeAccounting ---------------------------
(***************************************************************************)
(* Where the principal of an LST staker is, as sums over the vaults, the   *)
(* paths and the ledger of Imuachain, and the proof obligation that the    *)
(* bridge implements RestakingLedger under that reading.                   *)
(***************************************************************************)
EXTENDS RestakingBridge, Functions

\* Deposits of staker s in token t that Imuachain has not executed yet.
UndeliveredDeposits(s, t) ==
    {id \in imuaInboundNonce + 1 .. Len(toImua) :
        /\ toImua[id].act \in DepositActs
        /\ toImua[id].staker = s
        /\ toImua[id].token = t}

DepositsInFlight(s, t) ==
    SumFunctionOnSet([id \in DOMAIN toImua |-> toImua[id].amount],
                     UndeliveredDeposits(s, t))

\* Granted withdrawals the client gateway has not been told of yet.
PendingGrants(s, t) ==
    {n \in PendingResponses :
        /\ toClient[n].success
        /\ toImua[toClient[n].id].staker = s
        /\ toImua[toClient[n].id].token = t}

GrantsInFlight(s, t) ==
    SumFunctionOnSet([n \in PendingResponses |-> toImua[toClient[n].id].amount],
                     PendingGrants(s, t))

Staked(s, t) == freeBalance[s][t] + delegatedAmount[s][t]
                    + unbondingAmount[s][t]

\* All the places the principal of an LST staker can be in.
PlacedPrincipal(s, t) ==
    DepositsInFlight(s, t) + Staked(s, t) + slashedAmount[s][t]
        + GrantsInFlight(s, t) + totalUnlockPrincipalAmount[t][s]

\* What the vault of t owes staker s, or may come to owe.
Owed(s, t) == withdrawableBalances[t][s] + DepositsInFlight(s, t)
                  + Staked(s, t) + GrantsInFlight(s, t)

\* Principal is conserved across the two chains, messages on their way
\* included: a deposit executed twice, a message skipped, a response applied
\* to the wrong request or a debit without an unlock breaks the sum.
LstPrincipalConserved ==
    \A s \in Stakers, t \in LSTs :
        totalDepositedPrincipalAmount[t][s] = PlacedPrincipal(s, t)

\* The tokens a vault holds cover all it has unlocked and all it may still be
\* asked to unlock, for all stakers together: the second check of
\* Vault.withdraw never refuses a staker who passes the first.
VaultSolvent ==
    \A t \in LSTs :
        SumFunction([s \in Stakers |-> Owed(s, t)]) <= consumedTvl[t]

\* The five places of RestakingLedger.
Accounts == Stakers \X LSTs

Principal == INSTANCE RestakingLedger WITH
    arriving <- [a \in Accounts |-> DepositsInFlight(a[1], a[2])],
    staked <- [a \in Accounts |-> Staked(a[1], a[2])],
    leaving <- [a \in Accounts |-> GrantsInFlight(a[1], a[2])],
    withdrawable <- [a \in Accounts |-> withdrawableBalances[a[2]][a[1]]],
    slashed <- [a \in Accounts |-> slashedAmount[a[1]][a[2]]]

\* The bridge implements the ledger: no interleaving of the two chains, of
\* deliveries and of withdrawals moves principal in any other way.
ImplementsLedger == Principal!LedgerSpec
==============================================================================
