-------------------------- MODULE GenesisAccounting --------------------------
(***************************************************************************)
(* The sums that the genesis of Imuachain relies on: script/bootstrap      *)
(* reads some totals and recomputes others from the positions.             *)
(***************************************************************************)
EXTENDS Bootstrap, Functions

\* What a staker deposited is withdrawable or delegated; the totals per token
\* and per validator are the sums over the stakers.  Each is kept by hand in
\* deposit, claim, delegate and undelegate.
PositionsAddUp ==
    /\ \A s \in Stakers, t \in Tokens :
           totalDepositAmounts[s][t] = withdrawableAmounts[s][t]
               + SumFunction([o \in Operators |-> delegations[s][o][t]])
    /\ \A t \in Tokens :
           depositsByToken[t] =
               SumFunction([s \in Stakers |-> totalDepositAmounts[s][t]])
    /\ \A o \in Operators, t \in Tokens :
           delegationsByValidator[o][t] =
               SumFunction([s \in Stakers |-> delegations[s][o][t]])

\* The tokens in a vault are those of the deposits that are left and of the
\* unlocked principal that nobody has withdrawn: the vault can pay out all of
\* the genesis.
VaultHoldsGenesis ==
    \A t \in LSTs :
        consumedTvl[t] = depositsByToken[t]
            + SumFunction(withdrawableBalances[t])

\* The books of the contract and of its vaults, kept separately by deposit,
\* claim, delegate, undelegate, unlock and withdraw, are natural numbers that
\* agree: what the genesis promises is there, and belongs to whom it says.
BooksAgree ==
    /\ BootstrapTypeOK
    /\ PositionsAddUp
    /\ VaultMatchesDeposits
    /\ VaultHoldsGenesis
==============================================================================
