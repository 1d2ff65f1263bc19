-------------------------------- MODULE Genesis --------------------------------
(***************************************************************************)
(* What script/bootstrap/generate.mjs writes into the genesis of Imuachain *)
(* for the stakers and operators of a Bootstrap contract: a function of    *)
(* the contract's state and, for native restaking, of the balances the     *)
(* beacon chain reports when the script runs.  Amounts are decimals of     *)
(* limited precision, see Decimals.                                        *)
(***************************************************************************)
EXTENDS GenesisAccounting, Decimals

CONSTANT Gwei       \* the beacon chain's unit, in that of the amounts

ASSUME GweiAssumption == Gwei \in Nat \ {0}

\* Addresses of 20 bytes cannot be as many as the numbers of 20 digits.
ASSUME FewStakersAssumption == 2 * Radix * Cardinality(Stakers) <= Exact

\* What the beacon chain may report of the validators of the restakers.  The
\* script stops for a balance above the maximum.
Balances ==
    LET pubkeys == UNION {Range(stakerToPubkeyIDs[s]) : s \in Stakers}
    IN  [pubkeys -> {n * Gwei : n \in 0..(MaxEffectiveBalance \div Gwei)}]

\* Not rounded: a sum of whole Gwei would have to reach 10^29 wei.
TotalEffectiveBalance(s, balance) ==
    SumFunction([i \in DOMAIN stakerToPubkeyIDs[s] |->
                    balance[stakerToPubkeyIDs[s][i]]])

------------------------------------------------------------------------------
(* x/assets, deposits: what the beacon chain took from a staker since the  *)
(* deposit is taken first from what is withdrawable; the rest is pending,  *)
(* to be taken from the delegations.                                       *)

BeaconLoss(s, balance) ==
    LET deposit == totalDepositAmounts[s][NST]
        effective == TotalEffectiveBalance(s, balance)
    IN  IF effective < deposit THEN Rounded(deposit - effective) ELSE 0

\* Everything is taken from the delegations.
NothingWithdrawable(s, balance) == 0

SlashFromWithdrawable(s, balance) ==
    LET loss == BeaconLoss(s, balance)
        withdrawable == withdrawableAmounts[s][NST]
    IN  IF loss > withdrawable THEN withdrawable ELSE loss

PendingSlash(s, balance) ==
    LET loss == BeaconLoss(s, balance)
        withdrawable == withdrawableAmounts[s][NST]
    IN  IF loss > withdrawable THEN Rounded(loss - withdrawable) ELSE 0

TotalDelegated(s) ==
    Rounded(totalDepositAmounts[s][NST] - withdrawableAmounts[s][NST])

\* A balance above the deposit is added to it, and not to the withdrawable.
GenesisDeposit(s, t, balance) ==
    LET deposit == totalDepositAmounts[s][t]
        pending == PendingSlash(s, balance)
    IN  IF t # NST \/ deposit = 0 THEN deposit
        ELSE IF BeaconLoss(s, balance) = 0 THEN TotalEffectiveBalance(s, balance)
        ELSE IF pending > 0 THEN Minus(TotalDelegated(s), pending)
        ELSE Minus(deposit, SlashFromWithdrawable(s, balance))

GenesisWithdrawable(s, t, balance) ==
    IF t # NST \/ BeaconLoss(s, balance) = 0 THEN withdrawableAmounts[s][t]
    ELSE Minus(withdrawableAmounts[s][NST], SlashFromWithdrawable(s, balance))

------------------------------------------------------------------------------
(* slashProportions: a staker with a pending slash loses this proportion   *)
(* of every delegation.  Only stakers whose list of validators has the     *)
(* operator are looked at, in the order of the depositors.                 *)

Proportion(s, balance) ==
    LET pending == PendingSlash(s, balance)
        delegated == TotalDelegated(s)
    IN  IF pending >= delegated THEN Parts ELSE Quotient(pending, delegated)

\* A slash that reaches only the validator a staker chose first.
SlashedAtFirst(o, balance) ==
    {s \in isDepositor :
        /\ PendingSlash(s, balance) > 0
        /\ stakerToTokenToValidators[s][NST][1] = o}

SlashedStakers(o, balance) ==
    {s \in isDepositor :
        /\ PendingSlash(s, balance) > 0
        /\ \E i \in DOMAIN stakerToTokenToValidators[s][NST] :
               stakerToTokenToValidators[s][NST][i] = o}

\* In parts.
Slashing(s, o, balance) ==
    Times(delegations[s][o][NST], Proportion(s, balance))

\* In parts; a staker that is not slashed adds nothing.
TotalSlashing(o, balance) ==
    LET slashed == SlashedStakers(o, balance)
    IN  RoundedSum([i \in DOMAIN depositors |->
                       IF depositors[i] \in slashed
                       THEN Slashing(depositors[i], o, balance) ELSE 0])

\* An amount delegated to o, less all that was slashed with o: an amount of
\* which nothing is slashed is rounded too.
AmountAfterSlashing(amount, o, t, balance) ==
    IF t # NST THEN Minus(amount, 0)
    ELSE Truncated(Minus(amount * Parts, TotalSlashing(o, balance)))

\* x/assets, operator_assets: total_amount.
GenesisOperatorTotal(o, t, balance) ==
    AmountAfterSlashing(delegationsByValidator[o][t], o, t, balance)

\* x/delegation, delegation_states: undelegatable_share, of those above zero.
GenesisDelegation(s, o, t, balance) ==
    LET amount == AmountAfterSlashing(delegations[s][o][t], o, t, balance)
    IN  IF amount > 0 THEN amount ELSE 0

------------------------------------------------------------------------------
Distance(a, b) == IF a > b THEN a - b ELSE b - a

\* Deposits of whole Gwei have no more digits than are kept.
DepositIsExact(s) ==
    Rounded(totalDepositAmounts[s][NST]) = totalDepositAmounts[s][NST]

\* Whatever the beacon chain reports, a native restaker enters the genesis with
\* the effective balance, and never with more withdrawable than that: the two
\* branches of the slashing add up to the loss, but for what four roundings can
\* lose of a deposit too large to be written in full (generate.mjs:569-608).
GenesisDepositIsEffective ==
    \A s \in Stakers, balance \in Balances :
        totalDepositAmounts[s][NST] > 0 /\ DepositIsExact(s) =>
            /\ Distance(GenesisDeposit(s, NST, balance),
                        TotalEffectiveBalance(s, balance))
                   <= 2 * LastDigit(totalDepositAmounts[s][NST])
            /\ GenesisWithdrawable(s, NST, balance)
                   \in 0..GenesisDeposit(s, NST, balance)

\* The power of the operators is what their stakers deposited and cannot
\* withdraw, give or take the roundings: one of every operator's total, and for
\* native restaking those of every slash and its sum, a truncation, and the
\* deposits' own.
SlackOfPower(t) ==
    LET stakers == Cardinality(Stakers)
        operators == Cardinality(Operators)
    IN  IF t # NST THEN operators * LastDigit(depositsByToken[t])
        ELSE (operators * (stakers + 2) + 2 * stakers)
                 * Ulp[2 * depositsByToken[NST]]

\* The voting power the operators start with is backed by what their stakers
\* deposited and cannot withdraw, and all of it is counted, up to the last
\* digits: nothing that is delegated is lost or counted twice on the way
\* through the slashing of stakers and of operators, which are computed apart.
GenesisPowerIsBacked ==
    \A t \in Tokens, balance \in Balances :
        (t = NST => \A s \in Stakers : DepositIsExact(s)) =>
            LET power == SumFunction([o \in Operators |->
                    GenesisOperatorTotal(o, t, balance)])
                staked == SumFunction([s \in Stakers |->
                    GenesisDeposit(s, t, balance)
                        - GenesisWithdrawable(s, t, balance)])
                spare == SumFunction([s \in Stakers |->
                    IF /\ t = NST
                       /\ totalDepositAmounts[s][NST] > 0
                       /\ BeaconLoss(s, balance) = 0
                    THEN TotalEffectiveBalance(s, balance)
                             - totalDepositAmounts[s][NST]
                    ELSE 0])
            IN  Distance(power, staked - spare) <= SlackOfPower(t)

\* What the comment of the script says: a slash applies to the delegations of
\* the staker who was slashed.
OthersKeepTheirDelegations ==
    \A s \in Stakers, o \in Operators, balance \in Balances :
        BeaconLoss(s, balance) = 0 =>
            GenesisDelegation(s, o, NST, balance)
                = Rounded(delegations[s][o][NST])
==============================================================================
