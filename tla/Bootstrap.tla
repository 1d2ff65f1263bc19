------------------------------ MODULE Bootstrap ------------------------------
(***************************************************************************)
(* The contract of the client chain before Imuachain starts                *)
(* (core/Bootstrap.sol): it takes deposits, delegations and validators,    *)
(* from which the genesis of Imuachain is generated, until it is locked,   *)
(* offsetDuration before spawnTime.  One action per external function;     *)
(* the upgrade to ClientChainGateway is in Lifecycle.                      *)
(***************************************************************************)
EXTENDS BootstrapStorage, ValidatorRegistry

CONSTANTS
    SpawnTimes,      \* what the owner may pass to setSpawnTime
    OffsetDurations, \* what the owner may pass to setOffsetDuration
    MaxDeposited,    \* bound: what a staker ever deposits of one token
    MaxListLength    \* bound: stakerToTokenToValidators[s][t]

ASSUME ScheduleAssumption ==
    /\ SpawnTimes \subseteq Nat
    /\ OffsetDurations \subseteq Nat

VARIABLES
    spawnTime,
    offsetDuration,
    depositors,                \* stakers, in the order of their first deposit
    isDepositor,               \* stakers
    totalDepositAmounts,       \* [staker][token]
    withdrawableAmounts,       \* [staker][token] deposited, not delegated
    depositsByToken,           \* [token]
    delegations,               \* [staker][operator][token]
    delegationsByValidator,    \* [operator][token]
    stakerToTokenToValidators, \* [staker][token] list of operators
    stakerToPubkeyIDs          \* [staker] list of beacon chain validators

scheduleVars == <<spawnTime, offsetDuration>>
depositVars == <<depositors, isDepositor, totalDepositAmounts, depositsByToken>>
delegationVars ==
    <<delegations, delegationsByValidator, stakerToTokenToValidators>>

bootstrapVars == <<vaultVars, capsuleVars, beaconVars, validatorVars,
                   clientPaused, whitelistedTokens, scheduleVars, depositVars,
                   withdrawableAmounts, delegationVars, stakerToPubkeyIDs>>

\* _validateSpawnTimeAndOffsetDuration.
IsValidSchedule(spawn, offset) ==
    /\ offset > 0
    /\ now <= spawn
    /\ offset <= spawn
    /\ now < spawn - offset

BootstrapInit ==
    /\ VaultInit
    /\ \E limits \in [LSTs \cap GenesisTokens -> TvlLimits] :
           tvlLimit = [t \in LSTs |-> IF t \in GenesisTokens THEN limits[t]
                                                             ELSE 0]
    /\ CapsuleInit
    /\ ValidatorInit
    /\ clientPaused = FALSE
    /\ whitelistedTokens = GenesisTokens
    /\ spawnTime \in SpawnTimes
    /\ offsetDuration \in OffsetDurations
    /\ IsValidSchedule(spawnTime, offsetDuration)
    /\ depositors = <<>>
    /\ isDepositor = {}
    /\ totalDepositAmounts = [s \in Stakers |-> [t \in Tokens |-> 0]]
    /\ withdrawableAmounts = [s \in Stakers |-> [t \in Tokens |-> 0]]
    /\ depositsByToken = [t \in Tokens |-> 0]
    /\ delegations =
           [s \in Stakers |-> [o \in Operators |-> [t \in Tokens |-> 0]]]
    /\ delegationsByValidator = [o \in Operators |-> [t \in Tokens |-> 0]]
    /\ stakerToTokenToValidators = [s \in Stakers |-> [t \in Tokens |-> <<>>]]
    /\ stakerToPubkeyIDs = [s \in Stakers |-> <<>>]

\* Every variable has its type; isPectra \subseteq ownerToCapsule is part of
\* the capsules' own.
BootstrapTypeOK ==
    /\ VaultTypeOK
    /\ CapsuleTypeOK
    /\ ValidatorTypeOK
    /\ clientPaused \in BOOLEAN
    /\ whitelistedTokens \subseteq Tokens
    /\ spawnTime \in Nat /\ offsetDuration \in Nat
    /\ depositors \in Seq(Stakers)
    /\ isDepositor \subseteq Stakers
    /\ totalDepositAmounts \in [Stakers -> [Tokens -> Nat]]
    /\ withdrawableAmounts \in [Stakers -> [Tokens -> Nat]]
    /\ depositsByToken \in [Tokens -> Nat]
    /\ delegations \in [Stakers -> [Operators -> [Tokens -> Nat]]]
    /\ delegationsByValidator \in [Operators -> [Tokens -> Nat]]
    /\ stakerToTokenToValidators \in [Stakers -> [Tokens -> Seq(Operators)]]
    /\ stakerToPubkeyIDs \in [Stakers -> Seq(Validators)]

------------------------------------------------------------------------------
(* The lock and the owner.                                                 *)

IsLocked == now >= spawnTime - offsetDuration

\* whenNotPaused without beforeLocked.
OpenWhileLocked == ~ clientPaused

Open == ~ IsLocked /\ ~ clientPaused

SetPaused(paused) ==
    /\ clientPaused # paused
    /\ paused => "client" \in MayPause
    /\ clientPaused' = paused
    /\ UNCHANGED <<vaultVars, capsuleVars, beaconVars, validatorVars,
                   whitelistedTokens, scheduleVars, depositVars,
                   withdrawableAmounts, delegationVars, stakerToPubkeyIDs>>

Pause == SetPaused(TRUE)
Unpause == SetPaused(FALSE)

\* setSpawnTime without beforeLocked.
PostponeSpawnTime(spawn) ==
    /\ IsValidSchedule(spawn, offsetDuration)
    /\ spawnTime' = spawn
    /\ UNCHANGED <<vaultVars, capsuleVars, beaconVars, validatorVars,
                   clientPaused, whitelistedTokens, offsetDuration, depositVars,
                   withdrawableAmounts, delegationVars, stakerToPubkeyIDs>>

\* The two setters work while the contract is paused.
SetSpawnTime(spawn) ==
    /\ ~ IsLocked
    /\ IsValidSchedule(spawn, offsetDuration)
    /\ spawnTime' = spawn
    /\ UNCHANGED <<vaultVars, capsuleVars, beaconVars, validatorVars,
                   clientPaused, whitelistedTokens, offsetDuration, depositVars,
                   withdrawableAmounts, delegationVars, stakerToPubkeyIDs>>

SetOffsetDuration(offset) ==
    /\ ~ IsLocked
    /\ IsValidSchedule(spawnTime, offset)
    /\ offsetDuration' = offset
    /\ UNCHANGED <<vaultVars, capsuleVars, beaconVars, validatorVars,
                   clientPaused, whitelistedTokens, spawnTime, depositVars,
                   withdrawableAmounts, delegationVars, stakerToPubkeyIDs>>

\* limits gives each token of the call its TVL limit, which NST ignores.
AddWhitelistTokens(limits) ==
    /\ Open
    /\ DOMAIN limits \cap whitelistedTokens = {}
    /\ whitelistedTokens' = whitelistedTokens \cup DOMAIN limits
    /\ tvlLimit' = [t \in LSTs |-> IF t \in DOMAIN limits THEN limits[t]
                                                          ELSE tvlLimit[t]]
    /\ UNCHANGED <<withdrawableBalances, totalDepositedPrincipalAmount,
                   totalUnlockPrincipalAmount, consumedTvl, capsuleVars,
                   beaconVars, validatorVars, clientPaused, scheduleVars,
                   depositVars, withdrawableAmounts, delegationVars,
                   stakerToPubkeyIDs>>

BootstrapUpdateTvlLimit(t, limit) ==
    /\ Open
    /\ t \in whitelistedTokens \ {NST}
    /\ VaultSetTvlLimit(t, limit)
    /\ UNCHANGED <<capsuleVars, beaconVars, validatorVars, clientPaused,
                   whitelistedTokens, scheduleVars, depositVars,
                   withdrawableAmounts, delegationVars, stakerToPubkeyIDs>>

------------------------------------------------------------------------------
(* IValidatorRegistry.                                                     *)

ValidatorCall(call) ==
    /\ Open
    /\ call
    /\ UNCHANGED <<vaultVars, capsuleVars, beaconVars, clientPaused,
                   whitelistedTokens, scheduleVars, depositVars,
                   withdrawableAmounts, delegationVars, stakerToPubkeyIDs>>

RegisterValidator(s, r) == ValidatorCall(AddValidator(s, r))
ReplaceKey(s, newKey) == ValidatorCall(ChangeKey(s, newKey))
UpdateRate(s, newRate) == ValidatorCall(ChangeRate(s, newRate))

------------------------------------------------------------------------------
(* Deposits and delegations.  _deposit and _delegateTo act on the position *)
(* of one staker in one token.                                             *)

\* A staker is listed at the first deposit.
ListDepositor(s) ==
    /\ isDepositor' = isDepositor \cup {s}
    /\ depositors' = IF s \in isDepositor THEN depositors
                                          ELSE Append(depositors, s)

AddDeposit(s, t, amount) ==
    /\ ListDepositor(s)
    /\ totalDepositAmounts' = [totalDepositAmounts EXCEPT ![s][t] = @ + amount]
    /\ depositsByToken' = [depositsByToken EXCEPT ![t] = @ + amount]

CanTake(s, t, amount) ==
    /\ t \in whitelistedTokens \cap LSTs
    /\ totalDepositedPrincipalAmount[t][s] + amount <= MaxDeposited
    /\ VaultDeposit(t, s, amount)

BootstrapDeposit(s, t, amount) ==
    /\ Open
    /\ CanTake(s, t, amount)
    /\ AddDeposit(s, t, amount)
    /\ withdrawableAmounts' = [withdrawableAmounts EXCEPT ![s][t] = @ + amount]
    /\ UNCHANGED <<capsuleVars, beaconVars, validatorVars, clientPaused,
                   whitelistedTokens, scheduleVars, delegationVars,
                   stakerToPubkeyIDs>>

\* The list gets only a validator chosen before any other.
ListFirstValidator(s, o, t) ==
    IF stakerToTokenToValidators[s][t] = <<>>
    THEN stakerToTokenToValidators' =
             [stakerToTokenToValidators EXCEPT ![s][t] = Append(@, o)]
    ELSE UNCHANGED stakerToTokenToValidators

\* The list gets the validator unless something is delegated to it.
ListValidator(s, o, t) ==
    IF delegations[s][o][t] = 0
    THEN /\ Len(stakerToTokenToValidators[s][t]) < MaxListLength
         /\ stakerToTokenToValidators' =
                [stakerToTokenToValidators EXCEPT ![s][t] = Append(@, o)]
    ELSE UNCHANGED stakerToTokenToValidators

AddDelegation(s, o, t, amount) ==
    /\ IsRegisteredValidator(o)
    /\ ListValidator(s, o, t)
    /\ delegations' = [delegations EXCEPT ![s][o][t] = @ + amount]
    /\ delegationsByValidator' =
           [delegationsByValidator EXCEPT ![o][t] = @ + amount]

BootstrapDelegateTo(s, o, t, amount) ==
    /\ Open
    /\ t \in whitelistedTokens
    /\ amount <= withdrawableAmounts[s][t]
    /\ AddDelegation(s, o, t, amount)
    /\ withdrawableAmounts' = [withdrawableAmounts EXCEPT ![s][t] = @ - amount]
    /\ UNCHANGED <<vaultVars, capsuleVars, beaconVars, validatorVars,
                   clientPaused, whitelistedTokens, scheduleVars, depositVars,
                   stakerToPubkeyIDs>>

\* The deposit makes amount withdrawable and the delegation takes it.
BootstrapDepositThenDelegateTo(s, o, t, amount) ==
    /\ Open
    /\ CanTake(s, t, amount)
    /\ AddDeposit(s, t, amount)
    /\ AddDelegation(s, o, t, amount)
    /\ UNCHANGED <<capsuleVars, beaconVars, validatorVars, clientPaused,
                   whitelistedTokens, scheduleVars, withdrawableAmounts,
                   stakerToPubkeyIDs>>

\* undelegateFrom that checks what the validator has, not the staker.
ReleaseUnchecked(s, o, t, amount) ==
    /\ amount <= delegationsByValidator[o][t]
    /\ delegations' = [delegations EXCEPT ![s][o][t] =
                           IF @ > amount THEN @ - amount ELSE 0]

ReleaseDelegation(s, o, t, amount) ==
    /\ amount <= delegations[s][o][t]
    /\ delegations' = [delegations EXCEPT ![s][o][t] = @ - amount]

\* Only instant undelegation; the list of validators keeps its entry.
BootstrapUndelegateFrom(s, o, t, amount) ==
    /\ Open
    /\ t \in whitelistedTokens
    /\ IsRegisteredValidator(o)
    /\ ReleaseDelegation(s, o, t, amount)
    /\ delegationsByValidator' =
           [delegationsByValidator EXCEPT ![o][t] = @ - amount]
    /\ withdrawableAmounts' = [withdrawableAmounts EXCEPT ![s][t] = @ + amount]
    /\ UNCHANGED <<vaultVars, capsuleVars, beaconVars, validatorVars,
                   clientPaused, whitelistedTokens, scheduleVars, depositVars,
                   stakerToTokenToValidators, stakerToPubkeyIDs>>

CanClaim(s, t, amount) ==
    /\ amount <= totalDepositAmounts[s][t]
    /\ amount <= withdrawableAmounts[s][t]

\* There is no vault for NST: _getVault reverts.
BootstrapClaimPrincipalFromImuachain(s, t, amount) ==
    /\ Open
    /\ t \in whitelistedTokens \cap LSTs
    /\ CanClaim(s, t, amount)
    /\ totalDepositAmounts' = [totalDepositAmounts EXCEPT ![s][t] = @ - amount]
    /\ withdrawableAmounts' = [withdrawableAmounts EXCEPT ![s][t] = @ - amount]
    /\ depositsByToken' = [depositsByToken EXCEPT ![t] = @ - amount]
    /\ VaultUnlockPrincipal(t, s, amount)
    /\ UNCHANGED <<capsuleVars, beaconVars, validatorVars, clientPaused,
                   whitelistedTokens, scheduleVars, depositors, isDepositor,
                   delegationVars, stakerToPubkeyIDs>>

WithdrawPrincipal(s, t, amount) ==
    /\ Open
    /\ t \in whitelistedTokens \cap LSTs
    /\ VaultWithdraw(t, s, amount)
    /\ UNCHANGED <<capsuleVars, beaconVars, validatorVars, clientPaused,
                   whitelistedTokens, scheduleVars, depositVars,
                   withdrawableAmounts, delegationVars, stakerToPubkeyIDs>>

------------------------------------------------------------------------------
(* Native restaking, which the lock does not stop.                         *)

BootstrapCreateImuaCapsule(s) ==
    /\ NativeRestakingEnabled
    /\ CreateCapsule(s)
    /\ UNCHANGED <<vaultVars, registeredValidators, inClaimProgress,
                   withdrawableBalance, lastClaimTimestamp, ethBalance,
                   beaconVars, validatorVars, clientPaused, whitelistedTokens,
                   scheduleVars, depositVars, withdrawableAmounts,
                   delegationVars, stakerToPubkeyIDs>>

BootstrapStake(s, v) ==
    /\ NativeRestakingEnabled
    /\ IF s \in ownerToCapsule THEN UNCHANGED <<ownerToCapsule, isPectra>>
                               ELSE CreateCapsule(s)
    /\ credentials' = IF credentials[v] = NoOne
                      THEN [credentials EXCEPT ![v] = s] ELSE credentials
    /\ UNCHANGED <<vaultVars, registeredValidators, inClaimProgress,
                   withdrawableBalance, lastClaimTimestamp, ethBalance, now,
                   validatorVars, clientPaused, whitelistedTokens,
                   scheduleVars, depositVars, withdrawableAmounts,
                   delegationVars, stakerToPubkeyIDs>>

BootstrapVerifyAndDepositNativeStake(s, v, proofTime, effectiveBalance) ==
    LET amount == DepositAmount(effectiveBalance)
    IN  /\ NativeRestakingEnabled
        /\ s \in ownerToCapsule
        /\ VerifyDepositProof(s, v, proofTime)
        /\ AddDeposit(s, NST, amount)
        /\ withdrawableAmounts' =
               [withdrawableAmounts EXCEPT ![s][NST] = @ + amount]
        /\ stakerToPubkeyIDs' = [stakerToPubkeyIDs EXCEPT ![s] = Append(@, v)]
        /\ UNCHANGED <<vaultVars, ownerToCapsule, isPectra, inClaimProgress,
                       withdrawableBalance, lastClaimTimestamp, ethBalance,
                       beaconVars, validatorVars, clientPaused,
                       whitelistedTokens, scheduleVars, delegationVars>>

BootstrapTick ==
    /\ now < MaxTime
    /\ now' = now + 1
    /\ UNCHANGED <<vaultVars, capsuleVars, credentials, validatorVars,
                   clientPaused, whitelistedTokens, scheduleVars, depositVars,
                   withdrawableAmounts, delegationVars, stakerToPubkeyIDs>>

------------------------------------------------------------------------------
OwnerCall ==
    \/ Pause
    \/ Unpause
    \/ \E spawn \in SpawnTimes : SetSpawnTime(spawn)
    \/ \E offset \in OffsetDurations : SetOffsetDuration(offset)
    \/ \E ts \in SUBSET Tokens \ {{}} :
           \E limits \in [ts -> TvlLimits] : AddWhitelistTokens(limits)
    \/ \E t \in LSTs, limit \in TvlLimits : BootstrapUpdateTvlLimit(t, limit)

OperatorCall ==
    \E s \in Stakers :
        \/ \E r \in Registrations : RegisterValidator(s, r)
        \/ \E k \in Keys \cup {ZeroKey} : ReplaceKey(s, k)
        \/ \E rate \in Rates : UpdateRate(s, rate)

LstCall ==
    \E s \in Stakers, t \in LSTs, amount \in Amounts :
        \/ BootstrapDeposit(s, t, amount)
        \/ \E o \in Operators : BootstrapDepositThenDelegateTo(s, o, t, amount)
        \/ BootstrapClaimPrincipalFromImuachain(s, t, amount)
        \/ WithdrawPrincipal(s, t, amount)

DelegationCall ==
    \E s \in Stakers, o \in Operators, t \in Tokens, amount \in Amounts :
        \/ BootstrapDelegateTo(s, o, t, amount)
        \/ BootstrapUndelegateFrom(s, o, t, amount)

NativeCall ==
    \E s \in Stakers :
        \/ BootstrapCreateImuaCapsule(s)
        \/ \E v \in Validators : BootstrapStake(s, v)
        \/ \E v \in Validators, time \in 0..now, balance \in Amounts :
               BootstrapVerifyAndDepositNativeStake(s, v, time, balance)

BootstrapStep ==
    \/ OwnerCall
    \/ OperatorCall
    \/ LstCall
    \/ DelegationCall
    \/ NativeCall
    \/ BootstrapTick

BootstrapSpec == BootstrapInit /\ [][BootstrapStep]_bootstrapVars

------------------------------------------------------------------------------
\* The vault of a token holds for a staker exactly the staker's position: it
\* can unlock all of it and nothing beyond it, now or, with the position as
\* genesis balance, after Imuachain has started; and what was unlocked and not
\* withdrawn is there.  Bootstrap and vault keep separate books.
VaultMatchesDeposits ==
    \A s \in Stakers, t \in LSTs :
        /\ totalDepositedPrincipalAmount[t][s] =
               totalDepositAmounts[s][t] + totalUnlockPrincipalAmount[t][s]
        /\ withdrawableBalances[t][s] <= totalUnlockPrincipalAmount[t][s]
        /\ withdrawableAmounts[s][t] <= totalDepositAmounts[s][t]

\* Whoever holds a position is a depositor, listed once.
DepositorsAreListed ==
    /\ \A s \in Stakers :
           s \in isDepositor
               <=> \E i \in DOMAIN depositors : depositors[i] = s
    /\ \A i, j \in DOMAIN depositors : depositors[i] = depositors[j] => i = j
    /\ \A s \in Stakers, t \in Tokens :
           totalDepositAmounts[s][t] > 0 => s \in isDepositor

\* Whatever is delegated is found from its staker.
DelegationsAreListed ==
    \A s \in Stakers, o \in Operators, t \in Tokens :
        delegations[s][o][t] > 0 =>
            /\ s \in isDepositor
            /\ IsRegisteredValidator(o)
            /\ \E i \in DOMAIN stakerToTokenToValidators[s][t] :
                   stakerToTokenToValidators[s][t][i] = o

\* The lists that are walked to generate the genesis miss nobody and count
\* nobody twice: every position and every delegation is found from them.
GenesisListsAreComplete == DepositorsAreListed /\ DelegationsAreListed

\* No beacon chain validator backs two deposits, of one staker or of two.
PubkeysAreDistinct ==
    \A s, u \in Stakers :
        \A i \in DOMAIN stakerToPubkeyIDs[s], j \in DOMAIN stakerToPubkeyIDs[u] :
            stakerToPubkeyIDs[s][i] = stakerToPubkeyIDs[u][j]
                => s = u /\ i = j

\* Once locked, the contract stays locked and everything the genesis is
\* generated from, native deposits apart, is final: nobody can move the spawn
\* time to open it again.
LockIsFinal ==
    [][IsLocked =>
         /\ IsLocked'
         /\ UNCHANGED <<scheduleVars, vaultVars, whitelistedTokens,
                        validatorVars, delegationVars>>
         /\ \A s \in Stakers, t \in LSTs :
                totalDepositAmounts'[s][t] = totalDepositAmounts[s][t]
      ]_bootstrapVars

\* A validator never charges more than the rate it was registered with and the
\* change it then allowed itself: the promise of maxChangeRate to those who
\* delegate (updateRate) holds over any number of calls, and replacing the key
\* does not renew it.
RateKeepsPromise ==
    \A o \in Operators : IsRegisteredValidator(o) =>
        \E r \in Registrations :
            /\ IsCommissionValid(r)
            /\ r.validatorAddress = o
            /\ r.name = validators[o].name
            /\ r.maxRate = validators[o].maxRate
            /\ r.maxChangeRate = validators[o].maxChangeRate
            /\ validators[o].rate <= r.rate + r.maxChangeRate
            /\ validators[o].rate <= r.maxRate
            /\ o \notin commissionEdited => validators[o].rate = r.rate
==============================================================================
