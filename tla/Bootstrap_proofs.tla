--------------------------- MODULE Bootstrap_proofs ---------------------------
(***************************************************************************)
(* Theorems about Bootstrap: the validators that start Imuachain, the      *)
(* lock, the books, the lists and the restakers' beacon chain validators   *)
(* that the genesis is generated from, and the genesis itself.  The        *)
(* registry is disturbed by three calls only, and the books by moves of    *)
(* one kind, so the invariants are proved for these and lifted to the      *)
(* whole contract by RegistrySteps and BookMoves.                          *)
(***************************************************************************)
EXTENDS Genesis, SumTheorems, SequenceTheorems, TLAPS

USE RegistryAssumption

RegistryStep ==
    \E s \in Stakers :
        \/ \E r \in Registrations : AddValidator(s, r)
        \/ \E k \in Keys \cup {ZeroKey} : ChangeKey(s, k)
        \/ \E rate \in Rates : ChangeRate(s, rate)

\* Whatever the contract does, the registry is left alone or called once.
LEMMA RegistrySteps ==
    ASSUME [BootstrapStep]_bootstrapVars
    PROVE  RegistryStep \/ UNCHANGED validatorVars
<1>1. CASE UNCHANGED bootstrapVars
    BY <1>1 DEF bootstrapVars
<1>2. CASE OwnerCall
    BY <1>2 DEF OwnerCall, Pause, Unpause, SetPaused, SetSpawnTime,
        SetOffsetDuration, AddWhitelistTokens, BootstrapUpdateTvlLimit
<1>3. CASE OperatorCall
    BY <1>3 DEF OperatorCall, RegisterValidator, ReplaceKey, UpdateRate,
        ValidatorCall, RegistryStep
<1>4. CASE LstCall
    BY <1>4 DEF LstCall, BootstrapDeposit, BootstrapDepositThenDelegateTo,
        BootstrapClaimPrincipalFromImuachain, WithdrawPrincipal
<1>5. CASE DelegationCall
    BY <1>5 DEF DelegationCall, BootstrapDelegateTo, BootstrapUndelegateFrom
<1>6. CASE NativeCall
    BY <1>6 DEF NativeCall, BootstrapCreateImuaCapsule, BootstrapStake,
        BootstrapVerifyAndDepositNativeStake
<1>7. CASE BootstrapTick
    BY <1>7 DEF BootstrapTick
<1> QED
    BY <1>1, <1>2, <1>3, <1>4, <1>5, <1>6, <1>7 DEF BootstrapStep

------------------------------------------------------------------------------
(* The types of the registry.                                              *)

\* What registerValidator is called with.
LEMMA RegistrationFacts ==
    ASSUME NEW r \in Registrations
    PROVE  /\ r \in Registration
           /\ r.validatorAddress \in Operators
           /\ r.name \in Names \cup {NoName}
           /\ r.consensusPublicKey \in Keys \cup {ZeroKey}
           /\ r.rate \in Nat /\ r.maxRate \in Nat /\ r.maxChangeRate \in Nat
    BY DEF Registration

\* An empty registry is well typed (BootstrapInit).
LEMMA ValidatorTypeInit == ValidatorInit => ValidatorTypeOK
    BY DEF ValidatorInit, ValidatorTypeOK, NoValidator, Validator

\* Each of the three calls keeps the registry well typed.
LEMMA ValidatorTypeStep ==
    ASSUME ValidatorTypeOK, RegistryStep
    PROVE  ValidatorTypeOK'
<1> USE DEF ValidatorTypeOK
<1>1. ASSUME NEW s \in Stakers, NEW r \in Registrations, AddValidator(s, r)
      PROVE  ValidatorTypeOK'
  <2>1. [name |-> r.name, rate |-> r.rate, maxRate |-> r.maxRate,
         maxChangeRate |-> r.maxChangeRate,
         consensusPublicKey |-> r.consensusPublicKey] \in Validator
      BY RegistrationFacts DEF Validator
  <2>2. validators' \in [Operators -> Validator]
      BY <1>1, <2>1, RegistrationFacts DEF AddValidator
  <2>3. ethToImAddress' \in [Stakers -> Operators \cup {NoOperator}]
      BY <1>1, RegistrationFacts DEF AddValidator
  <2>4. validatorList' \in Seq(Stakers)
      BY <1>1 DEF AddValidator
  <2>5. consensusPublicKeyInUse' \subseteq Keys
      BY <1>1, RegistrationFacts DEF AddValidator, ValidConsensusKey
  <2>6. validatorNameInUse' \subseteq Names
      BY <1>1, RegistrationFacts DEF AddValidator
  <2> QED
      BY <1>1, <2>2, <2>3, <2>4, <2>5, <2>6 DEF AddValidator
<1>2. ASSUME NEW s \in Stakers, NEW k \in Keys \cup {ZeroKey}, ChangeKey(s, k)
      PROVE  ValidatorTypeOK'
  <2>1. PICK o \in Operators : o = ethToImAddress[s]
      BY <1>2 DEF ChangeKey
  <2>2. [validators[o] EXCEPT !.consensusPublicKey = k] \in Validator
      BY DEF Validator
  <2>3. validators' = [validators EXCEPT ![o] =
                           [validators[o] EXCEPT !.consensusPublicKey = k]]
      BY <1>2, <2>1 DEF ChangeKey
  <2>4. validators' \in [Operators -> Validator]
      BY <2>2, <2>3
  <2> QED
      BY <1>2, <2>4 DEF ChangeKey, ValidConsensusKey
<1>3. ASSUME NEW s \in Stakers, NEW rate \in Rates, ChangeRate(s, rate)
      PROVE  ValidatorTypeOK'
  <2>1. PICK o \in Operators : o = ethToImAddress[s]
      BY <1>3 DEF ChangeRate
  <2>2. [validators[o] EXCEPT !.rate = rate] \in Validator
      BY DEF Validator
  <2>3. validators' = [validators EXCEPT ![o] =
                           [validators[o] EXCEPT !.rate = rate]]
      BY <1>3, <2>1 DEF ChangeRate
  <2>4. validators' \in [Operators -> Validator]
      BY <2>2, <2>3
  <2> QED
      BY <1>3, <2>1, <2>4 DEF ChangeRate
<1> QED
    BY <1>1, <1>2, <1>3 DEF RegistryStep

------------------------------------------------------------------------------
(* ValidatorsAreDistinct, element by element.                              *)

Owns(s, o) == ethToImAddress[s] = o /\ o # NoOperator

OwnersInv ==
    /\ \A s \in Stakers, o \in Operators : Owns(s, o) => IsRegisteredValidator(o)
    /\ \A o \in Operators : IsRegisteredValidator(o) => \E s \in Stakers : Owns(s, o)
    /\ \A s, u \in Stakers, o \in Operators : Owns(s, o) /\ Owns(u, o) => s = u

ListInv ==
    /\ \A s \in Stakers :
           ethToImAddress[s] # NoOperator
               <=> \E i \in DOMAIN validatorList : validatorList[i] = s
    /\ \A i, j \in DOMAIN validatorList :
           validatorList[i] = validatorList[j] => i = j

KeysInv ==
    /\ \A o \in Operators : IsRegisteredValidator(o) =>
           validators[o].consensusPublicKey \in consensusPublicKeyInUse
    /\ \A k \in consensusPublicKeyInUse : \E o \in Operators :
           IsRegisteredValidator(o) /\ validators[o].consensusPublicKey = k
    /\ \A o, p \in Operators :
           /\ IsRegisteredValidator(o) /\ IsRegisteredValidator(p)
           /\ validators[o].consensusPublicKey = validators[p].consensusPublicKey
           => o = p

NamesInv ==
    /\ \A o \in Operators : IsRegisteredValidator(o) =>
           validators[o].name \in validatorNameInUse
    /\ \A n \in validatorNameInUse : \E o \in Operators :
           IsRegisteredValidator(o) /\ validators[o].name = n
    /\ \A o, p \in Operators :
           /\ IsRegisteredValidator(o) /\ IsRegisteredValidator(p)
           /\ validators[o].name = validators[p].name
           => o = p

ValidatorsInv ==
    /\ ValidatorTypeOK
    /\ OwnersInv
    /\ ListInv
    /\ KeysInv
    /\ NamesInv

\* From the elements to the sets of keys, names and validators.
LEMMA ValidatorsInvImplies == ValidatorsInv => ValidatorsAreDistinct
<1> SUFFICES ASSUME ValidatorsInv PROVE ValidatorsAreDistinct
    OBVIOUS
<1> DEFINE registered == {o \in Operators : IsRegisteredValidator(o)}
           owners == {s \in Stakers : ethToImAddress[s] # NoOperator}
           key(o) == validators[o].consensusPublicKey
<1>1. registered = {ethToImAddress[s] : s \in owners}
  <2>1. ASSUME NEW o \in registered
        PROVE  o \in {ethToImAddress[s] : s \in owners}
      BY DEF ValidatorsInv, OwnersInv, Owns
  <2>2. ASSUME NEW s \in owners
        PROVE  ethToImAddress[s] \in registered
      BY DEF ValidatorsInv, OwnersInv, Owns, ValidatorTypeOK
  <2> QED
      BY <2>1, <2>2
<1>2. \A s, u \in owners : ethToImAddress[s] = ethToImAddress[u] => s = u
    BY DEF ValidatorsInv, OwnersInv, Owns, ValidatorTypeOK
<1>3. consensusPublicKeyInUse = {key(o) : o \in registered}
    BY DEF ValidatorsInv, KeysInv
<1>4. validatorNameInUse = {validators[o].name : o \in registered}
    BY DEF ValidatorsInv, NamesInv
<1>5. \A o, p \in registered :
          key(o) = key(p) \/ validators[o].name = validators[p].name => o = p
    BY DEF ValidatorsInv, KeysInv, NamesInv
<1> QED
    BY <1>1, <1>2, <1>3, <1>4, <1>5 DEF ValidatorsInv, ListInv, ValidatorsAreDistinct

\* Nobody is registered at first.
LEMMA ValidatorsInvInit == ValidatorInit => ValidatorsInv
    BY ValidatorTypeInit DEF ValidatorInit, ValidatorsInv, OwnersInv, ListInv,
        KeysInv, NamesInv, Owns, IsRegisteredValidator, NoValidator

\* registerValidator: a new account, operator, key and name.
LEMMA RegisterKeepsInv ==
    ASSUME ValidatorsInv, ValidatorTypeOK', NEW s \in Stakers,
           NEW r \in Registrations, AddValidator(s, r)
    PROVE  ValidatorsInv'
<1> DEFINE o == r.validatorAddress
<1>1. /\ o \in Operators
      /\ ~ IsRegisteredValidator(o)
      /\ r.name # NoName
      /\ ethToImAddress[s] = NoOperator
      /\ o # NoOperator
    BY RegistrationFacts DEF AddValidator
<1>2. /\ validators'[o].name = r.name
      /\ validators'[o].consensusPublicKey = r.consensusPublicKey
      /\ \A p \in Operators : p # o => validators'[p] = validators[p]
    BY <1>1 DEF AddValidator, ValidatorsInv, ValidatorTypeOK
<1>3. /\ IsRegisteredValidator(o)'
      /\ \A p \in Operators :
             p # o => (IsRegisteredValidator(p)' <=> IsRegisteredValidator(p))
    BY <1>1, <1>2 DEF IsRegisteredValidator
<1>4. /\ ethToImAddress'[s] = o
      /\ \A u \in Stakers : u # s => ethToImAddress'[u] = ethToImAddress[u]
    BY DEF AddValidator, ValidatorsInv, ValidatorTypeOK
<1> HIDE DEF o
<1>5. OwnersInv'
    BY <1>1, <1>3, <1>4 DEF ValidatorsInv, OwnersInv, Owns
<1>6. ListInv'
  <2>1. /\ validatorList \in Seq(Stakers)
        /\ validatorList' = Append(validatorList, s)
      BY DEF AddValidator, ValidatorsInv, ValidatorTypeOK
  <2>2. /\ DOMAIN validatorList' = DOMAIN validatorList \cup {Len(validatorList) + 1}
        /\ validatorList'[Len(validatorList) + 1] = s
        /\ \A i \in DOMAIN validatorList : validatorList'[i] = validatorList[i]
        /\ Len(validatorList) + 1 \notin DOMAIN validatorList
      BY <2>1
  <2>3. \A i \in DOMAIN validatorList : validatorList[i] # s
      BY <1>1 DEF ValidatorsInv, ListInv
  <2> QED
      BY <1>1, <1>4, <2>2, <2>3 DEF ValidatorsInv, ListInv
<1>7. KeysInv'
  <2>1. /\ r.consensusPublicKey \notin consensusPublicKeyInUse
        /\ consensusPublicKeyInUse' =
               consensusPublicKeyInUse \cup {r.consensusPublicKey}
      BY DEF AddValidator, ValidConsensusKey
  <2> QED
      BY <1>1, <1>2, <1>3, <2>1 DEF ValidatorsInv, KeysInv
<1>8. NamesInv'
  <2>1. /\ r.name \notin validatorNameInUse
        /\ validatorNameInUse' = validatorNameInUse \cup {r.name}
      BY DEF AddValidator
  <2> QED
      BY <1>1, <1>2, <1>3, <2>1 DEF ValidatorsInv, NamesInv
<1> QED
    BY <1>5, <1>6, <1>7, <1>8 DEF ValidatorsInv

\* replaceKey: the old key is free again because no other validator has it.
LEMMA ReplaceKeepsInv ==
    ASSUME ValidatorsInv, ValidatorTypeOK', NEW s \in Stakers,
           NEW k \in Keys \cup {ZeroKey}, ChangeKey(s, k)
    PROVE  ValidatorsInv'
<1>1. PICK o \in Operators : o = ethToImAddress[s] /\ o # NoOperator
    BY DEF ChangeKey, ValidatorsInv, ValidatorTypeOK
<1>2. IsRegisteredValidator(o)
    BY <1>1 DEF ValidatorsInv, OwnersInv, Owns
<1>3. /\ validators'[o].consensusPublicKey = k
      /\ validators'[o].name = validators[o].name
      /\ \A p \in Operators : p # o => validators'[p] = validators[p]
    BY <1>1 DEF ChangeKey, ValidatorsInv, ValidatorTypeOK, Validator
<1>4. \A p \in Operators :
          /\ validators'[p].name = validators[p].name
          /\ IsRegisteredValidator(p)' <=> IsRegisteredValidator(p)
    BY <1>3 DEF IsRegisteredValidator
<1>5. OwnersInv'
    BY <1>4 DEF ValidatorsInv, OwnersInv, Owns, ChangeKey
<1>6. ListInv'
    BY DEF ValidatorsInv, ListInv, ChangeKey
<1>7. KeysInv'
  <2>1. /\ k \notin consensusPublicKeyInUse
        /\ consensusPublicKeyInUse' = (consensusPublicKeyInUse
               \ {validators[o].consensusPublicKey}) \cup {k}
      BY <1>1 DEF ChangeKey, ValidConsensusKey
  <2> QED
      BY <1>2, <1>3, <1>4, <2>1 DEF ValidatorsInv, KeysInv
<1>8. NamesInv'
    BY <1>4 DEF ValidatorsInv, NamesInv, ChangeKey
<1> QED
    BY <1>5, <1>6, <1>7, <1>8 DEF ValidatorsInv

\* updateRate touches neither keys nor names.
LEMMA RateKeepsInv ==
    ASSUME ValidatorsInv, ValidatorTypeOK', NEW s \in Stakers,
           NEW rate \in Rates, ChangeRate(s, rate)
    PROVE  ValidatorsInv'
<1>1. PICK o \in Operators : o = ethToImAddress[s]
    BY DEF ChangeRate, ValidatorsInv, ValidatorTypeOK
<1>2. \A p \in Operators :
          /\ validators'[p].name = validators[p].name
          /\ validators'[p].consensusPublicKey = validators[p].consensusPublicKey
          /\ IsRegisteredValidator(p)' <=> IsRegisteredValidator(p)
    BY <1>1 DEF ChangeRate, ValidatorsInv, ValidatorTypeOK, Validator,
        IsRegisteredValidator
<1> QED
    BY <1>2 DEF ValidatorsInv, OwnersInv, Owns, ListInv, KeysInv, NamesInv, ChangeRate

\* No two validators ever share an account, an address, a key or a name, and
\* what is marked as in use is what they use (registerValidator, replaceKey).
THEOREM ValidatorsDistinct == BootstrapSpec => []ValidatorsAreDistinct
<1>1. BootstrapInit => ValidatorsInv
    BY ValidatorsInvInit DEF BootstrapInit
<1>2. ValidatorsInv /\ [BootstrapStep]_bootstrapVars => ValidatorsInv'
  <2> SUFFICES ASSUME ValidatorsInv, [BootstrapStep]_bootstrapVars
               PROVE  ValidatorsInv'
      OBVIOUS
  <2>1. CASE UNCHANGED validatorVars
      BY <2>1 DEF validatorVars, ValidatorsInv, ValidatorTypeOK, OwnersInv, Owns,
          ListInv, KeysInv, NamesInv, IsRegisteredValidator
  <2>2. CASE RegistryStep
    <3>1. ValidatorTypeOK'
        BY <2>2, ValidatorTypeStep DEF ValidatorsInv
    <3> QED
        BY <2>2, <3>1, RegisterKeepsInv, ReplaceKeepsInv, RateKeepsInv
            DEF RegistryStep
  <2> QED
      BY <2>1, <2>2, RegistrySteps
<1> QED
    BY <1>1, <1>2, ValidatorsInvImplies, PTL DEF BootstrapSpec

------------------------------------------------------------------------------
(* The promise of maxChangeRate.                                           *)

RateInv == ValidatorTypeOK /\ RateKeepsPromise

\* r is a registration of o that o's rate keeps to.
Promised(o, r) ==
    /\ IsCommissionValid(r)
    /\ r.validatorAddress = o
    /\ r.name = validators[o].name
    /\ r.maxRate = validators[o].maxRate
    /\ r.maxChangeRate = validators[o].maxChangeRate
    /\ validators[o].rate <= r.rate + r.maxChangeRate
    /\ validators[o].rate <= r.maxRate
    /\ o \notin commissionEdited => validators[o].rate = r.rate

\* No call of the registry breaks the promise: updateRate because it is
\* refused a second time.
LEMMA RegistryKeepsPromise ==
    ASSUME RateInv, ValidatorTypeOK', RegistryStep
    PROVE  RateKeepsPromise'
<1> SUFFICES ASSUME NEW o \in Operators, IsRegisteredValidator(o)'
             PROVE  \E r \in Registrations : Promised(o, r)'
    BY DEF RateKeepsPromise, Promised
<1>1. ASSUME NEW s \in Stakers, NEW q \in Registrations, AddValidator(s, q)
      PROVE  \E r \in Registrations : Promised(o, r)'
  <2>1. CASE o = q.validatorAddress
    <3>1. /\ validators'[o].name = q.name
          /\ validators'[o].rate = q.rate
          /\ validators'[o].maxRate = q.maxRate
          /\ validators'[o].maxChangeRate = q.maxChangeRate
        BY <1>1, <2>1 DEF AddValidator, RateInv, ValidatorTypeOK
    <3>2. Promised(o, q)'
        BY <1>1, <2>1, <3>1, RegistrationFacts
            DEF AddValidator, Promised, IsCommissionValid
    <3> QED
        BY <3>2
  <2>2. CASE o # q.validatorAddress
    <3>1. /\ validators'[o] = validators[o]
          /\ commissionEdited' = commissionEdited
        BY <1>1, <2>2 DEF AddValidator, RateInv, ValidatorTypeOK
    <3>2. PICK r \in Registrations : Promised(o, r)
        BY <3>1 DEF RateInv, RateKeepsPromise, Promised, IsRegisteredValidator
    <3> QED
        BY <3>1, <3>2 DEF Promised, IsCommissionValid
  <2> QED
      BY <2>1, <2>2
<1>2. ASSUME NEW s \in Stakers, NEW k \in Keys \cup {ZeroKey}, ChangeKey(s, k)
      PROVE  \E r \in Registrations : Promised(o, r)'
  <2>1. /\ validators'[o].name = validators[o].name
        /\ validators'[o].rate = validators[o].rate
        /\ validators'[o].maxRate = validators[o].maxRate
        /\ validators'[o].maxChangeRate = validators[o].maxChangeRate
        /\ commissionEdited' = commissionEdited
      BY <1>2 DEF ChangeKey, RateInv, ValidatorTypeOK, Validator
  <2>2. PICK r \in Registrations : Promised(o, r)
      BY <2>1 DEF RateInv, RateKeepsPromise, Promised, IsRegisteredValidator
  <2> QED
      BY <2>1, <2>2 DEF Promised, IsCommissionValid
<1>3. ASSUME NEW s \in Stakers, NEW rate \in Rates, ChangeRate(s, rate)
      PROVE  \E r \in Registrations : Promised(o, r)'
  <2>1. /\ validators'[o].name = validators[o].name
        /\ validators'[o].maxRate = validators[o].maxRate
        /\ validators'[o].maxChangeRate = validators[o].maxChangeRate
      BY <1>3 DEF ChangeRate, RateInv, ValidatorTypeOK, Validator
  <2>2. PICK r \in Registrations : Promised(o, r)
      BY <2>1 DEF RateInv, RateKeepsPromise, Promised, IsRegisteredValidator
  <2>3. CASE o = ethToImAddress[s]
    <3>1. /\ validators'[o].rate = rate
          /\ o \in commissionEdited'
          /\ o \notin commissionEdited
          /\ rate <= validators[o].maxRate
          /\ rate <= validators[o].rate + validators[o].maxChangeRate
        BY <1>3, <2>3 DEF ChangeRate, RateInv, ValidatorTypeOK, Validator
    <3> QED
        BY <2>1, <2>2, <3>1 DEF Promised, IsCommissionValid
  <2>4. CASE o # ethToImAddress[s]
    <3>1. /\ validators'[o] = validators[o]
          /\ o \in commissionEdited' <=> o \in commissionEdited
        BY <1>3, <2>4 DEF ChangeRate, RateInv, ValidatorTypeOK
    <3> QED
        BY <2>2, <3>1 DEF Promised, IsCommissionValid
  <2> QED
      BY <2>3, <2>4
<1> QED
    BY <1>1, <1>2, <1>3 DEF RegistryStep

\* A validator never charges more than its registration promised
\* (registerValidator, updateRate), whatever is called how often.
THEOREM RatesKeepPromise == BootstrapSpec => []RateKeepsPromise
<1>1. BootstrapInit => RateInv
    BY ValidatorTypeInit DEF BootstrapInit, ValidatorInit, RateInv,
        RateKeepsPromise, IsRegisteredValidator, NoValidator
<1>2. RateInv /\ [BootstrapStep]_bootstrapVars => RateInv'
  <2> SUFFICES ASSUME RateInv, [BootstrapStep]_bootstrapVars
               PROVE  RateInv'
      OBVIOUS
  <2>1. CASE UNCHANGED validatorVars
      BY <2>1 DEF validatorVars, RateInv, ValidatorTypeOK, RateKeepsPromise,
          IsRegisteredValidator, IsCommissionValid
  <2>2. CASE RegistryStep
      BY <2>2, ValidatorTypeStep, RegistryKeepsPromise DEF RateInv
  <2> QED
      BY <2>1, <2>2, RegistrySteps
<1> QED
    BY <1>1, <1>2, PTL DEF BootstrapSpec, RateInv

------------------------------------------------------------------------------
(* The lock.                                                               *)

LockInv ==
    /\ now \in Nat /\ spawnTime \in Nat /\ offsetDuration \in Nat
    /\ totalDepositAmounts \in [Stakers -> [Tokens -> Int]]

\* What the lock leaves to do: pause, unpause, the native deposits, wait.
AfterLock ==
    /\ now' = now \/ now' = now + 1
    /\ UNCHANGED <<scheduleVars, vaultVars, whitelistedTokens, validatorVars,
                   delegationVars>>
    /\ \/ UNCHANGED totalDepositAmounts
       \/ \E s \in Stakers, amount \in Int :
              totalDepositAmounts' =
                  [totalDepositAmounts EXCEPT ![s][NST] = @ + amount]

\* beforeLocked, on every function that needs it.
LEMMA LockedSteps ==
    ASSUME IsLocked, [BootstrapStep]_bootstrapVars
    PROVE  AfterLock
<1> USE DEF AfterLock
<1>1. CASE UNCHANGED bootstrapVars
    BY <1>1 DEF bootstrapVars, vaultVars, validatorVars, scheduleVars,
        delegationVars, depositVars, beaconVars
<1>2. CASE OwnerCall
    BY <1>2 DEF OwnerCall, Pause, Unpause, SetPaused, SetSpawnTime,
        SetOffsetDuration, AddWhitelistTokens, BootstrapUpdateTvlLimit, Open,
        depositVars, beaconVars
<1>3. CASE OperatorCall
    BY <1>3 DEF OperatorCall, RegisterValidator, ReplaceKey, UpdateRate,
        ValidatorCall, Open
<1>4. CASE LstCall
    BY <1>4 DEF LstCall, BootstrapDeposit, BootstrapDepositThenDelegateTo,
        BootstrapClaimPrincipalFromImuachain, WithdrawPrincipal, Open
<1>5. CASE DelegationCall
    BY <1>5 DEF DelegationCall, BootstrapDelegateTo, BootstrapUndelegateFrom, Open
<1>6. CASE NativeCall
  <2>1. ASSUME NEW s \in Stakers, BootstrapCreateImuaCapsule(s)
        PROVE  AfterLock
      BY <2>1 DEF BootstrapCreateImuaCapsule, depositVars, beaconVars
  <2>2. ASSUME NEW s \in Stakers, NEW v \in Validators, BootstrapStake(s, v)
        PROVE  AfterLock
      BY <2>2 DEF BootstrapStake, depositVars
  <2>3. ASSUME NEW s \in Stakers, NEW v \in Validators, NEW time \in 0..now,
               NEW balance \in Amounts,
               BootstrapVerifyAndDepositNativeStake(s, v, time, balance)
        PROVE  AfterLock
    <3>1. DepositAmount(balance) \in Int
        BY AmountsAssumption, CapsuleConstantsAssumption DEF DepositAmount
    <3>2. totalDepositAmounts' = [totalDepositAmounts EXCEPT ![s][NST] =
                                      @ + DepositAmount(balance)]
        BY <2>3 DEF BootstrapVerifyAndDepositNativeStake, AddDeposit
    <3>3. now' = now
        BY <2>3 DEF BootstrapVerifyAndDepositNativeStake, beaconVars
    <3>4. UNCHANGED <<scheduleVars, vaultVars, whitelistedTokens,
                      validatorVars, delegationVars>>
        BY <2>3 DEF BootstrapVerifyAndDepositNativeStake
    <3> QED
        BY <3>1, <3>2, <3>3, <3>4
  <2> QED
      BY <1>6, <2>1, <2>2, <2>3 DEF NativeCall
<1>7. CASE BootstrapTick
    BY <1>7 DEF BootstrapTick, depositVars
<1> QED
    BY <1>1, <1>2, <1>3, <1>4, <1>5, <1>6, <1>7 DEF BootstrapStep

\* Any step moves clock, schedule and deposits by at most one of these.
BooksStep ==
    /\ now' = now \/ now' = now + 1
    /\ \/ UNCHANGED scheduleVars
       \/ \E spawn \in SpawnTimes :
              spawnTime' = spawn /\ UNCHANGED offsetDuration
       \/ \E offset \in OffsetDurations :
              offsetDuration' = offset /\ UNCHANGED spawnTime
    /\ \/ UNCHANGED totalDepositAmounts
       \/ \E s \in Stakers, t \in Tokens, amount \in Int :
              totalDepositAmounts' =
                  [totalDepositAmounts EXCEPT ![s][t] = @ + amount]
       \/ \E s \in Stakers, t \in Tokens, amount \in Int :
              totalDepositAmounts' =
                  [totalDepositAmounts EXCEPT ![s][t] = @ - amount]

\* The setters, the deposits and the claims are what changes them.
LEMMA BooksSteps ==
    ASSUME [BootstrapStep]_bootstrapVars
    PROVE  BooksStep
<1> USE DEF BooksStep
<1>1. CASE UNCHANGED bootstrapVars
    BY <1>1 DEF bootstrapVars, depositVars, beaconVars
<1>2. CASE OwnerCall
    BY <1>2 DEF OwnerCall, Pause, Unpause, SetPaused, SetSpawnTime,
        SetOffsetDuration, AddWhitelistTokens, BootstrapUpdateTvlLimit, depositVars,
        beaconVars, scheduleVars
<1>3. CASE OperatorCall
    BY <1>3 DEF OperatorCall, RegisterValidator, ReplaceKey, UpdateRate,
        ValidatorCall, depositVars, beaconVars
<1>4. CASE LstCall
  <2> SUFFICES ASSUME NEW s \in Stakers, NEW t \in LSTs, NEW amount \in Amounts,
                      \/ BootstrapDeposit(s, t, amount)
                      \/ \E o \in Operators : BootstrapDepositThenDelegateTo(s, o, t, amount)
                      \/ BootstrapClaimPrincipalFromImuachain(s, t, amount)
                      \/ WithdrawPrincipal(s, t, amount)
               PROVE  BooksStep
      BY <1>4 DEF LstCall
  <2>1. t \in Tokens /\ amount \in Int
      BY AmountsAssumption DEF Tokens
  <2>2. now' = now /\ UNCHANGED scheduleVars
      BY DEF BootstrapDeposit, BootstrapDepositThenDelegateTo, BootstrapClaimPrincipalFromImuachain,
          WithdrawPrincipal, beaconVars
  <2>3. \/ UNCHANGED totalDepositAmounts
        \/ totalDepositAmounts' = [totalDepositAmounts EXCEPT ![s][t] = @ + amount]
        \/ totalDepositAmounts' = [totalDepositAmounts EXCEPT ![s][t] = @ - amount]
      BY DEF BootstrapDeposit, BootstrapDepositThenDelegateTo, BootstrapClaimPrincipalFromImuachain,
          WithdrawPrincipal, AddDeposit, depositVars
  <2> QED
      BY <2>1, <2>2, <2>3
<1>5. CASE DelegationCall
    BY <1>5 DEF DelegationCall, BootstrapDelegateTo, BootstrapUndelegateFrom, depositVars,
        beaconVars
<1>6. CASE NativeCall
  <2>1. ASSUME NEW s \in Stakers, BootstrapCreateImuaCapsule(s)
        PROVE  BooksStep
      BY <2>1 DEF BootstrapCreateImuaCapsule, depositVars, beaconVars
  <2>2. ASSUME NEW s \in Stakers, NEW v \in Validators, BootstrapStake(s, v)
        PROVE  BooksStep
      BY <2>2 DEF BootstrapStake, depositVars
  <2>3. ASSUME NEW s \in Stakers, NEW v \in Validators, NEW time \in 0..now,
               NEW balance \in Amounts,
               BootstrapVerifyAndDepositNativeStake(s, v, time, balance)
        PROVE  BooksStep
    <3>1. DepositAmount(balance) \in Int /\ NST \in Tokens
        BY AmountsAssumption, CapsuleConstantsAssumption
            DEF DepositAmount, Tokens
    <3>2. totalDepositAmounts' = [totalDepositAmounts EXCEPT ![s][NST] =
                                      @ + DepositAmount(balance)]
        BY <2>3 DEF BootstrapVerifyAndDepositNativeStake, AddDeposit
    <3>3. now' = now /\ UNCHANGED scheduleVars
        BY <2>3 DEF BootstrapVerifyAndDepositNativeStake, beaconVars
    <3> QED
        BY <3>1, <3>2, <3>3
  <2> QED
      BY <1>6, <2>1, <2>2, <2>3 DEF NativeCall
<1>7. CASE BootstrapTick
    BY <1>7 DEF BootstrapTick, depositVars
<1> QED
    BY <1>1, <1>2, <1>3, <1>4, <1>5, <1>6, <1>7 DEF BootstrapStep

\* Clock and schedule are numbers, and deposits stay a table of numbers.
LEMMA LockInvStep ==
    ASSUME LockInv, [BootstrapStep]_bootstrapVars
    PROVE  LockInv'
<1>1. BooksStep
    BY BooksSteps
<1>2. now' \in Nat /\ spawnTime' \in Nat /\ offsetDuration' \in Nat
    BY <1>1, ScheduleAssumption DEF BooksStep, LockInv, scheduleVars
<1>3. totalDepositAmounts' \in [Stakers -> [Tokens -> Int]]
    BY <1>1 DEF BooksStep, LockInv
<1> QED
    BY <1>2, <1>3 DEF LockInv

\* Nothing that the genesis is made from changes after the lock, native
\* deposits apart (beforeLocked), and the lock is never undone.
THEOREM LockFinal == BootstrapSpec => LockIsFinal
<1>1. BootstrapInit => LockInv
    BY CapsuleConstantsAssumption, ScheduleAssumption
        DEF BootstrapInit, CapsuleInit, LockInv
<1>2. LockInv /\ [BootstrapStep]_bootstrapVars => LockInv'
    BY LockInvStep
<1>3. ASSUME LockInv, IsLocked, [BootstrapStep]_bootstrapVars
      PROVE  /\ IsLocked'
             /\ UNCHANGED <<scheduleVars, vaultVars, whitelistedTokens,
                            validatorVars, delegationVars>>
             /\ \A s \in Stakers, t \in LSTs :
                    totalDepositAmounts'[s][t] = totalDepositAmounts[s][t]
  <2>1. AfterLock
      BY <1>3, LockedSteps
  <2>2. IsLocked'
      BY <1>3, <2>1 DEF AfterLock, IsLocked, LockInv, scheduleVars
  <2>3. \A s \in Stakers, t \in LSTs :
            totalDepositAmounts'[s][t] = totalDepositAmounts[s][t]
      BY <1>3, <2>1, NSTAssumption DEF AfterLock, LockInv, Tokens
  <2> QED
      BY <2>1, <2>2, <2>3 DEF AfterLock
<1> QED
    BY <1>1, <1>2, <1>3, PTL DEF BootstrapSpec, LockIsFinal

------------------------------------------------------------------------------
(* The books.  Whatever deposit, claim, delegate, undelegate, unlock and   *)
(* withdraw do, each moves the books at one staker s, one token t and, for *)
(* a delegation, one operator o.                                           *)

\* The table g, f with d added at [a], [a][b] and [a][b][c].
AddedIn1(g, f, A, a, d) ==
    /\ g \in [A -> Int]
    /\ \A u \in A : g[u] = f[u] + Where(u = a, d)

AddedIn2(g, f, A, B, a, b, d) ==
    /\ g \in [A -> [B -> Int]]
    /\ \A u \in A, v \in B : g[u][v] = f[u][v] + Where(u = a /\ v = b, d)

AddedIn3(g, f, A, B, C, a, b, c, d) ==
    /\ g \in [A -> [B -> [C -> Int]]]
    /\ \A u \in A, v \in B, w \in C :
           g[u][v][w] = f[u][v][w] + Where(u = a /\ v = b /\ w = c, d)

LEMMA AddTo1 ==
    ASSUME NEW A, NEW f \in [A -> Int], NEW a \in A, NEW d \in Int
    PROVE  AddedIn1([f EXCEPT ![a] = @ + d], f, A, a, d)
    BY DEF AddedIn1, Where

LEMMA AddTo2 ==
    ASSUME NEW A, NEW B, NEW f \in [A -> [B -> Int]], NEW a \in A, NEW b \in B,
           NEW d \in Int
    PROVE  AddedIn2([f EXCEPT ![a][b] = @ + d], f, A, B, a, b, d)
<1> DEFINE g == [f EXCEPT ![a][b] = @ + d]
<1>1. g \in [A -> [B -> Int]]
    OBVIOUS
<1>2. ASSUME NEW u \in A, NEW v \in B
      PROVE  g[u][v] = f[u][v] + Where(u = a /\ v = b, d)
    BY DEF Where
<1> QED
    BY <1>1, <1>2 DEF AddedIn2

LEMMA AddTo3 ==
    ASSUME NEW A, NEW B, NEW C, NEW f \in [A -> [B -> [C -> Int]]],
           NEW a \in A, NEW b \in B, NEW c \in C, NEW d \in Int
    PROVE  AddedIn3([f EXCEPT ![a][b][c] = @ + d], f, A, B, C, a, b, c, d)
<1> DEFINE g == [f EXCEPT ![a][b][c] = @ + d]
<1>1. g \in [A -> [B -> [C -> Int]]]
    OBVIOUS
<1>2. ASSUME NEW u \in A, NEW v \in B, NEW w \in C
      PROVE  g[u][v][w] = f[u][v][w] + Where(u = a /\ v = b /\ w = c, d)
  <2>1. CASE u = a /\ v = b
      BY <2>1 DEF Where
  <2>2. CASE ~ (u = a /\ v = b)
      BY <2>2 DEF Where
  <2> QED
      BY <2>1, <2>2
<1> QED
    BY <1>1, <1>2 DEF AddedIn3

\* What is taken away is added with the opposite sign.
LEMMA TakeFrom1 ==
    ASSUME NEW A, NEW f \in [A -> Int], NEW a \in A, NEW d \in Int
    PROVE  AddedIn1([f EXCEPT ![a] = @ - d], f, A, a, - d)
<1>0. - d \in Int
    OBVIOUS
<1>1. [f EXCEPT ![a] = @ - d] = [f EXCEPT ![a] = @ + (- d)]
    OBVIOUS
<1> QED
    BY <1>0, <1>1, AddTo1

LEMMA TakeFrom2 ==
    ASSUME NEW A, NEW B, NEW f \in [A -> [B -> Int]], NEW a \in A, NEW b \in B,
           NEW d \in Int
    PROVE  AddedIn2([f EXCEPT ![a][b] = @ - d], f, A, B, a, b, - d)
<1>0. - d \in Int
    OBVIOUS
<1>1. f[a][b] - d = f[a][b] + (- d)
    OBVIOUS
<1>2. [f EXCEPT ![a][b] = @ - d] = [f EXCEPT ![a][b] = @ + (- d)]
    BY <1>1
<1>3. AddedIn2([f EXCEPT ![a][b] = @ + (- d)], f, A, B, a, b, - d)
    BY <1>0, AddTo2
<1> QED
    BY <1>2, <1>3

LEMMA TakeFrom3 ==
    ASSUME NEW A, NEW B, NEW C, NEW f \in [A -> [B -> [C -> Int]]],
           NEW a \in A, NEW b \in B, NEW c \in C, NEW d \in Int
    PROVE  AddedIn3([f EXCEPT ![a][b][c] = @ - d], f, A, B, C, a, b, c, - d)
<1>0. - d \in Int
    OBVIOUS
<1>1. f[a][b][c] - d = f[a][b][c] + (- d)
    OBVIOUS
<1>2. [f EXCEPT ![a][b][c] = @ - d] = [f EXCEPT ![a][b][c] = @ + (- d)]
    BY <1>1
<1>3. AddedIn3([f EXCEPT ![a][b][c] = @ + (- d)], f, A, B, C, a, b, c, - d)
    BY <1>0, AddTo3
<1> QED
    BY <1>2, <1>3

\* A table that nothing is added to.
LEMMA AddNothing ==
    /\ \A A, f, a : f \in [A -> Int] => AddedIn1(f, f, A, a, 0)
    /\ \A A, B, f, a, b : f \in [A -> [B -> Int]] => AddedIn2(f, f, A, B, a, b, 0)
    /\ \A A, B, C, f, a, b, c :
           f \in [A -> [B -> [C -> Int]]] => AddedIn3(f, f, A, B, C, a, b, c, 0)
<1>1. ASSUME NEW A, NEW f \in [A -> Int], NEW a
      PROVE  AddedIn1(f, f, A, a, 0)
    BY DEF AddedIn1, Where
<1>2. ASSUME NEW A, NEW B, NEW f \in [A -> [B -> Int]], NEW a, NEW b
      PROVE  AddedIn2(f, f, A, B, a, b, 0)
    BY DEF AddedIn2, Where
<1>3. ASSUME NEW A, NEW B, NEW C, NEW f \in [A -> [B -> [C -> Int]]],
             NEW a, NEW b, NEW c
      PROVE  AddedIn3(f, f, A, B, C, a, b, c, 0)
    BY DEF AddedIn3, Where
<1> QED
    BY <1>1, <1>2, <1>3

\* The books move at s and t by w and d (with o), and the vault of t with
\* them; un is unlocked there and b becomes withdrawable.
Moved(s, o, t, w, d, un, b) ==
    /\ AddedIn2(totalDepositAmounts', totalDepositAmounts,
                Stakers, Tokens, s, t, w + d)
    /\ AddedIn2(withdrawableAmounts', withdrawableAmounts,
                Stakers, Tokens, s, t, w)
    /\ AddedIn1(depositsByToken', depositsByToken, Tokens, t, w + d)
    /\ AddedIn3(delegations', delegations,
                Stakers, Operators, Tokens, s, o, t, d)
    /\ AddedIn2(delegationsByValidator', delegationsByValidator,
                Operators, Tokens, o, t, d)
    /\ AddedIn2(totalDepositedPrincipalAmount', totalDepositedPrincipalAmount,
                LSTs, Stakers, t, s, w + d + un)
    /\ AddedIn2(totalUnlockPrincipalAmount', totalUnlockPrincipalAmount,
                LSTs, Stakers, t, s, un)
    /\ AddedIn2(withdrawableBalances', withdrawableBalances,
                LSTs, Stakers, t, s, b)
    /\ AddedIn1(consumedTvl', consumedTvl, LSTs, t, w + d + b)

\* What the guards leave of such moves.
Affordable(s, o, t, w, d, un, b) ==
    /\ w \in Int /\ d \in Int /\ un \in Nat /\ b \in Int
    /\ IF o \in Operators THEN delegations[s][o][t] + d >= 0 ELSE d = 0
    /\ withdrawableAmounts[s][t] + w >= 0
    /\ b <= un
    /\ t \in LSTs => withdrawableBalances[t][s] + b >= 0

\* The lists of who holds positions and of who was delegated to.
Listed(s, o, t, w, d) ==
    /\ w + d > 0 => ListDepositor(s)
    /\ ListDepositor(s) \/ UNCHANGED <<depositors, isDepositor>>
    /\ d > 0 => IsRegisteredValidator(o) /\ ListValidator(s, o, t)
    /\ d <= 0 => UNCHANGED stakerToTokenToValidators

BookMove ==
    \E s \in Stakers, t \in Tokens, o \in Operators \cup {NoOperator},
       w \in Int, d \in Int, un \in Nat, b \in Int :
        /\ Moved(s, o, t, w, d, un, b)
        /\ Affordable(s, o, t, w, d, un, b)
        /\ Listed(s, o, t, w, d)

bookVars == <<totalDepositAmounts, withdrawableAmounts, depositsByToken,
              delegations, delegationsByValidator,
              totalDepositedPrincipalAmount, totalUnlockPrincipalAmount,
              withdrawableBalances, consumedTvl, depositors, isDepositor,
              stakerToTokenToValidators>>

BooksTypeOK ==
    /\ totalDepositAmounts \in [Stakers -> [Tokens -> Nat]]
    /\ withdrawableAmounts \in [Stakers -> [Tokens -> Nat]]
    /\ depositsByToken \in [Tokens -> Nat]
    /\ delegations \in [Stakers -> [Operators -> [Tokens -> Nat]]]
    /\ delegationsByValidator \in [Operators -> [Tokens -> Nat]]
    /\ totalDepositedPrincipalAmount \in [LSTs -> [Stakers -> Nat]]
    /\ totalUnlockPrincipalAmount \in [LSTs -> [Stakers -> Nat]]
    /\ withdrawableBalances \in [LSTs -> [Stakers -> Nat]]
    /\ consumedTvl \in [LSTs -> Nat]

\* The sums of the books.
DelegatedBy(s, t) ==
    SumFunctionOnSet([o \in Operators |-> delegations[s][o][t]], Operators)
DelegatedTo(o, t) ==
    SumFunctionOnSet([s \in Stakers |-> delegations[s][o][t]], Stakers)
DepositedIn(t) ==
    SumFunctionOnSet([s \in Stakers |-> totalDepositAmounts[s][t]], Stakers)
UnlockedIn(t) == SumFunctionOnSet(withdrawableBalances[t], Stakers)

BooksInv ==
    /\ BooksTypeOK
    /\ \A s \in Stakers, t \in Tokens :
           totalDepositAmounts[s][t] =
               withdrawableAmounts[s][t] + DelegatedBy(s, t)
    /\ \A t \in Tokens : depositsByToken[t] = DepositedIn(t)
    /\ \A o \in Operators, t \in Tokens :
           delegationsByValidator[o][t] = DelegatedTo(o, t)
    /\ \A s \in Stakers, t \in LSTs :
           /\ totalDepositedPrincipalAmount[t][s] =
                  totalDepositAmounts[s][t] + totalUnlockPrincipalAmount[t][s]
           /\ withdrawableBalances[t][s] <= totalUnlockPrincipalAmount[t][s]
    /\ \A t \in LSTs : consumedTvl[t] = depositsByToken[t] + UnlockedIn(t)

LEMMA DelegatedByIsNat ==
    ASSUME BooksTypeOK, NEW s \in Stakers, NEW t \in Tokens
    PROVE  DelegatedBy(s, t) \in Nat
<1>1. \A o \in Operators : [p \in Operators |-> delegations[s][p][t]][o] \in Nat
    BY DEF BooksTypeOK
<1> QED
    BY <1>1, SumType DEF DelegatedBy

\* The invariant, in the words of GenesisAccounting.
LEMMA BooksInvImplies ==
    ASSUME BooksInv
    PROVE  /\ PositionsAddUp
           /\ VaultMatchesDeposits
           /\ VaultHoldsGenesis
<1>1. PositionsAddUp
    BY DEF BooksInv, PositionsAddUp, SumFunction, DelegatedBy, DelegatedTo,
        DepositedIn
<1>2. VaultMatchesDeposits
  <2>1. ASSUME NEW s \in Stakers, NEW t \in LSTs
        PROVE  withdrawableAmounts[s][t] <= totalDepositAmounts[s][t]
    <3>1. t \in Tokens /\ DelegatedBy(s, t) \in Nat
        BY DelegatedByIsNat DEF BooksInv, Tokens
    <3>2. withdrawableAmounts[s][t] \in Nat
        BY <3>1 DEF BooksInv, BooksTypeOK
    <3> QED
        BY <3>1, <3>2 DEF BooksInv
  <2> QED
      BY <2>1 DEF BooksInv, VaultMatchesDeposits
<1>3. VaultHoldsGenesis
  <2>1. \A t \in LSTs : DOMAIN withdrawableBalances[t] = Stakers
      BY DEF BooksInv, BooksTypeOK
  <2> QED
      BY <2>1 DEF BooksInv, VaultHoldsGenesis, SumFunction, UnlockedIn
<1> QED
    BY <1>1, <1>2, <1>3

\* Every allowed move keeps the books: the totals follow the positions.
LEMMA MoveKeepsBooks ==
    ASSUME BooksInv, BookMove
    PROVE  BooksInv'
<1>1. PICK s \in Stakers, t \in Tokens, o \in Operators \cup {NoOperator},
           w \in Int, d \in Int, un \in Nat, b \in Int :
               Moved(s, o, t, w, d, un, b) /\ Affordable(s, o, t, w, d, un, b)
    BY DEF BookMove
<1>2. w + d \in Int /\ w + d + b \in Int /\ w + d + un \in Int
    OBVIOUS
<1>3. \A u \in Stakers, p \in Operators, k \in Tokens :
          /\ delegations[u][p][k] \in Nat
          /\ delegations'[u][p][k] \in Nat
          /\ delegations'[u][p][k] =
                 delegations[u][p][k] + Where(u = s /\ p = o /\ k = t, d)
    BY <1>1 DEF Moved, Affordable, AddedIn3, Where, BooksInv, BooksTypeOK
<1>4. \A u \in Stakers, k \in Tokens :
          /\ withdrawableAmounts[u][k] \in Nat
          /\ withdrawableAmounts'[u][k] \in Nat
          /\ withdrawableAmounts'[u][k] =
                 withdrawableAmounts[u][k] + Where(u = s /\ k = t, w)
    BY <1>1 DEF Moved, Affordable, AddedIn2, Where, BooksInv, BooksTypeOK
<1>5. \A k \in LSTs, u \in Stakers :
          /\ totalUnlockPrincipalAmount[k][u] \in Nat
          /\ totalUnlockPrincipalAmount'[k][u] \in Nat
          /\ totalUnlockPrincipalAmount'[k][u] =
                 totalUnlockPrincipalAmount[k][u] + Where(k = t /\ u = s, un)
          /\ withdrawableBalances[k][u] \in Nat
          /\ withdrawableBalances'[k][u] \in Nat
          /\ withdrawableBalances'[k][u] =
                 withdrawableBalances[k][u] + Where(k = t /\ u = s, b)
          /\ withdrawableBalances'[k][u] <= totalUnlockPrincipalAmount'[k][u]
    BY <1>1 DEF Moved, Affordable, AddedIn2, Where, BooksInv, BooksTypeOK
<1>6. \A u \in Stakers, k \in Tokens :
          /\ DelegatedBy(u, k) \in Nat
          /\ DelegatedBy(u, k)' \in Nat
          /\ DelegatedBy(u, k)' = DelegatedBy(u, k) + Where(u = s /\ k = t, d)
  <2> TAKE u \in Stakers, k \in Tokens
  <2> DEFINE f == [p \in Operators |-> delegations[u][p][k]]
             g == [p \in Operators |-> delegations'[u][p][k]]
             e == Where(u = s /\ k = t, d)
  <2>1. e \in Int /\ (o \in Operators \/ e = 0)
      BY <1>1 DEF Affordable, Where
  <2>2. \A p \in Operators : /\ f[p] \in Nat /\ g[p] \in Nat
                             /\ g[p] = f[p] + Where(p = o, e)
      BY <1>3 DEF Where
  <2>3. DelegatedBy(u, k) = SumFunctionOnSet(f, Operators)
        /\ DelegatedBy(u, k)' = SumFunctionOnSet(g, Operators)
      BY DEF DelegatedBy
  <2> HIDE DEF e, f, g
  <2>4. /\ SumFunctionOnSet(f, Operators) \in Nat
        /\ SumFunctionOnSet(g, Operators) \in Nat
        /\ SumFunctionOnSet(g, Operators) = SumFunctionOnSet(f, Operators) + e
      BY <2>1, <2>2, SumAdded
  <2> QED
      BY <2>3, <2>4 DEF e
<1>7. \A p \in Operators, k \in Tokens :
          /\ DelegatedTo(p, k)' \in Nat
          /\ DelegatedTo(p, k)' = DelegatedTo(p, k) + Where(p = o /\ k = t, d)
  <2> TAKE p \in Operators, k \in Tokens
  <2> DEFINE f == [u \in Stakers |-> delegations[u][p][k]]
             g == [u \in Stakers |-> delegations'[u][p][k]]
             e == Where(p = o /\ k = t, d)
  <2>1. e \in Int
      BY DEF Where
  <2>2. \A u \in Stakers : /\ f[u] \in Nat /\ g[u] \in Nat
                           /\ g[u] = f[u] + Where(u = s, e)
      BY <1>3 DEF Where
  <2>3. DelegatedTo(p, k) = SumFunctionOnSet(f, Stakers)
        /\ DelegatedTo(p, k)' = SumFunctionOnSet(g, Stakers)
      BY DEF DelegatedTo
  <2> HIDE DEF e, f, g
  <2>4. /\ SumFunctionOnSet(g, Stakers) \in Nat
        /\ SumFunctionOnSet(g, Stakers) = SumFunctionOnSet(f, Stakers) + e
      BY <2>1, <2>2, SumAdded, StakersAssumption
  <2> QED
      BY <2>3, <2>4 DEF e
<1>8. \A u \in Stakers, k \in Tokens :
          /\ totalDepositAmounts[u][k] \in Nat
          /\ totalDepositAmounts'[u][k] \in Nat
          /\ totalDepositAmounts'[u][k] =
                 totalDepositAmounts[u][k] + Where(u = s /\ k = t, w + d)
          /\ totalDepositAmounts'[u][k] =
                 withdrawableAmounts'[u][k] + DelegatedBy(u, k)'
  <2> TAKE u \in Stakers, k \in Tokens
  <2>1. totalDepositAmounts'[u][k] =
            totalDepositAmounts[u][k] + Where(u = s /\ k = t, w + d)
      BY <1>1 DEF Moved, AddedIn2
  <2>2. totalDepositAmounts[u][k] =
            withdrawableAmounts[u][k] + DelegatedBy(u, k)
      BY DEF BooksInv
  <2>3. Where(u = s /\ k = t, w + d) =
            Where(u = s /\ k = t, w) + Where(u = s /\ k = t, d)
      BY DEF Where
  <2>4. Where(u = s /\ k = t, w) \in Int /\ Where(u = s /\ k = t, d) \in Int
      BY DEF Where
  <2>5. withdrawableAmounts'[u][k] =
            withdrawableAmounts[u][k] + Where(u = s /\ k = t, w)
        /\ withdrawableAmounts[u][k] \in Nat
        /\ withdrawableAmounts'[u][k] \in Nat
      BY <1>4
  <2>6. /\ DelegatedBy(u, k)' = DelegatedBy(u, k) + Where(u = s /\ k = t, d)
        /\ DelegatedBy(u, k) \in Nat
        /\ DelegatedBy(u, k)' \in Nat
      BY <1>6
  <2> HIDE DEF Where
  <2> QED
      BY <2>1, <2>2, <2>3, <2>4, <2>5, <2>6
<1>9. \A k \in Tokens :
          /\ DepositedIn(k)' \in Nat
          /\ DepositedIn(k)' = DepositedIn(k) + Where(k = t, w + d)
  <2> TAKE k \in Tokens
  <2> DEFINE f == [u \in Stakers |-> totalDepositAmounts[u][k]]
             g == [u \in Stakers |-> totalDepositAmounts'[u][k]]
             e == Where(k = t, w + d)
  <2>1. e \in Int
      BY DEF Where
  <2>2. \A u \in Stakers : /\ f[u] \in Nat /\ g[u] \in Nat
                           /\ g[u] = f[u] + Where(u = s, e)
      BY <1>8 DEF Where
  <2>3. DepositedIn(k) = SumFunctionOnSet(f, Stakers)
        /\ DepositedIn(k)' = SumFunctionOnSet(g, Stakers)
      BY DEF DepositedIn
  <2> HIDE DEF e, f, g
  <2>4. /\ SumFunctionOnSet(g, Stakers) \in Nat
        /\ SumFunctionOnSet(g, Stakers) = SumFunctionOnSet(f, Stakers) + e
      BY <2>1, <2>2, SumAdded, StakersAssumption
  <2> QED
      BY <2>3, <2>4 DEF e
<1>10. \A k \in LSTs :
           /\ UnlockedIn(k)' \in Nat
           /\ UnlockedIn(k)' = UnlockedIn(k) + Where(k = t, b)
           /\ UnlockedIn(k) \in Nat
  <2> TAKE k \in LSTs
  <2> DEFINE f == withdrawableBalances[k]
             g == withdrawableBalances'[k]
             e == Where(k = t, b)
  <2>1. e \in Int
      BY DEF Where
  <2>2. \A u \in Stakers : /\ f[u] \in Nat /\ g[u] \in Nat
                           /\ g[u] = f[u] + Where(u = s, e)
      BY <1>5 DEF Where
  <2>3. UnlockedIn(k) = SumFunctionOnSet(f, Stakers)
        /\ UnlockedIn(k)' = SumFunctionOnSet(g, Stakers)
      BY DEF UnlockedIn
  <2> HIDE DEF e, f, g
  <2>4. /\ SumFunctionOnSet(f, Stakers) \in Nat
        /\ SumFunctionOnSet(g, Stakers) \in Nat
        /\ SumFunctionOnSet(g, Stakers) = SumFunctionOnSet(f, Stakers) + e
      BY <2>1, <2>2, SumAdded, StakersAssumption
  <2> QED
      BY <2>3, <2>4 DEF e
<1>11. \A k \in Tokens :
           depositsByToken'[k] \in Nat /\ depositsByToken'[k] = DepositedIn(k)'
    BY <1>1, <1>9 DEF Moved, AddedIn1, BooksInv
<1>12. \A p \in Operators, k \in Tokens :
           /\ delegationsByValidator'[p][k] \in Nat
           /\ delegationsByValidator'[p][k] = DelegatedTo(p, k)'
  <2> TAKE p \in Operators, k \in Tokens
  <2>1. delegationsByValidator'[p][k] =
            delegationsByValidator[p][k] + Where(p = o /\ k = t, d)
      BY <1>1 DEF Moved, AddedIn2
  <2>2. delegationsByValidator[p][k] = DelegatedTo(p, k)
      BY DEF BooksInv
  <2> QED
      BY <1>7, <2>1, <2>2
<1>13. \A u \in Stakers, k \in LSTs :
           /\ totalDepositedPrincipalAmount'[k][u] =
                  totalDepositAmounts'[u][k] + totalUnlockPrincipalAmount'[k][u]
           /\ totalDepositedPrincipalAmount'[k][u] \in Nat
  <2> TAKE u \in Stakers, k \in LSTs
  <2>1. /\ k \in Tokens
        /\ totalDepositAmounts'[u][k] =
               totalDepositAmounts[u][k] + Where(u = s /\ k = t, w + d)
        /\ totalDepositAmounts[u][k] \in Nat
        /\ totalDepositAmounts'[u][k] \in Nat
      BY <1>8 DEF Tokens
  <2>2. totalDepositedPrincipalAmount'[k][u] =
            totalDepositedPrincipalAmount[k][u]
                + Where(k = t /\ u = s, w + d + un)
      BY <1>1 DEF Moved, AddedIn2
  <2>3. /\ totalUnlockPrincipalAmount'[k][u] =
               totalUnlockPrincipalAmount[k][u] + Where(k = t /\ u = s, un)
        /\ totalUnlockPrincipalAmount[k][u] \in Nat
        /\ totalUnlockPrincipalAmount'[k][u] \in Nat
      BY <1>5
  <2>4. totalDepositedPrincipalAmount[k][u] =
            totalDepositAmounts[u][k] + totalUnlockPrincipalAmount[k][u]
      BY DEF BooksInv
  <2>5. CASE k = t /\ u = s
      BY <2>1, <2>2, <2>3, <2>4, <2>5 DEF Where
  <2>6. CASE ~ (k = t /\ u = s)
      BY <2>1, <2>2, <2>3, <2>4, <2>6 DEF Where
  <2> QED
      BY <2>5, <2>6
<1>14. \A k \in LSTs : /\ consumedTvl'[k] \in Nat
                       /\ consumedTvl'[k] = depositsByToken'[k] + UnlockedIn(k)'
  <2> TAKE k \in LSTs
  <2>1. k \in Tokens
      BY DEF Tokens
  <2>2. consumedTvl'[k] = consumedTvl[k] + Where(k = t, w + d + b)
      BY <1>1 DEF Moved, AddedIn1
  <2>3. depositsByToken'[k] = depositsByToken[k] + Where(k = t, w + d)
        /\ depositsByToken[k] \in Nat
      BY <1>1, <2>1 DEF Moved, AddedIn1, BooksInv, BooksTypeOK
  <2>4. consumedTvl[k] = depositsByToken[k] + UnlockedIn(k)
      BY DEF BooksInv
  <2>5. depositsByToken'[k] \in Nat
      BY <1>11, <2>1
  <2>6. /\ UnlockedIn(k)' = UnlockedIn(k) + Where(k = t, b)
        /\ UnlockedIn(k) \in Nat
        /\ UnlockedIn(k)' \in Nat
      BY <1>10
  <2>7. CASE k = t
      BY <2>2, <2>3, <2>4, <2>5, <2>6, <2>7 DEF Where
  <2>8. CASE k # t
      BY <2>2, <2>3, <2>4, <2>5, <2>6, <2>8 DEF Where
  <2> QED
      BY <2>7, <2>8
<1>15. BooksTypeOK'
  <2>1. /\ totalDepositAmounts' \in [Stakers -> [Tokens -> Nat]]
        /\ withdrawableAmounts' \in [Stakers -> [Tokens -> Nat]]
      BY <1>1, <1>4, <1>8 DEF Moved, AddedIn2
  <2>2. /\ depositsByToken' \in [Tokens -> Nat]
        /\ consumedTvl' \in [LSTs -> Nat]
      BY <1>1, <1>11, <1>14 DEF Moved, AddedIn1
  <2>3. delegations' \in [Stakers -> [Operators -> [Tokens -> Nat]]]
      BY <1>1, <1>3 DEF Moved, AddedIn3
  <2>4. delegationsByValidator' \in [Operators -> [Tokens -> Nat]]
      BY <1>1, <1>12 DEF Moved, AddedIn2
  <2>5. /\ totalDepositedPrincipalAmount' \in [LSTs -> [Stakers -> Nat]]
        /\ totalUnlockPrincipalAmount' \in [LSTs -> [Stakers -> Nat]]
        /\ withdrawableBalances' \in [LSTs -> [Stakers -> Nat]]
      BY <1>1, <1>5, <1>13 DEF Moved, AddedIn2
  <2> QED
      BY <2>1, <2>2, <2>3, <2>4, <2>5 DEF BooksTypeOK
<1> QED
    BY <1>5, <1>8, <1>11, <1>12, <1>13, <1>14, <1>15 DEF BooksInv

\* Tables of natural numbers are tables of integers.
LEMMA BooksAreInts ==
    ASSUME BooksTypeOK
    PROVE  /\ totalDepositAmounts \in [Stakers -> [Tokens -> Int]]
           /\ withdrawableAmounts \in [Stakers -> [Tokens -> Int]]
           /\ depositsByToken \in [Tokens -> Int]
           /\ delegations \in [Stakers -> [Operators -> [Tokens -> Int]]]
           /\ delegationsByValidator \in [Operators -> [Tokens -> Int]]
           /\ totalDepositedPrincipalAmount \in [LSTs -> [Stakers -> Int]]
           /\ totalUnlockPrincipalAmount \in [LSTs -> [Stakers -> Int]]
           /\ withdrawableBalances \in [LSTs -> [Stakers -> Int]]
           /\ consumedTvl \in [LSTs -> Int]
<1>1. [Tokens -> Nat] \subseteq [Tokens -> Int]
    OBVIOUS
<1>2. [Stakers -> Nat] \subseteq [Stakers -> Int]
    OBVIOUS
<1> QED
    BY <1>1, <1>2 DEF BooksTypeOK

\* deposit.
LEMMA DepositMoves ==
    ASSUME BooksTypeOK, NEW s \in Stakers, NEW t \in LSTs, NEW amount \in Amounts,
           BootstrapDeposit(s, t, amount)
    PROVE  BookMove
<1>1. t \in Tokens /\ amount \in Nat /\ amount > 0
    BY AmountsAssumption DEF Tokens
<1>2. /\ amount + 0 = amount /\ amount + 0 + 0 = amount
      /\ amount \in Int /\ 0 \in Int /\ 0 \in Nat
    BY <1>1
<1>3. Moved(s, NoOperator, t, amount, 0, 0, 0)
  <2>1. /\ AddedIn2(totalDepositAmounts', totalDepositAmounts,
                    Stakers, Tokens, s, t, amount)
        /\ AddedIn2(withdrawableAmounts', withdrawableAmounts,
                    Stakers, Tokens, s, t, amount)
        /\ AddedIn1(depositsByToken', depositsByToken, Tokens, t, amount)
      BY <1>1, <1>2, BooksAreInts, AddTo1, AddTo2 DEF BootstrapDeposit, AddDeposit
  <2>2. /\ AddedIn3(delegations', delegations, Stakers, Operators, Tokens,
                    s, NoOperator, t, 0)
        /\ AddedIn2(delegationsByValidator', delegationsByValidator,
                    Operators, Tokens, NoOperator, t, 0)
      BY BooksAreInts, AddNothing DEF BootstrapDeposit, delegationVars
  <2>3. /\ AddedIn2(totalDepositedPrincipalAmount',
                    totalDepositedPrincipalAmount, LSTs, Stakers, t, s, amount)
        /\ AddedIn1(consumedTvl', consumedTvl, LSTs, t, amount)
      BY <1>2, BooksAreInts, AddTo1, AddTo2
          DEF BootstrapDeposit, CanTake, VaultDeposit
  <2>4. /\ AddedIn2(totalUnlockPrincipalAmount', totalUnlockPrincipalAmount,
                    LSTs, Stakers, t, s, 0)
        /\ AddedIn2(withdrawableBalances', withdrawableBalances,
                    LSTs, Stakers, t, s, 0)
      BY BooksAreInts, AddNothing DEF BootstrapDeposit, CanTake, VaultDeposit
  <2> QED
      BY <1>2, <2>1, <2>2, <2>3, <2>4 DEF Moved
<1>4. Affordable(s, NoOperator, t, amount, 0, 0, 0)
    BY <1>1, <1>2 DEF Affordable, BooksTypeOK
<1>5. Listed(s, NoOperator, t, amount, 0)
    BY <1>1, <1>2 DEF Listed, BootstrapDeposit, AddDeposit, delegationVars
<1> QED
    BY <1>1, <1>2, <1>3, <1>4, <1>5 DEF BookMove

\* depositThenDelegateTo.
LEMMA DepositDelegateMoves ==
    ASSUME BooksTypeOK, NEW s \in Stakers, NEW o \in Operators, NEW t \in LSTs,
           NEW amount \in Amounts, BootstrapDepositThenDelegateTo(s, o, t, amount)
    PROVE  BookMove
<1>1. t \in Tokens /\ amount \in Nat /\ amount > 0
    BY AmountsAssumption DEF Tokens
<1>2. /\ 0 + amount = amount /\ 0 + amount + 0 = amount
      /\ amount \in Int /\ 0 \in Int /\ 0 \in Nat
    BY <1>1
<1>3. Moved(s, o, t, 0, amount, 0, 0)
  <2>1. /\ AddedIn2(totalDepositAmounts', totalDepositAmounts,
                    Stakers, Tokens, s, t, amount)
        /\ AddedIn1(depositsByToken', depositsByToken, Tokens, t, amount)
      BY <1>1, <1>2, BooksAreInts, AddTo1, AddTo2
          DEF BootstrapDepositThenDelegateTo, AddDeposit
  <2>2. AddedIn2(withdrawableAmounts', withdrawableAmounts,
                 Stakers, Tokens, s, t, 0)
      BY BooksAreInts, AddNothing DEF BootstrapDepositThenDelegateTo
  <2>3. /\ AddedIn3(delegations', delegations, Stakers, Operators, Tokens,
                    s, o, t, amount)
        /\ AddedIn2(delegationsByValidator', delegationsByValidator,
                    Operators, Tokens, o, t, amount)
      BY <1>1, <1>2, BooksAreInts, AddTo2, AddTo3
          DEF BootstrapDepositThenDelegateTo, AddDelegation
  <2>4. /\ AddedIn2(totalDepositedPrincipalAmount',
                    totalDepositedPrincipalAmount, LSTs, Stakers, t, s, amount)
        /\ AddedIn1(consumedTvl', consumedTvl, LSTs, t, amount)
      BY <1>2, BooksAreInts, AddTo1, AddTo2
          DEF BootstrapDepositThenDelegateTo, CanTake, VaultDeposit
  <2>5. /\ AddedIn2(totalUnlockPrincipalAmount', totalUnlockPrincipalAmount,
                    LSTs, Stakers, t, s, 0)
        /\ AddedIn2(withdrawableBalances', withdrawableBalances,
                    LSTs, Stakers, t, s, 0)
      BY BooksAreInts, AddNothing
          DEF BootstrapDepositThenDelegateTo, CanTake, VaultDeposit
  <2> QED
      BY <1>2, <2>1, <2>2, <2>3, <2>4, <2>5 DEF Moved
<1>4. Affordable(s, o, t, 0, amount, 0, 0)
    BY <1>1, <1>2 DEF Affordable, BooksTypeOK
<1>5. Listed(s, o, t, 0, amount)
    BY <1>1, <1>2 DEF Listed, BootstrapDepositThenDelegateTo, AddDeposit, AddDelegation
<1> QED
    BY <1>1, <1>2, <1>3, <1>4, <1>5 DEF BookMove

\* delegateTo.
LEMMA DelegateMoves ==
    ASSUME BooksTypeOK, NEW s \in Stakers, NEW o \in Operators, NEW t \in Tokens,
           NEW amount \in Amounts, BootstrapDelegateTo(s, o, t, amount)
    PROVE  BookMove
<1>1. amount \in Nat /\ amount > 0 /\ - amount \in Int
    BY AmountsAssumption
<1>2. /\ (- amount) + amount = 0 /\ (- amount) + amount + 0 = 0
      /\ amount \in Int /\ 0 \in Int /\ 0 \in Nat
    BY <1>1
<1>3. Moved(s, o, t, - amount, amount, 0, 0)
  <2>1. /\ AddedIn2(totalDepositAmounts', totalDepositAmounts,
                    Stakers, Tokens, s, t, 0)
        /\ AddedIn1(depositsByToken', depositsByToken, Tokens, t, 0)
      BY BooksAreInts, AddNothing DEF BootstrapDelegateTo, depositVars
  <2>2. AddedIn2(withdrawableAmounts', withdrawableAmounts,
                 Stakers, Tokens, s, t, - amount)
      BY <1>2, BooksAreInts, TakeFrom2 DEF BootstrapDelegateTo
  <2>3. /\ AddedIn3(delegations', delegations, Stakers, Operators, Tokens,
                    s, o, t, amount)
        /\ AddedIn2(delegationsByValidator', delegationsByValidator,
                    Operators, Tokens, o, t, amount)
      BY <1>2, BooksAreInts, AddTo2, AddTo3 DEF BootstrapDelegateTo, AddDelegation
  <2>4. /\ AddedIn2(totalDepositedPrincipalAmount',
                    totalDepositedPrincipalAmount, LSTs, Stakers, t, s, 0)
        /\ AddedIn1(consumedTvl', consumedTvl, LSTs, t, 0)
        /\ AddedIn2(totalUnlockPrincipalAmount', totalUnlockPrincipalAmount,
                    LSTs, Stakers, t, s, 0)
        /\ AddedIn2(withdrawableBalances', withdrawableBalances,
                    LSTs, Stakers, t, s, 0)
      BY BooksAreInts, AddNothing DEF BootstrapDelegateTo, vaultVars
  <2> QED
      BY <1>2, <2>1, <2>2, <2>3, <2>4 DEF Moved
<1>4. Affordable(s, o, t, - amount, amount, 0, 0)
    BY <1>1, <1>2 DEF Affordable, BooksTypeOK, BootstrapDelegateTo
<1>5. Listed(s, o, t, - amount, amount)
    BY <1>1, <1>2 DEF Listed, BootstrapDelegateTo, AddDelegation, depositVars
<1> QED
    BY <1>1, <1>2, <1>3, <1>4, <1>5 DEF BookMove

\* undelegateFrom.
LEMMA UndelegateMoves ==
    ASSUME BooksTypeOK, NEW s \in Stakers, NEW o \in Operators, NEW t \in Tokens,
           NEW amount \in Amounts, BootstrapUndelegateFrom(s, o, t, amount)
    PROVE  BookMove
<1>1. amount \in Nat /\ amount > 0 /\ - amount \in Int
    BY AmountsAssumption
<1>2. /\ amount + (- amount) = 0 /\ amount + (- amount) + 0 = 0
      /\ amount \in Int /\ 0 \in Int /\ 0 \in Nat
    BY <1>1
<1>3. Moved(s, o, t, amount, - amount, 0, 0)
  <2>1. /\ AddedIn2(totalDepositAmounts', totalDepositAmounts,
                    Stakers, Tokens, s, t, 0)
        /\ AddedIn1(depositsByToken', depositsByToken, Tokens, t, 0)
      BY BooksAreInts, AddNothing DEF BootstrapUndelegateFrom, depositVars
  <2>2. AddedIn2(withdrawableAmounts', withdrawableAmounts,
                 Stakers, Tokens, s, t, amount)
      BY <1>2, BooksAreInts, AddTo2 DEF BootstrapUndelegateFrom
  <2>3. /\ AddedIn3(delegations', delegations, Stakers, Operators, Tokens,
                    s, o, t, - amount)
        /\ AddedIn2(delegationsByValidator', delegationsByValidator,
                    Operators, Tokens, o, t, - amount)
      BY <1>2, BooksAreInts, TakeFrom2, TakeFrom3
          DEF BootstrapUndelegateFrom, ReleaseDelegation
  <2>4. /\ AddedIn2(totalDepositedPrincipalAmount',
                    totalDepositedPrincipalAmount, LSTs, Stakers, t, s, 0)
        /\ AddedIn1(consumedTvl', consumedTvl, LSTs, t, 0)
        /\ AddedIn2(totalUnlockPrincipalAmount', totalUnlockPrincipalAmount,
                    LSTs, Stakers, t, s, 0)
        /\ AddedIn2(withdrawableBalances', withdrawableBalances,
                    LSTs, Stakers, t, s, 0)
      BY BooksAreInts, AddNothing DEF BootstrapUndelegateFrom, vaultVars
  <2> QED
      BY <1>2, <2>1, <2>2, <2>3, <2>4 DEF Moved
<1>4. Affordable(s, o, t, amount, - amount, 0, 0)
    BY <1>1, <1>2 DEF Affordable, BooksTypeOK, BootstrapUndelegateFrom, ReleaseDelegation
<1>5. Listed(s, o, t, amount, - amount)
    BY <1>1, <1>2 DEF Listed, BootstrapUndelegateFrom, depositVars
<1> QED
    BY <1>1, <1>2, <1>3, <1>4, <1>5 DEF BookMove

\* claimPrincipalFromImuachain unlocks in the vault what it takes off.
LEMMA ClaimMoves ==
    ASSUME BooksTypeOK, NEW s \in Stakers, NEW t \in LSTs, NEW amount \in Amounts,
           BootstrapClaimPrincipalFromImuachain(s, t, amount)
    PROVE  BookMove
<1>1. t \in Tokens /\ amount \in Nat /\ amount > 0 /\ - amount \in Int
    BY AmountsAssumption DEF Tokens
<1>2. /\ (- amount) + 0 = - amount /\ (- amount) + 0 + amount = 0
      /\ amount \in Int /\ 0 \in Int /\ 0 \in Nat
    BY <1>1
<1>3. Moved(s, NoOperator, t, - amount, 0, amount, amount)
  <2>1. /\ AddedIn2(totalDepositAmounts', totalDepositAmounts,
                    Stakers, Tokens, s, t, - amount)
        /\ AddedIn2(withdrawableAmounts', withdrawableAmounts,
                    Stakers, Tokens, s, t, - amount)
        /\ AddedIn1(depositsByToken', depositsByToken, Tokens, t, - amount)
      BY <1>1, <1>2, BooksAreInts, TakeFrom1, TakeFrom2
          DEF BootstrapClaimPrincipalFromImuachain
  <2>2. /\ AddedIn3(delegations', delegations, Stakers, Operators, Tokens,
                    s, NoOperator, t, 0)
        /\ AddedIn2(delegationsByValidator', delegationsByValidator,
                    Operators, Tokens, NoOperator, t, 0)
      BY BooksAreInts, AddNothing DEF BootstrapClaimPrincipalFromImuachain, delegationVars
  <2>3. /\ AddedIn2(totalDepositedPrincipalAmount',
                    totalDepositedPrincipalAmount, LSTs, Stakers, t, s, 0)
        /\ AddedIn1(consumedTvl', consumedTvl, LSTs, t, 0)
      BY BooksAreInts, AddNothing
          DEF BootstrapClaimPrincipalFromImuachain, VaultUnlockPrincipal
  <2>4. /\ AddedIn2(totalUnlockPrincipalAmount', totalUnlockPrincipalAmount,
                    LSTs, Stakers, t, s, amount)
        /\ AddedIn2(withdrawableBalances', withdrawableBalances,
                    LSTs, Stakers, t, s, amount)
      BY <1>2, BooksAreInts, AddTo2
          DEF BootstrapClaimPrincipalFromImuachain, VaultUnlockPrincipal
  <2> QED
      BY <1>2, <2>1, <2>2, <2>3, <2>4 DEF Moved
<1>4. Affordable(s, NoOperator, t, - amount, 0, amount, amount)
    BY <1>1, <1>2
        DEF Affordable, BooksTypeOK, BootstrapClaimPrincipalFromImuachain, CanClaim
<1>5. Listed(s, NoOperator, t, - amount, 0)
    BY <1>1, <1>2 DEF Listed, BootstrapClaimPrincipalFromImuachain, delegationVars
<1> QED
    BY <1>1, <1>2, <1>3, <1>4, <1>5 DEF BookMove

\* withdrawPrincipal.
LEMMA WithdrawMoves ==
    ASSUME BooksTypeOK, NEW s \in Stakers, NEW t \in LSTs, NEW amount \in Amounts,
           WithdrawPrincipal(s, t, amount)
    PROVE  BookMove
<1>1. t \in Tokens /\ amount \in Nat /\ - amount \in Int
    BY AmountsAssumption DEF Tokens
<1>2. /\ 0 + 0 + (- amount) = - amount /\ 0 + 0 + 0 = 0 /\ 0 + 0 = 0
      /\ amount \in Int /\ 0 \in Int /\ 0 \in Nat
    BY <1>1
<1>3. Moved(s, NoOperator, t, 0, 0, 0, - amount)
  <2>1. /\ AddedIn2(totalDepositAmounts', totalDepositAmounts,
                    Stakers, Tokens, s, t, 0)
        /\ AddedIn2(withdrawableAmounts', withdrawableAmounts,
                    Stakers, Tokens, s, t, 0)
        /\ AddedIn1(depositsByToken', depositsByToken, Tokens, t, 0)
      BY BooksAreInts, AddNothing DEF WithdrawPrincipal, depositVars
  <2>2. /\ AddedIn3(delegations', delegations, Stakers, Operators, Tokens,
                    s, NoOperator, t, 0)
        /\ AddedIn2(delegationsByValidator', delegationsByValidator,
                    Operators, Tokens, NoOperator, t, 0)
      BY BooksAreInts, AddNothing DEF WithdrawPrincipal, delegationVars
  <2>3. /\ AddedIn2(totalDepositedPrincipalAmount',
                    totalDepositedPrincipalAmount, LSTs, Stakers, t, s, 0)
        /\ AddedIn2(totalUnlockPrincipalAmount', totalUnlockPrincipalAmount,
                    LSTs, Stakers, t, s, 0)
      BY BooksAreInts, AddNothing DEF WithdrawPrincipal, VaultWithdraw
  <2>4. /\ AddedIn2(withdrawableBalances', withdrawableBalances,
                    LSTs, Stakers, t, s, - amount)
        /\ AddedIn1(consumedTvl', consumedTvl, LSTs, t, - amount)
      BY <1>2, BooksAreInts, TakeFrom1, TakeFrom2
          DEF WithdrawPrincipal, VaultWithdraw
  <2> QED
      BY <1>2, <2>1, <2>2, <2>3, <2>4 DEF Moved
<1>4. Affordable(s, NoOperator, t, 0, 0, 0, - amount)
    BY <1>1, <1>2 DEF Affordable, BooksTypeOK, WithdrawPrincipal, VaultWithdraw
<1>5. Listed(s, NoOperator, t, 0, 0)
    BY <1>2 DEF Listed, WithdrawPrincipal, depositVars, delegationVars
<1> QED
    BY <1>1, <1>2, <1>3, <1>4, <1>5 DEF BookMove

\* verifyAndDepositNativeStake: no vault is concerned.
LEMMA NativeMoves ==
    ASSUME BooksTypeOK, NEW s \in Stakers, NEW v, NEW time, NEW balance \in Amounts,
           BootstrapVerifyAndDepositNativeStake(s, v, time, balance)
    PROVE  BookMove
<1>1. PICK amount \in Nat : amount = DepositAmount(balance)
    BY AmountsAssumption, CapsuleConstantsAssumption DEF DepositAmount
<1>2. /\ amount + 0 = amount /\ 0 + 0 = 0
      /\ amount \in Int /\ 0 \in Int /\ 0 \in Nat
      /\ NST \in Tokens /\ NST \notin LSTs
    BY <1>1, NSTAssumption DEF Tokens
<1>3. Moved(s, NoOperator, NST, amount, 0, 0, 0)
  <2>1. /\ AddedIn2(totalDepositAmounts', totalDepositAmounts,
                    Stakers, Tokens, s, NST, amount)
        /\ AddedIn2(withdrawableAmounts', withdrawableAmounts,
                    Stakers, Tokens, s, NST, amount)
        /\ AddedIn1(depositsByToken', depositsByToken, Tokens, NST, amount)
      BY <1>1, <1>2, BooksAreInts, AddTo1, AddTo2
          DEF BootstrapVerifyAndDepositNativeStake, AddDeposit
  <2>2. /\ AddedIn3(delegations', delegations, Stakers, Operators, Tokens,
                    s, NoOperator, NST, 0)
        /\ AddedIn2(delegationsByValidator', delegationsByValidator,
                    Operators, Tokens, NoOperator, NST, 0)
      BY BooksAreInts, AddNothing DEF BootstrapVerifyAndDepositNativeStake, delegationVars
  <2>3. /\ totalDepositedPrincipalAmount' = totalDepositedPrincipalAmount
        /\ totalUnlockPrincipalAmount' = totalUnlockPrincipalAmount
        /\ withdrawableBalances' = withdrawableBalances
        /\ consumedTvl' = consumedTvl
      BY DEF BootstrapVerifyAndDepositNativeStake, vaultVars
  <2>4. /\ AddedIn2(totalDepositedPrincipalAmount',
                    totalDepositedPrincipalAmount, LSTs, Stakers, NST, s, amount)
        /\ AddedIn1(consumedTvl', consumedTvl, LSTs, NST, amount)
      BY <1>2, <2>3, BooksAreInts DEF AddedIn1, AddedIn2, Where
  <2>5. /\ AddedIn2(totalUnlockPrincipalAmount', totalUnlockPrincipalAmount,
                    LSTs, Stakers, NST, s, 0)
        /\ AddedIn2(withdrawableBalances', withdrawableBalances,
                    LSTs, Stakers, NST, s, 0)
      BY <2>3, BooksAreInts, AddNothing
  <2> QED
      BY <1>2, <2>1, <2>2, <2>4, <2>5 DEF Moved
<1>4. Affordable(s, NoOperator, NST, amount, 0, 0, 0)
    BY <1>1, <1>2 DEF Affordable, BooksTypeOK
<1>5. Listed(s, NoOperator, NST, amount, 0)
    BY <1>1, <1>2 DEF Listed, BootstrapVerifyAndDepositNativeStake, AddDeposit, delegationVars
<1> QED
    BY <1>1, <1>2, <1>3, <1>4, <1>5 DEF BookMove

\* Whatever the contract does, it moves the books or leaves them alone.
LEMMA BookMoves ==
    ASSUME BooksTypeOK, [BootstrapStep]_bootstrapVars
    PROVE  BookMove \/ UNCHANGED bookVars
<1> USE DEF bookVars, vaultVars, depositVars, delegationVars
<1>1. CASE UNCHANGED bootstrapVars
    BY <1>1 DEF bootstrapVars
<1>2. CASE OwnerCall
    BY <1>2 DEF OwnerCall, Pause, Unpause, SetPaused, SetSpawnTime,
        SetOffsetDuration, AddWhitelistTokens, BootstrapUpdateTvlLimit, VaultSetTvlLimit
<1>3. CASE OperatorCall
    BY <1>3 DEF OperatorCall, RegisterValidator, ReplaceKey, UpdateRate,
        ValidatorCall
<1>4. CASE LstCall
    BY <1>4, DepositMoves, DepositDelegateMoves, ClaimMoves, WithdrawMoves
        DEF LstCall
<1>5. CASE DelegationCall
    BY <1>5, DelegateMoves, UndelegateMoves DEF DelegationCall
<1>6. CASE NativeCall
  <2>1. ASSUME NEW s \in Stakers, BootstrapCreateImuaCapsule(s)
        PROVE  UNCHANGED bookVars
      BY <2>1 DEF BootstrapCreateImuaCapsule
  <2>2. ASSUME NEW s \in Stakers, NEW v \in Validators, BootstrapStake(s, v)
        PROVE  UNCHANGED bookVars
      BY <2>2 DEF BootstrapStake
  <2> QED
      BY <1>6, <2>1, <2>2, NativeMoves DEF NativeCall
<1>7. CASE BootstrapTick
    BY <1>7 DEF BootstrapTick
<1> QED
    BY <1>1, <1>2, <1>3, <1>4, <1>5, <1>6, <1>7 DEF BootstrapStep

\* Nothing is deposited at first.
LEMMA BooksInvInit == BootstrapInit => BooksInv
<1> SUFFICES ASSUME BootstrapInit
             PROVE  BooksInv
    OBVIOUS
<1>1. BooksTypeOK
    BY DEF BootstrapInit, VaultInit, BooksTypeOK
<1>2. ASSUME NEW s \in Stakers, NEW t \in Tokens
      PROVE  DelegatedBy(s, t) = 0
  <2>1. \A o \in Operators :
            [p \in Operators |-> delegations[s][p][t]][o] = 0
      BY DEF BootstrapInit
  <2> QED
      BY <2>1, SumZero DEF DelegatedBy
<1>3. ASSUME NEW o \in Operators, NEW t \in Tokens
      PROVE  DelegatedTo(o, t) = 0
  <2>1. \A s \in Stakers :
            [u \in Stakers |-> delegations[u][o][t]][s] = 0
      BY DEF BootstrapInit
  <2> QED
      BY <2>1, SumZero, StakersAssumption DEF DelegatedTo
<1>4. ASSUME NEW t \in Tokens
      PROVE  DepositedIn(t) = 0
  <2>1. \A s \in Stakers :
            [u \in Stakers |-> totalDepositAmounts[u][t]][s] = 0
      BY DEF BootstrapInit
  <2> QED
      BY <2>1, SumZero, StakersAssumption DEF DepositedIn
<1>5. ASSUME NEW t \in LSTs
      PROVE  UnlockedIn(t) = 0
  <2>1. \A s \in Stakers : withdrawableBalances[t][s] = 0
      BY DEF BootstrapInit, VaultInit
  <2> QED
      BY <2>1, SumZero, StakersAssumption DEF UnlockedIn
<1>6. \A s \in Stakers, t \in Tokens :
          totalDepositAmounts[s][t] = withdrawableAmounts[s][t] + DelegatedBy(s, t)
    BY <1>2 DEF BootstrapInit
<1>7. \A t \in Tokens : depositsByToken[t] = DepositedIn(t)
    BY <1>4 DEF BootstrapInit
<1>8. \A o \in Operators, t \in Tokens :
          delegationsByValidator[o][t] = DelegatedTo(o, t)
    BY <1>3 DEF BootstrapInit
<1>9. \A s \in Stakers, t \in LSTs :
          /\ totalDepositedPrincipalAmount[t][s] =
                 totalDepositAmounts[s][t] + totalUnlockPrincipalAmount[t][s]
          /\ withdrawableBalances[t][s] <= totalUnlockPrincipalAmount[t][s]
    BY DEF BootstrapInit, VaultInit, Tokens
<1>10. \A t \in LSTs : consumedTvl[t] = depositsByToken[t] + UnlockedIn(t)
    BY <1>5 DEF BootstrapInit, VaultInit, Tokens
<1> QED
    BY <1>1, <1>6, <1>7, <1>8, <1>9, <1>10 DEF BooksInv

\* No step breaks the books.
LEMMA BooksNext ==
    ASSUME BooksInv, [BootstrapStep]_bootstrapVars
    PROVE  BooksInv'
<1>1. CASE BookMove
    BY <1>1, MoveKeepsBooks
<1>2. CASE UNCHANGED bookVars
    BY <1>2 DEF bookVars, BooksInv, BooksTypeOK, DelegatedBy, DelegatedTo,
        DepositedIn, UnlockedIn
<1> QED
    BY <1>1, <1>2, BookMoves DEF BooksInv

------------------------------------------------------------------------------
(* The types of everything else.                                           *)

OwnerTypeOK ==
    /\ tvlLimit \in [LSTs -> Nat]
    /\ clientPaused \in BOOLEAN
    /\ whitelistedTokens \subseteq Tokens
    /\ spawnTime \in Nat /\ offsetDuration \in Nat

ListsTypeOK ==
    /\ depositors \in Seq(Stakers)
    /\ isDepositor \subseteq Stakers
    /\ stakerToTokenToValidators \in [Stakers -> [Tokens -> Seq(Operators)]]

NativeTypeOK ==
    /\ CapsuleTypeOK
    /\ stakerToPubkeyIDs \in [Stakers -> Seq(Validators)]

\* BootstrapTypeOK, by who changes what.
LEMMA TypeParts ==
    ASSUME BooksTypeOK, ValidatorTypeOK, OwnerTypeOK, ListsTypeOK, NativeTypeOK
    PROVE  BootstrapTypeOK
    BY DEF BooksTypeOK, OwnerTypeOK, ListsTypeOK, NativeTypeOK,
        BootstrapTypeOK, VaultTypeOK

ownerVars == <<tvlLimit, clientPaused, whitelistedTokens, scheduleVars>>
nativeVars == <<capsuleVars, beaconVars, stakerToPubkeyIDs>>

\* Only the owner's calls change what is the owner's to set.
LEMMA OwnerSteps ==
    ASSUME [BootstrapStep]_bootstrapVars
    PROVE  OwnerCall \/ UNCHANGED ownerVars
<1> USE DEF ownerVars
<1>1. CASE UNCHANGED bootstrapVars
    BY <1>1 DEF bootstrapVars, vaultVars
<1>2. CASE OperatorCall
    BY <1>2 DEF OperatorCall, RegisterValidator, ReplaceKey, UpdateRate,
        ValidatorCall, vaultVars
<1>3. CASE LstCall
    BY <1>3 DEF LstCall, BootstrapDeposit, BootstrapDepositThenDelegateTo,
        BootstrapClaimPrincipalFromImuachain, WithdrawPrincipal, CanTake, VaultDeposit,
        VaultUnlockPrincipal, VaultWithdraw
<1>4. CASE DelegationCall
    BY <1>4 DEF DelegationCall, BootstrapDelegateTo, BootstrapUndelegateFrom, vaultVars
<1>5. CASE NativeCall
    BY <1>5 DEF NativeCall, BootstrapCreateImuaCapsule, BootstrapStake,
        BootstrapVerifyAndDepositNativeStake, vaultVars
<1>6. CASE BootstrapTick
    BY <1>6 DEF BootstrapTick, vaultVars
<1> QED
    BY <1>1, <1>2, <1>3, <1>4, <1>5, <1>6 DEF BootstrapStep

LEMMA OwnerTypeNext ==
    ASSUME OwnerTypeOK, [BootstrapStep]_bootstrapVars
    PROVE  OwnerTypeOK'
<1>1. CASE UNCHANGED ownerVars
    BY <1>1 DEF ownerVars, scheduleVars, OwnerTypeOK
<1>2. CASE OwnerCall
  <2> USE DEF OwnerTypeOK
  <2>1. CASE Pause \/ Unpause
      BY <2>1 DEF Pause, Unpause, SetPaused, vaultVars, scheduleVars
  <2>2. ASSUME NEW spawn \in SpawnTimes, SetSpawnTime(spawn)
        PROVE  OwnerTypeOK'
      BY <2>2, ScheduleAssumption DEF SetSpawnTime, vaultVars
  <2>3. ASSUME NEW offset \in OffsetDurations, SetOffsetDuration(offset)
        PROVE  OwnerTypeOK'
      BY <2>3, ScheduleAssumption DEF SetOffsetDuration, vaultVars
  <2>4. ASSUME NEW ts \in SUBSET Tokens \ {{}}, NEW limits \in [ts -> TvlLimits],
               AddWhitelistTokens(limits)
        PROVE  OwnerTypeOK'
    <3>1. DOMAIN limits = ts /\ \A t \in ts : limits[t] \in Nat
        BY TvlLimitsAssumption
    <3>2. tvlLimit' \in [LSTs -> Nat]
        BY <2>4, <3>1 DEF AddWhitelistTokens
    <3> QED
        BY <2>4, <3>1, <3>2 DEF AddWhitelistTokens, scheduleVars
  <2>5. ASSUME NEW t \in LSTs, NEW limit \in TvlLimits, BootstrapUpdateTvlLimit(t, limit)
        PROVE  OwnerTypeOK'
      BY <2>5, TvlLimitsAssumption
          DEF BootstrapUpdateTvlLimit, VaultSetTvlLimit, scheduleVars
  <2> QED
      BY <1>2, <2>1, <2>2, <2>3, <2>4, <2>5 DEF OwnerCall
<1> QED
    BY <1>1, <1>2, OwnerSteps

\* One native call or the clock changes what concerns native restaking.
NativeStep ==
    \/ \E s \in Stakers :
           \/ BootstrapCreateImuaCapsule(s)
           \/ \E v \in Validators : BootstrapStake(s, v)
           \/ \E v \in Validators, time \in 0..now, balance \in Amounts :
                  BootstrapVerifyAndDepositNativeStake(s, v, time, balance)
    \/ BootstrapTick

LEMMA NativeSteps ==
    ASSUME [BootstrapStep]_bootstrapVars
    PROVE  NativeStep \/ UNCHANGED nativeVars
<1> USE DEF nativeVars
<1>1. CASE UNCHANGED bootstrapVars
    BY <1>1 DEF bootstrapVars
<1>2. CASE OwnerCall
    BY <1>2 DEF OwnerCall, Pause, Unpause, SetPaused, SetSpawnTime,
        SetOffsetDuration, AddWhitelistTokens, BootstrapUpdateTvlLimit
<1>3. CASE OperatorCall
    BY <1>3 DEF OperatorCall, RegisterValidator, ReplaceKey, UpdateRate,
        ValidatorCall
<1>4. CASE LstCall
    BY <1>4 DEF LstCall, BootstrapDeposit, BootstrapDepositThenDelegateTo,
        BootstrapClaimPrincipalFromImuachain, WithdrawPrincipal
<1>5. CASE DelegationCall
    BY <1>5 DEF DelegationCall, BootstrapDelegateTo, BootstrapUndelegateFrom
<1>6. CASE NativeCall \/ BootstrapTick
    BY <1>6 DEF NativeCall, NativeStep
<1> QED
    BY <1>1, <1>2, <1>3, <1>4, <1>5, <1>6 DEF BootstrapStep

\* Each listed beacon chain validator is registered in its staker's capsule
\* and has that capsule as withdrawal credentials; no list has one twice.
PubkeysInv ==
    /\ NativeTypeOK
    /\ \A s \in Stakers : \A i \in DOMAIN stakerToPubkeyIDs[s] :
           /\ stakerToPubkeyIDs[s][i] \in registeredValidators[s]
           /\ credentials[stakerToPubkeyIDs[s][i]] = s
    /\ \A s \in Stakers : \A i, j \in DOMAIN stakerToPubkeyIDs[s] :
           stakerToPubkeyIDs[s][i] = stakerToPubkeyIDs[s][j] => i = j

\* A capsule registers a validator once, and credentials never change
\* (VerifyDepositProof, Stake).
LEMMA PubkeysNext ==
    ASSUME PubkeysInv, [BootstrapStep]_bootstrapVars
    PROVE  PubkeysInv'
<1> USE DEF PubkeysInv, NativeTypeOK, CapsuleTypeOK
<1>1. CASE UNCHANGED nativeVars
    BY <1>1 DEF nativeVars, capsuleVars, beaconVars
<1>2. ASSUME NEW s \in Stakers, BootstrapCreateImuaCapsule(s)
      PROVE  PubkeysInv'
  <2>1. /\ ownerToCapsule' \subseteq Stakers
        /\ isPectra' \subseteq ownerToCapsule'
      BY <1>2 DEF BootstrapCreateImuaCapsule, CreateCapsule
  <2> QED
      BY <1>2, <2>1 DEF BootstrapCreateImuaCapsule, beaconVars
<1>3. ASSUME NEW s \in Stakers, NEW v \in Validators, BootstrapStake(s, v)
      PROVE  PubkeysInv'
  <2>1. /\ ownerToCapsule' \subseteq Stakers
        /\ isPectra' \subseteq ownerToCapsule'
      BY <1>3 DEF BootstrapStake, CreateCapsule
  <2>2. /\ credentials' \in [Validators -> Stakers \cup {NoOne}]
        /\ \A w \in Validators :
               credentials[w] # NoOne => credentials'[w] = credentials[w]
      BY <1>3 DEF BootstrapStake
  <2>3. /\ stakerToPubkeyIDs' = stakerToPubkeyIDs
        /\ registeredValidators' = registeredValidators
        /\ inClaimProgress' = inClaimProgress
        /\ withdrawableBalance' = withdrawableBalance
        /\ lastClaimTimestamp' = lastClaimTimestamp
        /\ ethBalance' = ethBalance
        /\ now' = now
      BY <1>3 DEF BootstrapStake
  <2>4. NativeTypeOK'
      BY <2>1, <2>2, <2>3
  <2>5. \A u \in Stakers : \A i \in DOMAIN stakerToPubkeyIDs[u] :
            /\ stakerToPubkeyIDs[u][i] \in Validators
            /\ credentials'[stakerToPubkeyIDs[u][i]] = u
      BY <2>2, NoOneAssumption
  <2> QED
      BY <2>3, <2>4, <2>5
<1>4. ASSUME NEW s \in Stakers, NEW v \in Validators, NEW time \in 0..now,
             NEW balance \in Amounts,
             BootstrapVerifyAndDepositNativeStake(s, v, time, balance)
      PROVE  PubkeysInv'
  <2>1. /\ v \notin registeredValidators[s]
        /\ credentials[v] = s
        /\ registeredValidators' =
               [registeredValidators EXCEPT ![s] = @ \cup {v}]
        /\ stakerToPubkeyIDs' = [stakerToPubkeyIDs EXCEPT ![s] = Append(@, v)]
      BY <1>4 DEF BootstrapVerifyAndDepositNativeStake, VerifyDepositProof
  <2>2. /\ credentials' = credentials /\ now' = now
        /\ ownerToCapsule' = ownerToCapsule
        /\ isPectra' = isPectra
        /\ inClaimProgress' = inClaimProgress
        /\ withdrawableBalance' = withdrawableBalance
        /\ lastClaimTimestamp' = lastClaimTimestamp
        /\ ethBalance' = ethBalance
      BY <1>4 DEF BootstrapVerifyAndDepositNativeStake, beaconVars
  <2>3. PICK list \in Seq(Validators) : list = stakerToPubkeyIDs[s]
      OBVIOUS
  <2>4. /\ Append(list, v) \in Seq(Validators)
        /\ DOMAIN Append(list, v) = DOMAIN list \cup {Len(list) + 1}
        /\ Len(list) + 1 \notin DOMAIN list
        /\ Append(list, v)[Len(list) + 1] = v
        /\ \A i \in DOMAIN list : Append(list, v)[i] = list[i]
      OBVIOUS
  <2>5. /\ stakerToPubkeyIDs'[s] = Append(list, v)
        /\ \A u \in Stakers : u # s => stakerToPubkeyIDs'[u] = stakerToPubkeyIDs[u]
        /\ stakerToPubkeyIDs' \in [Stakers -> Seq(Validators)]
      BY <2>1, <2>3, <2>4
  <2>6. /\ registeredValidators'[s] = registeredValidators[s] \cup {v}
        /\ \A u \in Stakers :
               u # s => registeredValidators'[u] = registeredValidators[u]
        /\ registeredValidators' \in [Stakers -> SUBSET Validators]
      BY <2>1
  <2>7. NativeTypeOK'
      BY <2>2, <2>5, <2>6
  <2>8. \A i \in DOMAIN list : /\ list[i] \in registeredValidators[s]
                               /\ credentials[list[i]] = s
                               /\ list[i] # v
      BY <2>1, <2>3
  <2>9. ASSUME NEW u \in Stakers
        PROVE  /\ \A i \in DOMAIN stakerToPubkeyIDs'[u] :
                      /\ stakerToPubkeyIDs'[u][i] \in registeredValidators'[u]
                      /\ credentials'[stakerToPubkeyIDs'[u][i]] = u
               /\ \A i, j \in DOMAIN stakerToPubkeyIDs'[u] :
                      stakerToPubkeyIDs'[u][i] = stakerToPubkeyIDs'[u][j] => i = j
    <3>1. CASE u = s
        BY <2>1, <2>2, <2>3, <2>4, <2>5, <2>6, <2>8, <3>1
    <3>2. CASE u # s
        BY <2>2, <2>5, <2>6, <3>2
    <3> QED
        BY <3>1, <3>2
  <2> QED
      BY <2>7, <2>9
<1>5. CASE BootstrapTick
    BY <1>5 DEF BootstrapTick, capsuleVars
<1> QED
    BY <1>1, <1>2, <1>3, <1>4, <1>5, NativeSteps DEF NativeStep

\* No beacon chain validator is counted twice (verifyAndDepositNativeStake).
THEOREM PubkeysDistinct == BootstrapSpec => []PubkeysAreDistinct
<1>1. BootstrapInit => PubkeysInv
    BY CapsuleConstantsAssumption
        DEF BootstrapInit, CapsuleInit, PubkeysInv, NativeTypeOK, CapsuleTypeOK
<1>2. PubkeysInv /\ [BootstrapStep]_bootstrapVars => PubkeysInv'
    BY PubkeysNext
<1>3. PubkeysInv => PubkeysAreDistinct
    BY DEF PubkeysInv, PubkeysAreDistinct
<1> QED
    BY <1>1, <1>2, <1>3, PTL DEF BootstrapSpec

------------------------------------------------------------------------------
(* The lists that the genesis is generated from.                           *)

\* A validator stays registered.
LEMMA RegisteredStays ==
    ASSUME ValidatorTypeOK, [BootstrapStep]_bootstrapVars
    PROVE  \A o \in Operators : IsRegisteredValidator(o) => IsRegisteredValidator(o)'
<1> USE DEF ValidatorTypeOK, IsRegisteredValidator
<1>1. CASE UNCHANGED validatorVars
    BY <1>1 DEF validatorVars
<1>2. ASSUME NEW s \in Stakers, NEW r \in Registrations, AddValidator(s, r)
      PROVE  \A o \in Operators : IsRegisteredValidator(o) => IsRegisteredValidator(o)'
    BY <1>2, RegistrationFacts DEF AddValidator
<1>3. ASSUME NEW s \in Stakers, NEW k \in Keys \cup {ZeroKey}, ChangeKey(s, k)
      PROVE  \A o \in Operators : IsRegisteredValidator(o) => IsRegisteredValidator(o)'
    BY <1>3 DEF ChangeKey, Validator
<1>4. ASSUME NEW s \in Stakers, NEW rate \in Rates, ChangeRate(s, rate)
      PROVE  \A o \in Operators : IsRegisteredValidator(o) => IsRegisteredValidator(o)'
    BY <1>4 DEF ChangeRate, Validator
<1> QED
    BY <1>1, <1>2, <1>3, <1>4, RegistrySteps DEF RegistryStep

ListsInv == ListsTypeOK /\ GenesisListsAreComplete

\* _deposit and _delegateTo list whom they serve, the first time.
LEMMA ListsNext ==
    ASSUME BooksInv, ValidatorTypeOK, ListsInv, [BootstrapStep]_bootstrapVars
    PROVE  ListsInv'
<1> USE DEF ListsInv, ListsTypeOK, GenesisListsAreComplete
<1>1. \A o \in Operators : IsRegisteredValidator(o) => IsRegisteredValidator(o)'
    BY RegisteredStays
<1>2. CASE UNCHANGED bookVars
    BY <1>1, <1>2 DEF bookVars, DepositorsAreListed, DelegationsAreListed
<1>3. CASE BookMove
  <2>1. PICK s \in Stakers, t \in Tokens, o \in Operators \cup {NoOperator},
             w \in Int, d \in Int, un \in Nat, b \in Int :
                 /\ Moved(s, o, t, w, d, un, b)
                 /\ Affordable(s, o, t, w, d, un, b)
                 /\ Listed(s, o, t, w, d)
      BY <1>3 DEF BookMove
  <2>2. BooksInv'
      BY <1>3, MoveKeepsBooks
  <2>3. /\ depositors' \in Seq(Stakers)
        /\ isDepositor' \subseteq Stakers
        /\ isDepositor \subseteq isDepositor'
        /\ \A u \in Stakers :
               u \in isDepositor'
                   <=> \E i \in DOMAIN depositors' : depositors'[i] = u
        /\ \A i, j \in DOMAIN depositors' : depositors'[i] = depositors'[j] => i = j
    <3>1. CASE UNCHANGED <<depositors, isDepositor>>
        BY <3>1 DEF DepositorsAreListed
    <3>2. CASE ListDepositor(s) /\ s \in isDepositor
        BY <3>2 DEF DepositorsAreListed, ListDepositor
    <3>3. CASE ListDepositor(s) /\ s \notin isDepositor
      <4>1. /\ depositors' = Append(depositors, s)
            /\ isDepositor' = isDepositor \cup {s}
          BY <3>3 DEF ListDepositor
      <4>2. /\ DOMAIN depositors' = DOMAIN depositors \cup {Len(depositors) + 1}
            /\ depositors'[Len(depositors) + 1] = s
            /\ \A i \in DOMAIN depositors : depositors'[i] = depositors[i]
            /\ depositors' \in Seq(Stakers)
          BY <4>1
      <4>3. \A i \in DOMAIN depositors : depositors[i] # s
          BY <3>3 DEF DepositorsAreListed
      <4> QED
          BY <4>1, <4>2, <4>3 DEF DepositorsAreListed
    <3> QED
        BY <2>1, <3>1, <3>2, <3>3 DEF Listed
  <2>4. w + d > 0 => s \in isDepositor'
      BY <2>1 DEF Listed, ListDepositor
  <2>5. ASSUME NEW u \in Stakers, NEW k \in Tokens, totalDepositAmounts'[u][k] > 0
        PROVE  u \in isDepositor'
    <3>1. /\ totalDepositAmounts'[u][k] =
                 totalDepositAmounts[u][k] + Where(u = s /\ k = t, w + d)
          /\ totalDepositAmounts[u][k] \in Nat
        BY <2>1 DEF Moved, AddedIn2, BooksInv, BooksTypeOK
    <3>2. totalDepositAmounts[u][k] > 0 \/ (u = s /\ w + d > 0)
        BY <2>5, <3>1 DEF Where
    <3> QED
        BY <2>3, <2>4, <3>2 DEF DepositorsAreListed
  <2>6. d > 0 => s \in isDepositor'
    <3>1. CASE w + d > 0
        BY <2>4, <3>1
    <3>2. CASE d > 0 /\ w + d <= 0
      <4>1. /\ withdrawableAmounts[s][t] \in Nat
            /\ withdrawableAmounts[s][t] + w >= 0
          BY <2>1 DEF Affordable, BooksInv, BooksTypeOK
      <4>2. /\ totalDepositAmounts[s][t] =
                   withdrawableAmounts[s][t] + DelegatedBy(s, t)
            /\ DelegatedBy(s, t) \in Nat
          BY DelegatedByIsNat DEF BooksInv
      <4>3. totalDepositAmounts[s][t] > 0
          BY <3>2, <4>1, <4>2
      <4> QED
          BY <2>3, <4>3 DEF DepositorsAreListed
    <3> QED
        BY <3>1, <3>2
  <2>7. /\ stakerToTokenToValidators' \in [Stakers -> [Tokens -> Seq(Operators)]]
        /\ \A u \in Stakers, k \in Tokens :
               \A i \in DOMAIN stakerToTokenToValidators[u][k] :
                   /\ i \in DOMAIN stakerToTokenToValidators'[u][k]
                   /\ stakerToTokenToValidators'[u][k][i] =
                          stakerToTokenToValidators[u][k][i]
        /\ d > 0 /\ delegations[s][o][t] = 0 =>
               \E i \in DOMAIN stakerToTokenToValidators'[s][t] :
                   stakerToTokenToValidators'[s][t][i] = o
    <3>1. CASE UNCHANGED stakerToTokenToValidators
               /\ ~ (d > 0 /\ delegations[s][o][t] = 0)
        BY <3>1
    <3>2. CASE d > 0 /\ delegations[s][o][t] = 0
      <4>1. o \in Operators
          BY <2>1, <3>2 DEF Affordable
      <4>2. PICK list \in Seq(Operators) : list = stakerToTokenToValidators[s][t]
          OBVIOUS
      <4>3. stakerToTokenToValidators' =
                [stakerToTokenToValidators EXCEPT ![s][t] = Append(list, o)]
          BY <2>1, <3>2, <4>2 DEF Listed, ListValidator
      <4>4. /\ Append(list, o) \in Seq(Operators)
            /\ DOMAIN Append(list, o) = DOMAIN list \cup {Len(list) + 1}
            /\ Append(list, o)[Len(list) + 1] = o
            /\ \A i \in DOMAIN list : Append(list, o)[i] = list[i]
          BY <4>1
      <4>5. /\ stakerToTokenToValidators'[s][t] = Append(list, o)
            /\ \A u \in Stakers, k \in Tokens : ~ (u = s /\ k = t) =>
                   stakerToTokenToValidators'[u][k] =
                       stakerToTokenToValidators[u][k]
          BY <4>3
      <4>6. stakerToTokenToValidators' \in [Stakers -> [Tokens -> Seq(Operators)]]
          BY <4>3, <4>4
      <4> QED
          BY <4>2, <4>4, <4>5, <4>6
    <3> QED
        BY <2>1, <3>1, <3>2 DEF Listed, ListValidator
  <2>8. ASSUME NEW u \in Stakers, NEW p \in Operators, NEW k \in Tokens,
               delegations'[u][p][k] > 0
        PROVE  /\ u \in isDepositor'
               /\ IsRegisteredValidator(p)'
               /\ \E i \in DOMAIN stakerToTokenToValidators'[u][k] :
                      stakerToTokenToValidators'[u][k][i] = p
    <3>1. /\ delegations'[u][p][k] =
                 delegations[u][p][k] + Where(u = s /\ p = o /\ k = t, d)
          /\ delegations[u][p][k] \in Nat
        BY <2>1 DEF Moved, AddedIn3, BooksInv, BooksTypeOK
    <3>2. CASE delegations[u][p][k] > 0
        BY <1>1, <2>3, <2>7, <3>2 DEF DelegationsAreListed
    <3>3. CASE delegations[u][p][k] = 0
      <4>1. u = s /\ p = o /\ k = t /\ d > 0
          BY <2>8, <3>1, <3>3 DEF Where
      <4>2. IsRegisteredValidator(p)
          BY <2>1, <4>1 DEF Listed
      <4> QED
          BY <1>1, <2>6, <2>7, <3>3, <4>1, <4>2
    <3> QED
        BY <3>1, <3>2, <3>3
  <2>9. DepositorsAreListed'
      BY <2>3, <2>5 DEF DepositorsAreListed
  <2>10. DelegationsAreListed'
      BY <2>8 DEF DelegationsAreListed
  <2> QED
      BY <2>3, <2>7, <2>9, <2>10
<1> QED
    BY <1>2, <1>3, BookMoves DEF BooksInv

------------------------------------------------------------------------------
(* The theorems that need all of it.                                       *)

BootstrapInv ==
    /\ BooksInv
    /\ ValidatorTypeOK
    /\ OwnerTypeOK
    /\ ListsInv
    /\ PubkeysInv

LEMMA BootstrapInvInit == BootstrapInit => BootstrapInv
<1> SUFFICES ASSUME BootstrapInit
             PROVE  BootstrapInv
    OBVIOUS
<1>1. BooksInv
    BY BooksInvInit
<1>2. ValidatorTypeOK
    BY ValidatorTypeInit DEF BootstrapInit
<1>3. OwnerTypeOK
  <2>1. PICK limits \in [LSTs \cap GenesisTokens -> TvlLimits] :
            tvlLimit = [t \in LSTs |-> IF t \in GenesisTokens THEN limits[t]
                                                              ELSE 0]
      BY DEF BootstrapInit
  <2>2. \A t \in LSTs : t \in GenesisTokens => limits[t] \in Nat
      BY TvlLimitsAssumption
  <2>3. tvlLimit \in [LSTs -> Nat]
      BY <2>1, <2>2
  <2> QED
      BY <2>3, GenesisTokensAssumption, ScheduleAssumption
          DEF BootstrapInit, OwnerTypeOK
<1>4. ListsInv
    BY DEF BootstrapInit, ListsInv, ListsTypeOK, GenesisListsAreComplete,
        DepositorsAreListed, DelegationsAreListed
<1>5. PubkeysInv
    BY CapsuleConstantsAssumption
        DEF BootstrapInit, CapsuleInit, PubkeysInv, NativeTypeOK, CapsuleTypeOK
<1> QED
    BY <1>1, <1>2, <1>3, <1>4, <1>5 DEF BootstrapInv

LEMMA BootstrapInvNext ==
    ASSUME BootstrapInv, [BootstrapStep]_bootstrapVars
    PROVE  BootstrapInv'
<1>1. BooksInv'
    BY BooksNext DEF BootstrapInv
<1>2. ValidatorTypeOK'
  <2>1. CASE UNCHANGED validatorVars
      BY <2>1 DEF BootstrapInv, ValidatorTypeOK, validatorVars
  <2>2. CASE RegistryStep
      BY <2>2, ValidatorTypeStep DEF BootstrapInv
  <2> QED
      BY <2>1, <2>2, RegistrySteps
<1>3. OwnerTypeOK'
    BY OwnerTypeNext DEF BootstrapInv
<1>4. ListsInv'
    BY ListsNext DEF BootstrapInv
<1>5. PubkeysInv'
    BY PubkeysNext DEF BootstrapInv
<1> QED
    BY <1>1, <1>2, <1>3, <1>4, <1>5 DEF BootstrapInv

\* The books of Bootstrap and of its vaults are natural numbers that agree,
\* and their totals are the sums of the positions, whoever calls deposit,
\* claim, delegate, undelegate, unlock and withdraw in whatever order.
THEOREM BooksBalance == BootstrapSpec => []BooksAgree
<1>1. BootstrapInv => BooksAgree
    BY BooksInvImplies, TypeParts
        DEF BootstrapInv, BooksInv, ListsInv, PubkeysInv, BooksAgree
<1> QED
    BY <1>1, BootstrapInvInit, BootstrapInvNext, PTL DEF BootstrapSpec

\* No position and no delegation is missing from the lists that the genesis is
\* generated from, and no depositor is there twice (_deposit, _delegateTo).
THEOREM GenesisListsComplete == BootstrapSpec => []GenesisListsAreComplete
<1>1. BootstrapInv => GenesisListsAreComplete
    BY DEF BootstrapInv, ListsInv
<1> QED
    BY <1>1, BootstrapInvInit, BootstrapInvNext, PTL DEF BootstrapSpec

------------------------------------------------------------------------------
(* The genesis.  GenesisDepositIsEffective and GenesisPowerIsBacked are    *)
(* statements about one state of the contract and one report of the beacon *)
(* chain: they follow from BootstrapInv.  All amounts that are computed on *)
(* the way are rounded, and UlpMonotone bounds what each rounding loses.   *)

\* Above zero, a rounded number stays there.
LEMMA RoundedZero ==
    ASSUME NEW n \in Nat
    PROVE  Rounded(n) = 0 <=> n = 0
<1>1. PICK z \in Nat, one \in Nat : z = 0 /\ one = 1
  OBVIOUS
<1>2. z < Exact /\ one < Exact /\ Exact \in Nat
  BY <1>1, ExactFacts
<1>3. Rounded(z) = z /\ Rounded(one) = one
  BY <1>2, RoundedFacts
<1>4. n # 0 => Rounded(one) <= Rounded(n)
  <2>1. n # 0 => one <= n
    BY <1>1
  <2> QED
    BY <2>1, RoundedMonotone
<1> QED
  BY <1>1, <1>3, <1>4, RoundedFacts

\* A difference that cannot be negative.
LEMMA MinusRounds ==
    ASSUME NEW a \in Nat, NEW b \in Nat
    PROVE  /\ b <= a => Minus(a, b) = Rounded(a - b)
           /\ \A m \in Nat : a <= m /\ b <= m =>
                  Minus(a, b) \in Int /\ Near(Minus(a, b), a - b, Ulp[m])
<1>1. ASSUME NEW m \in Nat, a <= m, b <= m
      PROVE  Minus(a, b) \in Int /\ Near(Minus(a, b), a - b, Ulp[m])
  <2>1. CASE a >= b
    <3>1. PICK n \in Nat : n = a - b /\ n <= m
      BY <1>1, <2>1
    <3>2. Minus(a, b) = Rounded(n)
      BY <2>1, <3>1 DEF Minus
    <3>3. PICK r \in Nat, u \in Nat, v \in Nat :
              /\ r = Rounded(n) /\ u = Ulp[n] /\ v = Ulp[m] /\ u <= v
              /\ Near(r, n, u)
      BY <3>1, RoundedFacts, UlpType, UlpMonotone
    <3>4. Near(r, n, v)
      BY <3>3 DEF Near
    <3> QED
      BY <3>1, <3>2, <3>3, <3>4
  <2>2. CASE ~ (a >= b)
    <3>1. PICK n \in Nat : n = b - a /\ n <= m
      BY <1>1, <2>2
    <3>2. Minus(a, b) = -Rounded(n)
      BY <2>2, <3>1 DEF Minus
    <3>3. PICK r \in Nat, u \in Nat, v \in Nat :
              /\ r = Rounded(n) /\ u = Ulp[n] /\ v = Ulp[m] /\ u <= v
              /\ Near(r, n, u)
      BY <3>1, RoundedFacts, UlpType, UlpMonotone
    <3>4. Near(-r, a - b, v) /\ -r \in Int
      BY <3>1, <3>3 DEF Near
    <3> QED
      BY <3>2, <3>3, <3>4
  <2> QED
    BY <2>1, <2>2
<1> QED
  BY <1>1 DEF Minus

LEMMA TruncatedFacts ==
    ASSUME NEW x \in Int
    PROVE  /\ Truncated(x) \in Int
           /\ Truncated(x) * Parts - x <= Parts
           /\ x - Truncated(x) * Parts <= Parts
<1>1. PICK c \in Nat \ {0} : c = Parts
  BY ExactFacts
<1>2. CASE x >= 0
  <2>1. PICK q \in Nat : q = x \div c /\ c * q <= x /\ x < c * q + c
    BY <1>2, DivFacts
  <2>2. Truncated(x) = q
    BY <1>1, <1>2, <2>1 DEF Truncated
  <2>3. q * c = c * q /\ c * q \in Nat
    OBVIOUS
  <2> QED
    BY <1>1, <2>1, <2>2, <2>3
<1>3. CASE ~ (x >= 0)
  <2>1. PICK n \in Nat : n = -x
    BY <1>3
  <2>2. PICK q \in Nat : q = n \div c /\ c * q <= n /\ n < c * q + c
    BY DivFacts
  <2>3. Truncated(x) = -q
    BY <1>1, <1>3, <2>1, <2>2 DEF Truncated
  <2>4. (-q) * c = -(c * q) /\ c * q \in Nat
    OBVIOUS
  <2> QED
    BY <1>1, <2>1, <2>2, <2>3, <2>4
<1> QED
  BY <1>2, <1>3

\* What the beacon chain reports of a restaker is a sum of balances.
LEMMA EffectiveBalanceType ==
    ASSUME NativeTypeOK, NEW s \in Stakers, NEW balance \in Balances
    PROVE  TotalEffectiveBalance(s, balance) \in Nat
<1> DEFINE D == DOMAIN stakerToPubkeyIDs[s]
           f == [i \in D |-> balance[stakerToPubkeyIDs[s][i]]]
<1>1. stakerToPubkeyIDs[s] \in Seq(Validators)
  BY DEF NativeTypeOK
<1>2. IsFiniteSet(D)
  <2>1. D = 1 .. Len(stakerToPubkeyIDs[s])
    BY <1>1
  <2> QED
    BY <1>1, <2>1, FS_Interval
<1>3. \A i \in D : f[i] \in Nat
  <2>1. \A i \in D : stakerToPubkeyIDs[s][i]
                         \in UNION {Range(stakerToPubkeyIDs[u]) : u \in Stakers}
    BY DEF Range
  <2>2. \A p \in UNION {Range(stakerToPubkeyIDs[u]) : u \in Stakers} :
            \E n \in 0..(MaxEffectiveBalance \div Gwei) : balance[p] = n * Gwei
    BY DEF Balances
  <2>3. \A n \in Nat : n * Gwei \in Nat
    BY GweiAssumption
  <2> QED
    BY <2>1, <2>2, <2>3
<1>4. DOMAIN f = D
  OBVIOUS
<1> HIDE DEF f, D
<1>5. SumFunctionOnSet(f, D) \in Nat
  BY <1>2, <1>3, SumType
<1> QED
  BY <1>4, <1>5 DEF TotalEffectiveBalance, SumFunction, f, D

\* What a native restaker deposited is withdrawable or delegated.
LEMMA RestakerBooks ==
    ASSUME BooksInv, NEW s \in Stakers
    PROVE  /\ withdrawableAmounts[s][NST] \in Nat
           /\ DelegatedBy(s, NST) \in Nat
           /\ totalDepositAmounts[s][NST] \in Nat
           /\ totalDepositAmounts[s][NST] =
                  withdrawableAmounts[s][NST] + DelegatedBy(s, NST)
           /\ TotalDelegated(s) = Rounded(DelegatedBy(s, NST))
<1>1. NST \in Tokens
  BY DEF Tokens
<1>2. withdrawableAmounts[s][NST] \in Nat
  BY <1>1 DEF BooksInv, BooksTypeOK
<1>3. DelegatedBy(s, NST) \in Nat
  BY <1>1, DelegatedByIsNat DEF BooksInv
<1>4. totalDepositAmounts[s][NST] =
          withdrawableAmounts[s][NST] + DelegatedBy(s, NST)
  BY <1>1 DEF BooksInv
<1>5. totalDepositAmounts[s][NST] - withdrawableAmounts[s][NST]
          = DelegatedBy(s, NST)
  BY <1>2, <1>3, <1>4
<1> QED
  BY <1>2, <1>3, <1>4, <1>5 DEF TotalDelegated

\* How a deposit of d, of which w is withdrawable and x delegated, meets a
\* balance of e: the loss l takes b from the withdrawable, and p of t is pending.
Split(d, w, x, e, l, b, p, t) ==
    /\ d = w + x /\ t = Rounded(x)
    /\ d <= e => l = 0
    /\ e < d => l = Rounded(d - e) /\ l > 0
    /\ l <= w => b = l /\ p = 0
    /\ w < l => b = w /\ p = Rounded(l - w) /\ p > 0

\* What the terms of a restaker's genesis are.
RestakerIs(s, balance, d, w, x, e, l, b, p, t) ==
    /\ d = totalDepositAmounts[s][NST]
    /\ w = withdrawableAmounts[s][NST]
    /\ x = DelegatedBy(s, NST)
    /\ e = TotalEffectiveBalance(s, balance)
    /\ l = BeaconLoss(s, balance)
    /\ b = SlashFromWithdrawable(s, balance)
    /\ p = PendingSlash(s, balance)
    /\ t = TotalDelegated(s)
    /\ Split(d, w, x, e, l, b, p, t)

LEMMA SlashFacts ==
    ASSUME BooksInv, NativeTypeOK, NEW s \in Stakers, NEW balance \in Balances
    PROVE  \E d, w, x, e, l, b, p, t \in Nat :
               RestakerIs(s, balance, d, w, x, e, l, b, p, t)
<1>1. PICK d \in Nat, w \in Nat, x \in Nat, e \in Nat, t \in Nat :
          /\ d = totalDepositAmounts[s][NST]
          /\ w = withdrawableAmounts[s][NST]
          /\ x = DelegatedBy(s, NST)
          /\ e = TotalEffectiveBalance(s, balance)
          /\ t = TotalDelegated(s) /\ t = Rounded(x)
          /\ d = w + x
  BY RestakerBooks, EffectiveBalanceType, RoundedFacts
<1>2. PICK l \in Nat : /\ l = BeaconLoss(s, balance)
                       /\ d <= e => l = 0
                       /\ e < d => l = Rounded(d - e) /\ l > 0
  <2>1. CASE d <= e
    <3>1. BeaconLoss(s, balance) = 0
      BY <1>1, <2>1 DEF BeaconLoss
    <3> QED
      BY <2>1, <3>1
  <2>2. CASE e < d
    <3>1. PICK n \in Nat : n = d - e /\ n # 0
      BY <2>2
    <3>2. BeaconLoss(s, balance) = Rounded(n)
      BY <1>1, <2>2, <3>1 DEF BeaconLoss
    <3>3. Rounded(n) \in Nat /\ Rounded(n) # 0
      BY <3>1, RoundedFacts, RoundedZero
    <3> QED
      BY <2>2, <3>1, <3>2, <3>3
  <2> QED
    BY <2>1, <2>2
<1>3. PICK b \in Nat : /\ b = SlashFromWithdrawable(s, balance)
                       /\ l <= w => b = l
                       /\ w < l => b = w
  BY <1>1, <1>2 DEF SlashFromWithdrawable
<1>4. PICK p \in Nat : /\ p = PendingSlash(s, balance)
                       /\ l <= w => p = 0
                       /\ w < l => p = Rounded(l - w) /\ p > 0
  <2>1. CASE l <= w
    <3>1. PendingSlash(s, balance) = 0
      BY <1>1, <1>2, <2>1 DEF PendingSlash
    <3> QED
      BY <2>1, <3>1
  <2>2. CASE w < l
    <3>1. PICK n \in Nat : n = l - w /\ n # 0
      BY <2>2
    <3>2. PendingSlash(s, balance) = Rounded(n)
      BY <1>1, <1>2, <2>2, <3>1 DEF PendingSlash
    <3>3. Rounded(n) \in Nat /\ Rounded(n) # 0
      BY <3>1, RoundedFacts, RoundedZero
    <3> QED
      BY <2>2, <3>1, <3>2, <3>3
  <2> QED
    BY <2>1, <2>2
<1>5. RestakerIs(s, balance, d, w, x, e, l, b, p, t)
  BY <1>1, <1>2, <1>3, <1>4 DEF RestakerIs, Split
<1> QED
  BY <1>5

\* Of a deposit written in full no more than it is lost, and pending no more
\* than is delegated.
LEMMA ExactDepositFacts ==
    ASSUME BooksInv, NativeTypeOK, NEW s \in Stakers, NEW balance \in Balances,
           DepositIsExact(s)
    PROVE  /\ BeaconLoss(s, balance) <= totalDepositAmounts[s][NST]
           /\ PendingSlash(s, balance) <= TotalDelegated(s)
           /\ TotalDelegated(s) <= totalDepositAmounts[s][NST]
<1>0. PICK d, w, x, e, l, b, p, t \in Nat :
          RestakerIs(s, balance, d, w, x, e, l, b, p, t)
  BY SlashFacts
<1>1. /\ d = totalDepositAmounts[s][NST]
      /\ l = BeaconLoss(s, balance)
      /\ p = PendingSlash(s, balance)
      /\ t = TotalDelegated(s)
      /\ d = w + x /\ t = Rounded(x)
      /\ d <= e => l = 0
      /\ e < d => l = Rounded(d - e) /\ l > 0
      /\ l <= w => b = l /\ p = 0
      /\ w < l => b = w /\ p = Rounded(l - w) /\ p > 0
  BY <1>0 DEF RestakerIs, Split
<1>2. Rounded(d) = d
  BY <1>1 DEF DepositIsExact
<1>3. l <= d
  <2>1. CASE d <= e
    BY <1>1, <2>1
  <2>2. CASE e < d
    <3>1. PICK n \in Nat : n = d - e /\ n <= d
      BY <2>2
    <3>2. Rounded(n) <= Rounded(d)
      BY <3>1, RoundedMonotone
    <3> QED
      BY <1>1, <1>2, <2>2, <3>1, <3>2
  <2> QED
    BY <2>1, <2>2
<1>4. t <= d
  <2>1. x <= d
    BY <1>1
  <2> QED
    BY <1>1, <1>2, <2>1, RoundedMonotone
<1>5. p <= t
  <2>1. CASE l <= w
    BY <1>1, <2>1
  <2>2. CASE w < l
    <3>1. PICK n \in Nat : n = l - w /\ n <= x
      BY <1>1, <1>3, <2>2
    <3>2. Rounded(n) <= Rounded(x)
      BY <3>1, RoundedMonotone
    <3> QED
      BY <1>1, <2>2, <3>1, <3>2
  <2> QED
    BY <2>1, <2>2
<1> QED
  BY <1>1, <1>3, <1>4, <1>5

\* What a restaker enters the genesis with as withdrawable.
LEMMA GenesisWithdrawableType ==
    ASSUME BooksInv, NativeTypeOK, NEW s \in Stakers, NEW t \in Tokens,
           NEW balance \in Balances
    PROVE  GenesisWithdrawable(s, t, balance) \in Nat
<1>1. CASE t # NST
  BY <1>1 DEF GenesisWithdrawable, BooksInv, BooksTypeOK
<1>2. CASE t = NST
  <2>1. PICK d, w, x, e, l, b, p, u \in Nat :
            RestakerIs(s, balance, d, w, x, e, l, b, p, u)
    BY SlashFacts
  <2>2. b <= w
    BY <2>1 DEF RestakerIs, Split
  <2>3. Minus(w, b) \in Nat
    <3>1. w - b \in Nat
      BY <2>2
    <3> QED
      BY <2>2, <3>1, MinusRounds, RoundedFacts
  <2> QED
    BY <1>2, <2>1, <2>3 DEF GenesisWithdrawable, RestakerIs
<1> QED
  BY <1>1, <1>2

\* What the balance of a restaker has grown by since the deposit.
Growth(s, balance) ==
    IF totalDepositAmounts[s][NST] > 0 /\ BeaconLoss(s, balance) = 0
    THEN TotalEffectiveBalance(s, balance) - totalDepositAmounts[s][NST]
    ELSE 0

\* The entries of a restaker in the genesis, of its terms.
EntriesAre(s, balance, d, w, x, e, l, b, p, t) ==
    /\ b <= w /\ p <= t /\ t <= d /\ l <= d /\ Rounded(d) = d
    /\ Growth(s, balance) = IF d > 0 /\ l = 0 THEN e - d ELSE 0
    /\ GenesisWithdrawable(s, NST, balance) =
           IF l = 0 THEN w ELSE Rounded(w - b)
    /\ GenesisDeposit(s, NST, balance) =
           IF d = 0 THEN 0 ELSE IF l = 0 THEN e
           ELSE IF p > 0 THEN Rounded(t - p) ELSE Rounded(d - l)

LEMMA GenesisTerms ==
    ASSUME BooksInv, NativeTypeOK, NEW s \in Stakers, NEW balance \in Balances,
           DepositIsExact(s)
    PROVE  \E d, w, x, e, l, b, p, t \in Nat :
               /\ RestakerIs(s, balance, d, w, x, e, l, b, p, t)
               /\ EntriesAre(s, balance, d, w, x, e, l, b, p, t)
<1>0. PICK d, w, x, e, l, b, p, t \in Nat :
          RestakerIs(s, balance, d, w, x, e, l, b, p, t)
  BY SlashFacts
<1>1. p <= t /\ t <= d /\ l <= d /\ Rounded(d) = d
  BY <1>0, ExactDepositFacts DEF RestakerIs, DepositIsExact
<1>2. b <= w /\ b <= d /\ (p = 0 => b = l)
  BY <1>0 DEF RestakerIs, Split
<1>3. /\ Minus(w, b) = Rounded(w - b)
      /\ Minus(t, p) = Rounded(t - p)
      /\ Minus(d, b) = Rounded(d - b)
  BY <1>1, <1>2, MinusRounds
<1>4. GenesisWithdrawable(s, NST, balance) = IF l = 0 THEN w ELSE Rounded(w - b)
  BY <1>0, <1>3 DEF GenesisWithdrawable, RestakerIs
<1>5. GenesisDeposit(s, NST, balance) =
          IF d = 0 THEN 0 ELSE IF l = 0 THEN e
          ELSE IF p > 0 THEN Rounded(t - p) ELSE Rounded(d - l)
  BY <1>0, <1>2, <1>3 DEF GenesisDeposit, RestakerIs
<1>6. Growth(s, balance) = IF d > 0 /\ l = 0 THEN e - d ELSE 0
  BY <1>0 DEF Growth, RestakerIs
<1>7. EntriesAre(s, balance, d, w, x, e, l, b, p, t)
  BY <1>1, <1>2, <1>4, <1>5, <1>6 DEF EntriesAre
<1> QED
  BY <1>0, <1>7

\* No more is withdrawable than the deposit is.
LEMMA GenesisStakeType ==
    ASSUME BooksInv, NativeTypeOK, NEW s \in Stakers, NEW balance \in Balances,
           DepositIsExact(s)
    PROVE  /\ GenesisDeposit(s, NST, balance) \in Nat
           /\ GenesisWithdrawable(s, NST, balance)
                  \in 0..GenesisDeposit(s, NST, balance)
           /\ Growth(s, balance) \in Nat
           /\ Growth(s, balance) <= GenesisDeposit(s, NST, balance)
                                      - GenesisWithdrawable(s, NST, balance)
<1>1. PICK d, w, x, e, l, b, p, t \in Nat :
          /\ RestakerIs(s, balance, d, w, x, e, l, b, p, t)
          /\ EntriesAre(s, balance, d, w, x, e, l, b, p, t)
  BY GenesisTerms
<1>2. PICK D, W, G :
          /\ D = GenesisDeposit(s, NST, balance)
          /\ W = GenesisWithdrawable(s, NST, balance)
          /\ G = Growth(s, balance)
  OBVIOUS
<1>3. /\ b <= w /\ p <= t /\ t <= d /\ l <= d
      /\ G = IF d > 0 /\ l = 0 THEN e - d ELSE 0
      /\ W = IF l = 0 THEN w ELSE Rounded(w - b)
      /\ D = IF d = 0 THEN 0 ELSE IF l = 0 THEN e
             ELSE IF p > 0 THEN Rounded(t - p) ELSE Rounded(d - l)
  BY <1>1, <1>2 DEF EntriesAre
<1>4. /\ d = w + x
      /\ d <= e => l = 0
      /\ e < d => l > 0
      /\ l <= w => b = l /\ p = 0
      /\ w < l => b = w /\ p > 0
  BY <1>1 DEF RestakerIs, Split
<1>5. CASE d = 0
  BY <1>2, <1>3, <1>4, <1>5
<1>6. CASE d > 0 /\ l = 0
  BY <1>2, <1>3, <1>4, <1>6
<1>7. CASE d > 0 /\ l > 0 /\ p > 0
  <2>1. w - b = 0
    BY <1>4, <1>7
  <2>2. W = 0
    BY <1>3, <1>7, <2>1, RoundedZero
  <2>3. D \in Nat
    <3>1. t - p \in Nat
      BY <1>3
    <3> QED
      BY <1>3, <1>7, <3>1, RoundedFacts
  <2> QED
    BY <1>2, <1>3, <1>7, <2>2, <2>3
<1>8. CASE d > 0 /\ l > 0 /\ p = 0
  <2>1. PICK m \in Nat, n \in Nat : m = w - b /\ n = d - l /\ m <= n
    BY <1>3, <1>4, <1>8
  <2>2. Rounded(m) \in Nat /\ Rounded(n) \in Nat /\ Rounded(m) <= Rounded(n)
    BY <2>1, RoundedFacts, RoundedMonotone
  <2>3. W = Rounded(m) /\ D = Rounded(n) /\ G = 0
    BY <1>3, <1>8, <2>1
  <2> QED
    BY <1>2, <2>2, <2>3
<1> QED
  BY <1>5, <1>6, <1>7, <1>8

\* The split of the loss adds up, but for the four roundings of its second
\* branch, so the deposit of the genesis is the balance.
LEMMA DepositsAreEffective ==
    BooksInv /\ NativeTypeOK => GenesisDepositIsEffective
<1> SUFFICES ASSUME BooksInv, NativeTypeOK, NEW s \in Stakers,
                    NEW balance \in Balances,
                    totalDepositAmounts[s][NST] > 0, DepositIsExact(s)
             PROVE  Distance(GenesisDeposit(s, NST, balance),
                             TotalEffectiveBalance(s, balance))
                        <= 2 * LastDigit(totalDepositAmounts[s][NST])
  BY GenesisStakeType DEF GenesisDepositIsEffective
<1>1. PICK d, w, x, e, l, b, p, t \in Nat :
          /\ RestakerIs(s, balance, d, w, x, e, l, b, p, t)
          /\ EntriesAre(s, balance, d, w, x, e, l, b, p, t)
  BY GenesisTerms
<1>2. PICK D \in Nat : D = GenesisDeposit(s, NST, balance)
  BY GenesisStakeType
<1>3. /\ b <= w /\ p <= t /\ t <= d /\ l <= d
      /\ D = IF d = 0 THEN 0 ELSE IF l = 0 THEN e
             ELSE IF p > 0 THEN Rounded(t - p) ELSE Rounded(d - l)
  BY <1>1, <1>2 DEF EntriesAre
<1>4. /\ d = w + x /\ t = Rounded(x) /\ d > 0
      /\ d <= e => l = 0
      /\ e < d => l = Rounded(d - e) /\ l > 0
      /\ w < l => b = w /\ p = Rounded(l - w) /\ p > 0
      /\ l <= w => p = 0
  BY <1>1 DEF RestakerIs, Split
<1>5. PICK u \in Nat : /\ u = Ulp[d]
                       /\ d < Exact => u = 1
                       /\ LastDigit(d) = IF d < Exact THEN 0 ELSE u
  BY UlpType DEF LastDigit
<1>6. \A n \in Nat : n <= d => Rounded(n) \in Nat /\ Near(Rounded(n), n, u)
  <2>1. ASSUME NEW n \in Nat, n <= d
        PROVE  Rounded(n) \in Nat /\ Near(Rounded(n), n, u)
    <3>1. PICK v \in Nat : v = Ulp[n] /\ v <= u
      BY <1>5, <2>1, UlpMonotone, UlpType
    <3>2. Rounded(n) \in Nat /\ Near(Rounded(n), n, v)
      BY <3>1, RoundedFacts
    <3> QED
      BY <3>1, <3>2 DEF Near
  <2> QED
    BY <2>1
<1>7. 2 * D - 2 * e <= 4 * u /\ 2 * e - 2 * D <= 4 * u /\ (u = 1 => D = e)
  <2>1. CASE l = 0
    BY <1>3, <1>4, <2>1
  <2>2. CASE l > 0 /\ p = 0
    <3>1. d - e \in Nat /\ d - e <= d /\ l = Rounded(d - e)
      BY <1>4, <2>2
    <3>2. d - l \in Nat /\ d - l <= d /\ D = Rounded(d - l)
      BY <1>3, <1>4, <2>2
    <3>3. Near(l, d - e, u) /\ Near(D, d - l, u)
      BY <1>6, <3>1, <3>2
    <3> QED
      BY <3>3 DEF Near
  <2>3. CASE l > 0 /\ p > 0
    <3>1. d - e \in Nat /\ d - e <= d /\ l = Rounded(d - e)
      BY <1>4, <2>3
    <3>2. l - w \in Nat /\ l - w <= d /\ p = Rounded(l - w)
      BY <1>3, <1>4, <2>3
    <3>3. t - p \in Nat /\ t - p <= d /\ D = Rounded(t - p)
      BY <1>3, <1>4, <2>3
    <3>4. x <= d /\ t = Rounded(x)
      BY <1>4
    <3>5. /\ Near(l, d - e, u) /\ Near(p, l - w, u)
          /\ Near(D, t - p, u) /\ Near(t, x, u)
      BY <1>6, <3>1, <3>2, <3>3, <3>4
    <3> QED
      BY <1>4, <3>5 DEF Near
  <2> QED
    BY <2>1, <2>2, <2>3
<1>8. Distance(D, e) <= 2 * LastDigit(d)
  BY <1>5, <1>7 DEF Distance
<1> QED
  BY <1>1, <1>2, <1>8 DEF RestakerIs

------------------------------------------------------------------------------
(* The voting power of the genesis.                                        *)

\* Of what staker s delegated, these many parts are lost to its pending slash,
\* and kept.
LossRate(s, balance) ==
    IF PendingSlash(s, balance) = 0 THEN 0 ELSE Proportion(s, balance)

KeptRate(s, balance) == Parts - LossRate(s, balance)

LEMMA RateType ==
    ASSUME BooksInv, NativeTypeOK, NEW s \in Stakers, NEW balance \in Balances
    PROVE  /\ LossRate(s, balance) \in Nat
           /\ KeptRate(s, balance) \in Nat
           /\ LossRate(s, balance) <= Parts
           /\ LossRate(s, balance) + KeptRate(s, balance) = Parts
<1>1. PICK d, w, x, e, l, b, p, t \in Nat :
          RestakerIs(s, balance, d, w, x, e, l, b, p, t)
  BY SlashFacts
<1>2. p = PendingSlash(s, balance) /\ t = TotalDelegated(s)
  BY <1>1 DEF RestakerIs
<1>3. p < t => Quotient(p, t) \in Nat /\ Quotient(p, t) <= Parts
  BY QuotientFacts
<1>4. Parts \in Nat
  BY ExactFacts
<1>5. LossRate(s, balance) \in Nat /\ LossRate(s, balance) <= Parts
  BY <1>2, <1>3, <1>4 DEF LossRate, Proportion
<1> QED
  BY <1>4, <1>5 DEF KeptRate

\* What of s's delegation to o is lost and kept, in parts.
LostBy(s, o, balance) == delegations[s][o][NST] * LossRate(s, balance)
KeptBy(s, o, balance) == delegations[s][o][NST] * KeptRate(s, balance)

LEMMA KeptAndLost ==
    ASSUME BooksInv, NativeTypeOK, NEW s \in Stakers, NEW o \in Operators,
           NEW balance \in Balances
    PROVE  /\ delegations[s][o][NST] \in Nat
           /\ LostBy(s, o, balance) \in Nat /\ KeptBy(s, o, balance) \in Nat
           /\ delegations[s][o][NST] * Parts =
                  LostBy(s, o, balance) + KeptBy(s, o, balance)
<1>1. delegations[s][o][NST] \in Nat
  BY DEF BooksInv, BooksTypeOK, Tokens
<1>2. PICK x \in Nat, a \in Nat, b \in Nat :
          /\ x = delegations[s][o][NST]
          /\ a = LossRate(s, balance) /\ b = KeptRate(s, balance)
          /\ a + b = Parts
  BY <1>1, RateType
<1>3. x * (a + b) = x * a + x * b /\ x * a \in Nat /\ x * b \in Nat
  OBVIOUS
<1> QED
  BY <1>1, <1>2, <1>3 DEF LostBy, KeptBy

\* Only who has a pending slash is slashed, by that rate of the delegation.
LEMMA SlashedFacts ==
    ASSUME BooksInv, NativeTypeOK, ListsInv,
           NEW o \in Operators, NEW balance \in Balances
    PROVE  /\ SlashedStakers(o, balance) \subseteq Stakers
           /\ \A s \in SlashedStakers(o, balance) :
                  Slashing(s, o, balance) = Rounded(LostBy(s, o, balance))
           /\ \A s \in Stakers \ SlashedStakers(o, balance) :
                  LostBy(s, o, balance) = 0
<1>1. SlashedStakers(o, balance) \subseteq Stakers
  BY DEF SlashedStakers, ListsInv, ListsTypeOK
<1>2. ASSUME NEW s \in SlashedStakers(o, balance)
      PROVE  Slashing(s, o, balance) = Rounded(LostBy(s, o, balance))
  <2>1. PendingSlash(s, balance) > 0
    BY DEF SlashedStakers
  <2>2. LossRate(s, balance) = Proportion(s, balance)
    BY <2>1 DEF LossRate
  <2> QED
    BY <2>2 DEF Slashing, LostBy, Times
<1>3. ASSUME NEW s \in Stakers \ SlashedStakers(o, balance)
      PROVE  LostBy(s, o, balance) = 0
  <2>1. LossRate(s, balance) \in Nat /\ delegations[s][o][NST] \in Nat
    BY RateType, KeptAndLost
  <2>2. CASE PendingSlash(s, balance) = 0
    <3>1. LossRate(s, balance) = 0
      BY <2>2 DEF LossRate
    <3> QED
      BY <2>1, <3>1 DEF LostBy
  <2>3. CASE PendingSlash(s, balance) # 0
    <3>1. NST \in Tokens /\ PendingSlash(s, balance) > 0
      <4>1. PICK d, w, x, e, l, b, p, t \in Nat :
                RestakerIs(s, balance, d, w, x, e, l, b, p, t)
        BY SlashFacts
      <4>2. PendingSlash(s, balance) \in Nat
        BY <4>1 DEF RestakerIs
      <4> QED
        BY <2>3, <4>2 DEF Tokens
    <3>2. ~ (delegations[s][o][NST] > 0)
      BY <1>3, <3>1
         DEF SlashedStakers, ListsInv, GenesisListsAreComplete, DelegationsAreListed
    <3>3. delegations[s][o][NST] = 0
      BY <2>1, <3>2
    <3> QED
      BY <2>1, <3>3 DEF LostBy
  <2> QED
    BY <2>2, <2>3
<1> QED
  BY <1>1, <1>2, <1>3

------------------------------------------------------------------------------
(* What a rounding of native restaking can lose, in parts: no amount that  *)
(* is computed is larger than twice all deposits.                          *)

LostDigits == Parts * Ulp[2 * depositsByToken[NST]]

\* A number of parts that leaves room for the roundings of a sum.
IsRoom(M) ==
    /\ Ulp[M] <= LostDigits
    /\ depositsByToken[NST] * Parts + Cardinality(Stakers) * Ulp[M] <= M

LEMMA RoomExists ==
    ASSUME NEW d \in Nat, NEW n \in Nat, 2 * Radix * n <= Exact
    PROVE  \E M \in Nat : /\ Ulp[M] <= Parts * Ulp[2 * d]
                          /\ d * Parts + n * Ulp[M] <= M
<1>1. PICK R \in Nat, E \in Nat, N \in Nat :
          /\ R = Radix /\ E = Exact /\ N = Parts
          /\ R >= 2 /\ E >= R /\ N >= E
  BY ExactFacts
<1>2. 2 * d \in Nat /\ Ulp[2 * d] \in Nat \ {0}
  <2>1. 2 * d \in Nat
    OBVIOUS
  <2> QED
    BY <2>1, UlpType
<1>3. 2 * n <= E /\ 2 * (R * n) <= E /\ R * n \in Nat
  <2>1. 2 * Radix * n = 2 * (R * n) /\ R * n \in Nat
    BY <1>1
  <2>2. 1 * n <= R * n
    BY <1>1, ProductLeq
  <2> QED
    BY <1>1, <2>1, <2>2
<1>4. CASE d = 0
  <2>1. PICK M \in Nat : M = E - 1
    BY <1>1
  <2>2. Ulp[M] = 1
    BY <1>1, <2>1, UlpType
  <2>3. Parts * Ulp[2 * d] >= 1
    <3>1. PICK u \in Nat \ {0} : u = Ulp[2 * d]
      BY <1>2
    <3>2. N * 1 <= N * u
      BY <3>1, ProductLeq
    <3> QED
      BY <1>1, <3>1, <3>2
  <2>4. d * Parts = 0
    BY <1>1, <1>4
  <2> QED
    BY <1>1, <1>3, <2>1, <2>2, <2>3, <2>4
<1>5. CASE d # 0
  <2>1. PICK y \in Nat : y = d * N /\ y >= N
    <3>1. 1 * N <= d * N /\ d * N \in Nat
      BY <1>5, ProductLeq
    <3> QED
      BY <1>1, <3>1
  <2>2. PICK M \in Nat : M = 2 * y /\ M = (2 * d) * Parts
    <3>1. (2 * d) * N = 2 * (d * N)
      OBVIOUS
    <3> QED
      BY <1>1, <2>1, <3>1
  <2>3. Ulp[M] <= Parts * Ulp[2 * d]
    BY <1>2, <2>2, UlpOfParts
  <2>4. PICK u \in Nat \ {0} : u = Ulp[M] /\ (u = 1 \/ E * u <= R * M)
    BY <1>1, UlpType, UlpSmall
  <2>5. n * u <= y
    <3>1. CASE u = 1
      BY <1>1, <1>3, <2>1, <3>1
    <3>2. CASE E * u <= R * M
      <4>1. (2 * (R * n)) * u <= E * u
        BY <1>3, ProductLeq
      <4>2. (2 * (R * n)) * u = R * (2 * (n * u)) /\ n * u \in Nat
        BY <1>1
      <4>3. R * (2 * (n * u)) <= R * M
        <5>1. R * (2 * (n * u)) \in Int /\ E * u \in Int /\ R * M \in Int
          BY <1>1, <2>4
        <5> QED
          BY <3>2, <4>1, <4>2, <5>1
      <4>4. R * (2 * (n * u)) < R * (M + 1)
        <5>1. R * (M + 1) = R * M + R /\ R * M \in Int
          BY <1>1
        <5>2. R * (2 * (n * u)) \in Int
          BY <4>2
        <5> QED
          BY <1>1, <4>3, <5>1, <5>2
      <4>5. 2 * (n * u) < M + 1
        <5>1. 2 * (n * u) \in Nat /\ M + 1 \in Nat
          BY <4>2
        <5> QED
          BY <4>4, <5>1, ProductCancel
      <4> QED
        BY <2>2, <4>2, <4>5
    <3> QED
      BY <2>4, <3>1, <3>2
  <2>6. n * u \in Nat
    BY <2>4
  <2> QED
    BY <1>1, <2>1, <2>2, <2>3, <2>4, <2>5, <2>6
<1> QED
  BY <1>4, <1>5

\* No operator has been delegated more than was deposited.
LEMMA NativeBooks ==
    ASSUME BooksInv
    PROVE  /\ depositsByToken[NST] \in Nat
           /\ \A s \in Stakers :
                  totalDepositAmounts[s][NST] <= depositsByToken[NST]
           /\ \A o \in Operators :
                  /\ delegationsByValidator[o][NST] \in Nat
                  /\ delegationsByValidator[o][NST] <= depositsByToken[NST]
<1> DEFINE d == [s \in Stakers |-> totalDepositAmounts[s][NST]]
<1>1. NST \in Tokens
  BY DEF Tokens
<1>2. \A s \in Stakers : d[s] \in Nat /\ d[s] = totalDepositAmounts[s][NST]
  BY RestakerBooks
<1>3. depositsByToken[NST] = SumFunctionOnSet(d, Stakers)
  BY <1>1 DEF BooksInv, DepositedIn, SumFunction
<1> HIDE DEF d
<1>4. depositsByToken[NST] \in Nat /\ \A s \in Stakers : d[s] <= depositsByToken[NST]
  BY <1>2, <1>3, StakersAssumption, SumType, SumRemove
<1>5. ASSUME NEW o \in Operators
      PROVE  /\ delegationsByValidator[o][NST] \in Nat
             /\ delegationsByValidator[o][NST] <= depositsByToken[NST]
  <2> DEFINE g == [s \in Stakers |-> delegations[s][o][NST]]
  <2>1. delegationsByValidator[o][NST] = SumFunctionOnSet(g, Stakers)
    BY <1>1 DEF BooksInv, DelegatedTo, SumFunction
  <2>2. ASSUME NEW s \in Stakers  PROVE g[s] \in Nat /\ g[s] <= d[s]
    <3> DEFINE h == [p \in Operators |-> delegations[s][p][NST]]
    <3>1. \A p \in Operators : h[p] \in Nat
      BY <1>1 DEF BooksInv, BooksTypeOK
    <3>2. DelegatedBy(s, NST) = SumFunctionOnSet(h, Operators)
      BY DEF DelegatedBy, SumFunction
    <3>3. g[s] = h[o]
      OBVIOUS
    <3> HIDE DEF g, h
    <3>4. h[o] <= SumFunctionOnSet(h, Operators)
      BY <3>1, RegistryAssumption, SumRemove
    <3> QED
      BY <1>2, <3>1, <3>2, <3>3, <3>4, RestakerBooks
  <2> HIDE DEF g
  <2>3. SumFunctionOnSet(g, Stakers) <= SumFunctionOnSet(d, Stakers)
    BY <1>2, <2>2, StakersAssumption, SumLeq
  <2>4. SumFunctionOnSet(g, Stakers) \in Nat
    BY <2>2, StakersAssumption, SumType
  <2> QED
    BY <1>3, <2>1, <2>3, <2>4
<1> QED
  BY <1>2, <1>4, <1>5

------------------------------------------------------------------------------
(* What an operator is slashed is, up to roundings, what its stakers lose. *)

LostAt(o, balance) ==
    SumFunctionOnSet([s \in Stakers |-> LostBy(s, o, balance)], Stakers)
KeptAt(o, balance) ==
    SumFunctionOnSet([s \in Stakers |-> KeptBy(s, o, balance)], Stakers)

LEMMA OperatorSplit ==
    ASSUME BooksInv, NativeTypeOK, NEW o \in Operators, NEW balance \in Balances
    PROVE  /\ LostAt(o, balance) \in Nat /\ KeptAt(o, balance) \in Nat
           /\ delegationsByValidator[o][NST] * Parts =
                  LostAt(o, balance) + KeptAt(o, balance)
           /\ delegationsByValidator[o][NST] * Parts
                  <= depositsByToken[NST] * Parts
           /\ depositsByToken[NST] * Parts \in Nat
           /\ delegationsByValidator[o][NST] * Parts \in Nat
<1> DEFINE d == [s \in Stakers |-> delegations[s][o][NST]]
           all == [s \in Stakers |-> delegations[s][o][NST] * Parts]
           lost == [s \in Stakers |-> LostBy(s, o, balance)]
           kept == [s \in Stakers |-> KeptBy(s, o, balance)]
<1>1. Parts \in Nat
  BY ExactFacts
<1>2. \A s \in Stakers : /\ d[s] \in Nat /\ all[s] = d[s] * Parts
                         /\ lost[s] \in Nat /\ kept[s] \in Nat
                         /\ all[s] = lost[s] + kept[s]
  BY KeptAndLost
<1>3. delegationsByValidator[o][NST] = SumFunctionOnSet(d, Stakers)
  BY DEF BooksInv, DelegatedTo, Tokens
<1>4. /\ LostAt(o, balance) = SumFunctionOnSet(lost, Stakers)
      /\ KeptAt(o, balance) = SumFunctionOnSet(kept, Stakers)
  BY DEF LostAt, KeptAt
<1> HIDE DEF d, all, lost, kept
<1>5. SumFunctionOnSet(all, Stakers) = SumFunctionOnSet(d, Stakers) * Parts
  BY <1>1, <1>2, StakersAssumption, SumScale
<1>6. SumFunctionOnSet(all, Stakers) =
          SumFunctionOnSet(lost, Stakers) + SumFunctionOnSet(kept, Stakers)
  BY <1>2, StakersAssumption, SumPlus
<1>7. /\ SumFunctionOnSet(lost, Stakers) \in Nat
      /\ SumFunctionOnSet(kept, Stakers) \in Nat
  BY <1>2, StakersAssumption, SumType
<1>8. PICK v \in Nat, t \in Nat, N \in Nat :
          /\ v = delegationsByValidator[o][NST] /\ t = depositsByToken[NST]
          /\ v <= t /\ N = Parts
  BY <1>1, NativeBooks
<1>9. v * N <= t * N /\ v * N \in Nat /\ t * N \in Nat
  BY <1>8, ProductLeq
<1> QED
  BY <1>3, <1>4, <1>5, <1>6, <1>7, <1>8, <1>9

LEMMA FewDepositors ==
    ASSUME ListsInv
    PROVE  /\ Len(depositors) \in Nat
           /\ DOMAIN depositors = 1..Len(depositors)
           /\ \A i \in 1..Len(depositors) : depositors[i] \in Stakers
           /\ Cardinality(Stakers) \in Nat
           /\ Len(depositors) <= Cardinality(Stakers)
<1>1. /\ depositors \in Seq(Stakers)
      /\ \A i, j \in DOMAIN depositors : depositors[i] = depositors[j] => i = j
  BY DEF ListsInv, ListsTypeOK, GenesisListsAreComplete, DepositorsAreListed
<1>2. PICK n \in Nat : n = Len(depositors)
  BY <1>1
<1>3. DOMAIN depositors = 1..n /\ depositors \in [1..n -> Stakers]
  BY <1>1, <1>2
<1>4. depositors \in Injection(1..n, Stakers)
  BY <1>1, <1>3 DEF Injection, IsInjective
<1>5. Cardinality(1..n) <= Cardinality(Stakers)
  BY <1>4, StakersAssumption, FS_Injection
<1>6. Cardinality(1..n) = n
  BY FS_Interval
<1>7. Cardinality(Stakers) \in Nat
  BY StakersAssumption, FS_CardinalityType
<1> QED
  BY <1>2, <1>3, <1>5, <1>6, <1>7

LEMMA SlashingNear ==
    ASSUME BooksInv, NativeTypeOK, ListsInv, NEW o \in Operators,
           NEW balance \in Balances, NEW M \in Nat, IsRoom(M)
    PROVE  /\ TotalSlashing(o, balance) \in Nat
           /\ TotalSlashing(o, balance) - LostAt(o, balance)
                  <= Cardinality(Stakers) * Ulp[M]
           /\ LostAt(o, balance) - TotalSlashing(o, balance)
                  <= Cardinality(Stakers) * Ulp[M]
<1> DEFINE n == Len(depositors)
           D(i) == {depositors[j] : j \in 1..i}
           lost == [s \in Stakers |-> LostBy(s, o, balance)]
           y == [i \in 0..n |-> SumFunctionOnSet(lost, D(i))]
           list == [i \in DOMAIN depositors |->
                       IF depositors[i] \in SlashedStakers(o, balance)
                       THEN Slashing(depositors[i], o, balance) ELSE 0]
<1>1. /\ n \in Nat /\ DOMAIN depositors = 1..n
      /\ \A i \in 1..n : depositors[i] \in Stakers
      /\ Cardinality(Stakers) \in Nat /\ n <= Cardinality(Stakers)
  BY FewDepositors
<1>2. PICK u \in Nat : u = Ulp[M]
  BY UlpType
<1>3. PICK L \in Nat : L = LostAt(o, balance) /\ L = SumFunctionOnSet(lost, Stakers)
  BY OperatorSplit DEF LostAt
<1>4. L + Cardinality(Stakers) * u <= M /\ L <= M
  <2>1. L <= depositsByToken[NST] * Parts
    <3> HIDE DEF lost
    <3>1. PICK a \in Nat, b \in Nat, k \in Nat :
              /\ a = delegationsByValidator[o][NST] * Parts
              /\ b = depositsByToken[NST] * Parts
              /\ k = KeptAt(o, balance)
              /\ a = LostAt(o, balance) + k /\ a <= b
      BY OperatorSplit
    <3>2. L <= b
      BY <1>3, <3>1
    <3> QED
      BY <3>1, <3>2
  <2>2. Cardinality(Stakers) * u \in Nat
    BY <1>1
  <2>3. depositsByToken[NST] * Parts + Cardinality(Stakers) * u <= M
    BY <1>2 DEF IsRoom
  <2>4. depositsByToken[NST] * Parts \in Nat
    BY OperatorSplit
  <2> QED
    BY <2>1, <2>2, <2>3, <2>4
<1>5. \A s \in Stakers : lost[s] = LostBy(s, o, balance) /\ lost[s] \in Nat
  BY KeptAndLost
<1>6. \A i \in 1..n :
          list[i] = IF depositors[i] \in SlashedStakers(o, balance)
                    THEN Slashing(depositors[i], o, balance) ELSE 0
  BY <1>1
<1>7. DOMAIN list = 1..n
  BY <1>1
<1>8. \A i \in 0..n : y[i] = SumFunctionOnSet(lost, D(i)) /\ D(i) \subseteq Stakers
  BY <1>1
<1>9. TotalSlashing(o, balance) = RoundedSum(list)
  BY DEF TotalSlashing
<1>10. ASSUME NEW i \in 1..n
       PROVE  /\ D(i) = D(i - 1) \cup {depositors[i]}
              /\ depositors[i] \notin D(i - 1)
  <2>1. 1..i = (1..(i - 1)) \cup {i}
    BY <1>1
  <2>2. \A j \in 1..(i - 1) : j \in DOMAIN depositors /\ i \in DOMAIN depositors /\ j # i
    BY <1>1
  <2>3. \A j \in 1..(i - 1) : depositors[j] # depositors[i]
    BY <2>2 DEF ListsInv, GenesisListsAreComplete, DepositorsAreListed
  <2> QED
    BY <2>1, <2>3
<1>11. D(0) = {}
  OBVIOUS
<1>12. \A s \in Stakers \ D(n) : lost[s] = 0
  <2>1. ASSUME NEW s \in Stakers \ D(n)  PROVE s \notin SlashedStakers(o, balance)
    <3>1. ~ \E i \in DOMAIN depositors : depositors[i] = s
      BY <1>1
    <3>2. s \notin isDepositor
      BY <3>1 DEF ListsInv, GenesisListsAreComplete, DepositorsAreListed
    <3> QED
      BY <3>2 DEF SlashedStakers
  <2> QED
    BY <1>5, <2>1, SlashedFacts
<1> HIDE DEF lost, y, list, D, n
<1>13. y[0] = 0
  <2>1. 0 \in 0..n
    BY <1>1
  <2>2. SumFunctionOnSet(lost, {}) = 0
    BY SumEmpty
  <2> QED
    BY <1>8, <1>11, <2>1, <2>2
<1>14. \A i \in 0..n : y[i] \in Nat /\ y[i] + n * Ulp[M] <= M
  <2>1. ASSUME NEW i \in 0..n  PROVE y[i] \in Nat /\ y[i] + n * u <= M
    <3>1. SumFunctionOnSet(lost, D(i)) <= L
      BY <1>3, <1>5, <1>8, StakersAssumption, SumSubset
    <3>2. SumFunctionOnSet(lost, D(i)) \in Nat
      <4>1. IsFiniteSet(D(i)) /\ \A s \in D(i) : lost[s] \in Nat
        BY <1>5, <1>8, StakersAssumption, FS_Subset
      <4> QED
        BY <4>1, SumType
    <3>3. n * u <= Cardinality(Stakers) * u /\ n * u \in Nat
      BY <1>1, ProductLeq
    <3>4. Cardinality(Stakers) * u \in Nat
      BY <1>1
    <3> QED
      BY <1>4, <1>8, <3>1, <3>2, <3>3, <3>4
  <2> QED
    BY <1>2, <2>1
<1>15. ASSUME NEW i \in 1..n
       PROVE  list[i] \in Nat /\ Near(list[i], y[i] - y[i - 1], Ulp[M])
  <2>1. PICK s \in Stakers : s = depositors[i]
    BY <1>1
  <2>2. PICK z \in Nat : z = lost[s] /\ z = LostBy(s, o, balance)
    BY <1>5
  <2>3. y[i] = z + y[i - 1] /\ y[i - 1] \in Nat
    <3>1. i - 1 \in 0..n /\ i \in 0..n
      BY <1>1
    <3>2. IsFiniteSet(D(i - 1)) /\ \A r \in D(i - 1) \cup {s} : lost[r] \in Nat
      BY <1>5, <1>8, <3>1, StakersAssumption, FS_Subset
    <3>3. SumFunctionOnSet(lost, D(i - 1) \cup {s}) =
              lost[s] + SumFunctionOnSet(lost, D(i - 1))
      BY <1>10, <2>1, <3>2, SumAdd
    <3> QED
      BY <1>8, <1>10, <1>14, <2>1, <2>2, <3>1, <3>3
  <2>4. z <= M
    <3>1. z <= L
      BY <1>3, <1>5, <2>2, StakersAssumption, SumRemove
    <3> QED
      BY <1>4, <3>1
  <2>5. y[i] - y[i - 1] = z
    BY <2>3
  <2>6. CASE s \in SlashedStakers(o, balance)
    <3>1. list[i] = Rounded(z)
      BY <1>6, <2>1, <2>2, <2>6, SlashedFacts
    <3>2. PICK r \in Nat, v \in Nat : /\ r = Rounded(z) /\ v = Ulp[z] /\ v <= u
                                      /\ Near(r, z, v)
      BY <1>2, <2>4, RoundedFacts, UlpMonotone, UlpType
    <3>3. Near(r, z, u)
      BY <3>2 DEF Near
    <3> QED
      BY <1>2, <2>5, <3>1, <3>2, <3>3
  <2>7. CASE s \notin SlashedStakers(o, balance)
    <3>1. list[i] = 0 /\ z = 0
      BY <1>6, <2>1, <2>2, <2>7, SlashedFacts
    <3>2. Near(0, 0, u)
      BY DEF Near
    <3> QED
      BY <1>2, <2>5, <3>1, <3>2
  <2> QED
    BY <2>6, <2>7
<1>16. Len(list) = n
  <2>1. list \in [1..n -> Nat]
    BY <1>7, <1>15 DEF list
  <2>2. list \in Seq(Nat)
    BY <1>1, <2>1
  <2> QED
    BY <1>1, <1>7, <2>2
<1>17. y[n] = L
  <2>1. n \in 0..n
    BY <1>1
  <2>2. SumFunctionOnSet(lost, Stakers) = SumFunctionOnSet(lost, D(n))
    BY <1>5, <1>8, <1>12, <2>1, StakersAssumption, SumExtend
  <2> QED
    BY <1>3, <1>8, <2>1, <2>2
<1>18. RoundedSum(list) \in Nat
  BY <1>1, <1>15, <1>16, RoundedSumType
<1>19. /\ RoundedSum(list) - y[n] <= n * Ulp[M]
       /\ y[n] - RoundedSum(list) <= n * Ulp[M]
  BY <1>1, <1>13, <1>14, <1>15, <1>16, RoundedSumNear
<1>20. n * u <= Cardinality(Stakers) * u /\ n * u \in Nat
  BY <1>1, ProductLeq
<1>21. Cardinality(Stakers) * u \in Nat
  BY <1>1
<1> QED
  BY <1>2, <1>3, <1>9, <1>17, <1>18, <1>19, <1>20, <1>21

\* The total of an operator is, up to roundings, what its stakers keep there.
LEMMA OperatorTotalNear ==
    ASSUME BooksInv, NativeTypeOK, ListsInv, NEW o \in Operators,
           NEW balance \in Balances
    PROVE  LET total == GenesisOperatorTotal(o, NST, balance)
               e == (Cardinality(Stakers) + 2) * LostDigits
           IN  /\ total \in Int
               /\ total * Parts - KeptAt(o, balance) <= e
               /\ KeptAt(o, balance) - total * Parts <= e
<1>1. PICK n \in Nat : n = Cardinality(Stakers)
  BY StakersAssumption, FS_CardinalityType
<1>2. PICK M \in Nat : IsRoom(M)
  BY <1>1, NativeBooks, FewStakersAssumption, RoomExists DEF IsRoom, LostDigits
<1>3. PICK u \in Nat, l \in Nat, N \in Nat, w \in Nat :
          /\ u = Ulp[M] /\ l = LostDigits /\ N = Parts /\ w = n * u
          /\ u <= l /\ N <= l /\ w <= n * l
  <2>1. PICK v \in Nat \ {0}, N \in Nat : v = Ulp[2 * depositsByToken[NST]] /\ N = Parts
    <3>1. 2 * depositsByToken[NST] \in Nat
      BY NativeBooks
    <3> QED
      BY <3>1, UlpType, ExactFacts
  <2>2. N * 1 <= N * v /\ N * v \in Nat
    BY <2>1, ProductLeq
  <2>3. PICK u \in Nat : u = Ulp[M]
    BY UlpType
  <2>4. LostDigits = N * v
    BY <2>1 DEF LostDigits
  <2>5. u <= N * v
    BY <1>2, <2>3, <2>4 DEF IsRoom
  <2>6. n * u <= n * (N * v) /\ n * u \in Nat
    BY <2>2, <2>5, ProductLeq
  <2> QED
    BY <2>1, <2>2, <2>3, <2>4, <2>5, <2>6
<1>4. PICK a \in Nat, b \in Nat, k \in Nat, x \in Nat :
          /\ a = delegationsByValidator[o][NST] * Parts
          /\ b = depositsByToken[NST] * Parts
          /\ k = KeptAt(o, balance) /\ x = LostAt(o, balance)
          /\ a = x + k /\ a <= b
  BY OperatorSplit
<1>5. PICK t \in Nat : /\ t = TotalSlashing(o, balance)
                       /\ t - x <= w /\ x - t <= w
  BY <1>1, <1>2, <1>3, <1>4, SlashingNear
<1>6. b + w <= M
  BY <1>1, <1>2, <1>3, <1>4 DEF IsRoom
<1>7. a <= M /\ t <= M
  BY <1>4, <1>5, <1>6
<1>8. PICK y \in Int : y = Minus(a, t) /\ Near(y, a - t, u)
  BY <1>3, <1>7, MinusRounds
<1>9. PICK z \in Int : /\ z = Truncated(y)
                       /\ z * N - y <= N /\ y - z * N <= N
  BY <1>3, TruncatedFacts
<1>10. GenesisOperatorTotal(o, NST, balance) = z
  BY <1>4, <1>5, <1>8, <1>9 DEF GenesisOperatorTotal, AmountAfterSlashing
<1>11. PICK c \in Int, e \in Int : c = z * N /\ e = n * l
  BY <1>3
<1>12. c - k <= e + 2 * l /\ k - c <= e + 2 * l
  BY <1>3, <1>4, <1>5, <1>8, <1>9, <1>11 DEF Near
<1>13. (n + 2) * l = e + 2 * l
  BY <1>11
<1> QED
  BY <1>1, <1>3, <1>4, <1>9, <1>10, <1>11, <1>12, <1>13

LEMMA NearTimes ==
    ASSUME NEW a \in Nat, NEW b \in Nat, NEW u \in Nat, NEW c \in Nat, Near(a, b, u)
    PROVE  Near(a * c, b * c, u * c)
<1>1. 2 * a <= 2 * b + u /\ 2 * b <= 2 * a + u
  BY DEF Near
<1>2. /\ (2 * a) * c <= (2 * b + u) * c
      /\ (2 * b) * c <= (2 * a + u) * c
  BY <1>1, ProductLeq
<1>3. /\ (2 * a) * c = 2 * (a * c) /\ (2 * b) * c = 2 * (b * c)
      /\ (2 * b + u) * c = 2 * (b * c) + u * c
      /\ (2 * a + u) * c = 2 * (a * c) + u * c
  OBVIOUS
<1>4. a * c \in Nat /\ b * c \in Nat /\ u * c \in Nat
  OBVIOUS
<1> QED
  BY <1>2, <1>3, <1>4 DEF Near

\* What a staker keeps of all its delegations is, up to roundings, the deposit
\* of the genesis less what is withdrawable and less what it has grown by.
StakedBy(s, balance) ==
    GenesisDeposit(s, NST, balance) - GenesisWithdrawable(s, NST, balance)
        - Growth(s, balance)

LEMMA StakerKeepsRate ==
    ASSUME BooksInv, NativeTypeOK, NEW s \in Stakers, NEW balance \in Balances
    PROVE  SumFunctionOnSet([o \in Operators |-> KeptBy(s, o, balance)], Operators)
               = DelegatedBy(s, NST) * KeptRate(s, balance)
<1> DEFINE d == [o \in Operators |-> delegations[s][o][NST]]
           kept == [o \in Operators |-> KeptBy(s, o, balance)]
<1>1. PICK r \in Nat : r = KeptRate(s, balance)
  BY RateType
<1>2. \A o \in Operators : d[o] \in Nat /\ kept[o] = d[o] * r
  BY <1>1, KeptAndLost DEF KeptBy
<1>3. DelegatedBy(s, NST) = SumFunctionOnSet(d, Operators)
  BY DEF DelegatedBy
<1> HIDE DEF d, kept
<1>4. SumFunctionOnSet(kept, Operators) = SumFunctionOnSet(d, Operators) * r
  BY <1>2, RegistryAssumption, SumScale
<1> QED
  BY <1>1, <1>3, <1>4 DEF kept

LEMMA StakerKeepsNear ==
    ASSUME BooksInv, NativeTypeOK, NEW s \in Stakers, NEW balance \in Balances,
           DepositIsExact(s)
    PROVE  LET row == DelegatedBy(s, NST) * KeptRate(s, balance)
               stake == StakedBy(s, balance)
           IN  /\ stake \in Nat /\ row \in Nat
               /\ stake * Parts - row <= 2 * LostDigits
               /\ row - stake * Parts <= 2 * LostDigits
<1>1. PICK d, w, x, e, l, b, p, t \in Nat :
          /\ RestakerIs(s, balance, d, w, x, e, l, b, p, t)
          /\ EntriesAre(s, balance, d, w, x, e, l, b, p, t)
  BY GenesisTerms
<1>2. PICK D \in Nat, W \in Nat, G \in Nat :
          /\ D = GenesisDeposit(s, NST, balance)
          /\ W = GenesisWithdrawable(s, NST, balance)
          /\ G = Growth(s, balance)
          /\ G <= D - W
  BY GenesisStakeType
<1>3. PICK S \in Nat : S = StakedBy(s, balance) /\ S = D - W - G
  BY <1>2 DEF StakedBy
<1>4. /\ b <= w /\ p <= t /\ t <= d /\ l <= d
      /\ G = IF d > 0 /\ l = 0 THEN e - d ELSE 0
      /\ W = IF l = 0 THEN w ELSE Rounded(w - b)
      /\ D = IF d = 0 THEN 0 ELSE IF l = 0 THEN e
             ELSE IF p > 0 THEN Rounded(t - p) ELSE Rounded(d - l)
  BY <1>1, <1>2 DEF EntriesAre
<1>5. /\ d = w + x /\ t = Rounded(x)
      /\ d <= e => l = 0
      /\ e < d => l = Rounded(d - e) /\ l > 0
      /\ l <= w => b = l /\ p = 0
      /\ w < l => b = w /\ p = Rounded(l - w) /\ p > 0
  BY <1>1 DEF RestakerIs, Split
<1>6. /\ x = DelegatedBy(s, NST) /\ p = PendingSlash(s, balance)
      /\ t = TotalDelegated(s) /\ d = totalDepositAmounts[s][NST]
  BY <1>1 DEF RestakerIs
<1>7. PICK N \in Nat, P \in Nat, K \in Nat :
          /\ N = Parts /\ P = LossRate(s, balance) /\ K = KeptRate(s, balance)
          /\ P + K = N
  BY RateType, ExactFacts
<1>8. PICK u \in Nat, f \in Nat : /\ u = Ulp[2 * depositsByToken[NST]]
                                  /\ f = LostDigits /\ f = u * N
  <2>1. 2 * depositsByToken[NST] \in Nat
    BY NativeBooks
  <2>2. PICK u \in Nat : u = Ulp[2 * depositsByToken[NST]]
    BY <2>1, UlpType
  <2>3. N * u = u * N /\ u * N \in Nat
    OBVIOUS
  <2> QED
    BY <1>7, <2>2, <2>3 DEF LostDigits
<1>9. \A n \in Nat : n <= d => /\ Ulp[n] \in Nat /\ Ulp[n] <= u
                               /\ Rounded(n) \in Nat /\ Near(Rounded(n), n, u)
  <2>1. ASSUME NEW n \in Nat, n <= d
        PROVE  /\ Ulp[n] \in Nat /\ Ulp[n] <= u
               /\ Rounded(n) \in Nat /\ Near(Rounded(n), n, u)
    <3>1. 2 * depositsByToken[NST] \in Nat /\ n <= 2 * depositsByToken[NST]
      BY <1>6, <2>1, NativeBooks
    <3>2. PICK v \in Nat : v = Ulp[n] /\ v <= u
      BY <1>8, <3>1, UlpMonotone, UlpType
    <3>3. Rounded(n) \in Nat /\ Near(Rounded(n), n, v)
      BY <3>2, RoundedFacts
    <3> QED
      BY <3>2, <3>3 DEF Near
  <2> QED
    BY <2>1
<1>10. PICK y \in Nat, r \in Nat : y = x * K /\ r = S * N
  OBVIOUS
<1>11. r - y <= 2 * f /\ y - r <= 2 * f
  <2>1. CASE p = 0
    <3>1. P = 0 /\ K = N
      BY <1>6, <1>7, <2>1 DEF LossRate
    <3>2. S - x <= u /\ x - S <= u
      <4>1. CASE l = 0
        BY <1>3, <1>4, <1>5, <4>1
      <4>2. CASE l > 0
        <5>1. w - b \in Nat /\ w - b <= d /\ W = Rounded(w - b) /\ b = l
          BY <1>4, <1>5, <2>1, <4>2
        <5>2. d - l \in Nat /\ d - l <= d /\ D = Rounded(d - l) /\ G = 0
          BY <1>4, <1>5, <2>1, <4>2
        <5>3. Near(W, w - b, u) /\ Near(D, d - l, u)
          BY <1>9, <5>1, <5>2
        <5> QED
          BY <1>3, <1>5, <5>1, <5>2, <5>3 DEF Near
      <4> QED
        BY <4>1, <4>2
    <3>3. S * N <= (x + u) * N /\ x * N <= (S + u) * N
      <4>1. S <= x + u /\ x <= S + u
        BY <3>2
      <4> QED
        BY <4>1, ProductLeq
    <3>4. (x + u) * N = x * N + u * N /\ (S + u) * N = S * N + u * N
      OBVIOUS
    <3>5. x * N = y
      BY <1>10, <3>1
    <3> QED
      BY <1>8, <1>10, <3>3, <3>4, <3>5
  <2>2. CASE p > 0
    <3>1. l > 0 /\ w < l /\ d > 0
      BY <1>4, <1>5, <2>2
    <3>2. W = 0 /\ G = 0 /\ S = D
      <4>1. w - b = 0
        BY <1>5, <3>1
      <4>2. W = Rounded(w - b)
        BY <1>4, <3>1
      <4>3. W = 0
        BY <4>1, <4>2, RoundedZero
      <4> QED
        BY <1>3, <1>4, <3>1, <4>3
    <3>3. PICK q \in Nat : q = t - p /\ q <= d /\ D = Rounded(q)
      BY <1>4, <2>2, <3>1
    <3>4. CASE p = t
      <4>1. P = N /\ K = 0
        BY <1>6, <1>7, <2>2, <3>4 DEF LossRate, Proportion
      <4>2. S = 0
        BY <3>2, <3>3, <3>4, RoundedZero
      <4>3. y = 0 /\ r = 0
        BY <1>10, <4>1, <4>2
      <4> QED
        BY <4>3
    <3>5. CASE p < t
      <4>1. P = Quotient(p, t)
        BY <1>6, <1>7, <2>2, <3>5 DEF LossRate, Proportion
      <4>2. PICK v \in Nat : v * Exact <= N /\ Near(t * P, p * N, t * v)
        BY <1>7, <3>5, <4>1, QuotientFacts
      <4>3. t * v <= f
        <5>1. PICK i \in Nat, E \in Nat : /\ i = Ulp[t] /\ i <= u /\ E = Exact
                                          /\ t <= E * i
          <6>1. PICK k \in Nat : Ulp[t] = Scale[k] /\ t < Exact * Scale[k]
            BY UlpIsScale
          <6>2. Ulp[t] \in Nat /\ Ulp[t] <= u
            BY <1>4, <1>9
          <6>3. Exact * Ulp[t] \in Int
            BY <6>2, ExactFacts
          <6> QED
            BY <6>1, <6>2, <6>3, ExactFacts
        <5>2. t * v <= (E * i) * v /\ E * i \in Nat
          BY <5>1, ProductLeq
        <5>3. (E * i) * v = i * (v * E) /\ v * E \in Nat
          BY <5>1
        <5>4. i * (v * E) <= i * N /\ i * N <= u * N
          BY <4>2, <5>1, <5>3, ProductLeq
        <5>5. t * v \in Int /\ i * (v * E) \in Int /\ i * N \in Int
          BY <5>1, <5>3
        <5> QED
          BY <1>8, <5>2, <5>3, <5>4, <5>5
      <4>4. Near(t * K, x * K, u * K) /\ u * K <= f
        <5>1. Near(t, x, u)
          <6>1. x <= d
            BY <1>5
          <6> QED
            BY <1>5, <1>9, <6>1
        <5>2. K <= N
          BY <1>7
        <5> QED
          BY <1>8, <5>1, <5>2, NearTimes, ProductLeq
      <4>5. Near(D * N, q * N, f)
        BY <1>8, <1>9, <3>3, NearTimes
      <4>6. t * N = t * P + t * K /\ q * N = t * N - p * N
        BY <1>7, <3>3
      <4>7. PICK tn \in Nat, tp \in Nat, tk \in Nat, qn \in Nat, pn \in Nat,
                 uk \in Nat, tv \in Nat :
                /\ tn = t * N /\ tp = t * P /\ tk = t * K /\ qn = q * N
                /\ pn = p * N /\ uk = u * K /\ tv = t * v
        OBVIOUS
      <4>8. D * N = r /\ x * K = y
        BY <1>10, <3>2
      <4>9. /\ tv <= f /\ Near(tp, pn, tv)
            /\ uk <= f /\ Near(tk, y, uk)
            /\ Near(r, qn, f)
            /\ tn = tp + tk /\ qn = tn - pn
        BY <4>2, <4>3, <4>4, <4>5, <4>6, <4>7, <4>8
      <4> QED
        BY <4>9 DEF Near
    <3> QED
      BY <1>4, <3>4, <3>5
  <2> QED
    BY <2>1, <2>2
<1> QED
  BY <1>3, <1>6, <1>7, <1>8, <1>10, <1>11

\* Rows and columns: the powers of the operators and the stakes of the stakers
\* are both, up to roundings, what is kept of all delegations.
LEMMA NativePowerIsBacked ==
    ASSUME BooksInv, NativeTypeOK, ListsInv, NEW balance \in Balances,
           \A s \in Stakers : DepositIsExact(s)
    PROVE  LET total == [o \in Operators |-> GenesisOperatorTotal(o, NST, balance)]
               net == [s \in Stakers |-> StakedBy(s, balance)]
           IN  Distance(SumFunctionOnSet(total, Operators),
                        SumFunctionOnSet(net, Stakers)) <= SlackOfPower(NST)
<1> DEFINE total == [o \in Operators |-> GenesisOperatorTotal(o, NST, balance)]
           net == [s \in Stakers |-> StakedBy(s, balance)]
           kept == [s \in Stakers |->
                       [o \in Operators |-> KeptBy(s, o, balance)]]
           column == [o \in Operators |-> SumFunctionOnSet(
                         [s \in Stakers |-> kept[s][o]], Stakers)]
           row == [s \in Stakers |-> SumFunctionOnSet(kept[s], Operators)]
<1>1. PICK n \in Nat, m \in Nat : /\ n = Cardinality(Stakers)
                                  /\ m = Cardinality(Operators)
  BY StakersAssumption, RegistryAssumption, FS_CardinalityType
<1>2. PICK N \in Nat \ {0}, u \in Nat, f \in Nat :
          /\ N = Parts /\ u = Ulp[2 * depositsByToken[NST]]
          /\ f = LostDigits /\ f = N * u
  <2>1. 2 * depositsByToken[NST] \in Nat
    BY NativeBooks
  <2>2. PICK u \in Nat, N \in Nat \ {0} :
            u = Ulp[2 * depositsByToken[NST]] /\ N = Parts
    BY <2>1, UlpType, ExactFacts
  <2>3. N * u \in Nat
    OBVIOUS
  <2> QED
    BY <2>2, <2>3 DEF LostDigits
<1>3. PICK e \in Nat, h \in Nat : e = (n + 2) * f /\ h = 2 * f
  OBVIOUS
<1>4. \A s \in Stakers :
          /\ net[s] \in Int /\ row[s] \in Nat
          /\ net[s] * N - row[s] <= h /\ row[s] - net[s] * N <= h
  <2>1. ASSUME NEW s \in Stakers
        PROVE  /\ net[s] \in Int /\ row[s] \in Nat
               /\ net[s] * N - row[s] <= h /\ row[s] - net[s] * N <= h
    <3>1. net[s] = StakedBy(s, balance)
      OBVIOUS
    <3>2. row[s] = DelegatedBy(s, NST) * KeptRate(s, balance)
      BY StakerKeepsRate
    <3> HIDE DEF net, row
    <3> QED
      BY <1>2, <1>3, <3>1, <3>2, StakerKeepsNear
  <2> QED
    BY <2>1
<1>5. \A o \in Operators :
          /\ total[o] \in Int /\ column[o] \in Nat
          /\ total[o] * N - column[o] <= e /\ column[o] - total[o] * N <= e
  <2>1. ASSUME NEW o \in Operators
        PROVE  /\ total[o] \in Int /\ column[o] \in Nat
               /\ total[o] * N - column[o] <= e /\ column[o] - total[o] * N <= e
    <3>1. total[o] = GenesisOperatorTotal(o, NST, balance)
      OBVIOUS
    <3>2. column[o] = KeptAt(o, balance)
      <4>1. [s \in Stakers |-> kept[s][o]] = [s \in Stakers |-> KeptBy(s, o, balance)]
        OBVIOUS
      <4> QED
        BY <4>1 DEF KeptAt
    <3> HIDE DEF total, column
    <3> QED
      BY <1>1, <1>2, <1>3, <3>1, <3>2, OperatorTotalNear, OperatorSplit
  <2> QED
    BY <2>1
<1>6. SumFunctionOnSet(row, Stakers) = SumFunctionOnSet(column, Operators)
  <2>1. \A s \in Stakers, o \in Operators : kept[s][o] \in Nat
    BY KeptAndLost
  <2> HIDE DEF kept
  <2> QED
    BY <2>1, StakersAssumption, RegistryAssumption, SumSwap
<1> HIDE DEF total, net, kept, column, row
<1>7. PICK a \in Int, c \in Nat, p \in Int, q \in Nat :
          /\ a = SumFunctionOnSet(net, Stakers)
          /\ c = SumFunctionOnSet(row, Stakers)
          /\ p = SumFunctionOnSet(total, Operators)
          /\ q = SumFunctionOnSet(column, Operators)
          /\ a * N - c <= n * h /\ c - a * N <= n * h
          /\ p * N - q <= m * e /\ q - p * N <= m * e
  <2>1. /\ SumFunctionOnSet(net, Stakers) \in Int
        /\ SumFunctionOnSet(net, Stakers) * N - SumFunctionOnSet(row, Stakers) <= n * h
        /\ SumFunctionOnSet(row, Stakers) - SumFunctionOnSet(net, Stakers) * N <= n * h
    BY <1>1, <1>4, StakersAssumption, SumWithin
  <2>2. /\ SumFunctionOnSet(total, Operators) \in Int
        /\ SumFunctionOnSet(total, Operators) * N
               - SumFunctionOnSet(column, Operators) <= m * e
        /\ SumFunctionOnSet(column, Operators)
               - SumFunctionOnSet(total, Operators) * N <= m * e
    BY <1>1, <1>5, RegistryAssumption, SumWithin
  <2>3. SumFunctionOnSet(row, Stakers) \in Nat
    BY <1>4, StakersAssumption, SumType
  <2>4. SumFunctionOnSet(column, Operators) \in Nat
    BY <1>5, RegistryAssumption, SumType
  <2> QED
    BY <2>1, <2>2, <2>3, <2>4
<1>8. PICK k \in Nat : /\ k = SlackOfPower(NST)
                       /\ N * k = m * e + n * h
  <2>1. SlackOfPower(NST) = (m * (n + 2) + 2 * n) * u
    BY <1>1, <1>2 DEF SlackOfPower
  <2>2. PICK g \in Nat : g = m * (n + 2) /\ g + 2 * n \in Nat
    OBVIOUS
  <2>3. m * e = g * f /\ n * h = (2 * n) * f
    BY <1>3, <2>2, ProductAssoc
  <2>4. g * f + (2 * n) * f = (g + 2 * n) * f
    BY <2>2
  <2>5. (g + 2 * n) * (N * u) = N * ((g + 2 * n) * u)
    BY <2>2
  <2>6. (g + 2 * n) * u \in Nat
    BY <2>2
  <2> QED
    BY <1>2, <2>1, <2>2, <2>3, <2>4, <2>5, <2>6
<1>9. /\ p * N - a * N <= N * k /\ a * N - p * N <= N * k
  <2>1. PICK an \in Int, pn \in Int, nh \in Nat, me \in Nat :
            an = a * N /\ pn = p * N /\ nh = n * h /\ me = m * e
    OBVIOUS
  <2>2. c = q
    BY <1>6, <1>7
  <2>3. /\ an - c <= nh /\ c - an <= nh /\ pn - q <= me /\ q - pn <= me
        /\ N * k = me + nh
    BY <1>7, <1>8, <2>1
  <2>4. pn - an <= N * k /\ an - pn <= N * k
    BY <2>2, <2>3
  <2> QED
    BY <2>1, <2>4
<1>10. ASSUME NEW i \in Int, NEW j \in Int, i * N - j * N <= N * k
       PROVE  i - j <= k
  <2> SUFFICES ASSUME i - j >= k + 1  PROVE FALSE
    OBVIOUS
  <2>1. PICK g \in Nat : g = i - j
    OBVIOUS
  <2>2. (k + 1) * N <= g * N
    BY <2>1, ProductLeq
  <2>3. (k + 1) * N = N * k + N /\ g * N = i * N - j * N
    BY <2>1
  <2>4. N * k \in Int /\ i * N - j * N \in Int
    OBVIOUS
  <2> QED
    BY <1>10, <2>2, <2>3, <2>4
<1>11. p - a <= k /\ a - p <= k
  BY <1>9, <1>10
<1>12. Distance(p, a) <= k
  BY <1>11 DEF Distance
<1> QED
  BY <1>7, <1>8, <1>12 DEF total, net

\* The delegations of a token, by operator and by staker.
LEMMA LstBooks ==
    ASSUME BooksInv, NEW t \in Tokens
    PROVE  /\ SumFunctionOnSet([o \in Operators |-> delegationsByValidator[o][t]],
                               Operators) =
              SumFunctionOnSet([s \in Stakers |-> totalDepositAmounts[s][t]
                                                    - withdrawableAmounts[s][t]],
                               Stakers)
           /\ \A o \in Operators :
                  /\ delegationsByValidator[o][t] \in Nat
                  /\ delegationsByValidator[o][t] <= depositsByToken[t]
           /\ depositsByToken[t] \in Nat
<1> DEFINE d == [s \in Stakers |-> [o \in Operators |-> delegations[s][o][t]]]
           column == [o \in Operators |->
                         SumFunctionOnSet([s \in Stakers |-> d[s][o]], Stakers)]
           row == [s \in Stakers |-> SumFunctionOnSet(d[s], Operators)]
           deposits == [s \in Stakers |-> totalDepositAmounts[s][t]]
<1>1. \A s \in Stakers, o \in Operators : d[s][o] \in Nat
  BY DEF BooksInv, BooksTypeOK
<1>2. ASSUME NEW o \in Operators
      PROVE  delegationsByValidator[o][t] = column[o]
  <2>1. [s \in Stakers |-> d[s][o]] = [s \in Stakers |-> delegations[s][o][t]]
    OBVIOUS
  <2>2. delegationsByValidator[o][t] =
            SumFunctionOnSet([s \in Stakers |-> delegations[s][o][t]], Stakers)
    BY DEF BooksInv, DelegatedTo
  <2> QED
    BY <2>1, <2>2
<1>3. ASSUME NEW s \in Stakers
      PROVE  /\ totalDepositAmounts[s][t] - withdrawableAmounts[s][t] = row[s]
             /\ row[s] \in Nat /\ deposits[s] \in Nat /\ row[s] <= deposits[s]
  <2>1. row[s] = DelegatedBy(s, t)
    BY DEF DelegatedBy
  <2>2. /\ totalDepositAmounts[s][t] =
               withdrawableAmounts[s][t] + DelegatedBy(s, t)
        /\ withdrawableAmounts[s][t] \in Nat
    BY DEF BooksInv, BooksTypeOK
  <2>3. DelegatedBy(s, t) \in Nat
    BY DelegatedByIsNat DEF BooksInv
  <2>4. deposits[s] = totalDepositAmounts[s][t]
    OBVIOUS
  <2> HIDE DEF row, deposits
  <2> QED
    BY <2>1, <2>2, <2>3, <2>4
<1>4. /\ [o \in Operators |-> delegationsByValidator[o][t]] = column
      /\ column = [o \in Operators |-> column[o]]
  <2>1. column = [o \in Operators |-> column[o]]
    OBVIOUS
  <2> HIDE DEF column
  <2> QED
    BY <1>2, <2>1
<1>5. [s \in Stakers |-> totalDepositAmounts[s][t] - withdrawableAmounts[s][t]]
          = row
  <2>1. row = [s \in Stakers |-> row[s]]
    OBVIOUS
  <2> HIDE DEF row
  <2> QED
    BY <1>3, <2>1
<1>6. SumFunctionOnSet(row, Stakers) = SumFunctionOnSet(column, Operators)
  <2> HIDE DEF d
  <2> QED
    BY <1>1, StakersAssumption, RegistryAssumption, SumSwap
<1>7. depositsByToken[t] = SumFunctionOnSet(deposits, Stakers)
  BY DEF BooksInv, DepositedIn
<1>8. ASSUME NEW o \in Operators
      PROVE  column[o] \in Nat
  <2>1. delegationsByValidator[o][t] \in Nat
    BY DEF BooksInv, BooksTypeOK
  <2> HIDE DEF column
  <2> QED
    BY <1>2, <2>1
<1> HIDE DEF d, column, row, deposits
<1>9. SumFunctionOnSet(row, Stakers) <= SumFunctionOnSet(deposits, Stakers)
  BY <1>3, StakersAssumption, SumLeq
<1>10. SumFunctionOnSet(row, Stakers) \in Nat /\ SumFunctionOnSet(deposits, Stakers) \in Nat
  BY <1>3, StakersAssumption, SumType
<1>11. \A o \in Operators : column[o] <= SumFunctionOnSet(column, Operators)
  BY <1>8, RegistryAssumption, SumRemove
<1>12. \A o \in Operators : column[o] <= depositsByToken[t]
  BY <1>6, <1>7, <1>8, <1>9, <1>10, <1>11
<1> QED
  BY <1>2, <1>4, <1>5, <1>6, <1>7, <1>8, <1>10, <1>12

\* The power of an LST: one rounding for each operator.
LEMMA LstPowerIsBacked ==
    ASSUME BooksInv, NEW t \in Tokens, t # NST, NEW balance
    PROVE  Distance(SumFunctionOnSet([o \in Operators |->
                        GenesisOperatorTotal(o, t, balance)], Operators),
                    SumFunctionOnSet([s \in Stakers |-> totalDepositAmounts[s][t]
                        - withdrawableAmounts[s][t]], Stakers))
               <= SlackOfPower(t)
<1> DEFINE total == [o \in Operators |-> GenesisOperatorTotal(o, t, balance)]
           exact == [o \in Operators |-> delegationsByValidator[o][t]]
<1>1. PICK d \in Nat, l \in Nat, m \in Nat :
          /\ d = depositsByToken[t] /\ l = LastDigit(d)
          /\ m = Cardinality(Operators)
  <2>1. PICK d \in Nat : d = depositsByToken[t]
    BY LstBooks
  <2>2. LastDigit(d) \in Nat
    BY UlpType DEF LastDigit
  <2> QED
    BY <2>1, <2>2, RegistryAssumption, FS_CardinalityType
<1>2. ASSUME NEW o \in Operators
      PROVE  /\ total[o] \in Int /\ exact[o] \in Nat
             /\ total[o] * 1 - exact[o] <= l /\ exact[o] - total[o] * 1 <= l
  <2>1. PICK x \in Nat : x = exact[o] /\ x = delegationsByValidator[o][t] /\ x <= d
    BY <1>1, LstBooks
  <2>2. total[o] = Minus(x, 0)
    BY <2>1 DEF GenesisOperatorTotal, AmountAfterSlashing
  <2>3. Minus(x, 0) = Rounded(x)
    BY DEF Minus
  <2>4. PICK r \in Nat, u \in Nat, v \in Nat :
            /\ r = Rounded(x) /\ u = Ulp[x] /\ v = Ulp[d] /\ u <= v
            /\ Near(r, x, u)
            /\ x < Exact => r = x
    BY <1>1, <2>1, RoundedFacts, UlpType, UlpMonotone
  <2>5. l = IF d < Exact THEN 0 ELSE v
    BY <1>1, <2>4 DEF LastDigit
  <2>6. r - x <= l /\ x - r <= l
    BY <2>1, <2>4, <2>5, ExactFacts DEF Near
  <2> QED
    BY <2>1, <2>2, <2>3, <2>4, <2>6
<1>3. SumFunctionOnSet(exact, Operators) =
          SumFunctionOnSet([s \in Stakers |-> totalDepositAmounts[s][t]
                               - withdrawableAmounts[s][t]], Stakers)
  BY LstBooks
<1> HIDE DEF total, exact
<1>4. PICK one \in Nat : one = 1
  OBVIOUS
<1>5. \A o \in Operators :
          /\ total[o] \in Int /\ exact[o] \in Nat
          /\ total[o] * one - exact[o] <= l /\ exact[o] - total[o] * one <= l
  BY <1>2, <1>4
<1>6. /\ SumFunctionOnSet(total, Operators) \in Int
      /\ SumFunctionOnSet(total, Operators) * one
             - SumFunctionOnSet(exact, Operators) <= m * l
      /\ SumFunctionOnSet(exact, Operators)
             - SumFunctionOnSet(total, Operators) * one <= m * l
  BY <1>1, <1>5, RegistryAssumption, SumWithin
<1>7. SumFunctionOnSet(exact, Operators) \in Nat
  BY <1>5, RegistryAssumption, SumType
<1>8. SlackOfPower(t) = m * l
  BY <1>1 DEF SlackOfPower
<1>9. PICK p \in Int, q \in Nat, k \in Int :
          /\ p = SumFunctionOnSet(total, Operators)
          /\ q = SumFunctionOnSet(exact, Operators)
          /\ k = m * l
          /\ p - q <= k /\ q - p <= k
  BY <1>4, <1>6, <1>7
<1>10. Distance(p, q) <= k
  BY <1>9 DEF Distance
<1> QED
  BY <1>3, <1>8, <1>9, <1>10 DEF total

\* The spare is what the balances have grown by.
LEMMA PowerIsBacked ==
    BooksInv /\ NativeTypeOK /\ ListsInv => GenesisPowerIsBacked
<1> SUFFICES ASSUME BooksInv, NativeTypeOK, ListsInv,
                    NEW t \in Tokens, NEW balance \in Balances,
                    t = NST => \A s \in Stakers : DepositIsExact(s)
             PROVE
        LET power == SumFunctionOnSet([o \in Operators |->
                GenesisOperatorTotal(o, t, balance)], Operators)
            staked == SumFunctionOnSet([s \in Stakers |->
                GenesisDeposit(s, t, balance)
                    - GenesisWithdrawable(s, t, balance)], Stakers)
            spare == SumFunctionOnSet([s \in Stakers |->
                IF /\ t = NST
                   /\ totalDepositAmounts[s][NST] > 0
                   /\ BeaconLoss(s, balance) = 0
                THEN TotalEffectiveBalance(s, balance)
                         - totalDepositAmounts[s][NST]
                ELSE 0], Stakers)
        IN  Distance(power, staked - spare) <= SlackOfPower(t)
  BY DEF GenesisPowerIsBacked, SumFunction
<1> DEFINE total == [o \in Operators |-> GenesisOperatorTotal(o, t, balance)]
           stake == [s \in Stakers |-> GenesisDeposit(s, t, balance)
                                           - GenesisWithdrawable(s, t, balance)]
           extra == [s \in Stakers |->
                        IF /\ t = NST
                           /\ totalDepositAmounts[s][NST] > 0
                           /\ BeaconLoss(s, balance) = 0
                        THEN TotalEffectiveBalance(s, balance)
                                 - totalDepositAmounts[s][NST]
                        ELSE 0]
           staked == SumFunctionOnSet(stake, Stakers)
           spare == SumFunctionOnSet(extra, Stakers)
<1>1. CASE t = NST
  <2> DEFINE net == [s \in Stakers |-> StakedBy(s, balance)]
  <2>1. ASSUME NEW s \in Stakers
        PROVE  /\ stake[s] \in Nat /\ extra[s] \in Nat
               /\ net[s] = stake[s] - extra[s]
    <3>1. extra[s] = Growth(s, balance)
      BY <1>1 DEF Growth
    <3>2. net[s] = StakedBy(s, balance)
      OBVIOUS
    <3>3. stake[s] = GenesisDeposit(s, NST, balance)
                         - GenesisWithdrawable(s, NST, balance)
      BY <1>1
    <3> HIDE DEF extra, stake, net
    <3> QED
      BY <1>1, <3>1, <3>2, <3>3, GenesisStakeType DEF StakedBy
  <2>2. total = [o \in Operators |-> GenesisOperatorTotal(o, NST, balance)]
    BY <1>1
  <2>3. Distance(SumFunctionOnSet(total, Operators), SumFunctionOnSet(net, Stakers))
            <= SlackOfPower(t)
    BY <1>1, <2>2, NativePowerIsBacked
  <2> HIDE DEF total, stake, extra, net
  <2>4. SumFunctionOnSet(net, Stakers) = staked - spare
    BY <2>1, StakersAssumption, SumDifference
  <2> QED
    BY <2>3, <2>4 DEF total, stake, extra
<1>2. CASE t # NST
  <2>1. stake = [s \in Stakers |-> totalDepositAmounts[s][t]
                                       - withdrawableAmounts[s][t]]
    BY <1>2 DEF GenesisDeposit, GenesisWithdrawable
  <2>2. Distance(SumFunctionOnSet(total, Operators), staked) <= SlackOfPower(t)
    BY <1>2, <2>1, LstPowerIsBacked
  <2>3. spare = 0
    <3>1. \A s \in Stakers : extra[s] = 0
      BY <1>2
    <3> HIDE DEF extra
    <3> QED
      BY <3>1, StakersAssumption, SumZero
  <2>4. \A s \in Stakers : stake[s] \in Nat
    <3>1. ASSUME NEW s \in Stakers  PROVE stake[s] \in Nat
      <4>1. /\ totalDepositAmounts[s][t] =
                   withdrawableAmounts[s][t] + DelegatedBy(s, t)
            /\ withdrawableAmounts[s][t] \in Nat
        BY DEF BooksInv, BooksTypeOK
      <4>2. DelegatedBy(s, t) \in Nat
        BY DelegatedByIsNat DEF BooksInv
      <4>3. stake[s] = totalDepositAmounts[s][t] - withdrawableAmounts[s][t]
        BY <2>1
      <4> HIDE DEF stake
      <4> QED
        BY <4>1, <4>2, <4>3
    <3> QED
      BY <3>1
  <2> HIDE DEF total, stake, extra
  <2>5. staked \in Nat
    BY <2>4, StakersAssumption, SumType
  <2>6. staked - spare = staked
    BY <2>3, <2>5
  <2> QED
    BY <2>2, <2>6 DEF total, stake, extra
<1> QED
  BY <1>1, <1>2

\* What a staker enters the genesis with as delegated to an operator.
LEMMA GenesisDelegationType ==
    ASSUME BooksInv, NativeTypeOK, ListsInv, NEW s \in Stakers,
           NEW o \in Operators, NEW t \in Tokens, NEW balance \in Balances
    PROVE  /\ GenesisDelegation(s, o, t, balance) \in Nat
           /\ t # NST => GenesisDelegation(s, o, t, balance)
                              = Rounded(delegations[s][o][t])
<1>1. PICK x \in Nat : x = delegations[s][o][t]
  BY DEF BooksInv, BooksTypeOK
<1>2. CASE t # NST
  <2>1. Minus(x, 0) = Rounded(x) /\ Rounded(x) \in Nat
    BY MinusRounds, RoundedFacts
  <2>2. AmountAfterSlashing(x, o, t, balance) = Rounded(x)
    BY <1>2, <2>1 DEF AmountAfterSlashing
  <2> QED
    BY <1>1, <1>2, <2>1, <2>2 DEF GenesisDelegation
<1>3. CASE t = NST
  <2>1. PICK M \in Nat : IsRoom(M)
    <3>1. Cardinality(Stakers) \in Nat
      BY StakersAssumption, FS_CardinalityType
    <3> QED
      BY <3>1, NativeBooks, FewStakersAssumption, RoomExists
         DEF IsRoom, LostDigits
  <2>2. PICK l \in Nat : l = TotalSlashing(o, balance)
    BY <2>1, SlashingNear
  <2>3. PICK a \in Nat : a = x * Parts
    BY <1>1, ExactFacts
  <2>4. PICK m \in Nat : a <= m /\ l <= m
    <3>1. a + l \in Nat /\ a <= a + l /\ l <= a + l
      OBVIOUS
    <3> QED
      BY <3>1
  <2>5. PICK y \in Int : y = Minus(a, l)
    BY <2>4, MinusRounds
  <2>6. Truncated(y) \in Int
    BY TruncatedFacts
  <2>7. AmountAfterSlashing(x, o, t, balance) = Truncated(y)
    BY <1>3, <2>2, <2>3, <2>5 DEF AmountAfterSlashing
  <2> QED
    BY <1>1, <1>3, <2>6, <2>7 DEF GenesisDelegation
<1> QED
  BY <1>2, <1>3

\* Whatever the beacon chain reports when the genesis is generated, a native
\* restaker enters it with the effective balance of its validators, up to the
\* last digits that are kept and however the loss is split between what is
\* withdrawable and what is delegated.
THEOREM GenesisDepositsEffective == BootstrapSpec => []GenesisDepositIsEffective
<1>1. BootstrapInit => BootstrapInv
  BY BootstrapInvInit
<1>2. BootstrapInv /\ [BootstrapStep]_bootstrapVars => BootstrapInv'
  BY BootstrapInvNext
<1>3. BootstrapInv => GenesisDepositIsEffective
  BY DepositsAreEffective DEF BootstrapInv, PubkeysInv
<1> QED
  BY <1>1, <1>2, <1>3, PTL DEF BootstrapSpec

\* The voting power that the operators start with is what their stakers have
\* deposited and cannot withdraw, after every slash and but for what all the
\* roundings on the way can lose.
THEOREM GenesisPowerBacked == BootstrapSpec => []GenesisPowerIsBacked
<1>1. BootstrapInit => BootstrapInv
  BY BootstrapInvInit
<1>2. BootstrapInv /\ [BootstrapStep]_bootstrapVars => BootstrapInv'
  BY BootstrapInvNext
<1>3. BootstrapInv => GenesisPowerIsBacked
  BY PowerIsBacked DEF BootstrapInv, PubkeysInv
<1> QED
  BY <1>1, <1>2, <1>3, PTL DEF BootstrapSpec
=============================================================================
