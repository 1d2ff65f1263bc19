-------------------------- MODULE ValidatorRegistry --------------------------
(***************************************************************************)
(* The validators that will start Imuachain (the IValidatorRegistry part   *)
(* of core/Bootstrap.sol): who registered which operator address under     *)
(* which name, key and commission.  Bootstrap adds to each operator the    *)
(* lock and the pause.                                                     *)
(***************************************************************************)
EXTENDS Assets, Sequences

CONSTANTS
    Operators,      \* Imuachain addresses
    Names,
    Keys,           \* consensus public keys
    NoOperator,     \* the empty address
    NoName,         \* the empty name
    ZeroKey,        \* bytes32(0)
    FullRate,       \* 1e18, a commission of 100 per cent
    Registrations,  \* what callers pass to registerValidator
    Rates           \* what callers pass to updateRate

Registration ==
    [validatorAddress : Operators, name : Names \cup {NoName}, rate : Nat,
     maxRate : Nat, maxChangeRate : Nat, consensusPublicKey : Keys \cup {ZeroKey}]

Validator ==
    [name : Names \cup {NoName}, rate : Nat, maxRate : Nat,
     maxChangeRate : Nat, consensusPublicKey : Keys \cup {ZeroKey}]

\* What the mapping holds for an address nobody registered.
NoValidator == [name |-> NoName, rate |-> 0, maxRate |-> 0,
                maxChangeRate |-> 0, consensusPublicKey |-> ZeroKey]

ASSUME RegistryAssumption ==
    /\ IsFiniteSet(Operators)  \* isValidImAddress: 41 bytes each
    /\ NoOperator \notin Operators
    /\ NoName \notin Names
    /\ ZeroKey \notin Keys
    /\ FullRate \in Nat
    /\ Rates \subseteq Nat
    /\ Registrations \subseteq Registration

VARIABLES
    ethToImAddress,          \* [staker] its operator address
    validators,              \* [operator]
    validatorList,           \* registeredValidators: senders, in order
    consensusPublicKeyInUse, \* keys
    validatorNameInUse,      \* names
    commissionEdited         \* operators

validatorVars == <<ethToImAddress, validators, validatorList,
                   consensusPublicKeyInUse, validatorNameInUse,
                   commissionEdited>>

ValidatorInit ==
    /\ ethToImAddress = [s \in Stakers |-> NoOperator]
    /\ validators = [o \in Operators |-> NoValidator]
    /\ validatorList = <<>>
    /\ consensusPublicKeyInUse = {}
    /\ validatorNameInUse = {}
    /\ commissionEdited = {}

ValidatorTypeOK ==
    /\ ethToImAddress \in [Stakers -> Operators \cup {NoOperator}]
    /\ validators \in [Operators -> Validator]
    /\ validatorList \in Seq(Stakers)
    /\ consensusPublicKeyInUse \subseteq Keys
    /\ validatorNameInUse \subseteq Names
    /\ commissionEdited \subseteq Operators

IsRegisteredValidator(o) == validators[o].name # NoName

IsCommissionValid(c) ==
    /\ c.rate <= FullRate /\ c.maxRate <= FullRate /\ c.maxChangeRate <= FullRate
    /\ c.rate <= c.maxRate
    /\ c.maxChangeRate <= c.maxRate

ValidConsensusKey(k) == k # ZeroKey /\ k \notin consensusPublicKeyInUse

AddValidator(s, r) ==
    /\ ethToImAddress[s] = NoOperator
    /\ ~IsRegisteredValidator(r.validatorAddress)
    /\ ValidConsensusKey(r.consensusPublicKey)
    /\ r.name # NoName
    /\ r.name \notin validatorNameInUse
    /\ IsCommissionValid(r)
    /\ ethToImAddress' = [ethToImAddress EXCEPT ![s] = r.validatorAddress]
    /\ validators' = [validators EXCEPT ![r.validatorAddress] =
            [name |-> r.name, rate |-> r.rate, maxRate |-> r.maxRate,
             maxChangeRate |-> r.maxChangeRate,
             consensusPublicKey |-> r.consensusPublicKey]]
    /\ validatorList' = Append(validatorList, s)
    /\ consensusPublicKeyInUse' =
            consensusPublicKeyInUse \cup {r.consensusPublicKey}
    /\ validatorNameInUse' = validatorNameInUse \cup {r.name}
    /\ UNCHANGED commissionEdited

\* A replacement that frees the new key instead of the old one.
FreeNewKey(s, newKey) ==
    LET o == ethToImAddress[s]
    IN  /\ o # NoOperator
        /\ ValidConsensusKey(newKey)
        /\ validators' = [validators EXCEPT ![o].consensusPublicKey = newKey]
        /\ UNCHANGED <<ethToImAddress, validatorList, consensusPublicKeyInUse,
                       validatorNameInUse, commissionEdited>>

ChangeKey(s, newKey) ==
    LET o == ethToImAddress[s]
        oldKey == validators[o].consensusPublicKey
    IN  /\ o # NoOperator
        /\ ValidConsensusKey(newKey)
        /\ consensusPublicKeyInUse' =
                (consensusPublicKeyInUse \ {oldKey}) \cup {newKey}
        /\ validators' = [validators EXCEPT ![o].consensusPublicKey = newKey]
        /\ UNCHANGED <<ethToImAddress, validatorList, validatorNameInUse,
                       commissionEdited>>

\* Rate changes that are each within the limit, any number of them.
ChangeRateAgain(s, newRate) ==
    LET o == ethToImAddress[s]
    IN  /\ o # NoOperator
        /\ newRate <= validators[o].maxRate
        /\ newRate <= validators[o].rate + validators[o].maxChangeRate
        /\ validators' = [validators EXCEPT ![o].rate = newRate]
        /\ commissionEdited' = commissionEdited \cup {o}
        /\ UNCHANGED <<ethToImAddress, validatorList, consensusPublicKeyInUse,
                       validatorNameInUse>>

\* Once per validator.
ChangeRate(s, newRate) ==
    LET o == ethToImAddress[s]
    IN  /\ o # NoOperator
        /\ o \notin commissionEdited
        /\ newRate <= validators[o].maxRate
        /\ newRate <= validators[o].rate + validators[o].maxChangeRate
        /\ validators' = [validators EXCEPT ![o].rate = newRate]
        /\ commissionEdited' = commissionEdited \cup {o}
        /\ UNCHANGED <<ethToImAddress, validatorList, consensusPublicKeyInUse,
                       validatorNameInUse>>

------------------------------------------------------------------------------
\* Every registered validator belongs to exactly one account, which is listed
\* once, and the keys and names marked as in use are those of the registered
\* validators, no two of which share one (registerValidator, replaceKey).
ValidatorsAreDistinct ==
    LET registered == {o \in Operators : IsRegisteredValidator(o)}
        key(o) == validators[o].consensusPublicKey
        owners == {s \in Stakers : ethToImAddress[s] # NoOperator}
    IN  /\ registered = {ethToImAddress[s] : s \in owners}
        /\ \A s, u \in owners :
                ethToImAddress[s] = ethToImAddress[u] => s = u
        /\ \A s \in Stakers :
                s \in owners <=> \E i \in DOMAIN validatorList : validatorList[i] = s
        /\ \A i, j \in DOMAIN validatorList :
                validatorList[i] = validatorList[j] => i = j
        /\ consensusPublicKeyInUse = {key(o) : o \in registered}
        /\ validatorNameInUse = {validators[o].name : o \in registered}
        /\ \A o, p \in registered :
                \/ key(o) = key(p)
                \/ validators[o].name = validators[p].name
                => o = p
==============================================================================
