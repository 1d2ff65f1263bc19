----------------------------- MODULE MCBootstrap -----------------------------
(***************************************************************************)
(* Instances of Bootstrap for TLC.  The validators that may be registered  *)
(* cannot be written in a cfg file.  One run has three families of         *)
(* behaviours, each with bounds of its own: LST deposits and delegations   *)
(* before the lock; registrations, commissions and the owner's calls up to *)
(* the lock and after it; native restaking, up to the lock and after it.   *)
(***************************************************************************)
EXTENDS MCOffers

CONSTANT Families

VARIABLE family
MCVars == <<bootstrapVars, family>>

MCInit ==
    /\ BootstrapInit
    /\ family \in Families
    /\ family # "lock" =>
           /\ spawnTime = 2 /\ offsetDuration = 1
           /\ \A t \in LSTs \cap GenesisTokens : \A limit \in TvlLimits : limit <= tvlLimit[t]

\* First of all, validators register as offered, and change nothing.
OffersOnly ==
    /\ commissionEdited' = {}
    /\ validators' # validators => depositors = <<>> /\ ownerToCapsule = {}
    /\ \A o \in Operators :
           validators'[o] # NoValidator =>
               \E r \in OneOffer :
                   /\ r.validatorAddress = o
                   /\ r.name = validators'[o].name
                   /\ r.rate = validators'[o].rate
                   /\ r.maxRate = validators'[o].maxRate
                   /\ r.consensusPublicKey = validators'[o].consensusPublicKey
NoNative == UNCHANGED <<ownerToCapsule, credentials>>
NoOwner == UNCHANGED <<scheduleVars, whitelistedTokens, clientPaused, tvlLimit>>

Least == CHOOSE a \in Amounts : \A b \in Amounts : a <= b

LstFamily == OffersOnly /\ NoNative /\ NoOwner /\ now' = 0
LockFamily ==
    /\ NoNative
    /\ UNCHANGED <<delegations, totalUnlockPrincipalAmount>>
    /\ Len(validatorList) > 1 => NoOwner /\ UNCHANGED consumedTvl
    /\ \A t \in LSTs :
           consumedTvl'[t] \in {0} \cup (IF t \in GenesisTokens THEN {} ELSE {Least})
NativeFamily ==
    /\ OffersOnly /\ NoOwner
    /\ UNCHANGED <<totalDepositedPrincipalAmount, totalUnlockPrincipalAmount>>
    /\ now' <= 1
    /\ \A s \in Stakers : totalDepositAmounts'[s][NST] % Gwei = 0
    /\ \A s \in Stakers, o \in Operators :
           delegations'[s][o][NST] >= delegations[s][o][NST]

MCNext ==
    /\ BootstrapStep
    /\ UNCHANGED family
    /\ CASE family = "lst" -> LstFamily
         [] family = "lock" -> LockFamily
         [] family = "native" -> NativeFamily

MCSpec == MCInit /\ [][MCNext]_MCVars
==============================================================================
