------------------------------- MODULE Lifecycle -------------------------------
(***************************************************************************)
(* The whole life of one client chain: Bootstrap collects stake, the       *)
(* genesis is generated from it, Imuachain starts, and its first message   *)
(* makes the contract upgrade itself to ClientChainGateway, which goes on  *)
(* with the same storage: from there on the two chains are the bridge.     *)
(***************************************************************************)
EXTENDS Genesis, BridgeAccounting

CONSTANT
    ClockSkew       \* how far block.timestamp may lag behind Imuachain's

ASSUME ClockSkewAssumption == ClockSkew \in Nat

VARIABLES
    bootstrapped,        \* the proxy runs ClientChainGateway
    logicWorks,          \* the upgrade to clientChainGatewayLogic with
                         \* clientChainInitializationData would not revert
    genesisTime          \* of Imuachain; 0 until the genesis is generated

lifeVars == <<bootstrapped, logicWorks, genesisTime>>
bridgeVars == <<imuaVars, registeredRequests, toImua, clientInboundNonce>>
bootstrapOnlyVars == <<validatorVars, scheduleVars, depositVars,
                       withdrawableAmounts, delegationVars, stakerToPubkeyIDs>>
lifecycleVars == <<bootstrapVars, bridgeVars, lifeVars>>

LifecycleInit ==
    /\ BootstrapInit
    /\ LzInit
    /\ ImuaInit
    /\ registeredRequests = << >>
    /\ bootstrapped = FALSE
    /\ logicWorks \in BOOLEAN
    /\ genesisTime = 0

------------------------------------------------------------------------------
AtBootstrap ==
    /\ ~ bootstrapped
    /\ BootstrapStep
    /\ UNCHANGED <<bridgeVars, lifeVars>>

\* The owner may do this at any time before the upgrade, locked or paused.
SetClientChainGatewayLogic(works) ==
    /\ ~ bootstrapped
    /\ logicWorks' = works
    /\ UNCHANGED <<bootstrapVars, bridgeVars, bootstrapped, genesisTime>>

\* What Imuachain starts with as delegated, over all operators.
GenesisDelegated(s, t, balance) ==
    SumFunction([o \in Operators |-> GenesisDelegation(s, o, t, balance)])

\* A genesis that is generated as soon as somebody asks for it.
GenerateEarly(balance) ==
    /\ ~ bootstrapped
    /\ genesisTime = 0
    /\ genesisTime' = spawnTime
    /\ registeredTokens' = whitelistedTokens
    /\ freeBalance' = [s \in Stakers |-> [t \in Tokens |->
                           GenesisWithdrawable(s, t, balance)]]
    /\ delegatedAmount' = [s \in Stakers |-> [t \in Tokens |->
                               GenesisDelegated(s, t, balance)]]
    /\ UNCHANGED <<bootstrapVars, unbondingAmount, slashedAmount, imuaPaused,
                   funds, toClient, imuaInboundNonce, registeredRequests,
                   toImua, clientInboundNonce, bootstrapped, logicWorks>>

\* generate.mjs refuses a bootstrapped contract.  That it is run after the
\* lock is up to whoever runs it.
GenerateGenesis(balance) ==
    /\ ~ bootstrapped
    /\ IsLocked
    /\ genesisTime = 0
    /\ genesisTime' = spawnTime
    /\ registeredTokens' = whitelistedTokens
    /\ freeBalance' = [s \in Stakers |-> [t \in Tokens |->
                           GenesisWithdrawable(s, t, balance)]]
    /\ delegatedAmount' = [s \in Stakers |-> [t \in Tokens |->
                               GenesisDelegated(s, t, balance)]]
    /\ UNCHANGED <<bootstrapVars, unbondingAmount, slashedAmount, imuaPaused,
                   funds, toClient, imuaInboundNonce, registeredRequests,
                   toImua, clientInboundNonce, bootstrapped, logicWorks>>

\* Imuachain produces blocks from its genesis time on, by its own clock.
AtImuachain ==
    /\ genesisTime > 0
    /\ now + ClockSkew >= genesisTime
    /\ Imua
    /\ UNCHANGED <<bootstrapOnlyVars, lifeVars>>

\* upgradeSelfToAndCall with ClientChainGateway.initialize.
Upgrade ==
    /\ bootstrapped' = TRUE
    /\ spawnTime' = 0
    /\ offsetDuration' = 0
    /\ depositors' = <<>>
    /\ validatorList' = <<>>
    /\ clientPaused' = FALSE

\* The case of the spawn time itself is missed.
MarkAfterSpawnTime ==
    /\ ~ clientPaused
    /\ IF now > spawnTime /\ logicWorks
       THEN Upgrade
       ELSE UNCHANGED <<bootstrapped, spawnTime, offsetDuration, depositors,
                        validatorList, clientPaused>>

\* markBootstrapped: too early, or a failed upgrade, consumes the message.
MarkBootstrapped ==
    /\ ~ clientPaused
    /\ IF now >= spawnTime /\ logicWorks
       THEN Upgrade
       ELSE UNCHANGED <<bootstrapped, spawnTime, offsetDuration, depositors,
                        validatorList, clientPaused>>

\* BootstrapLzReceiver._lzReceive: any other action reverts.
BootstrapLzReceive(n) ==
    /\ ~ bootstrapped
    /\ VerifyAndUpdateClientNonce(n)
    /\ toClient[n].act = "REQUEST_MARK_BOOTSTRAP"
    /\ MarkBootstrapped
    /\ UNCHANGED <<vaultVars, capsuleVars, beaconVars, ethToImAddress,
                   validators, consensusPublicKeyInUse, validatorNameInUse,
                   commissionEdited, whitelistedTokens, isDepositor,
                   totalDepositAmounts, depositsByToken, withdrawableAmounts,
                   delegationVars, stakerToPubkeyIDs, imuaVars,
                   registeredRequests, toImua, logicWorks, genesisTime>>

AtGateway ==
    /\ bootstrapped
    /\ Client
    /\ UNCHANGED <<bootstrapOnlyVars, lifeVars>>

BootstrapDelivery == \E n \in 1..Len(toClient) : BootstrapLzReceive(n)

LifecycleNext ==
    \/ AtBootstrap
    \/ \E works \in BOOLEAN : SetClientChainGatewayLogic(works)
    \/ \E balance \in Balances : GenerateGenesis(balance)
    \/ AtImuachain
    \/ BootstrapDelivery
    \/ AtGateway

LifecycleSpec == LifecycleInit /\ [][LifecycleNext]_lifecycleVars

(***************************************************************************)
(* Fairness: as in RestakingBridge, LayerZero presents a message until it  *)
(* is executed and the owner does not leave the contract paused for ever.  *)
(***************************************************************************)
LifecycleFairSpec ==
    /\ LifecycleSpec
    /\ SF_lifecycleVars(BootstrapDelivery)
    /\ SF_lifecycleVars(bootstrapped /\ ClientDelivery /\ UNCHANGED imuaVars
                   /\ UNCHANGED <<bootstrapOnlyVars, lifeVars>>)
    /\ WF_lifecycleVars(~ bootstrapped /\ Unpause
                   /\ UNCHANGED <<bridgeVars, lifeVars>>)
    /\ WF_lifecycleVars(bootstrapped /\ ClientUnpause
                   /\ UNCHANGED <<imuaVars, bootstrapOnlyVars, lifeVars>>)

------------------------------------------------------------------------------
\* What the genesis may add to a staker's principal or take from it: it writes
\* every delegation with a limited number of digits.
GenesisSlack(s, t) ==
    SumFunction([o \in Operators |-> LastDigit(delegations[s][o][t])])

\* From the genesis on, through the upgrade and whatever the gateways do next,
\* the LST principal of every staker is in one place, and every vault can pay:
\* Bootstrap's vaults back the genesis, up to the last digits of delegations
\* too large to be written in full.
PrincipalSurvivesUpgrade ==
    genesisTime > 0 =>
        \A t \in LSTs :
            /\ \A s \in Stakers :
                   Distance(PlacedPrincipal(s, t),
                            totalDepositedPrincipalAmount[t][s])
                       <= GenesisSlack(s, t)
            /\ SumFunction([s \in Stakers |-> Owed(s, t)])
                   <= consumedTvl[t]
                          + SumFunction([s \in Stakers |-> GenesisSlack(s, t)])

\* Genesis and contract agree on the tokens: neither a deposit nor a whitelist
\* message reverts for ever after the upgrade.
TokensSurviveUpgrade ==
    genesisTime > 0 => DepositsAreAccepted /\ TokensAreNew

\* The mark-bootstrap message does what it is for, once it is due and nothing
\* but other such messages is ahead of it: a pause does not lose it, and only
\* a gateway logic that cannot be upgraded to makes it fail.
MarkLeadsToUpgrade ==
    \A n \in 1..MaxOwnerMessages :
        (/\ n \in 1..Len(toClient)
         /\ n > clientInboundNonce
         /\ \A k \in 1..n : toClient[k].act = "REQUEST_MARK_BOOTSTRAP"
         /\ now >= spawnTime)
        ~> (bootstrapped \/ ~ logicWorks)

\* The communication model: the receiver must execute every message.
MessagesAreExecuted ==
    \A n \in 1..MaxOwnerMessages :
        n \in 1..Len(toClient) ~> clientInboundNonce >= n
==============================================================================
