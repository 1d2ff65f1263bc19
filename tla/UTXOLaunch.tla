------------------------------ MODULE UTXOLaunch ------------------------------
(***************************************************************************)
(* The launch of UTXOGateway: its deployment, the import of the bootstrap  *)
(* data, and the witnesses and stakers, who find the gateway as soon as    *)
(* its proxy exists.  The gateway's client chain is Bitcoin; of XRP only   *)
(* the activation is looked at.                                            *)
(***************************************************************************)
EXTENDS BootstrapImport, GatewayDeployment

launchVars == <<vars, importVars, deployVars>>

LaunchInit == Init /\ ImportInit /\ DeployInit

\* The proxy's constructor calls initialize; before, there is nothing to call.
Deployed == proxy # 0

\* The steps of the deployment that call the gateway; on one that is paused
\* they fail, see StopScript.
ScriptActivatesBitcoin ==
    /\ ActivateBitcoin
    /\ IF MayActivate THEN ActivateStakingForClientChain ELSE UNCHANGED vars
ScriptActivatesXrp ==
    /\ ActivateXrp
    /\ ~paused
    /\ UNCHANGED vars

LaunchScriptStep ==
    /\ \/ ScriptActivatesBitcoin
       \/ ScriptActivatesXrp
       \/ /\ \/ LoadContracts \/ DeployFactory \/ DeployProxy
             \/ AuthorizeGateways \/ WriteInfo \/ SaveContracts
             \/ RepairAuthorizations
          /\ UNCHANGED vars
    /\ UNCHANGED importVars

\* Scripts are started and stopped, and the chain goes on without them.
LaunchEnvironment ==
    /\ \/ StartDeployment \/ StartRepair \/ StopScript
       \/ \E g \in ImuaGateways : DeployBoth(g)
       \/ \E g \in Gateways : ChainAuthorizes(g)
    /\ UNCHANGED <<vars, importVars>>

LaunchImportStep ==
    /\ Deployed
    /\ ImportStep
    /\ UNCHANGED deployVars

\* ASSETS serves the gateway only if it is authorized: stakes revert before.
LaunchStakeStep ==
    /\ "utxo" \in authorizedGateways
    /\ StakeStep
    /\ UNCHANGED <<importVars, deployVars>>

\* The owner may activate a chain too, as the script does.
OwnerActivates ==
    /\ MayActivate
    /\ ActivateStakingForClientChain
    /\ Register("Bitcoin")
    /\ UNCHANGED <<importVars, proxy, create3, authorizedGateways, authority,
                   deployedContracts, deploymentInfo, step, memory, deployRuns>>
LaunchGatewayStep ==
    /\ \/ OwnerStep /\ tokenActivated' = tokenActivated
       \/ StakerStep \/ PegOutStep \/ LedgerStep \/ Tick
    /\ UNCHANGED <<importVars, deployVars>>

LaunchNext ==
    \/ LaunchScriptStep
    \/ LaunchEnvironment
    \/ LaunchImportStep
    \/ /\ Deployed
       /\ LaunchStakeStep \/ OwnerActivates \/ LaunchGatewayStep

LaunchSpec == LaunchInit /\ [][LaunchNext]_launchVars
==============================================================================
