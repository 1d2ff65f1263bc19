--------------------------- MODULE GatewayDeployment ---------------------------
(***************************************************************************)
(* deploy-and-setup-utxogateway.script.js, which deploys UTXOGateway and   *)
(* sets it up, and set-authorized-gateways.script.js, which repairs the    *)
(* authorizations.  A script is a sequence of transactions and file writes *)
(* that may stop between any two of them; whoever runs it starts it again. *)
(* The contracts of a run are named by its number.                         *)
(***************************************************************************)
EXTENDS Naturals

CONSTANTS
    ImuaGateways,   \* deployments of ImuachainGateway
    NoContract,
    MaxRuns         \* bound: runs of the two scripts

ASSUME ContractAssumption ==
    /\ NoContract \notin ImuaGateways \cup {"utxo"}
    /\ "utxo" \notin ImuaGateways
    /\ NoContract \notin Nat
    /\ MaxRuns \in Nat

Gateways == {"utxo"} \cup ImuaGateways
ClientChains == {"Bitcoin", "XRP"}

VARIABLES
    proxy,              \* the run whose logic the proxy was given, at the
                        \* address CREATE3 predicts
    create3,            \* whether the factory is deployed
    authorizedGateways, \* ASSETS
    activated,          \* ASSETS: chains whose token is registered
    authority,          \* whether ASSETS takes orders from the deployer
    deployedContracts,  \* deployedContracts.json
    deploymentInfo,     \* utxo-gateway-<network>.json: the run it is of
    step,               \* the next step of the script
    memory,             \* deployedContracts as the script read it
    deployRuns

deployVars == <<proxy, create3, authorizedGateways, activated, authority,
                deployedContracts, deploymentInfo, step, memory, deployRuns>>

Runs == 0..MaxRuns
Contracts == [utxoGateway : BOOLEAN, utxoGatewayLogic : Runs,
              imuachainGateway : ImuaGateways \cup {NoContract}]
NoContracts == [utxoGateway |-> FALSE, utxoGatewayLogic |-> 0,
                imuachainGateway |-> NoContract]

DeployTypeOK ==
    /\ proxy \in Runs
    /\ create3 \in BOOLEAN
    /\ authorizedGateways \subseteq Gateways
    /\ activated \subseteq ClientChains
    /\ authority \in BOOLEAN
    /\ deployedContracts \in Contracts
    /\ deploymentInfo \in Runs
    /\ step \in {"idle", "load", "factory", "proxy", "authorize", "activateBtc",
                 "activateXrp", "info", "save", "done", "failed", "stopped",
                 "repair", "repaired", "refused"}
    /\ memory \in Contracts
    /\ deployRuns \in Runs

\* Nothing of UTXOGateway is deployed; an ImuachainGateway may be.
DeployInit ==
    /\ proxy = 0
    /\ create3 \in BOOLEAN
    /\ authorizedGateways = {}
    /\ activated = {}
    /\ authority \in BOOLEAN
    /\ \E g \in ImuaGateways \cup {NoContract} :
           deployedContracts = [NoContracts EXCEPT !.imuachainGateway = g]
    /\ deploymentInfo = 0
    /\ step = "idle"
    /\ memory = NoContracts
    /\ deployRuns = 0

-----------------------------------------------------------------------------
(* ASSETS *)

\* updateAuthorizedGateways replaces the list, or reports that it did not.
UpdateAuthorizedGateways(gateways) ==
    authorizedGateways' = IF authority THEN gateways ELSE authorizedGateways

\* registerOrUpdateClientChain and registerToken, from the gateway.
Register(c) == activated' = activated \cup {c}

-----------------------------------------------------------------------------
(* deploy-and-setup-utxogateway.script.js *)

Resting == {"idle", "done", "failed", "stopped", "repaired", "refused"}
Begin(first) ==
    /\ step \in Resting
    /\ deployRuns < MaxRuns
    /\ deployRuns' = deployRuns + 1
    /\ step' = first
    /\ UNCHANGED <<proxy, create3, authorizedGateways, activated, authority,
                   deployedContracts, deploymentInfo, memory>>
StartDeployment == Begin("load")

\* A gateway that is recorded and has code is used as it is.
LoadContracts ==
    /\ step = "load"
    /\ memory' = deployedContracts
    /\ step' = IF deployedContracts.utxoGateway /\ proxy # 0
                   THEN "done" ELSE "factory"
    /\ UNCHANGED <<proxy, create3, authorizedGateways, activated, authority,
                   deployedContracts, deploymentInfo, deployRuns>>

\* The CREATE3 factory, once; logic and admin, new ones in every run.
DeployFactory ==
    /\ step = "factory"
    /\ create3' = TRUE
    /\ step' = "proxy"
    /\ UNCHANGED <<proxy, authorizedGateways, activated, authority,
                   deployedContracts, deploymentInfo, memory, deployRuns>>

\* A second deployment to the address reverts, and the script fails.
DeployAlways ==
    IF proxy = 0 THEN /\ proxy' = deployRuns
                      /\ step' = "authorize"
    ELSE /\ step' = "failed"
         /\ UNCHANGED proxy
\* A proxy that has code stays, with the logic it was given.
DeployOnce ==
    /\ proxy' = IF proxy = 0 THEN deployRuns ELSE proxy
    /\ step' = "authorize"
DeployProxy ==
    /\ step = "proxy"
    /\ DeployOnce
    /\ UNCHANGED <<create3, authorizedGateways, activated, authority,
                   deployedContracts, deploymentInfo, memory, deployRuns>>

AuthorizeGateways ==
    /\ step = "authorize"
    /\ UpdateAuthorizedGateways(
           {"utxo"} \cup ({memory.imuachainGateway} \ {NoContract}))
    /\ step' = "activateBtc"
    /\ UNCHANGED <<proxy, create3, activated, authority, deployedContracts,
                   deploymentInfo, memory, deployRuns>>

\* activateStakingForClientChain: ASSETS refuses a gateway that is not
\* authorized, the gateway reverts, and the script fails.
MayActivate == "utxo" \in authorizedGateways
ActivateUnchecked(c, next) ==
    /\ step' = next
    /\ IF MayActivate THEN Register(c) ELSE UNCHANGED activated
ActivateOrFail(c, next) ==
    IF MayActivate THEN /\ step' = next
                        /\ Register(c)
    ELSE /\ step' = "failed"
         /\ UNCHANGED activated
ActivateBitcoin ==
    /\ step = "activateBtc"
    /\ ActivateOrFail("Bitcoin", "activateXrp")
    /\ UNCHANGED <<proxy, create3, authorizedGateways, authority,
                   deployedContracts, deploymentInfo, memory, deployRuns>>
ActivateXrp ==
    /\ step = "activateXrp"
    /\ ActivateOrFail("XRP", "info")
    /\ UNCHANGED <<proxy, create3, authorizedGateways, authority,
                   deployedContracts, deploymentInfo, memory, deployRuns>>

\* The assertions of the verification print what they find, and the script
\* goes on to write its two files.
WriteInfo ==
    /\ step = "info"
    /\ deploymentInfo' = deployRuns
    /\ step' = "save"
    /\ UNCHANGED <<proxy, create3, authorizedGateways, activated, authority,
                   deployedContracts, memory, deployRuns>>
SaveContracts ==
    /\ step = "save"
    /\ deployedContracts' = [memory EXCEPT !.utxoGateway = TRUE,
                                           !.utxoGatewayLogic = deployRuns]
    /\ step' = "done"
    /\ UNCHANGED <<proxy, create3, authorizedGateways, activated, authority,
                   deploymentInfo, memory, deployRuns>>

-----------------------------------------------------------------------------
(* set-authorized-gateways.script.js *)

StartRepair == Begin("repair")

\* Without the two addresses it does nothing.
RepairAuthorizations ==
    /\ step = "repair"
    /\ LET imua == deployedContracts.imuachainGateway
       IN  IF imua # NoContract /\ deployedContracts.utxoGateway
           THEN /\ UpdateAuthorizedGateways({imua, "utxo"})
                /\ step' = "repaired"
           ELSE /\ step' = "refused"
                /\ UNCHANGED authorizedGateways
    /\ UNCHANGED <<proxy, create3, activated, authority, deployedContracts,
                   deploymentInfo, memory, deployRuns>>

-----------------------------------------------------------------------------
(* What happens to a script, and beside it *)

\* It is stopped, or a request fails and it exits.
StopScript ==
    /\ step \notin Resting
    /\ step' = "stopped"
    /\ UNCHANGED <<proxy, create3, authorizedGateways, activated, authority,
                   deployedContracts, deploymentInfo, memory, deployRuns>>

\* 2_DeployBoth.s.sol deploys a new ImuachainGateway and writes
\* deployedContracts.json anew.
DeployBoth(g) ==
    /\ g # deployedContracts.imuachainGateway
    /\ deployedContracts' = [NoContracts EXCEPT !.imuachainGateway = g]
    /\ UNCHANGED <<proxy, create3, authorizedGateways, activated, authority,
                   deploymentInfo, step, memory, deployRuns>>

\* The authority of the chain authorizes a gateway.
ChainAuthorizes(g) ==
    /\ authorizedGateways' = authorizedGateways \cup {g}
    /\ UNCHANGED <<proxy, create3, activated, authority, deployedContracts,
                   deploymentInfo, step, memory, deployRuns>>

ScriptStep ==
    \/ LoadContracts \/ DeployFactory \/ DeployProxy \/ AuthorizeGateways
    \/ ActivateBitcoin \/ ActivateXrp \/ WriteInfo \/ SaveContracts
    \/ RepairAuthorizations

DeployNext ==
    \/ StartDeployment \/ StartRepair
    \/ ScriptStep
    \/ StopScript
    \/ \E g \in ImuaGateways : DeployBoth(g)
    \/ \E g \in Gateways : ChainAuthorizes(g)

DeploySpec == DeployInit /\ [][DeployNext]_deployVars

-----------------------------------------------------------------------------
(* Properties *)

\* deployedContracts.json records the gateway last: whatever was interrupted
\* and run again, and whoever rewrote the file or the authorizations between,
\* a gateway that is recorded, and so taken by the next run as it is, has its
\* proxy, the right to call ASSETS and both chains.
SavedMeansReady ==
    deployedContracts.utxoGateway =>
        /\ proxy # 0
        /\ "utxo" \in authorizedGateways
        /\ activated = ClientChains

\* No step of a run fails, wherever the runs before it were stopped, if ASSETS
\* obeys the deployer: what was done already is found to be done, and what the
\* steps before should have done has been done.
RerunNeverFails == authority => step # "failed"
==============================================================================
