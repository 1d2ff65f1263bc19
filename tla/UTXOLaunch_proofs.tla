--------------------------- MODULE UTXOLaunch_proofs ---------------------------
(***************************************************************************)
(* Proofs about the launch of UTXOGateway: the deployment scripts, for any *)
(* number of runs and of ImuachainGateways, and the import, for any file,  *)
(* batch size and number of runs, while the gateway is used.               *)
(***************************************************************************)
EXTENDS UTXOLaunch, UTXOBridge_proofs

USE ContractAssumption, ImportAssumption, ZeroAssumption, MessagesAssumption,
    WitnessesAssumption, LimitsAssumption

\* What a script has done at each of its steps, and what stays done when it is
\* stopped there.
ProxyExists ==
    step \in {"authorize", "activateBtc", "activateXrp", "info", "save"} => proxy # 0
MayCall ==
    /\ step \in {"activateXrp", "info", "save"} => "utxo" \in authorizedGateways
    /\ authority /\ step = "activateBtc" => "utxo" \in authorizedGateways
ChainsActivated ==
    /\ step \in {"activateXrp", "info", "save"} => "Bitcoin" \in activated
    /\ step \in {"info", "save"} => "XRP" \in activated
RunIsNumbered == step # "idle" => deployRuns # 0

DeployInv ==
    /\ DeployTypeOK
    /\ RunIsNumbered
    /\ ProxyExists
    /\ MayCall
    /\ ChainsActivated
    /\ SavedMeansReady
    /\ RerunNeverFails

\* A file that has an ImuachainGateway at most.
LEMMA FreshContracts ==
    ASSUME NEW g \in ImuaGateways \cup {NoContract}
    PROVE  /\ [NoContracts EXCEPT !.imuachainGateway = g] \in Contracts
           /\ ~ [NoContracts EXCEPT !.imuachainGateway = g].utxoGateway
<1>1. NoContracts \in Contracts /\ ~ NoContracts.utxoGateway
  BY DEF NoContracts, Contracts, Runs
<1>2. PICK contracts \in Contracts : contracts = NoContracts
  BY <1>1
<1>3. /\ [contracts EXCEPT !.imuachainGateway = g] \in Contracts
      /\ [contracts EXCEPT !.imuachainGateway = g].utxoGateway
             = contracts.utxoGateway
  BY DEF Contracts
<1> QED
  BY <1>1, <1>2, <1>3

LEMMA DeployInvInitially == DeployInit => DeployInv
<1> SUFFICES ASSUME DeployInit PROVE DeployInv
  OBVIOUS
<1>1. deployedContracts \in Contracts /\ ~ deployedContracts.utxoGateway
  BY FreshContracts DEF DeployInit
<1>2. 0 \in Runs /\ NoContracts \in Contracts
  BY DEF Runs, Contracts, NoContracts
<1>3. DeployTypeOK
  BY <1>1, <1>2 DEF DeployInit, DeployTypeOK
<1> QED
  BY <1>1, <1>3 DEF DeployInit, DeployInv, RunIsNumbered, ProxyExists, MayCall,
                    ChainsActivated, SavedMeansReady, RerunNeverFails

\* The gateway that is authorized once stays authorized: each list that a
\* script sends names it.
LEMMA GatewayStaysAuthorized ==
    ASSUME DeployTypeOK, NEW gateways \in SUBSET Gateways, "utxo" \in gateways,
           UpdateAuthorizedGateways(gateways)
    PROVE  /\ authorizedGateways' \subseteq Gateways
           /\ "utxo" \in authorizedGateways => "utxo" \in authorizedGateways'
           /\ authority => "utxo" \in authorizedGateways'
  BY DEF UpdateAuthorizedGateways, DeployTypeOK

LEMMA TypeStep ==
    ASSUME DeployTypeOK, DeployNext
    PROVE  DeployTypeOK'
<1> USE DEF DeployTypeOK
<1>1. CASE StartDeployment
  BY <1>1 DEF StartDeployment, Begin, Runs
<1>2. CASE StartRepair
  BY <1>2 DEF StartRepair, Begin, Runs
<1>3. CASE LoadContracts
  BY <1>3 DEF LoadContracts
<1>4. CASE DeployFactory
  BY <1>4 DEF DeployFactory
<1>5. CASE DeployProxy
  BY <1>5 DEF DeployProxy, DeployOnce
<1>6. CASE AuthorizeGateways
  <2>1. {"utxo"} \cup ({memory.imuachainGateway} \ {NoContract}) \subseteq Gateways
    BY DEF Contracts, Gateways
  <2> QED
    BY <1>6, <2>1, GatewayStaysAuthorized DEF AuthorizeGateways
<1>7. CASE ActivateBitcoin
  BY <1>7 DEF ActivateBitcoin, ActivateOrFail, Register, ClientChains
<1>8. CASE ActivateXrp
  BY <1>8 DEF ActivateXrp, ActivateOrFail, Register, ClientChains
<1>9. CASE WriteInfo
  BY <1>9 DEF WriteInfo
<1>10. CASE SaveContracts
  BY <1>10 DEF SaveContracts, Contracts
<1>11. CASE RepairAuthorizations
  <2>1. CASE step' = "repaired"
    <3>1. /\ deployedContracts.imuachainGateway # NoContract
          /\ UpdateAuthorizedGateways({deployedContracts.imuachainGateway, "utxo"})
      BY <1>11, <2>1 DEF RepairAuthorizations
    <3>2. {deployedContracts.imuachainGateway, "utxo"} \subseteq Gateways
      BY <3>1 DEF Contracts, Gateways
    <3> QED
      BY <1>11, <2>1, <3>1, <3>2, GatewayStaysAuthorized DEF RepairAuthorizations
  <2>2. CASE step' # "repaired"
    BY <1>11, <2>2 DEF RepairAuthorizations
  <2> QED
    BY <2>1, <2>2
<1>12. CASE StopScript
  BY <1>12 DEF StopScript
<1>13. ASSUME NEW g \in ImuaGateways, DeployBoth(g)
       PROVE  DeployTypeOK'
  BY <1>13, FreshContracts DEF DeployBoth
<1>14. ASSUME NEW g \in Gateways, ChainAuthorizes(g)
       PROVE  DeployTypeOK'
  BY <1>14 DEF ChainAuthorizes
<1> QED
  BY <1>1, <1>2, <1>3, <1>4, <1>5, <1>6, <1>7, <1>8, <1>9, <1>10, <1>11, <1>12,
     <1>13, <1>14 DEF DeployNext, ScriptStep

\* Every step of the scripts and of those who work beside them.
LEMMA DeployInvStep ==
    ASSUME DeployInv, DeployNext
    PROVE  DeployInv'
<1> USE DEF DeployInv, RunIsNumbered, ProxyExists, MayCall, ChainsActivated,
            SavedMeansReady, RerunNeverFails
<1>0. DeployTypeOK'
  BY TypeStep
<1>1. CASE StartDeployment \/ StartRepair
  BY <1>0, <1>1 DEF StartDeployment, StartRepair, Begin, DeployTypeOK, Runs
<1>3. CASE LoadContracts
  BY <1>0, <1>3 DEF LoadContracts
<1>4. CASE DeployFactory
  BY <1>0, <1>4 DEF DeployFactory
<1>5. CASE DeployProxy
  BY <1>0, <1>5 DEF DeployProxy, DeployOnce
<1>6. CASE AuthorizeGateways
  <2>1. {"utxo"} \cup ({memory.imuachainGateway} \ {NoContract}) \subseteq Gateways
    BY DEF Contracts, Gateways, DeployTypeOK
  <2>2. /\ "utxo" \in authorizedGateways => "utxo" \in authorizedGateways'
        /\ authority => "utxo" \in authorizedGateways'
    BY <1>6, <2>1, GatewayStaysAuthorized DEF AuthorizeGateways
  <2> QED
    BY <1>0, <1>6, <2>2 DEF AuthorizeGateways
<1>7. CASE ActivateBitcoin
  BY <1>0, <1>7 DEF ActivateBitcoin, ActivateOrFail, MayActivate, Register,
                    ClientChains
<1>8. CASE ActivateXrp
  BY <1>0, <1>8 DEF ActivateXrp, ActivateOrFail, MayActivate, Register,
                    ClientChains
<1>9. CASE WriteInfo
  BY <1>0, <1>9 DEF WriteInfo
<1>10. CASE SaveContracts
  <2>1. activated = ClientChains
    BY <1>10 DEF SaveContracts, DeployTypeOK, ClientChains
  <2> QED
    BY <1>0, <1>10, <2>1 DEF SaveContracts
<1>11. CASE RepairAuthorizations
  <2>1. "utxo" \in authorizedGateways => "utxo" \in authorizedGateways'
    BY <1>11 DEF RepairAuthorizations, UpdateAuthorizedGateways
  <2> QED
    BY <1>0, <1>11, <2>1 DEF RepairAuthorizations
<1>12. CASE StopScript
  BY <1>0, <1>12 DEF StopScript, Resting
<1>13. ASSUME NEW g \in ImuaGateways, DeployBoth(g)
       PROVE  DeployInv'
  <2>1. /\ ~ deployedContracts'.utxoGateway
        /\ UNCHANGED <<proxy, authorizedGateways, activated, authority, step,
                       deployRuns>>
    BY <1>13, FreshContracts DEF DeployBoth
  <2> QED
    BY <1>0, <2>1
<1>14. ASSUME NEW g \in Gateways, ChainAuthorizes(g)
       PROVE  DeployInv'
  BY <1>0, <1>14 DEF ChainAuthorizes
<1> QED
  BY <1>1, <1>3, <1>4, <1>5, <1>6, <1>7, <1>8, <1>9, <1>10, <1>11, <1>12,
     <1>13, <1>14 DEF DeployNext, ScriptStep

LEMMA DeployInvStutter ==
    ASSUME DeployInv, UNCHANGED deployVars
    PROVE  DeployInv'
  BY DEF DeployInv, deployVars, DeployTypeOK, RunIsNumbered, ProxyExists,
         MayCall, ChainsActivated, SavedMeansReady, RerunNeverFails

\* A step of the launch is a step of the scripts, or leaves what they look at
\* alone, or is the owner's own activation of Bitcoin.
LEMMA LaunchStepKinds ==
    ASSUME LaunchNext
    PROVE  DeployNext \/ OwnerActivates \/ UNCHANGED deployVars
<1>1. CASE LaunchScriptStep
  BY <1>1 DEF LaunchScriptStep, ScriptActivatesBitcoin, ScriptActivatesXrp,
              DeployNext, ScriptStep
<1>2. CASE LaunchEnvironment
  BY <1>2 DEF LaunchEnvironment, DeployNext
<1>3. CASE LaunchImportStep \/ LaunchStakeStep \/ LaunchGatewayStep
  BY <1>3 DEF LaunchImportStep, LaunchStakeStep, LaunchGatewayStep
<1> QED
  BY <1>1, <1>2, <1>3 DEF LaunchNext

LEMMA OwnerActivatesKeeps ==
    ASSUME DeployInv, OwnerActivates
    PROVE  DeployInv'
<1>1. /\ activated' = activated \cup {"Bitcoin"}
      /\ UNCHANGED <<proxy, create3, authorizedGateways, authority,
                     deployedContracts, deploymentInfo, step, memory, deployRuns>>
  BY DEF OwnerActivates, Register
<1> QED
  BY <1>1 DEF DeployInv, DeployTypeOK, RunIsNumbered, ProxyExists, MayCall,
              ChainsActivated, SavedMeansReady, RerunNeverFails, ClientChains

\* The facts above hold in every state of the launch: SavedMeansReady alone is
\* not inductive, it rests on what the steps before the recording have done.
THEOREM LaunchKeepsDeployInv == LaunchSpec => []DeployInv
<1>1. LaunchInit => DeployInv
  BY DeployInvInitially DEF LaunchInit
<1>2. DeployInv /\ [LaunchNext]_launchVars => DeployInv'
  <2> SUFFICES ASSUME DeployInv, [LaunchNext]_launchVars
               PROVE  DeployInv'
    OBVIOUS
  <2>1. CASE LaunchNext
    BY <2>1, LaunchStepKinds, DeployInvStep, OwnerActivatesKeeps, DeployInvStutter
  <2>2. CASE UNCHANGED launchVars
    BY <2>2, DeployInvStutter DEF launchVars
  <2> QED
    BY <2>1, <2>2
<1> QED
  BY <1>1, <1>2, PTL DEF LaunchSpec

\* deploy-and-setup-utxogateway.script.js records the gateway only when it is
\* complete, and it stays complete, whatever the scripts, the redeployment of
\* ImuachainGateway, the chain, the owner and the users do, in any order.
THEOREM RecordedGatewayIsReady == LaunchSpec => []SavedMeansReady
  BY LaunchKeepsDeployInv, PTL DEF DeployInv

\* If ASSETS obeys the deployer, a run succeeds in every step it takes, wherever
\* those before it were stopped, for any number of runs.
THEOREM ScriptsCanBeRepeated == LaunchSpec => []RerunNeverFails
  BY LaunchKeepsDeployInv, PTL DEF DeployInv

------------------------------------------------------------------------------
(* What an import has done.  The script looks at numbers of nonces only, so  *)
(* the invariant bounds, for each entry it has counted, the nonce of its     *)
(* transaction from below and, by those that were given after it, from       *)
(* above.                                                                    *)

ImportTypeOK ==
    /\ allBootstrapData \in Seq(BootstrapEntry)
    /\ importer \in {"idle", "initial", "estimate", "wait", "verify",
                     "succeeded", "failed"}
    /\ initialNonce \in Nat
    /\ processedEntries \in 0 .. Len(allBootstrapData)
    /\ mempool \in Seq(Seq(BootstrapEntry))

Importing == importer \in {"estimate", "wait", "verify"}

NonceOf(i) == clientTxIdToNonce[allBootstrapData[i].clientTxId]

\* The transaction the script waits for is the last that was sent, and holds
\* the entries that follow those it counted.
Positioned ==
    /\ importer = "initial" => processedEntries = 0
    /\ importer = "wait" => /\ mempool # <<>>
                            /\ mempool[Len(mempool)] = NextBatch
    /\ importer = "verify" => AllProcessed

CountedEntries ==
    Importing =>
        /\ initialNonce + processedEntries <= inboundNonce
        /\ \A i \in 1 .. processedEntries :
            /\ initialNonce + i <= NonceOf(i)
            /\ NonceOf(i) + (processedEntries - i) <= inboundNonce

Succeeded ==
    importer = "succeeded" => \A i \in DOMAIN allBootstrapData :
                                    NonceOf(i) = initialNonce + i

ImportInv == ImportTypeOK /\ Positioned /\ CountedEntries /\ Succeeded

\* Of the registry: as long as nobody took a nonce beside the import, it holds
\* the addresses of the file and no others.
IsPaired(i) ==
    LET e == allBootstrapData[i]
    IN  /\ e.clientAddress \in ClientAddresses
        /\ e.imuachainAddress \in ImAddresses
        /\ inboundRegistry[e.clientAddress] = e.imuachainAddress
        /\ outboundRegistry[e.imuachainAddress] = e.clientAddress

NoNonceNoPair ==
    inboundNonce = 0 => \A c \in ClientAddresses :
                            inboundRegistry[c] = ZeroAddress

OnlyFilePairs ==
    Importing /\ initialNonce = 0 /\ inboundNonce = processedEntries =>
        /\ \A i \in 1 .. processedEntries : IsPaired(i)
        /\ \A c \in ClientAddresses : inboundRegistry[c] # ZeroAddress =>
            \E i \in DOMAIN allBootstrapData :
                /\ allBootstrapData[i].clientAddress = c
                /\ allBootstrapData[i].imuachainAddress = inboundRegistry[c]

SucceededFresh ==
    importer = "succeeded" /\ initialNonce = 0 =>
        \A i \in DOMAIN allBootstrapData : IsPaired(i)

\* A file in which a client address stands for one account and an account for
\* one client address, as the generators write them (ExportedPairsRegister of
\* StakeScan).
PairsAreBound(data) ==
    \A i, k \in DOMAIN data : data[i].clientAddress = data[k].clientAddress
                    <=> data[i].imuachainAddress = data[k].imuachainAddress

PairsInv == /\ PairsAreBound(allBootstrapData)
            /\ NoNonceNoPair
            /\ OnlyFilePairs
            /\ SucceededFresh

------------------------------------------------------------------------------
(* What a batch does to the gateway.                                         *)

\* A batch that the gateway takes.
Takes(batch) ==
    /\ batch \in Seq(BootstrapEntry)
    /\ inboundNonce + Len(batch) <= MaxNonce
    /\ MayImport(batch)
    /\ BootstrapBatch(batch)

LEMMA BatchEntries ==
    ASSUME NEW batch, Takes(batch)
    PROVE  /\ Len(batch) \in Nat \ {0}
           /\ DOMAIN batch = 1 .. Len(batch)
           /\ \A i \in 1 .. Len(batch) :
                /\ batch[i].clientAddress \in ClientAddresses
                /\ batch[i].imuachainAddress \in ImAddresses
                /\ batch[i].clientTxId \in AllTxIds
                /\ clientTxIdToNonce[batch[i].clientTxId] = 0
                /\ \A k \in 1 .. Len(batch) :
                    batch[k].clientTxId = batch[i].clientTxId => k = i
<1>1. /\ Len(batch) \in Nat \ {0}
      /\ DOMAIN batch = 1 .. Len(batch)
      /\ \A i \in 1 .. Len(batch) : batch[i] \in BootstrapEntry
  BY DEF Takes, MayImport
<1> QED
  BY <1>1 DEF Takes, MayImport, BootstrapEntry, Accounts

\* Each of its transactions gets the nonce of its place, and what was known
\* keeps its nonce.
LEMMA BatchNonces ==
    ASSUME TypeOK, NEW batch, Takes(batch)
    PROVE  /\ inboundNonce' = inboundNonce + Len(batch)
           /\ inboundNonce' \in 0 .. MaxNonce
           /\ clientTxIdToNonce' \in [AllTxIds -> 0 .. MaxNonce]
           /\ nonceToClientTxId' \in [Nonces -> AllTxIds]
           /\ \A i \in 1 .. Len(batch) :
                /\ clientTxIdToNonce'[batch[i].clientTxId] = inboundNonce + i
                /\ nonceToClientTxId'[inboundNonce + i] = batch[i].clientTxId
           /\ \A tx \in AllTxIds :
                \/ clientTxIdToNonce'[tx] = clientTxIdToNonce[tx]
                \/ /\ clientTxIdToNonce[tx] = 0
                   /\ \E i \in 1 .. Len(batch) : tx = batch[i].clientTxId
           /\ \A n \in 1 .. inboundNonce :
                nonceToClientTxId'[n] = nonceToClientTxId[n]
<1> DEFINE EntriesOf(tx) == {i \in DOMAIN batch : batch[i].clientTxId = tx}
<1>1. /\ inboundNonce \in 0 .. MaxNonce /\ MaxNonce \in Nat
      /\ inboundNonce + Len(batch) <= MaxNonce
      /\ clientTxIdToNonce \in [AllTxIds -> 0 .. MaxNonce]
      /\ nonceToClientTxId \in [Nonces -> AllTxIds]
  BY DEF TypeOK, Takes
<1>2. /\ inboundNonce' = inboundNonce + Len(batch)
      /\ clientTxIdToNonce' = [tx \in AllTxIds |->
            IF EntriesOf(tx) = {} THEN clientTxIdToNonce[tx]
            ELSE inboundNonce + (CHOOSE i \in EntriesOf(tx) : TRUE)]
      /\ nonceToClientTxId' = [n \in Nonces |->
            IF n - inboundNonce \in DOMAIN batch
            THEN batch[n - inboundNonce].clientTxId
            ELSE nonceToClientTxId[n]]
  BY DEF Takes, BootstrapBatch, RecordBatch
<1>3. /\ Len(batch) \in Nat \ {0}
      /\ DOMAIN batch = 1 .. Len(batch)
      /\ \A i \in 1 .. Len(batch) :
            /\ batch[i].clientTxId \in AllTxIds
            /\ clientTxIdToNonce[batch[i].clientTxId] = 0
            /\ \A k \in 1 .. Len(batch) :
                batch[k].clientTxId = batch[i].clientTxId => k = i
  BY BatchEntries
<1>4. ASSUME NEW i \in 1 .. Len(batch)
      PROVE  /\ clientTxIdToNonce'[batch[i].clientTxId] = inboundNonce + i
             /\ nonceToClientTxId'[inboundNonce + i] = batch[i].clientTxId
  <2>1. EntriesOf(batch[i].clientTxId) = {i}
    BY <1>3
  <2>2. (CHOOSE k \in {i} : TRUE) = i
    OBVIOUS
  <2>3. clientTxIdToNonce'[batch[i].clientTxId] = inboundNonce + i
    BY <1>2, <1>3, <2>1, <2>2
  <2>4. /\ inboundNonce + i \in Nonces
        /\ (inboundNonce + i) - inboundNonce = i
    BY <1>1, <1>3 DEF Nonces
  <2>5. nonceToClientTxId'[inboundNonce + i] = batch[i].clientTxId
    BY <1>2, <1>3, <2>4
  <2> QED
    BY <2>3, <2>5
<1>5. ASSUME NEW tx \in AllTxIds
      PROVE  /\ clientTxIdToNonce'[tx] \in 0 .. MaxNonce
             /\ \/ clientTxIdToNonce'[tx] = clientTxIdToNonce[tx]
                \/ /\ clientTxIdToNonce[tx] = 0
                   /\ \E i \in 1 .. Len(batch) : tx = batch[i].clientTxId
  <2>1. CASE EntriesOf(tx) = {}
    BY <1>1, <1>2, <2>1
  <2>2. ASSUME NEW i \in EntriesOf(tx)
        PROVE  /\ clientTxIdToNonce'[tx] \in 0 .. MaxNonce
               /\ clientTxIdToNonce[tx] = 0
               /\ \E k \in 1 .. Len(batch) : tx = batch[k].clientTxId
    <3>1. i \in 1 .. Len(batch) /\ tx = batch[i].clientTxId
      BY <1>3
    <3>2. clientTxIdToNonce'[tx] = inboundNonce + i
      BY <1>4, <3>1
    <3> QED
      BY <1>1, <1>3, <3>1, <3>2
  <2> QED
    BY <2>1, <2>2
<1>6. ASSUME NEW n \in Nonces
      PROVE  nonceToClientTxId'[n] \in AllTxIds
  BY <1>1, <1>2, <1>3
<1>7. ASSUME NEW n \in 1 .. inboundNonce
      PROVE  nonceToClientTxId'[n] = nonceToClientTxId[n]
  <2>1. n \in Nonces /\ ~ (n - inboundNonce \in 1 .. Len(batch))
    BY <1>1 DEF Nonces
  <2> QED
    BY <1>2, <1>3, <2>1
<1>8. /\ clientTxIdToNonce' \in [AllTxIds -> 0 .. MaxNonce]
      /\ nonceToClientTxId' \in [Nonces -> AllTxIds]
  <2> HIDE DEF EntriesOf
  <2>1. clientTxIdToNonce' = [tx \in AllTxIds |-> clientTxIdToNonce'[tx]]
    BY <1>2
  <2>2. nonceToClientTxId' = [n \in Nonces |-> nonceToClientTxId'[n]]
    BY <1>2
  <2> QED
    BY <1>5, <1>6, <2>1, <2>2
<1>9. inboundNonce' \in 0 .. MaxNonce
  BY <1>1, <1>2, <1>3
<1> QED
  BY <1>2, <1>4, <1>5, <1>7, <1>8, <1>9

LEMMA BatchBijection ==
    ASSUME TypeOK, NonceTxBijection, NEW batch, Takes(batch)
    PROVE  NonceTxBijection'
<1>1. inboundNonce \in Nat /\ Len(batch) \in Nat
  BY BatchEntries DEF TypeOK
<1>2. inboundNonce' = inboundNonce + Len(batch)
  BY BatchNonces
<1>3. ASSUME NEW n \in 1 .. inboundNonce'
      PROVE  clientTxIdToNonce'[nonceToClientTxId'[n]] = n
  <2>1. CASE n \in 1 .. inboundNonce
    <3>1. PICK tx \in AllTxIds : tx = nonceToClientTxId[n]
      BY <2>1 DEF TypeOK, Nonces
    <3>2. clientTxIdToNonce[tx] = n /\ n # 0
      BY <2>1, <3>1 DEF NonceTxBijection
    <3>3. nonceToClientTxId'[n] = tx /\ clientTxIdToNonce'[tx] = n
      BY <2>1, <3>1, <3>2, BatchNonces
    <3> QED
      BY <3>3
  <2>2. CASE n \notin 1 .. inboundNonce
    <3>1. PICK i \in 1 .. Len(batch) : n = inboundNonce + i
      <4>1. n - inboundNonce \in 1 .. Len(batch)
        BY <1>1, <1>2, <2>2
      <4> QED
        BY <1>1, <1>2, <2>2, <4>1
    <3> QED
      BY <3>1, BatchNonces
  <2> QED
    BY <2>1, <2>2
<1>4. ASSUME NEW tx \in AllTxIds, clientTxIdToNonce'[tx] # 0
      PROVE  /\ clientTxIdToNonce'[tx] <= inboundNonce'
             /\ nonceToClientTxId'[clientTxIdToNonce'[tx]] = tx
  <2>1. CASE clientTxIdToNonce'[tx] = clientTxIdToNonce[tx]
    <3>1. PICK n \in Nat : n = clientTxIdToNonce[tx]
      BY DEF TypeOK
    <3>2. n \in 1 .. inboundNonce /\ nonceToClientTxId[n] = tx
      BY <1>4, <2>1, <3>1 DEF NonceTxBijection
    <3>3. nonceToClientTxId'[n] = tx
      BY <3>2, BatchNonces
    <3> QED
      BY <1>1, <1>2, <2>1, <3>1, <3>2, <3>3
  <2>2. ASSUME NEW i \in 1 .. Len(batch), tx = batch[i].clientTxId
        PROVE  /\ clientTxIdToNonce'[tx] <= inboundNonce'
               /\ nonceToClientTxId'[clientTxIdToNonce'[tx]] = tx
    <3>1. /\ clientTxIdToNonce'[tx] = inboundNonce + i
          /\ nonceToClientTxId'[inboundNonce + i] = tx
      BY <2>2, BatchNonces
    <3> QED
      BY <1>1, <1>2, <3>1
  <2> QED
    BY <2>1, <2>2, BatchNonces
<1> QED
  BY <1>3, <1>4 DEF NonceTxBijection

\* The entries that register do so each for itself: their addresses were new
\* and differ.  The rest of the registry stays.
LEMMA BatchPairs ==
    ASSUME TypeOK, NEW batch, Takes(batch),
           NEW new \in SUBSET DOMAIN batch, RegisterBatch(batch, new)
    PROVE  /\ \A i \in new :
                /\ i \in 1 .. Len(batch)
                /\ Unregistered(batch[i].clientAddress,
                                batch[i].imuachainAddress)
                /\ inboundRegistry'[batch[i].clientAddress]
                        = batch[i].imuachainAddress
                /\ outboundRegistry'[batch[i].imuachainAddress]
                        = batch[i].clientAddress
           /\ \A c \in ClientAddresses :
                \/ inboundRegistry'[c] = inboundRegistry[c]
                \/ \E i \in new : batch[i].clientAddress = c
           /\ \A a \in Accounts :
                \/ outboundRegistry'[a] = outboundRegistry[a]
                \/ \E i \in new : batch[i].imuachainAddress = a
           /\ inboundRegistry' \in [ClientAddresses -> Accounts]
           /\ outboundRegistry' \in [Accounts -> ClientAddresses \cup {NoAddress}]
<1> DEFINE ByClient(c) == {i \in new : batch[i].clientAddress = c}
           ByAccount(a) == {i \in new : batch[i].imuachainAddress = a}
<1>1. /\ inboundRegistry' = [c \in ClientAddresses |->
            IF ByClient(c) = {} THEN inboundRegistry[c]
            ELSE batch[CHOOSE i \in ByClient(c) : TRUE].imuachainAddress]
      /\ outboundRegistry' = [a \in Accounts |->
            IF ByAccount(a) = {} THEN outboundRegistry[a]
            ELSE batch[CHOOSE i \in ByAccount(a) : TRUE].clientAddress]
  BY DEF RegisterBatch
<1>2. /\ new \subseteq 1 .. Len(batch) /\ Len(batch) \in Nat
      /\ \A i \in new :
            /\ batch[i].clientAddress \in ClientAddresses
            /\ batch[i].imuachainAddress \in ImAddresses
            /\ batch[i].imuachainAddress \in Accounts
  BY BatchEntries DEF Accounts
<1>3. \A i \in new :
        /\ Unregistered(batch[i].clientAddress, batch[i].imuachainAddress)
        /\ \A k \in new : k < i =>
            /\ batch[k].clientAddress # batch[i].clientAddress
            /\ batch[k].imuachainAddress # batch[i].imuachainAddress
  BY DEF RegisterBatch, Registers
<1>4. \A i, k \in new : k # i =>
        /\ batch[k].clientAddress # batch[i].clientAddress
        /\ batch[k].imuachainAddress # batch[i].imuachainAddress
  <2> SUFFICES ASSUME NEW i \in new, NEW k \in new, k # i
               PROVE  /\ batch[k].clientAddress # batch[i].clientAddress
                      /\ batch[k].imuachainAddress # batch[i].imuachainAddress
    OBVIOUS
  <2>1. i \in Int /\ k \in Int
    BY <1>2
  <2>2. k < i \/ i < k
    BY <2>1
  <2> QED
    BY <1>3, <2>2
<1>5. ASSUME NEW i \in new
      PROVE  /\ inboundRegistry'[batch[i].clientAddress]
                    = batch[i].imuachainAddress
             /\ outboundRegistry'[batch[i].imuachainAddress]
                    = batch[i].clientAddress
  <2>1. /\ ByClient(batch[i].clientAddress) = {i}
        /\ ByAccount(batch[i].imuachainAddress) = {i}
    BY <1>4
  <2>2. (CHOOSE k \in {i} : TRUE) = i /\ {i} # {}
    OBVIOUS
  <2> HIDE DEF ByClient, ByAccount
  <2> QED
    BY <1>1, <1>2, <2>1, <2>2
<1>6. ASSUME NEW c \in ClientAddresses
      PROVE  /\ \/ inboundRegistry'[c] = inboundRegistry[c]
                \/ \E i \in new : batch[i].clientAddress = c
             /\ inboundRegistry'[c] \in Accounts
  <2>1. CASE ByClient(c) = {}
    BY <1>1, <2>1 DEF TypeOK
  <2>2. ASSUME NEW i \in ByClient(c)
        PROVE  /\ \E k \in new : batch[k].clientAddress = c
               /\ inboundRegistry'[c] \in Accounts
    BY <1>2, <1>5
  <2> QED
    BY <2>1, <2>2
<1>7. ASSUME NEW a \in Accounts
      PROVE  /\ \/ outboundRegistry'[a] = outboundRegistry[a]
                \/ \E i \in new : batch[i].imuachainAddress = a
             /\ outboundRegistry'[a] \in ClientAddresses \cup {NoAddress}
  <2>1. CASE ByAccount(a) = {}
    BY <1>1, <2>1 DEF TypeOK
  <2>2. ASSUME NEW i \in ByAccount(a)
        PROVE  /\ \E k \in new : batch[k].imuachainAddress = a
               /\ outboundRegistry'[a] \in ClientAddresses \cup {NoAddress}
    BY <1>2, <1>5
  <2> QED
    BY <2>1, <2>2
<1>8. /\ inboundRegistry' \in [ClientAddresses -> Accounts]
      /\ outboundRegistry' \in [Accounts -> ClientAddresses \cup {NoAddress}]
  <2> HIDE DEF ByClient, ByAccount
  <2>1. /\ inboundRegistry' = [c \in ClientAddresses |-> inboundRegistry'[c]]
        /\ outboundRegistry' = [a \in Accounts |-> outboundRegistry'[a]]
    BY <1>1
  <2> QED
    BY <1>6, <1>7, <2>1
<1> QED
  BY <1>2, <1>3, <1>5, <1>6, <1>7, <1>8

\* What is registered stays registered, and what is new is a pair of the batch.
RegistryGrows(batch) ==
    /\ \A c \in ClientAddresses :
        \/ inboundRegistry'[c] = inboundRegistry[c]
        \/ /\ inboundRegistry[c] = ZeroAddress
           /\ \E i \in 1 .. Len(batch) :
                /\ batch[i].clientAddress = c
                /\ batch[i].imuachainAddress = inboundRegistry'[c]
    /\ \A a \in Accounts :
        \/ outboundRegistry'[a] = outboundRegistry[a]
        \/ outboundRegistry[a] = NoAddress

LEMMA BatchRegistry ==
    ASSUME TypeOK, RegistryInv, NEW batch, Takes(batch)
    PROVE  /\ RegistryInv'
           /\ RegistryGrows(batch)
           /\ inboundRegistry' \in [ClientAddresses -> Accounts]
           /\ outboundRegistry' \in [Accounts -> ClientAddresses \cup {NoAddress}]
<1>1. PICK new \in SUBSET DOMAIN batch : RegisterBatch(batch, new)
  BY DEF Takes, BootstrapBatch
<1>2. /\ \A i \in new :
            /\ i \in 1 .. Len(batch)
            /\ Unregistered(batch[i].clientAddress, batch[i].imuachainAddress)
            /\ inboundRegistry'[batch[i].clientAddress]
                    = batch[i].imuachainAddress
            /\ outboundRegistry'[batch[i].imuachainAddress]
                    = batch[i].clientAddress
      /\ \A c \in ClientAddresses :
            \/ inboundRegistry'[c] = inboundRegistry[c]
            \/ \E i \in new : batch[i].clientAddress = c
      /\ \A a \in Accounts :
            \/ outboundRegistry'[a] = outboundRegistry[a]
            \/ \E i \in new : batch[i].imuachainAddress = a
      /\ inboundRegistry' \in [ClientAddresses -> Accounts]
      /\ outboundRegistry' \in [Accounts -> ClientAddresses \cup {NoAddress}]
  BY <1>1, BatchPairs
<1>3. \A i \in new : /\ batch[i].clientAddress \in ClientAddresses
                     /\ batch[i].imuachainAddress \in ImAddresses
                     /\ batch[i].imuachainAddress # ZeroAddress
                     /\ batch[i].imuachainAddress \in Accounts
                     /\ batch[i].clientAddress # NoAddress
  BY <1>2, BatchEntries DEF Accounts
<1>4. RegistryGrows(batch)
  BY <1>2 DEF RegistryGrows, Unregistered
<1>5. ASSUME NEW c \in ClientAddresses, inboundRegistry'[c] # ZeroAddress
      PROVE  outboundRegistry'[inboundRegistry'[c]] = c
  <2>1. ASSUME NEW i \in new, batch[i].clientAddress = c
        PROVE  outboundRegistry'[inboundRegistry'[c]] = c
    BY <1>2, <2>1
  <2>2. CASE inboundRegistry'[c] = inboundRegistry[c]
    <3>1. PICK a \in Accounts : a = inboundRegistry[c]
      BY DEF TypeOK
    <3>2. outboundRegistry[a] = c /\ c # NoAddress
      BY <1>5, <2>2, <3>1 DEF RegistryInv, RegistryConsistent
    <3>3. outboundRegistry'[a] = c
      BY <1>4, <3>2 DEF RegistryGrows
    <3> QED
      BY <2>2, <3>1, <3>3
  <2> QED
    BY <1>2, <2>1, <2>2
<1>6. ASSUME NEW a \in Accounts, outboundRegistry'[a] # NoAddress
      PROVE  inboundRegistry'[outboundRegistry'[a]] = a
  <2>1. ASSUME NEW i \in new, batch[i].imuachainAddress = a
        PROVE  inboundRegistry'[outboundRegistry'[a]] = a
    BY <1>2, <2>1
  <2>2. CASE outboundRegistry'[a] = outboundRegistry[a]
    <3>1. PICK c \in ClientAddresses : c = outboundRegistry[a]
      BY <1>6, <2>2 DEF TypeOK
    <3>2. inboundRegistry[c] = a /\ a # ZeroAddress
      BY <1>6, <2>2, <3>1 DEF RegistryInv, RegistryConsistent,
         NobodyUnregistered
    <3>3. inboundRegistry'[c] = a
      BY <1>4, <3>2 DEF RegistryGrows
    <3> QED
      BY <2>2, <3>1, <3>3
  <2> QED
    BY <1>2, <2>1, <2>2
<1>7. NobodyUnregistered'
  BY <1>2, <1>3 DEF RegistryInv, NobodyUnregistered, Accounts
<1> QED
  BY <1>2, <1>4, <1>5, <1>6, <1>7 DEF RegistryInv, RegistryConsistent

\* If the registry holds pairs of the file only, and the file binds each of its
\* addresses to one, then all entries of the batch end up registered.
LEMMA BatchIsPaired ==
    ASSUME TypeOK, RegistryInv, NEW batch, Takes(batch), PairsAreBound(batch),
           \A i \in 1 .. Len(batch) :
                \/ Unregistered(batch[i].clientAddress,
                                batch[i].imuachainAddress)
                \/ /\ inboundRegistry[batch[i].clientAddress]
                            = batch[i].imuachainAddress
                   /\ outboundRegistry[batch[i].imuachainAddress]
                            = batch[i].clientAddress
    PROVE  \A i \in 1 .. Len(batch) :
                /\ inboundRegistry'[batch[i].clientAddress]
                        = batch[i].imuachainAddress
                /\ outboundRegistry'[batch[i].imuachainAddress]
                        = batch[i].clientAddress
<1>1. PICK new \in SUBSET DOMAIN batch : RegisterBatch(batch, new)
  BY DEF Takes, BootstrapBatch
<1>2. TAKE i \in 1 .. Len(batch)
<1>3. /\ batch[i].clientAddress \in ClientAddresses
      /\ batch[i].clientAddress # NoAddress
      /\ batch[i].imuachainAddress \in ImAddresses
      /\ batch[i].imuachainAddress \in Accounts
      /\ batch[i].imuachainAddress # ZeroAddress
      /\ i \in DOMAIN batch
  BY BatchEntries DEF Accounts
<1>4. CASE i \in new
  BY <1>1, <1>4, BatchPairs
<1>5. CASE i \notin new /\ Unregistered(batch[i].clientAddress,
                                        batch[i].imuachainAddress)
  <2>1. PICK k \in new : \/ batch[k].clientAddress = batch[i].clientAddress
                         \/ batch[k].imuachainAddress
                                = batch[i].imuachainAddress
    BY <1>1, <1>3, <1>5 DEF RegisterBatch, Registers
  <2>2. /\ batch[k].clientAddress = batch[i].clientAddress
        /\ batch[k].imuachainAddress = batch[i].imuachainAddress
    BY <1>3, <2>1 DEF PairsAreBound
  <2>3. /\ inboundRegistry'[batch[k].clientAddress]
                = batch[k].imuachainAddress
        /\ outboundRegistry'[batch[k].imuachainAddress]
                = batch[k].clientAddress
    BY <1>1, BatchPairs
  <2> QED
    BY <2>2, <2>3
<1>6. CASE ~ Unregistered(batch[i].clientAddress, batch[i].imuachainAddress)
  <2>1. /\ inboundRegistry[batch[i].clientAddress] = batch[i].imuachainAddress
        /\ outboundRegistry[batch[i].imuachainAddress] = batch[i].clientAddress
    BY <1>6
  <2>2. RegistryGrows(batch)
    BY BatchRegistry
  <2> QED
    BY <1>3, <2>1, <2>2 DEF RegistryGrows
<1> QED
  BY <1>4, <1>5, <1>6

------------------------------------------------------------------------------
(* The gateway during the launch: its own steps, and batches that are mined. *)

GatewayInv == /\ TypeOK /\ LedgerOK
              /\ NonceTxBijection
              /\ RegistryInv
              /\ PegOutInv

\* Whoever steps, nonces and registrations are final, and nobody registers
\* without taking a nonce.
GatewayGrows ==
    /\ inboundNonce <= inboundNonce'
    /\ \A tx \in AllTxIds : clientTxIdToNonce[tx] # 0 =>
            clientTxIdToNonce'[tx] = clientTxIdToNonce[tx]
    /\ \A c \in ClientAddresses : inboundRegistry[c] # ZeroAddress =>
            inboundRegistry'[c] = inboundRegistry[c]
    /\ \A a \in Accounts : outboundRegistry[a] # NoAddress =>
            outboundRegistry'[a] = outboundRegistry[a]
    /\ inboundNonce' = inboundNonce => UNCHANGED registryVars

LEMMA OwnStepGrows ==
    ASSUME TypeOK, [Next]_vars
    PROVE  GatewayGrows
<1>1. inboundNonce \in Nat
  BY DEF TypeOK
<1>2. CASE UNCHANGED <<nonceVars, registryVars>>
  BY <1>1, <1>2 DEF GatewayGrows, nonceVars, registryVars
<1>3. ASSUME NEW tx \in AllTxIds, NEW c \in ClientAddresses, NEW a \in Accounts,
             clientTxIdToNonce[tx] = 0, RecordTx(tx), RegisterIfNew(c, a)
      PROVE  GatewayGrows
  <2>1. inboundNonce < inboundNonce'
    BY <1>1, <1>3 DEF RecordTx
  <2>2. \A t \in AllTxIds : clientTxIdToNonce[t] # 0 =>
            clientTxIdToNonce'[t] = clientTxIdToNonce[t]
    BY <1>3 DEF RecordTx, TypeOK
  <2>3. /\ \A d \in ClientAddresses : inboundRegistry[d] # ZeroAddress =>
                inboundRegistry'[d] = inboundRegistry[d]
        /\ \A b \in Accounts : outboundRegistry[b] # NoAddress =>
                outboundRegistry'[b] = outboundRegistry[b]
    <3>1. CASE Unregistered(c, a) /\ RegisterAddress(c, a)
      BY <3>1 DEF Unregistered, RegisterAddress, TypeOK
    <3>2. CASE UNCHANGED registryVars
      BY <3>2 DEF registryVars
    <3> QED
      BY <1>3, <3>1, <3>2 DEF RegisterIfNew
  <2>4. inboundNonce <= inboundNonce' /\ inboundNonce' # inboundNonce
    BY <1>1, <1>3 DEF RecordTx
  <2> QED
    BY <2>2, <2>3, <2>4 DEF GatewayGrows
<1> QED
  BY <1>2, <1>3, QuietSteps, RecordingSteps

LEMMA BatchGrows ==
    ASSUME TypeOK, RegistryInv, NEW batch, Takes(batch)
    PROVE  GatewayGrows
<1>1. inboundNonce \in Nat /\ Len(batch) \in Nat \ {0}
  BY BatchEntries DEF TypeOK
<1>2. inboundNonce' = inboundNonce + Len(batch)
  BY BatchNonces
<1>3. \A tx \in AllTxIds : clientTxIdToNonce[tx] # 0 =>
            clientTxIdToNonce'[tx] = clientTxIdToNonce[tx]
  BY BatchNonces
<1>4. RegistryGrows(batch)
  BY BatchRegistry
<1>5. inboundNonce <= inboundNonce' /\ inboundNonce' # inboundNonce
  BY <1>1, <1>2
<1> QED
  BY <1>3, <1>4, <1>5 DEF GatewayGrows, RegistryGrows

LEMMA BatchKeepsGateway ==
    ASSUME GatewayInv, NEW batch, Takes(batch)
    PROVE  GatewayInv'
<1>1. UNCHANGED <<paused, now, witnessVars, bridgeFeeRate, transactions,
                  pegOutVars, tokenActivated, ledgerVars>>
  BY DEF Takes, BootstrapBatch
<1>2. TypeOK' /\ LedgerOK'
  <2>1. /\ inboundNonce' \in 0 .. MaxNonce
        /\ clientTxIdToNonce' \in [AllTxIds -> 0 .. MaxNonce]
        /\ nonceToClientTxId' \in [Nonces -> AllTxIds]
    BY BatchNonces DEF GatewayInv
  <2>2. /\ inboundRegistry' \in [ClientAddresses -> Accounts]
        /\ outboundRegistry' \in [Accounts -> ClientAddresses \cup {NoAddress}]
    BY BatchRegistry DEF GatewayInv
  <2> QED
    BY <1>1, <2>1, <2>2 DEF GatewayInv, TypeOK, LedgerOK, witnessVars,
       pegOutVars, ledgerVars
<1>3. NonceTxBijection'
  BY BatchBijection DEF GatewayInv
<1>4. RegistryInv' /\ RegistryGrows(batch)
  BY BatchRegistry DEF GatewayInv
<1>5. PegOutQueueIntact'
  BY <1>1 DEF GatewayInv, PegOutInv, PegOutQueueIntact, pegOutVars,
     IsPegoutRequestProcessed
<1>6. PegOutPaysRequester'
  <2> SUFFICES ASSUME NEW n \in 1 .. pegOutNonce
               PROVE  /\ pegOutRequests[n].clientAddress \in ClientAddresses
                      /\ inboundRegistry'[pegOutRequests[n].clientAddress]
                            = pegOutRequests[n].requester
                      /\ outboundRegistry'[pegOutRequests[n].requester]
                            = pegOutRequests[n].clientAddress
    BY <1>1 DEF PegOutPaysRequester, pegOutVars
  <2>1. /\ n \in PegOutNonces /\ n <= pegOutNonce
        /\ pegOutRequests[n] \in PegOutRequest
    BY DEF GatewayInv, TypeOK, PegOutNonces
  <2>2. PICK c \in ClientAddresses, a \in Accounts :
            c = pegOutRequests[n].clientAddress /\ a = pegOutRequests[n].requester
    BY <2>1 DEF GatewayInv, PegOutInv, PegOutPaysRequester, PegOutRequest
  <2>3. /\ inboundRegistry[c] = a /\ a # ZeroAddress
        /\ outboundRegistry[a] = c /\ c # NoAddress
    BY <2>1, <2>2 DEF GatewayInv, PegOutInv, PegOutPaysRequester,
       PegOutQueueIntact
  <2> QED
    BY <1>4, <2>2, <2>3 DEF RegistryGrows
<1> QED
  BY <1>2, <1>3, <1>4, <1>5, <1>6 DEF GatewayInv, PegOutInv

\* A step of the launch is one of the import, or one of the gateway, its users
\* and the scripts of the deployment that the import does not notice.
LEMMA LaunchSteps ==
    ASSUME LaunchNext
    PROVE  \/ [Next]_vars /\ UNCHANGED importVars
           \/ ImportStep
<1>1. CASE LaunchScriptStep
  BY <1>1 DEF LaunchScriptStep, ScriptActivatesBitcoin, ScriptActivatesXrp,
     Next, OwnerStep
<1>2. CASE LaunchEnvironment
  BY <1>2 DEF LaunchEnvironment
<1>3. CASE LaunchStakeStep
  BY <1>3 DEF LaunchStakeStep, Next
<1>4. CASE OwnerActivates
  BY <1>4 DEF OwnerActivates, Next, OwnerStep
<1>5. CASE LaunchGatewayStep
  BY <1>5 DEF LaunchGatewayStep, Next
<1>6. CASE LaunchImportStep
  BY <1>6 DEF LaunchImportStep
<1> QED
  BY <1>1, <1>2, <1>3, <1>4, <1>5, <1>6 DEF LaunchNext

\* Of the import only a transaction that is mined touches the gateway.
LEMMA MinedBatch ==
    ASSUME ImportTypeOK, MineBatch
    PROVE  /\ Len(mempool) \in Nat \ {0}
           /\ Head(mempool) \in Seq(BootstrapEntry)
           /\ Head(mempool) = mempool[1]
           /\ Tail(mempool) \in Seq(Seq(BootstrapEntry))
           /\ Len(Tail(mempool)) = Len(mempool) - 1
           /\ \A i \in 1 .. Len(mempool) - 1 : Tail(mempool)[i] = mempool[i + 1]
           /\ IF MayImport(Head(mempool)) THEN Takes(Head(mempool))
                                          ELSE UNCHANGED vars
<1>1. mempool \in Seq(Seq(BootstrapEntry)) /\ mempool # <<>>
  BY DEF ImportTypeOK, MineBatch
<1>2. /\ Len(mempool) \in Nat \ {0}
      /\ Head(mempool) \in Seq(BootstrapEntry)
      /\ Head(mempool) = mempool[1]
  BY <1>1
<1>3. /\ Tail(mempool) \in Seq(Seq(BootstrapEntry))
      /\ Len(Tail(mempool)) = Len(mempool) - 1
      /\ \A i \in 1 .. Len(mempool) - 1 : Tail(mempool)[i] = mempool[i + 1]
  BY <1>1
<1> QED
  BY <1>2, <1>3 DEF MineBatch, Takes

LEMMA ImportSteps ==
    ASSUME ImportTypeOK, ImportStep
    PROVE  \/ UNCHANGED vars
           \/ Takes(Head(mempool)) /\ MineBatch
<1>1. CASE MineBatch
  BY <1>1, MinedBatch
<1> QED
  BY <1>1 DEF ImportStep, StartImport, ReadInitialNonce, SendBatch, DropBatch,
     VerifyNonce, ImportStops

LEMMA GatewayKept ==
    ASSUME GatewayInv, ImportTypeOK, [LaunchNext]_launchVars
    PROVE  GatewayInv' /\ GatewayGrows
<1>1. CASE [Next]_vars
  <2>1. TypeOK' /\ LedgerOK'
    BY <1>1, TypesPreserved DEF GatewayInv
  <2>2. NonceTxBijection'
    BY <1>1, NoncesPreserved DEF GatewayInv
  <2>3. RegistryInv'
    BY <1>1, RegistryPreserved DEF GatewayInv
  <2>4. PegOutInv'
    BY <1>1, PegOutPreserved DEF GatewayInv
  <2> QED
    BY <1>1, <2>1, <2>2, <2>3, <2>4, OwnStepGrows DEF GatewayInv
<1>2. CASE Takes(Head(mempool))
  BY <1>2, BatchKeepsGateway, BatchGrows DEF GatewayInv
<1>3. CASE UNCHANGED launchVars
  BY <1>1, <1>3 DEF launchVars
<1> QED
  BY <1>1, <1>2, <1>3, LaunchSteps, ImportSteps

------------------------------------------------------------------------------
(* The steps of the import.                                                  *)

LEMMA FileEntries ==
    ASSUME ImportTypeOK, TypeOK
    PROVE  /\ Len(allBootstrapData) \in Nat
           /\ DOMAIN allBootstrapData = 1 .. Len(allBootstrapData)
           /\ \A i \in DOMAIN allBootstrapData :
                /\ allBootstrapData[i] \in BootstrapEntry
                /\ allBootstrapData[i].clientTxId \in AllTxIds
                /\ NonceOf(i) \in Nat
<1>1. /\ allBootstrapData \in Seq(BootstrapEntry)
      /\ Len(allBootstrapData) \in Nat
      /\ DOMAIN allBootstrapData = 1 .. Len(allBootstrapData)
  BY DEF ImportTypeOK
<1>2. ASSUME NEW i \in 1 .. Len(allBootstrapData)
      PROVE  /\ allBootstrapData[i] \in BootstrapEntry
             /\ allBootstrapData[i].clientTxId \in AllTxIds
  <2>1. allBootstrapData[i] \in BootstrapEntry
    BY <1>1
  <2> QED
    BY <2>1 DEF BootstrapEntry
<1> QED
  BY <1>1, <1>2 DEF NonceOf, TypeOK

LEMMA NextBatchFacts ==
    ASSUME ImportTypeOK
    PROVE  /\ NextBatch \in Seq(BootstrapEntry)
           /\ Len(allBootstrapData) \in Nat
           /\ processedEntries + Len(NextBatch) \in 0 .. Len(allBootstrapData)
           /\ Len(NextBatch) \in Nat
           /\ \A i \in 1 .. Len(NextBatch) :
                /\ processedEntries + i \in DOMAIN allBootstrapData
                /\ NextBatch[i] = allBootstrapData[processedEntries + i]
<1>1. /\ allBootstrapData \in Seq(BootstrapEntry)
      /\ Len(allBootstrapData) \in Nat
      /\ DOMAIN allBootstrapData = 1 .. Len(allBootstrapData)
      /\ processedEntries \in 0 .. Len(allBootstrapData)
  BY DEF ImportTypeOK
<1>2. PICK last \in 0 .. Len(allBootstrapData) :
        /\ processedEntries <= last
        /\ NextBatch = SubSeq(allBootstrapData, processedEntries + 1, last)
  <2> DEFINE left == Len(allBootstrapData) - processedEntries
             size == IF left < BatchSize THEN left ELSE BatchSize
  <2>1. size \in Nat /\ size <= left
    BY <1>1
  <2>2. NextBatch
            = SubSeq(allBootstrapData, processedEntries + 1, processedEntries + size)
    BY DEF NextBatch
  <2>3. /\ processedEntries + size \in 0 .. Len(allBootstrapData)
        /\ processedEntries <= processedEntries + size
    BY <1>1, <2>1
  <2> QED
    BY <2>2, <2>3
<1>3. /\ NextBatch \in Seq(BootstrapEntry)
      /\ Len(NextBatch) = last - processedEntries
      /\ \A i \in 1 .. last - processedEntries :
            NextBatch[i] = allBootstrapData[processedEntries + i]
  BY <1>1, <1>2
<1> QED
  BY <1>1, <1>2, <1>3

\* Types and positions, action by action.
LEMMA ImportPositions ==
    ASSUME TypeOK, ImportTypeOK, Positioned, ImportStep
    PROVE  ImportTypeOK' /\ Positioned'
<1> USE DEF ImportTypeOK, Positioned
<1>0. Len(allBootstrapData) \in Nat /\ inboundNonce \in Nat
  BY DEF TypeOK
<1>1. CASE StartImport
  BY <1>0, <1>1 DEF StartImport
<1>2. CASE ReadInitialNonce
  BY <1>0, <1>2 DEF ReadInitialNonce
<1>3. CASE SendBatch
  <2>1. NextBatch' = NextBatch
    BY <1>3 DEF SendBatch, NextBatch
  <2>2. NextBatch \in Seq(BootstrapEntry)
    BY NextBatchFacts
  <2>3. CASE MayImport(NextBatch)
    <3>1. mempool' = Append(mempool, NextBatch) /\ importer' = "wait"
      BY <1>3, <2>3 DEF SendBatch
    <3>2. /\ mempool' \in Seq(Seq(BootstrapEntry))
          /\ mempool' # <<>>
          /\ mempool'[Len(mempool')] = NextBatch
      BY <2>2, <3>1
    <3> QED
      BY <1>3, <2>1, <3>1, <3>2 DEF SendBatch
  <2>4. CASE ~ MayImport(NextBatch)
    BY <1>3, <2>4 DEF SendBatch
  <2> QED
    BY <2>3, <2>4
<1>4. CASE MineBatch
  <2>1. /\ mempool' = Tail(mempool)
        /\ mempool' \in Seq(Seq(BootstrapEntry))
        /\ Len(mempool) \in Nat \ {0}
        /\ Len(mempool') = Len(mempool) - 1
        /\ \A i \in 1 .. Len(mempool) - 1 : mempool'[i] = mempool[i + 1]
        /\ Head(mempool) = mempool[1]
        /\ UNCHANGED <<allBootstrapData, initialNonce>>
    BY <1>4, MinedBatch DEF MineBatch
  <2>2. CASE importer = "wait" /\ Len(mempool) = 1
    <3>1. Head(mempool) = NextBatch
      BY <2>1, <2>2
    <3>2. processedEntries + Len(Head(mempool)) \in 0 .. Len(allBootstrapData)
      BY <3>1, NextBatchFacts
    <3>3. CASE MayImport(Head(mempool))
      <4>1. /\ processedEntries' = processedEntries + Len(Head(mempool))
            /\ importer' = IF processedEntries' = Len(allBootstrapData)
                           THEN "verify" ELSE "estimate"
        BY <1>4, <2>2, <3>3 DEF MineBatch
      <4> QED
        BY <2>1, <3>2, <4>1 DEF AllProcessed
    <3>4. CASE ~ MayImport(Head(mempool))
      BY <1>4, <2>1, <2>2, <3>4 DEF MineBatch
    <3> QED
      BY <3>3, <3>4
  <2>3. CASE ~ (importer = "wait" /\ Len(mempool) = 1)
    <3>1. UNCHANGED <<importer, processedEntries>>
      BY <1>4, <2>3 DEF MineBatch
    <3>2. NextBatch' = NextBatch /\ AllProcessed' = AllProcessed
      BY <2>1, <3>1 DEF NextBatch, AllProcessed
    <3>3. importer = "wait" => /\ mempool' # <<>>
                               /\ mempool'[Len(mempool')] = NextBatch
      <4> SUFFICES ASSUME importer = "wait"
                   PROVE  /\ mempool' # <<>>
                          /\ mempool'[Len(mempool')] = NextBatch
        OBVIOUS
      <4>1. /\ Len(mempool') \in 1 .. Len(mempool) - 1
            /\ Len(mempool') + 1 = Len(mempool)
        BY <2>1, <2>3
      <4>2. mempool'[Len(mempool')] = mempool[Len(mempool)]
        BY <2>1, <4>1
      <4> QED
        BY <4>1, <4>2
    <3> QED
      BY <2>1, <3>1, <3>2, <3>3
  <2> QED
    BY <2>2, <2>3
<1>5. CASE DropBatch
  <2>1. Tail(mempool) \in Seq(Seq(BootstrapEntry))
    BY <1>5 DEF DropBatch
  <2> QED
    BY <1>5, <2>1 DEF DropBatch, AllProcessed
<1>6. CASE VerifyNonce
  BY <1>6 DEF VerifyNonce
<1>7. CASE ImportStops
  BY <1>7 DEF ImportStops
<1> QED
  BY <1>1, <1>2, <1>3, <1>4, <1>5, <1>6, <1>7 DEF ImportStep

\* The transactions that were counted keep their nonces.
LEMMA NoncesStay ==
    ASSUME TypeOK, ImportTypeOK, GatewayGrows, UNCHANGED allBootstrapData,
           NEW i \in DOMAIN allBootstrapData, NonceOf(i) # 0
    PROVE  NonceOf(i)' = NonceOf(i) /\ NonceOf(i) \in Nat
<1>1. allBootstrapData[i].clientTxId \in AllTxIds
  BY FileEntries
<1> QED
  BY <1>1, FileEntries DEF NonceOf, GatewayGrows

\* As long as the script neither starts nor counts nor ends, what others do
\* takes nothing from what it has counted.
LEMMA CountKept ==
    ASSUME TypeOK, TypeOK', ImportInv, GatewayGrows,
           UNCHANGED <<allBootstrapData, initialNonce, processedEntries>>
    PROVE  /\ Importing => CountedEntries'
           /\ importer = "succeeded" => Succeeded'
<1>1. /\ inboundNonce \in Nat /\ inboundNonce' \in Nat
      /\ inboundNonce <= inboundNonce'
      /\ initialNonce \in Nat /\ processedEntries \in Nat
      /\ DOMAIN allBootstrapData = 1 .. Len(allBootstrapData)
      /\ Len(allBootstrapData) \in Nat
      /\ 1 .. processedEntries \subseteq DOMAIN allBootstrapData
  BY DEF TypeOK, GatewayGrows, ImportInv, ImportTypeOK
<1>2. ASSUME Importing
      PROVE  CountedEntries'
  <2>1. initialNonce + processedEntries <= inboundNonce
    BY <1>2 DEF ImportInv, CountedEntries
  <2>2. ASSUME NEW i \in 1 .. processedEntries
        PROVE  /\ initialNonce + i <= NonceOf(i)'
               /\ NonceOf(i)' + (processedEntries - i) <= inboundNonce'
    <3>1. /\ initialNonce + i <= NonceOf(i)
          /\ NonceOf(i) + (processedEntries - i) <= inboundNonce
      BY <1>2 DEF ImportInv, CountedEntries
    <3>2. i \in DOMAIN allBootstrapData /\ i \in Nat \ {0}
      BY <1>1
    <3>3. PICK n : n = NonceOf(i)
      OBVIOUS
    <3>4. n \in Nat
      BY <3>2, <3>3, FileEntries DEF ImportInv
    <3>5. n # 0
      BY <1>1, <3>1, <3>2, <3>3, <3>4
    <3>6. NonceOf(i)' = n
      BY <3>2, <3>3, <3>5, NoncesStay DEF ImportInv
    <3> QED
      BY <1>1, <3>1, <3>2, <3>3, <3>4, <3>6
  <2> QED
    BY <1>1, <2>1, <2>2 DEF CountedEntries
<1>3. ASSUME importer = "succeeded"
      PROVE  Succeeded'
  <2>1. ASSUME NEW i \in DOMAIN allBootstrapData
        PROVE  NonceOf(i)' = initialNonce + i
    <3>1. NonceOf(i) = initialNonce + i
      BY <1>3 DEF ImportInv, Succeeded
    <3>2. NonceOf(i) # 0
      BY <1>1, <3>1
    <3> QED
      BY <3>1, <3>2, NoncesStay DEF ImportInv
  <2> QED
    BY <2>1 DEF Succeeded
<1> QED
  BY <1>2, <1>3

\* A batch of the script that is mined while the script waits for it.
LEMMA CountGrows ==
    ASSUME TypeOK, TypeOK', ImportInv, MineBatch,
           importer = "wait", Len(mempool) = 1, Takes(Head(mempool))
    PROVE  CountedEntries'
<1>1. /\ inboundNonce \in Nat /\ initialNonce \in Nat
      /\ processedEntries \in Nat
      /\ initialNonce + processedEntries <= inboundNonce
  BY DEF TypeOK, ImportInv, ImportTypeOK, CountedEntries, Importing
<1>2. Head(mempool) = NextBatch
  BY MinedBatch DEF ImportInv, Positioned
<1>3. PICK batch : batch = NextBatch
  OBVIOUS
<1>4. /\ Takes(batch)
      /\ Len(batch) \in Nat
      /\ inboundNonce' = inboundNonce + Len(batch)
  BY <1>2, <1>3, BatchNonces, NextBatchFacts DEF ImportInv
<1>5. /\ processedEntries' = processedEntries + Len(batch)
      /\ UNCHANGED <<allBootstrapData, initialNonce>>
  BY <1>2, <1>3, <1>4 DEF MineBatch, Takes
<1>6. /\ processedEntries + Len(batch) <= Len(allBootstrapData)
      /\ Len(allBootstrapData) \in Nat
      /\ DOMAIN allBootstrapData = 1 .. Len(allBootstrapData)
  BY <1>3, NextBatchFacts, FileEntries DEF ImportInv
<1>7. ASSUME NEW i \in 1 .. processedEntries'
      PROVE  /\ initialNonce + i <= NonceOf(i)'
             /\ NonceOf(i)' + (processedEntries' - i) <= inboundNonce'
  <2>1. CASE i \in 1 .. processedEntries
    <3>1. i \in DOMAIN allBootstrapData /\ NonceOf(i) \in Nat
      BY <1>1, <1>5, <1>6, <1>7, FileEntries DEF ImportInv
    <3>2. /\ initialNonce + i <= NonceOf(i)
          /\ NonceOf(i) + (processedEntries - i) <= inboundNonce
      BY <2>1 DEF ImportInv, CountedEntries, Importing
    <3>3. NonceOf(i)' = NonceOf(i)
      <4>1. allBootstrapData[i].clientTxId \in AllTxIds
        BY <3>1, FileEntries DEF ImportInv
      <4>2. clientTxIdToNonce[allBootstrapData[i].clientTxId] # 0
        BY <1>1, <2>1, <3>1, <3>2 DEF NonceOf
      <4>3. clientTxIdToNonce'[allBootstrapData[i].clientTxId]
                = clientTxIdToNonce[allBootstrapData[i].clientTxId]
        BY <1>4, <4>1, <4>2, BatchNonces
      <4> QED
        BY <1>5, <4>3 DEF NonceOf
    <3> QED
      BY <1>1, <1>4, <1>5, <2>1, <3>1, <3>2, <3>3
  <2>2. CASE ~ (i \in 1 .. processedEntries)
    <3>1. PICK k \in 1 .. Len(batch) : i = processedEntries + k
      <4>1. i - processedEntries \in 1 .. Len(batch)
        BY <1>1, <1>4, <1>5, <2>2
      <4>2. i = processedEntries + (i - processedEntries)
        BY <1>1, <1>5
      <4> QED
        BY <4>1, <4>2
    <3>2. batch[k] = allBootstrapData[i]
      BY <1>3, <3>1, NextBatchFacts DEF ImportInv
    <3>3. clientTxIdToNonce'[batch[k].clientTxId] = inboundNonce + k
      BY <1>4, BatchNonces
    <3>4. NonceOf(i)' = inboundNonce + k
      BY <1>5, <3>2, <3>3 DEF NonceOf
    <3>5. /\ k \in Nat /\ k <= Len(batch)
          /\ initialNonce + i <= inboundNonce + k
          /\ inboundNonce + k + ((processedEntries + Len(batch)) - i)
                <= inboundNonce + Len(batch)
      BY <1>1, <1>4, <3>1
    <3>6. processedEntries' - i = (processedEntries + Len(batch)) - i
      BY <1>5
    <3> QED
      BY <1>4, <3>4, <3>5, <3>6
  <2> QED
    BY <2>1, <2>2
<1>8. initialNonce + processedEntries' <= inboundNonce'
  BY <1>1, <1>4, <1>5
<1> QED
  BY <1>5, <1>7, <1>8 DEF CountedEntries

\* The verification finds as many nonces as entries: none was given between
\* two of them, since each has its place at least.
LEMMA CountIsExact ==
    ASSUME TypeOK, ImportInv, VerifyNonce
    PROVE  Succeeded'
<1>1. /\ initialNonce \in Nat /\ inboundNonce \in Nat
      /\ Len(allBootstrapData) \in Nat
      /\ DOMAIN allBootstrapData = 1 .. Len(allBootstrapData)
  BY FileEntries DEF TypeOK, ImportInv, ImportTypeOK
<1>2. /\ processedEntries = Len(allBootstrapData)
      /\ UNCHANGED <<vars, allBootstrapData, initialNonce>>
      /\ importer' = "succeeded" => NonceMatches
  BY DEF VerifyNonce, ImportInv, Positioned, AllProcessed
<1>3. ASSUME importer' = "succeeded", NEW i \in DOMAIN allBootstrapData
      PROVE  NonceOf(i) = initialNonce + i
  <2>1. /\ initialNonce + i <= NonceOf(i)
        /\ NonceOf(i) + (processedEntries - i) <= inboundNonce
    BY <1>1, <1>2 DEF VerifyNonce, ImportInv, CountedEntries, Importing
  <2>2. inboundNonce = initialNonce + Len(allBootstrapData)
    BY <1>2, <1>3 DEF NonceMatches
  <2>3. NonceOf(i) \in Nat
    BY FileEntries DEF ImportInv
  <2> QED
    BY <1>1, <1>2, <2>1, <2>2, <2>3
<1>4. \A i : NonceOf(i)' = NonceOf(i)
  BY <1>2 DEF NonceOf, vars, nonceVars
<1> QED
  BY <1>2, <1>3, <1>4 DEF Succeeded

LEMMA ImportKept ==
    ASSUME GatewayInv, ImportInv, [LaunchNext]_launchVars
    PROVE  ImportInv'
<1>1. TypeOK /\ TypeOK' /\ GatewayGrows
  BY GatewayKept DEF GatewayInv, ImportInv
<1>2. CASE UNCHANGED importVars
  <2>1. UNCHANGED <<allBootstrapData, importer, initialNonce, processedEntries,
                    mempool>>
    BY <1>2 DEF importVars
  <2>2. ImportTypeOK' /\ Positioned'
    BY <2>1 DEF ImportInv, ImportTypeOK, Positioned, NextBatch, AllProcessed
  <2>3. CountedEntries' /\ Succeeded'
    BY <1>1, <2>1, CountKept DEF CountedEntries, Succeeded, Importing
  <2> QED
    BY <2>2, <2>3 DEF ImportInv
<1>3. CASE ImportStep
  <2>1. ImportTypeOK' /\ Positioned'
    BY <1>1, <1>3, ImportPositions DEF ImportInv
  <2> SUFFICES CountedEntries' /\ Succeeded'
    BY <2>1 DEF ImportInv
  <2>2. CASE UNCHANGED <<allBootstrapData, importer, initialNonce,
                         processedEntries>>
    BY <1>1, <2>2, CountKept DEF CountedEntries, Succeeded, Importing
  <2>3. CASE StartImport
    BY <2>3 DEF StartImport, CountedEntries, Succeeded, Importing
  <2>4. CASE ReadInitialNonce
    <3>1. /\ inboundNonce' = inboundNonce /\ initialNonce' = inboundNonce
          /\ processedEntries' = 0 /\ importer' = "estimate"
      BY <2>4 DEF ReadInitialNonce, vars, nonceVars, ImportInv, Positioned
    <3>2. inboundNonce \in Nat
      BY <1>1 DEF TypeOK
    <3> QED
      BY <3>1, <3>2 DEF CountedEntries, Succeeded
  <2>5. CASE SendBatch
    <3>1. Importing /\ importer' # "succeeded"
      BY <2>5 DEF SendBatch, Importing
    <3>2. UNCHANGED <<allBootstrapData, initialNonce, processedEntries>>
      BY <2>5 DEF SendBatch
    <3> QED
      BY <1>1, <3>1, <3>2, CountKept DEF Succeeded
  <2>6. CASE MineBatch /\ importer = "wait" /\ Len(mempool) = 1
    <3>1. importer' # "succeeded"
      BY <2>6 DEF MineBatch
    <3>2. CASE MayImport(Head(mempool))
      BY <1>1, <2>6, <3>1, <3>2, MinedBatch, CountGrows DEF ImportInv, Succeeded
    <3>3. CASE ~ MayImport(Head(mempool))
      BY <2>6, <3>1, <3>3 DEF MineBatch, CountedEntries, Succeeded, Importing
    <3> QED
      BY <3>2, <3>3
  <2>7. CASE VerifyNonce
    <3>1. CountedEntries'
      BY <2>7 DEF VerifyNonce, CountedEntries, Importing
    <3> QED
      BY <1>1, <2>7, <3>1, CountIsExact
  <2>8. CASE ImportStops
    BY <2>8 DEF ImportStops, CountedEntries, Succeeded, Importing
  <2>9. CASE MineBatch /\ ~ (importer = "wait" /\ Len(mempool) = 1)
    BY <2>2, <2>9 DEF MineBatch
  <2>10. CASE DropBatch
    BY <2>2, <2>10 DEF DropBatch
  <2> QED
    BY <1>3, <2>3, <2>4, <2>5, <2>6, <2>7, <2>8, <2>9, <2>10
       DEF ImportStep
<1> QED
  BY <1>2, <1>3, LaunchSteps DEF launchVars

LEMMA ImportInvInitially == LaunchInit => GatewayInv /\ ImportInv
<1> SUFFICES ASSUME LaunchInit
             PROVE  GatewayInv /\ ImportInv
  OBVIOUS
<1>1. GatewayInv
  BY InitTypes, InitNonces, InitRegistry, InitPegOuts DEF LaunchInit, GatewayInv
<1>2. /\ allBootstrapData \in Seq(BootstrapEntry)
      /\ importer = "idle" /\ initialNonce = 0 /\ processedEntries = 0
      /\ mempool = <<>>
  BY DEF LaunchInit, ImportInit
<1>3. ImportTypeOK
  BY <1>2 DEF ImportTypeOK
<1> QED
  BY <1>1, <1>2, <1>3 DEF ImportInv, Positioned, CountedEntries, Succeeded,
     Importing

THEOREM LaunchKeepsImportInv == LaunchSpec => [](GatewayInv /\ ImportInv)
<1>1. GatewayInv /\ ImportInv /\ [LaunchNext]_launchVars
            => (GatewayInv /\ ImportInv)'
  BY GatewayKept, ImportKept DEF ImportInv
<1> QED
  BY <1>1, ImportInvInitially, PTL DEF LaunchSpec

LEMMA SuccessFollows == GatewayInv /\ ImportInv => SuccessIsExact
<1> SUFFICES ASSUME GatewayInv, ImportInv, importer = "succeeded",
                    NEW i \in DOMAIN allBootstrapData
             PROVE  nonceToClientTxId[initialNonce + i]
                        = allBootstrapData[i].clientTxId
  BY DEF SuccessIsExact
<1>1. NonceOf(i) = initialNonce + i
  BY DEF ImportInv, Succeeded
<1>2. /\ initialNonce + i # 0
      /\ allBootstrapData[i].clientTxId \in AllTxIds
  BY FileEntries DEF GatewayInv, ImportInv, ImportTypeOK
<1> QED
  BY <1>1, <1>2 DEF NonceOf, GatewayInv, NonceTxBijection

\* importBootstrapData.ts reports success only if the entries of the file have
\* the nonces that follow the one it found, one by one and nothing between:
\* whatever witnesses and the owner do beside it, whatever batches of earlier
\* runs are mined late, however often it is stopped and started again.
THEOREM ReportedImportsAreExact == LaunchSpec => []SuccessIsExact
  BY LaunchKeepsImportInv, SuccessFollows, PTL

------------------------------------------------------------------------------
(* The registry after an import that found a fresh gateway.                  *)

LEMMA PairStays ==
    ASSUME GatewayInv, GatewayGrows, UNCHANGED allBootstrapData,
           NEW i, IsPaired(i)
    PROVE  IsPaired(i)'
<1>1. PICK c \in ClientAddresses, a \in ImAddresses :
            /\ c = allBootstrapData[i].clientAddress
            /\ a = allBootstrapData[i].imuachainAddress
            /\ inboundRegistry[c] = a
            /\ outboundRegistry[a] = c
  BY DEF IsPaired
<1>2. a \in Accounts /\ a # ZeroAddress /\ c # NoAddress
  BY DEF Accounts
<1>3. inboundRegistry'[c] = a /\ outboundRegistry'[a] = c
  BY <1>1, <1>2 DEF GatewayGrows
<1> QED
  BY <1>1, <1>3 DEF IsPaired

\* Others who take a nonce end what the invariant says, and who takes none
\* registers nothing.
LEMMA PairsKept ==
    ASSUME GatewayInv, GatewayInv', GatewayGrows, ImportInv, PairsInv,
           UNCHANGED <<allBootstrapData, initialNonce, processedEntries>>
    PROVE  /\ Importing => OnlyFilePairs'
           /\ importer = "succeeded" => SucceededFresh'
<1>1. ASSUME Importing
      PROVE  OnlyFilePairs'
  <2> SUFFICES ASSUME initialNonce = 0, inboundNonce' = processedEntries
               PROVE  OnlyFilePairs'
    BY DEF OnlyFilePairs
  <2>1. /\ inboundNonce \in Nat /\ inboundNonce' \in Nat
        /\ processedEntries \in Nat
        /\ processedEntries <= inboundNonce /\ inboundNonce <= inboundNonce'
    BY <1>1 DEF GatewayInv, TypeOK, GatewayGrows, ImportInv, ImportTypeOK,
       CountedEntries
  <2>2. inboundNonce = processedEntries /\ inboundNonce' = inboundNonce
    BY <2>1
  <2>3. UNCHANGED <<inboundRegistry, outboundRegistry>>
    BY <2>2 DEF GatewayGrows, registryVars
  <2> QED
    BY <1>1, <2>2, <2>3 DEF PairsInv, OnlyFilePairs, IsPaired
<1>2. ASSUME importer = "succeeded"
      PROVE  SucceededFresh'
  BY <1>2, PairStays DEF PairsInv, SucceededFresh
<1> QED
  BY <1>1, <1>2

LEMMA NoPairKept ==
    ASSUME GatewayInv, GatewayInv', GatewayGrows, NoNonceNoPair
    PROVE  NoNonceNoPair'
<1>1. /\ inboundNonce \in Nat /\ inboundNonce' \in Nat
      /\ inboundNonce <= inboundNonce'
  BY DEF GatewayInv, TypeOK, GatewayGrows
<1>2. inboundNonce' = 0 => inboundNonce' = inboundNonce
  BY <1>1
<1> QED
  BY <1>2 DEF NoNonceNoPair, GatewayGrows, registryVars

\* Neither address of an entry of the file is registered with another.
LEMMA FileFitsRegistry ==
    ASSUME GatewayInv, ImportInv, PairsInv,
           Importing, initialNonce = 0, inboundNonce = processedEntries,
           NEW i \in DOMAIN allBootstrapData,
           NEW c \in ClientAddresses, NEW a \in ImAddresses,
           c = allBootstrapData[i].clientAddress,
           a = allBootstrapData[i].imuachainAddress
    PROVE  \/ Unregistered(c, a)
           \/ inboundRegistry[c] = a /\ outboundRegistry[a] = c
<1>1. a \in Accounts /\ a # ZeroAddress /\ c # NoAddress
  BY DEF Accounts
<1>2. RegistryConsistent
  BY DEF GatewayInv, RegistryInv
<1>3. \A d \in ClientAddresses : inboundRegistry[d] # ZeroAddress =>
        \E k \in DOMAIN allBootstrapData :
            /\ allBootstrapData[k].clientAddress = d
            /\ allBootstrapData[k].imuachainAddress = inboundRegistry[d]
  BY DEF PairsInv, OnlyFilePairs
<1>4. CASE inboundRegistry[c] # ZeroAddress
  <2>1. inboundRegistry[c] = a
    BY <1>3, <1>4 DEF PairsInv, PairsAreBound
  <2> QED
    BY <1>2, <1>4, <2>1 DEF RegistryConsistent
<1>5. CASE outboundRegistry[a] # NoAddress
  <2>1. PICK d \in ClientAddresses : d = outboundRegistry[a]
    BY <1>1, <1>5 DEF GatewayInv, TypeOK
  <2>2. inboundRegistry[d] = a
    BY <1>1, <1>2, <1>5, <2>1 DEF RegistryConsistent
  <2>3. d = c
    BY <1>1, <1>3, <2>2 DEF PairsInv, PairsAreBound
  <2> QED
    BY <2>1, <2>2, <2>3
<1> QED
  BY <1>4, <1>5 DEF Unregistered

\* The script's own batch, if nobody took a nonce before it.
LEMMA PairsGrow ==
    ASSUME GatewayInv, GatewayInv', GatewayGrows, ImportInv, PairsInv,
           MineBatch, importer = "wait", Len(mempool) = 1, Takes(Head(mempool))
    PROVE  OnlyFilePairs'
<1> SUFFICES ASSUME initialNonce' = 0, inboundNonce' = processedEntries'
             PROVE  OnlyFilePairs'
  BY DEF OnlyFilePairs
<1>1. PICK batch : batch = NextBatch /\ Head(mempool) = batch
  BY MinedBatch DEF ImportInv, Positioned
<1>2. /\ Takes(batch)
      /\ Len(batch) \in Nat
      /\ inboundNonce' = inboundNonce + Len(batch)
      /\ \A k \in 1 .. Len(batch) :
            /\ batch[k] = allBootstrapData[processedEntries + k]
            /\ processedEntries + k \in DOMAIN allBootstrapData
  BY <1>1, BatchNonces, NextBatchFacts DEF GatewayInv, ImportInv
<1>3. /\ processedEntries' = processedEntries + Len(batch)
      /\ UNCHANGED <<allBootstrapData, initialNonce>>
  BY <1>1, <1>2 DEF MineBatch, Takes
<1>4. /\ inboundNonce \in Nat /\ processedEntries \in Nat
      /\ DOMAIN batch = 1 .. Len(batch)
      /\ 1 .. processedEntries' = 1 .. processedEntries + Len(batch)
  <2>1. /\ inboundNonce \in Nat /\ processedEntries \in Nat
        /\ DOMAIN batch = 1 .. Len(batch)
    BY <1>2, BatchEntries DEF GatewayInv, TypeOK, ImportInv, ImportTypeOK
  <2> QED
    BY <1>3, <2>1
<1>5. Importing /\ initialNonce = 0 /\ inboundNonce = processedEntries
  <2>1. PICK n \in Nat : n = Len(batch)
    BY <1>2
  <2>2. inboundNonce + n = processedEntries + n
    BY <1>2, <1>3, <2>1
  <2>3. inboundNonce = processedEntries
    BY <1>4, <2>1, <2>2
  <2>4. Importing
    BY DEF Importing
  <2> QED
    BY <1>3, <2>3, <2>4
<1>6. \A k \in 1 .. Len(batch) :
        /\ batch[k].clientAddress \in ClientAddresses
        /\ batch[k].imuachainAddress \in ImAddresses
  BY <1>2, BatchEntries
<1>7. PairsAreBound(batch)
  BY <1>2, <1>4 DEF PairsInv, PairsAreBound
<1>8. \A k \in 1 .. Len(batch) :
        \/ Unregistered(batch[k].clientAddress, batch[k].imuachainAddress)
        \/ /\ inboundRegistry[batch[k].clientAddress]
                    = batch[k].imuachainAddress
           /\ outboundRegistry[batch[k].imuachainAddress]
                    = batch[k].clientAddress
  BY <1>2, <1>5, <1>6, FileFitsRegistry
<1>9. \A k \in 1 .. Len(batch) :
        /\ inboundRegistry'[batch[k].clientAddress]
                = batch[k].imuachainAddress
        /\ outboundRegistry'[batch[k].imuachainAddress]
                = batch[k].clientAddress
  BY <1>2, <1>7, <1>8, BatchIsPaired DEF GatewayInv
<1>10. ASSUME NEW i \in 1 .. processedEntries'
       PROVE  IsPaired(i)'
  <2>1. CASE i \in 1 .. processedEntries
    BY <1>3, <1>5, <2>1, PairStays DEF PairsInv, OnlyFilePairs
  <2>2. CASE ~ (i \in 1 .. processedEntries)
    <3>1. PICK k \in 1 .. Len(batch) : i = processedEntries + k
      <4>1. i - processedEntries \in 1 .. Len(batch)
        <5>1. i \in 1 .. processedEntries + Len(batch)
          BY <1>4
        <5> QED
          BY <1>2, <1>4, <2>2, <5>1
      <4>2. i = processedEntries + (i - processedEntries)
        BY <1>4
      <4> QED
        BY <4>1, <4>2
    <3> QED
      BY <1>2, <1>3, <1>6, <1>9, <3>1 DEF IsPaired
  <2> QED
    BY <2>1, <2>2
<1>11. ASSUME NEW c \in ClientAddresses, inboundRegistry'[c] # ZeroAddress
       PROVE  \E i \in DOMAIN allBootstrapData :
                /\ allBootstrapData[i].clientAddress = c
                /\ allBootstrapData[i].imuachainAddress = inboundRegistry'[c]
  <2>1. CASE inboundRegistry'[c] = inboundRegistry[c]
    BY <1>5, <1>11, <2>1 DEF PairsInv, OnlyFilePairs
  <2>2. ASSUME NEW k \in 1 .. Len(batch), batch[k].clientAddress = c,
               batch[k].imuachainAddress = inboundRegistry'[c]
        PROVE  \E i \in DOMAIN allBootstrapData :
                /\ allBootstrapData[i].clientAddress = c
                /\ allBootstrapData[i].imuachainAddress = inboundRegistry'[c]
    BY <1>2, <2>2
  <2>3. RegistryGrows(batch)
    BY <1>2, BatchRegistry DEF GatewayInv
  <2> QED
    BY <2>1, <2>2, <2>3 DEF RegistryGrows
<1> QED
  BY <1>3, <1>10, <1>11 DEF OnlyFilePairs

LEMMA PairsPreserved ==
    ASSUME GatewayInv, ImportInv, PairsInv, [LaunchNext]_launchVars
    PROVE  PairsInv'
<1>1. GatewayInv' /\ GatewayGrows
  BY GatewayKept DEF ImportInv
<1>2. UNCHANGED allBootstrapData /\ NoNonceNoPair'
  <2>1. UNCHANGED allBootstrapData
    BY LaunchSteps DEF ImportStep, StartImport, ReadInitialNonce, SendBatch,
       MineBatch, DropBatch, VerifyNonce, ImportStops, importVars, launchVars
  <2> QED
    BY <1>1, <2>1, NoPairKept DEF PairsInv
<1> SUFFICES OnlyFilePairs' /\ SucceededFresh'
  BY <1>2 DEF PairsInv
<1>3. CASE UNCHANGED <<importer, initialNonce, processedEntries>>
  BY <1>1, <1>2, <1>3, PairsKept DEF OnlyFilePairs, SucceededFresh, Importing
<1>4. CASE UNCHANGED importVars
  BY <1>3, <1>4 DEF importVars
<1>5. CASE ImportStep
  <2>1. CASE StartImport \/ ImportStops
    BY <2>1 DEF StartImport, ImportStops, OnlyFilePairs, SucceededFresh,
       Importing
  <2>2. CASE ReadInitialNonce
    <3>1. /\ inboundNonce' = inboundNonce /\ initialNonce' = inboundNonce
          /\ processedEntries' = 0 /\ importer' = "estimate"
          /\ UNCHANGED <<inboundRegistry, outboundRegistry>>
      BY <2>2 DEF ReadInitialNonce, vars, nonceVars, registryVars, ImportInv,
         Positioned
    <3>2. 1 .. processedEntries' = {}
      BY <3>1
    <3> QED
      BY <3>1, <3>2 DEF OnlyFilePairs, SucceededFresh, PairsInv, NoNonceNoPair
  <2>3. CASE SendBatch
    <3>1. Importing /\ importer' # "succeeded"
      BY <2>3 DEF SendBatch, Importing
    <3>2. UNCHANGED <<allBootstrapData, initialNonce, processedEntries>>
      BY <2>3 DEF SendBatch
    <3> QED
      BY <1>1, <3>1, <3>2, PairsKept DEF SucceededFresh
  <2>4. CASE MineBatch /\ importer = "wait" /\ Len(mempool) = 1
    <3>1. importer' # "succeeded"
      BY <2>4 DEF MineBatch
    <3>2. CASE MayImport(Head(mempool))
      BY <1>1, <2>4, <3>1, <3>2, MinedBatch, PairsGrow DEF ImportInv,
         SucceededFresh
    <3>3. CASE ~ MayImport(Head(mempool))
      BY <2>4, <3>1, <3>3 DEF MineBatch, OnlyFilePairs, SucceededFresh,
         Importing
    <3> QED
      BY <3>2, <3>3
  <2>5. CASE VerifyNonce
    <3>1. /\ UNCHANGED <<vars, allBootstrapData, initialNonce, processedEntries>>
          /\ Importing /\ ~ Importing'
          /\ processedEntries = Len(allBootstrapData)
          /\ importer' = "succeeded" => NonceMatches
      BY <2>5 DEF VerifyNonce, ImportInv, Positioned, AllProcessed, Importing
    <3>2. ASSUME importer' = "succeeded", initialNonce = 0,
                 NEW i \in DOMAIN allBootstrapData
          PROVE  IsPaired(i)
      <4>1. /\ inboundNonce = processedEntries
            /\ i \in 1 .. processedEntries
        BY <3>1, <3>2, FileEntries DEF NonceMatches, GatewayInv, ImportInv
      <4> QED
        BY <3>1, <3>2, <4>1 DEF PairsInv, OnlyFilePairs
    <3>3. \A i : IsPaired(i) => IsPaired(i)'
      BY <1>1, <3>1, PairStays
    <3> QED
      BY <3>1, <3>2, <3>3 DEF OnlyFilePairs, SucceededFresh
  <2>6. CASE MineBatch /\ ~ (importer = "wait" /\ Len(mempool) = 1)
    BY <1>3, <2>6 DEF MineBatch
  <2>7. CASE DropBatch
    BY <1>3, <2>7 DEF DropBatch
  <2> QED
    BY <1>5, <2>1, <2>2, <2>3, <2>4, <2>5, <2>6, <2>7 DEF ImportStep
<1> QED
  BY <1>4, <1>5, LaunchSteps DEF launchVars

\* After an import that found a fresh gateway and reports success, each staker
\* of the file has the account that genesis credited, if the file pairs them
\* one to one, as those of the generators do: a stake or an import of others
\* that takes an address of the file takes a nonce too, and the verification
\* finds it (bootstrapInBatches, bootstrapHistoricalData).
THEOREM ImportedStakersAreRegistered ==
    ASSUME \A data \in DataFiles : PairsAreBound(data)
    PROVE  LaunchSpec => []ImportRegistersStakers
<1>1. LaunchInit => PairsInv
  <2> SUFFICES ASSUME LaunchInit PROVE PairsInv
    OBVIOUS
  <2>1. /\ allBootstrapData \in DataFiles /\ importer = "idle"
        /\ \A c \in ClientAddresses : inboundRegistry[c] = ZeroAddress
    BY DEF LaunchInit, ImportInit, Init
  <2> QED
    BY <2>1 DEF PairsInv, NoNonceNoPair, OnlyFilePairs, SucceededFresh,
       Importing
<1>2. GatewayInv /\ ImportInv /\ PairsInv /\ [LaunchNext]_launchVars
            => PairsInv'
  BY PairsPreserved
<1>3. PairsInv => ImportRegistersStakers
  BY DEF PairsInv, SucceededFresh, IsPaired, ImportRegistersStakers
<1> QED
  BY <1>1, <1>2, <1>3, LaunchKeepsImportInv, PTL DEF LaunchSpec

LEMMA LaunchedGateway ==
    GatewayInv => NonceTxBijection /\ RegistryConsistent /\ PegOutPaysRequester
BY DEF GatewayInv, RegistryInv, PegOutInv

\* What UTXOBridge_proofs shows of the gateway holds when its history is
\* imported in batches too, among stakes and withdrawals, from its deployment
\* on: no transaction is credited twice, the registries stay inverse to each
\* other, and peg-outs go to the address whose stakes the requester gets.
THEOREM LaunchedGatewayIsSound ==
    LaunchSpec => [](NonceTxBijection /\ RegistryConsistent /\ PegOutPaysRequester)
  BY LaunchKeepsImportInv, LaunchedGateway, PTL
==============================================================================
