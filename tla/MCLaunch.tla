------------------------------- MODULE MCLaunch -------------------------------
(***************************************************************************)
(* Instances of UTXOLaunch for TLC.  Three families of behaviours: every   *)
(* interruption and repetition of the scripts that deploy; one deployment, *)
(* and the import of a file among the stakes, imports and withdrawals of   *)
(* others; and one deployment, and the proofs of witnesses that come and   *)
(* go.                                                                     *)
(***************************************************************************)
EXTENDS MCUTXO, UTXOLaunch

CONSTANTS tx3

Entry(c, a, tx) ==
    [clientAddress |-> c, imuachainAddress |-> a, clientTxId |-> tx]

\* One staker, two stakers, and a file that fails the validation.
MCDataFiles ==
    {<<>>,
     <<Entry(bc1a, alice, tx1), Entry(bc1b, bob, tx2), Entry(bc1a, alice, tx3)>>,
     <<Entry(bc1a, alice, tx1), Entry(bc1a, alice, tx2)>>,
     <<Entry(NoAddress, alice, tx1)>>}

\* Messages about the transactions of the file and others, with every pairing
\* of a client address with an account.
LaunchMsgs == {Sign(n, tx, c, a, "NONE", 1) :
    n \in Nonces, tx \in {tx1, tx2}, c \in ClientAddresses, a \in ImAddresses}
    \cup {Sign(n, tx1, c, ZeroAddress, "NONE", 1) :
             n \in 1..2, c \in ClientAddresses}
LaunchEntries == {Entry(bc1b, alice, tx3), Entry(bc1a, bob, ZeroTxId),
                  Entry(NoAddress, bob, tx3), Entry(bc1b, ZeroAddress, tx3)}

VARIABLE family
mcVars == <<launchVars, family>>

\* One witness and a threshold of two, where no family is about witnesses.
MCInit ==
    /\ LaunchInit
    /\ \/ /\ family = "deployment"
          /\ allBootstrapData = <<>>
       \/ /\ family = "import"
          /\ allBootstrapData # <<>> /\ authority /\ deployedContracts = NoContracts
       \/ /\ family = "quorum"
          /\ allBootstrapData = <<>> /\ authority /\ deployedContracts = NoContracts
          /\ ~create3
    /\ family # "quorum" => authorizedWitnessCount = 1 /\ requiredProofs = 2

OneDeployment ==
    /\ deployRuns' <= 1
    /\ step' \notin {"failed", "stopped"}
    /\ deployedContracts'.imuachainGateway = NoContract
    /\ authorizedGateways' = authorizedGateways \/ step = "authorize"

\* The scripts alone.
DeploymentFamily ==
    LaunchScriptStep \/ LaunchEnvironment \/ (Deployed /\ OwnerActivates)

\* Accounts keep what they are credited or withdraw it, and payments are left
\* out.
ImportFamily ==
    /\ OneDeployment
    /\ step = "done" \/ UNCHANGED <<nonceVars, importer>>
    /\ ledgerVars' # ledgerVars => <<inboundNonce, pegOutNonce>>'
                                        # <<inboundNonce, pegOutNonce>>
    /\ UNCHANGED <<outboundNonce, pegOutTxIds, witnessVars, now>>

\* Two messages compete for the first nonce while witnesses join, leave and
\* rejoin, the threshold moves, on both sides of the number of witnesses, and
\* windows expire.
WitnessNext ==
    /\ step = "done"
    /\ \/ \E proofs \in RequiredProofs : UpdateRequiredProofs(proofs)
       \/ \E added \in SUBSET Witnesses : AddWitnesses(added)
       \/ \E removed \in SUBSET Witnesses : RemoveWitnesses(removed)
       \/ \E w \in Witnesses, m \in QuorumMsgs, accepted \in BOOLEAN :
              \/ SubmitProofForStakeMsg(w, m, accepted)
              \/ ProcessStakeMessage(w, m, accepted)
       \/ Tick
    /\ UNCHANGED <<importVars, deployVars>>

QuorumFamily ==
    /\ \/ StartDeployment /\ UNCHANGED <<vars, importVars>>
       \/ LaunchScriptStep
       \/ WitnessNext
    /\ OneDeployment

\* Every step is one of LaunchNext.
MCNext ==
    /\ \/ family = "deployment" /\ DeploymentFamily
       \/ family = "import" /\ LaunchNext /\ ImportFamily
       \/ family = "quorum" /\ QuorumFamily
    /\ UNCHANGED family

MCSpec == MCInit /\ [][MCNext]_mcVars
==============================================================================
