----------------------------- MODULE ImuaCapsule -----------------------------
(***************************************************************************)
(* The capsules of the client chain (core/ImuaCapsule.sol), one per staker *)
(* that restakes natively, and what the beacon chain does to them.  As in  *)
(* Vault, each operator is one external function called by the gateway.    *)
(* Amounts are in one unit: the 32/2048 ETH limits are constants, and the  *)
(* conversion of the beacon chain's gwei to wei keeps values.              *)
(***************************************************************************)
EXTENDS Assets

CONSTANTS
    Validators,             \* beacon chain validators
    NoOne,                  \* credentials of a validator nobody has funded
    MinClaimInterval,       \* MIN_CLAIM_INTERVAL, 10 minutes in the code
    ProofWindow,            \* VERIFY_BALANCE_UPDATE_WINDOW_SECONDS, 4.5 hours
    PectraForkTime,         \* NetworkConstants.getPectraHardForkTimestamp
    MaxEffectiveBalance     \* AFTER_PECTRA_MAX_EFFECTIVE_BALANCE, 2048 ETH

ASSUME NoOneAssumption == NoOne \notin Stakers
ASSUME CapsuleConstantsAssumption ==
    /\ MinClaimInterval \in Nat
    /\ ProofWindow \in Nat
    /\ PectraForkTime \in Nat
    /\ MaxEffectiveBalance \in Nat

VARIABLES
    ownerToCapsule,       \* stakers for whom a capsule exists
    isPectra,             \* stakers whose capsule was created after the fork
    registeredValidators, \* [staker] validators registered in the capsule
    inClaimProgress,      \* [staker] an NST claim awaits its response
    withdrawableBalance,  \* [staker] unlocked ETH, not withdrawn
    lastClaimTimestamp,   \* [staker] time of the last successful claim
    ethBalance,           \* [staker] address(capsule).balance
    credentials,          \* beacon chain: [validator] owner of its capsule
    now                   \* block.timestamp

capsuleVars == <<ownerToCapsule, isPectra, registeredValidators, inClaimProgress,
                 withdrawableBalance, lastClaimTimestamp, ethBalance>>
beaconVars == <<credentials, now>>

CapsuleInit ==
    /\ ownerToCapsule = {}
    /\ isPectra = {}
    /\ registeredValidators = [s \in Stakers |-> {}]
    /\ inClaimProgress = [s \in Stakers |-> FALSE]
    /\ withdrawableBalance = [s \in Stakers |-> 0]
    /\ lastClaimTimestamp = [s \in Stakers |-> 0]
    /\ ethBalance = [s \in Stakers |-> 0]
    /\ credentials = [v \in Validators |-> NoOne]
    \* No claim is too early in the first block: timestamps are far from 0.
    /\ now = MinClaimInterval

CapsuleTypeOK ==
    /\ ownerToCapsule \subseteq Stakers
    /\ isPectra \subseteq ownerToCapsule
    /\ registeredValidators \in [Stakers -> SUBSET Validators]
    /\ inClaimProgress \in [Stakers -> BOOLEAN]
    /\ withdrawableBalance \in [Stakers -> Nat]
    /\ lastClaimTimestamp \in [Stakers -> Nat]
    /\ ethBalance \in [Stakers -> Nat]
    /\ credentials \in [Validators -> Stakers \cup {NoOne}]
    /\ now \in Nat

------------------------------------------------------------------------------
(* Functions that leave only some capsule variables changed name them; the *)
(* gateway's handler leaves the rest unchanged.                            *)

\* initialize, by createImuaCapsule: the mode is fixed at creation.
CreateCapsule(s) ==
    /\ s \notin ownerToCapsule
    /\ ownerToCapsule' = ownerToCapsule \cup {s}
    /\ isPectra' = IF now >= PectraForkTime THEN isPectra \cup {s} ELSE isPectra

IsStaleProof(proofTime) == proofTime + ProofWindow < now

\* verifyDepositProof that does not look at the withdrawal credentials.
VerifyAnyCredentials(s, v, proofTime) ==
    /\ v \notin registeredValidators[s]
    /\ ~ IsStaleProof(proofTime)
    /\ registeredValidators' = [registeredValidators EXCEPT ![s] = @ \cup {v}]

\* verifyDepositProof, given that the Merkle proofs of the container verify
\* against the root of the beacon block at proofTime.
VerifyDepositProof(s, v, proofTime) ==
    /\ v \notin registeredValidators[s]
    /\ ~ IsStaleProof(proofTime)
    /\ credentials[v] = s
    /\ registeredValidators' = [registeredValidators EXCEPT ![s] = @ \cup {v}]

DepositAmount(effectiveBalance) ==
    IF effectiveBalance > MaxEffectiveBalance THEN MaxEffectiveBalance
                                              ELSE effectiveBalance

\* startClaimNST that compares the claim with the whole balance.
StartClaimAgainstBalance(s, amount) ==
    /\ ~ inClaimProgress[s]
    /\ amount <= ethBalance[s]
    /\ now >= lastClaimTimestamp[s] + MinClaimInterval
    /\ inClaimProgress' = [inClaimProgress EXCEPT ![s] = TRUE]
\* startClaimNST that lets claims overlap.
StartOverlappingClaim(s, amount) ==
    /\ amount <= ethBalance[s] - withdrawableBalance[s]
    /\ now >= lastClaimTimestamp[s] + MinClaimInterval
    /\ inClaimProgress' = [inClaimProgress EXCEPT ![s] = TRUE]

\* The subtraction reverts if it underflows: withdrawableBalance may not
\* exceed the balance.  CapsuleSolvent says it never does.
StartClaimNST(s, amount) ==
    /\ ~ inClaimProgress[s]
    /\ withdrawableBalance[s] + amount <= ethBalance[s]
    /\ now >= lastClaimTimestamp[s] + MinClaimInterval
    /\ inClaimProgress' = [inClaimProgress EXCEPT ![s] = TRUE]

EndClaimNST(s) == inClaimProgress' = [inClaimProgress EXCEPT ![s] = FALSE]

UnlockETHPrincipal(s, amount) ==
    /\ withdrawableBalance' = [withdrawableBalance EXCEPT ![s] = @ + amount]
    /\ lastClaimTimestamp' = [lastClaimTimestamp EXCEPT ![s] = now]

\* withdraw: _sendETH reverts if the capsule cannot pay.
CapsuleWithdraw(s, amount) ==
    /\ amount > 0
    /\ amount <= withdrawableBalance[s]
    /\ amount <= ethBalance[s]
    /\ withdrawableBalance' = [withdrawableBalance EXCEPT ![s] = @ - amount]
    /\ ethBalance' = [ethBalance EXCEPT ![s] = @ - amount]

\* requestPartialWithdrawal and requestFullWithdrawal: the current fee goes
\* to the precompile, and what the caller sent above it becomes withdrawable.
\* A precompile that refuses reverts everything.
CallBeaconWithdrawalPrecompile(s, v, value, fee) ==
    /\ s \in isPectra
    /\ v \in registeredValidators[s]
    /\ value >= fee
    /\ withdrawableBalance' =
           [withdrawableBalance EXCEPT ![s] = @ + (value - fee)]
    /\ ethBalance' = [ethBalance EXCEPT ![s] = @ + (value - fee)]
==============================================================================
