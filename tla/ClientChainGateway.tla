-------------------------- MODULE ClientChainGateway --------------------------
(***************************************************************************)
(* The gateway on the client chain (core/ClientChainGateway.sol and the    *)
(* controllers it inherits), after the bootstrap phase.  One action per    *)
(* external function; each is a transaction, so it is atomic and a revert  *)
(* is an action that is not enabled.                                       *)
(***************************************************************************)
EXTENDS LzMessaging, BootstrapStorage

CONSTANTS
    MaxRequests,    \* bound: messages the client gateway sends
    MaxEth          \* bound: ETH that reaches one capsule

VARIABLES
    registeredRequests  \* _registeredRequests and _registeredRequestActions:
                        \* requests that await a response, by their nonce

\* encodedRequest, with the action it is registered under.
CachedRequest ==
    [act : {"REQUEST_WITHDRAW_LST"}, token : LSTs, staker : Stakers,
     amount : Nat]
    \cup [act : {"REQUEST_WITHDRAW_NST"}, token : {NST}, staker : Stakers,
          amount : Nat]

clientVars == <<vaultVars, capsuleVars, beaconVars, clientPaused,
                whitelistedTokens, registeredRequests, toImua,
                clientInboundNonce>>

ClientInit ==
    /\ VaultInit
    /\ tvlLimit \in [LSTs -> TvlLimits]
    /\ CapsuleInit
    /\ clientPaused = FALSE
    /\ whitelistedTokens = GenesisTokens
    /\ registeredRequests = << >>

ClientTypeOK ==
    /\ VaultTypeOK
    /\ CapsuleTypeOK
    /\ clientPaused \in BOOLEAN
    /\ whitelistedTokens \subseteq Tokens
    /\ DOMAIN registeredRequests \subseteq Nat
    /\ \A id \in DOMAIN registeredRequests :
           registeredRequests[id] \in CachedRequest

------------------------------------------------------------------------------
(* _processRequest: send, and register the request under the nonce the     *)
(* endpoint returns if it expects a response.                              *)

Message(act, s, t, amount, instant) ==
    [act |-> act, staker |-> s, token |-> t, amount |-> amount,
     instant |-> instant]

SendMsgToImuachain(m) ==
    /\ Len(toImua) < MaxRequests
    /\ SendToImua(m)

ProcessRequest(m) ==
    /\ SendMsgToImuachain(m)
    /\ UNCHANGED registeredRequests

RequestNonce == Len(toImua) + 1

\* Registering under the previous nonce, the one before endpoint.send.
RegisterStale(m) ==
    /\ SendMsgToImuachain(m)
    /\ registeredRequests' =
           [id \in DOMAIN registeredRequests \cup {Len(toImua)} |->
               IF id = Len(toImua)
               THEN [act |-> m.act, token |-> m.token, staker |-> m.staker,
                     amount |-> m.amount]
               ELSE registeredRequests[id]]

ProcessRequestWithResponse(m) ==
    /\ SendMsgToImuachain(m)
    /\ registeredRequests' =
           [id \in DOMAIN registeredRequests \cup {RequestNonce} |->
               IF id = RequestNonce
               THEN [act |-> m.act, token |-> m.token, staker |-> m.staker,
                     amount |-> m.amount]
               ELSE registeredRequests[id]]

------------------------------------------------------------------------------
(* LSTRestakingController.  An LST has a vault as soon as it is            *)
(* whitelisted, so _getVault fails only for NST.                           *)

DepositInVault(act, s, t, amount) ==
    /\ ~ clientPaused
    /\ t \in whitelistedTokens
    /\ VaultDeposit(t, s, amount)
    /\ ProcessRequest(Message(act, s, t, amount, FALSE))
    /\ UNCHANGED <<capsuleVars, beaconVars, clientPaused, whitelistedTokens,
                   clientInboundNonce>>

Deposit(s, t, amount) == DepositInVault("REQUEST_DEPOSIT_LST", s, t, amount)

DepositThenDelegateTo(s, t, amount) ==
    DepositInVault("REQUEST_DEPOSIT_THEN_DELEGATE_TO", s, t, amount)

\* No balance is checked here: Imuachain decides.
ClaimPrincipalFromImuachain(s, t, amount) ==
    /\ ~ clientPaused
    /\ t \in whitelistedTokens
    /\ ProcessRequestWithResponse(
           Message("REQUEST_WITHDRAW_LST", s, t, amount, FALSE))
    /\ UNCHANGED <<vaultVars, capsuleVars, beaconVars, clientPaused,
                   whitelistedTokens, clientInboundNonce>>

------------------------------------------------------------------------------
(* BaseRestakingController.                                                *)

Delegation(act, s, t, amount, instant) ==
    /\ ~ clientPaused
    /\ t \in whitelistedTokens
    /\ ProcessRequest(Message(act, s, t, amount, instant))
    /\ UNCHANGED <<vaultVars, capsuleVars, beaconVars, clientPaused,
                   whitelistedTokens, clientInboundNonce>>

DelegateTo(s, t, amount) ==
    Delegation("REQUEST_DELEGATE_TO", s, t, amount, FALSE)

UndelegateFrom(s, t, amount, instant) ==
    Delegation("REQUEST_UNDELEGATE_FROM", s, t, amount, instant)

WithdrawLSTPrincipal(s, t, amount) ==
    /\ ~ clientPaused
    /\ t \in whitelistedTokens
    /\ VaultWithdraw(t, s, amount)
    /\ UNCHANGED <<capsuleVars, beaconVars, clientPaused, whitelistedTokens,
                   registeredRequests, toImua, clientInboundNonce>>

WithdrawNSTPrincipal(s, amount) ==
    /\ ~ clientPaused
    /\ NST \in whitelistedTokens
    /\ s \in ownerToCapsule
    /\ CapsuleWithdraw(s, amount)
    /\ UNCHANGED <<vaultVars, ownerToCapsule, isPectra, registeredValidators,
                   inClaimProgress, lastClaimTimestamp, beaconVars,
                   clientPaused, whitelistedTokens, registeredRequests, toImua,
                   clientInboundNonce>>

------------------------------------------------------------------------------
(* NativeRestakingController.                                              *)

CreateImuaCapsule(s) ==
    /\ NativeRestakingEnabled
    /\ CreateCapsule(s)
    /\ UNCHANGED <<vaultVars, registeredValidators, inClaimProgress,
                   withdrawableBalance, lastClaimTimestamp, ethBalance,
                   beaconVars, clientPaused, whitelistedTokens,
                   registeredRequests, toImua, clientInboundNonce>>

\* stake creates the capsule if there is none and funds the validator; the
\* first deposit for a validator fixes its withdrawal credentials.
Stake(s, v) ==
    /\ NativeRestakingEnabled
    /\ IF s \in ownerToCapsule THEN UNCHANGED <<ownerToCapsule, isPectra>>
                               ELSE CreateCapsule(s)
    /\ credentials' = IF credentials[v] = NoOne
                      THEN [credentials EXCEPT ![v] = s] ELSE credentials
    /\ UNCHANGED <<vaultVars, registeredValidators, inClaimProgress,
                   withdrawableBalance, lastClaimTimestamp, ethBalance, now,
                   clientPaused, whitelistedTokens, registeredRequests, toImua,
                   clientInboundNonce>>

VerifyAndDepositNativeStake(s, v, proofTime, effectiveBalance) ==
    /\ NativeRestakingEnabled
    /\ s \in ownerToCapsule
    /\ VerifyDepositProof(s, v, proofTime)
    /\ ProcessRequest(Message("REQUEST_DEPOSIT_NST", s, NST,
                              DepositAmount(effectiveBalance), FALSE))
    /\ UNCHANGED <<vaultVars, ownerToCapsule, isPectra, inClaimProgress,
                   withdrawableBalance, lastClaimTimestamp, ethBalance,
                   beaconVars, clientPaused, whitelistedTokens,
                   clientInboundNonce>>

\* The amount may be 0: there is no isValidAmount here.
ClaimNSTFromImuachain(s, amount) ==
    /\ NativeRestakingEnabled
    /\ s \in ownerToCapsule
    /\ StartClaimNST(s, amount)
    /\ ProcessRequestWithResponse(
           Message("REQUEST_WITHDRAW_NST", s, NST, amount, FALSE))
    /\ UNCHANGED <<vaultVars, ownerToCapsule, isPectra, registeredValidators,
                   withdrawableBalance, lastClaimTimestamp, ethBalance,
                   beaconVars, clientPaused, whitelistedTokens,
                   clientInboundNonce>>

\* requestBeaconPartialWithdrawal and requestBeaconFullWithdrawal differ only
\* in the amount the precompile is given.
RequestBeaconWithdrawal(s, v, value, fee) ==
    /\ NativeRestakingEnabled
    /\ s \in ownerToCapsule
    /\ ethBalance[s] + value <= MaxEth
    /\ CallBeaconWithdrawalPrecompile(s, v, value, fee)
    /\ UNCHANGED <<vaultVars, ownerToCapsule, isPectra, registeredValidators,
                   inClaimProgress, lastClaimTimestamp, beaconVars,
                   clientPaused, whitelistedTokens, registeredRequests, toImua,
                   clientInboundNonce>>

------------------------------------------------------------------------------
(* ClientChainGateway: the owner's functions.                              *)

UpdateTvlLimit(t, limit) ==
    /\ ~ clientPaused
    /\ t \in whitelistedTokens \ {NST}
    /\ VaultSetTvlLimit(t, limit)
    /\ UNCHANGED <<capsuleVars, beaconVars, clientPaused, whitelistedTokens,
                   registeredRequests, toImua, clientInboundNonce>>

SetClientPaused(paused) ==
    /\ clientPaused # paused
    /\ paused => "client" \in MayPause
    /\ clientPaused' = paused
    /\ UNCHANGED <<vaultVars, capsuleVars, beaconVars, whitelistedTokens,
                   registeredRequests, toImua, clientInboundNonce>>

ClientPause == SetClientPaused(TRUE)
ClientUnpause == SetClientPaused(FALSE)

------------------------------------------------------------------------------
(* ClientGatewayLzReceiver.                                                *)

\* The response ends the claim of a staker only when it grants it.
EndClaimIfGranted(s, amount, success) ==
    IF success
    THEN EndClaimNST(s) /\ UnlockETHPrincipal(s, amount)
    ELSE UNCHANGED <<inClaimProgress, withdrawableBalance, lastClaimTimestamp>>

HandleNSTResponse(s, amount, success) ==
    /\ EndClaimNST(s)
    /\ IF success THEN UnlockETHPrincipal(s, amount)
                  ELSE UNCHANGED <<withdrawableBalance, lastClaimTimestamp>>

DeleteRegistered(id) ==
    registeredRequests' =
        [i \in DOMAIN registeredRequests \ {id} |-> registeredRequests[i]]

\* _handleResponse reverts for a nonce that is not registered.
HandleResponse(response) ==
    LET req == registeredRequests[response.id]
    IN  /\ response.id \in DOMAIN registeredRequests
        /\ \/ /\ IsNST(req.act)
              /\ HandleNSTResponse(req.staker, req.amount, response.success)
              /\ UNCHANGED vaultVars
           \/ /\ IsLST(req.act)
              /\ IF response.success
                 THEN VaultUnlockPrincipal(req.token, req.staker, req.amount)
                 ELSE UNCHANGED vaultVars
              /\ UNCHANGED <<inClaimProgress, withdrawableBalance,
                             lastClaimTimestamp>>
        /\ DeleteRegistered(response.id)
        /\ UNCHANGED whitelistedTokens

\* afterReceiveAddWhitelistTokenRequest, with the vault it deploys.
AfterReceiveAddWhitelistTokenRequest(token, tvl) ==
    /\ token \notin whitelistedTokens
    /\ whitelistedTokens' = whitelistedTokens \cup {token}
    /\ tvlLimit' = IF token = NST THEN tvlLimit
                                  ELSE [tvlLimit EXCEPT ![token] = tvl]
    /\ UNCHANGED <<withdrawableBalances, totalDepositedPrincipalAmount,
                   totalUnlockPrincipalAmount, consumedTvl, inClaimProgress,
                   withdrawableBalance, lastClaimTimestamp, registeredRequests>>

\* The gateway is bootstrapped already: the call only consumes its nonce.
AfterReceiveMarkBootstrapRequest ==
    UNCHANGED <<vaultVars, inClaimProgress, withdrawableBalance,
                lastClaimTimestamp, registeredRequests, whitelistedTokens>>

ClientLzReceive(n) ==
    /\ ~ clientPaused
    /\ VerifyAndUpdateClientNonce(n)
    /\ \/ /\ toClient[n].act = "RESPOND"
          /\ HandleResponse(toClient[n])
       \/ /\ toClient[n].act = "REQUEST_ADD_WHITELIST_TOKEN"
          /\ AfterReceiveAddWhitelistTokenRequest(toClient[n].token,
                                                  toClient[n].tvl)
       \/ /\ toClient[n].act = "REQUEST_MARK_BOOTSTRAP"
          /\ AfterReceiveMarkBootstrapRequest
    /\ UNCHANGED <<ownerToCapsule, isPectra, registeredValidators, ethBalance,
                   beaconVars, clientPaused, toImua>>

------------------------------------------------------------------------------
(* The beacon chain and time.                                              *)

\* ETH reaches a capsule when the beacon chain pays a withdrawal or a reward.
BeaconPayout(s, amount) ==
    /\ s \in ownerToCapsule
    /\ ethBalance[s] + amount <= MaxEth
    /\ ethBalance' = [ethBalance EXCEPT ![s] = @ + amount]
    /\ UNCHANGED <<vaultVars, ownerToCapsule, isPectra, registeredValidators,
                   inClaimProgress, withdrawableBalance, lastClaimTimestamp,
                   beaconVars, clientPaused, whitelistedTokens,
                   registeredRequests, toImua, clientInboundNonce>>

Tick ==
    /\ now < MaxTime
    /\ now' = now + 1
    /\ UNCHANGED <<vaultVars, capsuleVars, credentials, clientPaused,
                   whitelistedTokens, registeredRequests, toImua,
                   clientInboundNonce>>

------------------------------------------------------------------------------
LstRequest ==
    \E s \in Stakers, t \in LSTs, amount \in Amounts :
        \/ Deposit(s, t, amount)
        \/ DepositThenDelegateTo(s, t, amount)
        \/ ClaimPrincipalFromImuachain(s, t, amount)

DelegationRequest ==
    \E s \in Stakers, t \in Tokens, amount \in Amounts :
        \/ DelegateTo(s, t, amount)
        \/ \E instant \in BOOLEAN : UndelegateFrom(s, t, amount, instant)

NativeRestaking ==
    \E s \in Stakers :
        \/ CreateImuaCapsule(s)
        \/ \E v \in Validators : Stake(s, v)
        \/ \E v \in Validators, time \in 0..now, balance \in Amounts :
               VerifyAndDepositNativeStake(s, v, time, balance)
        \/ \E amount \in Amounts \cup {0} : ClaimNSTFromImuachain(s, amount)
        \/ \E v \in Validators, value, fee \in Amounts :
               RequestBeaconWithdrawal(s, v, value, fee)

PrincipalWithdrawal ==
    \E s \in Stakers, amount \in Amounts :
        \/ \E t \in LSTs : WithdrawLSTPrincipal(s, t, amount)
        \/ WithdrawNSTPrincipal(s, amount)

ClientOwner ==
    \/ \E t \in LSTs, limit \in TvlLimits : UpdateTvlLimit(t, limit)
    \/ ClientPause
    \/ ClientUnpause

ClientDelivery == \E n \in 1..Len(toClient) : ClientLzReceive(n)

BeaconChain ==
    \/ \E s \in Stakers, amount \in Amounts : BeaconPayout(s, amount)
    \/ Tick

ClientStep ==
    \/ LstRequest
    \/ DelegationRequest
    \/ NativeRestaking
    \/ PrincipalWithdrawal
    \/ ClientOwner
    \/ ClientDelivery
    \/ BeaconChain
==============================================================================
