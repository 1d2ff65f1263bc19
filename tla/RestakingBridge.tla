--------------------------- MODULE RestakingBridge ---------------------------
(***************************************************************************)
(* The restaking bridge: one ClientChainGateway with its vaults and        *)
(* capsules, and the ImuachainGateway, joined by the two LayerZero paths.  *)
(* Each gateway owns its outbound path and its inbound nonce; it only      *)
(* reads the path the other one writes.                                    *)
(***************************************************************************)
EXTENDS ClientChainGateway, ImuachainGateway

vars == <<clientVars, imuaVars>>

Init == LzInit /\ ClientInit /\ ImuaInit

Client == ClientStep /\ UNCHANGED imuaVars
Imua == ImuaStep /\ UNCHANGED clientVars

Next == Client \/ Imua

Spec == Init /\ [][Next]_vars

(***************************************************************************)
(* Fairness.  LayerZero's executor presents a message until it is          *)
(* executed, however often the receiver is paused in between: strong       *)
(* fairness of the two deliveries.  That the owners do not leave a gateway *)
(* paused for ever, and that the gateway that pays for responses is topped *)
(* up when it runs dry, are duties of the operators, not of the code.      *)
(***************************************************************************)
Delivery ==
    /\ SF_vars(ClientDelivery /\ UNCHANGED imuaVars)
    /\ SF_vars(ImuaDelivery /\ UNCHANGED clientVars)

OperatorDuties ==
    /\ WF_vars(ClientUnpause /\ UNCHANGED imuaVars)
    /\ WF_vars(ImuaUnpause /\ UNCHANGED clientVars)
    /\ WF_vars(Fund /\ UNCHANGED clientVars)

FairSpec == Spec /\ Delivery /\ OperatorDuties

------------------------------------------------------------------------------
\* Every variable of both contracts and of the paths has its type, and
\* neither contract has executed a message that was never sent.
TypeOK == LzTypeOK /\ ClientTypeOK /\ ImuaTypeOK

\* The responses the client gateway has not executed yet.
PendingResponses ==
    {n \in 1..Len(toClient) :
        n > clientInboundNonce /\ toClient[n].act = "RESPOND"}

\* Every response on its way answers a request the client gateway still has
\* in its registry: _handleResponse never reverts with UnexpectedResponse,
\* which would block the path for ever since nonces are executed in order.
ResponsesAreExpected ==
    \A n \in PendingResponses : toClient[n].id \in DOMAIN registeredRequests

\* A registered request is in exactly one place: on its way to Imuachain,
\* or answered by exactly one response on its way back.
RegisteredInOnePlace ==
    \A id \in DOMAIN registeredRequests :
        LET answers == {n \in PendingResponses : toClient[n].id = id}
        IN  IF id > imuaInboundNonce THEN answers = {}
            ELSE \E n \in answers : answers = {n}

\* What the registry caches under a nonce is what was sent under it, so a
\* response unlocks the amount that Imuachain debited, for the same staker.
CachedIsSent ==
    \A id \in DOMAIN registeredRequests :
        /\ id \in 1..Len(toImua)
        /\ registeredRequests[id].act = toImua[id].act
        /\ registeredRequests[id].token = toImua[id].token
        /\ registeredRequests[id].staker = toImua[id].staker
        /\ registeredRequests[id].amount = toImua[id].amount

\* Why responses and requests stay paired: every withdrawal on its way is
\* registered, every response on its way is for a registered request that was
\* executed, no two are for the same, and none is missing.
UndeliveredAreRegistered ==
    \A id \in 1..Len(toImua) :
        id > imuaInboundNonce /\ IsWithdrawal(toImua[id].act)
            => id \in DOMAIN registeredRequests

AnswersAreDue ==
    \A n \in PendingResponses :
        /\ toClient[n].id \in DOMAIN registeredRequests
        /\ toClient[n].id <= imuaInboundNonce

AnswersAreUnique ==
    \A m, n \in PendingResponses : toClient[m].id = toClient[n].id => m = n

ExecutedAreAnswered ==
    \A id \in DOMAIN registeredRequests :
        id <= imuaInboundNonce =>
            \E n \in PendingResponses : toClient[n].id = id

\* Registered requests and responses on their way are paired, over both chains
\* and whatever overlaps: no response finds its request missing, changed or
\* answered before, and no request goes without one.
RegistryInv ==
    /\ CachedIsSent
    /\ UndeliveredAreRegistered
    /\ AnswersAreDue
    /\ AnswersAreUnique
    /\ ExecutedAreAnswered

ClaimsOf(s) ==
    {id \in DOMAIN registeredRequests :
        /\ registeredRequests[id].act = "REQUEST_WITHDRAW_NST"
        /\ registeredRequests[id].staker = s}

\* The flag of a capsule is up exactly while one, and only one, NST claim of
\* its owner is outstanding: a claim is never lost with the flag left up
\* (which would lock the staker out), nor doubled.
ClaimFlagIsExact ==
    \A s \in Stakers :
        IF inClaimProgress[s] THEN \E id \in ClaimsOf(s) : ClaimsOf(s) = {id}
                              ELSE ClaimsOf(s) = {}

\* A capsule always holds the ETH it has unlocked plus the ETH an
\* outstanding claim may yet unlock, although the balance is checked long
\* before the unlock and the owner may withdraw in between.
CapsuleSolvent ==
    \A s \in Stakers :
        /\ withdrawableBalance[s] <= ethBalance[s]
        /\ \A id \in ClaimsOf(s) :
               withdrawableBalance[s] + registeredRequests[id].amount
                   <= ethBalance[s]

\* While a claim is outstanding the last successful one is MIN_CLAIM_INTERVAL
\* old: claims granted to a capsule are never closer than the interval.
ClaimsAreSpaced ==
    \A s \in Stakers : \A id \in ClaimsOf(s) :
        now >= lastClaimTimestamp[s] + MinClaimInterval

\* A deposit on its way is for a token Imuachain knows, so the handlers never
\* revert with DepositRequestShouldNotFail and block the path.
DepositsAreAccepted ==
    \A id \in 1..Len(toImua) :
        id > imuaInboundNonce => toImua[id].token \in registeredTokens

\* A token on its way to the whitelist is not on it: the client gateway never
\* reverts with ClientChainGatewayAlreadyWhitelisted and blocks the path.
TokensAreNew ==
    \A n \in 1..Len(toClient) :
        (n > clientInboundNonce
            /\ toClient[n].act = "REQUEST_ADD_WHITELIST_TOKEN")
        => toClient[n].token \notin whitelistedTokens

\* Every request a client awaits an answer for is eventually answered.
ClaimsAreAnswered ==
    \A id \in 1..MaxRequests :
        id \in DOMAIN registeredRequests ~> id \notin DOMAIN registeredRequests

\* Every message sent to Imuachain is eventually executed there.
RequestsAreExecuted ==
    \A id \in 1..MaxRequests :
        Len(toImua) >= id ~> imuaInboundNonce >= id
==============================================================================
