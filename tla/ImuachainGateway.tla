--------------------------- MODULE ImuachainGateway ---------------------------
(***************************************************************************)
(* The gateway on Imuachain (core/ImuachainGateway.sol) as one client      *)
(* chain sees it, with the ledger behind the ASSETS and DELEGATION         *)
(* precompiles.  The ledger is not in the repository: it is modelled by    *)
(* what the gateway relies on.  A deposit succeeds exactly for registered  *)
(* tokens, a withdrawal or a delegation may be refused for reasons of its  *)
(* own but is never granted beyond what is free, and operators may be      *)
(* slashed at any time.                                                    *)
(***************************************************************************)
EXTENDS LzMessaging

CONSTANTS
    MaxOwnerMessages,  \* bound: when the owner stops sending messages
    MaxFunds,          \* bound: fees the gateway holds
    MaxNST             \* bound: native stake one staker earns

VARIABLES
    imuaPaused,        \* OpenZeppelin Pausable
    funds,             \* native balance of the gateway, in response fees
    registeredTokens,  \* ASSETS: tokens of the client chain
    freeBalance,       \* ASSETS: [staker][token] neither delegated nor unbonding
    delegatedAmount,   \* DELEGATION: [staker][token]
    unbondingAmount,   \* DELEGATION: [staker][token] undelegated, not matured
    slashedAmount      \* DELEGATION: [staker][token] lost to slashing so far

ledgerVars == <<freeBalance, delegatedAmount, unbondingAmount, slashedAmount>>
imuaVars == <<imuaPaused, funds, registeredTokens, ledgerVars, toClient,
              imuaInboundNonce>>

NoPosition == [s \in Stakers |-> [t \in Tokens |-> 0]]

ImuaInit ==
    /\ imuaPaused = FALSE
    /\ funds = 0
    /\ registeredTokens = GenesisTokens
    /\ freeBalance = NoPosition
    /\ delegatedAmount = NoPosition
    /\ unbondingAmount = NoPosition
    /\ slashedAmount = NoPosition

ImuaTypeOK ==
    /\ imuaPaused \in BOOLEAN
    /\ funds \in Nat
    /\ registeredTokens \subseteq Tokens
    /\ freeBalance \in [Stakers -> [Tokens -> Nat]]
    /\ delegatedAmount \in [Stakers -> [Tokens -> Nat]]
    /\ unbondingAmount \in [Stakers -> [Tokens -> Nat]]
    /\ slashedAmount \in [Stakers -> [Tokens -> Nat]]

------------------------------------------------------------------------------
(* The precompiles.                                                        *)

\* depositLST and depositNST.
LedgerDeposit(s, t, amount) ==
    /\ t \in registeredTokens
    /\ freeBalance' = [freeBalance EXCEPT ![s][t] = @ + amount]

\* withdrawLST and withdrawNST.
LedgerWithdraw(s, t, amount, success) ==
    IF success
    THEN /\ amount <= freeBalance[s][t]
         /\ freeBalance' = [freeBalance EXCEPT ![s][t] = @ - amount]
    ELSE UNCHANGED freeBalance

\* delegate, from a free balance that a deposit in the same call may just
\* have increased.
LedgerDelegate(s, t, amount, deposited, accepted) ==
    IF accepted
    THEN /\ amount <= freeBalance[s][t] + deposited
         /\ freeBalance' =
                [freeBalance EXCEPT ![s][t] = (@ + deposited) - amount]
         /\ delegatedAmount' = [delegatedAmount EXCEPT ![s][t] = @ + amount]
    ELSE /\ freeBalance' = [freeBalance EXCEPT ![s][t] = @ + deposited]
         /\ UNCHANGED delegatedAmount

LedgerUndelegate(s, t, amount, instant, accepted) ==
    IF accepted
    THEN /\ amount <= delegatedAmount[s][t]
         /\ delegatedAmount' = [delegatedAmount EXCEPT ![s][t] = @ - amount]
         /\ IF instant
            THEN /\ freeBalance' = [freeBalance EXCEPT ![s][t] = @ + amount]
                 /\ UNCHANGED unbondingAmount
            ELSE /\ unbondingAmount' =
                        [unbondingAmount EXCEPT ![s][t] = @ + amount]
                 /\ UNCHANGED freeBalance
    ELSE UNCHANGED <<freeBalance, delegatedAmount, unbondingAmount>>

------------------------------------------------------------------------------
(* The handlers _lzReceive calls.  A response is sent if and only if the   *)
(* request was a withdrawal, whatever its outcome.                         *)

\* A gateway that reports every withdrawal as granted.
RespondAlwaysGranted(n, success) ==
    /\ funds > 0
    /\ funds' = funds - 1
    /\ SendToClient([act |-> "RESPOND", id |-> n, success |-> TRUE])

\* _sendInterchainMsg(RESPOND, payByApp): the gateway pays the fee from its
\* own balance, and the whole receive reverts if it cannot.
Respond(n, success) ==
    /\ funds > 0
    /\ funds' = funds - 1
    /\ SendToClient([act |-> "RESPOND", id |-> n, success |-> success])

NoResponse == UNCHANGED <<funds, toClient>>

HandleDeposit(m) ==
    /\ m.act \in {"REQUEST_DEPOSIT_LST", "REQUEST_DEPOSIT_NST"}
    /\ LedgerDeposit(m.staker, m.token, m.amount)
    /\ UNCHANGED <<delegatedAmount, unbondingAmount>>
    /\ NoResponse

\* A withdrawal that is answered only when it is granted.
AnswerOnlyGranted(n, m, success) ==
    /\ IsWithdrawal(m.act)
    /\ LedgerWithdraw(m.staker, m.token, m.amount, success)
    /\ UNCHANGED <<delegatedAmount, unbondingAmount>>
    /\ IF success THEN Respond(n, success) ELSE NoResponse

\* A refused withdrawal that reverts, as a refused deposit does.
RevertRefused(n, m, success) ==
    /\ IsWithdrawal(m.act)
    /\ success
    /\ LedgerWithdraw(m.staker, m.token, m.amount, success)
    /\ UNCHANGED <<delegatedAmount, unbondingAmount>>
    /\ Respond(n, success)

HandleWithdrawal(n, m, success) ==
    /\ IsWithdrawal(m.act)
    /\ LedgerWithdraw(m.staker, m.token, m.amount, success)
    /\ UNCHANGED <<delegatedAmount, unbondingAmount>>
    /\ Respond(n, success)

\* Acceptance is only logged.
HandleDelegation(m, accepted) ==
    /\ \/ /\ m.act = "REQUEST_DELEGATE_TO"
          /\ LedgerDelegate(m.staker, m.token, m.amount, 0, accepted)
          /\ UNCHANGED unbondingAmount
       \/ /\ m.act = "REQUEST_UNDELEGATE_FROM"
          /\ LedgerUndelegate(m.staker, m.token, m.amount, m.instant, accepted)
    /\ NoResponse

\* The deposit must succeed; the delegation of what it brought may fail.
HandleDepositAndDelegate(m, accepted) ==
    /\ m.act = "REQUEST_DEPOSIT_THEN_DELEGATE_TO"
    /\ m.token \in registeredTokens
    /\ LedgerDelegate(m.staker, m.token, m.amount, m.amount, accepted)
    /\ UNCHANGED unbondingAmount
    /\ NoResponse

ImuaLzReceive(n) ==
    /\ ~ imuaPaused
    /\ VerifyAndUpdateImuaNonce(n)
    /\ \/ HandleDeposit(toImua[n])
       \/ \E outcome \in BOOLEAN :
              \/ HandleWithdrawal(n, toImua[n], outcome)
              \/ HandleDelegation(toImua[n], outcome)
              \/ HandleDepositAndDelegate(toImua[n], outcome)
    /\ UNCHANGED <<slashedAmount, imuaPaused, registeredTokens>>

------------------------------------------------------------------------------
(* The owner of the gateway, and anyone who marks the bootstrap or funds.  *)

\* registerToken refuses a token that is registered already.
AddWhitelistToken(t, tvl) ==
    /\ ~ imuaPaused
    /\ Len(toClient) < MaxOwnerMessages
    /\ t \notin registeredTokens
    /\ registeredTokens' = registeredTokens \cup {t}
    /\ SendToClient([act |-> "REQUEST_ADD_WHITELIST_TOKEN", token |-> t,
                     tvl |-> tvl])
    /\ UNCHANGED <<imuaPaused, funds, ledgerVars, imuaInboundNonce>>

\* Not tracked, so that it can be retried: any number may be sent.
MarkBootstrap ==
    /\ ~ imuaPaused
    /\ Len(toClient) < MaxOwnerMessages
    /\ SendToClient([act |-> "REQUEST_MARK_BOOTSTRAP"])
    /\ UNCHANGED <<imuaPaused, funds, registeredTokens, ledgerVars,
                   imuaInboundNonce>>

SetImuaPaused(paused) ==
    /\ imuaPaused # paused
    /\ paused => "imua" \in MayPause
    /\ imuaPaused' = paused
    /\ UNCHANGED <<funds, registeredTokens, ledgerVars, toClient,
                   imuaInboundNonce>>

ImuaPause == SetImuaPaused(TRUE)
ImuaUnpause == SetImuaPaused(FALSE)

\* receive(): the gateway is topped up.
Fund ==
    /\ funds < MaxFunds
    /\ funds' = funds + 1
    /\ UNCHANGED <<imuaPaused, registeredTokens, ledgerVars, toClient,
                   imuaInboundNonce>>

------------------------------------------------------------------------------
(* What the chain does to the ledger by itself.                            *)

Slash(s, t, amount) ==
    /\ amount <= delegatedAmount[s][t]
    /\ delegatedAmount' = [delegatedAmount EXCEPT ![s][t] = @ - amount]
    /\ slashedAmount' = [slashedAmount EXCEPT ![s][t] = @ + amount]
    /\ UNCHANGED <<freeBalance, unbondingAmount, imuaPaused, funds,
                   registeredTokens, toClient, imuaInboundNonce>>

CompleteUnbonding(s, t) ==
    /\ unbondingAmount[s][t] > 0
    /\ freeBalance' =
           [freeBalance EXCEPT ![s][t] = @ + unbondingAmount[s][t]]
    /\ unbondingAmount' = [unbondingAmount EXCEPT ![s][t] = 0]
    /\ UNCHANGED <<delegatedAmount, slashedAmount, imuaPaused, funds,
                   registeredTokens, toClient, imuaInboundNonce>>

\* The beacon chain rewards a native restaker; the oracle reports it.
NativeReward(s, amount) ==
    /\ NST \in registeredTokens
    /\ freeBalance[s][NST] + amount <= MaxNST
    /\ freeBalance' = [freeBalance EXCEPT ![s][NST] = @ + amount]
    /\ UNCHANGED <<delegatedAmount, unbondingAmount, slashedAmount, imuaPaused,
                   funds, registeredTokens, toClient, imuaInboundNonce>>

------------------------------------------------------------------------------
ImuaDelivery == \E n \in 1..Len(toImua) : ImuaLzReceive(n)

ImuaOwner ==
    \/ \E t \in Tokens, tvl \in TvlLimits : AddWhitelistToken(t, tvl)
    \/ MarkBootstrap
    \/ ImuaPause
    \/ ImuaUnpause
    \/ Fund

Ledger ==
    \/ \E s \in Stakers, t \in Tokens, amount \in Amounts : Slash(s, t, amount)
    \/ \E s \in Stakers, t \in Tokens : CompleteUnbonding(s, t)
    \/ \E s \in Stakers, amount \in Amounts : NativeReward(s, amount)

ImuaStep ==
    \/ ImuaDelivery
    \/ ImuaOwner
    \/ Ledger
==============================================================================
