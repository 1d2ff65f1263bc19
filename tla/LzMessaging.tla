----------------------------- MODULE LzMessaging -----------------------------
(***************************************************************************)
(* The two LayerZero paths between a ClientChainGateway and the            *)
(* ImuachainGateway, and the part of both contracts that sends on a path   *)
(* and accepts from it.                                                    *)
(*                                                                         *)
(* A path is the log of every message ever sent on it: the nonce LayerZero *)
(* gives a message is its place in the log, so nothing is removed.  The    *)
(* endpoint and its executor are outside the repository.  They are         *)
(* modelled as weakly as the contracts use them: any message of the log    *)
(* may be presented at any time, again and again and in any order, and a   *)
(* presentation that reverts leaves no trace.  What makes delivery         *)
(* exactly-once and in order is _verifyAndUpdateNonce in the receivers.    *)
(***************************************************************************)
EXTENDS Assets, Sequences

VARIABLES
    toImua,              \* messages sent by the client gateway; nonce = index
    toClient,            \* messages sent by the Imuachain gateway
    imuaInboundNonce,    \* inboundNonce of ImuachainGateway for this path
    clientInboundNonce   \* inboundNonce of ClientChainGateway

------------------------------------------------------------------------------
(* Actions and their attributes.  The actions the gateways never send      *)
(* (rewards, operator association over messages) are left out.             *)

DepositActs == {"REQUEST_DEPOSIT_LST", "REQUEST_DEPOSIT_NST",
                "REQUEST_DEPOSIT_THEN_DELEGATE_TO"}
WithdrawalActs == {"REQUEST_WITHDRAW_LST", "REQUEST_WITHDRAW_NST"}
DelegationActs == {"REQUEST_DELEGATE_TO", "REQUEST_UNDELEGATE_FROM"}
RequestActs == DepositActs \cup WithdrawalActs \cup DelegationActs

IsNST(act) == act \in {"REQUEST_DEPOSIT_NST", "REQUEST_WITHDRAW_NST"}
IsLST(act) == act \in {"REQUEST_DEPOSIT_LST", "REQUEST_WITHDRAW_LST",
                       "REQUEST_DEPOSIT_THEN_DELEGATE_TO"}
IsWithdrawal(act) == act \in WithdrawalActs

\* What the client gateway sends.  Operators are abstracted away: the
\* client gateway forwards them and keeps nothing about them.
Request == [act : RequestActs, staker : Stakers, token : Tokens,
            amount : Nat, instant : BOOLEAN]

\* What the Imuachain gateway sends.
Response == [act : {"RESPOND"}, id : Nat, success : BOOLEAN]
AddWhitelistRequest ==
    [act : {"REQUEST_ADD_WHITELIST_TOKEN"}, token : Tokens, tvl : Nat]
MarkBootstrapRequest == [act : {"REQUEST_MARK_BOOTSTRAP"}]
ClientMessage == Response \cup AddWhitelistRequest \cup MarkBootstrapRequest

------------------------------------------------------------------------------
(* Sending: endpoint.send appends to the path and returns the new nonce.   *)

SendToImua(m) == toImua' = Append(toImua, m)
SendToClient(m) == toClient' = Append(toClient, m)

(* Receiving: OAppReceiver.lzReceive accepts only the peer's messages, and *)
(* _verifyAndUpdateNonce only the one after the last it executed.          *)

\* A receiver that only refuses what it has already passed.
NoReplay(inboundNonce, nonce) == nonce > inboundNonce

IsExpectedNonce(inboundNonce, nonce) == nonce = inboundNonce + 1

VerifyAndUpdateImuaNonce(n) ==
    /\ n \in 1..Len(toImua)
    /\ IsExpectedNonce(imuaInboundNonce, n)
    /\ imuaInboundNonce' = n

VerifyAndUpdateClientNonce(n) ==
    /\ n \in 1..Len(toClient)
    /\ IsExpectedNonce(clientInboundNonce, n)
    /\ clientInboundNonce' = n

LzInit ==
    /\ toImua = << >>
    /\ toClient = << >>
    /\ imuaInboundNonce = 0
    /\ clientInboundNonce = 0

LzTypeOK ==
    /\ toImua \in Seq(Request)
    /\ toClient \in Seq(ClientMessage)
    /\ imuaInboundNonce \in 0..Len(toImua)
    /\ clientInboundNonce \in 0..Len(toClient)
==============================================================================
