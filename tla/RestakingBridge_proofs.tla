------------------------ MODULE RestakingBridge_proofs ------------------------
(***************************************************************************)
(* Theorems about RestakingBridge, for every value of its constants.       *)
(***************************************************************************)
EXTENDS RestakingBridge, SequenceTheorems, TLAPS

USE AmountsAssumption, TvlLimitsAssumption, GenesisTokensAssumption,
    NSTAssumption, NoOneAssumption, CapsuleConstantsAssumption

------------------------------------------------------------------------------
(* Types.  One lemma per operator that several handlers share.             *)

\* The message constructor of the client gateway builds requests.
LEMMA MessageType ==
    ASSUME NEW act \in RequestActs, NEW s \in Stakers, NEW t \in Tokens,
           NEW amount \in Nat, NEW instant \in BOOLEAN
    PROVE  Message(act, s, t, amount, instant) \in Request
BY DEF Message, Request

\* Sending extends the path and leaves what is on it alone.
LEMMA SendToImuaType ==
    ASSUME toImua \in Seq(Request), imuaInboundNonce \in 0..Len(toImua),
           NEW m \in Request, SendToImua(m)
    PROVE  /\ toImua' \in Seq(Request)
           /\ Len(toImua') = Len(toImua) + 1
           /\ imuaInboundNonce \in 0..Len(toImua')
           /\ \A i \in 1..Len(toImua) : toImua'[i] = toImua[i]
           /\ toImua'[Len(toImua) + 1] = m
BY DEF SendToImua

LEMMA SendToClientType ==
    ASSUME toClient \in Seq(ClientMessage),
           clientInboundNonce \in 0..Len(toClient),
           NEW m \in ClientMessage, SendToClient(m)
    PROVE  /\ toClient' \in Seq(ClientMessage)
           /\ Len(toClient') = Len(toClient) + 1
           /\ clientInboundNonce \in 0..Len(toClient')
           /\ \A i \in 1..Len(toClient) : toClient'[i] = toClient[i]
           /\ toClient'[Len(toClient) + 1] = m
BY DEF SendToClient

\* A vault operation keeps the types of the vaults.
LEMMA VaultOperationType ==
    ASSUME VaultTypeOK, NEW t \in LSTs, NEW s \in Stakers, NEW amount \in Nat
    PROVE  /\ VaultDeposit(t, s, amount) => VaultTypeOK'
           /\ VaultUnlockPrincipal(t, s, amount) => VaultTypeOK'
           /\ VaultWithdraw(t, s, amount) => VaultTypeOK'
           /\ VaultSetTvlLimit(t, amount) => VaultTypeOK'
<1>1. VaultDeposit(t, s, amount) => VaultTypeOK'
  BY DEF VaultTypeOK, VaultDeposit
<1>2. VaultUnlockPrincipal(t, s, amount) => VaultTypeOK'
  BY DEF VaultTypeOK, VaultUnlockPrincipal
<1>3. ASSUME VaultWithdraw(t, s, amount)
      PROVE  VaultTypeOK'
  <2>1. withdrawableBalances[t][s] - amount \in Nat
    BY <1>3 DEF VaultTypeOK, VaultWithdraw
  <2>2. consumedTvl[t] - amount \in Nat
    BY <1>3 DEF VaultTypeOK, VaultWithdraw
  <2> QED
    BY <1>3, <2>1, <2>2 DEF VaultTypeOK, VaultWithdraw
<1>4. VaultSetTvlLimit(t, amount) => VaultTypeOK'
  BY DEF VaultTypeOK, VaultSetTvlLimit
<1> QED
  BY <1>1, <1>2, <1>3, <1>4

\* What the sending helpers of the client gateway keep.
LEMMA ProcessRequestType ==
    ASSUME LzTypeOK, ClientTypeOK, NEW m \in Request, ProcessRequest(m)
    PROVE  /\ toImua' \in Seq(Request)
           /\ imuaInboundNonce \in 0..Len(toImua')
           /\ registeredRequests' = registeredRequests
<1> SendToImua(m)
  BY DEF ProcessRequest, SendMsgToImuachain
<1> QED
  BY SendToImuaType DEF LzTypeOK, ProcessRequest

LEMMA ProcessRequestWithResponseType ==
    ASSUME LzTypeOK, ClientTypeOK, NEW m \in Request,
           \/ m.act = "REQUEST_WITHDRAW_LST" /\ m.token \in LSTs
           \/ m.act = "REQUEST_WITHDRAW_NST" /\ m.token = NST,
           ProcessRequestWithResponse(m)
    PROVE  /\ toImua' \in Seq(Request)
           /\ imuaInboundNonce \in 0..Len(toImua')
           /\ DOMAIN registeredRequests' \subseteq Nat
           /\ \A id \in DOMAIN registeredRequests' :
                  registeredRequests'[id] \in CachedRequest
<1> SendToImua(m)
  BY DEF ProcessRequestWithResponse, SendMsgToImuachain
<1>1. /\ toImua' \in Seq(Request)
      /\ imuaInboundNonce \in 0..Len(toImua')
  BY SendToImuaType DEF LzTypeOK
<1>2. [act |-> m.act, token |-> m.token, staker |-> m.staker,
       amount |-> m.amount] \in CachedRequest
  BY DEF Request, CachedRequest
<1>3. RequestNonce \in Nat
  BY DEF RequestNonce, LzTypeOK
<1> QED
  BY <1>1, <1>2, <1>3 DEF ProcessRequestWithResponse, ClientTypeOK

------------------------------------------------------------------------------
(* Every step of the client gateway keeps TypeOK.                          *)

\* Deposits, claims and delegations of LST principal.
LEMMA LstRequestType ==
    ASSUME LzTypeOK, ClientTypeOK, LstRequest \/ DelegationRequest,
           UNCHANGED imuaVars
    PROVE  LzTypeOK' /\ ClientTypeOK'
<1> USE DEF imuaVars
<1>1. ASSUME NEW act \in {"REQUEST_DEPOSIT_LST",
                          "REQUEST_DEPOSIT_THEN_DELEGATE_TO"},
             NEW s \in Stakers, NEW t \in LSTs, NEW amount \in Amounts,
             DepositInVault(act, s, t, amount)
      PROVE  LzTypeOK' /\ ClientTypeOK'
  <2>1. Message(act, s, t, amount, FALSE) \in Request
    BY MessageType DEF RequestActs, DepositActs, Tokens
  <2>2. VaultTypeOK'
    BY <1>1, VaultOperationType DEF DepositInVault, ClientTypeOK
  <2>3. CapsuleTypeOK'
    BY <1>1 DEF DepositInVault, ClientTypeOK, CapsuleTypeOK, capsuleVars,
                beaconVars
  <2> QED
    BY <1>1, <2>1, <2>2, <2>3, ProcessRequestType
    DEF DepositInVault, LzTypeOK, ClientTypeOK
<1>2. ASSUME NEW s \in Stakers, NEW t \in LSTs, NEW amount \in Amounts,
             ClaimPrincipalFromImuachain(s, t, amount)
      PROVE  LzTypeOK' /\ ClientTypeOK'
  <2> DEFINE m == Message("REQUEST_WITHDRAW_LST", s, t, amount, FALSE)
  <2>1. m \in Request /\ m.act = "REQUEST_WITHDRAW_LST" /\ m.token \in LSTs
    BY MessageType DEF RequestActs, WithdrawalActs, Tokens, Message
  <2>2. VaultTypeOK' /\ CapsuleTypeOK'
    BY <1>2 DEF ClaimPrincipalFromImuachain, ClientTypeOK, VaultTypeOK,
                CapsuleTypeOK, vaultVars, capsuleVars, beaconVars
  <2>3. ProcessRequestWithResponse(m)
    BY <1>2 DEF ClaimPrincipalFromImuachain
  <2> HIDE DEF m
  <2> QED
    BY <1>2, <2>1, <2>2, <2>3, ProcessRequestWithResponseType
    DEF ClaimPrincipalFromImuachain, LzTypeOK, ClientTypeOK
<1>3. ASSUME NEW act \in DelegationActs, NEW s \in Stakers, NEW t \in Tokens,
             NEW amount \in Amounts, NEW instant \in BOOLEAN,
             Delegation(act, s, t, amount, instant)
      PROVE  LzTypeOK' /\ ClientTypeOK'
  <2>1. Message(act, s, t, amount, instant) \in Request
    BY MessageType DEF RequestActs
  <2>2. VaultTypeOK' /\ CapsuleTypeOK'
    BY <1>3 DEF Delegation, ClientTypeOK, VaultTypeOK, CapsuleTypeOK,
                vaultVars, capsuleVars, beaconVars
  <2> QED
    BY <1>3, <2>1, <2>2, ProcessRequestType
    DEF Delegation, LzTypeOK, ClientTypeOK
<1> QED
  BY <1>1, <1>2, <1>3
  DEF LstRequest, DelegationRequest, Deposit, DepositThenDelegateTo,
      DelegateTo, UndelegateFrom, DelegationActs

\* The steps of native restaking.
LEMMA NativeRestakingType ==
    ASSUME LzTypeOK, ClientTypeOK, NativeRestaking, UNCHANGED imuaVars
    PROVE  LzTypeOK' /\ ClientTypeOK'
<1> USE DEF imuaVars
<1>1. ASSUME NEW s \in Stakers, CreateImuaCapsule(s)
      PROVE  LzTypeOK' /\ ClientTypeOK'
  <2>1. CapsuleTypeOK'
    BY <1>1 DEF CreateImuaCapsule, CreateCapsule, ClientTypeOK, CapsuleTypeOK,
                beaconVars
  <2> QED
    BY <1>1, <2>1 DEF CreateImuaCapsule, LzTypeOK, ClientTypeOK, VaultTypeOK,
                      vaultVars
<1>2. ASSUME NEW s \in Stakers, NEW v \in Validators, Stake(s, v)
      PROVE  LzTypeOK' /\ ClientTypeOK'
  <2>1. CapsuleTypeOK'
    BY <1>2 DEF Stake, CreateCapsule, ClientTypeOK, CapsuleTypeOK
  <2> QED
    BY <1>2, <2>1 DEF Stake, LzTypeOK, ClientTypeOK, VaultTypeOK, vaultVars
<1>3. ASSUME NEW s \in Stakers, NEW v \in Validators, NEW time \in 0..now,
             NEW balance \in Amounts,
             VerifyAndDepositNativeStake(s, v, time, balance)
      PROVE  LzTypeOK' /\ ClientTypeOK'
  <2> DEFINE m == Message("REQUEST_DEPOSIT_NST", s, NST,
                          DepositAmount(balance), FALSE)
  <2>1. m \in Request
    BY MessageType DEF RequestActs, DepositActs, Tokens, DepositAmount
  <2>2. CapsuleTypeOK'
    BY <1>3 DEF VerifyAndDepositNativeStake, VerifyDepositProof, ClientTypeOK,
                CapsuleTypeOK, beaconVars
  <2>3. ProcessRequest(m)
    BY <1>3 DEF VerifyAndDepositNativeStake
  <2> HIDE DEF m
  <2> QED
    BY <1>3, <2>1, <2>2, <2>3, ProcessRequestType
    DEF VerifyAndDepositNativeStake, LzTypeOK, ClientTypeOK, VaultTypeOK,
        vaultVars
<1>4. ASSUME NEW s \in Stakers, NEW amount \in Amounts \cup {0},
             ClaimNSTFromImuachain(s, amount)
      PROVE  LzTypeOK' /\ ClientTypeOK'
  <2> DEFINE m == Message("REQUEST_WITHDRAW_NST", s, NST, amount, FALSE)
  <2>1. m \in Request /\ m.act = "REQUEST_WITHDRAW_NST" /\ m.token = NST
    BY MessageType DEF RequestActs, WithdrawalActs, Tokens, Message
  <2>2. CapsuleTypeOK'
    BY <1>4 DEF ClaimNSTFromImuachain, StartClaimNST, ClientTypeOK,
                CapsuleTypeOK, beaconVars
  <2>3. ProcessRequestWithResponse(m)
    BY <1>4 DEF ClaimNSTFromImuachain
  <2> HIDE DEF m
  <2> QED
    BY <1>4, <2>1, <2>2, <2>3, ProcessRequestWithResponseType
    DEF ClaimNSTFromImuachain, LzTypeOK, ClientTypeOK, VaultTypeOK, vaultVars
<1>5. ASSUME NEW s \in Stakers, NEW v \in Validators, NEW value \in Amounts,
             NEW fee \in Amounts, RequestBeaconWithdrawal(s, v, value, fee)
      PROVE  LzTypeOK' /\ ClientTypeOK'
  <2> value \in Nat /\ fee \in Nat
    OBVIOUS
  <2>1. value - fee \in Nat
    BY <1>5 DEF RequestBeaconWithdrawal, CallBeaconWithdrawalPrecompile
  <2>2. CapsuleTypeOK'
    BY <1>5, <2>1 DEF RequestBeaconWithdrawal, CallBeaconWithdrawalPrecompile,
                      ClientTypeOK, CapsuleTypeOK, beaconVars
  <2> QED
    BY <1>5, <2>2 DEF RequestBeaconWithdrawal, LzTypeOK, ClientTypeOK,
                      VaultTypeOK, vaultVars
<1> QED
  BY <1>1, <1>2, <1>3, <1>4, <1>5 DEF NativeRestaking

\* Withdrawals, the owner's functions, the beacon chain and time: nothing of
\* the two paths is touched.
LEMMA OtherClientType ==
    ASSUME LzTypeOK, ClientTypeOK,
           PrincipalWithdrawal \/ ClientOwner \/ BeaconChain,
           UNCHANGED imuaVars
    PROVE  LzTypeOK' /\ ClientTypeOK'
<1> USE DEF imuaVars
<1>1. ASSUME NEW s \in Stakers, NEW t \in LSTs, NEW amount \in Amounts,
             WithdrawLSTPrincipal(s, t, amount)
      PROVE  LzTypeOK' /\ ClientTypeOK'
  <2>1. VaultTypeOK'
    BY <1>1, VaultOperationType DEF WithdrawLSTPrincipal, ClientTypeOK
  <2> QED
    BY <1>1, <2>1 DEF WithdrawLSTPrincipal, LzTypeOK, ClientTypeOK,
                      CapsuleTypeOK, capsuleVars, beaconVars
<1>2. ASSUME NEW s \in Stakers, NEW amount \in Amounts,
             WithdrawNSTPrincipal(s, amount)
      PROVE  LzTypeOK' /\ ClientTypeOK'
  <2>1. CapsuleTypeOK'
    BY <1>2 DEF WithdrawNSTPrincipal, CapsuleWithdraw, ClientTypeOK,
                CapsuleTypeOK, beaconVars
  <2> QED
    BY <1>2, <2>1 DEF WithdrawNSTPrincipal, LzTypeOK, ClientTypeOK,
                      VaultTypeOK, vaultVars
<1>3. ASSUME NEW t \in LSTs, NEW limit \in TvlLimits, UpdateTvlLimit(t, limit)
      PROVE  LzTypeOK' /\ ClientTypeOK'
  <2>1. VaultTypeOK'
    BY <1>3 DEF UpdateTvlLimit, VaultSetTvlLimit, ClientTypeOK, VaultTypeOK
  <2> QED
    BY <1>3, <2>1 DEF UpdateTvlLimit, LzTypeOK, ClientTypeOK, CapsuleTypeOK,
                      capsuleVars, beaconVars
<1>4. ASSUME NEW paused \in BOOLEAN, SetClientPaused(paused)
      PROVE  LzTypeOK' /\ ClientTypeOK'
  BY <1>4 DEF SetClientPaused, LzTypeOK, ClientTypeOK, CapsuleTypeOK,
              VaultTypeOK, vaultVars, capsuleVars, beaconVars
<1>5. ASSUME NEW s \in Stakers, NEW amount \in Amounts, BeaconPayout(s, amount)
      PROVE  LzTypeOK' /\ ClientTypeOK'
  <2>1. CapsuleTypeOK'
    BY <1>5 DEF BeaconPayout, ClientTypeOK, CapsuleTypeOK, beaconVars
  <2> QED
    BY <1>5, <2>1 DEF BeaconPayout, LzTypeOK, ClientTypeOK, VaultTypeOK,
                      vaultVars
<1>6. ASSUME Tick
      PROVE  LzTypeOK' /\ ClientTypeOK'
  BY <1>6 DEF Tick, LzTypeOK, ClientTypeOK, CapsuleTypeOK, VaultTypeOK,
              vaultVars, capsuleVars
<1> QED
  BY <1>1, <1>2, <1>3, <1>4, <1>5, <1>6
  DEF PrincipalWithdrawal, ClientOwner, BeaconChain, ClientPause,
      ClientUnpause

\* Messages from Imuachain.
LEMMA ClientDeliveryType ==
    ASSUME LzTypeOK, ClientTypeOK, ClientDelivery, UNCHANGED imuaVars
    PROVE  LzTypeOK' /\ ClientTypeOK'
<1> USE DEF imuaVars
<1> PICK n \in 1..Len(toClient) : ClientLzReceive(n)
  BY DEF ClientDelivery
<1> toClient[n] \in ClientMessage
  BY DEF LzTypeOK
<1>1. LzTypeOK'
  BY DEF LzTypeOK, ClientLzReceive, VerifyAndUpdateClientNonce
<1>2. CASE /\ toClient[n].act = "RESPOND"
           /\ HandleResponse(toClient[n])
  <2> DEFINE id == toClient[n].id
             req == registeredRequests[id]
  <2>1. id \in DOMAIN registeredRequests /\ req \in CachedRequest
    BY <1>2 DEF HandleResponse, ClientTypeOK
  <2>2. /\ DOMAIN registeredRequests' \subseteq Nat
        /\ \A i \in DOMAIN registeredRequests' :
               registeredRequests'[i] \in CachedRequest
    BY <1>2 DEF HandleResponse, DeleteRegistered, ClientTypeOK
  <2>3. VaultTypeOK'
    <3>1. CASE UNCHANGED vaultVars
      BY <3>1 DEF ClientTypeOK, VaultTypeOK, vaultVars
    <3>2. CASE /\ IsLST(req.act)
               /\ VaultUnlockPrincipal(req.token, req.staker, req.amount)
      <4>1. /\ req.token \in LSTs
            /\ req.staker \in Stakers
            /\ req.amount \in Nat
        BY <2>1, <3>2 DEF CachedRequest, IsLST
      <4> QED
        BY <3>2, <4>1, VaultOperationType DEF ClientTypeOK
    <3> QED
      BY <1>2, <3>1, <3>2 DEF HandleResponse
  <2>4. CapsuleTypeOK'
    <3>1. /\ req.staker \in Stakers
          /\ req.amount \in Nat
          /\ toClient[n].success \in BOOLEAN
      BY <1>2, <2>1 DEF CachedRequest, ClientMessage, Response,
                        AddWhitelistRequest, MarkBootstrapRequest
    <3> HIDE DEF req, id
    <3>2. CASE UNCHANGED <<inClaimProgress, withdrawableBalance,
                           lastClaimTimestamp>>
      BY <3>2 DEF ClientLzReceive, ClientTypeOK, CapsuleTypeOK, beaconVars
    <3>3. CASE HandleNSTResponse(req.staker, req.amount, toClient[n].success)
      <4>1. inClaimProgress' \in [Stakers -> BOOLEAN]
        BY <3>1, <3>3 DEF HandleNSTResponse, EndClaimNST, ClientTypeOK,
                          CapsuleTypeOK
      <4>2. /\ withdrawableBalance' \in [Stakers -> Nat]
            /\ lastClaimTimestamp' \in [Stakers -> Nat]
        <5>1. CASE UNCHANGED <<withdrawableBalance, lastClaimTimestamp>>
          BY <5>1 DEF ClientTypeOK, CapsuleTypeOK
        <5>2. CASE UnlockETHPrincipal(req.staker, req.amount)
          <6> DEFINE st == req.staker
                     amt == req.amount
          <6> st \in Stakers /\ amt \in Nat
            BY <3>1
          <6> UnlockETHPrincipal(st, amt)
            BY <5>2
          <6> HIDE DEF st, amt
          <6> QED
            BY DEF UnlockETHPrincipal, ClientTypeOK, CapsuleTypeOK
        <5> QED
          BY <3>3, <5>1, <5>2 DEF HandleNSTResponse
      <4> QED
        BY <4>1, <4>2 DEF ClientLzReceive, ClientTypeOK, CapsuleTypeOK,
                          beaconVars
    <3> QED
      BY <1>2, <3>2, <3>3 DEF HandleResponse, req, id
  <2> QED
    BY <1>1, <1>2, <2>2, <2>3, <2>4 DEF ClientLzReceive, HandleResponse,
                                        ClientTypeOK
<1>3. CASE /\ toClient[n].act = "REQUEST_ADD_WHITELIST_TOKEN"
           /\ AfterReceiveAddWhitelistTokenRequest(toClient[n].token,
                                                   toClient[n].tvl)
  <2>1. toClient[n] \in AddWhitelistRequest
    BY <1>3 DEF ClientMessage, Response, AddWhitelistRequest,
                MarkBootstrapRequest
  <2>2. toClient[n].token \in Tokens /\ toClient[n].tvl \in Nat
    BY <2>1 DEF AddWhitelistRequest
  <2>3. VaultTypeOK'
    BY <1>3, <2>2 DEF AfterReceiveAddWhitelistTokenRequest, ClientTypeOK,
                      VaultTypeOK, Tokens
  <2>4. CapsuleTypeOK'
    BY <1>3 DEF AfterReceiveAddWhitelistTokenRequest, ClientLzReceive,
                ClientTypeOK, CapsuleTypeOK, beaconVars
  <2> QED
    BY <1>1, <1>3, <2>2, <2>3, <2>4
    DEF AfterReceiveAddWhitelistTokenRequest, ClientLzReceive, ClientTypeOK
<1>4. CASE AfterReceiveMarkBootstrapRequest
  BY <1>1, <1>4 DEF AfterReceiveMarkBootstrapRequest, ClientLzReceive,
                    ClientTypeOK, VaultTypeOK, CapsuleTypeOK, vaultVars,
                    beaconVars
<1> QED
  BY <1>2, <1>3, <1>4 DEF ClientLzReceive

------------------------------------------------------------------------------
(* Every step of Imuachain keeps TypeOK.                                   *)

\* Changing one position keeps the type of a field of the ledger.
LEMMA PositionUpdate ==
    ASSUME NEW f \in [Stakers -> [Tokens -> Nat]], NEW s \in Stakers,
           NEW t \in Tokens, NEW x \in Nat
    PROVE  [f EXCEPT ![s][t] = x] \in [Stakers -> [Tokens -> Nat]]
OBVIOUS

\* What the precompiles do to one position.
LEMMA LedgerType ==
    ASSUME ImuaTypeOK, NEW s \in Stakers, NEW t \in Tokens, NEW x \in Nat,
           NEW d \in Nat, NEW i \in BOOLEAN, NEW o \in BOOLEAN
    PROVE  /\ LedgerDeposit(s, t, x) =>
                  freeBalance' \in [Stakers -> [Tokens -> Nat]]
           /\ LedgerWithdraw(s, t, x, o) =>
                  freeBalance' \in [Stakers -> [Tokens -> Nat]]
           /\ LedgerDelegate(s, t, x, d, o) =>
                  /\ freeBalance' \in [Stakers -> [Tokens -> Nat]]
                  /\ delegatedAmount' \in [Stakers -> [Tokens -> Nat]]
           /\ LedgerUndelegate(s, t, x, i, o) =>
                  /\ freeBalance' \in [Stakers -> [Tokens -> Nat]]
                  /\ delegatedAmount' \in [Stakers -> [Tokens -> Nat]]
                  /\ unbondingAmount' \in [Stakers -> [Tokens -> Nat]]
<1> freeBalance[s][t] \in Nat /\ delegatedAmount[s][t] \in Nat
  BY DEF ImuaTypeOK
<1> /\ freeBalance \in [Stakers -> [Tokens -> Nat]]
    /\ delegatedAmount \in [Stakers -> [Tokens -> Nat]]
    /\ unbondingAmount \in [Stakers -> [Tokens -> Nat]]
  BY DEF ImuaTypeOK
<1>1. LedgerDeposit(s, t, x) => freeBalance' \in [Stakers -> [Tokens -> Nat]]
  BY DEF LedgerDeposit
<1>2. ASSUME LedgerWithdraw(s, t, x, o)
      PROVE  freeBalance' \in [Stakers -> [Tokens -> Nat]]
  <2>1. CASE o
    <3>1. freeBalance[s][t] - x \in Nat
      BY <1>2, <2>1 DEF LedgerWithdraw
    <3> QED
      BY <1>2, <2>1, <3>1, PositionUpdate DEF LedgerWithdraw
  <2> QED
    BY <1>2, <2>1 DEF LedgerWithdraw
<1>3. ASSUME LedgerDelegate(s, t, x, d, o)
      PROVE  /\ freeBalance' \in [Stakers -> [Tokens -> Nat]]
             /\ delegatedAmount' \in [Stakers -> [Tokens -> Nat]]
  <2>1. CASE o
    <3>1. (freeBalance[s][t] + d) - x \in Nat
      BY <1>3, <2>1 DEF LedgerDelegate
    <3>2. freeBalance' \in [Stakers -> [Tokens -> Nat]]
      BY <1>3, <2>1, <3>1, PositionUpdate DEF LedgerDelegate
    <3>3. delegatedAmount' =
              [delegatedAmount EXCEPT ![s][t] = delegatedAmount[s][t] + x]
      BY <1>3, <2>1 DEF LedgerDelegate
    <3>4. delegatedAmount' \in [Stakers -> [Tokens -> Nat]]
      BY <3>3, PositionUpdate
    <3> QED
      BY <3>2, <3>4
  <2>2. CASE ~ o
    <3>1. /\ freeBalance' =
                 [freeBalance EXCEPT ![s][t] = freeBalance[s][t] + d]
          /\ delegatedAmount' = delegatedAmount
      BY <1>3, <2>2 DEF LedgerDelegate
    <3>2. freeBalance' \in [Stakers -> [Tokens -> Nat]]
      BY <3>1, PositionUpdate
    <3> QED
      BY <3>1, <3>2
  <2> QED
    BY <2>1, <2>2
<1>4. ASSUME LedgerUndelegate(s, t, x, i, o)
      PROVE  /\ freeBalance' \in [Stakers -> [Tokens -> Nat]]
             /\ delegatedAmount' \in [Stakers -> [Tokens -> Nat]]
             /\ unbondingAmount' \in [Stakers -> [Tokens -> Nat]]
  <2>1. CASE o
    <3>1. delegatedAmount[s][t] - x \in Nat
      BY <1>4, <2>1 DEF LedgerUndelegate
    <3>2. delegatedAmount' \in [Stakers -> [Tokens -> Nat]]
      BY <1>4, <2>1, <3>1, PositionUpdate DEF LedgerUndelegate
    <3>3. CASE i
      <4>1. /\ freeBalance' =
                   [freeBalance EXCEPT ![s][t] = freeBalance[s][t] + x]
            /\ unbondingAmount' = unbondingAmount
        BY <1>4, <2>1, <3>3 DEF LedgerUndelegate
      <4>2. freeBalance' \in [Stakers -> [Tokens -> Nat]]
        BY <4>1, PositionUpdate
      <4> QED
        BY <3>2, <4>1, <4>2
    <3>4. CASE ~ i
      <4>1. /\ unbondingAmount' =
                [unbondingAmount EXCEPT ![s][t] = unbondingAmount[s][t] + x]
            /\ freeBalance' = freeBalance
        BY <1>4, <2>1, <3>4 DEF LedgerUndelegate
      <4>2. unbondingAmount[s][t] + x \in Nat
        BY DEF ImuaTypeOK
      <4>3. unbondingAmount' \in [Stakers -> [Tokens -> Nat]]
        BY <4>1, <4>2, PositionUpdate
      <4> QED
        BY <3>2, <4>1, <4>3
    <3> QED
      BY <3>3, <3>4
  <2>2. CASE ~ o
    BY <1>4, <2>2 DEF LedgerUndelegate
  <2> QED
    BY <2>1, <2>2
<1> QED
  BY <1>1, <1>2, <1>3, <1>4

LEMMA RespondType ==
    ASSUME LzTypeOK, ImuaTypeOK, NEW n \in Nat, NEW success \in BOOLEAN,
           Respond(n, success)
    PROVE  /\ funds' \in Nat
           /\ toClient' \in Seq(ClientMessage)
           /\ clientInboundNonce \in 0..Len(toClient')
<1> DEFINE m == [act |-> "RESPOND", id |-> n, success |-> success]
<1>1. m \in ClientMessage
  BY DEF ClientMessage, Response
<1>2. SendToClient(m)
  BY DEF Respond
<1> HIDE DEF m
<1>3. /\ toClient' \in Seq(ClientMessage)
      /\ clientInboundNonce \in 0..Len(toClient')
  BY <1>1, <1>2, SendToClientType DEF LzTypeOK
<1> QED
  BY <1>3 DEF Respond, ImuaTypeOK

LEMMA ImuaDeliveryType ==
    ASSUME LzTypeOK, ImuaTypeOK, ImuaDelivery, UNCHANGED clientVars
    PROVE  LzTypeOK' /\ ImuaTypeOK'
<1> USE DEF clientVars
<1> PICK n \in 1..Len(toImua) : ImuaLzReceive(n)
  BY DEF ImuaDelivery
<1> DEFINE m == toImua[n]
<1> m \in Request
  BY DEF LzTypeOK
<1> /\ m.staker \in Stakers /\ m.token \in Tokens /\ m.amount \in Nat
    /\ m.instant \in BOOLEAN
  BY DEF Request
<1> HIDE DEF m
<1>1. /\ toImua' \in Seq(Request)
      /\ imuaInboundNonce' \in 0..Len(toImua')
  BY DEF LzTypeOK, ImuaLzReceive, VerifyAndUpdateImuaNonce
<1>2. CASE HandleDeposit(m)
  BY <1>1, <1>2, LedgerType, 0 \in Nat
  DEF HandleDeposit, NoResponse, ImuaLzReceive, LzTypeOK, ImuaTypeOK
<1>3. ASSUME NEW o \in BOOLEAN, HandleWithdrawal(n, m, o)
      PROVE  LzTypeOK' /\ ImuaTypeOK'
  <2>1. Respond(n, o)
    BY <1>3 DEF HandleWithdrawal
  <2>2. freeBalance' \in [Stakers -> [Tokens -> Nat]]
    BY <1>3, LedgerType, 0 \in Nat DEF HandleWithdrawal
  <2> QED
    BY <1>1, <1>3, <2>1, <2>2, RespondType
    DEF HandleWithdrawal, ImuaLzReceive, LzTypeOK, ImuaTypeOK
<1>4. ASSUME NEW o \in BOOLEAN, HandleDelegation(m, o)
      PROVE  LzTypeOK' /\ ImuaTypeOK'
  <2>1. /\ freeBalance' \in [Stakers -> [Tokens -> Nat]]
        /\ delegatedAmount' \in [Stakers -> [Tokens -> Nat]]
        /\ unbondingAmount' \in [Stakers -> [Tokens -> Nat]]
    <3>1. CASE LedgerDelegate(m.staker, m.token, m.amount, 0, o)
               /\ UNCHANGED unbondingAmount
      BY <3>1, LedgerType, 0 \in Nat DEF ImuaTypeOK
    <3>2. CASE LedgerUndelegate(m.staker, m.token, m.amount, m.instant, o)
      BY <3>2, LedgerType, 0 \in Nat
    <3> QED
      BY <1>4, <3>1, <3>2 DEF HandleDelegation
  <2> QED
    BY <1>1, <1>4, <2>1
    DEF HandleDelegation, NoResponse, ImuaLzReceive, LzTypeOK, ImuaTypeOK
<1>5. ASSUME NEW o \in BOOLEAN, HandleDepositAndDelegate(m, o)
      PROVE  LzTypeOK' /\ ImuaTypeOK'
  <2>1. /\ freeBalance' \in [Stakers -> [Tokens -> Nat]]
        /\ delegatedAmount' \in [Stakers -> [Tokens -> Nat]]
    BY <1>5, LedgerType DEF HandleDepositAndDelegate
  <2> QED
    BY <1>1, <1>5, <2>1
    DEF HandleDepositAndDelegate, NoResponse, ImuaLzReceive, LzTypeOK,
        ImuaTypeOK
<1> QED
  BY <1>2, <1>3, <1>4, <1>5 DEF ImuaLzReceive, m

LEMMA ImuaOwnerType ==
    ASSUME LzTypeOK, ImuaTypeOK, ImuaOwner, UNCHANGED clientVars
    PROVE  LzTypeOK' /\ ImuaTypeOK'
<1> USE DEF clientVars
<1>1. ASSUME NEW t \in Tokens, NEW tvl \in TvlLimits, AddWhitelistToken(t, tvl)
      PROVE  LzTypeOK' /\ ImuaTypeOK'
  <2> DEFINE m == [act |-> "REQUEST_ADD_WHITELIST_TOKEN", token |-> t,
                   tvl |-> tvl]
  <2>1. m \in ClientMessage
    BY DEF ClientMessage, AddWhitelistRequest
  <2>2. SendToClient(m)
    BY <1>1 DEF AddWhitelistToken
  <2> HIDE DEF m
  <2>3. LzTypeOK'
    BY <1>1, <2>1, <2>2, SendToClientType DEF AddWhitelistToken, LzTypeOK
  <2> QED
    BY <1>1, <2>3 DEF AddWhitelistToken, ImuaTypeOK, ledgerVars
<1>2. CASE MarkBootstrap
  <2> DEFINE m == [act |-> "REQUEST_MARK_BOOTSTRAP"]
  <2>1. m \in ClientMessage
    BY DEF ClientMessage, MarkBootstrapRequest
  <2>2. SendToClient(m)
    BY <1>2 DEF MarkBootstrap
  <2> HIDE DEF m
  <2>3. LzTypeOK'
    BY <1>2, <2>1, <2>2, SendToClientType DEF MarkBootstrap, LzTypeOK
  <2> QED
    BY <1>2, <2>3 DEF MarkBootstrap, ImuaTypeOK, ledgerVars
<1>3. ASSUME NEW paused \in BOOLEAN, SetImuaPaused(paused)
      PROVE  LzTypeOK' /\ ImuaTypeOK'
  BY <1>3 DEF SetImuaPaused, LzTypeOK, ImuaTypeOK, ledgerVars
<1>4. CASE Fund
  BY <1>4 DEF Fund, LzTypeOK, ImuaTypeOK, ledgerVars
<1> QED
  BY <1>1, <1>2, <1>3, <1>4 DEF ImuaOwner, ImuaPause, ImuaUnpause

LEMMA LedgerStepType ==
    ASSUME LzTypeOK, ImuaTypeOK, Ledger, UNCHANGED clientVars
    PROVE  LzTypeOK' /\ ImuaTypeOK'
<1> USE DEF clientVars
<1>1. ASSUME NEW s \in Stakers, NEW t \in Tokens, NEW x \in Amounts,
             Slash(s, t, x)
      PROVE  LzTypeOK' /\ ImuaTypeOK'
  <2> x \in Nat
    OBVIOUS
  <2>1. delegatedAmount[s][t] - x \in Nat
    BY <1>1 DEF Slash, ImuaTypeOK
  <2>2. delegatedAmount' \in [Stakers -> [Tokens -> Nat]]
    BY <1>1, <2>1 DEF Slash, ImuaTypeOK
  <2> QED
    BY <1>1, <2>2 DEF Slash, LzTypeOK, ImuaTypeOK
<1>2. ASSUME NEW s \in Stakers, NEW t \in Tokens, CompleteUnbonding(s, t)
      PROVE  LzTypeOK' /\ ImuaTypeOK'
  <2>1. freeBalance[s][t] + unbondingAmount[s][t] \in Nat
    BY DEF ImuaTypeOK
  <2>2. freeBalance' \in [Stakers -> [Tokens -> Nat]]
    BY <1>2, <2>1, PositionUpdate DEF CompleteUnbonding, ImuaTypeOK
  <2>3. unbondingAmount' \in [Stakers -> [Tokens -> Nat]]
    BY <1>2, 0 \in Nat, PositionUpdate DEF CompleteUnbonding, ImuaTypeOK
  <2> QED
    BY <1>2, <2>2, <2>3 DEF CompleteUnbonding, LzTypeOK, ImuaTypeOK
<1>3. ASSUME NEW s \in Stakers, NEW x \in Amounts, NativeReward(s, x)
      PROVE  LzTypeOK' /\ ImuaTypeOK'
  <2>1. NST \in Tokens /\ freeBalance[s][NST] + x \in Nat
    BY DEF Tokens, ImuaTypeOK
  <2>2. freeBalance' \in [Stakers -> [Tokens -> Nat]]
    BY <1>3, <2>1, PositionUpdate DEF NativeReward, ImuaTypeOK
  <2> QED
    BY <1>3, <2>2 DEF NativeReward, LzTypeOK, ImuaTypeOK
<1> QED
  BY <1>1, <1>2, <1>3 DEF Ledger

------------------------------------------------------------------------------
LEMMA TypeInit == Init => TypeOK
<1> SUFFICES ASSUME Init PROVE TypeOK
  OBVIOUS
<1>1. LzTypeOK
  BY DEF Init, LzInit, LzTypeOK
<1>2. VaultTypeOK
  BY DEF Init, ClientInit, VaultInit, VaultTypeOK
<1>3. CapsuleTypeOK
  BY DEF Init, ClientInit, CapsuleInit, CapsuleTypeOK
<1>4. ClientTypeOK
  <2>1. DOMAIN registeredRequests = {}
    BY DEF Init, ClientInit
  <2> QED
    BY <1>2, <1>3, <2>1 DEF Init, ClientInit, ClientTypeOK
<1>5. ImuaTypeOK
  BY DEF Init, ImuaInit, NoPosition, ImuaTypeOK
<1> QED
  BY <1>1, <1>4, <1>5 DEF TypeOK

LEMMA TypeNext == TypeOK /\ [Next]_vars => TypeOK'
<1> SUFFICES ASSUME TypeOK, [Next]_vars PROVE TypeOK'
  OBVIOUS
<1> USE DEF TypeOK
<1>1. CASE Client
  <2>1. ImuaTypeOK'
    BY <1>1 DEF Client, ImuaTypeOK, imuaVars, ledgerVars
  <2> QED
    BY <1>1, <2>1, LstRequestType, NativeRestakingType, OtherClientType,
       ClientDeliveryType
    DEF Client, ClientStep
<1>2. CASE Imua
  <2>1. ClientTypeOK'
    BY <1>2 DEF Imua, ClientTypeOK, VaultTypeOK, CapsuleTypeOK, clientVars,
                vaultVars, capsuleVars, beaconVars
  <2> QED
    BY <1>2, <2>1, ImuaDeliveryType, ImuaOwnerType, LedgerStepType
    DEF Imua, ImuaStep
<1>3. CASE UNCHANGED vars
  BY <1>3 DEF vars, clientVars, imuaVars, LzTypeOK, ClientTypeOK, ImuaTypeOK,
              VaultTypeOK, CapsuleTypeOK, vaultVars, capsuleVars, beaconVars,
              ledgerVars
<1> QED
  BY <1>1, <1>2, <1>3 DEF Next

\* Type correctness of the bridge.
THEOREM BridgeTypeCorrect == Spec => []TypeOK
BY TypeInit, TypeNext, PTL DEF Spec

------------------------------------------------------------------------------
(* The registry.  For it a step of the bridge is one of eight kinds, told  *)
(* apart by what they do to the two paths, their nonces and the registry.  *)

paths == <<toImua, toClient, imuaInboundNonce, clientInboundNonce>>

Silent == UNCHANGED <<paths, registeredRequests>>

SendPlain ==
    \E m \in Request :
        /\ ~ IsWithdrawal(m.act)
        /\ SendToImua(m)
        /\ UNCHANGED <<toClient, imuaInboundNonce, clientInboundNonce,
                       registeredRequests>>

SendRegistered ==
    \E m \in Request :
        /\ IsWithdrawal(m.act)
        /\ ProcessRequestWithResponse(m)
        /\ UNCHANGED <<toClient, imuaInboundNonce, clientInboundNonce>>

ExecutePlain ==
    \E n \in 1..Len(toImua) :
        /\ ~ IsWithdrawal(toImua[n].act)
        /\ VerifyAndUpdateImuaNonce(n)
        /\ UNCHANGED <<toImua, toClient, clientInboundNonce,
                       registeredRequests>>

ExecuteAndAnswer ==
    \E n \in 1..Len(toImua), success \in BOOLEAN :
        /\ IsWithdrawal(toImua[n].act)
        /\ VerifyAndUpdateImuaNonce(n)
        /\ Respond(n, success)
        /\ UNCHANGED <<toImua, clientInboundNonce, registeredRequests>>

OwnerSend ==
    \E m \in ClientMessage :
        /\ m.act # "RESPOND"
        /\ SendToClient(m)
        /\ UNCHANGED <<toImua, imuaInboundNonce, clientInboundNonce,
                       registeredRequests>>

ReceiveOther ==
    \E n \in 1..Len(toClient) :
        /\ toClient[n].act # "RESPOND"
        /\ VerifyAndUpdateClientNonce(n)
        /\ UNCHANGED <<toImua, toClient, imuaInboundNonce, registeredRequests>>

ReceiveResponse ==
    \E n \in 1..Len(toClient) :
        /\ toClient[n].act = "RESPOND"
        /\ toClient[n].id \in DOMAIN registeredRequests
        /\ VerifyAndUpdateClientNonce(n)
        /\ DeleteRegistered(toClient[n].id)
        /\ UNCHANGED <<toImua, toClient, imuaInboundNonce>>

MessagingStep ==
    \/ Silent \/ SendPlain \/ SendRegistered \/ ExecutePlain
    \/ ExecuteAndAnswer \/ OwnerSend \/ ReceiveOther \/ ReceiveResponse

LEMMA ClientStepKinds ==
    ASSUME TypeOK, Client
    PROVE  MessagingStep
<1> UNCHANGED <<toClient, imuaInboundNonce>> /\ ClientStep
  BY DEF Client, imuaVars
<1> USE DEF clientVars
<1>1. ASSUME NEW act \in {"REQUEST_DEPOSIT_LST",
                          "REQUEST_DEPOSIT_THEN_DELEGATE_TO"},
             NEW s \in Stakers, NEW t \in LSTs, NEW amount \in Amounts,
             DepositInVault(act, s, t, amount)
      PROVE  SendPlain
  <2> DEFINE m == Message(act, s, t, amount, FALSE)
  <2>1. m \in Request /\ ~ IsWithdrawal(m.act)
    BY MessageType DEF RequestActs, DepositActs, Tokens, IsWithdrawal,
                       WithdrawalActs, Message
  <2>2. SendToImua(m) /\ UNCHANGED <<clientInboundNonce, registeredRequests>>
    BY <1>1 DEF DepositInVault, ProcessRequest, SendMsgToImuachain
  <2> HIDE DEF m
  <2> QED
    BY <2>1, <2>2 DEF SendPlain
<1>2. ASSUME NEW s \in Stakers, NEW t \in LSTs, NEW amount \in Amounts,
             ClaimPrincipalFromImuachain(s, t, amount)
      PROVE  SendRegistered
  <2> DEFINE m == Message("REQUEST_WITHDRAW_LST", s, t, amount, FALSE)
  <2>1. m \in Request /\ IsWithdrawal(m.act)
    BY MessageType DEF RequestActs, WithdrawalActs, Tokens, IsWithdrawal,
                       Message
  <2>2. ProcessRequestWithResponse(m) /\ UNCHANGED clientInboundNonce
    BY <1>2 DEF ClaimPrincipalFromImuachain
  <2> HIDE DEF m
  <2> QED
    BY <2>1, <2>2 DEF SendRegistered
<1>3. ASSUME NEW act \in DelegationActs, NEW s \in Stakers, NEW t \in Tokens,
             NEW amount \in Amounts, NEW instant \in BOOLEAN,
             Delegation(act, s, t, amount, instant)
      PROVE  SendPlain
  <2> DEFINE m == Message(act, s, t, amount, instant)
  <2>1. m \in Request /\ ~ IsWithdrawal(m.act)
    BY MessageType DEF RequestActs, DelegationActs, IsWithdrawal,
                       WithdrawalActs, Message
  <2>2. SendToImua(m) /\ UNCHANGED <<clientInboundNonce, registeredRequests>>
    BY <1>3 DEF Delegation, ProcessRequest, SendMsgToImuachain
  <2> HIDE DEF m
  <2> QED
    BY <2>1, <2>2 DEF SendPlain
<1>4. ASSUME NEW s \in Stakers, NEW v \in Validators, NEW time \in 0..now,
             NEW balance \in Amounts,
             VerifyAndDepositNativeStake(s, v, time, balance)
      PROVE  SendPlain
  <2> DEFINE m == Message("REQUEST_DEPOSIT_NST", s, NST,
                          DepositAmount(balance), FALSE)
  <2>1. m \in Request /\ ~ IsWithdrawal(m.act)
    BY MessageType DEF RequestActs, DepositActs, Tokens, DepositAmount,
                       IsWithdrawal, WithdrawalActs, Message
  <2>2. SendToImua(m) /\ UNCHANGED <<clientInboundNonce, registeredRequests>>
    BY <1>4 DEF VerifyAndDepositNativeStake, ProcessRequest, SendMsgToImuachain
  <2> HIDE DEF m
  <2> QED
    BY <2>1, <2>2 DEF SendPlain
<1>5. ASSUME NEW s \in Stakers, NEW amount \in Amounts \cup {0},
             ClaimNSTFromImuachain(s, amount)
      PROVE  SendRegistered
  <2> DEFINE m == Message("REQUEST_WITHDRAW_NST", s, NST, amount, FALSE)
  <2>1. m \in Request /\ IsWithdrawal(m.act)
    BY MessageType DEF RequestActs, WithdrawalActs, Tokens, IsWithdrawal,
                       Message
  <2>2. ProcessRequestWithResponse(m) /\ UNCHANGED clientInboundNonce
    BY <1>5 DEF ClaimNSTFromImuachain
  <2> HIDE DEF m
  <2> QED
    BY <2>1, <2>2 DEF SendRegistered
<1>6. ASSUME NEW n \in 1..Len(toClient), ClientLzReceive(n)
      PROVE  ReceiveResponse \/ ReceiveOther
  BY <1>6 DEF ClientLzReceive, HandleResponse, ReceiveResponse, ReceiveOther,
              AfterReceiveAddWhitelistTokenRequest,
              AfterReceiveMarkBootstrapRequest
<1>7. PrincipalWithdrawal \/ ClientOwner \/ BeaconChain => Silent
  BY DEF PrincipalWithdrawal, ClientOwner, BeaconChain, WithdrawLSTPrincipal,
         WithdrawNSTPrincipal, UpdateTvlLimit, ClientPause, ClientUnpause,
         SetClientPaused, BeaconPayout, Tick, Silent, paths
<1>8. ASSUME NEW s \in Stakers,
             \/ CreateImuaCapsule(s)
             \/ \E v \in Validators : Stake(s, v)
             \/ \E v \in Validators, value, fee \in Amounts :
                    RequestBeaconWithdrawal(s, v, value, fee)
      PROVE  Silent
  BY <1>8 DEF CreateImuaCapsule, Stake, RequestBeaconWithdrawal, Silent, paths
<1>9. NativeRestaking => MessagingStep
  BY <1>4, <1>5, <1>8 DEF NativeRestaking, MessagingStep
<1>10. LstRequest => MessagingStep
  BY <1>1, <1>2 DEF LstRequest, Deposit, DepositThenDelegateTo, MessagingStep
<1>11. DelegationRequest => MessagingStep
  BY <1>3 DEF DelegationRequest, DelegateTo, UndelegateFrom, DelegationActs,
              MessagingStep
<1> QED
  BY <1>6, <1>7, <1>9, <1>10, <1>11 DEF ClientStep, ClientDelivery,
                                         MessagingStep

LEMMA ImuaStepKinds ==
    ASSUME TypeOK, Imua
    PROVE  MessagingStep
<1> /\ UNCHANGED <<toImua, clientInboundNonce, registeredRequests>>
    /\ ImuaStep
  BY DEF Imua, clientVars
<1>1. ASSUME NEW n \in 1..Len(toImua), ImuaLzReceive(n)
      PROVE  ExecutePlain \/ ExecuteAndAnswer
  <2>1. CASE \E o \in BOOLEAN : HandleWithdrawal(n, toImua[n], o)
    BY <1>1, <2>1 DEF ImuaLzReceive, HandleWithdrawal, ExecuteAndAnswer
  <2>2. CASE \/ HandleDeposit(toImua[n])
             \/ \E o \in BOOLEAN : \/ HandleDelegation(toImua[n], o)
                                   \/ HandleDepositAndDelegate(toImua[n], o)
    BY <1>1, <2>2 DEF ImuaLzReceive, HandleDeposit, HandleDelegation,
                      HandleDepositAndDelegate, NoResponse, ExecutePlain,
                      IsWithdrawal, WithdrawalActs
  <2> QED
    BY <1>1, <2>1, <2>2 DEF ImuaLzReceive
<1>2. ASSUME NEW t \in Tokens, NEW tvl \in TvlLimits, AddWhitelistToken(t, tvl)
      PROVE  OwnerSend
  <2> DEFINE m == [act |-> "REQUEST_ADD_WHITELIST_TOKEN", token |-> t,
                   tvl |-> tvl]
  <2>1. m \in ClientMessage /\ m.act # "RESPOND"
    BY DEF ClientMessage, AddWhitelistRequest
  <2>2. SendToClient(m) /\ UNCHANGED imuaInboundNonce
    BY <1>2 DEF AddWhitelistToken
  <2> HIDE DEF m
  <2> QED
    BY <2>1, <2>2 DEF OwnerSend
<1>3. MarkBootstrap => OwnerSend
  BY DEF MarkBootstrap, OwnerSend, ClientMessage, MarkBootstrapRequest
<1>4. Ledger \/ ImuaPause \/ ImuaUnpause \/ Fund => Silent
  BY DEF Ledger, Slash, CompleteUnbonding, NativeReward, ImuaPause,
         ImuaUnpause, SetImuaPaused, Fund, Silent, paths
<1> QED
  BY <1>1, <1>2, <1>3, <1>4 DEF ImuaStep, ImuaDelivery, ImuaOwner,
                                 MessagingStep

LEMMA StepKinds == TypeOK /\ [Next]_vars => MessagingStep
BY ClientStepKinds, ImuaStepKinds
DEF Next, vars, clientVars, imuaVars, MessagingStep, Silent, paths

LEMMA RegistryInit == Init => RegistryInv
BY DEF Init, LzInit, ClientInit, RegistryInv, CachedIsSent,
       UndeliveredAreRegistered, AnswersAreDue, AnswersAreUnique,
       ExecutedAreAnswered, PendingResponses

LEMMA SilentKeepsRegistry ==
    ASSUME RegistryInv, Silent
    PROVE  RegistryInv'
BY DEF Silent, paths, RegistryInv, CachedIsSent, UndeliveredAreRegistered,
       AnswersAreDue, AnswersAreUnique, ExecutedAreAnswered, PendingResponses

\* A request that expects no response is not registered.
LEMMA SendPlainKeepsRegistry ==
    ASSUME TypeOK, RegistryInv, SendPlain
    PROVE  RegistryInv'
<1> PICK m \in Request :
        /\ ~ IsWithdrawal(m.act)
        /\ SendToImua(m)
        /\ UNCHANGED <<toClient, imuaInboundNonce, clientInboundNonce,
                       registeredRequests>>
  BY DEF SendPlain
<1>1. /\ Len(toImua) \in Nat
      /\ Len(toImua') = Len(toImua) + 1
      /\ imuaInboundNonce \in 0..Len(toImua)
      /\ \A i \in 1..Len(toImua) : toImua'[i] = toImua[i]
      /\ toImua'[Len(toImua) + 1] = m
  BY SendToImuaType DEF TypeOK, LzTypeOK
<1>2. PendingResponses' = PendingResponses
  BY DEF PendingResponses
<1>3. CachedIsSent'
  BY <1>1 DEF RegistryInv, CachedIsSent
<1>4. UndeliveredAreRegistered'
  BY <1>1 DEF RegistryInv, UndeliveredAreRegistered
<1>5. AnswersAreDue' /\ AnswersAreUnique' /\ ExecutedAreAnswered'
  BY <1>2 DEF RegistryInv, AnswersAreDue, AnswersAreUnique, ExecutedAreAnswered
<1> QED
  BY <1>3, <1>4, <1>5 DEF RegistryInv

\* A claim is registered under the nonce it is sent with.
LEMMA SendRegisteredKeepsRegistry ==
    ASSUME TypeOK, RegistryInv, SendRegistered
    PROVE  RegistryInv'
<1> PICK m \in Request :
        /\ IsWithdrawal(m.act)
        /\ ProcessRequestWithResponse(m)
        /\ UNCHANGED <<toClient, imuaInboundNonce, clientInboundNonce>>
  BY DEF SendRegistered
<1> DEFINE new == Len(toImua) + 1
<1>1. /\ Len(toImua) \in Nat
      /\ Len(toImua') = new
      /\ imuaInboundNonce \in 0..Len(toImua)
      /\ \A i \in 1..Len(toImua) : toImua'[i] = toImua[i]
      /\ toImua'[new] = m
  BY SendToImuaType DEF TypeOK, LzTypeOK, ProcessRequestWithResponse,
                        SendMsgToImuachain
<1>2. /\ DOMAIN registeredRequests' = DOMAIN registeredRequests \cup {new}
      /\ registeredRequests'[new].act = m.act
      /\ registeredRequests'[new].token = m.token
      /\ registeredRequests'[new].staker = m.staker
      /\ registeredRequests'[new].amount = m.amount
      /\ \A id \in DOMAIN registeredRequests \ {new} :
             registeredRequests'[id] = registeredRequests[id]
  BY DEF ProcessRequestWithResponse, RequestNonce
<1>3. \A id \in DOMAIN registeredRequests : id \in 1..Len(toImua)
  BY DEF RegistryInv, CachedIsSent
<1>4. PendingResponses' = PendingResponses
  BY DEF PendingResponses
<1>5. CachedIsSent'
  BY <1>1, <1>2, <1>3 DEF RegistryInv, CachedIsSent
<1>6. UndeliveredAreRegistered'
  BY <1>1, <1>2 DEF RegistryInv, UndeliveredAreRegistered
<1>7. AnswersAreDue' /\ AnswersAreUnique'
  BY <1>2, <1>4 DEF RegistryInv, AnswersAreDue, AnswersAreUnique
<1>8. ExecutedAreAnswered'
  BY <1>1, <1>2, <1>4 DEF RegistryInv, ExecutedAreAnswered
<1> QED
  BY <1>5, <1>6, <1>7, <1>8 DEF RegistryInv

LEMMA ExecutePlainKeepsRegistry ==
    ASSUME TypeOK, RegistryInv, ExecutePlain
    PROVE  RegistryInv'
<1> PICK n \in 1..Len(toImua) :
        /\ ~ IsWithdrawal(toImua[n].act)
        /\ VerifyAndUpdateImuaNonce(n)
        /\ UNCHANGED <<toImua, toClient, clientInboundNonce,
                       registeredRequests>>
  BY DEF ExecutePlain
<1>1. n = imuaInboundNonce + 1 /\ imuaInboundNonce' = n /\ n \in Nat
      /\ imuaInboundNonce \in Nat
  BY DEF VerifyAndUpdateImuaNonce, IsExpectedNonce, TypeOK, LzTypeOK
<1>2. PendingResponses' = PendingResponses
  BY DEF PendingResponses
<1>3. CachedIsSent'
  BY DEF RegistryInv, CachedIsSent
<1>4. n \notin DOMAIN registeredRequests
  <2>1. \A id \in DOMAIN registeredRequests : IsWithdrawal(toImua[id].act)
    BY DEF RegistryInv, CachedIsSent, TypeOK, ClientTypeOK, CachedRequest,
           IsWithdrawal, WithdrawalActs
  <2> QED
    BY <2>1
<1>5. DOMAIN registeredRequests \subseteq Nat
  BY DEF TypeOK, ClientTypeOK
<1>6. UndeliveredAreRegistered'
  BY <1>1 DEF RegistryInv, UndeliveredAreRegistered
<1>7. AnswersAreDue' /\ AnswersAreUnique'
  BY <1>1, <1>2, <1>5 DEF RegistryInv, AnswersAreDue, AnswersAreUnique
<1>8. ExecutedAreAnswered'
  BY <1>1, <1>2, <1>4, <1>5 DEF RegistryInv, ExecutedAreAnswered
<1> QED
  BY <1>3, <1>6, <1>7, <1>8 DEF RegistryInv

\* The response takes over from the request.
LEMMA ExecuteAndAnswerKeepsRegistry ==
    ASSUME TypeOK, RegistryInv, ExecuteAndAnswer
    PROVE  RegistryInv'
<1> PICK n \in 1..Len(toImua), success \in BOOLEAN :
        /\ IsWithdrawal(toImua[n].act)
        /\ VerifyAndUpdateImuaNonce(n)
        /\ Respond(n, success)
        /\ UNCHANGED <<toImua, clientInboundNonce, registeredRequests>>
  BY DEF ExecuteAndAnswer
<1> DEFINE m == [act |-> "RESPOND", id |-> n, success |-> success]
           last == Len(toClient) + 1
<1>1. n = imuaInboundNonce + 1 /\ imuaInboundNonce' = n /\ n \in Nat
      /\ imuaInboundNonce \in Nat
  BY DEF VerifyAndUpdateImuaNonce, IsExpectedNonce, TypeOK, LzTypeOK
<1>2. /\ Len(toClient) \in Nat
      /\ clientInboundNonce \in 0..Len(toClient)
      /\ Len(toClient') = last
      /\ \A i \in 1..Len(toClient) : toClient'[i] = toClient[i]
      /\ toClient'[last] = m
  <2>1. m \in ClientMessage
    BY <1>1 DEF ClientMessage, Response
  <2>2. SendToClient(m)
    BY DEF Respond
  <2> HIDE DEF m
  <2> QED
    BY <2>1, <2>2, SendToClientType DEF TypeOK, LzTypeOK
<1>3. /\ m.act = "RESPOND"
      /\ m.id = n
  OBVIOUS
<1> HIDE DEF m
<1>4. PendingResponses' = PendingResponses \cup {last}
  BY <1>2, <1>3 DEF PendingResponses
<1>5. \A k \in PendingResponses : toClient'[k] = toClient[k] /\ k # last
  BY <1>2 DEF PendingResponses
<1>6. DOMAIN registeredRequests \subseteq Nat
  BY DEF TypeOK, ClientTypeOK
<1>7. CachedIsSent'
  BY DEF RegistryInv, CachedIsSent
<1>8. UndeliveredAreRegistered' /\ n \in DOMAIN registeredRequests
  BY <1>1 DEF RegistryInv, UndeliveredAreRegistered
<1>9. AnswersAreDue'
  BY <1>1, <1>2, <1>3, <1>4, <1>5, <1>6, <1>8 DEF RegistryInv, AnswersAreDue
<1>10. AnswersAreUnique'
  <2>1. \A k \in PendingResponses : toClient[k].id # n
    BY <1>1, <1>6 DEF RegistryInv, AnswersAreDue
  <2> QED
    BY <1>2, <1>3, <1>4, <1>5, <2>1 DEF RegistryInv, AnswersAreUnique
<1>11. ExecutedAreAnswered'
  BY <1>1, <1>2, <1>3, <1>4, <1>5, <1>6 DEF RegistryInv, ExecutedAreAnswered
<1> QED
  BY <1>7, <1>8, <1>9, <1>10, <1>11 DEF RegistryInv

LEMMA OwnerSendKeepsRegistry ==
    ASSUME TypeOK, RegistryInv, OwnerSend
    PROVE  RegistryInv'
<1> PICK m \in ClientMessage :
        /\ m.act # "RESPOND"
        /\ SendToClient(m)
        /\ UNCHANGED <<toImua, imuaInboundNonce, clientInboundNonce,
                       registeredRequests>>
  BY DEF OwnerSend
<1>1. /\ Len(toClient) \in Nat
      /\ Len(toClient') = Len(toClient) + 1
      /\ \A i \in 1..Len(toClient) : toClient'[i] = toClient[i]
      /\ toClient'[Len(toClient) + 1] = m
  BY SendToClientType DEF TypeOK, LzTypeOK
<1>2. /\ PendingResponses' = PendingResponses
      /\ \A k \in PendingResponses : toClient'[k] = toClient[k]
  BY <1>1 DEF PendingResponses
<1> QED
  BY <1>2 DEF RegistryInv, CachedIsSent, UndeliveredAreRegistered,
              AnswersAreDue, AnswersAreUnique, ExecutedAreAnswered

LEMMA ReceiveOtherKeepsRegistry ==
    ASSUME TypeOK, RegistryInv, ReceiveOther
    PROVE  RegistryInv'
<1> PICK n \in 1..Len(toClient) :
        /\ toClient[n].act # "RESPOND"
        /\ VerifyAndUpdateClientNonce(n)
        /\ UNCHANGED <<toImua, toClient, imuaInboundNonce, registeredRequests>>
  BY DEF ReceiveOther
<1>1. n = clientInboundNonce + 1 /\ clientInboundNonce' = n
      /\ clientInboundNonce \in Nat
  BY DEF VerifyAndUpdateClientNonce, IsExpectedNonce, TypeOK, LzTypeOK
<1>2. PendingResponses' = PendingResponses
  BY <1>1 DEF PendingResponses
<1> QED
  BY <1>2 DEF RegistryInv, CachedIsSent, UndeliveredAreRegistered,
              AnswersAreDue, AnswersAreUnique, ExecutedAreAnswered

\* The response leaves the path and its request the registry.
LEMMA ReceiveResponseKeepsRegistry ==
    ASSUME TypeOK, RegistryInv, ReceiveResponse
    PROVE  RegistryInv'
<1> PICK n \in 1..Len(toClient) :
        /\ toClient[n].act = "RESPOND"
        /\ toClient[n].id \in DOMAIN registeredRequests
        /\ VerifyAndUpdateClientNonce(n)
        /\ DeleteRegistered(toClient[n].id)
        /\ UNCHANGED <<toImua, toClient, imuaInboundNonce>>
  BY DEF ReceiveResponse
<1> DEFINE done == toClient[n].id
<1>1. n = clientInboundNonce + 1 /\ clientInboundNonce' = n
      /\ clientInboundNonce \in Nat
  BY DEF VerifyAndUpdateClientNonce, IsExpectedNonce, TypeOK, LzTypeOK
<1>2. /\ n \in PendingResponses
      /\ PendingResponses' = PendingResponses \ {n}
  BY <1>1 DEF PendingResponses
<1>3. /\ DOMAIN registeredRequests' = DOMAIN registeredRequests \ {done}
      /\ \A id \in DOMAIN registeredRequests' :
             registeredRequests'[id] = registeredRequests[id]
  BY DEF DeleteRegistered
<1>4. CachedIsSent'
  BY <1>3 DEF RegistryInv, CachedIsSent
<1>5. UndeliveredAreRegistered'
  <2>1. done <= imuaInboundNonce /\ done \in Nat /\ imuaInboundNonce \in Nat
    BY <1>2 DEF RegistryInv, AnswersAreDue, TypeOK, ClientTypeOK, LzTypeOK
  <2> QED
    BY <1>3, <2>1 DEF RegistryInv, UndeliveredAreRegistered
<1>6. AnswersAreDue' /\ AnswersAreUnique'
  BY <1>2, <1>3 DEF RegistryInv, AnswersAreDue, AnswersAreUnique
<1>7. ExecutedAreAnswered'
  BY <1>2, <1>3 DEF RegistryInv, ExecutedAreAnswered
<1> QED
  BY <1>4, <1>5, <1>6, <1>7 DEF RegistryInv

LEMMA RegistryNext == TypeOK /\ RegistryInv /\ [Next]_vars => RegistryInv'
BY StepKinds, SilentKeepsRegistry, SendPlainKeepsRegistry,
   SendRegisteredKeepsRegistry, ExecutePlainKeepsRegistry,
   ExecuteAndAnswerKeepsRegistry, OwnerSendKeepsRegistry,
   ReceiveOtherKeepsRegistry, ReceiveResponseKeepsRegistry
DEF MessagingStep

\* Requests and responses stay paired, however the two chains, the deliveries
\* and the owners interleave.
THEOREM RegistryCorrect == Spec => []RegistryInv
BY RegistryInit, RegistryNext, BridgeTypeCorrect, PTL DEF Spec

\* No response the client gateway is given makes _handleResponse revert with
\* UnexpectedResponse, so none blocks the path.
THEOREM NoUnexpectedResponse == Spec => []ResponsesAreExpected
<1>1. RegistryInv => ResponsesAreExpected
  BY DEF RegistryInv, AnswersAreDue, ResponsesAreExpected
<1> QED
  BY <1>1, RegistryCorrect, PTL

\* A claim is answered once: it is on its way, or its one response is.
THEOREM AnsweredOnce == Spec => []RegisteredInOnePlace
<1>1. TypeOK /\ RegistryInv => RegisteredInOnePlace
  <2> SUFFICES ASSUME TypeOK, RegistryInv, NEW id \in DOMAIN registeredRequests
               PROVE  LET answers ==
                            {n \in PendingResponses : toClient[n].id = id}
                      IN  IF id > imuaInboundNonce THEN answers = {}
                          ELSE \E n \in answers : answers = {n}
    BY DEF RegisteredInOnePlace
  <2>1. id \in Nat /\ imuaInboundNonce \in Nat
    BY DEF TypeOK, ClientTypeOK, LzTypeOK
  <2>2. CASE id > imuaInboundNonce
    BY <2>1, <2>2 DEF RegistryInv, AnswersAreDue
  <2>3. CASE ~ (id > imuaInboundNonce)
    <3> PICK n \in PendingResponses : toClient[n].id = id
      BY <2>1, <2>3 DEF RegistryInv, ExecutedAreAnswered
    <3>1. {k \in PendingResponses : toClient[k].id = id} = {n}
      BY DEF RegistryInv, AnswersAreUnique
    <3> QED
      BY <2>3, <3>1
  <2> QED
    BY <2>2, <2>3
<1> QED
  BY <1>1, BridgeTypeCorrect, RegistryCorrect, PTL

------------------------------------------------------------------------------
(* Native restaking: the claim flag of a capsule, its solvency and the     *)
(* spacing of claims.                                                      *)

CapsuleInv == ClaimFlagIsExact /\ CapsuleSolvent /\ ClaimsAreSpaced

------------------------------------------------------------------------------
(* For the capsules a step of the bridge is one of five kinds.             *)

\* The ETH a capsule holds beyond what is withdrawable never shrinks.
Uncommitted ==
    \A s \in Stakers :
        withdrawableBalance'[s] + ethBalance[s]
            <= withdrawableBalance[s] + ethBalance'[s]

NoClaimStep ==
    /\ UNCHANGED <<inClaimProgress, lastClaimTimestamp, registeredRequests>>
    /\ now' >= now
    /\ Uncommitted

Registers(m) ==
    LET new == Len(toImua) + 1
    IN  /\ DOMAIN registeredRequests' = DOMAIN registeredRequests \cup {new}
        /\ registeredRequests'[new].act = m.act
        /\ registeredRequests'[new].staker = m.staker
        /\ registeredRequests'[new].amount = m.amount
        /\ \A id \in DOMAIN registeredRequests \ {new} :
               registeredRequests'[id] = registeredRequests[id]

Unclaimed == UNCHANGED <<inClaimProgress, withdrawableBalance,
                         lastClaimTimestamp, ethBalance, now>>

LstClaimStep ==
    \E m \in Request :
        /\ m.act = "REQUEST_WITHDRAW_LST"
        /\ Registers(m)
        /\ Unclaimed

NstClaimStep ==
    \E s \in Stakers, amount \in Nat :
        /\ StartClaimNST(s, amount)
        /\ Registers([act |-> "REQUEST_WITHDRAW_NST", staker |-> s,
                      amount |-> amount])
        /\ UNCHANGED <<withdrawableBalance, lastClaimTimestamp, ethBalance, now>>

LstResponseStep ==
    \E id \in DOMAIN registeredRequests :
        /\ registeredRequests[id].act # "REQUEST_WITHDRAW_NST"
        /\ DeleteRegistered(id)
        /\ Unclaimed

NstResponseStep ==
    \E id \in DOMAIN registeredRequests, success \in BOOLEAN :
        /\ registeredRequests[id].act = "REQUEST_WITHDRAW_NST"
        /\ HandleNSTResponse(registeredRequests[id].staker,
                             registeredRequests[id].amount, success)
        /\ DeleteRegistered(id)
        /\ UNCHANGED <<ethBalance, now>>

CapsuleStep == \/ NoClaimStep \/ LstClaimStep \/ NstClaimStep
               \/ LstResponseStep \/ NstResponseStep

\* Registering a request, read off ProcessRequestWithResponse.
LEMMA RegistersRequest ==
    ASSUME TypeOK, NEW m \in Request, ProcessRequestWithResponse(m)
    PROVE  Registers(m)
BY DEF ProcessRequestWithResponse, RequestNonce, Registers

LEMMA UntouchedCapsules ==
    ASSUME TypeOK,
           UNCHANGED <<inClaimProgress, lastClaimTimestamp, registeredRequests,
                       withdrawableBalance, ethBalance, now>>
    PROVE  NoClaimStep
BY DEF NoClaimStep, Uncommitted, TypeOK, ClientTypeOK, CapsuleTypeOK

\* Paying out and refunding move the two balances together.
LEMMA BalancesMoveTogether ==
    ASSUME TypeOK, NEW s \in Stakers, NEW x \in Nat,
           \/ CapsuleWithdraw(s, x)
           \/ \E v \in Validators, value, fee \in Amounts :
                  CallBeaconWithdrawalPrecompile(s, v, value, fee)
           \/ /\ ethBalance' = [ethBalance EXCEPT ![s] = @ + x]
              /\ UNCHANGED withdrawableBalance
    PROVE  Uncommitted
<1> /\ withdrawableBalance \in [Stakers -> Nat]
    /\ ethBalance \in [Stakers -> Nat]
  BY DEF TypeOK, ClientTypeOK, CapsuleTypeOK
<1> SUFFICES ASSUME NEW r \in Stakers
             PROVE  withdrawableBalance'[r] + ethBalance[r]
                        <= withdrawableBalance[r] + ethBalance'[r]
  BY DEF Uncommitted
<1>1. CASE CapsuleWithdraw(s, x)
  BY <1>1 DEF CapsuleWithdraw
<1>2. CASE \E v \in Validators, value, fee \in Amounts :
               CallBeaconWithdrawalPrecompile(s, v, value, fee)
  <2> PICK v \in Validators, value \in Amounts, fee \in Amounts :
          CallBeaconWithdrawalPrecompile(s, v, value, fee)
    BY <1>2
  <2> value \in Nat /\ fee \in Nat
    BY AmountsAssumption
  <2> QED
    BY DEF CallBeaconWithdrawalPrecompile
<1>3. CASE /\ ethBalance' = [ethBalance EXCEPT ![s] = @ + x]
           /\ UNCHANGED withdrawableBalance
  BY <1>3
<1> QED
  BY <1>1, <1>2, <1>3

LEMMA ClientCapsuleKinds ==
    ASSUME TypeOK, Client
    PROVE  CapsuleStep
<1> ClientStep
  BY DEF Client
<1> now \in Nat
  BY DEF TypeOK, ClientTypeOK, CapsuleTypeOK
<1> USE DEF capsuleVars, beaconVars
<1>1. ASSUME NEW s \in Stakers, NEW t \in LSTs, NEW amount \in Amounts,
             NEW act \in {"REQUEST_DEPOSIT_LST",
                          "REQUEST_DEPOSIT_THEN_DELEGATE_TO"},
             DepositInVault(act, s, t, amount)
      PROVE  NoClaimStep
  BY <1>1, UntouchedCapsules DEF DepositInVault, ProcessRequest
<1>2. ASSUME NEW s \in Stakers, NEW t \in LSTs, NEW amount \in Amounts,
             ClaimPrincipalFromImuachain(s, t, amount)
      PROVE  LstClaimStep
  <2> DEFINE m == Message("REQUEST_WITHDRAW_LST", s, t, amount, FALSE)
  <2>1. m \in Request /\ m.act = "REQUEST_WITHDRAW_LST"
    BY MessageType, AmountsAssumption
    DEF RequestActs, WithdrawalActs, Tokens, Message
  <2>2. ProcessRequestWithResponse(m) /\ Unclaimed
    BY <1>2 DEF ClaimPrincipalFromImuachain, Unclaimed
  <2> HIDE DEF m
  <2> QED
    BY <2>1, <2>2, RegistersRequest DEF LstClaimStep
<1>3. ASSUME NEW s \in Stakers, NEW t \in Tokens, NEW amount \in Amounts,
             NEW act \in DelegationActs, NEW instant \in BOOLEAN,
             Delegation(act, s, t, amount, instant)
      PROVE  NoClaimStep
  BY <1>3, UntouchedCapsules DEF Delegation, ProcessRequest
<1>4. ASSUME NEW s \in Stakers, NEW v \in Validators, NEW time \in 0..now,
             NEW balance \in Amounts,
             VerifyAndDepositNativeStake(s, v, time, balance)
      PROVE  NoClaimStep
  BY <1>4, UntouchedCapsules DEF VerifyAndDepositNativeStake, ProcessRequest
<1>5. ASSUME NEW s \in Stakers, NEW amount \in Amounts \cup {0},
             ClaimNSTFromImuachain(s, amount)
      PROVE  NstClaimStep
  <2> DEFINE m == Message("REQUEST_WITHDRAW_NST", s, NST, amount, FALSE)
             r == [act |-> "REQUEST_WITHDRAW_NST", staker |-> s,
                   amount |-> amount]
  <2>1. amount \in Nat
    BY AmountsAssumption
  <2>2. m \in Request
    BY <2>1, MessageType DEF RequestActs, WithdrawalActs, Tokens
  <2>3. m.act = r.act /\ m.staker = r.staker /\ m.amount = r.amount
    BY DEF Message
  <2>4. ProcessRequestWithResponse(m)
    BY <1>5 DEF ClaimNSTFromImuachain
  <2>5. Registers(m)
    BY <2>2, <2>4, RegistersRequest
  <2>6. Registers(r)
    BY <2>3, <2>5 DEF Registers
  <2> QED
    BY <1>5, <2>1, <2>6 DEF ClaimNSTFromImuachain, NstClaimStep
<1>6. ASSUME NEW s \in Stakers, NEW v \in Validators, NEW value \in Amounts,
             NEW fee \in Amounts, RequestBeaconWithdrawal(s, v, value, fee)
      PROVE  NoClaimStep
  <2>1. Uncommitted
    BY <1>6, 0 \in Nat, BalancesMoveTogether DEF RequestBeaconWithdrawal
  <2> QED
    BY <1>6, <2>1 DEF RequestBeaconWithdrawal, NoClaimStep
<1>7. ASSUME NEW s \in Stakers, NEW v \in Validators,
             CreateImuaCapsule(s) \/ Stake(s, v)
      PROVE  NoClaimStep
  BY <1>7, UntouchedCapsules DEF CreateImuaCapsule, Stake
<1>8. ASSUME NEW s \in Stakers, CreateImuaCapsule(s)
      PROVE  NoClaimStep
  BY <1>8, UntouchedCapsules DEF CreateImuaCapsule
<1>9. ASSUME NEW s \in Stakers, NEW amount \in Amounts,
             WithdrawNSTPrincipal(s, amount) \/ BeaconPayout(s, amount)
      PROVE  NoClaimStep
  <2>1. amount \in Nat
    BY AmountsAssumption
  <2>2. Uncommitted
    BY <1>9, <2>1, BalancesMoveTogether DEF WithdrawNSTPrincipal, BeaconPayout
  <2> QED
    BY <1>9, <2>2 DEF WithdrawNSTPrincipal, BeaconPayout, NoClaimStep
<1>10. ASSUME NEW s \in Stakers, NEW t \in LSTs, NEW amount \in Amounts,
              WithdrawLSTPrincipal(s, t, amount)
       PROVE  NoClaimStep
  BY <1>10, UntouchedCapsules DEF WithdrawLSTPrincipal
<1>11. ClientOwner => NoClaimStep
  BY UntouchedCapsules DEF ClientOwner, UpdateTvlLimit, ClientPause,
                           ClientUnpause, SetClientPaused
<1>12. Tick => NoClaimStep
  BY DEF Tick, NoClaimStep, Uncommitted, TypeOK, ClientTypeOK, CapsuleTypeOK
<1>13. ASSUME NEW n \in 1..Len(toClient), ClientLzReceive(n)
       PROVE  CapsuleStep
  <2>1. CASE /\ toClient[n].act = "RESPOND"
             /\ HandleResponse(toClient[n])
    <3> DEFINE id == toClient[n].id
               req == registeredRequests[id]
    <3>1. /\ id \in DOMAIN registeredRequests
          /\ DeleteRegistered(id)
          /\ UNCHANGED <<ethBalance, now>>
      BY <1>13, <2>1 DEF HandleResponse, ClientLzReceive
    <3>2. toClient[n].success \in BOOLEAN
      BY <2>1 DEF TypeOK, LzTypeOK, ClientMessage, Response,
                  AddWhitelistRequest, MarkBootstrapRequest
    <3>3. req \in CachedRequest
      BY <3>1 DEF TypeOK, ClientTypeOK
    <3>4. CASE IsNST(req.act)
      <4>1. req.act = "REQUEST_WITHDRAW_NST" /\ ~ IsLST(req.act)
        BY <3>3, <3>4 DEF CachedRequest, IsNST, IsLST
      <4>2. HandleNSTResponse(req.staker, req.amount, toClient[n].success)
        BY <2>1, <4>1 DEF HandleResponse
      <4> QED
        BY <3>1, <3>2, <4>1, <4>2 DEF NstResponseStep, CapsuleStep
    <3>5. CASE ~ IsNST(req.act)
      <4>1. Unclaimed
        BY <2>1, <3>1, <3>5 DEF HandleResponse, Unclaimed
      <4> QED
        BY <3>1, <3>5, <4>1 DEF LstResponseStep, CapsuleStep, IsNST
    <3> QED
      BY <3>4, <3>5
  <2>2. CASE \/ AfterReceiveMarkBootstrapRequest
             \/ AfterReceiveAddWhitelistTokenRequest(toClient[n].token,
                                                     toClient[n].tvl)
    BY <1>13, <2>2, UntouchedCapsules
    DEF ClientLzReceive, AfterReceiveMarkBootstrapRequest,
        AfterReceiveAddWhitelistTokenRequest, CapsuleStep
  <2> QED
    BY <1>13, <2>1, <2>2 DEF ClientLzReceive
<1>14. NativeRestaking => CapsuleStep
  BY <1>4, <1>5, <1>6, <1>7, <1>8 DEF NativeRestaking, CapsuleStep
<1>15. LstRequest => CapsuleStep
  BY <1>1, <1>2 DEF LstRequest, Deposit, DepositThenDelegateTo, CapsuleStep
<1>16. DelegationRequest => CapsuleStep
  BY <1>3 DEF DelegationRequest, DelegateTo, UndelegateFrom, DelegationActs,
              CapsuleStep
<1>17. PrincipalWithdrawal \/ BeaconChain => CapsuleStep
  BY <1>9, <1>10, <1>12 DEF PrincipalWithdrawal, BeaconChain, CapsuleStep
<1> QED
  BY <1>11, <1>13, <1>14, <1>15, <1>16, <1>17
  DEF ClientStep, ClientDelivery, CapsuleStep

LEMMA CapsuleKinds == TypeOK /\ [Next]_vars => CapsuleStep
<1> SUFFICES ASSUME TypeOK, [Next]_vars PROVE CapsuleStep
  OBVIOUS
<1>1. CASE Client
  BY <1>1, ClientCapsuleKinds
<1>2. CASE Imua \/ UNCHANGED vars
  BY <1>2, UntouchedCapsules
  DEF Imua, vars, clientVars, capsuleVars, beaconVars, CapsuleStep
<1> QED
  BY <1>1, <1>2 DEF Next

------------------------------------------------------------------------------
(* The invariant, kind by kind.                                            *)

LEMMA CapsuleTypes ==
    ASSUME TypeOK
    PROVE  /\ inClaimProgress \in [Stakers -> BOOLEAN]
           /\ withdrawableBalance \in [Stakers -> Nat]
           /\ lastClaimTimestamp \in [Stakers -> Nat]
           /\ ethBalance \in [Stakers -> Nat]
           /\ now \in Nat
           /\ \A s \in Stakers : \A id \in ClaimsOf(s) :
                  registeredRequests[id].amount \in Nat
BY DEF TypeOK, ClientTypeOK, CapsuleTypeOK, ClaimsOf, CachedRequest

\* A nonce is registered only once, so a new claim joins the ones before it.
LEMMA ClaimsAfterRegistering ==
    ASSUME TypeOK, CachedIsSent, NEW m, Registers(m), NEW s \in Stakers
    PROVE  LET new == Len(toImua) + 1
               nst == m.act = "REQUEST_WITHDRAW_NST" /\ m.staker = s
           IN  /\ ClaimsOf(s)' = IF nst THEN ClaimsOf(s) \cup {new}
                                        ELSE ClaimsOf(s)
               /\ \A id \in ClaimsOf(s) :
                      registeredRequests'[id] = registeredRequests[id]
               /\ registeredRequests'[new].amount = m.amount
<1>1. Len(toImua) \in Nat
  BY LenProperties DEF TypeOK, LzTypeOK
<1>2. Len(toImua) + 1 \notin DOMAIN registeredRequests
  BY <1>1 DEF CachedIsSent
<1> QED
  BY <1>2 DEF Registers, ClaimsOf

LEMMA ClaimsAfterDeleting ==
    ASSUME NEW id \in DOMAIN registeredRequests, DeleteRegistered(id),
           NEW s \in Stakers
    PROVE  /\ ClaimsOf(s)' = ClaimsOf(s) \ {id}
           /\ \A i \in ClaimsOf(s)' :
                  registeredRequests'[i] = registeredRequests[i]
BY DEF DeleteRegistered, ClaimsOf

LEMMA NoClaimStepKeeps ==
    ASSUME TypeOK, TypeOK', CapsuleInv, NoClaimStep
    PROVE  CapsuleInv'
<1> USE CapsuleTypes
<1>1. ClaimFlagIsExact'
  BY DEF CapsuleInv, ClaimFlagIsExact, NoClaimStep, ClaimsOf
<1>2. CapsuleSolvent'
  <2> SUFFICES ASSUME NEW s \in Stakers
               PROVE  /\ withdrawableBalance'[s] <= ethBalance'[s]
                      /\ \A id \in ClaimsOf(s)' :
                             withdrawableBalance'[s]
                                 + registeredRequests'[id].amount
                                 <= ethBalance'[s]
    BY DEF CapsuleSolvent, ClaimsOf
  <2>1. /\ withdrawableBalance[s] \in Nat /\ withdrawableBalance'[s] \in Nat
        /\ ethBalance[s] \in Nat /\ ethBalance'[s] \in Nat
    BY DEF TypeOK, ClientTypeOK, CapsuleTypeOK
  <2>2. withdrawableBalance'[s] + ethBalance[s]
            <= withdrawableBalance[s] + ethBalance'[s]
    BY DEF NoClaimStep, Uncommitted
  <2>3. ClaimsOf(s)' = ClaimsOf(s) /\ registeredRequests' = registeredRequests
    BY DEF NoClaimStep, ClaimsOf
  <2>4. withdrawableBalance'[s] <= ethBalance'[s]
    BY <2>1, <2>2 DEF CapsuleInv, CapsuleSolvent
  <2>5. ASSUME NEW id \in ClaimsOf(s)
        PROVE  withdrawableBalance'[s] + registeredRequests[id].amount
                   <= ethBalance'[s]
    BY <2>1, <2>2 DEF CapsuleInv, CapsuleSolvent
  <2> QED
    BY <2>3, <2>4, <2>5
<1>3. ClaimsAreSpaced'
  <2> MinClaimInterval \in Nat
    BY CapsuleConstantsAssumption
  <2> now \in Nat /\ now' \in Nat /\ now' >= now
    BY DEF NoClaimStep, TypeOK, ClientTypeOK, CapsuleTypeOK
  <2> QED
    BY DEF CapsuleInv, ClaimsAreSpaced, NoClaimStep, ClaimsOf
<1> QED
  BY <1>1, <1>2, <1>3 DEF CapsuleInv

\* Registering or deleting a request for an LST touches no claim.
LEMMA LstStepKeeps ==
    ASSUME TypeOK, CachedIsSent, CapsuleInv,
           LstClaimStep \/ LstResponseStep
    PROVE  CapsuleInv'
<1>1. /\ Unclaimed
      /\ \A s \in Stakers :
             /\ ClaimsOf(s)' = ClaimsOf(s)
             /\ \A id \in ClaimsOf(s) :
                    registeredRequests'[id] = registeredRequests[id]
  <2>1. CASE LstClaimStep
    <3> PICK m \in Request : /\ m.act = "REQUEST_WITHDRAW_LST"
                             /\ Registers(m)
                             /\ Unclaimed
      BY <2>1 DEF LstClaimStep
    <3> QED
      BY ClaimsAfterRegistering
  <2>2. CASE LstResponseStep
    <3> PICK id \in DOMAIN registeredRequests :
            /\ registeredRequests[id].act # "REQUEST_WITHDRAW_NST"
            /\ DeleteRegistered(id)
            /\ Unclaimed
      BY <2>2 DEF LstResponseStep
    <3>1. \A s \in Stakers : id \notin ClaimsOf(s)
      BY DEF ClaimsOf
    <3> QED
      BY <3>1, ClaimsAfterDeleting
  <2> QED
    BY <2>1, <2>2
<1>2. ClaimFlagIsExact'
  BY <1>1 DEF CapsuleInv, ClaimFlagIsExact, Unclaimed
<1>3. CapsuleSolvent'
  BY <1>1 DEF CapsuleInv, CapsuleSolvent, Unclaimed
<1>4. ClaimsAreSpaced'
  BY <1>1 DEF CapsuleInv, ClaimsAreSpaced, Unclaimed
<1> QED
  BY <1>2, <1>3, <1>4 DEF CapsuleInv

\* startClaimNST checks the flag, the balance and the interval, which is what
\* the three properties ask of a new claim.
LEMMA NstClaimStepKeeps ==
    ASSUME TypeOK, CachedIsSent, CapsuleInv, NstClaimStep
    PROVE  CapsuleInv'
<1> PICK s \in Stakers, amount \in Nat :
        /\ StartClaimNST(s, amount)
        /\ Registers([act |-> "REQUEST_WITHDRAW_NST", staker |-> s,
                      amount |-> amount])
        /\ UNCHANGED <<withdrawableBalance, lastClaimTimestamp, ethBalance, now>>
  BY DEF NstClaimStep
<1> DEFINE m == [act |-> "REQUEST_WITHDRAW_NST", staker |-> s,
                 amount |-> amount]
           new == Len(toImua) + 1
<1>1. /\ ClaimsOf(s)' = ClaimsOf(s) \cup {new}
      /\ \A id \in ClaimsOf(s) :
             registeredRequests'[id] = registeredRequests[id]
      /\ registeredRequests'[new].amount = amount
  <2>1. /\ m.act = "REQUEST_WITHDRAW_NST" /\ m.staker = s
        /\ m.amount = amount /\ Registers(m)
    OBVIOUS
  <2> HIDE DEF m
  <2> QED
    BY <2>1, ClaimsAfterRegistering
<1>2. ASSUME NEW r \in Stakers, r # s
      PROVE  /\ ClaimsOf(r)' = ClaimsOf(r)
             /\ \A id \in ClaimsOf(r) :
                    registeredRequests'[id] = registeredRequests[id]
  <2>1. m.staker # r /\ Registers(m)
    BY <1>2
  <2> HIDE DEF m
  <2> QED
    BY <2>1, ClaimsAfterRegistering
<1>3. /\ inClaimProgress[s] = FALSE
      /\ inClaimProgress' = [inClaimProgress EXCEPT ![s] = TRUE]
      /\ withdrawableBalance[s] + amount <= ethBalance[s]
      /\ now >= lastClaimTimestamp[s] + MinClaimInterval
  BY CapsuleTypes DEF StartClaimNST
<1>4. ClaimsOf(s) = {}
  BY <1>3 DEF CapsuleInv, ClaimFlagIsExact
<1> HIDE DEF m, new
<1>5. ClaimFlagIsExact'
  <2> SUFFICES ASSUME NEW r \in Stakers
               PROVE  IF inClaimProgress'[r]
                      THEN \E id \in ClaimsOf(r)' : ClaimsOf(r)' = {id}
                      ELSE ClaimsOf(r)' = {}
    BY DEF ClaimFlagIsExact
  <2>1. CASE r = s
    BY <1>1, <1>3, <1>4, <2>1, CapsuleTypes
  <2>2. CASE r # s
    BY <1>2, <1>3, <2>2, CapsuleTypes DEF CapsuleInv, ClaimFlagIsExact
  <2> QED
    BY <2>1, <2>2
<1>6. CapsuleSolvent'
  <2> SUFFICES ASSUME NEW r \in Stakers
               PROVE  /\ withdrawableBalance[r] <= ethBalance[r]
                      /\ \A id \in ClaimsOf(r)' :
                             withdrawableBalance[r]
                                 + registeredRequests'[id].amount
                                 <= ethBalance[r]
    BY DEF CapsuleSolvent
  <2>1. CASE r = s
    BY <1>1, <1>3, <1>4, <2>1 DEF CapsuleInv, CapsuleSolvent
  <2>2. CASE r # s
    BY <1>2, <2>2 DEF CapsuleInv, CapsuleSolvent
  <2> QED
    BY <2>1, <2>2
<1>7. ClaimsAreSpaced'
  BY <1>1, <1>2, <1>3, <1>4 DEF CapsuleInv, ClaimsAreSpaced
<1> QED
  BY <1>5, <1>6, <1>7 DEF CapsuleInv

\* The response removes the only claim of its staker, so neither the balance
\* it unlocks nor the time it records is held against another claim.
LEMMA NstResponseStepKeeps ==
    ASSUME TypeOK, CapsuleInv, NstResponseStep
    PROVE  CapsuleInv'
<1> PICK id \in DOMAIN registeredRequests, success \in BOOLEAN :
        /\ registeredRequests[id].act = "REQUEST_WITHDRAW_NST"
        /\ HandleNSTResponse(registeredRequests[id].staker,
                             registeredRequests[id].amount, success)
        /\ DeleteRegistered(id)
        /\ UNCHANGED <<ethBalance, now>>
  BY DEF NstResponseStep
<1> PICK s \in Stakers, amount \in Nat :
        s = registeredRequests[id].staker /\ amount = registeredRequests[id].amount
  BY DEF TypeOK, ClientTypeOK, CachedRequest
<1>1. HandleNSTResponse(s, amount, success)
  OBVIOUS
<1>2. id \in ClaimsOf(s)
  BY DEF ClaimsOf
<1>3. ClaimsOf(s) = {id}
  BY <1>1, <1>2 DEF CapsuleInv, ClaimFlagIsExact
<1>4. ClaimsOf(s)' = {}
  BY <1>3, ClaimsAfterDeleting
<1>5. ASSUME NEW r \in Stakers, r # s
      PROVE  /\ ClaimsOf(r)' = ClaimsOf(r)
             /\ \A i \in ClaimsOf(r) :
                    registeredRequests'[i] = registeredRequests[i]
  <2>1. ClaimsOf(r) \ {id} = ClaimsOf(r)
    BY <1>5 DEF ClaimsOf
  <2>2. /\ ClaimsOf(r)' = ClaimsOf(r) \ {id}
        /\ \A i \in ClaimsOf(r)' :
               registeredRequests'[i] = registeredRequests[i]
    BY ClaimsAfterDeleting
  <2> QED
    BY <2>1, <2>2
<1>6. inClaimProgress' = [inClaimProgress EXCEPT ![s] = FALSE]
  BY <1>1 DEF HandleNSTResponse, EndClaimNST
<1>7. /\ withdrawableBalance'[s] <= ethBalance[s]
      /\ \A r \in Stakers \ {s} :
             /\ withdrawableBalance'[r] = withdrawableBalance[r]
             /\ lastClaimTimestamp'[r] = lastClaimTimestamp[r]
  BY <1>1, <1>2, CapsuleTypes
  DEF HandleNSTResponse, UnlockETHPrincipal, CapsuleInv, CapsuleSolvent
<1> SUFFICES ASSUME NEW r \in Stakers
             PROVE  /\ IF inClaimProgress'[r]
                       THEN \E i \in ClaimsOf(r)' : ClaimsOf(r)' = {i}
                       ELSE ClaimsOf(r)' = {}
                    /\ withdrawableBalance'[r] <= ethBalance[r]
                    /\ \A i \in ClaimsOf(r)' :
                           withdrawableBalance'[r]
                               + registeredRequests'[i].amount <= ethBalance[r]
                    /\ \A i \in ClaimsOf(r)' :
                           now >= lastClaimTimestamp'[r] + MinClaimInterval
  BY DEF CapsuleInv, ClaimFlagIsExact, CapsuleSolvent, ClaimsAreSpaced
<1>8. CASE r = s
  BY <1>4, <1>6, <1>7, <1>8, CapsuleTypes
<1>9. CASE r # s
  BY <1>5, <1>6, <1>7, <1>9, CapsuleTypes
  DEF CapsuleInv, ClaimFlagIsExact, CapsuleSolvent, ClaimsAreSpaced
<1> QED
  BY <1>8, <1>9

LEMMA CapsuleInvInit == Init => CapsuleInv
<1> SUFFICES ASSUME Init, NEW s \in Stakers
             PROVE  /\ inClaimProgress[s] = FALSE
                    /\ ClaimsOf(s) = {}
                    /\ withdrawableBalance[s] <= ethBalance[s]
  BY DEF CapsuleInv, ClaimFlagIsExact, CapsuleSolvent, ClaimsAreSpaced
<1> QED
  BY DEF Init, ClientInit, CapsuleInit, ClaimsOf

LEMMA CapsuleInvNext ==
    TypeOK /\ TypeOK' /\ RegistryInv /\ CapsuleInv /\ [Next]_vars => CapsuleInv'
BY CapsuleKinds, NoClaimStepKeeps, LstStepKeeps, NstClaimStepKeeps,
   NstResponseStepKeeps
DEF CapsuleStep, RegistryInv

\* The three properties of native claims hold together: each needs the others
\* (the response that unlocks ETH must have been for the only claim).
THEOREM CapsulesCorrect == Spec => []CapsuleInv
BY CapsuleInvInit, CapsuleInvNext, BridgeTypeCorrect, RegistryCorrect, PTL
DEF Spec

\* inClaimProgress is up exactly while one claim of the owner is outstanding.
THEOREM ClaimFlagCorrect == Spec => []ClaimFlagIsExact
BY CapsulesCorrect, PTL DEF CapsuleInv

\* A capsule can always pay what it has unlocked and what an outstanding
\* claim may still unlock.
THEOREM CapsulesStaySolvent == Spec => []CapsuleSolvent
BY CapsulesCorrect, PTL DEF CapsuleInv

\* MIN_CLAIM_INTERVAL separates an outstanding claim from the last granted.
THEOREM ClaimsStaySpaced == Spec => []ClaimsAreSpaced
BY CapsulesCorrect, PTL DEF CapsuleInv
------------------------------------------------------------------------------
(* The whitelist of the client chain and the tokens of Imuachain.          *)

\* The tokens on their way to the whitelist.
AwaitedTokens ==
    {n \in 1..Len(toClient) :
        /\ n > clientInboundNonce
        /\ toClient[n].act = "REQUEST_ADD_WHITELIST_TOKEN"}

\* Why the two chains never disagree on a token: the client chain knows only
\* tokens that Imuachain knows, one that it does not know yet is on its way
\* once, and a request is for a token of the whitelist.
TokensInv ==
    /\ whitelistedTokens \subseteq registeredTokens
    /\ \A n \in AwaitedTokens :
           toClient[n].token \in registeredTokens \ whitelistedTokens
    /\ \A m, n \in AwaitedTokens :
           toClient[m].token = toClient[n].token => m = n
    /\ DepositsAreAccepted

\* What a step does to the requests ...
RequestsStep ==
    /\ imuaInboundNonce' \in Nat /\ imuaInboundNonce' >= imuaInboundNonce
    /\ \/ UNCHANGED toImua
       \/ \E m \in Request : m.token \in whitelistedTokens /\ SendToImua(m)

\* ... and to the tokens and the messages about them.
NoTokenStep ==
    UNCHANGED <<toClient, clientInboundNonce, whitelistedTokens,
                registeredTokens>>

OtherMessageStep ==
    /\ \E m \in ClientMessage :
           m.act # "REQUEST_ADD_WHITELIST_TOKEN" /\ SendToClient(m)
    /\ UNCHANGED <<clientInboundNonce, whitelistedTokens, registeredTokens>>

RegisterStep ==
    /\ \E t \in Tokens \ registeredTokens, tvl \in Nat :
           /\ registeredTokens' = registeredTokens \cup {t}
           /\ SendToClient([act |-> "REQUEST_ADD_WHITELIST_TOKEN", token |-> t,
                            tvl |-> tvl])
    /\ UNCHANGED <<clientInboundNonce, whitelistedTokens>>

ReceiveStep ==
    /\ \E n \in 1..Len(toClient) :
           /\ VerifyAndUpdateClientNonce(n)
           /\ whitelistedTokens' =
                  IF toClient[n].act = "REQUEST_ADD_WHITELIST_TOKEN"
                  THEN whitelistedTokens \cup {toClient[n].token}
                  ELSE whitelistedTokens
    /\ UNCHANGED <<toClient, registeredTokens>>

TokensStep ==
    /\ RequestsStep
    /\ NoTokenStep \/ OtherMessageStep \/ RegisterStep \/ ReceiveStep

\* What the client gateway does is one of these.
LEMMA ClientTokenSteps ==
    ASSUME TypeOK, Client
    PROVE  TokensStep
<1>1. ClientStep /\ UNCHANGED <<toClient, imuaInboundNonce, registeredTokens>>
  BY DEF Client, imuaVars
<1>2. imuaInboundNonce' \in Nat /\ imuaInboundNonce' >= imuaInboundNonce
  BY <1>1 DEF TypeOK, LzTypeOK
<1>3. ASSUME NEW act \in RequestActs, NEW s \in Stakers,
             NEW t \in whitelistedTokens, NEW amount \in Nat,
             NEW instant \in BOOLEAN,
             SendToImua(Message(act, s, t, amount, instant))
      PROVE  RequestsStep
  <2> DEFINE m == Message(act, s, t, amount, instant)
  <2>1. m \in Request
    BY MessageType DEF TypeOK, ClientTypeOK
  <2>2. m.token = t
    BY DEF Message
  <2> HIDE DEF m
  <2>3. SendToImua(m)
    BY <1>3 DEF m
  <2> QED
    BY <1>2, <2>1, <2>2, <2>3 DEF RequestsStep
<1>4. CASE LstRequest
  <2>1. PICK s \in Stakers, t \in LSTs, amount \in Amounts :
            \/ Deposit(s, t, amount)
            \/ DepositThenDelegateTo(s, t, amount)
            \/ ClaimPrincipalFromImuachain(s, t, amount)
    BY <1>4 DEF LstRequest
  <2>2. /\ t \in whitelistedTokens
        /\ UNCHANGED <<clientInboundNonce, whitelistedTokens>>
        /\ \E act \in RequestActs : SendToImua(Message(act, s, t, amount, FALSE))
    BY <2>1 DEF Deposit, DepositThenDelegateTo, DepositInVault,
        ClaimPrincipalFromImuachain, ProcessRequest, SendMsgToImuachain,
        ProcessRequestWithResponse, RequestActs, DepositActs, WithdrawalActs
  <2> QED
    BY <1>1, <1>3, <2>2 DEF TokensStep, NoTokenStep
<1>5. CASE DelegationRequest
  <2>1. PICK s \in Stakers, t \in Tokens, amount \in Amounts :
            \/ DelegateTo(s, t, amount)
            \/ \E instant \in BOOLEAN : UndelegateFrom(s, t, amount, instant)
    BY <1>5 DEF DelegationRequest
  <2>2. /\ t \in whitelistedTokens
        /\ UNCHANGED <<clientInboundNonce, whitelistedTokens>>
        /\ \E act \in RequestActs, instant \in BOOLEAN :
               SendToImua(Message(act, s, t, amount, instant))
    BY <2>1 DEF DelegateTo, UndelegateFrom, Delegation, ProcessRequest,
        SendMsgToImuachain, RequestActs, DelegationActs
  <2> QED
    BY <1>1, <1>3, <2>2 DEF TokensStep, NoTokenStep
<1>6. CASE NativeRestaking
  <2>1. PICK s \in Stakers :
            \/ CreateImuaCapsule(s)
            \/ \E v \in Validators : Stake(s, v)
            \/ \E v \in Validators, time \in 0..now, balance \in Amounts :
                   VerifyAndDepositNativeStake(s, v, time, balance)
            \/ \E amount \in Amounts \cup {0} : ClaimNSTFromImuachain(s, amount)
            \/ \E v \in Validators, value, fee \in Amounts :
                   RequestBeaconWithdrawal(s, v, value, fee)
    BY <1>6 DEF NativeRestaking
  <2>2. /\ NST \in whitelistedTokens
        /\ UNCHANGED <<clientInboundNonce, whitelistedTokens>>
    BY <2>1 DEF CreateImuaCapsule, Stake, VerifyAndDepositNativeStake,
        ClaimNSTFromImuachain, RequestBeaconWithdrawal, NativeRestakingEnabled
  <2>3. \/ UNCHANGED toImua
        \/ \E act \in RequestActs, amount \in Nat :
               SendToImua(Message(act, s, NST, amount, FALSE))
    <3>1. ASSUME NEW v \in Validators, NEW time \in 0..now,
                 NEW balance \in Amounts,
                 VerifyAndDepositNativeStake(s, v, time, balance)
          PROVE  \E act \in RequestActs, amount \in Nat :
                     SendToImua(Message(act, s, NST, amount, FALSE))
      <4>1. DepositAmount(balance) \in Nat
        BY DEF DepositAmount
      <4>2. SendToImua(Message("REQUEST_DEPOSIT_NST", s, NST,
                               DepositAmount(balance), FALSE))
        BY <3>1 DEF VerifyAndDepositNativeStake, ProcessRequest,
            SendMsgToImuachain
      <4> QED
        BY <4>1, <4>2 DEF RequestActs, DepositActs
    <3>2. ASSUME NEW amount \in Amounts \cup {0}, ClaimNSTFromImuachain(s, amount)
          PROVE  \E act \in RequestActs, x \in Nat :
                     SendToImua(Message(act, s, NST, x, FALSE))
      BY <3>2 DEF ClaimNSTFromImuachain, ProcessRequestWithResponse,
          SendMsgToImuachain, RequestActs, WithdrawalActs
    <3>3. \/ CreateImuaCapsule(s)
          \/ \E v \in Validators : Stake(s, v)
          \/ \E v \in Validators, value, fee \in Amounts :
                 RequestBeaconWithdrawal(s, v, value, fee)
          => UNCHANGED toImua
      BY DEF CreateImuaCapsule, Stake, RequestBeaconWithdrawal
    <3> QED
      BY <2>1, <3>1, <3>2, <3>3
  <2>4. RequestsStep
    BY <1>2, <1>3, <2>2, <2>3 DEF RequestsStep
  <2> QED
    BY <1>1, <2>2, <2>4 DEF TokensStep, NoTokenStep
<1>7. CASE PrincipalWithdrawal \/ ClientOwner \/ BeaconChain
  <2>1. UNCHANGED <<toImua, clientInboundNonce, whitelistedTokens>>
    BY <1>7 DEF PrincipalWithdrawal, ClientOwner, BeaconChain,
        WithdrawLSTPrincipal, WithdrawNSTPrincipal, UpdateTvlLimit,
        ClientPause, ClientUnpause, SetClientPaused, BeaconPayout, Tick
  <2> QED
    BY <1>1, <1>2, <2>1 DEF TokensStep, RequestsStep, NoTokenStep
<1>8. CASE ClientDelivery
  <2>1. PICK n \in 1..Len(toClient) : ClientLzReceive(n)
    BY <1>8 DEF ClientDelivery
  <2>2. /\ VerifyAndUpdateClientNonce(n)
        /\ UNCHANGED toImua
        /\ whitelistedTokens' =
               IF toClient[n].act = "REQUEST_ADD_WHITELIST_TOKEN"
               THEN whitelistedTokens \cup {toClient[n].token}
               ELSE whitelistedTokens
    BY <2>1 DEF ClientLzReceive, HandleResponse,
        AfterReceiveAddWhitelistTokenRequest, AfterReceiveMarkBootstrapRequest
  <2>3. ReceiveStep
    BY <1>1, <2>2 DEF ReceiveStep
  <2> QED
    BY <1>2, <2>2, <2>3 DEF TokensStep, RequestsStep
<1> QED
  BY <1>1, <1>4, <1>5, <1>6, <1>7, <1>8 DEF ClientStep

\* And so is what the gateway on Imuachain does.
LEMMA ImuaTokenSteps ==
    ASSUME TypeOK, Imua
    PROVE  TokensStep
<1>1. /\ ImuaStep
      /\ UNCHANGED <<toImua, clientInboundNonce, whitelistedTokens>>
  BY DEF Imua, clientVars
<1>2. CASE ImuaDelivery
  <2>1. PICK n \in 1..Len(toImua) : ImuaLzReceive(n)
    BY <1>2 DEF ImuaDelivery
  <2>2. RequestsStep
    BY <1>1, <2>1 DEF RequestsStep, ImuaLzReceive, VerifyAndUpdateImuaNonce,
        IsExpectedNonce, TypeOK, LzTypeOK
  <2>3. /\ UNCHANGED registeredTokens
        /\ \/ UNCHANGED toClient
           \/ \E success \in BOOLEAN : Respond(n, success)
    BY <2>1 DEF ImuaLzReceive, HandleDeposit, HandleWithdrawal,
        HandleDelegation, HandleDepositAndDelegate, NoResponse
  <2>4. ASSUME NEW success \in BOOLEAN, Respond(n, success)
        PROVE  OtherMessageStep
    <3> DEFINE m == [act |-> "RESPOND", id |-> n, success |-> success]
    <3>1. m \in ClientMessage /\ m.act # "REQUEST_ADD_WHITELIST_TOKEN"
      BY DEF ClientMessage, Response
    <3>2. SendToClient(m)
      BY <2>4 DEF Respond
    <3> HIDE DEF m
    <3> QED
      BY <1>1, <2>3, <3>1, <3>2 DEF OtherMessageStep
  <2> QED
    BY <1>1, <2>2, <2>3, <2>4 DEF TokensStep, NoTokenStep
<1>3. CASE ImuaOwner
  <2>1. RequestsStep
    <3>1. UNCHANGED imuaInboundNonce
      BY <1>3 DEF ImuaOwner, AddWhitelistToken, MarkBootstrap, ImuaPause,
          ImuaUnpause, SetImuaPaused, Fund
    <3> QED
      BY <1>1, <3>1 DEF RequestsStep, TypeOK, LzTypeOK
  <2>2. CASE \E t \in Tokens, tvl \in TvlLimits : AddWhitelistToken(t, tvl)
    <3>1. RegisterStep
      BY <1>1, <2>2 DEF RegisterStep, AddWhitelistToken
    <3> QED
      BY <2>1, <3>1 DEF TokensStep
  <2>3. CASE MarkBootstrap
    <3> DEFINE m == [act |-> "REQUEST_MARK_BOOTSTRAP"]
    <3>1. m \in ClientMessage /\ m.act # "REQUEST_ADD_WHITELIST_TOKEN"
      BY DEF ClientMessage, MarkBootstrapRequest
    <3>2. SendToClient(m) /\ UNCHANGED registeredTokens
      BY <2>3 DEF MarkBootstrap
    <3> HIDE DEF m
    <3>3. OtherMessageStep
      BY <1>1, <3>1, <3>2 DEF OtherMessageStep
    <3> QED
      BY <2>1, <3>3 DEF TokensStep
  <2>4. CASE ImuaPause \/ ImuaUnpause \/ Fund
    BY <1>1, <2>1, <2>4 DEF ImuaPause, ImuaUnpause, SetImuaPaused, Fund,
        TokensStep, NoTokenStep
  <2> QED
    BY <1>3, <2>2, <2>3, <2>4 DEF ImuaOwner
<1>4. CASE Ledger
  <2>1. UNCHANGED <<imuaInboundNonce, toClient, registeredTokens>>
    BY <1>4 DEF Ledger, Slash, CompleteUnbonding, NativeReward
  <2> QED
    BY <1>1, <2>1 DEF TokensStep, RequestsStep, NoTokenStep, TypeOK, LzTypeOK
<1> QED
  BY <1>1, <1>2, <1>3, <1>4 DEF ImuaStep

\* Every step of the bridge is one of these.
LEMMA TokenSteps == TypeOK /\ [Next]_vars => TokensStep
<1>1. CASE TypeOK /\ UNCHANGED vars
  BY <1>1 DEF vars, clientVars, imuaVars, TokensStep, RequestsStep,
      NoTokenStep, TypeOK, LzTypeOK
<1> QED
  BY <1>1, ClientTokenSteps, ImuaTokenSteps DEF Next

\* A request is for a token of the whitelist, all of which Imuachain knows.
LEMMA RequestsStayAccepted ==
    ASSUME TypeOK, TokensInv, RequestsStep,
           registeredTokens \subseteq registeredTokens'
    PROVE  DepositsAreAccepted'
<1> SUFFICES ASSUME NEW id \in 1..Len(toImua'), id > imuaInboundNonce'
             PROVE  toImua'[id].token \in registeredTokens'
  BY DEF DepositsAreAccepted
<1>1. id > imuaInboundNonce
  BY DEF RequestsStep, TypeOK, LzTypeOK
<1>2. CASE UNCHANGED toImua
  BY <1>1, <1>2 DEF TokensInv, DepositsAreAccepted
<1>3. CASE \E m \in Request : m.token \in whitelistedTokens /\ SendToImua(m)
  <2>1. PICK m \in Request : m.token \in whitelistedTokens /\ SendToImua(m)
    BY <1>3
  <2>2. /\ Len(toImua') = Len(toImua) + 1
        /\ \A i \in 1..Len(toImua) : toImua'[i] = toImua[i]
        /\ toImua'[Len(toImua) + 1] = m
    BY <2>1, SendToImuaType DEF TypeOK, LzTypeOK
  <2>3. Len(toImua) \in Nat
    BY DEF TypeOK, LzTypeOK
  <2>4. id \in 1..Len(toImua) \/ id = Len(toImua) + 1
    BY <2>2, <2>3
  <2> QED
    BY <1>1, <2>1, <2>2, <2>4 DEF TokensInv, DepositsAreAccepted
<1> QED
  BY <1>2, <1>3 DEF RequestsStep

\* What is awaited after a message has been sent.
LEMMA AwaitedAfterSend ==
    ASSUME TypeOK, NEW m \in ClientMessage, SendToClient(m),
           UNCHANGED clientInboundNonce
    PROVE  /\ AwaitedTokens' =
                  IF m.act = "REQUEST_ADD_WHITELIST_TOKEN"
                  THEN AwaitedTokens \cup {Len(toClient) + 1} ELSE AwaitedTokens
           /\ \A n \in AwaitedTokens : toClient'[n] = toClient[n]
           /\ toClient'[Len(toClient) + 1] = m
           /\ Len(toClient) + 1 \notin AwaitedTokens
<1>1. /\ Len(toClient') = Len(toClient) + 1
      /\ \A i \in 1..Len(toClient) : toClient'[i] = toClient[i]
      /\ toClient'[Len(toClient) + 1] = m
  BY SendToClientType DEF TypeOK, LzTypeOK
<1>2. Len(toClient) \in Nat /\ clientInboundNonce \in 0..Len(toClient)
  BY DEF TypeOK, LzTypeOK
<1>3. 1..Len(toClient') = (1..Len(toClient)) \cup {Len(toClient) + 1}
  BY <1>1, <1>2
<1>4. Len(toClient) + 1 > clientInboundNonce
      /\ Len(toClient) + 1 \notin 1..Len(toClient)
  BY <1>2
<1> QED
  BY <1>1, <1>3, <1>4 DEF AwaitedTokens

\* None of the steps makes the chains disagree.
LEMMA TokensStepKeeps ==
    ASSUME TypeOK, TokensInv, TokensStep
    PROVE  TokensInv'
<1> RequestsStep
  BY DEF TokensStep
<1>1. CASE NoTokenStep
  <2>1. AwaitedTokens' = AwaitedTokens
    BY <1>1 DEF NoTokenStep, AwaitedTokens
  <2>2. DepositsAreAccepted'
    BY <1>1, RequestsStayAccepted DEF NoTokenStep
  <2> QED
    BY <1>1, <2>1, <2>2 DEF NoTokenStep, TokensInv
<1>2. CASE OtherMessageStep
  <2>1. PICK m \in ClientMessage :
            m.act # "REQUEST_ADD_WHITELIST_TOKEN" /\ SendToClient(m)
    BY <1>2 DEF OtherMessageStep
  <2>2. UNCHANGED <<clientInboundNonce, whitelistedTokens, registeredTokens>>
    BY <1>2 DEF OtherMessageStep
  <2>3. /\ AwaitedTokens' = AwaitedTokens
        /\ \A n \in AwaitedTokens : toClient'[n] = toClient[n]
    BY <2>1, <2>2, AwaitedAfterSend
  <2>4. DepositsAreAccepted'
    BY <2>2, RequestsStayAccepted
  <2> QED
    BY <2>2, <2>3, <2>4 DEF TokensInv
<1>3. CASE RegisterStep
  <2>1. PICK t \in Tokens \ registeredTokens, tvl \in Nat :
            /\ registeredTokens' = registeredTokens \cup {t}
            /\ SendToClient([act |-> "REQUEST_ADD_WHITELIST_TOKEN",
                             token |-> t, tvl |-> tvl])
    BY <1>3 DEF RegisterStep
  <2> DEFINE m == [act |-> "REQUEST_ADD_WHITELIST_TOKEN", token |-> t,
                   tvl |-> tvl]
             new == Len(toClient) + 1
  <2>2. UNCHANGED <<clientInboundNonce, whitelistedTokens>>
    BY <1>3 DEF RegisterStep
  <2>3. /\ m \in ClientMessage
        /\ m.act = "REQUEST_ADD_WHITELIST_TOKEN" /\ m.token = t
    BY DEF ClientMessage, AddWhitelistRequest
  <2>4. SendToClient(m)
    BY <2>1
  <2> HIDE DEF m
  <2>5. /\ AwaitedTokens' = AwaitedTokens \cup {new}
        /\ \A n \in AwaitedTokens : toClient'[n] = toClient[n]
        /\ toClient'[new] = m
    BY <2>2, <2>3, <2>4, AwaitedAfterSend
  <2>6. DepositsAreAccepted'
    BY <2>1, RequestsStayAccepted
  <2> HIDE DEF new
  <2>7. \A n \in AwaitedTokens' :
            /\ n = new => toClient'[n].token = t
            /\ n # new => /\ n \in AwaitedTokens
                          /\ toClient'[n].token = toClient[n].token
    BY <2>3, <2>5
  <2>8. t \notin registeredTokens /\ t \notin whitelistedTokens
    BY <2>1 DEF TokensInv
  <2>9. \A n \in AwaitedTokens : toClient[n].token # t
    BY <2>8 DEF TokensInv
  <2>10. \A n \in AwaitedTokens' :
             toClient'[n].token \in registeredTokens' \ whitelistedTokens'
    BY <2>1, <2>2, <2>7, <2>8 DEF TokensInv
  <2>11. \A k, n \in AwaitedTokens' :
             toClient'[k].token = toClient'[n].token => k = n
    BY <2>7, <2>9 DEF TokensInv
  <2>12. whitelistedTokens' \subseteq registeredTokens'
    BY <2>1, <2>2 DEF TokensInv
  <2> QED
    BY <2>6, <2>10, <2>11, <2>12 DEF TokensInv
<1>4. CASE ReceiveStep
  <2>1. PICK n \in 1..Len(toClient) :
            /\ VerifyAndUpdateClientNonce(n)
            /\ whitelistedTokens' =
                   IF toClient[n].act = "REQUEST_ADD_WHITELIST_TOKEN"
                   THEN whitelistedTokens \cup {toClient[n].token}
                   ELSE whitelistedTokens
    BY <1>4 DEF ReceiveStep
  <2>2. UNCHANGED <<toClient, registeredTokens>>
    BY <1>4 DEF ReceiveStep
  <2>3. /\ clientInboundNonce \in Nat
        /\ n = clientInboundNonce + 1 /\ clientInboundNonce' = n
    BY <2>1 DEF VerifyAndUpdateClientNonce, IsExpectedNonce, TypeOK, LzTypeOK
  <2>4. /\ AwaitedTokens' = AwaitedTokens \ {n}
        /\ toClient[n].act = "REQUEST_ADD_WHITELIST_TOKEN" => n \in AwaitedTokens
    BY <2>2, <2>3 DEF AwaitedTokens
  <2>5. DepositsAreAccepted'
    BY <2>2, RequestsStayAccepted
  <2>6. whitelistedTokens' \subseteq registeredTokens'
    BY <2>1, <2>2, <2>4 DEF TokensInv
  <2>7. \A k \in AwaitedTokens' :
            toClient'[k].token \in registeredTokens' \ whitelistedTokens'
    BY <2>1, <2>2, <2>4 DEF TokensInv
  <2>8. \A j, k \in AwaitedTokens' :
            toClient'[j].token = toClient'[k].token => j = k
    BY <2>2, <2>4 DEF TokensInv
  <2> QED
    BY <2>5, <2>6, <2>7, <2>8 DEF TokensInv
<1> QED
  BY <1>1, <1>2, <1>3, <1>4 DEF TokensStep

\* The two gateways start with the same tokens.
LEMMA TokensInit == Init => TokensInv
BY DEF Init, LzInit, ClientInit, ImuaInit, TokensInv, AwaitedTokens,
    DepositsAreAccepted

\* Nor does any step of the bridge.
LEMMA TokensNext == TypeOK /\ TokensInv /\ [Next]_vars => TokensInv'
BY TokenSteps, TokensStepKeeps

\* The tokens agree as the two properties say.
LEMMA TokensAgree == TokensInv => DepositsAreAccepted /\ TokensAreNew
BY DEF TokensInv, TokensAreNew, AwaitedTokens

\* No deposit and no whitelist message ever reverts for its token: neither
\* path is blocked by the two chains' disagreeing on the tokens.
THEOREM TokensNeverBlock == Spec => [](DepositsAreAccepted /\ TokensAreNew)
<1>1. Init => TypeOK /\ TokensInv
  BY TypeInit, TokensInit
<1>2. TypeOK /\ TokensInv /\ [Next]_vars => TypeOK' /\ TokensInv'
  BY TypeNext, TokensNext
<1> QED
  BY <1>1, <1>2, TokensAgree, PTL DEF Spec
==============================================================================
