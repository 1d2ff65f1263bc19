----------------------- MODULE BridgeAccounting_proofs -----------------------
(***************************************************************************)
(* Theorems about BridgeAccounting: the principal of the LST stakers is    *)
(* conserved over both chains, the vaults can pay, and the bridge          *)
(* implements RestakingLedger.                                             *)
(***************************************************************************)
EXTENDS BridgeAccounting, RestakingBridge_proofs, SumTheorems

USE StakersAssumption, AmountsAssumption, NSTAssumption,
    CapsuleConstantsAssumption

------------------------------------------------------------------------------
(* The messages on the path to Imuachain.                                  *)

\* A message about an LST names one, and an amount a caller may pass; one
\* about native restaking names the pseudo token.
MessagesInv ==
    \A id \in 1..Len(toImua) :
        /\ IsLST(toImua[id].act) =>
               toImua[id].token \in LSTs /\ toImua[id].amount \in Amounts
        /\ IsNST(toImua[id].act) => toImua[id].token = NST

\* What the client gateway puts on the path, if anything.
Sends(m) ==
    /\ m \in Request
    /\ IsLST(m.act) => m.token \in LSTs /\ m.amount \in Amounts
    /\ IsNST(m.act) => m.token = NST
    /\ SendToImua(m)

\* What a sum over messages needs to know of them.
LEMMA RequestFacts ==
    ASSUME LzTypeOK, NEW id \in 1..Len(toImua)
    PROVE  /\ toImua[id] \in Request
           /\ toImua[id].act \in RequestActs
           /\ toImua[id].staker \in Stakers
           /\ toImua[id].token \in Tokens
           /\ toImua[id].amount \in Nat
<1>1. toImua[id] \in Request
  BY DEF LzTypeOK
<1> QED
  BY <1>1 DEF Request

LEMMA InFlightType ==
    ASSUME LzTypeOK, NEW s \in Stakers, NEW t \in LSTs
    PROVE  /\ IsFiniteSet(UndeliveredDeposits(s, t))
           /\ \A id \in UndeliveredDeposits(s, t) :
                  [i \in DOMAIN toImua |-> toImua[i].amount][id] \in Nat
           /\ DepositsInFlight(s, t) \in Nat
<1>1. IsFiniteSet(1..Len(toImua)) /\ DOMAIN toImua = 1..Len(toImua)
  BY FS_Interval DEF LzTypeOK
<1>2. UndeliveredDeposits(s, t) \subseteq 1..Len(toImua)
  BY DEF UndeliveredDeposits, LzTypeOK
<1>3. IsFiniteSet(UndeliveredDeposits(s, t))
  BY <1>1, <1>2, FS_Subset
<1>4. \A id \in UndeliveredDeposits(s, t) :
          [i \in DOMAIN toImua |-> toImua[i].amount][id] \in Nat
  BY <1>1, <1>2, RequestFacts
<1> QED
  BY <1>3, <1>4, SumType DEF DepositsInFlight

\* Responses answer messages that were sent (RegistryInv).
LEMMA PendingAreSent ==
    ASSUME TypeOK, RegistryInv, NEW n \in PendingResponses
    PROVE  toClient[n].id \in 1..Len(toImua)
BY DEF RegistryInv, AnswersAreDue, CachedIsSent

LEMMA GrantsType ==
    ASSUME TypeOK, RegistryInv, NEW s \in Stakers, NEW t \in LSTs
    PROVE  /\ IsFiniteSet(PendingGrants(s, t))
           /\ PendingGrants(s, t) \subseteq PendingResponses
           /\ \A n \in PendingGrants(s, t) :
                  [i \in PendingResponses |->
                      toImua[toClient[i].id].amount][n] \in Nat
           /\ GrantsInFlight(s, t) \in Nat
<1>1. IsFiniteSet(1..Len(toClient))
  BY FS_Interval DEF TypeOK, LzTypeOK
<1>2. PendingGrants(s, t) \subseteq PendingResponses
  BY DEF PendingGrants
<1>3. IsFiniteSet(PendingGrants(s, t))
  <2>1. PendingGrants(s, t) \subseteq 1..Len(toClient)
    BY DEF PendingGrants, PendingResponses
  <2> QED
    BY <1>1, <2>1, FS_Subset
<1>4. \A n \in PendingGrants(s, t) :
          [i \in PendingResponses |-> toImua[toClient[i].id].amount][n] \in Nat
  BY <1>2, PendingAreSent, RequestFacts DEF TypeOK
<1> QED
  BY <1>2, <1>3, <1>4, SumType DEF GrantsInFlight

------------------------------------------------------------------------------
(* What sending and receiving does to the two sums.                        *)

\* x in the position of s and t, 0 elsewhere.
At(s, t, u, k, x) == IF u = s /\ k = t THEN x ELSE 0

LEMMA AtFacts ==
    ASSUME NEW s, NEW t, NEW u, NEW k, NEW x \in Nat
    PROVE  /\ At(s, t, u, k, x) \in Nat
           /\ At(s, t, u, k, -x) = - At(s, t, u, k, x)
           /\ At(s, t, u, k, 0) = 0
BY DEF At

\* A deposit that is sent is in flight.
LEMMA SendCounts ==
    ASSUME LzTypeOK, NEW m \in Request, SendToImua(m),
           UNCHANGED imuaInboundNonce, NEW u \in Stakers, NEW k \in LSTs
    PROVE  DepositsInFlight(u, k)' = DepositsInFlight(u, k)
               + IF m.act \in DepositActs THEN At(m.staker, m.token, u, k, m.amount)
                                          ELSE 0
<1> DEFINE new == Len(toImua) + 1
           S == UndeliveredDeposits(u, k)
           f == [i \in DOMAIN toImua |-> toImua[i].amount]
           g == [i \in DOMAIN toImua' |-> toImua'[i].amount]
<1>1. /\ Len(toImua') = new
      /\ toImua' \in Seq(Request)
      /\ imuaInboundNonce \in 0..Len(toImua)
      /\ \A i \in 1..Len(toImua) : toImua'[i] = toImua[i]
      /\ toImua'[new] = m
      /\ Len(toImua) \in Nat
      /\ DOMAIN toImua' = 1..new
      /\ DOMAIN toImua = 1..Len(toImua)
  BY SendToImuaType DEF LzTypeOK
<1>2. S \subseteq 1..Len(toImua) /\ new \notin S
  BY <1>1 DEF UndeliveredDeposits
<1>3. /\ IsFiniteSet(S)
      /\ \A i \in S : f[i] \in Nat /\ g[i] = f[i]
  <2>1. IsFiniteSet(S) /\ \A i \in S : f[i] \in Nat
    BY InFlightType
  <2>2. \A i \in S : g[i] = f[i]
    BY <1>1, <1>2
  <2> QED
    BY <2>1, <2>2
<1>4. SumFunctionOnSet(g, S) = SumFunctionOnSet(f, S)
  <2> HIDE DEF f, g, S
  <2> QED
    BY <1>3, SumSame
<1>5. DepositsInFlight(u, k)' = SumFunctionOnSet(g, UndeliveredDeposits(u, k)')
  BY DEF DepositsInFlight
<1>6. m.amount \in Nat /\ g[new] = m.amount
  BY <1>1 DEF Request
<1>7. CASE m.act \in DepositActs /\ m.staker = u /\ m.token = k
  <2>1. UndeliveredDeposits(u, k)' = S \cup {new}
    BY <1>1, <1>2, <1>7 DEF UndeliveredDeposits
  <2>2. SumFunctionOnSet(g, S \cup {new}) = g[new] + SumFunctionOnSet(g, S)
    <3>1. \A i \in S \cup {new} : g[i] \in Nat
      BY <1>3, <1>6
    <3> HIDE DEF f, g, S, new
    <3> QED
      BY <1>2, <1>3, <3>1, SumAdd
  <2>3. DepositsInFlight(u, k) = SumFunctionOnSet(f, S)
    BY DEF DepositsInFlight
  <2>4. DepositsInFlight(u, k) \in Nat
    BY InFlightType
  <2> QED
    BY <1>4, <1>5, <1>6, <1>7, <2>1, <2>2, <2>3, <2>4 DEF At
<1>8. CASE ~ (m.act \in DepositActs /\ m.staker = u /\ m.token = k)
  <2>1. UndeliveredDeposits(u, k)' = S
    BY <1>1, <1>2, <1>8 DEF UndeliveredDeposits
  <2>2. DepositsInFlight(u, k) \in Nat
    BY InFlightType
  <2>3. DepositsInFlight(u, k) = SumFunctionOnSet(f, S)
    BY DEF DepositsInFlight
  <2> QED
    BY <1>4, <1>5, <1>8, <2>1, <2>2, <2>3 DEF At
<1> QED
  BY <1>7, <1>8

\* A message that is executed is not.
LEMMA ExecuteCounts ==
    ASSUME LzTypeOK, NEW n \in 1..Len(toImua), VerifyAndUpdateImuaNonce(n),
           UNCHANGED toImua, NEW u \in Stakers, NEW k \in LSTs
    PROVE  /\ DepositsInFlight(u, k) = DepositsInFlight(u, k)'
                  + IF toImua[n].act \in DepositActs
                    THEN At(toImua[n].staker, toImua[n].token, u, k,
                            toImua[n].amount)
                    ELSE 0
           /\ DepositsInFlight(u, k)' \in Nat
<1> DEFINE S == UndeliveredDeposits(u, k)
           f == [i \in DOMAIN toImua |-> toImua[i].amount]
<1>1. /\ n = imuaInboundNonce + 1
      /\ imuaInboundNonce' = n
      /\ imuaInboundNonce \in Nat
      /\ n \in Nat
      /\ Len(toImua) \in Nat
      /\ DOMAIN toImua = 1..Len(toImua)
  BY DEF VerifyAndUpdateImuaNonce, IsExpectedNonce, LzTypeOK
<1>2. /\ IsFiniteSet(S)
      /\ \A i \in S : f[i] \in Nat
      /\ DepositsInFlight(u, k) = SumFunctionOnSet(f, S)
      /\ SumFunctionOnSet(f, S) \in Nat
  BY InFlightType DEF DepositsInFlight
<1>3. DepositsInFlight(u, k)' = SumFunctionOnSet(f, UndeliveredDeposits(u, k)')
  BY DEF DepositsInFlight
<1>4. UndeliveredDeposits(u, k)' = S \ {n}
  BY <1>1 DEF UndeliveredDeposits
<1>5. toImua[n].amount \in Nat /\ f[n] = toImua[n].amount
  BY <1>1, RequestFacts
<1>6. n \in S <=> /\ toImua[n].act \in DepositActs
                  /\ toImua[n].staker = u
                  /\ toImua[n].token = k
  BY <1>1 DEF UndeliveredDeposits
<1> HIDE DEF S, f
<1>7. CASE n \in S
  <2>1. /\ SumFunctionOnSet(f, S) = f[n] + SumFunctionOnSet(f, S \ {n})
        /\ SumFunctionOnSet(f, S \ {n}) \in Nat
    BY <1>2, <1>7, SumRemove
  <2>2. /\ DepositsInFlight(u, k) = toImua[n].amount + DepositsInFlight(u, k)'
        /\ DepositsInFlight(u, k)' \in Nat
    BY <1>2, <1>3, <1>4, <1>5, <2>1
  <2>3. /\ toImua[n].act \in DepositActs
        /\ At(toImua[n].staker, toImua[n].token, u, k, toImua[n].amount)
               = toImua[n].amount
    BY <1>6, <1>7 DEF At
  <2> QED
    BY <1>5, <2>2, <2>3
<1>8. CASE n \notin S
  <2>1. S \ {n} = S
    BY <1>8
  <2>2. /\ DepositsInFlight(u, k)' = DepositsInFlight(u, k)
        /\ DepositsInFlight(u, k) \in Nat
    BY <1>2, <1>3, <1>4, <2>1
  <2>3. \/ toImua[n].act \notin DepositActs
        \/ At(toImua[n].staker, toImua[n].token, u, k, toImua[n].amount) = 0
    BY <1>6, <1>8 DEF At
  <2> QED
    BY <2>2, <2>3
<1> QED
  BY <1>7, <1>8

\* Nothing else touches what is in flight to Imuachain.
LEMMA OthersDoNotCount ==
    ASSUME UNCHANGED <<toImua, imuaInboundNonce>>, NEW u \in Stakers, NEW k \in LSTs
    PROVE  DepositsInFlight(u, k)' = DepositsInFlight(u, k)
BY DEF DepositsInFlight, UndeliveredDeposits

\* A grant counts from the response on; other messages to the client do not.
LEMMA RespondCounts ==
    ASSUME TypeOK, RegistryInv, NEW m \in ClientMessage, SendToClient(m),
           UNCHANGED <<toImua, clientInboundNonce>>,
           m.act = "RESPOND" => m.id \in 1..Len(toImua),
           NEW u \in Stakers, NEW k \in LSTs
    PROVE  GrantsInFlight(u, k)' = GrantsInFlight(u, k)
               + IF m.act = "RESPOND" /\ m.success
                 THEN At(toImua[m.id].staker, toImua[m.id].token, u, k,
                         toImua[m.id].amount)
                 ELSE 0
<1> DEFINE new == Len(toClient) + 1
           P == PendingResponses
           S == PendingGrants(u, k)
           f == [i \in P |-> toImua[toClient[i].id].amount]
           g == [i \in P' |-> toImua'[toClient'[i].id].amount]
<1>1. /\ Len(toClient') = new
      /\ clientInboundNonce \in 0..Len(toClient)
      /\ \A i \in 1..Len(toClient) : toClient'[i] = toClient[i]
      /\ toClient'[new] = m
      /\ Len(toClient) \in Nat
  BY SendToClientType DEF TypeOK, LzTypeOK
<1>2. /\ P \subseteq 1..Len(toClient)
      /\ S \subseteq P
      /\ new \notin P
      /\ P' = IF m.act = "RESPOND" THEN P \cup {new} ELSE P
  BY <1>1 DEF PendingResponses, PendingGrants
<1>3. /\ IsFiniteSet(S)
      /\ \A i \in S : f[i] \in Nat
      /\ GrantsInFlight(u, k) = SumFunctionOnSet(f, S)
      /\ SumFunctionOnSet(f, S) \in Nat
  BY GrantsType DEF GrantsInFlight
<1>4. \A i \in S : g[i] = f[i]
  BY <1>1, <1>2
<1>5. SumFunctionOnSet(g, S) = SumFunctionOnSet(f, S)
  <2> HIDE DEF f, g, S
  <2> QED
    BY <1>3, <1>4, SumSame
<1>6. GrantsInFlight(u, k)' = SumFunctionOnSet(g, PendingGrants(u, k)')
  BY DEF GrantsInFlight
<1>7. CASE /\ m.act = "RESPOND" /\ m.success
           /\ toImua[m.id].staker = u /\ toImua[m.id].token = k
  <2>1. PendingGrants(u, k)' = S \cup {new}
    BY <1>1, <1>2, <1>7 DEF PendingGrants
  <2>2. g[new] = toImua[m.id].amount /\ g[new] \in Nat
    BY <1>1, <1>2, <1>7, RequestFacts DEF TypeOK
  <2>3. SumFunctionOnSet(g, S \cup {new}) = g[new] + SumFunctionOnSet(g, S)
    <3>1. /\ \A i \in S \cup {new} : g[i] \in Nat
          /\ new \notin S
      BY <1>2, <1>3, <1>4, <2>2
    <3> HIDE DEF f, g, S, new
    <3> QED
      BY <1>3, <3>1, SumAdd
  <2> QED
    BY <1>3, <1>5, <1>6, <1>7, <2>1, <2>2, <2>3 DEF At
<1>8. CASE ~ (/\ m.act = "RESPOND" /\ m.success
              /\ toImua[m.id].staker = u /\ toImua[m.id].token = k)
  <2>1. PendingGrants(u, k)' = S
    BY <1>1, <1>2, <1>8 DEF PendingGrants
  <2> QED
    BY <1>3, <1>5, <1>6, <1>8, <2>1 DEF At
<1> QED
  BY <1>7, <1>8

\* A message the client gateway executes no longer does.
LEMMA ReceiveCounts ==
    ASSUME TypeOK, RegistryInv, NEW n \in 1..Len(toClient),
           VerifyAndUpdateClientNonce(n), UNCHANGED <<toImua, toClient>>,
           NEW u \in Stakers, NEW k \in LSTs
    PROVE  /\ GrantsInFlight(u, k) = GrantsInFlight(u, k)'
                  + IF toClient[n].act = "RESPOND" /\ toClient[n].success
                    THEN At(toImua[toClient[n].id].staker,
                            toImua[toClient[n].id].token, u, k,
                            toImua[toClient[n].id].amount)
                    ELSE 0
           /\ GrantsInFlight(u, k)' \in Nat
<1> DEFINE P == PendingResponses
           S == PendingGrants(u, k)
           f == [i \in P |-> toImua[toClient[i].id].amount]
           g == [i \in P' |-> toImua'[toClient'[i].id].amount]
<1>1. /\ n = clientInboundNonce + 1
      /\ clientInboundNonce' = n
      /\ clientInboundNonce \in Nat
      /\ n \in Nat
  BY DEF VerifyAndUpdateClientNonce, IsExpectedNonce, TypeOK, LzTypeOK
<1>2. /\ P' = P \ {n}
      /\ n \in P <=> toClient[n].act = "RESPOND"
  BY <1>1 DEF PendingResponses, TypeOK, LzTypeOK
<1>3. /\ IsFiniteSet(S)
      /\ S \subseteq P
      /\ \A i \in S : f[i] \in Nat
      /\ GrantsInFlight(u, k) = SumFunctionOnSet(f, S)
      /\ SumFunctionOnSet(f, S) \in Nat
  BY GrantsType DEF GrantsInFlight
<1>4. PendingGrants(u, k)' = S \ {n}
  BY <1>2 DEF PendingGrants
<1>5. IsFiniteSet(S \ {n}) /\ \A i \in S \ {n} : f[i] \in Nat /\ g[i] = f[i]
  BY <1>2, <1>3, FS_RemoveElement
<1>6. GrantsInFlight(u, k)' = SumFunctionOnSet(g, S \ {n})
  BY <1>4 DEF GrantsInFlight
<1>7. n \in S <=> /\ toClient[n].act = "RESPOND" /\ toClient[n].success
                  /\ toImua[toClient[n].id].staker = u
                  /\ toImua[toClient[n].id].token = k
  BY <1>2 DEF PendingGrants
<1>8. n \in S => f[n] = toImua[toClient[n].id].amount
  BY <1>3
<1> HIDE DEF S, f, g, P
<1>9. SumFunctionOnSet(g, S \ {n}) = SumFunctionOnSet(f, S \ {n})
  BY <1>5, SumSame
<1>10. CASE n \in S
  <2>1. /\ SumFunctionOnSet(f, S) = f[n] + SumFunctionOnSet(f, S \ {n})
        /\ SumFunctionOnSet(f, S \ {n}) \in Nat
    BY <1>3, <1>10, SumRemove
  <2> QED
    BY <1>3, <1>6, <1>7, <1>8, <1>9, <1>10, <2>1 DEF At
<1>11. CASE n \notin S
  <2>1. S \ {n} = S
    BY <1>11
  <2>2. /\ GrantsInFlight(u, k)' = GrantsInFlight(u, k)
        /\ GrantsInFlight(u, k) \in Nat
    BY <1>3, <1>6, <1>9, <2>1
  <2>3. \/ ~ (toClient[n].act = "RESPOND" /\ toClient[n].success)
        \/ At(toImua[toClient[n].id].staker, toImua[toClient[n].id].token,
              u, k, toImua[toClient[n].id].amount) = 0
    BY <1>7, <1>11 DEF At
  <2> QED
    BY <2>2, <2>3
<1> QED
  BY <1>10, <1>11

\* Sending to Imuachain does not touch what is on its way back.
LEMMA GrantsStay ==
    ASSUME TypeOK, RegistryInv, UNCHANGED <<toClient, clientInboundNonce>>,
           \A i \in 1..Len(toImua) : toImua'[i] = toImua[i],
           NEW u \in Stakers, NEW k \in LSTs
    PROVE  GrantsInFlight(u, k)' = GrantsInFlight(u, k)
<1>1. PendingResponses' = PendingResponses
  BY DEF PendingResponses
<1>2. \A n \in PendingResponses : toImua'[toClient[n].id] = toImua[toClient[n].id]
  BY PendingAreSent
<1>3. PendingGrants(u, k)' = PendingGrants(u, k)
  BY <1>1, <1>2 DEF PendingGrants
<1>4. [n \in PendingResponses' |-> toImua'[toClient'[n].id].amount]
          = [n \in PendingResponses |-> toImua[toClient[n].id].amount]
  BY <1>1, <1>2
<1> QED
  BY <1>3, <1>4 DEF GrantsInFlight
------------------------------------------------------------------------------
(* What a step does to principal: x of one staker and one token moves, or  *)
(* nothing does.                                                           *)

\* On the two paths.
PathsMove(s, t, in, grants) ==
    \A u \in Stakers, k \in LSTs :
        /\ DepositsInFlight(u, k)' = DepositsInFlight(u, k) + At(s, t, u, k, in)
        /\ GrantsInFlight(u, k)' = GrantsInFlight(u, k) + At(s, t, u, k, grants)

\* In the ledger of Imuachain.
LedgerMoves(s, t, stake, slash) ==
    \A u \in Stakers, k \in LSTs :
        /\ Staked(u, k)' = Staked(u, k) + At(s, t, u, k, stake)
        /\ slashedAmount'[u][k] = slashedAmount[u][k] + At(s, t, u, k, slash)

\* In the vaults.
VaultsMove(s, t, balance, deposited, unlocked, held) ==
    \A k \in LSTs :
        /\ consumedTvl'[k] = consumedTvl[k] + IF k = t THEN held ELSE 0
        /\ \A u \in Stakers :
               /\ withdrawableBalances'[k][u] =
                      withdrawableBalances[k][u] + At(s, t, u, k, balance)
               /\ totalDepositedPrincipalAmount'[k][u] =
                      totalDepositedPrincipalAmount[k][u]
                          + At(s, t, u, k, deposited)
               /\ totalUnlockPrincipalAmount'[k][u] =
                      totalUnlockPrincipalAmount[k][u]
                          + At(s, t, u, k, unlocked)

PathsStay ==
    \A u \in Stakers, k \in LSTs :
        /\ DepositsInFlight(u, k)' = DepositsInFlight(u, k)
        /\ GrantsInFlight(u, k)' = GrantsInFlight(u, k)

LedgerStays ==
    \A u \in Stakers, k \in LSTs :
        /\ Staked(u, k)' = Staked(u, k)
        /\ slashedAmount'[u][k] = slashedAmount[u][k]

VaultsStay ==
    UNCHANGED <<withdrawableBalances, totalDepositedPrincipalAmount,
                totalUnlockPrincipalAmount, consumedTvl>>

\* The six ways principal moves.
Deposited(s, t, x) ==
    PathsMove(s, t, x, 0) /\ LedgerStays /\ VaultsMove(s, t, 0, x, 0, x)
Credited(s, t, x) ==
    PathsMove(s, t, -x, 0) /\ LedgerMoves(s, t, x, 0) /\ VaultsStay
Debited(s, t, x) ==
    PathsMove(s, t, 0, x) /\ LedgerMoves(s, t, -x, 0) /\ VaultsStay
Unlocked(s, t, x) ==
    PathsMove(s, t, 0, -x) /\ LedgerStays /\ VaultsMove(s, t, x, 0, x, 0)
Withdrawn(s, t, x) ==
    PathsStay /\ LedgerStays /\ VaultsMove(s, t, -x, 0, 0, -x)
SlashedBy(s, t, x) ==
    PathsStay /\ LedgerMoves(s, t, -x, x) /\ VaultsStay

PrincipalMoves ==
    \E s \in Stakers, t \in LSTs, x \in Amounts :
        \/ Deposited(s, t, x) \/ Credited(s, t, x) \/ Debited(s, t, x)
        \/ Unlocked(s, t, x) \/ Withdrawn(s, t, x) \/ SlashedBy(s, t, x)

PrincipalStays == PathsStay /\ LedgerStays /\ VaultsStay

AccountsStep == PrincipalMoves \/ PrincipalStays

------------------------------------------------------------------------------
(* What messages do to the two paths.                                      *)

LEMMA SendMoves ==
    ASSUME TypeOK, RegistryInv, NEW m, Sends(m),
           UNCHANGED <<imuaInboundNonce, toClient, clientInboundNonce>>
    PROVE  IF m.act \in DepositActs /\ m.token \in LSTs
           THEN PathsMove(m.staker, m.token, m.amount, 0)
           ELSE PathsStay
<1>1. /\ m \in Request
      /\ SendToImua(m)
      /\ \A i \in 1..Len(toImua) : toImua'[i] = toImua[i]
  BY SendToImuaType DEF Sends, TypeOK, LzTypeOK
<1>2. ASSUME NEW u \in Stakers, NEW k \in LSTs
      PROVE  /\ DepositsInFlight(u, k)' = DepositsInFlight(u, k)
                    + IF m.act \in DepositActs
                      THEN At(m.staker, m.token, u, k, m.amount) ELSE 0
             /\ GrantsInFlight(u, k)' = GrantsInFlight(u, k)
             /\ DepositsInFlight(u, k) \in Nat
             /\ GrantsInFlight(u, k) \in Nat
  BY <1>1, SendCounts, GrantsStay, InFlightType, GrantsType DEF TypeOK
<1>3. CASE m.act \in DepositActs /\ m.token \in LSTs
  BY <1>2, <1>3 DEF PathsMove, At
<1>4. CASE m.act \in DepositActs /\ m.token \notin LSTs
  BY <1>2, <1>4 DEF PathsStay, At
<1>5. CASE m.act \notin DepositActs
  BY <1>2, <1>5 DEF PathsStay
<1> QED
  BY <1>3, <1>4, <1>5

LEMMA ExecuteMoves ==
    ASSUME TypeOK, RegistryInv, NEW n \in 1..Len(toImua),
           VerifyAndUpdateImuaNonce(n),
           UNCHANGED <<toImua, toClient, clientInboundNonce>>
    PROVE  IF toImua[n].act \in DepositActs /\ toImua[n].token \in LSTs
           THEN PathsMove(toImua[n].staker, toImua[n].token,
                          -toImua[n].amount, 0)
           ELSE PathsStay
<1> DEFINE m == toImua[n]
<1>1. m.amount \in Nat
  BY RequestFacts DEF TypeOK
<1>2. ASSUME NEW u \in Stakers, NEW k \in LSTs
      PROVE  /\ DepositsInFlight(u, k) = DepositsInFlight(u, k)'
                    + IF m.act \in DepositActs
                      THEN At(m.staker, m.token, u, k, m.amount) ELSE 0
             /\ DepositsInFlight(u, k)' \in Nat
             /\ GrantsInFlight(u, k)' = GrantsInFlight(u, k)
             /\ GrantsInFlight(u, k) \in Nat
  BY ExecuteCounts, GrantsStay, GrantsType DEF TypeOK
<1> HIDE DEF m
<1>3. CASE m.act \in DepositActs /\ m.token \in LSTs
  <2>1. PathsMove(m.staker, m.token, -m.amount, 0)
    BY <1>1, <1>2, <1>3 DEF PathsMove, At
  <2> QED
    BY <1>3, <2>1 DEF m
<1>4. CASE m.act \in DepositActs /\ m.token \notin LSTs
  <2>1. PathsStay
    BY <1>2, <1>4 DEF PathsStay, At
  <2> QED
    BY <1>4, <2>1 DEF m
<1>5. CASE m.act \notin DepositActs
  <2>1. PathsStay
    BY <1>2, <1>5 DEF PathsStay
  <2> QED
    BY <1>5, <2>1 DEF m
<1> QED
  BY <1>3, <1>4, <1>5

LEMMA AnswerMoves ==
    ASSUME TypeOK, RegistryInv, NEW n \in 1..Len(toImua),
           NEW success \in BOOLEAN, VerifyAndUpdateImuaNonce(n),
           IsWithdrawal(toImua[n].act), Respond(n, success),
           UNCHANGED <<toImua, clientInboundNonce>>
    PROVE  IF success /\ toImua[n].token \in LSTs
           THEN PathsMove(toImua[n].staker, toImua[n].token, 0,
                          toImua[n].amount)
           ELSE PathsStay
<1> DEFINE m == toImua[n]
           r == [act |-> "RESPOND", id |-> n, success |-> success]
<1>1. m.amount \in Nat /\ m.act \notin DepositActs
  BY RequestFacts DEF TypeOK, IsWithdrawal, WithdrawalActs, DepositActs
<1>2. /\ r \in ClientMessage
      /\ SendToClient(r)
      /\ r.act = "RESPOND" /\ r.id = n /\ r.success = success
  <2>1. n \in Nat
    BY DEF TypeOK, LzTypeOK
  <2> QED
    BY <2>1 DEF Respond, ClientMessage, Response
<1>3. ASSUME NEW u \in Stakers, NEW k \in LSTs
      PROVE  /\ DepositsInFlight(u, k)' = DepositsInFlight(u, k)
             /\ DepositsInFlight(u, k) \in Nat
  <2>1. /\ DepositsInFlight(u, k) = DepositsInFlight(u, k)'
               + IF m.act \in DepositActs
                 THEN At(m.staker, m.token, u, k, m.amount) ELSE 0
        /\ DepositsInFlight(u, k)' \in Nat
    BY ExecuteCounts DEF TypeOK
  <2> HIDE DEF m
  <2> QED
    BY <1>1, <2>1
<1>4. ASSUME NEW u \in Stakers, NEW k \in LSTs
      PROVE  /\ GrantsInFlight(u, k)' = GrantsInFlight(u, k)
                    + IF success
                      THEN At(m.staker, m.token, u, k, m.amount) ELSE 0
             /\ GrantsInFlight(u, k) \in Nat
  <2> HIDE DEF r
  <2>1. GrantsInFlight(u, k)' = GrantsInFlight(u, k)
            + IF r.act = "RESPOND" /\ r.success
              THEN At(toImua[r.id].staker, toImua[r.id].token, u, k,
                      toImua[r.id].amount)
              ELSE 0
    BY <1>2, RespondCounts
  <2> QED
    BY <1>2, <2>1, GrantsType
<1> HIDE DEF m, r
<1>5. CASE success /\ m.token \in LSTs
  <2>1. PathsMove(m.staker, m.token, 0, m.amount)
    BY <1>1, <1>3, <1>4, <1>5 DEF PathsMove, At
  <2> QED
    BY <1>5, <2>1 DEF m
<1>6. CASE success /\ m.token \notin LSTs
  <2>1. PathsStay
    BY <1>3, <1>4, <1>6 DEF PathsStay, At
  <2> QED
    BY <1>6, <2>1 DEF m
<1>7. CASE ~ success
  <2>1. PathsStay
    BY <1>3, <1>4, <1>7 DEF PathsStay
  <2> QED
    BY <1>7, <2>1
<1> QED
  BY <1>5, <1>6, <1>7

LEMMA OwnerSendStays ==
    ASSUME TypeOK, RegistryInv, NEW m \in ClientMessage, m.act # "RESPOND",
           SendToClient(m),
           UNCHANGED <<toImua, imuaInboundNonce, clientInboundNonce>>
    PROVE  PathsStay
<1>1. ASSUME NEW u \in Stakers, NEW k \in LSTs
      PROVE  /\ DepositsInFlight(u, k)' = DepositsInFlight(u, k)
             /\ GrantsInFlight(u, k)' = GrantsInFlight(u, k)
  <2>1. GrantsInFlight(u, k)' = GrantsInFlight(u, k)
            + IF m.act = "RESPOND" /\ m.success
              THEN At(toImua[m.id].staker, toImua[m.id].token, u, k,
                      toImua[m.id].amount)
              ELSE 0
    BY RespondCounts
  <2> QED
    BY <2>1, OthersDoNotCount, GrantsType
<1> QED
  BY <1>1 DEF PathsStay

LEMMA ReceiveMoves ==
    ASSUME TypeOK, RegistryInv, NEW n \in 1..Len(toClient),
           VerifyAndUpdateClientNonce(n),
           UNCHANGED <<toImua, toClient, imuaInboundNonce>>
    PROVE  LET m == toImua[toClient[n].id]
               granted == toClient[n].act = "RESPOND" /\ toClient[n].success
           IN  IF granted /\ m.token \in LSTs
               THEN PathsMove(m.staker, m.token, 0, -m.amount)
               ELSE PathsStay
<1> DEFINE m == toImua[toClient[n].id]
           granted == toClient[n].act = "RESPOND" /\ toClient[n].success
<1>1. granted => m.amount \in Nat
  <2> HAVE granted
  <2>1. n \in PendingResponses
    BY DEF PendingResponses, VerifyAndUpdateClientNonce, IsExpectedNonce,
           TypeOK, LzTypeOK
  <2> QED
    BY <2>1, PendingAreSent, RequestFacts DEF TypeOK
<1>2. ASSUME NEW u \in Stakers, NEW k \in LSTs
      PROVE  /\ GrantsInFlight(u, k) = GrantsInFlight(u, k)'
                    + IF granted
                      THEN At(m.staker, m.token, u, k, m.amount) ELSE 0
             /\ GrantsInFlight(u, k)' \in Nat
             /\ DepositsInFlight(u, k)' = DepositsInFlight(u, k)
             /\ DepositsInFlight(u, k) \in Nat
  BY ReceiveCounts, OthersDoNotCount, InFlightType DEF TypeOK
<1> HIDE DEF m, granted
<1>3. CASE granted /\ m.token \in LSTs
  <2>1. PathsMove(m.staker, m.token, 0, -m.amount)
    BY <1>1, <1>2, <1>3 DEF PathsMove, At
  <2> QED
    BY <1>3, <2>1 DEF m, granted
<1>4. CASE granted /\ m.token \notin LSTs
  <2>1. PathsStay
    BY <1>2, <1>4 DEF PathsStay, At
  <2> QED
    BY <1>4, <2>1 DEF m, granted
<1>5. CASE ~ granted
  <2>1. PathsStay
    BY <1>2, <1>5 DEF PathsStay
  <2> QED
    BY <1>5, <2>1 DEF m, granted
<1> QED
  BY <1>3, <1>4, <1>5

LEMMA NoMessageStays ==
    ASSUME TypeOK, RegistryInv, UNCHANGED paths
    PROVE  PathsStay
BY OthersDoNotCount, GrantsStay DEF PathsStay, paths
------------------------------------------------------------------------------
(* What the handlers do to the ledger of Imuachain.                        *)

\* Only the position of s in t changes.
OnlyAt(s, t) ==
    \A u \in Stakers, k \in Tokens :
        u # s \/ k # t =>
            /\ freeBalance'[u][k] = freeBalance[u][k]
            /\ delegatedAmount'[u][k] = delegatedAmount[u][k]
            /\ unbondingAmount'[u][k] = unbondingAmount[u][k]
            /\ slashedAmount'[u][k] = slashedAmount[u][k]

\* A position after it is set to y, and the others.
LEMMA PositionAt ==
    ASSUME NEW f \in [Stakers -> [Tokens -> Nat]], NEW s \in Stakers,
           NEW t \in Tokens, NEW y, NEW u \in Stakers, NEW k \in Tokens
    PROVE  [f EXCEPT ![s][t] = y][u][k] = IF u = s /\ k = t THEN y ELSE f[u][k]
OBVIOUS

LEMMA StakedType ==
    ASSUME ImuaTypeOK, NEW s \in Stakers, NEW t \in Tokens
    PROVE  /\ freeBalance[s][t] \in Nat
           /\ delegatedAmount[s][t] \in Nat
           /\ unbondingAmount[s][t] \in Nat
           /\ slashedAmount[s][t] \in Nat
           /\ Staked(s, t) \in Nat
BY DEF ImuaTypeOK, Staked

LEMMA PositionMoves ==
    ASSUME ImuaTypeOK, NEW s \in Stakers, NEW t \in LSTs, NEW x \in Int,
           NEW y \in Int, OnlyAt(s, t), Staked(s, t)' = Staked(s, t) + x,
           slashedAmount'[s][t] = slashedAmount[s][t] + y
    PROVE  LedgerMoves(s, t, x, y)
<1> SUFFICES ASSUME NEW u \in Stakers, NEW k \in LSTs
             PROVE  /\ Staked(u, k)' = Staked(u, k) + At(s, t, u, k, x)
                    /\ slashedAmount'[u][k] =
                           slashedAmount[u][k] + At(s, t, u, k, y)
  BY DEF LedgerMoves
<1>1. k \in Tokens
  BY DEF Tokens
<1>2. CASE u = s /\ k = t
  BY <1>2 DEF At
<1>3. CASE u # s \/ k # t
  <2>1. Staked(u, k)' = Staked(u, k)
    BY <1>1, <1>3 DEF OnlyAt, Staked
  <2> QED
    BY <1>1, <1>3, <2>1, StakedType DEF OnlyAt, At
<1> QED
  BY <1>2, <1>3

LEMMA PositionStays ==
    ASSUME NEW s \in Stakers, NEW t \in Tokens, OnlyAt(s, t),
           \/ t \notin LSTs
           \/ /\ Staked(s, t)' = Staked(s, t)
              /\ slashedAmount'[s][t] = slashedAmount[s][t]
    PROVE  LedgerStays
<1> SUFFICES ASSUME NEW u \in Stakers, NEW k \in LSTs
             PROVE  /\ Staked(u, k)' = Staked(u, k)
                    /\ slashedAmount'[u][k] = slashedAmount[u][k]
  BY DEF LedgerStays
<1>1. k \in Tokens
  BY DEF Tokens
<1>2. CASE u = s /\ k = t
  BY <1>2
<1>3. CASE u # s \/ k # t
  BY <1>1, <1>3 DEF OnlyAt, Staked
<1> QED
  BY <1>2, <1>3

\* What the precompiles do to one position.
LEMMA PrecompileMoves ==
    ASSUME ImuaTypeOK, UNCHANGED slashedAmount,
           NEW s \in Stakers, NEW t \in Tokens, NEW x \in Nat, NEW d \in Nat,
           NEW i \in BOOLEAN, NEW o \in BOOLEAN
    PROVE  /\ LedgerDeposit(s, t, x)
                  /\ UNCHANGED <<delegatedAmount, unbondingAmount>> =>
                  OnlyAt(s, t) /\ Staked(s, t)' = Staked(s, t) + x
           /\ LedgerWithdraw(s, t, x, o)
                  /\ UNCHANGED <<delegatedAmount, unbondingAmount>> =>
                  /\ OnlyAt(s, t)
                  /\ Staked(s, t)' = Staked(s, t) + IF o THEN -x ELSE 0
           /\ LedgerDelegate(s, t, x, d, o) /\ UNCHANGED unbondingAmount =>
                  OnlyAt(s, t) /\ Staked(s, t)' = Staked(s, t) + d
           /\ LedgerUndelegate(s, t, x, i, o) =>
                  OnlyAt(s, t) /\ Staked(s, t)' = Staked(s, t)
<1> /\ freeBalance \in [Stakers -> [Tokens -> Nat]]
    /\ delegatedAmount \in [Stakers -> [Tokens -> Nat]]
    /\ unbondingAmount \in [Stakers -> [Tokens -> Nat]]
  BY DEF ImuaTypeOK
<1>0. /\ freeBalance[s][t] \in Nat
      /\ delegatedAmount[s][t] \in Nat
      /\ unbondingAmount[s][t] \in Nat
  OBVIOUS
<1>2. ASSUME LedgerDeposit(s, t, x),
             UNCHANGED <<delegatedAmount, unbondingAmount>>
      PROVE  OnlyAt(s, t) /\ Staked(s, t)' = Staked(s, t) + x
  <2>1. freeBalance' = [freeBalance EXCEPT ![s][t] = freeBalance[s][t] + x]
    BY <1>2 DEF LedgerDeposit
  <2>2. OnlyAt(s, t) /\ freeBalance'[s][t] = freeBalance[s][t] + x
    BY <1>2, <2>1, PositionAt DEF OnlyAt
  <2> QED
    BY <1>0, <1>2, <2>2 DEF Staked
<1>3. ASSUME LedgerWithdraw(s, t, x, o),
             UNCHANGED <<delegatedAmount, unbondingAmount>>
      PROVE  /\ OnlyAt(s, t)
             /\ Staked(s, t)' = Staked(s, t) + IF o THEN -x ELSE 0
  <2>1. CASE o
    <3>1. freeBalance' = [freeBalance EXCEPT ![s][t] = freeBalance[s][t] - x]
      BY <1>3, <2>1 DEF LedgerWithdraw
    <3>2. OnlyAt(s, t) /\ freeBalance'[s][t] = freeBalance[s][t] - x
      BY <1>3, <3>1, PositionAt DEF OnlyAt
    <3> QED
      BY <1>0, <1>3, <2>1, <3>2 DEF Staked
  <2>2. CASE ~ o
    BY <1>0, <1>3, <2>2 DEF LedgerWithdraw, OnlyAt, Staked
  <2> QED
    BY <2>1, <2>2
<1>4. ASSUME LedgerDelegate(s, t, x, d, o), UNCHANGED unbondingAmount
      PROVE  OnlyAt(s, t) /\ Staked(s, t)' = Staked(s, t) + d
  <2>1. CASE o
    <3>1. freeBalance' =
              [freeBalance EXCEPT ![s][t] = (freeBalance[s][t] + d) - x]
      BY <1>4, <2>1 DEF LedgerDelegate
    <3>2. delegatedAmount' =
              [delegatedAmount EXCEPT ![s][t] = delegatedAmount[s][t] + x]
      BY <1>4, <2>1 DEF LedgerDelegate
    <3>3. /\ OnlyAt(s, t)
          /\ freeBalance'[s][t] = (freeBalance[s][t] + d) - x
          /\ delegatedAmount'[s][t] = delegatedAmount[s][t] + x
      BY <1>4, <3>1, <3>2, PositionAt DEF OnlyAt
    <3> QED
      BY <1>0, <1>4, <3>3 DEF Staked
  <2>2. CASE ~ o
    <3>1. freeBalance' = [freeBalance EXCEPT ![s][t] = freeBalance[s][t] + d]
      BY <1>4, <2>2 DEF LedgerDelegate
    <3>2. delegatedAmount' = delegatedAmount
      BY <1>4, <2>2 DEF LedgerDelegate
    <3>3. OnlyAt(s, t) /\ freeBalance'[s][t] = freeBalance[s][t] + d
      BY <1>4, <3>1, <3>2, PositionAt DEF OnlyAt
    <3> QED
      BY <1>0, <1>4, <3>2, <3>3 DEF Staked
  <2> QED
    BY <2>1, <2>2
<1>5. ASSUME LedgerUndelegate(s, t, x, i, o)
      PROVE  OnlyAt(s, t) /\ Staked(s, t)' = Staked(s, t)
  <2>1. CASE ~ o
    BY <1>5, <2>1 DEF LedgerUndelegate, OnlyAt, Staked
  <2>2. CASE o
    <3>1. delegatedAmount' =
              [delegatedAmount EXCEPT ![s][t] = delegatedAmount[s][t] - x]
      BY <1>5, <2>2 DEF LedgerUndelegate
    <3>2. CASE i
      <4>1. /\ freeBalance' =
                   [freeBalance EXCEPT ![s][t] = freeBalance[s][t] + x]
            /\ unbondingAmount' = unbondingAmount
        BY <1>5, <2>2, <3>2 DEF LedgerUndelegate
      <4>2. /\ OnlyAt(s, t)
            /\ freeBalance'[s][t] = freeBalance[s][t] + x
            /\ delegatedAmount'[s][t] = delegatedAmount[s][t] - x
        BY <3>1, <4>1, PositionAt DEF OnlyAt
      <4> QED
        BY <1>0, <4>1, <4>2 DEF Staked
    <3>3. CASE ~ i
      <4>1. /\ unbondingAmount' =
                [unbondingAmount EXCEPT ![s][t] = unbondingAmount[s][t] + x]
            /\ freeBalance' = freeBalance
        BY <1>5, <2>2, <3>3 DEF LedgerUndelegate
      <4>2. /\ OnlyAt(s, t)
            /\ unbondingAmount'[s][t] = unbondingAmount[s][t] + x
            /\ delegatedAmount'[s][t] = delegatedAmount[s][t] - x
        BY <3>1, <4>1, PositionAt DEF OnlyAt
      <4> QED
        BY <1>0, <4>1, <4>2 DEF Staked
    <3> QED
      BY <3>2, <3>3
  <2> QED
    BY <2>1, <2>2
<1> QED
  BY <1>2, <1>3, <1>4, <1>5

\* What the vaults do to one balance.
LEMMA VaultOperationMoves ==
    ASSUME VaultTypeOK, NEW s \in Stakers, NEW t \in LSTs, NEW x \in Nat
    PROVE  /\ VaultDeposit(t, s, x) => VaultsMove(s, t, 0, x, 0, x)
           /\ VaultUnlockPrincipal(t, s, x) => VaultsMove(s, t, x, 0, x, 0)
           /\ VaultWithdraw(t, s, x) => VaultsMove(s, t, -x, 0, 0, -x)
<1>0. ASSUME NEW k \in LSTs, NEW u \in Stakers
      PROVE  /\ withdrawableBalances[k][u] \in Nat
             /\ totalDepositedPrincipalAmount[k][u] \in Nat
             /\ totalUnlockPrincipalAmount[k][u] \in Nat
             /\ consumedTvl[k] \in Nat
  BY DEF VaultTypeOK
<1>1. ASSUME NEW f \in [LSTs -> [Stakers -> Nat]], NEW y,
             NEW k \in LSTs, NEW u \in Stakers
      PROVE  [f EXCEPT ![t][s] = y][k][u] =
                 IF u = s /\ k = t THEN y ELSE f[k][u]
  OBVIOUS
<1>2. ASSUME VaultDeposit(t, s, x)
      PROVE  VaultsMove(s, t, 0, x, 0, x)
  <2>1. /\ totalDepositedPrincipalAmount' =
               [totalDepositedPrincipalAmount EXCEPT
                    ![t][s] = totalDepositedPrincipalAmount[t][s] + x]
        /\ consumedTvl' = [consumedTvl EXCEPT ![t] = consumedTvl[t] + x]
        /\ totalDepositedPrincipalAmount \in [LSTs -> [Stakers -> Nat]]
        /\ UNCHANGED <<withdrawableBalances, totalUnlockPrincipalAmount>>
    BY <1>2 DEF VaultDeposit, VaultTypeOK
  <2>2. ASSUME NEW k \in LSTs
        PROVE  consumedTvl'[k] = consumedTvl[k] + IF k = t THEN x ELSE 0
    <3>1. consumedTvl \in [LSTs -> Nat]
      BY DEF VaultTypeOK
    <3>2. CASE k = t
      BY <2>1, <3>1, <3>2
    <3>3. CASE k # t
      BY <2>1, <3>1, <3>3
    <3> QED
      BY <3>2, <3>3
  <2>3. ASSUME NEW k \in LSTs, NEW u \in Stakers
        PROVE  totalDepositedPrincipalAmount'[k][u] =
                   totalDepositedPrincipalAmount[k][u] + At(s, t, u, k, x)
    BY <1>0, <1>1, <2>1 DEF At
  <2>4. ASSUME NEW k \in LSTs, NEW u \in Stakers
        PROVE  /\ withdrawableBalances'[k][u] =
                      withdrawableBalances[k][u] + At(s, t, u, k, 0)
               /\ totalUnlockPrincipalAmount'[k][u] =
                      totalUnlockPrincipalAmount[k][u] + At(s, t, u, k, 0)
    BY <1>0, <2>1 DEF At
  <2> QED
    BY <2>2, <2>3, <2>4 DEF VaultsMove
<1>3. ASSUME VaultUnlockPrincipal(t, s, x)
      PROVE  VaultsMove(s, t, x, 0, x, 0)
  <2>1. /\ totalUnlockPrincipalAmount' =
               [totalUnlockPrincipalAmount EXCEPT
                    ![t][s] = totalUnlockPrincipalAmount[t][s] + x]
        /\ withdrawableBalances' =
               [withdrawableBalances EXCEPT
                    ![t][s] = withdrawableBalances[t][s] + x]
        /\ totalUnlockPrincipalAmount \in [LSTs -> [Stakers -> Nat]]
        /\ withdrawableBalances \in [LSTs -> [Stakers -> Nat]]
        /\ UNCHANGED <<totalDepositedPrincipalAmount, consumedTvl>>
    BY <1>3 DEF VaultUnlockPrincipal, VaultTypeOK
  <2> QED
    BY <1>0, <1>1, <2>1 DEF VaultsMove, At
<1>4. ASSUME VaultWithdraw(t, s, x)
      PROVE  VaultsMove(s, t, -x, 0, 0, -x)
  <2>1. /\ withdrawableBalances' =
               [withdrawableBalances EXCEPT
                    ![t][s] = withdrawableBalances[t][s] - x]
        /\ consumedTvl' = [consumedTvl EXCEPT ![t] = consumedTvl[t] - x]
        /\ withdrawableBalances \in [LSTs -> [Stakers -> Nat]]
        /\ UNCHANGED <<totalDepositedPrincipalAmount,
                       totalUnlockPrincipalAmount>>
    BY <1>4 DEF VaultWithdraw, VaultTypeOK
  <2>2. ASSUME NEW k \in LSTs
        PROVE  consumedTvl'[k] = consumedTvl[k] + IF k = t THEN -x ELSE 0
    <3>1. consumedTvl \in [LSTs -> Nat]
      BY DEF VaultTypeOK
    <3>2. CASE k = t
      BY <2>1, <3>1, <3>2
    <3>3. CASE k # t
      BY <2>1, <3>1, <3>3
    <3> QED
      BY <3>2, <3>3
  <2>3. ASSUME NEW k \in LSTs, NEW u \in Stakers
        PROVE  withdrawableBalances'[k][u] =
                   withdrawableBalances[k][u] + At(s, t, u, k, -x)
    BY <1>0, <1>1, <2>1 DEF At
  <2>4. ASSUME NEW k \in LSTs, NEW u \in Stakers
        PROVE  /\ totalDepositedPrincipalAmount'[k][u] =
                      totalDepositedPrincipalAmount[k][u] + At(s, t, u, k, 0)
               /\ totalUnlockPrincipalAmount'[k][u] =
                      totalUnlockPrincipalAmount[k][u] + At(s, t, u, k, 0)
    BY <1>0, <2>1 DEF At
  <2> QED
    BY <2>2, <2>3, <2>4 DEF VaultsMove
<1> QED
  BY <1>2, <1>3, <1>4
------------------------------------------------------------------------------
(* Every step of the bridge moves principal in one of the six ways, or     *)
(* leaves it alone.                                                        *)

LEMMA ClientMoves ==
    ASSUME TypeOK, RegistryInv, MessagesInv, Client
    PROVE  /\ AccountsStep
           /\ UNCHANGED toImua \/ \E m : Sends(m)
<1> DEFINE Goal == /\ AccountsStep
                   /\ UNCHANGED toImua \/ \E m : Sends(m)
<1> /\ ClientStep
    /\ UNCHANGED <<imuaInboundNonce, toClient>>
  BY DEF Client, imuaVars
<1>1. LedgerStays
  BY DEF Client, imuaVars, ledgerVars, LedgerStays, Staked
<1>2. ASSUME NEW act \in {"REQUEST_DEPOSIT_LST",
                          "REQUEST_DEPOSIT_THEN_DELEGATE_TO"},
             NEW s \in Stakers, NEW t \in LSTs, NEW x \in Amounts,
             DepositInVault(act, s, t, x)
      PROVE  Goal
  <2> DEFINE m == Message(act, s, t, x, FALSE)
  <2>1. m \in Request
    BY MessageType DEF RequestActs, DepositActs, Tokens
  <2>2. /\ m.act = act /\ m.staker = s /\ m.token = t /\ m.amount = x
        /\ m.act \in DepositActs
        /\ IsLST(m.act) /\ ~ IsNST(m.act)
    BY DEF Message, DepositActs, IsLST, IsNST
  <2>3. SendToImua(m) /\ UNCHANGED clientInboundNonce
    BY <1>2 DEF DepositInVault, ProcessRequest, SendMsgToImuachain
  <2> HIDE DEF m
  <2>4. Sends(m)
    BY <2>1, <2>2, <2>3 DEF Sends
  <2>5. PathsMove(s, t, x, 0)
    BY <2>2, <2>3, <2>4, SendMoves
  <2>6. VaultsMove(s, t, 0, x, 0, x)
    BY <1>2, VaultOperationMoves DEF DepositInVault, TypeOK, ClientTypeOK
  <2>7. Deposited(s, t, x)
    BY <1>1, <2>5, <2>6 DEF Deposited
  <2> QED
    BY <2>4, <2>7 DEF AccountsStep, PrincipalMoves
<1>3. ASSUME NEW m, Sends(m), m.act \notin DepositActs \/ m.token \notin LSTs,
             UNCHANGED <<vaultVars, clientInboundNonce>>
      PROVE  Goal
  <2>1. PathsStay
    BY <1>3, SendMoves
  <2>2. VaultsStay
    BY <1>3 DEF VaultsStay, vaultVars
  <2> QED
    BY <1>1, <1>3, <2>1, <2>2 DEF AccountsStep, PrincipalStays
<1>4. ASSUME NEW s \in Stakers, NEW t \in LSTs, NEW x \in Amounts,
             ClaimPrincipalFromImuachain(s, t, x)
      PROVE  Goal
  <2> DEFINE m == Message("REQUEST_WITHDRAW_LST", s, t, x, FALSE)
  <2>1. m \in Request
    BY MessageType DEF RequestActs, WithdrawalActs, Tokens
  <2>2. /\ m.act = "REQUEST_WITHDRAW_LST" /\ m.token = t /\ m.amount = x
        /\ m.act \notin DepositActs
        /\ ~ IsNST(m.act)
    BY DEF Message, DepositActs, IsNST
  <2>3. SendToImua(m) /\ UNCHANGED <<vaultVars, clientInboundNonce>>
    BY <1>4 DEF ClaimPrincipalFromImuachain, ProcessRequestWithResponse,
                SendMsgToImuachain
  <2> HIDE DEF m
  <2> QED
    BY <1>3, <2>1, <2>2, <2>3 DEF Sends
<1>5. ASSUME NEW act \in DelegationActs, NEW s \in Stakers, NEW t \in Tokens,
             NEW x \in Amounts, NEW instant \in BOOLEAN,
             Delegation(act, s, t, x, instant)
      PROVE  Goal
  <2> DEFINE m == Message(act, s, t, x, instant)
  <2>1. m \in Request
    BY MessageType DEF RequestActs
  <2>2. m.act \notin DepositActs /\ ~ IsLST(m.act) /\ ~ IsNST(m.act)
    BY DEF Message, DelegationActs, DepositActs, IsLST, IsNST
  <2>3. SendToImua(m) /\ UNCHANGED <<vaultVars, clientInboundNonce>>
    BY <1>5 DEF Delegation, ProcessRequest, SendMsgToImuachain
  <2> HIDE DEF m
  <2> QED
    BY <1>3, <2>1, <2>2, <2>3 DEF Sends
<1>6. ASSUME NEW s \in Stakers, NEW v \in Validators, NEW time \in 0..now,
             NEW balance \in Amounts,
             VerifyAndDepositNativeStake(s, v, time, balance)
      PROVE  Goal
  <2> DEFINE m == Message("REQUEST_DEPOSIT_NST", s, NST,
                          DepositAmount(balance), FALSE)
  <2>1. m \in Request
    BY MessageType DEF RequestActs, DepositActs, Tokens, DepositAmount
  <2>2. m.token = NST /\ m.token \notin LSTs /\ ~ IsLST(m.act)
    BY DEF Message, IsLST
  <2>3. SendToImua(m) /\ UNCHANGED <<vaultVars, clientInboundNonce>>
    BY <1>6 DEF VerifyAndDepositNativeStake, ProcessRequest, SendMsgToImuachain
  <2> HIDE DEF m
  <2> QED
    BY <1>3, <2>1, <2>2, <2>3 DEF Sends
<1>7. ASSUME NEW s \in Stakers, NEW x \in Amounts \cup {0},
             ClaimNSTFromImuachain(s, x)
      PROVE  Goal
  <2> DEFINE m == Message("REQUEST_WITHDRAW_NST", s, NST, x, FALSE)
  <2>1. m \in Request
    BY MessageType DEF RequestActs, WithdrawalActs, Tokens
  <2>2. m.token = NST /\ m.token \notin LSTs /\ ~ IsLST(m.act)
    BY DEF Message, IsLST
  <2>3. SendToImua(m) /\ UNCHANGED <<vaultVars, clientInboundNonce>>
    BY <1>7 DEF ClaimNSTFromImuachain, ProcessRequestWithResponse,
                SendMsgToImuachain
  <2> HIDE DEF m
  <2> QED
    BY <1>3, <2>1, <2>2, <2>3 DEF Sends
<1>8. ASSUME NEW s \in Stakers, NEW t \in LSTs, NEW x \in Amounts,
             WithdrawLSTPrincipal(s, t, x)
      PROVE  Goal
  <2>1. PathsStay /\ UNCHANGED toImua
    BY <1>8, NoMessageStays DEF WithdrawLSTPrincipal, paths
  <2>2. VaultsMove(s, t, -x, 0, 0, -x)
    BY <1>8, VaultOperationMoves DEF WithdrawLSTPrincipal, TypeOK, ClientTypeOK
  <2>3. Withdrawn(s, t, x)
    BY <1>1, <2>1, <2>2 DEF Withdrawn
  <2> QED
    BY <2>1, <2>3 DEF AccountsStep, PrincipalMoves
<1>9. ASSUME UNCHANGED <<toImua, clientInboundNonce>>, VaultsStay
      PROVE  Goal
  BY <1>1, <1>9, NoMessageStays DEF AccountsStep, PrincipalStays, paths
<1>10. ClientOwner \/ BeaconChain => Goal
  BY <1>9 DEF ClientOwner, BeaconChain, UpdateTvlLimit, VaultSetTvlLimit,
              ClientPause, ClientUnpause, SetClientPaused, BeaconPayout, Tick,
              VaultsStay, vaultVars
<1>11. ASSUME NEW s \in Stakers,
              \/ CreateImuaCapsule(s)
              \/ \E v \in Validators : Stake(s, v)
              \/ \E v \in Validators, value, fee \in Amounts :
                     RequestBeaconWithdrawal(s, v, value, fee)
              \/ \E x \in Amounts : WithdrawNSTPrincipal(s, x)
       PROVE  Goal
  BY <1>9, <1>11 DEF CreateImuaCapsule, Stake, RequestBeaconWithdrawal,
                     WithdrawNSTPrincipal, VaultsStay, vaultVars
<1>12. ASSUME NEW n \in 1..Len(toClient), ClientLzReceive(n)
       PROVE  Goal
  <2> DEFINE id == toClient[n].id
             req == registeredRequests[id]
             m == toImua[id]
             granted == toClient[n].act = "RESPOND" /\ toClient[n].success
  <2>1. VerifyAndUpdateClientNonce(n) /\ UNCHANGED toImua
    BY <1>12 DEF ClientLzReceive
  <2>2. IF granted /\ m.token \in LSTs
        THEN PathsMove(m.staker, m.token, 0, -m.amount)
        ELSE PathsStay
    BY <2>1, ReceiveMoves
  <2>3. CASE /\ toClient[n].act = "RESPOND"
             /\ HandleResponse(toClient[n])
    <3>1. /\ id \in DOMAIN registeredRequests
          /\ id \in 1..Len(toImua)
          /\ req.act = m.act /\ req.token = m.token
          /\ req.staker = m.staker /\ req.amount = m.amount
      BY <2>3 DEF HandleResponse, RegistryInv, CachedIsSent
    <3>2. m.staker \in Stakers /\ m.amount \in Nat
      BY <3>1, RequestFacts DEF TypeOK
    <3>3. /\ IsLST(m.act) => m.token \in LSTs /\ m.amount \in Amounts
          /\ IsNST(m.act) => m.token \notin LSTs
      BY <3>1 DEF MessagesInv
    <3>4. CASE IsNST(m.act) /\ UNCHANGED vaultVars
      <4>1. PathsStay /\ VaultsStay
        BY <2>2, <3>3, <3>4 DEF VaultsStay, vaultVars
      <4> QED
        BY <1>1, <2>1, <4>1 DEF AccountsStep, PrincipalStays
    <3>5. CASE /\ IsLST(m.act) /\ toClient[n].success
               /\ VaultUnlockPrincipal(m.token, m.staker, m.amount)
      <4>1. PathsMove(m.staker, m.token, 0, -m.amount)
        BY <2>2, <2>3, <3>3, <3>5
      <4>2. VaultsMove(m.staker, m.token, m.amount, 0, m.amount, 0)
        BY <3>2, <3>3, <3>5, VaultOperationMoves DEF TypeOK, ClientTypeOK
      <4>3. Unlocked(m.staker, m.token, m.amount)
        BY <1>1, <4>1, <4>2 DEF Unlocked
      <4>4. PrincipalMoves
        <5> HIDE DEF m
        <5> QED
          BY <3>2, <3>3, <3>5, <4>3 DEF PrincipalMoves
      <4> QED
        BY <2>1, <4>4 DEF AccountsStep
    <3>6. CASE ~ toClient[n].success /\ UNCHANGED vaultVars
      <4>1. PathsStay /\ VaultsStay
        BY <2>2, <3>6 DEF VaultsStay, vaultVars
      <4> QED
        BY <1>1, <2>1, <4>1 DEF AccountsStep, PrincipalStays
    <3> QED
      BY <2>3, <3>1, <3>4, <3>5, <3>6 DEF HandleResponse
  <2>4. CASE toClient[n].act # "RESPOND"
    <3>1. VaultsStay
      BY <1>12, <2>4 DEF ClientLzReceive, VaultsStay, vaultVars,
           AfterReceiveAddWhitelistTokenRequest,
           AfterReceiveMarkBootstrapRequest
    <3> QED
      BY <1>1, <2>1, <2>2, <2>4, <3>1 DEF AccountsStep, PrincipalStays
  <2> QED
    BY <1>12, <2>3, <2>4 DEF ClientLzReceive
<1> HIDE DEF Goal
<1>13. LstRequest => Goal
  BY <1>2, <1>4 DEF LstRequest, Deposit, DepositThenDelegateTo
<1>14. DelegationRequest => Goal
  BY <1>5 DEF DelegationRequest, DelegateTo, UndelegateFrom, DelegationActs
<1>15. NativeRestaking => Goal
  BY <1>6, <1>7, <1>11 DEF NativeRestaking
<1>16. PrincipalWithdrawal => Goal
  BY <1>8, <1>11 DEF PrincipalWithdrawal
<1>17. ClientDelivery => Goal
  BY <1>12 DEF ClientDelivery
<1>18. Goal
  BY <1>10, <1>13, <1>14, <1>15, <1>16, <1>17 DEF ClientStep
<1> QED
  BY <1>18 DEF Goal

LEMMA ImuaMoves ==
    ASSUME TypeOK, RegistryInv, MessagesInv, Imua
    PROVE  AccountsStep /\ UNCHANGED toImua
<1> /\ ImuaStep
    /\ UNCHANGED <<toImua, clientInboundNonce>>
    /\ ImuaTypeOK
  BY DEF Imua, clientVars, TypeOK
<1>1. VaultsStay
  BY DEF Imua, clientVars, vaultVars, VaultsStay
<1>2. ASSUME NEW n \in 1..Len(toImua), ImuaLzReceive(n)
      PROVE  AccountsStep
  <2> PICK m \in Request : m = toImua[n]
    BY DEF TypeOK, LzTypeOK
  <2> PICK s \in Stakers, t \in Tokens, x \in Nat :
           s = m.staker /\ t = m.token /\ x = m.amount
    BY DEF Request
  <2>1. /\ VerifyAndUpdateImuaNonce(n)
        /\ UNCHANGED slashedAmount
    BY <1>2 DEF ImuaLzReceive
  <2>2. m.instant \in BOOLEAN
    BY DEF Request
  <2>3. /\ IsLST(m.act) => t \in LSTs /\ x \in Amounts
        /\ IsNST(m.act) => t \notin LSTs
    BY DEF MessagesInv
  <2>4. UNCHANGED toClient =>
            IF m.act \in DepositActs /\ t \in LSTs
            THEN PathsMove(s, t, -x, 0) ELSE PathsStay
    BY <2>1, ExecuteMoves
  <2>5. \A o \in BOOLEAN : IsWithdrawal(m.act) /\ Respond(n, o) =>
            IF o /\ t \in LSTs THEN PathsMove(s, t, 0, x) ELSE PathsStay
    BY <2>1, AnswerMoves
  <2>6. slashedAmount'[s][t] = slashedAmount[s][t] + 0
    BY <2>1, <2>2, StakedType
  <2>7. ASSUME HandleDeposit(m)
        PROVE  AccountsStep
    <3>1. LedgerDeposit(s, t, x) /\ UNCHANGED <<delegatedAmount, unbondingAmount>>
      BY <2>7 DEF HandleDeposit
    <3>2. OnlyAt(s, t) /\ Staked(s, t)' = Staked(s, t) + x
      BY <2>1, <2>2, <3>1, PrecompileMoves
    <3>3. UNCHANGED toClient /\ m.act \in DepositActs
      BY <2>7 DEF HandleDeposit, NoResponse, DepositActs
    <3>4. CASE t \in LSTs
      <4>1. LedgerMoves(s, t, x, 0)
        BY <2>2, <2>6, <3>2, <3>4, PositionMoves
      <4>2. Credited(s, t, x)
        BY <1>1, <2>4, <3>3, <3>4, <4>1 DEF Credited
      <4>3. IsLST(m.act)
        BY <2>3, <2>7, <3>4 DEF HandleDeposit, IsLST, IsNST
      <4> QED
        BY <2>2, <2>3, <3>4, <4>2, <4>3 DEF AccountsStep, PrincipalMoves
    <3>5. CASE t \notin LSTs
      <4>1. LedgerStays
        BY <2>2, <3>2, <3>5, PositionStays
      <4> QED
        BY <1>1, <2>4, <3>3, <3>5, <4>1 DEF AccountsStep, PrincipalStays
    <3> QED
      BY <3>4, <3>5
  <2>8. ASSUME NEW o \in BOOLEAN, HandleDepositAndDelegate(m, o)
        PROVE  AccountsStep
    <3>1. LedgerDelegate(s, t, x, x, o) /\ UNCHANGED unbondingAmount
      BY <2>8 DEF HandleDepositAndDelegate
    <3>2. /\ UNCHANGED toClient /\ m.act \in DepositActs
          /\ t \in LSTs /\ x \in Amounts
      BY <2>3, <2>8 DEF HandleDepositAndDelegate, NoResponse, DepositActs, IsLST
    <3>3. OnlyAt(s, t) /\ Staked(s, t)' = Staked(s, t) + x
      BY <2>1, <2>2, <3>1, PrecompileMoves
    <3>4. LedgerMoves(s, t, x, 0)
      BY <2>2, <2>6, <3>2, <3>3, PositionMoves
    <3>5. Credited(s, t, x)
      BY <1>1, <2>4, <3>2, <3>4 DEF Credited
    <3> QED
      BY <2>2, <3>2, <3>5 DEF AccountsStep, PrincipalMoves
  <2>9. ASSUME NEW o \in BOOLEAN, HandleWithdrawal(n, m, o)
        PROVE  AccountsStep
    <3>1. /\ LedgerWithdraw(s, t, x, o)
          /\ UNCHANGED <<delegatedAmount, unbondingAmount>>
          /\ IsWithdrawal(m.act) /\ Respond(n, o)
      BY <2>9 DEF HandleWithdrawal
    <3>2. OnlyAt(s, t) /\ Staked(s, t)' = Staked(s, t) + IF o THEN -x ELSE 0
      BY <2>1, <2>2, <3>1, PrecompileMoves
    <3>3. CASE o /\ t \in LSTs
      <4>1. Staked(s, t)' = Staked(s, t) + (-x) /\ -x \in Int
        BY <2>2, <3>2, <3>3
      <4>2. LedgerMoves(s, t, -x, 0)
        BY <2>2, <2>6, <3>2, <3>3, <4>1, PositionMoves
      <4>3. Debited(s, t, x)
        BY <1>1, <2>5, <3>1, <3>3, <4>2 DEF Debited
      <4>4. IsLST(m.act)
        BY <2>3, <3>1, <3>3 DEF IsWithdrawal, WithdrawalActs, IsLST, IsNST
      <4> QED
        BY <2>2, <2>3, <3>3, <4>3, <4>4 DEF AccountsStep, PrincipalMoves
    <3>4. CASE ~ (o /\ t \in LSTs)
      <4>1. \/ t \notin LSTs
            \/ Staked(s, t)' = Staked(s, t)
        BY <2>2, <3>2, <3>4, StakedType
      <4>2. LedgerStays
        BY <2>1, <2>2, <3>2, <4>1, PositionStays
      <4> QED
        BY <1>1, <2>5, <3>1, <3>4, <4>2 DEF AccountsStep, PrincipalStays
    <3> QED
      BY <3>3, <3>4
  <2>10. ASSUME NEW o \in BOOLEAN, HandleDelegation(m, o)
         PROVE  AccountsStep
    <3>1. /\ UNCHANGED toClient
          /\ m.act \notin DepositActs
          /\ \/ LedgerDelegate(s, t, x, 0, o) /\ UNCHANGED unbondingAmount
             \/ LedgerUndelegate(s, t, x, m.instant, o)
      BY <2>10 DEF HandleDelegation, NoResponse, DepositActs
    <3>2. OnlyAt(s, t) /\ Staked(s, t)' = Staked(s, t)
      <4>1. Staked(s, t) \in Nat
        BY <2>2, StakedType
      <4> QED
        BY <2>1, <2>2, <3>1, <4>1, PrecompileMoves
    <3>3. LedgerStays
      BY <2>1, <2>2, <3>2, PositionStays
    <3> QED
      BY <1>1, <2>4, <3>1, <3>3 DEF AccountsStep, PrincipalStays
  <2> QED
    BY <1>2, <2>7, <2>8, <2>9, <2>10 DEF ImuaLzReceive
<1>3. ASSUME NEW t \in Tokens, NEW tvl \in TvlLimits, AddWhitelistToken(t, tvl)
      PROVE  AccountsStep
  <2> DEFINE m == [act |-> "REQUEST_ADD_WHITELIST_TOKEN", token |-> t,
                   tvl |-> tvl]
  <2>1. m \in ClientMessage /\ m.act # "RESPOND"
    BY TvlLimitsAssumption DEF ClientMessage, AddWhitelistRequest
  <2>2. SendToClient(m) /\ UNCHANGED <<imuaInboundNonce, ledgerVars>>
    BY <1>3 DEF AddWhitelistToken
  <2> HIDE DEF m
  <2>3. PathsStay
    BY <2>1, <2>2, OwnerSendStays
  <2>4. LedgerStays
    BY <2>2 DEF LedgerStays, ledgerVars, Staked
  <2> QED
    BY <1>1, <2>3, <2>4 DEF AccountsStep, PrincipalStays
<1>4. ASSUME MarkBootstrap
      PROVE  AccountsStep
  <2> DEFINE m == [act |-> "REQUEST_MARK_BOOTSTRAP"]
  <2>1. m \in ClientMessage /\ m.act # "RESPOND"
    BY DEF ClientMessage, MarkBootstrapRequest
  <2>2. SendToClient(m) /\ UNCHANGED <<imuaInboundNonce, ledgerVars>>
    BY <1>4 DEF MarkBootstrap
  <2> HIDE DEF m
  <2>3. PathsStay
    BY <2>1, <2>2, OwnerSendStays
  <2>4. LedgerStays
    BY <2>2 DEF LedgerStays, ledgerVars, Staked
  <2> QED
    BY <1>1, <2>3, <2>4 DEF AccountsStep, PrincipalStays
<1>5. ImuaPause \/ ImuaUnpause \/ Fund => AccountsStep
  <2> HAVE ImuaPause \/ ImuaUnpause \/ Fund
  <2>1. PathsStay
    BY NoMessageStays DEF ImuaPause, ImuaUnpause, SetImuaPaused, Fund, paths
  <2>2. LedgerStays
    BY DEF ImuaPause, ImuaUnpause, SetImuaPaused, Fund, LedgerStays,
           ledgerVars, Staked
  <2> QED
    BY <1>1, <2>1, <2>2 DEF AccountsStep, PrincipalStays
<1>6. ASSUME NEW s \in Stakers, NEW t \in Tokens, NEW x \in Amounts,
             Slash(s, t, x)
      PROVE  AccountsStep
  <2>1. PathsStay
    BY <1>6, NoMessageStays DEF Slash, paths
  <2>2. /\ delegatedAmount \in [Stakers -> [Tokens -> Nat]]
        /\ slashedAmount \in [Stakers -> [Tokens -> Nat]]
        /\ delegatedAmount' =
               [delegatedAmount EXCEPT ![s][t] = delegatedAmount[s][t] - x]
        /\ slashedAmount' =
               [slashedAmount EXCEPT ![s][t] = slashedAmount[s][t] + x]
        /\ UNCHANGED <<freeBalance, unbondingAmount>>
    BY <1>6 DEF Slash, ImuaTypeOK
  <2>3. /\ OnlyAt(s, t)
        /\ delegatedAmount'[s][t] = delegatedAmount[s][t] - x
        /\ slashedAmount'[s][t] = slashedAmount[s][t] + x
    BY <2>2, PositionAt DEF OnlyAt
  <2>4. Staked(s, t)' = Staked(s, t) + (-x)
    BY <2>2, <2>3, StakedType DEF Staked
  <2>5. CASE t \in LSTs
    <3>0. -x \in Int /\ x \in Int
      OBVIOUS
    <3>1. LedgerMoves(s, t, -x, x)
      BY <2>3, <2>4, <2>5, <3>0, PositionMoves
    <3> QED
      BY <1>1, <2>1, <2>5, <3>1 DEF SlashedBy, AccountsStep, PrincipalMoves
  <2>6. CASE t \notin LSTs
    BY <1>1, <2>1, <2>3, <2>6, PositionStays DEF AccountsStep, PrincipalStays
  <2> QED
    BY <2>5, <2>6
<1>7. ASSUME NEW s \in Stakers, NEW t \in Tokens, CompleteUnbonding(s, t)
      PROVE  AccountsStep
  <2>1. PathsStay
    BY <1>7, NoMessageStays DEF CompleteUnbonding, paths
  <2>2. /\ freeBalance \in [Stakers -> [Tokens -> Nat]]
        /\ unbondingAmount \in [Stakers -> [Tokens -> Nat]]
        /\ freeBalance' =
               [freeBalance EXCEPT
                    ![s][t] = freeBalance[s][t] + unbondingAmount[s][t]]
        /\ unbondingAmount' = [unbondingAmount EXCEPT ![s][t] = 0]
        /\ UNCHANGED <<delegatedAmount, slashedAmount>>
    BY <1>7 DEF CompleteUnbonding, ImuaTypeOK
  <2>3. /\ OnlyAt(s, t)
        /\ freeBalance'[s][t] = freeBalance[s][t] + unbondingAmount[s][t]
        /\ unbondingAmount'[s][t] = 0
    BY <2>2, PositionAt DEF OnlyAt
  <2>4. Staked(s, t)' = Staked(s, t)
    BY <2>2, <2>3, StakedType DEF Staked
  <2>5. LedgerStays
    BY <2>2, <2>3, <2>4, PositionStays
  <2> QED
    BY <1>1, <2>1, <2>5 DEF AccountsStep, PrincipalStays
<1>8. ASSUME NEW s \in Stakers, NEW x \in Amounts, NativeReward(s, x)
      PROVE  AccountsStep
  <2>1. PathsStay
    BY <1>8, NoMessageStays DEF NativeReward, paths
  <2>2. /\ freeBalance \in [Stakers -> [Tokens -> Nat]]
        /\ freeBalance' =
               [freeBalance EXCEPT ![s][NST] = freeBalance[s][NST] + x]
        /\ UNCHANGED <<delegatedAmount, unbondingAmount, slashedAmount>>
        /\ NST \in Tokens
    BY <1>8 DEF NativeReward, ImuaTypeOK, Tokens
  <2>3. OnlyAt(s, NST)
    BY <2>2, PositionAt DEF OnlyAt
  <2>4. LedgerStays
    BY <2>2, <2>3, PositionStays
  <2> QED
    BY <1>1, <2>1, <2>4 DEF AccountsStep, PrincipalStays
<1> QED
  BY <1>2, <1>3, <1>4, <1>5, <1>6, <1>7, <1>8
  DEF ImuaStep, ImuaDelivery, ImuaOwner, Ledger

LEMMA AccountsNext ==
    TypeOK /\ RegistryInv /\ MessagesInv /\ [Next]_vars =>
        AccountsStep /\ MessagesInv'
<1> SUFFICES ASSUME TypeOK, RegistryInv, MessagesInv, [Next]_vars
             PROVE  AccountsStep /\ MessagesInv'
  OBVIOUS
<1>1. AccountsStep /\ (UNCHANGED toImua \/ \E m : Sends(m))
  <2>1. CASE UNCHANGED vars
    <3>1. UNCHANGED <<paths, ledgerVars, vaultVars>>
      BY <2>1 DEF vars, clientVars, imuaVars, paths
    <3>2. PathsStay /\ UNCHANGED toImua
      BY <3>1, NoMessageStays DEF paths
    <3>3. LedgerStays
      BY <3>1 DEF ledgerVars, LedgerStays, Staked
    <3>4. VaultsStay
      BY <3>1 DEF vaultVars, VaultsStay
    <3> QED
      BY <3>2, <3>3, <3>4 DEF AccountsStep, PrincipalStays
  <2> QED
    BY <2>1, ClientMoves, ImuaMoves DEF Next
<1>2. UNCHANGED toImua => MessagesInv'
  BY DEF MessagesInv, IsLST, IsNST
<1>3. ASSUME NEW m, Sends(m)
      PROVE  MessagesInv'
  <2>1. /\ Len(toImua') = Len(toImua) + 1
        /\ Len(toImua) \in Nat
        /\ \A i \in 1..Len(toImua) : toImua'[i] = toImua[i]
        /\ toImua'[Len(toImua) + 1] = m
    BY <1>3, SendToImuaType DEF Sends, TypeOK, LzTypeOK
  <2> QED
    BY <1>3, <2>1 DEF MessagesInv, Sends
<1> QED
  BY <1>1, <1>2, <1>3

LEMMA MessagesInit == Init => MessagesInv
BY DEF Init, LzInit, MessagesInv

LEMMA BooksType ==
    ASSUME TypeOK, RegistryInv, NEW s \in Stakers, NEW t \in LSTs
    PROVE  /\ DepositsInFlight(s, t) \in Nat
           /\ GrantsInFlight(s, t) \in Nat
           /\ Staked(s, t) \in Nat
           /\ slashedAmount[s][t] \in Nat
           /\ withdrawableBalances[t][s] \in Nat
           /\ totalDepositedPrincipalAmount[t][s] \in Nat
           /\ totalUnlockPrincipalAmount[t][s] \in Nat
           /\ consumedTvl[t] \in Nat
<1>1. t \in Tokens
  BY DEF Tokens
<1>2. Staked(s, t) \in Nat /\ slashedAmount[s][t] \in Nat
  BY <1>1, StakedType DEF TypeOK
<1>3. VaultTypeOK
  BY DEF TypeOK, ClientTypeOK
<1> QED
  BY <1>2, <1>3, InFlightType, GrantsType DEF TypeOK, VaultTypeOK

\* At the start nothing is on its way and nobody holds anything.
LEMMA BooksInit ==
    ASSUME Init, NEW s \in Stakers, NEW t \in LSTs
    PROVE  /\ DepositsInFlight(s, t) = 0
           /\ GrantsInFlight(s, t) = 0
           /\ Staked(s, t) = 0
           /\ slashedAmount[s][t] = 0
           /\ withdrawableBalances[t][s] = 0
           /\ totalDepositedPrincipalAmount[t][s] = 0
           /\ totalUnlockPrincipalAmount[t][s] = 0
           /\ consumedTvl[t] = 0
<1>1. UndeliveredDeposits(s, t) = {} /\ PendingGrants(s, t) = {}
  BY DEF Init, LzInit, UndeliveredDeposits, PendingGrants, PendingResponses
<1>2. DepositsInFlight(s, t) = 0 /\ GrantsInFlight(s, t) = 0
  BY <1>1, SumEmpty DEF DepositsInFlight, GrantsInFlight
<1>3. t \in Tokens
  BY DEF Tokens
<1> QED
  BY <1>2, <1>3 DEF Init, ClientInit, VaultInit, ImuaInit, NoPosition, Staked

------------------------------------------------------------------------------
(* Conservation.                                                           *)

LEMMA ConservedInit == Init => LstPrincipalConserved
BY BooksInit DEF LstPrincipalConserved, PlacedPrincipal

LEMMA PlacedType ==
    TypeOK /\ RegistryInv =>
        \A s \in Stakers, t \in LSTs :
            /\ PlacedPrincipal(s, t) \in Nat
            /\ totalDepositedPrincipalAmount[t][s] \in Nat
BY BooksType DEF PlacedPrincipal

LEMMA PlacedTypeNext ==
    (TypeOK /\ RegistryInv)' =>
        (\A s \in Stakers, t \in LSTs :
            /\ PlacedPrincipal(s, t) \in Nat
            /\ totalDepositedPrincipalAmount[t][s] \in Nat)'
BY PlacedType, PTL

\* What is placed changes by what is deposited.
LEMMA PrincipalFollows ==
    ASSUME TypeOK, RegistryInv, AccountsStep, NEW u \in Stakers, NEW k \in LSTs
    PROVE  totalDepositedPrincipalAmount'[k][u] - PlacedPrincipal(u, k)'
               = totalDepositedPrincipalAmount[k][u] - PlacedPrincipal(u, k)
<1>0. /\ DepositsInFlight(u, k) \in Nat /\ GrantsInFlight(u, k) \in Nat
      /\ Staked(u, k) \in Nat /\ slashedAmount[u][k] \in Nat
      /\ totalUnlockPrincipalAmount[k][u] \in Nat
      /\ totalDepositedPrincipalAmount[k][u] \in Nat
  BY BooksType
<1> USE DEF PlacedPrincipal
<1>2. CASE PrincipalStays
  BY <1>0, <1>2 DEF PrincipalStays, PathsStay, LedgerStays, VaultsStay
<1>3. CASE PrincipalMoves
  <2> PICK s \in Stakers, t \in LSTs, x \in Amounts :
           \/ Deposited(s, t, x) \/ Credited(s, t, x) \/ Debited(s, t, x)
           \/ Unlocked(s, t, x) \/ Withdrawn(s, t, x) \/ SlashedBy(s, t, x)
    BY <1>3 DEF PrincipalMoves
  <2>0. /\ At(s, t, u, k, x) \in Nat
        /\ At(s, t, u, k, -x) = - At(s, t, u, k, x)
        /\ At(s, t, u, k, 0) = 0
    BY AtFacts
  <2> USE <1>0, <2>0
      DEF PathsMove, PathsStay, LedgerMoves, LedgerStays, VaultsMove, VaultsStay
  <2>1. CASE Deposited(s, t, x)
    BY <2>1 DEF Deposited
  <2>2. CASE Credited(s, t, x)
    BY <2>2 DEF Credited
  <2>3. CASE Debited(s, t, x)
    BY <2>3 DEF Debited
  <2>4. CASE Unlocked(s, t, x)
    BY <2>4 DEF Unlocked
  <2>5. CASE Withdrawn(s, t, x)
    BY <2>5 DEF Withdrawn
  <2>6. CASE SlashedBy(s, t, x)
    BY <2>6 DEF SlashedBy
  <2> QED
    BY <2>1, <2>2, <2>3, <2>4, <2>5, <2>6
<1> QED
  BY <1>2, <1>3 DEF AccountsStep

LEMMA ConservedNext ==
    ASSUME TypeOK, RegistryInv, TypeOK', RegistryInv', AccountsStep,
           LstPrincipalConserved
    PROVE  LstPrincipalConserved'
<1> SUFFICES ASSUME NEW u \in Stakers, NEW k \in LSTs
             PROVE  totalDepositedPrincipalAmount'[k][u] = PlacedPrincipal(u, k)'
  BY DEF LstPrincipalConserved
<1>1. totalDepositedPrincipalAmount[k][u] = PlacedPrincipal(u, k)
  BY DEF LstPrincipalConserved
<1>2. /\ PlacedPrincipal(u, k) \in Nat
      /\ totalDepositedPrincipalAmount[k][u] \in Nat
  BY PlacedType
<1>3. /\ PlacedPrincipal(u, k)' \in Nat
      /\ totalDepositedPrincipalAmount'[k][u] \in Nat
  BY PlacedTypeNext
<1> QED
  BY <1>1, <1>2, <1>3, PrincipalFollows

------------------------------------------------------------------------------
(* The vaults can pay.                                                     *)

OwedFor(t) == [s \in Stakers |-> Owed(s, t)]

LEMMA SolventIsOwed ==
    VaultSolvent <=>
        \A t \in LSTs : SumFunctionOnSet(OwedFor(t), Stakers) <= consumedTvl[t]
BY DEF VaultSolvent, OwedFor, Owed, SumFunction

LEMMA OwedType ==
    TypeOK /\ RegistryInv =>
        \A t \in LSTs :
            /\ \A s \in Stakers : OwedFor(t)[s] \in Nat
            /\ SumFunctionOnSet(OwedFor(t), Stakers) \in Nat
<1> SUFFICES ASSUME TypeOK, RegistryInv, NEW t \in LSTs
             PROVE  /\ \A s \in Stakers : OwedFor(t)[s] \in Nat
                    /\ SumFunctionOnSet(OwedFor(t), Stakers) \in Nat
  OBVIOUS
<1>1. \A s \in Stakers : OwedFor(t)[s] \in Nat
  BY BooksType DEF OwedFor, Owed
<1> QED
  BY <1>1, SumType

LEMMA OwedTypeNext ==
    (TypeOK /\ RegistryInv)' =>
        (\A t \in LSTs :
            /\ \A s \in Stakers : OwedFor(t)[s] \in Nat
            /\ SumFunctionOnSet(OwedFor(t), Stakers) \in Nat)'
BY OwedType, PTL

LEMMA SolventInit == Init => VaultSolvent
<1> SUFFICES ASSUME Init, NEW t \in LSTs
             PROVE  SumFunctionOnSet(OwedFor(t), Stakers) <= consumedTvl[t]
  BY SolventIsOwed
<1>1. \A s \in Stakers : OwedFor(t)[s] = 0
  BY BooksInit DEF OwedFor, Owed
<1>2. consumedTvl[t] = 0
  BY DEF Init, ClientInit, VaultInit
<1> QED
  BY <1>1, <1>2, SumZero

\* What a vault lacks of what it owes does not grow.
LEMMA ShortfallStays ==
    ASSUME TypeOK, RegistryInv, TypeOK', RegistryInv', AccountsStep,
           NEW k \in LSTs, NEW c \in Int,
           SumFunctionOnSet(OwedFor(k), Stakers) <= consumedTvl[k] + c
    PROVE  SumFunctionOnSet(OwedFor(k)', Stakers) <= consumedTvl'[k] + c
<1> DEFINE f == OwedFor(k)
           g == OwedFor(k)'
<1>1. /\ \A u \in Stakers : f[u] \in Nat
      /\ SumFunctionOnSet(f, Stakers) \in Nat
      /\ consumedTvl[k] \in Nat
  BY OwedType DEF TypeOK, ClientTypeOK, VaultTypeOK
<1>2. \A u \in Stakers : g[u] \in Nat
  BY OwedTypeNext
<1>3. SumFunctionOnSet(f, Stakers) <= consumedTvl[k] + c
  OBVIOUS
<1>4. \A u \in Stakers : f[u] = Owed(u, k) /\ g[u] = Owed(u, k)'
  BY DEF OwedFor
<1>5. CASE PrincipalStays
  <2>1. /\ \A u \in Stakers : g[u] = f[u]
        /\ consumedTvl'[k] = consumedTvl[k]
    BY <1>4, <1>5
    DEF PrincipalStays, PathsStay, LedgerStays, VaultsStay, Owed
  <2> HIDE DEF f, g
  <2>2. SumFunctionOnSet(g, Stakers) = SumFunctionOnSet(f, Stakers)
    BY <1>1, <2>1, SumSame
  <2> QED
    BY <1>1, <1>3, <2>1, <2>2 DEF g
<1>6. ASSUME NEW s \in Stakers, NEW t \in LSTs, NEW d \in Int, NEW h \in Int,
             d <= h,
             \A u \in Stakers : Owed(u, k)' = Owed(u, k) + At(s, t, u, k, d),
             consumedTvl'[k] = consumedTvl[k] + IF k = t THEN h ELSE 0
      PROVE  SumFunctionOnSet(g, Stakers) <= consumedTvl'[k] + c
  <2>1. \A u \in Stakers : u # s \/ k # t => g[u] = f[u]
    BY <1>1, <1>4, <1>6 DEF At
  <2>2. k = t => g[s] = f[s] + d
    BY <1>4, <1>6 DEF At
  <2> HIDE DEF f, g
  <2>3. CASE k = t
    <3>1. SumFunctionOnSet(g, Stakers) + f[s] = SumFunctionOnSet(f, Stakers) + g[s]
      BY <1>1, <1>2, <2>1, <2>3, SumChange
    <3>2. SumFunctionOnSet(g, Stakers) \in Nat
      BY <1>2, SumType
    <3>3. f[s] \in Nat /\ g[s] \in Nat
      BY <1>1, <1>2
    <3> QED
      BY <1>1, <1>3, <1>6, <2>2, <2>3, <3>1, <3>2, <3>3
  <2>4. CASE k # t
    <3>1. SumFunctionOnSet(g, Stakers) = SumFunctionOnSet(f, Stakers)
      BY <1>1, <2>1, <2>4, SumSame
    <3> QED
      BY <1>1, <1>3, <1>6, <2>4, <3>1
  <2> QED
    BY <2>3, <2>4
<1>7. CASE PrincipalMoves
  <2> PICK s \in Stakers, t \in LSTs, x \in Amounts :
           \/ Deposited(s, t, x) \/ Credited(s, t, x) \/ Debited(s, t, x)
           \/ Unlocked(s, t, x) \/ Withdrawn(s, t, x) \/ SlashedBy(s, t, x)
    BY <1>7 DEF PrincipalMoves
  <2> DEFINE Effect(d, h) ==
          /\ \A u \in Stakers : Owed(u, k)' = Owed(u, k) + At(s, t, u, k, d)
          /\ consumedTvl'[k] = consumedTvl[k] + IF k = t THEN h ELSE 0
  <2>0. x \in Nat /\ -x \in Int /\ 0 \in Int
    OBVIOUS
  <2>1. ASSUME NEW u \in Stakers
        PROVE  /\ Deposited(s, t, x) =>
                      Owed(u, k)' = Owed(u, k) + At(s, t, u, k, x)
               /\ Credited(s, t, x) \/ Debited(s, t, x) \/ Unlocked(s, t, x) =>
                      Owed(u, k)' = Owed(u, k) + At(s, t, u, k, 0)
               /\ Withdrawn(s, t, x) \/ SlashedBy(s, t, x) =>
                      Owed(u, k)' = Owed(u, k) + At(s, t, u, k, -x)
    <3> USE DEF PathsMove, PathsStay, LedgerMoves, LedgerStays, VaultsMove,
                VaultsStay, Owed
    <3>1. /\ At(s, t, u, k, x) \in Nat
          /\ At(s, t, u, k, -x) = - At(s, t, u, k, x)
          /\ At(s, t, u, k, 0) = 0
      BY AtFacts
    <3>2. /\ DepositsInFlight(u, k) \in Nat /\ GrantsInFlight(u, k) \in Nat
          /\ Staked(u, k) \in Nat /\ withdrawableBalances[k][u] \in Nat
      BY BooksType
    <3>3. Deposited(s, t, x) => Owed(u, k)' = Owed(u, k) + At(s, t, u, k, x)
      BY <3>1, <3>2 DEF Deposited
    <3>4. Credited(s, t, x) => Owed(u, k)' = Owed(u, k) + At(s, t, u, k, 0)
      BY <3>1, <3>2 DEF Credited
    <3>5. Debited(s, t, x) => Owed(u, k)' = Owed(u, k) + At(s, t, u, k, 0)
      BY <3>1, <3>2 DEF Debited
    <3>6. Unlocked(s, t, x) => Owed(u, k)' = Owed(u, k) + At(s, t, u, k, 0)
      BY <3>1, <3>2 DEF Unlocked
    <3>7. Withdrawn(s, t, x) => Owed(u, k)' = Owed(u, k) + At(s, t, u, k, -x)
      BY <3>1, <3>2 DEF Withdrawn
    <3>8. SlashedBy(s, t, x) => Owed(u, k)' = Owed(u, k) + At(s, t, u, k, -x)
      BY <3>1, <3>2 DEF SlashedBy
    <3> QED
      BY <3>3, <3>4, <3>5, <3>6, <3>7, <3>8
  <2>2. /\ Deposited(s, t, x) =>
               consumedTvl'[k] = consumedTvl[k] + IF k = t THEN x ELSE 0
        /\ Withdrawn(s, t, x) =>
               consumedTvl'[k] = consumedTvl[k] + IF k = t THEN -x ELSE 0
        /\ (\/ Credited(s, t, x) \/ Debited(s, t, x)
            \/ Unlocked(s, t, x) \/ SlashedBy(s, t, x)) =>
               consumedTvl'[k] = consumedTvl[k] + IF k = t THEN 0 ELSE 0
    BY <1>1 DEF Deposited, Withdrawn, Credited, Debited, Unlocked, SlashedBy,
                VaultsMove, VaultsStay
  <2>3. /\ Deposited(s, t, x) => Effect(x, x)
        /\ Credited(s, t, x) \/ Debited(s, t, x) \/ Unlocked(s, t, x) =>
               Effect(0, 0)
        /\ Withdrawn(s, t, x) => Effect(-x, -x)
        /\ SlashedBy(s, t, x) => Effect(-x, 0)
    BY <2>1, <2>2
  <2>4. ASSUME NEW d \in Int, NEW h \in Int, d <= h, Effect(d, h)
        PROVE  SumFunctionOnSet(g, Stakers) <= consumedTvl'[k] + c
    BY <1>6, <2>4
  <2> HIDE DEF Effect, g
  <2> QED
    BY <2>0, <2>3, <2>4 DEF g
<1> QED
  BY <1>5, <1>7 DEF AccountsStep

LEMMA SolventNext ==
    ASSUME TypeOK, RegistryInv, TypeOK', RegistryInv', AccountsStep,
           VaultSolvent
    PROVE  VaultSolvent'
<1> SUFFICES ASSUME NEW k \in LSTs
             PROVE  SumFunctionOnSet(OwedFor(k)', Stakers) <= consumedTvl'[k]
  BY DEF VaultSolvent, OwedFor, Owed, SumFunction
<1>1. SumFunctionOnSet(OwedFor(k), Stakers) <= consumedTvl[k]
  BY SolventIsOwed
<1>2. /\ SumFunctionOnSet(OwedFor(k), Stakers) \in Nat
      /\ consumedTvl[k] \in Nat
  BY OwedType DEF TypeOK, ClientTypeOK, VaultTypeOK
<1>3. /\ SumFunctionOnSet(OwedFor(k)', Stakers) \in Nat
      /\ consumedTvl'[k] \in Nat
  BY OwedTypeNext DEF TypeOK, ClientTypeOK, VaultTypeOK
<1>4. PICK c \in Int : c = 0
  OBVIOUS
<1>5. SumFunctionOnSet(OwedFor(k), Stakers) <= consumedTvl[k] + c
  BY <1>1, <1>2, <1>4
<1>6. SumFunctionOnSet(OwedFor(k)', Stakers) <= consumedTvl'[k] + c
  BY <1>5, ShortfallStays
<1> QED
  BY <1>3, <1>4, <1>6

------------------------------------------------------------------------------
(* The bridge implements RestakingLedger.                                  *)

\* The five places of an account.
Arriving == [a \in Accounts |-> DepositsInFlight(a[1], a[2])]
OnStake == [a \in Accounts |-> Staked(a[1], a[2])]
Leaving == [a \in Accounts |-> GrantsInFlight(a[1], a[2])]
Withdrawable == [a \in Accounts |-> withdrawableBalances[a[2]][a[1]]]
Slashed == [a \in Accounts |-> slashedAmount[a[1]][a[2]]]

\* d comes to the account <<s, t>> of a place, or leaves it.
Shifted(f, g, s, t, d) ==
    \A u \in Stakers, k \in LSTs :
        g[<<u, k>>] = f[<<u, k>>] + At(s, t, u, k, d)

LEMMA AccountFacts ==
    /\ \A a \in Accounts : a = <<a[1], a[2]>> /\ a[1] \in Stakers /\ a[2] \in LSTs
    /\ \A s \in Stakers, t \in LSTs : <<s, t>> \in Accounts
BY DEF Accounts

LEMMA AccountGains ==
    ASSUME NEW f \in [Accounts -> Nat], NEW g \in [Accounts -> Nat],
           NEW s \in Stakers, NEW t \in LSTs, NEW x \in Nat,
           Shifted(f, g, s, t, x)
    PROVE  g = [f EXCEPT ![<<s, t>>] = @ + x]
<1>1. \A a \in Accounts : g[a] = IF a = <<s, t>> THEN f[a] + x ELSE f[a]
  BY AccountFacts DEF Shifted, At
<1> QED
  BY <1>1, AccountFacts

LEMMA AccountLoses ==
    ASSUME NEW f \in [Accounts -> Nat], NEW g \in [Accounts -> Nat],
           NEW s \in Stakers, NEW t \in LSTs, NEW x \in Nat,
           Shifted(f, g, s, t, -x)
    PROVE  x <= f[<<s, t>>] /\ g = [f EXCEPT ![<<s, t>>] = @ - x]
<1>1. \A a \in Accounts : g[a] = IF a = <<s, t>> THEN f[a] - x ELSE f[a]
  BY AccountFacts DEF Shifted, At
<1>2. /\ <<s, t>> \in Accounts
      /\ f[<<s, t>>] \in Nat
      /\ g[<<s, t>>] \in Nat
  BY AccountFacts
<1>3. g[<<s, t>>] = f[<<s, t>>] - x
  BY <1>1, <1>2
<1> QED
  BY <1>1, <1>2, <1>3

LEMMA AccountStays ==
    ASSUME NEW f \in [Accounts -> Nat], NEW g \in [Accounts -> Nat],
           NEW s \in Stakers, NEW t \in LSTs, Shifted(f, g, s, t, 0)
    PROVE  g = f
<1>1. \A a \in Accounts : g[a] = f[a]
  BY AccountFacts DEF Shifted, At
<1> QED
  BY <1>1

\* The five places hold natural numbers.
Places == /\ Arriving \in [Accounts -> Nat]
          /\ OnStake \in [Accounts -> Nat]
          /\ Leaving \in [Accounts -> Nat]
          /\ Withdrawable \in [Accounts -> Nat]
          /\ Slashed \in [Accounts -> Nat]

LEMMA PlacesType == TypeOK /\ RegistryInv => Places
BY AccountFacts, BooksType
DEF Places, Arriving, OnStake, Leaving, Withdrawable, Slashed

LEMMA PlacesTypeNext == (TypeOK /\ RegistryInv)' => Places'
BY PlacesType, PTL

\* What a step does to the places.
LEMMA PlacesShift ==
    ASSUME NEW s, NEW t, NEW d, NEW h, NEW i, NEW j
    PROVE  /\ PathsMove(s, t, d, h) => /\ Shifted(Arriving, Arriving', s, t, d)
                                       /\ Shifted(Leaving, Leaving', s, t, h)
           /\ LedgerMoves(s, t, d, h) => /\ Shifted(OnStake, OnStake', s, t, d)
                                         /\ Shifted(Slashed, Slashed', s, t, h)
           /\ VaultsMove(s, t, d, h, i, j) =>
                  Shifted(Withdrawable, Withdrawable', s, t, d)
<1> USE AccountFacts
<1>1. PathsMove(s, t, d, h) => /\ Shifted(Arriving, Arriving', s, t, d)
                               /\ Shifted(Leaving, Leaving', s, t, h)
  BY DEF PathsMove, Shifted, Arriving, Leaving
<1>2. LedgerMoves(s, t, d, h) => /\ Shifted(OnStake, OnStake', s, t, d)
                                 /\ Shifted(Slashed, Slashed', s, t, h)
  BY DEF LedgerMoves, Shifted, OnStake, Slashed
<1>3. VaultsMove(s, t, d, h, i, j) =>
          Shifted(Withdrawable, Withdrawable', s, t, d)
  BY DEF VaultsMove, Shifted, Withdrawable
<1> QED
  BY <1>1, <1>2, <1>3

LEMMA PlacesStay ==
    /\ PathsStay => UNCHANGED <<Arriving, Leaving>>
    /\ LedgerStays => UNCHANGED <<OnStake, Slashed>>
    /\ VaultsStay => UNCHANGED Withdrawable
<1> USE AccountFacts
<1>1. PathsStay => UNCHANGED <<Arriving, Leaving>>
  BY DEF PathsStay, Arriving, Leaving
<1>2. LedgerStays => UNCHANGED <<OnStake, Slashed>>
  BY DEF LedgerStays, OnStake, Slashed
<1>3. VaultsStay => UNCHANGED Withdrawable
  BY DEF VaultsStay, Withdrawable
<1> QED
  BY <1>1, <1>2, <1>3

LEMMA LedgerInitRefined == Init => Principal!LedgerInit
<1> SUFFICES ASSUME Init PROVE Principal!LedgerInit
  OBVIOUS
<1>1. \A a \in Accounts : a[1] \in Stakers /\ a[2] \in LSTs
  BY DEF Accounts
<1> QED
  BY <1>1, BooksInit DEF Principal!LedgerInit, Principal!Empty

LEMMA LedgerNextRefined ==
    ASSUME TypeOK, RegistryInv, TypeOK', RegistryInv', AccountsStep
    PROVE  [Principal!LedgerNext]_(Principal!ledger)
<1>1. Places /\ Places'
  BY PlacesType, PlacesTypeNext
<1>2. CASE PrincipalStays
  <2>1. UNCHANGED <<Arriving, OnStake, Leaving, Withdrawable, Slashed>>
    BY <1>2, PlacesStay DEF PrincipalStays
  <2> QED
    BY <2>1 DEF Principal!ledger, Arriving, OnStake, Leaving, Withdrawable,
                Slashed
<1>3. CASE PrincipalMoves
  <2> PICK s \in Stakers, t \in LSTs, x \in Amounts :
           \/ Deposited(s, t, x) \/ Credited(s, t, x) \/ Debited(s, t, x)
           \/ Unlocked(s, t, x) \/ Withdrawn(s, t, x) \/ SlashedBy(s, t, x)
    BY <1>3 DEF PrincipalMoves
  <2> DEFINE a == <<s, t>>
  <2>1. a \in Accounts /\ x \in Nat
    BY AccountFacts
  <2> USE DEF Places
  <2>2. CASE Deposited(s, t, x)
    <3>1. /\ Shifted(Arriving, Arriving', s, t, x)
          /\ Shifted(Leaving, Leaving', s, t, 0)
          /\ Shifted(Withdrawable, Withdrawable', s, t, 0)
          /\ UNCHANGED <<OnStake, Slashed>>
      BY <2>2, PlacesShift, PlacesStay DEF Deposited
    <3>2. Arriving' = [Arriving EXCEPT ![a] = @ + x]
      BY <1>1, <2>1, <3>1, AccountGains
    <3>3. Leaving' = Leaving
      BY <1>1, <2>1, <3>1, AccountStays
    <3>4. Withdrawable' = Withdrawable
      BY <1>1, <2>1, <3>1, AccountStays
    <3>5. Principal!Deposit(a, x)
      BY <3>1, <3>2, <3>3, <3>4
      DEF Principal!Deposit, Arriving, OnStake, Leaving, Withdrawable, Slashed
    <3> QED
      BY <2>1, <3>5 DEF Principal!LedgerNext
  <2>3. CASE Credited(s, t, x)
    <3>1. /\ Shifted(Arriving, Arriving', s, t, -x)
          /\ Shifted(OnStake, OnStake', s, t, x)
          /\ Shifted(Leaving, Leaving', s, t, 0)
          /\ Shifted(Slashed, Slashed', s, t, 0)
          /\ UNCHANGED Withdrawable
      BY <2>3, PlacesShift, PlacesStay DEF Credited
    <3>2. /\ x <= Arriving[a]
          /\ Arriving' = [Arriving EXCEPT ![a] = @ - x]
      <4>1. /\ Arriving \in [Accounts -> Nat]
            /\ Arriving' \in [Accounts -> Nat]
            /\ Shifted(Arriving, Arriving', s, t, -x)
        BY <1>1, <3>1
      <4> QED
        BY <2>1, <4>1, AccountLoses
    <3>3. OnStake' = [OnStake EXCEPT ![a] = @ + x]
      BY <1>1, <2>1, <3>1, AccountGains
    <3>4. Leaving' = Leaving
      BY <1>1, <2>1, <3>1, AccountStays
    <3>5. Slashed' = Slashed
      BY <1>1, <2>1, <3>1, AccountStays
    <3>6. Principal!Credit(a, x)
      BY <3>1, <3>2, <3>3, <3>4, <3>5
      DEF Principal!Credit, Arriving, OnStake, Leaving, Withdrawable, Slashed
    <3> QED
      BY <2>1, <3>6 DEF Principal!LedgerNext
  <2>4. CASE Debited(s, t, x)
    <3>1. /\ Shifted(OnStake, OnStake', s, t, -x)
          /\ Shifted(Leaving, Leaving', s, t, x)
          /\ Shifted(Arriving, Arriving', s, t, 0)
          /\ Shifted(Slashed, Slashed', s, t, 0)
          /\ UNCHANGED Withdrawable
      BY <2>4, PlacesShift, PlacesStay DEF Debited
    <3>2. /\ x <= OnStake[a]
          /\ OnStake' = [OnStake EXCEPT ![a] = @ - x]
      BY <1>1, <2>1, <3>1, AccountLoses
    <3>3. Leaving' = [Leaving EXCEPT ![a] = @ + x]
      BY <1>1, <2>1, <3>1, AccountGains
    <3>4. Arriving' = Arriving
      BY <1>1, <2>1, <3>1, AccountStays
    <3>5. Slashed' = Slashed
      BY <1>1, <2>1, <3>1, AccountStays
    <3>6. Principal!Debit(a, x)
      BY <3>1, <3>2, <3>3, <3>4, <3>5
      DEF Principal!Debit, Arriving, OnStake, Leaving, Withdrawable, Slashed
    <3> QED
      BY <2>1, <3>6 DEF Principal!LedgerNext
  <2>5. CASE Unlocked(s, t, x)
    <3>1. /\ Shifted(Leaving, Leaving', s, t, -x)
          /\ Shifted(Withdrawable, Withdrawable', s, t, x)
          /\ Shifted(Arriving, Arriving', s, t, 0)
          /\ UNCHANGED <<OnStake, Slashed>>
      BY <2>5, PlacesShift, PlacesStay DEF Unlocked
    <3>2. /\ x <= Leaving[a]
          /\ Leaving' = [Leaving EXCEPT ![a] = @ - x]
      BY <1>1, <2>1, <3>1, AccountLoses
    <3>3. Withdrawable' = [Withdrawable EXCEPT ![a] = @ + x]
      BY <1>1, <2>1, <3>1, AccountGains
    <3>4. Arriving' = Arriving
      BY <1>1, <2>1, <3>1, AccountStays
    <3>5. Principal!Unlock(a, x)
      BY <3>1, <3>2, <3>3, <3>4
      DEF Principal!Unlock, Arriving, OnStake, Leaving, Withdrawable, Slashed
    <3> QED
      BY <2>1, <3>5 DEF Principal!LedgerNext
  <2>6. CASE Withdrawn(s, t, x)
    <3>1. /\ Shifted(Withdrawable, Withdrawable', s, t, -x)
          /\ UNCHANGED <<Arriving, OnStake, Leaving, Slashed>>
      BY <2>6, PlacesShift, PlacesStay DEF Withdrawn
    <3>2. /\ x <= Withdrawable[a]
          /\ Withdrawable' = [Withdrawable EXCEPT ![a] = @ - x]
      BY <1>1, <2>1, <3>1, AccountLoses
    <3>3. Principal!Withdraw(a, x)
      BY <3>1, <3>2
      DEF Principal!Withdraw, Arriving, OnStake, Leaving, Withdrawable, Slashed
    <3> QED
      BY <2>1, <3>3 DEF Principal!LedgerNext
  <2>7. CASE SlashedBy(s, t, x)
    <3>1. /\ Shifted(OnStake, OnStake', s, t, -x)
          /\ Shifted(Slashed, Slashed', s, t, x)
          /\ UNCHANGED <<Arriving, Leaving, Withdrawable>>
      BY <2>7, PlacesShift, PlacesStay DEF SlashedBy
    <3>2. /\ x <= OnStake[a]
          /\ OnStake' = [OnStake EXCEPT ![a] = @ - x]
      BY <1>1, <2>1, <3>1, AccountLoses
    <3>3. Slashed' = [Slashed EXCEPT ![a] = @ + x]
      BY <1>1, <2>1, <3>1, AccountGains
    <3>4. Principal!Slash(a, x)
      BY <3>1, <3>2, <3>3
      DEF Principal!Slash, Arriving, OnStake, Leaving, Withdrawable, Slashed
    <3> QED
      BY <2>1, <3>4 DEF Principal!LedgerNext
  <2> QED
    BY <2>2, <2>3, <2>4, <2>5, <2>6, <2>7
<1> QED
  BY <1>2, <1>3 DEF AccountsStep

------------------------------------------------------------------------------
\* Over both chains and the messages between them, the principal a staker
\* ever deposited in a vault is where it should be: on its way, staked,
\* slashed, granted or unlocked.
THEOREM PrincipalConserved == Spec => []LstPrincipalConserved
<1>1. Init => TypeOK /\ RegistryInv /\ MessagesInv /\ LstPrincipalConserved
  BY TypeInit, RegistryInit, MessagesInit, ConservedInit
<1>2. TypeOK /\ RegistryInv /\ MessagesInv /\ LstPrincipalConserved /\ [Next]_vars
          => (TypeOK /\ RegistryInv /\ MessagesInv /\ LstPrincipalConserved)'
  BY TypeNext, RegistryNext, AccountsNext, ConservedNext
<1> QED
  BY <1>1, <1>2, PTL DEF Spec

\* A vault holds all it owes its stakers and may come to owe them, so a
\* staker who passes the first check of Vault.withdraw passes the second.
THEOREM VaultsCanPay == Spec => []VaultSolvent
<1>1. Init => TypeOK /\ RegistryInv /\ MessagesInv /\ VaultSolvent
  BY TypeInit, RegistryInit, MessagesInit, SolventInit
<1>2. TypeOK /\ RegistryInv /\ MessagesInv /\ VaultSolvent /\ [Next]_vars
          => (TypeOK /\ RegistryInv /\ MessagesInv /\ VaultSolvent)'
  BY TypeNext, RegistryNext, AccountsNext, SolventNext
<1> QED
  BY <1>1, <1>2, PTL DEF Spec

\* The bridge implements RestakingLedger: no step of either gateway, of the
\* vaults or of the ledger of Imuachain moves LST principal in any other way.
THEOREM BridgeImplementsLedger == Spec => ImplementsLedger
<1>1. Init => TypeOK /\ RegistryInv /\ MessagesInv /\ Principal!LedgerInit
  BY TypeInit, RegistryInit, MessagesInit, LedgerInitRefined
<1>2. TypeOK /\ RegistryInv /\ MessagesInv /\ [Next]_vars
          => (TypeOK /\ RegistryInv /\ MessagesInv)'
  BY TypeNext, RegistryNext, AccountsNext
<1>3. TypeOK /\ RegistryInv /\ MessagesInv /\ [Next]_vars
          /\ TypeOK' /\ RegistryInv'
          => [Principal!LedgerNext]_(Principal!ledger)
  BY AccountsNext, LedgerNextRefined
<1> QED
  BY <1>1, <1>2, <1>3, PTL DEF Spec, ImplementsLedger, Principal!LedgerSpec
==============================================================================
