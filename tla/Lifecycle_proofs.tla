--------------------------- MODULE Lifecycle_proofs ---------------------------
(***************************************************************************)
(* Theorems about Lifecycle: what Bootstrap collected is what the bridge   *)
(* starts with.  Until the upgrade the contract satisfies the invariant of *)
(* Bootstrap; from the genesis on the two chains satisfy the invariants of *)
(* the bridge.  Between the two nothing that the genesis was generated     *)
(* from can move, because it is generated after the lock.                  *)
(***************************************************************************)
EXTENDS Lifecycle, BridgeAccounting_proofs, Bootstrap_proofs

USE StakersAssumption, NSTAssumption, GenesisTokensAssumption,
    RegistryAssumption, AmountsAssumption

\* Before the genesis there is no message, and no position but those that the
\* genesis will set.
NothingSent ==
    /\ LzInit
    /\ registeredRequests = << >>
    /\ unbondingAmount = NoPosition
    /\ slashedAmount = NoPosition

\* The promises of the bridge about LST principal, up to the digits that the
\* genesis does not write.
TotalSlack(t) ==
    SumFunctionOnSet([s \in Stakers |-> GenesisSlack(s, t)], Stakers)

PlacedWithin ==
    \A s \in Stakers, t \in LSTs :
        Distance(PlacedPrincipal(s, t), totalDepositedPrincipalAmount[t][s])
            <= GenesisSlack(s, t)

SolventWithin ==
    \A t \in LSTs :
        /\ TotalSlack(t) \in Nat
        /\ SumFunctionOnSet(OwedFor(t), Stakers) <= consumedTvl[t] + TotalSlack(t)

\* The invariants of Bootstrap until the upgrade and those of the bridge from
\* the genesis on; in between both hold, and the contract is locked.
LifeInv ==
    /\ TypeOK
    /\ genesisTime \in Nat
    /\ RegistryInv
    /\ MessagesInv
    /\ ~ bootstrapped => BootstrapInv
    /\ genesisTime = 0 => ~ bootstrapped /\ NothingSent
    /\ genesisTime > 0 /\ ~ bootstrapped => IsLocked
    /\ genesisTime > 0 => PlacedWithin /\ SolventWithin /\ TokensInv

\* The contract's part of TypeOK, and the schedule, are typed by Bootstrap's
\* invariant.
ContractTypeOK ==
    /\ VaultTypeOK /\ CapsuleTypeOK
    /\ clientPaused \in BOOLEAN
    /\ whitelistedTokens \subseteq Tokens
    /\ spawnTime \in Nat /\ offsetDuration \in Nat

LEMMA BootstrapTypes == BootstrapInv => ContractTypeOK
<1> SUFFICES ASSUME BootstrapInv  PROVE ContractTypeOK
  OBVIOUS
<1>1. BooksTypeOK /\ ValidatorTypeOK /\ OwnerTypeOK /\ ListsTypeOK /\ NativeTypeOK
  BY DEF BootstrapInv, BooksInv, ListsInv, PubkeysInv
<1>2. BootstrapTypeOK
  BY <1>1, TypeParts
<1> QED
  BY <1>2 DEF BootstrapTypeOK, ContractTypeOK

\* Empty paths carry nothing.
LEMMA QuietPaths ==
    ASSUME LzInit, NEW s \in Stakers, NEW t \in LSTs
    PROVE  DepositsInFlight(s, t) = 0 /\ GrantsInFlight(s, t) = 0
<1>1. UndeliveredDeposits(s, t) = {} /\ PendingGrants(s, t) = {}
  BY DEF LzInit, UndeliveredDeposits, PendingGrants, PendingResponses
<1> QED
  BY <1>1, SumEmpty DEF DepositsInFlight, GrantsInFlight

------------------------------------------------------------------------------
(* The start.                                                              *)

\* The contract starts as Bootstrap starts, and Imuachain with nothing.
LEMMA LifeInit == LifecycleInit => LifeInv
<1> SUFFICES ASSUME LifecycleInit  PROVE LifeInv
  OBVIOUS
<1>1. BootstrapInv
  BY BootstrapInvInit DEF LifecycleInit
<1>2. TypeOK
  <2>1. LzTypeOK
    BY DEF LifecycleInit, LzInit, LzTypeOK
  <2>2. ImuaTypeOK
    BY DEF LifecycleInit, ImuaInit, ImuaTypeOK, NoPosition
  <2>3. ClientTypeOK
    BY <1>1, BootstrapTypes DEF LifecycleInit, ClientTypeOK, ContractTypeOK
  <2> QED
    BY <2>1, <2>2, <2>3 DEF TypeOK
<1>3. RegistryInv /\ MessagesInv
  BY DEF LifecycleInit, LzInit, RegistryInv, CachedIsSent,
      UndeliveredAreRegistered, AnswersAreDue, AnswersAreUnique,
      ExecutedAreAnswered, PendingResponses, MessagesInv
<1>4. NothingSent /\ genesisTime = 0 /\ bootstrapped = FALSE
  BY DEF LifecycleInit, ImuaInit, NothingSent
<1> QED
  BY <1>1, <1>2, <1>3, <1>4 DEF LifeInv

------------------------------------------------------------------------------
(* The genesis.                                                            *)

\* What it gives to a staker is a natural number, delegations included.
LEMMA GenesisDelegatedType ==
    ASSUME BootstrapInv, NEW s \in Stakers, NEW t \in Tokens,
           NEW balance \in Balances
    PROVE  GenesisDelegated(s, t, balance) \in Nat
<1> DEFINE f == [o \in Operators |-> GenesisDelegation(s, o, t, balance)]
<1>1. \A o \in Operators : f[o] \in Nat
  BY GenesisDelegationType DEF BootstrapInv, PubkeysInv
<1>2. DOMAIN f = Operators
  OBVIOUS
<1> HIDE DEF f
<1>3. SumFunctionOnSet(f, Operators) \in Nat
  BY <1>1, SumType
<1> QED
  BY <1>2, <1>3 DEF GenesisDelegated, SumFunction, f

\* Rounding moves a number by less than its last digit.
LEMMA RoundedWithin ==
    ASSUME NEW n \in Nat
    PROVE  /\ Rounded(n) \in Nat /\ LastDigit(n) \in Nat
           /\ Rounded(n) <= n + LastDigit(n)
           /\ n <= Rounded(n) + LastDigit(n)
<1>1. PICK r \in Nat, u \in Nat :
          /\ r = Rounded(n) /\ u = Ulp[n]
          /\ Near(r, n, u) /\ (n < Exact => r = n)
  BY RoundedFacts, UlpType
<1>2. LastDigit(n) = IF n < Exact THEN 0 ELSE u
  BY <1>1 DEF LastDigit
<1> QED
  BY <1>1, <1>2 DEF Near

LEMMA SumBelow ==
    ASSUME NEW S, IsFiniteSet(S), NEW f, NEW g, NEW e,
           \A x \in S : /\ f[x] \in Nat /\ g[x] \in Nat /\ e[x] \in Nat
                        /\ f[x] <= g[x] + e[x]
    PROVE  SumFunctionOnSet(f, S) <= SumFunctionOnSet(g, S) + SumFunctionOnSet(e, S)
<1> DEFINE h == [x \in S |-> g[x] + e[x]]
<1>1. \A x \in S : /\ f[x] \in Nat /\ g[x] \in Nat /\ e[x] \in Nat
                   /\ h[x] \in Nat /\ h[x] = g[x] + e[x] /\ f[x] <= h[x]
  OBVIOUS
<1> HIDE DEF h
<1>2. SumFunctionOnSet(f, S) <= SumFunctionOnSet(h, S)
  BY <1>1, SumLeq
<1>3. SumFunctionOnSet(h, S) = SumFunctionOnSet(g, S) + SumFunctionOnSet(e, S)
  BY <1>1, SumPlus
<1> QED
  BY <1>2, <1>3

\* An LST staker starts with all that is deposited and not claimed, but for the
\* digits of delegations that are not written.
LEMMA GenesisStakesDeposits ==
    ASSUME BootstrapInv, NEW s \in Stakers, NEW t \in LSTs,
           NEW balance \in Balances
    PROVE  LET staked == GenesisWithdrawable(s, t, balance)
                             + GenesisDelegated(s, t, balance)
           IN  /\ GenesisWithdrawable(s, t, balance) \in Nat
               /\ GenesisDelegated(s, t, balance) \in Nat
               /\ totalDepositAmounts[s][t] \in Nat
               /\ GenesisSlack(s, t) \in Nat
               /\ staked <= totalDepositAmounts[s][t] + GenesisSlack(s, t)
               /\ totalDepositAmounts[s][t] <= staked + GenesisSlack(s, t)
<1> DEFINE d == [o \in Operators |-> delegations[s][o][t]]
           r == [o \in Operators |-> GenesisDelegation(s, o, t, balance)]
           e == [o \in Operators |-> LastDigit(delegations[s][o][t])]
<1>1. /\ t \in Tokens /\ t # NST
      /\ BooksInv /\ NativeTypeOK /\ ListsInv
  BY DEF Tokens, BootstrapInv, PubkeysInv
<1>2. \A o \in Operators : /\ d[o] \in Nat /\ r[o] \in Nat /\ e[o] \in Nat
                           /\ r[o] <= d[o] + e[o] /\ d[o] <= r[o] + e[o]
  <2>1. ASSUME NEW o \in Operators
        PROVE  /\ d[o] \in Nat /\ r[o] \in Nat /\ e[o] \in Nat
               /\ r[o] <= d[o] + e[o] /\ d[o] <= r[o] + e[o]
    <3>1. PICK x \in Nat : x = delegations[s][o][t]
      BY <1>1 DEF BooksInv, BooksTypeOK
    <3>2. GenesisDelegation(s, o, t, balance) = Rounded(x)
      BY <1>1, <3>1, GenesisDelegationType
    <3> QED
      BY <3>1, <3>2, RoundedWithin
  <2> QED
    BY <2>1
<1>3. /\ GenesisDelegated(s, t, balance) = SumFunctionOnSet(r, Operators)
      /\ DelegatedBy(s, t) = SumFunctionOnSet(d, Operators)
      /\ GenesisSlack(s, t) = SumFunctionOnSet(e, Operators)
  BY DEF GenesisDelegated, DelegatedBy, GenesisSlack, SumFunction
<1>4. /\ GenesisWithdrawable(s, t, balance) = withdrawableAmounts[s][t]
      /\ withdrawableAmounts[s][t] \in Nat
      /\ totalDepositAmounts[s][t] =
             withdrawableAmounts[s][t] + DelegatedBy(s, t)
  BY <1>1 DEF GenesisWithdrawable, BooksInv, BooksTypeOK
<1> HIDE DEF d, r, e
<1>5. PICK D \in Nat, R \in Nat, E \in Nat :
          /\ D = SumFunctionOnSet(d, Operators)
          /\ R = SumFunctionOnSet(r, Operators)
          /\ E = SumFunctionOnSet(e, Operators)
  BY <1>2, SumType
<1>6. R <= D + E /\ D <= R + E
  BY <1>2, <1>5, SumBelow
<1> QED
  BY <1>3, <1>4, <1>5, <1>6

\* The positions on Imuachain are then what is deposited, up to these digits.
LEMMA GenesisPositions ==
    ASSUME LifeInv, NEW balance \in Balances, GenerateGenesis(balance),
           NEW s \in Stakers, NEW t \in LSTs
    PROVE  /\ DepositsInFlight(s, t)' = 0 /\ GrantsInFlight(s, t)' = 0
           /\ slashedAmount'[s][t] = 0
           /\ Staked(s, t)' \in Nat /\ GenesisSlack(s, t) \in Nat
           /\ totalDepositAmounts[s][t] \in Nat
           /\ Staked(s, t)' <= totalDepositAmounts[s][t] + GenesisSlack(s, t)
           /\ totalDepositAmounts[s][t] <= Staked(s, t)' + GenesisSlack(s, t)
<1>1. t \in Tokens
  BY DEF Tokens
<1>2. BootstrapInv /\ NothingSent
  BY DEF GenerateGenesis, LifeInv
<1>3. PathsStay
  BY NoMessageStays DEF GenerateGenesis, paths, LifeInv
<1>4. DepositsInFlight(s, t)' = 0 /\ GrantsInFlight(s, t)' = 0
  BY <1>2, <1>3, QuietPaths DEF NothingSent, PathsStay
<1>5. /\ freeBalance'[s][t] = GenesisWithdrawable(s, t, balance)
      /\ delegatedAmount'[s][t] = GenesisDelegated(s, t, balance)
      /\ unbondingAmount'[s][t] = 0 /\ slashedAmount'[s][t] = 0
  BY <1>1, <1>2 DEF GenerateGenesis, NothingSent, NoPosition
<1>6. PICK w \in Nat, g \in Nat, x \in Nat, e \in Nat :
          /\ w = GenesisWithdrawable(s, t, balance)
          /\ g = GenesisDelegated(s, t, balance)
          /\ x = totalDepositAmounts[s][t] /\ e = GenesisSlack(s, t)
          /\ w + g <= x + e /\ x <= (w + g) + e
  BY <1>2, GenesisStakesDeposits
<1>7. Staked(s, t)' = w + g
  BY <1>5, <1>6 DEF Staked
<1> QED
  BY <1>4, <1>5, <1>6, <1>7

\* The vaults hold what the genesis promises, because they hold the deposits.
LEMMA GenesisIsSolvent ==
    ASSUME LifeInv, NEW balance \in Balances, GenerateGenesis(balance)
    PROVE  SolventWithin'
<1> SUFFICES ASSUME NEW t \in LSTs
             PROVE  /\ TotalSlack(t)' \in Nat
                    /\ SumFunctionOnSet(OwedFor(t)', Stakers)
                           <= consumedTvl'[t] + TotalSlack(t)'
  BY DEF SolventWithin
<1> DEFINE f == withdrawableBalances[t]
           g == [s \in Stakers |-> totalDepositAmounts[s][t]]
           e == [s \in Stakers |-> GenesisSlack(s, t)]
           h == [s \in Stakers |-> f[s] + g[s]]
           owed == OwedFor(t)'
<1>1. BootstrapInv
  BY DEF GenerateGenesis, LifeInv
<1>2. t \in Tokens
  BY DEF Tokens
<1>3. \A s \in Stakers : /\ f[s] \in Nat /\ g[s] \in Nat /\ e[s] \in Nat
                         /\ h[s] = f[s] + g[s] /\ h[s] \in Nat
                         /\ owed[s] \in Nat /\ owed[s] <= h[s] + e[s]
  <2>1. ASSUME NEW s \in Stakers
        PROVE  /\ f[s] \in Nat /\ g[s] \in Nat /\ e[s] \in Nat
               /\ h[s] = f[s] + g[s] /\ h[s] \in Nat
               /\ owed[s] \in Nat /\ owed[s] <= h[s] + e[s]
    <3>1. f[s] \in Nat
      BY <1>1 DEF BootstrapInv, BooksInv, BooksTypeOK
    <3>2. withdrawableBalances' = withdrawableBalances
      BY DEF GenerateGenesis, bootstrapVars, vaultVars
    <3>3. owed[s] = withdrawableBalances'[t][s]
              + DepositsInFlight(s, t)' + Staked(s, t)' + GrantsInFlight(s, t)'
      BY DEF OwedFor, Owed
    <3>4. PICK x \in Nat, y \in Nat, z \in Nat :
              /\ x = Staked(s, t)' /\ y = totalDepositAmounts[s][t]
              /\ z = GenesisSlack(s, t) /\ x <= y + z
              /\ DepositsInFlight(s, t)' = 0 /\ GrantsInFlight(s, t)' = 0
      BY GenesisPositions
    <3>5. g[s] = y /\ e[s] = z /\ h[s] = f[s] + y /\ owed[s] = f[s] + x
      BY <3>1, <3>2, <3>3, <3>4
    <3> HIDE DEF f, g, e, h, owed
    <3> QED
      BY <3>1, <3>4, <3>5
  <2> QED
    BY <2>1
<1>4. SumFunctionOnSet(f, Stakers) = UnlockedIn(t)
      /\ SumFunctionOnSet(g, Stakers) = DepositedIn(t)
      /\ SumFunctionOnSet(e, Stakers) = TotalSlack(t)
  BY DEF UnlockedIn, DepositedIn, TotalSlack
<1>5. TotalSlack(t)' = TotalSlack(t)
  BY DEF GenerateGenesis, bootstrapVars, delegationVars, TotalSlack, GenesisSlack
<1> HIDE DEF f, g, e, h, owed
<1>6. SumFunctionOnSet(h, Stakers) = UnlockedIn(t) + DepositedIn(t)
  BY <1>3, <1>4, StakersAssumption, SumPlus
<1>7. SumFunctionOnSet(owed, Stakers)
          <= SumFunctionOnSet(h, Stakers) + SumFunctionOnSet(e, Stakers)
  BY <1>3, StakersAssumption, SumBelow
<1>8. SumFunctionOnSet(owed, Stakers) \in Nat /\ SumFunctionOnSet(h, Stakers) \in Nat
      /\ SumFunctionOnSet(e, Stakers) \in Nat
  BY <1>3, StakersAssumption, SumType
<1>9. UnlockedIn(t) \in Nat /\ DepositedIn(t) \in Nat
  BY <1>3, <1>4, StakersAssumption, SumType
<1>10. consumedTvl[t] = DepositedIn(t) + UnlockedIn(t)
  BY <1>1, <1>2 DEF BootstrapInv, BooksInv
<1>11. consumedTvl' = consumedTvl
  BY DEF GenerateGenesis, bootstrapVars, vaultVars
<1> QED
  BY <1>4, <1>5, <1>6, <1>7, <1>8, <1>9, <1>10, <1>11 DEF owed

\* The genesis establishes the invariants of the bridge.
LEMMA GenesisKeepsLife ==
    ASSUME LifeInv, NEW balance \in Balances, GenerateGenesis(balance)
    PROVE  LifeInv'
<1>1. /\ ~ bootstrapped /\ BootstrapInv /\ IsLocked /\ NothingSent
      /\ TypeOK /\ RegistryInv /\ MessagesInv
  BY DEF GenerateGenesis, LifeInv
<1>2. /\ UNCHANGED bootstrapVars /\ bootstrapped' = bootstrapped
      /\ genesisTime' = spawnTime
      /\ UNCHANGED <<unbondingAmount, slashedAmount, imuaPaused, funds, toClient,
                     imuaInboundNonce, registeredRequests, toImua,
                     clientInboundNonce>>
  BY DEF GenerateGenesis
<1>3. /\ UNCHANGED vaultVars /\ UNCHANGED capsuleVars /\ UNCHANGED beaconVars
      /\ UNCHANGED <<clientPaused, whitelistedTokens, spawnTime, offsetDuration>>
  BY <1>2 DEF bootstrapVars, scheduleVars
<1>4. TypeOK'
  <2>1. LzTypeOK'
    BY <1>1, <1>2 DEF TypeOK, LzTypeOK
  <2>2. ClientTypeOK'
    BY <1>1, <1>2, <1>3 DEF TypeOK, ClientTypeOK, VaultTypeOK, CapsuleTypeOK,
        vaultVars, capsuleVars, beaconVars
  <2>3. freeBalance' \in [Stakers -> [Tokens -> Nat]]
    BY <1>1, GenesisWithdrawableType DEF GenerateGenesis, BootstrapInv, PubkeysInv
  <2>4. delegatedAmount' \in [Stakers -> [Tokens -> Nat]]
    BY <1>1, GenesisDelegatedType DEF GenerateGenesis
  <2>5. registeredTokens' \subseteq Tokens
    BY <1>1 DEF GenerateGenesis, TypeOK, ClientTypeOK
  <2> QED
    BY <1>1, <1>2, <2>1, <2>2, <2>3, <2>4, <2>5 DEF TypeOK, ImuaTypeOK
<1>5. RegistryInv' /\ MessagesInv'
  BY <1>1, <1>2, SilentKeepsRegistry DEF Silent, paths, MessagesInv
<1>6. BootstrapInv'
  BY <1>1, <1>2, BootstrapInvNext
<1>7. NothingSent' /\ IsLocked'
  BY <1>1, <1>2, <1>3 DEF NothingSent, LzInit, IsLocked, beaconVars
<1>8. PlacedWithin'
  <2> SUFFICES ASSUME NEW s \in Stakers, NEW t \in LSTs
               PROVE  Distance(PlacedPrincipal(s, t)',
                               totalDepositedPrincipalAmount'[t][s])
                          <= GenesisSlack(s, t)'
    BY DEF PlacedWithin, Distance
  <2>1. /\ totalDepositedPrincipalAmount[t][s] =
               totalDepositAmounts[s][t] + totalUnlockPrincipalAmount[t][s]
        /\ totalUnlockPrincipalAmount[t][s] \in Nat
    BY <1>1 DEF BootstrapInv, BooksInv, BooksTypeOK
  <2>2. UNCHANGED <<totalDepositedPrincipalAmount, totalUnlockPrincipalAmount>>
    BY <1>3 DEF vaultVars
  <2>3. GenesisSlack(s, t)' = GenesisSlack(s, t)
    BY <1>2 DEF bootstrapVars, delegationVars, GenesisSlack
  <2>4. PICK x \in Nat, y \in Nat, z \in Nat, u \in Nat :
            /\ x = Staked(s, t)' /\ y = totalDepositAmounts[s][t]
            /\ z = GenesisSlack(s, t) /\ u = totalUnlockPrincipalAmount[t][s]
            /\ x <= y + z /\ y <= x + z
            /\ DepositsInFlight(s, t)' = 0 /\ GrantsInFlight(s, t)' = 0
            /\ slashedAmount'[s][t] = 0
    BY <2>1, GenesisPositions
  <2>5. PlacedPrincipal(s, t)' = x + u
    BY <2>2, <2>4 DEF PlacedPrincipal
  <2>6. totalDepositedPrincipalAmount'[t][s] = y + u
    BY <2>1, <2>2, <2>4
  <2> QED
    BY <2>3, <2>4, <2>5, <2>6 DEF Distance
<1>9. SolventWithin'
  BY GenesisIsSolvent
<1>10. TokensInv'
  BY <1>1, <1>2, <1>3 DEF GenerateGenesis, NothingSent, LzInit, TokensInv,
      AwaitedTokens, DepositsAreAccepted
<1>11. genesisTime' \in Nat
  BY <1>1, <1>2, BootstrapTypes DEF ContractTypeOK
<1> QED
  BY <1>1, <1>2, <1>4, <1>5, <1>6, <1>7, <1>8, <1>9, <1>10, <1>11 DEF LifeInv

------------------------------------------------------------------------------
(* The contract before the upgrade.                                        *)

\* Whatever moves principal as the bridge does keeps it within the slack.
LEMMA PrincipalStaysWithin ==
    ASSUME TypeOK, RegistryInv, TypeOK', RegistryInv', AccountsStep,
           PlacedWithin, SolventWithin, UNCHANGED delegations
    PROVE  PlacedWithin' /\ SolventWithin'
<1>1. ASSUME NEW s \in Stakers, NEW t \in LSTs
      PROVE  Distance(PlacedPrincipal(s, t)',
                      totalDepositedPrincipalAmount'[t][s])
                 <= GenesisSlack(s, t)'
  <2>1. PICK x \in Nat, y \in Nat :
            /\ x = PlacedPrincipal(s, t)
            /\ y = totalDepositedPrincipalAmount[t][s]
    BY PlacedType
  <2>2. PICK v \in Nat, w \in Nat :
            /\ v = PlacedPrincipal(s, t)'
            /\ w = totalDepositedPrincipalAmount'[t][s]
    BY PlacedTypeNext
  <2>3. w - v = y - x
    BY <2>1, <2>2, PrincipalFollows
  <2>4. Distance(v, w) = Distance(x, y)
    BY <2>3 DEF Distance
  <2>5. GenesisSlack(s, t)' = GenesisSlack(s, t)
    BY DEF GenesisSlack
  <2>6. Distance(x, y) <= GenesisSlack(s, t)
    BY <2>1 DEF PlacedWithin
  <2> QED
    BY <2>2, <2>4, <2>5, <2>6
<1>2. ASSUME NEW t \in LSTs
      PROVE  /\ TotalSlack(t)' \in Nat
             /\ SumFunctionOnSet(OwedFor(t)', Stakers)
                    <= consumedTvl'[t] + TotalSlack(t)'
  <2>1. TotalSlack(t)' = TotalSlack(t)
    BY DEF TotalSlack, GenesisSlack
  <2>2. PICK c \in Nat : c = TotalSlack(t)
    BY DEF SolventWithin
  <2>3. SumFunctionOnSet(OwedFor(t), Stakers) <= consumedTvl[t] + c
    BY <2>2 DEF SolventWithin
  <2>4. SumFunctionOnSet(OwedFor(t)', Stakers) <= consumedTvl'[t] + c
    BY <2>3, ShortfallStays
  <2> QED
    BY <2>1, <2>2, <2>4
<1> QED
  BY <1>1, <1>2 DEF PlacedWithin, SolventWithin, Distance

\* A step that moves no principal and keeps the bridge's other invariants.
LEMMA PrincipalStaysPut ==
    ASSUME TypeOK, RegistryInv, TypeOK', RegistryInv',
           PlacedWithin, SolventWithin, UNCHANGED delegations,
           PathsStay, UNCHANGED ledgerVars, UNCHANGED vaultVars
    PROVE  PlacedWithin' /\ SolventWithin'
<1>1. LedgerStays
  BY DEF ledgerVars, LedgerStays, Staked
<1>2. VaultsStay
  BY DEF vaultVars, VaultsStay
<1>3. AccountsStep
  BY <1>1, <1>2 DEF AccountsStep, PrincipalStays
<1> QED
  BY <1>3, PrincipalStaysWithin

\* After the genesis the lock leaves nothing to the contract that the bridge
\* depends on.
LEMMA BootstrapKeepsLife ==
    ASSUME LifeInv, AtBootstrap
    PROVE  LifeInv'
<1>1. /\ ~ bootstrapped /\ BootstrapInv /\ BootstrapStep
      /\ UNCHANGED <<bridgeVars, lifeVars>>
      /\ TypeOK /\ RegistryInv /\ MessagesInv
  BY DEF AtBootstrap, LifeInv
<1>2. BootstrapInv'
  BY <1>1, BootstrapInvNext
<1>3. /\ UNCHANGED imuaVars /\ UNCHANGED ledgerVars /\ UNCHANGED paths
      /\ UNCHANGED <<registeredRequests, registeredTokens, bootstrapped,
                     genesisTime>>
  BY <1>1 DEF bridgeVars, lifeVars, imuaVars, paths
<1>4. TypeOK'
  <2>1. LzTypeOK' /\ ImuaTypeOK'
    BY <1>1, <1>3 DEF TypeOK, LzTypeOK, ImuaTypeOK, imuaVars, ledgerVars, paths
  <2>2. ContractTypeOK'
    BY <1>2, BootstrapTypes, PTL
  <2> QED
    BY <1>1, <1>3, <2>1, <2>2 DEF TypeOK, ClientTypeOK, ContractTypeOK
<1>5. RegistryInv' /\ MessagesInv'
  BY <1>1, <1>3, SilentKeepsRegistry DEF Silent, paths, MessagesInv
<1>6. genesisTime = 0 => NothingSent'
  BY <1>3 DEF LifeInv, NothingSent, LzInit, paths, imuaVars, ledgerVars
<1>7. genesisTime > 0 => IsLocked' /\ UNCHANGED <<vaultVars, whitelistedTokens, delegations>>
  <2> SUFFICES ASSUME genesisTime > 0
               PROVE  IsLocked' /\ UNCHANGED <<vaultVars, whitelistedTokens, delegations>>
    OBVIOUS
  <2>1. IsLocked
    BY <1>1 DEF LifeInv
  <2>2. AfterLock
    BY <1>1, <2>1, LockedSteps
  <2>3. now \in Nat /\ spawnTime \in Nat /\ offsetDuration \in Nat
    BY <1>1, BootstrapTypes DEF ContractTypeOK, CapsuleTypeOK
  <2>4. now' >= now /\ UNCHANGED <<spawnTime, offsetDuration>>
    BY <2>2, <2>3 DEF AfterLock, scheduleVars
  <2>5. now' \in Nat
    BY <2>2, <2>3 DEF AfterLock
  <2> QED
    BY <2>1, <2>2, <2>3, <2>4, <2>5 DEF AfterLock, IsLocked, delegationVars
<1>8. genesisTime > 0 => PlacedWithin' /\ SolventWithin'
  <2>1. PathsStay
    BY <1>1, <1>3, NoMessageStays
  <2> QED
    BY <1>1, <1>3, <1>4, <1>5, <1>7, <2>1, PrincipalStaysPut DEF LifeInv
<1>9. genesisTime > 0 => TokensInv'
  BY <1>3, <1>7 DEF LifeInv, TokensInv, AwaitedTokens, DepositsAreAccepted, paths
<1> QED
  BY <1>1, <1>2, <1>3, <1>4, <1>5, <1>6, <1>7, <1>8, <1>9 DEF LifeInv

\* The message that makes the contract upgrade itself, executed or wasted.
LEMMA DeliveryKeepsLife ==
    ASSUME LifeInv, BootstrapDelivery
    PROVE  LifeInv'
<1> PICK n \in 1..Len(toClient) : BootstrapLzReceive(n)
  BY DEF BootstrapDelivery
<1>1. /\ ~ bootstrapped /\ BootstrapInv /\ TypeOK /\ RegistryInv /\ MessagesInv
      /\ VerifyAndUpdateClientNonce(n)
      /\ toClient[n].act = "REQUEST_MARK_BOOTSTRAP"
  BY DEF BootstrapLzReceive, LifeInv
<1>2. /\ UNCHANGED imuaVars
      /\ UNCHANGED <<vaultVars, capsuleVars, beaconVars, whitelistedTokens,
                     delegations, registeredRequests, toImua, genesisTime>>
  BY DEF BootstrapLzReceive, delegationVars
<1>3. UNCHANGED <<toClient, imuaInboundNonce, registeredTokens>>
      /\ UNCHANGED ledgerVars
  BY <1>2 DEF imuaVars
<1>4. genesisTime > 0
  BY <1>1 DEF LifeInv, NothingSent, LzInit
<1>5. ReceiveOther
  BY <1>1, <1>2, <1>3 DEF ReceiveOther
<1>6. TypeOK'
  <2>1. LzTypeOK' /\ ImuaTypeOK'
    BY <1>1, <1>2, <1>3 DEF TypeOK, LzTypeOK, ImuaTypeOK, imuaVars, ledgerVars,
        VerifyAndUpdateClientNonce, IsExpectedNonce
  <2>2. VaultTypeOK' /\ CapsuleTypeOK'
    BY <1>1, <1>2 DEF TypeOK, ClientTypeOK, VaultTypeOK, CapsuleTypeOK,
        vaultVars, capsuleVars, beaconVars
  <2>3. clientPaused' \in BOOLEAN
    BY <1>1 DEF BootstrapLzReceive, MarkBootstrapped, Upgrade, TypeOK,
        ClientTypeOK
  <2> QED
    BY <1>1, <1>2, <2>1, <2>2, <2>3 DEF TypeOK, ClientTypeOK
<1>7. RegistryInv' /\ MessagesInv'
  BY <1>1, <1>2, <1>5, ReceiveOtherKeepsRegistry DEF MessagesInv
<1>8. PathsStay
  BY <1>1, <1>2, <1>3, ReceiveMoves
<1>9. PlacedWithin' /\ SolventWithin'
  BY <1>1, <1>2, <1>3, <1>4, <1>6, <1>7, <1>8, PrincipalStaysPut DEF LifeInv
<1>10. TokensInv'
  <2>1. RequestsStep
    BY <1>1, <1>2, <1>3 DEF RequestsStep, TypeOK, LzTypeOK
  <2>2. ReceiveStep
    BY <1>1, <1>2, <1>3 DEF ReceiveStep
  <2> QED
    BY <1>1, <1>4, <2>1, <2>2, TokensStepKeeps DEF TokensStep, LifeInv
<1>11. ~ bootstrapped' => UNCHANGED bootstrapVars
  BY DEF BootstrapLzReceive, MarkBootstrapped, Upgrade, bootstrapVars,
      validatorVars, scheduleVars, depositVars
<1>12. ~ bootstrapped' => BootstrapInv'
  BY <1>1, <1>11, BootstrapInvNext
<1>13. ~ bootstrapped' => IsLocked'
  BY <1>1, <1>4, <1>11 DEF LifeInv, IsLocked, bootstrapVars, beaconVars,
      scheduleVars
<1> QED
  BY <1>2, <1>4, <1>6, <1>7, <1>9, <1>10, <1>12, <1>13 DEF LifeInv

------------------------------------------------------------------------------
(* The bridge.                                                             *)

\* Whatever the two chains do once there is a genesis, and as long as what is
\* left of Bootstrap is left alone.
LEMMA BridgeKeepsLife ==
    ASSUME LifeInv, [Next]_vars, UNCHANGED <<bootstrapped, genesisTime>>,
           bootstrapped \/ UNCHANGED bootstrapVars, UNCHANGED delegations,
           genesisTime > 0 \/ UNCHANGED vars
    PROVE  LifeInv'
<1>1. TypeOK /\ RegistryInv /\ MessagesInv
  BY DEF LifeInv
<1>2. TypeOK' /\ RegistryInv'
  BY <1>1, TypeNext, RegistryNext
<1>3. AccountsStep /\ MessagesInv'
  BY <1>1, AccountsNext
<1>4. ~ bootstrapped' => BootstrapInv'
  BY BootstrapInvNext DEF LifeInv
<1>5. genesisTime' = 0 => ~ bootstrapped' /\ NothingSent'
  BY DEF LifeInv, NothingSent, LzInit, vars, clientVars, imuaVars, ledgerVars
<1>6. genesisTime' > 0 /\ ~ bootstrapped' => IsLocked'
  BY DEF LifeInv, IsLocked, bootstrapVars, beaconVars, scheduleVars
<1>7. genesisTime' > 0 => PlacedWithin' /\ SolventWithin'
  BY <1>1, <1>2, <1>3, PrincipalStaysWithin DEF LifeInv
<1>8. genesisTime' > 0 => TokensInv'
  BY <1>1, TokensNext DEF LifeInv
<1> QED
  BY <1>2, <1>3, <1>4, <1>5, <1>6, <1>7, <1>8 DEF LifeInv

\* Every step of the life of the client chain.
LEMMA LifeNext == LifeInv /\ [LifecycleNext]_lifecycleVars => LifeInv'
<1> SUFFICES ASSUME LifeInv, [LifecycleNext]_lifecycleVars  PROVE LifeInv'
  OBVIOUS
<1>1. CASE UNCHANGED <<bootstrapVars, bridgeVars, bootstrapped, genesisTime>>
  <2>1. UNCHANGED vars /\ UNCHANGED delegations
    BY <1>1 DEF vars, clientVars, imuaVars, bootstrapVars, bridgeVars,
        delegationVars
  <2> QED
    BY <1>1, <2>1, BridgeKeepsLife
<1>2. CASE UNCHANGED lifecycleVars
  BY <1>1, <1>2 DEF lifecycleVars, lifeVars
<1>3. CASE \E works \in BOOLEAN : SetClientChainGatewayLogic(works)
  BY <1>1, <1>3 DEF SetClientChainGatewayLogic
<1>4. CASE AtImuachain
  <2>1. Imua /\ UNCHANGED <<bootstrapOnlyVars, lifeVars>> /\ genesisTime > 0
    BY <1>4 DEF AtImuachain
  <2>2. UNCHANGED bootstrapVars /\ UNCHANGED delegations
    BY <2>1 DEF Imua, clientVars, bootstrapOnlyVars, bootstrapVars,
        delegationVars
  <2> QED
    BY <2>1, <2>2, BridgeKeepsLife DEF Next, lifeVars
<1>5. CASE AtGateway
  <2>1. Client /\ bootstrapped /\ UNCHANGED lifeVars /\ UNCHANGED delegations
    BY <1>5 DEF AtGateway, bootstrapOnlyVars, delegationVars
  <2>2. genesisTime > 0
    BY <2>1 DEF LifeInv
  <2> QED
    BY <2>1, <2>2, BridgeKeepsLife DEF Next, lifeVars
<1> QED
  BY <1>2, <1>3, <1>4, <1>5, BootstrapKeepsLife, GenesisKeepsLife,
      DeliveryKeepsLife DEF LifecycleNext

------------------------------------------------------------------------------

\* From the genesis on, through the upgrade and whatever the chains do, every
\* unit of LST principal is in one place and every vault can pay, up to the
\* last digits of what was delegated when the genesis was written.
THEOREM PrincipalSurvives == LifecycleSpec => []PrincipalSurvivesUpgrade
<1>1. LifeInv => PrincipalSurvivesUpgrade
  BY DEF LifeInv, PrincipalSurvivesUpgrade, PlacedWithin, SolventWithin,
      TotalSlack, OwedFor, SumFunction
<1> QED
  BY <1>1, LifeInit, LifeNext, PTL DEF LifecycleSpec

\* The upgrade leaves no request or whitelist message that reverts for ever.
THEOREM TokensSurvive == LifecycleSpec => []TokensSurviveUpgrade
<1>1. LifeInv => TokensSurviveUpgrade
  BY TokensAgree DEF LifeInv, TokensSurviveUpgrade
<1> QED
  BY <1>1, LifeInit, LifeNext, PTL DEF LifecycleSpec
==============================================================================
