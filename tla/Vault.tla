-------------------------------- MODULE Vault --------------------------------
(***************************************************************************)
(* The vaults of the client chain (core/Vault.sol), one per LST.  Each     *)
(* operator is one external function; its caller is always the gateway, so *)
(* the modules of the gateways conjoin these operators with the rest of    *)
(* their handlers.  A vault that is not deployed yet holds zeros.          *)
(***************************************************************************)
EXTENDS Assets

VARIABLES
    withdrawableBalances,            \* [token][staker] unlocked, not withdrawn
    totalDepositedPrincipalAmount,   \* [token][staker] ever deposited
    totalUnlockPrincipalAmount,      \* [token][staker] ever unlocked
    tvlLimit,                        \* [token] cap on consumedTvl
    consumedTvl                      \* [token] what the vault holds

vaultVars == <<withdrawableBalances, totalDepositedPrincipalAmount,
               totalUnlockPrincipalAmount, tvlLimit, consumedTvl>>

VaultInit ==
    /\ withdrawableBalances = [t \in LSTs |-> [s \in Stakers |-> 0]]
    /\ totalDepositedPrincipalAmount = [t \in LSTs |-> [s \in Stakers |-> 0]]
    /\ totalUnlockPrincipalAmount = [t \in LSTs |-> [s \in Stakers |-> 0]]
    /\ consumedTvl = [t \in LSTs |-> 0]

VaultTypeOK ==
    /\ withdrawableBalances \in [LSTs -> [Stakers -> Nat]]
    /\ totalDepositedPrincipalAmount \in [LSTs -> [Stakers -> Nat]]
    /\ totalUnlockPrincipalAmount \in [LSTs -> [Stakers -> Nat]]
    /\ tvlLimit \in [LSTs -> Nat]
    /\ consumedTvl \in [LSTs -> Nat]

\* deposit: the transfer into the vault, then the check of the limit.
VaultDeposit(t, s, amount) ==
    /\ consumedTvl[t] + amount <= tvlLimit[t]
    /\ totalDepositedPrincipalAmount' =
           [totalDepositedPrincipalAmount EXCEPT ![t][s] = @ + amount]
    /\ consumedTvl' = [consumedTvl EXCEPT ![t] = @ + amount]
    /\ UNCHANGED <<withdrawableBalances, totalUnlockPrincipalAmount, tvlLimit>>

\* unlockPrincipal would revert, and with it the response being executed,
\* if more were unlocked than was ever deposited.
CanUnlock(t, s, amount) ==
    totalUnlockPrincipalAmount[t][s] + amount
        <= totalDepositedPrincipalAmount[t][s]

VaultUnlockPrincipal(t, s, amount) ==
    /\ CanUnlock(t, s, amount)
    /\ totalUnlockPrincipalAmount' =
           [totalUnlockPrincipalAmount EXCEPT ![t][s] = @ + amount]
    /\ withdrawableBalances' = [withdrawableBalances EXCEPT ![t][s] = @ + amount]
    /\ UNCHANGED <<totalDepositedPrincipalAmount, tvlLimit, consumedTvl>>

\* A withdrawal that pays out and forgets to charge the staker.
VaultWithdrawUncharged(t, s, amount) ==
    /\ amount <= withdrawableBalances[t][s]
    /\ amount <= consumedTvl[t]
    /\ consumedTvl' = [consumedTvl EXCEPT ![t] = @ - amount]
    /\ UNCHANGED <<withdrawableBalances, totalDepositedPrincipalAmount,
                   totalUnlockPrincipalAmount, tvlLimit>>

VaultWithdraw(t, s, amount) ==
    /\ amount <= withdrawableBalances[t][s]
    /\ amount <= consumedTvl[t]
    /\ withdrawableBalances' = [withdrawableBalances EXCEPT ![t][s] = @ - amount]
    /\ consumedTvl' = [consumedTvl EXCEPT ![t] = @ - amount]
    /\ UNCHANGED <<totalDepositedPrincipalAmount, totalUnlockPrincipalAmount,
                   tvlLimit>>

\* setTvlLimit: the limit may be put below what is already consumed.
VaultSetTvlLimit(t, limit) ==
    /\ tvlLimit' = [tvlLimit EXCEPT ![t] = limit]
    /\ UNCHANGED <<withdrawableBalances, totalDepositedPrincipalAmount,
                   totalUnlockPrincipalAmount, consumedTvl>>
==============================================================================
