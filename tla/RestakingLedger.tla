--------------------------- MODULE RestakingLedger ---------------------------
(***************************************************************************)
(* What the bridge promises about the principal of an LST staker, without  *)
(* messages, nonces or registries.  The principal deposited in a vault is  *)
(* at any time in one of five places, and one step moves one amount of one *)
(* staker from one place to the next.  Nothing is created, nothing is lost *)
(* but what is slashed while it is staked, and nothing becomes             *)
(* withdrawable without having left the stake first.                       *)
(***************************************************************************)
EXTENDS Naturals

CONSTANTS Accounts,  \* <<staker, token>> pairs
          Amounts

VARIABLES
    arriving,      \* deposited, not yet credited on Imuachain
    staked,        \* credited on Imuachain
    leaving,       \* debited on Imuachain, not yet unlocked in the vault
    withdrawable,  \* unlocked in the vault
    slashed        \* lost

ledger == <<arriving, staked, leaving, withdrawable, slashed>>

Empty == [a \in Accounts |-> 0]

LedgerInit ==
    /\ arriving = Empty /\ staked = Empty /\ leaving = Empty
    /\ withdrawable = Empty /\ slashed = Empty

Deposit(a, x) ==
    /\ arriving' = [arriving EXCEPT ![a] = @ + x]
    /\ UNCHANGED <<staked, leaving, withdrawable, slashed>>

Credit(a, x) ==
    /\ x <= arriving[a]
    /\ arriving' = [arriving EXCEPT ![a] = @ - x]
    /\ staked' = [staked EXCEPT ![a] = @ + x]
    /\ UNCHANGED <<leaving, withdrawable, slashed>>

Debit(a, x) ==
    /\ x <= staked[a]
    /\ staked' = [staked EXCEPT ![a] = @ - x]
    /\ leaving' = [leaving EXCEPT ![a] = @ + x]
    /\ UNCHANGED <<arriving, withdrawable, slashed>>

Unlock(a, x) ==
    /\ x <= leaving[a]
    /\ leaving' = [leaving EXCEPT ![a] = @ - x]
    /\ withdrawable' = [withdrawable EXCEPT ![a] = @ + x]
    /\ UNCHANGED <<arriving, staked, slashed>>

Withdraw(a, x) ==
    /\ x <= withdrawable[a]
    /\ withdrawable' = [withdrawable EXCEPT ![a] = @ - x]
    /\ UNCHANGED <<arriving, staked, leaving, slashed>>

Slash(a, x) ==
    /\ x <= staked[a]
    /\ staked' = [staked EXCEPT ![a] = @ - x]
    /\ slashed' = [slashed EXCEPT ![a] = @ + x]
    /\ UNCHANGED <<arriving, leaving, withdrawable>>

LedgerNext ==
    \E a \in Accounts, x \in Amounts :
        \/ Deposit(a, x) \/ Credit(a, x) \/ Debit(a, x)
        \/ Unlock(a, x) \/ Withdraw(a, x) \/ Slash(a, x)

LedgerSpec == LedgerInit /\ [][LedgerNext]_ledger
==============================================================================
