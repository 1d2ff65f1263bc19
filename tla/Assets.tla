-------------------------------- MODULE Assets --------------------------------
(***************************************************************************)
(* The data every module of the restaking bridge speaks of.                *)
(***************************************************************************)
EXTENDS Integers, FiniteSets

CONSTANTS
    Stakers,    \* accounts of the client chain that stake
    LSTs,       \* ERC20 restaking tokens, one vault each
    NST,        \* VIRTUAL_NST_ADDRESS, the pseudo token of native restaking
    Amounts,    \* the amounts callers may pass
    TvlLimits,  \* the TVL limits owners may set
    GenesisTokens,  \* tokens both chains know from the bootstrap phase
    MayPause        \* the gateways whose owner pauses in this instance

\* Accounts are addresses of 20 bytes.
ASSUME StakersAssumption == IsFiniteSet(Stakers)
ASSUME NSTAssumption == NST \notin LSTs
ASSUME AmountsAssumption == Amounts \subseteq Nat \ {0}
ASSUME TvlLimitsAssumption == TvlLimits \subseteq Nat

Tokens == LSTs \cup {NST}

ASSUME GenesisTokensAssumption == GenesisTokens \subseteq Tokens
==============================================================================
