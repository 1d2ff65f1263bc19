--------------------------- MODULE BootstrapStorage ---------------------------
(***************************************************************************)
(* What the contract of a client chain keeps when it upgrades itself from  *)
(* Bootstrap to ClientChainGateway: ClientChainGatewayStorage inherits     *)
(* storage/BootstrapStorage.sol, and both have the vaults and capsules.    *)
(***************************************************************************)
EXTENDS Vault, ImuaCapsule

CONSTANT MaxTime    \* bound: block.timestamp

VARIABLES
    clientPaused,       \* OpenZeppelin Pausable
    whitelistedTokens   \* isWhitelistedToken

\* nativeRestakingEnabled and whenNotPaused.
NativeRestakingEnabled == NST \in whitelistedTokens /\ ~ clientPaused
==============================================================================
