------------------------------- MODULE MCBridge -------------------------------
(***************************************************************************)
(* Instances of the bridge for TLC.  The cfg files give the constants; the *)
(* actions treat all stakers, and all LSTs, alike.                         *)
(***************************************************************************)
EXTENDS BridgeAccounting, TLC

StakerSymmetry == Permutations(Stakers)
==============================================================================
