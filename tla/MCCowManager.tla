---------------------------- MODULE MCCowManager ----------------------------
(* CowManager for TLC.  Contents are only compared for equality, here and  *)
(* in CowStore.                                                            *)
EXTENDS CowManager, TLC

Symmetry == Permutations(Values)
=============================================================================
