----------------------------- MODULE MCDevices ------------------------------
(* Devices with the symmetry of its sets, for runs without liveness.        *)
EXTENDS Devices, TLC

Symmetry == Permutations(Objs) \cup Permutations(Bdevs) \cup Permutations(Actors)
=============================================================================
