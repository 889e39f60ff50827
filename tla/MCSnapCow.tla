----------------------------- MODULE MCSnapCow ------------------------------
(* Instances of SnapCow for TLC.                                           *)
EXTENDS SnapCow, TLC

\* Writes are interchangeable, and so are reads.
Symmetry == Permutations(Writes) \cup Permutations(Reads)
=============================================================================
