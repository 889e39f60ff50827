------------------------------ MODULE MCBackup ------------------------------
(* Backup for TLC: COW files and contents are only compared for equality.  *)
EXTENDS Backup, TLC

Symmetry == Permutations(Files) \cup Permutations(Values)
=============================================================================
