-------------------------- MODULE MCOperationLedger --------------------------
(* Small instances of OperationLedger for TLC.                             *)
EXTENDS OperationLedger, TLC

\* Operations, owners and hashes are only compared for equality.
Symmetry == Permutations(Operations) \cup Permutations(Owners) \cup Permutations(Hashes)
=============================================================================
