-------------------------- MODULE MCStalwartAdapter --------------------------
(* Small instances of StalwartAdapter for TLC.                             *)
EXTENDS StalwartAdapter, TLC

\* Workers and hashes are only compared for equality.
Symmetry == Permutations(Owners) \cup Permutations(Hashes)
=============================================================================
