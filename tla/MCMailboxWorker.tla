--------------------------- MODULE MCMailboxWorker ---------------------------
(* Small instances of MailboxWorker for TLC.                               *)
EXTENDS MailboxWorker, TLC

\* Operations, workers and hashes are only compared for equality.
Symmetry == Permutations(Operations) \cup Permutations(Owners) \cup Permutations(Hashes)
=============================================================================
