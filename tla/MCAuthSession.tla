---------------------------- MODULE MCAuthSession ----------------------------
(* A small instance of AuthSession for TLC.                                *)
EXTENDS AuthSession, TLC

CONSTANTS box, adm

MCAccountType == [p \in Principals |-> IF p = adm THEN "administrator" ELSE "mailbox"]

Symmetry == Permutations(Calls) \cup Permutations(Sessions)
=============================================================================
