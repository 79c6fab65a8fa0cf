-------------------------- MODULE OperationLifecycle --------------------------
(***************************************************************************)
(* What the operation ledger promises its users, without tables, leases    *)
(* or clocks.  An operation is submitted once; it is granted to one holder *)
(* at a time, each grant with the next token and at most MaxAttempts times *)
(* in all; it is decided once and for ever.  Success and permanent failure *)
(* can only be decided by a holder; an operation may also be given up,     *)
(* held or not.                                                            *)
(***************************************************************************)
EXTENDS Naturals

CONSTANTS Operations, MaxAttempts

VARIABLES phase,   \* "absent", "waiting", "held" or "done"
          token,   \* the last token granted, 0 before the first grant
          outcome  \* "none" until the operation is decided

lifecycleVars == <<phase, token, outcome>>

ByHolder == {"succeeded", "failed"}
GivenUp  == {"dead", "superseded"}

Init ==
  /\ phase = [o \in Operations |-> "absent"]
  /\ token = [o \in Operations |-> 0]
  /\ outcome = [o \in Operations |-> "none"]

Submit(o) ==
  /\ phase[o] = "absent"
  /\ phase' = [phase EXCEPT ![o] = "waiting"]
  /\ UNCHANGED <<token, outcome>>

Grant(o) ==
  /\ phase[o] \in {"waiting", "held"}
  /\ token[o] < MaxAttempts
  /\ phase' = [phase EXCEPT ![o] = "held"]
  /\ token' = [token EXCEPT ![o] = token[o] + 1]
  /\ UNCHANGED outcome

Release(o) ==
  /\ phase[o] = "held"
  /\ phase' = [phase EXCEPT ![o] = "waiting"]
  /\ UNCHANGED <<token, outcome>>

Decide(o, result) ==
  /\ phase[o] \in {"waiting", "held"}
  /\ result \in ByHolder => phase[o] = "held"
  /\ phase' = [phase EXCEPT ![o] = "done"]
  /\ outcome' = [outcome EXCEPT ![o] = result]
  /\ UNCHANGED token

Next ==
  \E o \in Operations :
    \/ Submit(o)
    \/ Grant(o)
    \/ Release(o)
    \/ \E result \in ByHolder \cup GivenUp : Decide(o, result)

Spec == Init /\ [][Next]_lifecycleVars
=============================================================================
