-------------------------- MODULE ProvisioningIntent --------------------------
(***************************************************************************)
(* RequestMailbox statement by statement: the requests of one tenant run   *)
(* concurrently, each in a READ COMMITTED transaction of its own, and are  *)
(* answered once.  A client that does not like its answer sends another    *)
(* request, perhaps with the same idempotency key.  What prepareRequest    *)
(* refuses never gets here.                                                *)
(*                                                                         *)
(* The rows of an open transaction are seen by nobody else, but hold their *)
(* unique keys: an INSERT that meets one waits until that transaction ends *)
(* (PostgreSQL, external).  Which rows an open transaction has inserted is *)
(* told by how far it is, so they are not variables.                       *)
(***************************************************************************)

CONSTANTS
  Requests,   \* calls of RequestMailbox, and the ids they mint for their rows
  Keys,       \* idempotency keys of the tenant
  Addresses,  \* local parts in the domain
  Names,      \* display names
  None        \* no row

VARIABLES
  domain,  \* "active" when domain and tenant are, else "suspended"
  ops,     \* committed operations by key: who made it and its request_hash
  boxes,   \* committed mailboxes by address: who made it
  events,  \* who has a committed outbox event
  txs,     \* the requests
  faults   \* history: requests that met a database error or were cancelled

intentVars == <<domain, ops, boxes, events, txs, faults>>

-----------------------------------------------------------------------------
RequestCommand == [key : Keys, address : Addresses, name : Names]

RequestHashOfKey(command) == <<command.address, command.key>>

\* prepareRequest: the fingerprint is of the normalized address and name.
RequestHash(command) == <<command.address, command.name>>

Operation == [by : Requests, hash : Addresses \X Names]

ASSUME IntentAssumption == None \notin Requests /\ None \notin Operation

Codes == {"DOMAIN_UNAVAILABLE", "MAILBOX_ALREADY_EXISTS", "IDEMPOTENCY_CONFLICT",
          "PERSISTENCE_UNAVAILABLE"}

\* op is the operation (and the mailbox) that the answer names.
Tx == [pc      : {"new", "lookup", "domain", "operation", "again", "mailbox", "event",
                  "commit", "done"},
       command : RequestCommand \cup {None},
       answer  : {"none", "created", "replayed", "canceled"} \cup Codes,
       op      : Requests \cup {None}]

IntentInit ==
  /\ domain = "active"
  /\ ops = [k \in Keys |-> None]
  /\ boxes = [a \in Addresses |-> None]
  /\ events = {}
  /\ txs = [r \in Requests |-> [pc |-> "new", command |-> None, answer |-> "none", op |-> None]]
  /\ faults = {}

-----------------------------------------------------------------------------
(* Transactions.                                                           *)

HoldsKeyWithoutRollback(r) ==
  \/ txs[r].pc \in {"mailbox", "event", "commit"}
  \/ txs[r].answer = "MAILBOX_ALREADY_EXISTS"

\* r has inserted an operation and not committed it.
HoldsKey(r) == txs[r].pc \in {"mailbox", "event", "commit"}

\* r has inserted a mailbox and not committed it.
HoldsAddress(r) == txs[r].pc \in {"event", "commit"}

VisibleInSnapshot(r) == IF txs[r].pc = "again" THEN None ELSE ops[txs[r].command.key]

\* The operation that a statement of r finds under its key: what is committed
\* when the statement starts.
Visible(r) == ops[txs[r].command.key]

Step(r, pc) == txs' = [txs EXCEPT ![r] = [pc |-> pc, command |-> txs[r].command,
                                          answer |-> "none", op |-> None]]

\* RequestMailbox returns; what is not committed is rolled back.
Answer(r, answer, op) ==
  txs' = [txs EXCEPT ![r] = [pc |-> "done", command |-> txs[r].command,
                             answer |-> answer, op |-> op]]

idempotentResultOfAnyHash(r, row) == Answer(r, "replayed", row.by)

idempotentResult(r, row) ==
  IF row.hash = RequestHash(txs[r].command)
  THEN Answer(r, "replayed", row.by)
  ELSE Answer(r, "IDEMPOTENCY_CONFLICT", None)

\* The database reports an error, or the caller has cancelled.
persistenceError(r) ==
  /\ \E answer \in {"PERSISTENCE_UNAVAILABLE", "canceled"} : Answer(r, answer, None)
  /\ faults' = faults \cup {r}

-----------------------------------------------------------------------------
(* RequestMailbox.                                                         *)

BeginTx(r, command) ==
  /\ txs[r].pc = "new"
  /\ txs' = [txs EXCEPT ![r] = [pc |-> "lookup", command |-> command,
                                answer |-> "none", op |-> None]]
  /\ UNCHANGED <<domain, ops, boxes, events, faults>>

GetOperationByIdempotencyKey(r) ==
  /\ txs[r].pc = "lookup"
  /\ \/ Visible(r) # None /\ idempotentResult(r, Visible(r))
     \/ Visible(r) = None /\ Step(r, "domain")
  /\ UNCHANGED <<domain, ops, boxes, events, faults>>

GetProvisionableDomain(r) ==
  /\ txs[r].pc = "domain"
  /\ \/ domain = "active" /\ Step(r, "operation")
     \/ domain # "active" /\ Answer(r, "DOMAIN_UNAVAILABLE", None)
  /\ UNCHANGED <<domain, ops, boxes, events, faults>>

\* ON CONFLICT (tenant_id, idempotency_key) DO NOTHING.
InsertOperation(r) ==
  /\ txs[r].pc = "operation"
  /\ \A s \in Requests : ~(HoldsKey(s) /\ txs[s].command.key = txs[r].command.key)
  /\ Step(r, IF ops[txs[r].command.key] = None THEN "mailbox" ELSE "again")
  /\ UNCHANGED <<domain, ops, boxes, events, faults>>

\* The lookup after a conflict.
LookupAgain(r) ==
  /\ txs[r].pc = "again"
  /\ \/ Visible(r) # None /\ idempotentResult(r, Visible(r))
     \/ Visible(r) = None /\ Answer(r, "PERSISTENCE_UNAVAILABLE", None)
  /\ UNCHANGED <<domain, ops, boxes, events, faults>>

InsertMailboxIfFree(r) ==
  /\ txs[r].pc = "mailbox"
  /\ Step(r, "event")
  /\ UNCHANGED <<domain, ops, boxes, events, faults>>

\* mailboxes_domain_local_part_unique.
InsertMailbox(r) ==
  /\ txs[r].pc = "mailbox"
  /\ \A s \in Requests : ~(HoldsAddress(s) /\ txs[s].command.address = txs[r].command.address)
  /\ \/ boxes[txs[r].command.address] = None /\ Step(r, "event")
     \/ boxes[txs[r].command.address] # None /\ Answer(r, "MAILBOX_ALREADY_EXISTS", None)
  /\ UNCHANGED <<domain, ops, boxes, events, faults>>

InsertOutboxEvent(r) ==
  /\ txs[r].pc = "event"
  /\ Step(r, "commit")
  /\ UNCHANGED <<domain, ops, boxes, events, faults>>

CommitRowsWithoutEvent(r) ==
  /\ ops' = [ops EXCEPT ![txs[r].command.key] = [by |-> r, hash |-> RequestHash(txs[r].command)]]
  /\ boxes' = [boxes EXCEPT ![txs[r].command.address] = r]
  /\ UNCHANGED events

CommitRows(r) ==
  /\ ops' = [ops EXCEPT ![txs[r].command.key] = [by |-> r, hash |-> RequestHash(txs[r].command)]]
  /\ boxes' = [boxes EXCEPT ![txs[r].command.address] = r]
  /\ events' = events \cup {r}

Commit(r) ==
  /\ txs[r].pc = "commit"
  /\ CommitRows(r)
  /\ Answer(r, "created", r)
  /\ UNCHANGED <<domain, faults>>

\* The transaction is committed, but the connection is lost before the answer.
CommitUnconfirmed(r) ==
  /\ txs[r].pc = "commit"
  /\ CommitRows(r)
  /\ persistenceError(r)
  /\ UNCHANGED domain

\* A statement or the commit fails.
Fail(r) ==
  /\ txs[r].pc \notin {"new", "done"}
  /\ persistenceError(r)
  /\ UNCHANGED <<domain, ops, boxes, events>>

\* An administrator suspends or reactivates domain or tenant.
SetDomain(status) ==
  /\ domain # status
  /\ domain' = status
  /\ UNCHANGED <<ops, boxes, events, txs, faults>>

RequestStep(r) ==
  \/ GetOperationByIdempotencyKey(r)
  \/ GetProvisionableDomain(r)
  \/ InsertOperation(r)
  \/ LookupAgain(r)
  \/ InsertMailbox(r)
  \/ InsertOutboxEvent(r)
  \/ Commit(r)

IntentNext ==
  \/ \E r \in Requests, command \in RequestCommand : BeginTx(r, command)
  \/ \E r \in Requests : RequestStep(r) \/ CommitUnconfirmed(r) \/ Fail(r)
  \/ \E status \in {"active", "suspended"} : SetDomain(status)

IntentSpec == IntentInit /\ [][IntentNext]_intentVars

\* The database executes the statements it is given.
IntentFairSpec == IntentSpec /\ \A r \in Requests : WF_intentVars(RequestStep(r))

-----------------------------------------------------------------------------
(* Properties.                                                             *)

\* Rows and requests have their types; a request that has begun has a command,
\* and one that is done has its answer.
IntentTypeOK ==
  /\ domain \in {"active", "suspended"}
  /\ ops \in [Keys -> Operation \cup {None}]
  /\ boxes \in [Addresses -> Requests \cup {None}]
  /\ events \subseteq Requests
  /\ txs \in [Requests -> Tx]
  /\ faults \subseteq Requests
  /\ \A r \in Requests : /\ txs[r].pc # "new" => txs[r].command \in RequestCommand
                         /\ txs[r].pc # "done" <=> txs[r].answer = "none"

\* The unique keys of open transactions: no two hold one, none holds one that
\* is committed, and who has lost a key can see the row that won it.
OneHolder ==
  /\ \A r, s \in Requests :
       /\ HoldsKey(r) /\ HoldsKey(s) /\ txs[r].command.key = txs[s].command.key => r = s
       /\ HoldsAddress(r) /\ HoldsAddress(s) /\ txs[r].command.address = txs[s].command.address
            => r = s
  /\ \A r \in Requests :
       /\ HoldsKey(r) => ops[txs[r].command.key] = None
       /\ HoldsAddress(r) => boxes[txs[r].command.address] = None
       /\ txs[r].pc = "again" => ops[txs[r].command.key] # None

\* An intent is whole: operation, mailbox and wake-up of a request are all
\* there once it has ended, under the key and the address of its command, or
\* none of them is.
IntentIsWhole ==
  /\ \A k \in Keys : ops[k] # None => /\ boxes[ops[k].hash[1]] = ops[k].by
                                      /\ txs[ops[k].by].command.key = k
                                      /\ RequestHash(txs[ops[k].by].command) = ops[k].hash
                                      /\ ops[k].by \in events
  /\ \A a \in Addresses : boxes[a] # None => /\ txs[boxes[a]].command.address = a
                                             /\ boxes[a] \in events
  /\ \A r \in events : /\ txs[r].pc = "done"
                       /\ ops[txs[r].command.key] # None
                       /\ ops[txs[r].command.key].by = r
                       /\ boxes[txs[r].command.address] = r

\* What the answer of r says is so.
AnswerIsTrue(r) ==
  LET command == txs[r].command IN
    /\ txs[r].answer \in {"created", "replayed"} =>
         /\ txs[r].op # None
         /\ ops[command.key] = [by |-> txs[r].op, hash |-> RequestHash(command)]
    /\ txs[r].answer = "IDEMPOTENCY_CONFLICT" =>
         ops[command.key] # None /\ ops[command.key].hash # RequestHash(command)
    /\ txs[r].answer = "MAILBOX_ALREADY_EXISTS" =>
         /\ boxes[command.address] # None
         /\ txs[boxes[command.address]].command.key # command.key

\* Whatever the interleaving, an answer stays true.  Requests with one key that
\* succeed all name the one operation made under it, for their own fingerprint;
\* a conflict means that the key is another fingerprint's, and an address that
\* exists belongs to another key, never to a lost race with one's own.
AnswersAgree == \A r \in Requests : AnswerIsTrue(r)

\* Losing the race for a key is no failure: the service is unavailable only to
\* a request that met an error.
UnavailableMeansFault ==
  \A r \in Requests : txs[r].answer = "PERSISTENCE_UNAVAILABLE" => r \in faults

\* Waiting for each other's keys and addresses never ends in a cycle: every
\* request that has begun is answered.
EveryRequestIsAnswered ==
  \A r \in Requests : (txs[r].pc # "new") ~> (txs[r].pc = "done")
=============================================================================
