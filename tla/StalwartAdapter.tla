---------------------------- MODULE StalwartAdapter ----------------------------
(***************************************************************************)
(* The provisioning side of the Stalwart adapter: EnsureMailbox as the     *)
(* sequence of HTTP requests it is, against a server it does not control.  *)
(*                                                                         *)
(* EnsureMailbox reads (session, domain, account), decides, and sends one  *)
(* x:Account/set; a create that is refused leads to a second account       *)
(* lookup.  Reads take effect when the account is read.  A set request may *)
(* be lost, may be carried out long after the caller has given up on it,   *)
(* and its answer may be lost or unusable; the error classes say what the  *)
(* caller may conclude.                                                    *)
(*                                                                         *)
(* The server is external.  What the adapter relies on: names are unique   *)
(* (a create finds the address taken or takes it), an update replaces the  *)
(* description whatever it was, and a request answered with an error       *)
(* status, a method error or a per-object refusal was not carried out.     *)
(***************************************************************************)
EXTENDS MailCore

CONSTANT MaxCalls  \* bound: calls of one worker that the server may yet hear of

ASSUME AdapterAssumption ==
  /\ MaxRevision \in Nat \ {0}
  /\ MaxCalls \in Nat \ {0}
  /\ None \notin Mailboxes \cup Owners \cup Hashes

\* No command is nil.
ASSUME NoCommandAssumption == None \notin Command

VARIABLES
  accounts,  \* the account at the address of each mailbox
  stored,    \* history: the versions an address ever had
  requests,  \* x:Account/set requests on their way to the server
  calls      \* the EnsureMailbox call of each worker

adapterVars == <<accounts, stored, requests, calls>>

-----------------------------------------------------------------------------
(* An account belongs to nobody (it does not exist), to the control plane, *)
(* or to somebody else: its description is not metadata of this mailbox.   *)

Account == [owner : {"nobody", "foreign", "control_plane"},
            revision : 0..MaxRevision, hash : Hashes \cup {None}]

Version == [revision : 1..MaxRevision, hash : Hashes]

NoAccount == [owner |-> "nobody", revision |-> 0, hash |-> None]

WrittenOneAhead(command) == [owner |-> "control_plane", revision |-> command.revision + 1,
                             hash |-> command.hash]

\* formatMetadata, as parseMetadata reads it back.
Written(command) == [owner |-> "control_plane", revision |-> command.revision,
                     hash |-> command.hash]

Request == [by : Owners, number : 1..MaxCalls, method : {"create", "update"},
            command : Command]

\* number tells a call from the worker's earlier ones, of which a request may
\* still be on its way; method is the last set sent, answer what the server did
\* with it, effect (history) whether one was carried out.
Call == [pc      : {"idle", "lookup", "waiting", "done"},
         number  : 0..MaxCalls,
         command : Command \cup {None},
         method  : {"none", "create", "update"},
         answer  : {"none", "applied", "refused"},
         result  : {"none", "ok"} \cup ErrorClass,
         effect  : BOOLEAN]

NoCall == [pc |-> "idle", number |-> 0, command |-> None, method |-> "none",
           answer |-> "none", result |-> "none", effect |-> FALSE]

AdapterInit ==
  /\ accounts = [m \in Mailboxes |-> NoAccount]
  /\ stored = [m \in Mailboxes |-> {}]
  /\ requests = {}
  /\ calls = [w \in Owners |-> NoCall]

-----------------------------------------------------------------------------
(* Error classes.                                                          *)

uncertainClassAlwaysRetryable(mutation) == "retryable"

uncertainClass(mutation) == IF mutation THEN "unknown" ELSE "retryable"

\* protocolError, whether or not the request was a mutation.
protocolError == "permanent"

\* A read fails: no usable answer (status, timeout or transport error), or an
\* answer that is refused for good (401, 403, 4xx, not this protocol).
ReadFailure == {uncertainClass(FALSE), "permanent"}

\* classifySetError, classifyMethodError and statusError on a set that the
\* server declined to carry out: rate limits and unavailability, or refusals.
Declined == {"retryable", "permanent"}

InspectMailboxShortcut(query) ==
  [mailbox |-> query.mailbox, status |-> "active", revision |-> query.revision,
   hash |-> query.hash]

\* InspectMailbox: what it reports of the account, read afresh whatever the
\* query expects; a foreign account is a conflict and no observation.
InspectMailbox(query) ==
  LET m == query.mailbox IN
    IF accounts[m].owner = "nobody"
    THEN [mailbox |-> m, status |-> "absent", revision |-> 0, hash |-> None]
    ELSE [mailbox |-> m, status |-> "active", revision |-> accounts[m].revision,
          hash |-> accounts[m].hash]

-----------------------------------------------------------------------------
(* The caller.                                                             *)

Finish(w, result) == calls' = [calls EXCEPT ![w].pc = "done", ![w].result = result]

Send(w, method) ==
  /\ requests' = requests \cup {[by |-> w, number |-> calls[w].number,
                                 method |-> method, command |-> calls[w].command]}
  /\ calls' = [calls EXCEPT ![w].pc = "waiting", ![w].method = method, ![w].answer = "none"]

FreeNumbers(w) == {k \in 1..MaxCalls : \A q \in requests : ~(q.by = w /\ q.number = k)}

EnsureMailbox(w, command) ==
  /\ calls[w].pc = "idle"
  /\ FreeNumbers(w) # {}
  /\ calls' = [calls EXCEPT ![w] =
                 [pc |-> "lookup", number |-> CHOOSE k \in FreeNumbers(w) : TRUE,
                  command |-> command, method |-> "none",
                  answer |-> "none", result |-> "none", effect |-> FALSE]]
  /\ UNCHANGED <<accounts, stored, requests>>

\* fetchSession, findDomain or findAccount fails, or the domain is missing.
LookupFails(w, class) ==
  /\ calls[w].pc = "lookup"
  /\ class \in ReadFailure
  /\ Finish(w, class)
  /\ UNCHANGED <<accounts, stored, requests>>

ensureExistingAccountAnyOwner(w, account, command) ==
  IF account.revision > command.revision THEN Finish(w, "ok") /\ UNCHANGED requests
  ELSE IF account.revision < command.revision THEN Send(w, "update")
  ELSE /\ Finish(w, IF account.hash = command.hash THEN "ok" ELSE "permanent")
       /\ UNCHANGED requests

ensureExistingAccountAnyHash(w, account, command) ==
  \/ /\ account.owner # "control_plane"
     /\ Finish(w, "permanent") /\ UNCHANGED requests
  \/ /\ account.owner = "control_plane" /\ account.revision >= command.revision
     /\ Finish(w, "ok") /\ UNCHANGED requests
  \/ /\ account.owner = "control_plane" /\ account.revision < command.revision
     /\ Send(w, "update")

ensureExistingAccount(w, account, command) ==
  \/ /\ account.owner # "control_plane"
     /\ Finish(w, "permanent") /\ UNCHANGED requests
  \/ /\ account.owner = "control_plane" /\ account.revision > command.revision
     /\ Finish(w, "ok") /\ UNCHANGED requests
  \/ /\ account.owner = "control_plane" /\ account.revision = command.revision
     /\ Finish(w, IF account.hash = command.hash THEN "ok" ELSE "permanent")
     /\ UNCHANGED requests
  \/ /\ account.owner = "control_plane" /\ account.revision < command.revision
     /\ Send(w, "update")

LookupFindsAccount(w) ==
  /\ calls[w].pc = "lookup"
  /\ accounts[calls[w].command.mailbox].owner # "nobody"
  /\ ensureExistingAccount(w, accounts[calls[w].command.mailbox], calls[w].command)
  /\ UNCHANGED <<accounts, stored>>

LookupFindsNothingCreatesAgain(w) ==
  /\ calls[w].pc = "lookup"
  /\ accounts[calls[w].command.mailbox].owner = "nobody"
  /\ Send(w, "create")
  /\ UNCHANGED <<accounts, stored>>

\* The first time the account is created; after a refused create the refusal is
\* reported (createAccount).
LookupFindsNothing(w) ==
  /\ calls[w].pc = "lookup"
  /\ accounts[calls[w].command.mailbox].owner = "nobody"
  /\ \/ calls[w].method = "none" /\ Send(w, "create")
     \/ /\ calls[w].method = "create"
        /\ \E class \in Declined : Finish(w, class)
        /\ UNCHANGED requests
  /\ UNCHANGED <<accounts, stored>>

\* The answer to a set arrives.  It is understood, or it has the wrong shape
\* (protocolError), or the transport, the status or the body hides it.
Receive(w) ==
  /\ calls[w].pc = "waiting"
  /\ calls[w].answer # "none"
  /\ \/ calls[w].answer = "applied" /\ Finish(w, "ok")
     \/ /\ calls[w].answer = "refused"
        /\ calls' = [calls EXCEPT ![w].pc = "lookup"]
     \/ Finish(w, protocolError)
     \/ Finish(w, uncertainClass(TRUE))
  /\ UNCHANGED <<accounts, stored, requests>>

\* Deadline or transport error before any answer: the request may be anywhere.
GiveUp(w) ==
  /\ calls[w].pc = "waiting"
  /\ calls[w].answer = "none"
  /\ Finish(w, uncertainClass(TRUE))
  /\ UNCHANGED <<accounts, stored, requests>>

\* EnsureMailbox returns and its caller has the result.
Return(w) ==
  /\ calls[w].pc = "done"
  /\ calls' = [calls EXCEPT ![w] = NoCall]
  /\ UNCHANGED <<accounts, stored, requests>>

-----------------------------------------------------------------------------
(* The server and the network.                                             *)

\* The call that sent q is still waiting for it.
Awaited(q) == calls[q.by].pc = "waiting" /\ calls[q.by].number = q.number

\* A call learns of the outcome only while it waits for it.
Answer(q, answer, effect) ==
  calls' = [calls EXCEPT ![q.by] =
              IF Awaited(q) THEN [@ EXCEPT !.answer = answer, !.effect = effect] ELSE @]

Apply(q) ==
  /\ q \in requests
  /\ requests' = requests \ {q}
  /\ LET m == q.command.mailbox IN
       IF q.method = "create" /\ accounts[m].owner # "nobody"
       THEN Answer(q, "refused", FALSE) /\ UNCHANGED <<accounts, stored>>
       ELSE /\ Answer(q, "applied", TRUE)
            /\ accounts' = [accounts EXCEPT ![m] = Written(q.command)]
            /\ stored' = [stored EXCEPT ![m] = @ \cup {[revision |-> q.command.revision,
                                                        hash |-> q.command.hash]}]

\* notCreated for a reason of the server's own: the adapter looks again.
RefuseCreate(q) ==
  /\ q \in requests /\ q.method = "create"
  /\ requests' = requests \ {q}
  /\ Answer(q, "refused", FALSE)
  /\ UNCHANGED <<accounts, stored>>

\* An error status, a method error or notUpdated: nothing is done, and the
\* caller that still waits is told so.
Decline(q, class) ==
  /\ q \in requests /\ Awaited(q)
  /\ class \in Declined
  /\ requests' = requests \ {q}
  /\ Finish(q.by, class)
  /\ UNCHANGED <<accounts, stored>>

Lose(q) ==
  /\ q \in requests
  /\ requests' = requests \ {q}
  /\ UNCHANGED <<accounts, stored, calls>>

\* Somebody else takes the address.
TakeAddress(m) ==
  /\ accounts[m].owner = "nobody"
  /\ accounts' = [accounts EXCEPT ![m] = [owner |-> "foreign", revision |-> 0, hash |-> None]]
  /\ UNCHANGED <<stored, requests, calls>>

-----------------------------------------------------------------------------
ReadStep(w) ==
  \/ \E class \in ErrorClass : LookupFails(w, class)
  \/ LookupFindsAccount(w)
  \/ LookupFindsNothing(w)

AnswerStep(w) == Receive(w) \/ GiveUp(w)

ServerStep ==
  \/ \E q \in requests : Apply(q) \/ RefuseCreate(q) \/ Lose(q)
  \/ \E q \in requests, class \in Declined : Decline(q, class)
  \/ \E m \in Mailboxes : TakeAddress(m)

AdapterNext ==
  \/ \E w \in Owners, command \in Command : EnsureMailbox(w, command)
  \/ \E w \in Owners : ReadStep(w) \/ AnswerStep(w) \/ Return(w)
  \/ ServerStep

AdapterSpec == AdapterInit /\ [][AdapterNext]_adapterVars

\* The command's deadline ends every request, so a call keeps moving.  Nothing
\* is assumed of the server.
AdapterFairSpec ==
  /\ AdapterSpec
  /\ \A w \in Owners : WF_adapterVars(ReadStep(w) \/ AnswerStep(w) \/ Return(w))

-----------------------------------------------------------------------------
(* Properties.                                                             *)

\* Accounts, requests and calls have their types.
AdapterTypeOK ==
  /\ accounts \in [Mailboxes -> Account]
  /\ stored \in [Mailboxes -> SUBSET Version]
  /\ requests \subseteq Request
  /\ calls \in [Owners -> Call]

\* A retryable error is a promise: no set of this call was carried out and none
\* is still on its way (mailcore.ErrorClassRetryable), which is what allows the
\* worker to retry without inspecting first.
RetryableMeansNoEffect ==
  \A w \in Owners :
    calls[w].result = "retryable" =>
      /\ ~calls[w].effect
      /\ \A q \in requests : ~(q.by = w /\ q.number = calls[w].number)

\* EnsureMailbox reports success only for a revision the address has had: the
\* commanded one with the commanded configuration, or a newer one.
OkMeansReached ==
  \A w \in Owners :
    calls[w].result = "ok" =>
      \E v \in stored[calls[w].command.mailbox] :
        \/ v.revision > calls[w].command.revision
        \/ v = [revision |-> calls[w].command.revision, hash |-> calls[w].command.hash]

\* An account that is not the control plane's is never changed, however late a
\* request arrives.
ForeignAccountUntouched ==
  [][\A m \in Mailboxes :
       accounts[m].owner = "foreign" => accounts'[m] = accounts[m]]_adapterVars

\* A call ends even if the server refuses every create and answers nothing.
EnsureReturns == \A w \in Owners : (calls[w].pc # "idle") ~> (calls[w].pc = "idle")

\* A permanent error says that the request failed for good
\* (mailcore.ErrorClassPermanent), so nothing should have been carried out.  The
\* adapter does not keep this: see PermanentAfterEffect in StalwartAdapterProofs.
PermanentMeansNoEffect ==
  \A w \in Owners : calls[w].result = "permanent" => ~calls[w].effect
=============================================================================
