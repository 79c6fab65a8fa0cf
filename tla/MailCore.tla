------------------------------- MODULE MailCore -------------------------------
(***************************************************************************)
(* The vocabulary that the control plane and the mail core share           *)
(* (internal/mailcore): what a worker may ask for, what an inspection may  *)
(* report and how a failed call is classified.                             *)
(***************************************************************************)
EXTENDS Integers

CONSTANTS
  Mailboxes,      \* ids of mailboxes rows
  Owners,         \* worker processes, the values of lease_owner_id
  Hashes,         \* configuration hashes
  None,           \* NULL, nil, or the zero hash
  MaxRevision     \* bound: how often a mailbox is revised

ErrorClass == {"retryable", "permanent", "unknown"}

\* EnsureMailboxCommand: make the mailbox exist at this revision.
Command == [mailbox : Mailboxes, revision : 1..MaxRevision, hash : Hashes]

\* ObservedMailbox as InspectMailbox reports it: no account (and then the zero
\* hash), or an account with the revision and hash its metadata carries.
Observation ==
  [mailbox : Mailboxes, status : {"absent"}, revision : {0}, hash : {None}]
    \cup
  [mailbox : Mailboxes, status : {"active"}, revision : 1..MaxRevision, hash : Hashes]
=============================================================================
