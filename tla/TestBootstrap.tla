---------------------------- MODULE TestBootstrap ----------------------------
(***************************************************************************)
(* identity-bootstrap: Apply creates or checks the rows of the test        *)
(* fixture, Remove deletes them.  Each runs as one READ COMMITTED          *)
(* transaction under an advisory lock, one SQL statement per action, while *)
(* the API, the worker and operators write to the same tables.             *)
(*                                                                         *)
(* Rows that are treated alike are one row here: the two mailboxes, the    *)
(* four principals, the audit events of the principals, their sessions,    *)
(* the attempts of the operation.  A transaction's own changes are kept    *)
(* apart in "own" until it commits; whoever needs a row that another       *)
(* transaction has inserted or deleted waits for it.                       *)
(***************************************************************************)
EXTENDS Naturals, Sequences, FiniteSets

CONSTANTS
  Tools,           \* processes that run identity-bootstrap
  MaxDisturbances  \* bound: changes by outsiders to what the manifest fixes

ASSUME BootstrapAssumption == MaxDisturbances \in Nat

VARIABLES
  db,            \* the committed rows
  tx,            \* the transaction of each tool
  held,          \* history: what each transaction could have seen to be right
  report,        \* the result that this step has reported, if any
  disturbances   \* changes by outsiders so far

bootVars == <<db, tx, held, report, disturbances>>

-----------------------------------------------------------------------------
(* The tables.                                                             *)

\* portal.admin.access of the administrator and of the one without MFA.
Permissions == {"adminPermission", "mfaPermission"}

Manifest == {"tenant", "domain", "mailbox", "operation", "outbox", "principal"} \cup Permissions

\* Rows that fixture rows collect when they are used.
Dependents == {"event", "session", "attempt"}

\* Rows that the manifest excludes: another mailbox of the tenant, a permission of
\* the suspended principal, a principal with the unmapped subject.
Foreign == {"extra", "grant", "unmapped"}

Rows == Manifest \cup Dependents \cup Foreign

\* drifted: the row exists with its references but other fields than the
\* manifest's.  taken: its natural key belongs to a row with another id.
Values == {"absent", "exact", "drifted", "taken"}

Present == {"exact", "drifted"}

\* Rows whose natural key lies within the tenant: domain and local part, tenant
\* and idempotency key, operation.  Whoever takes it refers to the same parents.
Scoped == {"mailbox", "operation", "outbox"}

\* Rows with a natural key besides their id; the domain name, and issuer and
\* subject, are unique across tenants.
Keyed == {"domain", "principal"} \cup Scoped

\* The row, or the one that has its key, refers to the parents.
Refers(row, value) == value \in Present \/ (value = "taken" /\ row \in Scoped)

\* The foreign keys.  Permissions have none.
Parents(row) ==
  CASE row = "domain"    -> {"tenant"}
    [] row = "mailbox"   -> {"tenant", "domain"}
    [] row = "operation" -> {"tenant"}
    [] row = "outbox"    -> {"tenant", "operation"}
    [] row = "principal" -> {"tenant", "mailbox"}
    [] row = "event"     -> {"principal"}
    [] row = "session"   -> {"principal"}
    [] row = "attempt"   -> {"operation"}
    [] row = "extra"     -> {"tenant", "domain"}
    [] OTHER -> {}

Children(row) == {r \in Rows : row \in Parents(r)}

\* The rows in the order of the statements of insertFixture.
InsertOrder == <<"tenant", "domain", "mailbox", "operation", "outbox", "principal",
                 "adminPermission", "mfaPermission">>

\* verifyFixture; it reads the permissions of one principal after the other.
VerifyOrder == <<"tenant", "domain", "mailbox", "operation", "outbox", "principal",
                 "adminPermission", "grant", "mfaPermission", "unmapped">>

\* deleteFixture: the rows that each DELETE is about.
DeleteOrder == <<{"event"}, {"session"}, Permissions \cup {"grant"}, {"principal"}, {"outbox"},
                 {"attempt"}, {"operation"}, {"mailbox"}, {"domain"}, {"tenant"}>>

Same == [r \in Rows |-> "same"]

IdleTool == [pc |-> "idle", kind |-> "none", at |-> 1, own |-> Same, changed |-> FALSE]

Tool == [pc : {"idle", "lock", "insert", "footprint", "verify", "scope", "delete", "commit"},
         kind : {"none", "apply", "remove"}, at : 1 .. Len(DeleteOrder),
         own : [Rows -> {"same", "exact", "absent"}], changed : BOOLEAN]

Results == {"applied", "unchanged", "removed", "nothing", "drift", "unsafe", "failed"}

NoReport == [kind |-> "none", result |-> "none", held |-> {}]

Report == [kind : {"apply", "remove"}, result : Results, held : SUBSET (Rows \cup {"gone"})]
            \cup {NoReport}

BootInit ==
  /\ db = [r \in Rows |-> "absent"]
  /\ tx = [p \in Tools |-> IdleTool]
  /\ held = [p \in Tools |-> {}]
  /\ report = NoReport
  /\ disturbances = 0

\* A row as a transaction sees it.
Seen(p, row) == IF tx[p].own[row] = "same" THEN db[row] ELSE tx[p].own[row]

\* No other transaction has inserted or deleted the row.
Free(p, row) == \A q \in Tools \ {p} : tx[q].own[row] = "same"

Locked(p) == tx[p].pc \notin {"idle", "lock"}

\* What is right at this moment as the transaction sees it.
Right(p) ==
  {r \in Manifest : Seen(p, r) = "exact"}
    \cup {r \in Foreign : Seen(p, r) = "absent"}
    \cup {g \in {"gone"} : \A r \in Manifest \cup (Foreign \ {"extra"}) : Seen(p, r) = "absent"}

Witness ==
  held' = [p \in Tools |-> IF Locked(p) /\ tx'[p].pc # "idle" THEN held[p] \cup Right(p) ELSE {}]

Continue(p, tool) ==
  /\ tx' = [tx EXCEPT ![p] = tool]
  /\ report' = NoReport
  /\ Witness

Finish(p, result) ==
  /\ tx' = [tx EXCEPT ![p] = IdleTool]
  /\ report' = [kind |-> tx[p].kind, result |-> result, held |-> held[p] \cup Right(p)]
  /\ Witness

RollbackForgotten(p, result) ==
  /\ Finish(p, result)
  /\ db' = [r \in Rows |-> Seen(p, r)]

\* The deferred Rollback: the own changes are dropped.
Rollback(p, result) == Finish(p, result) /\ UNCHANGED db

-----------------------------------------------------------------------------
(* The transaction.                                                        *)

Begin(p, kind) ==
  /\ tx[p].pc = "idle"
  /\ Continue(p, [IdleTool EXCEPT !.pc = "lock", !.kind = kind])
  /\ UNCHANGED <<db, disturbances>>

prepareWithoutLock(p) ==
  /\ tx[p].pc = "lock"
  /\ Continue(p, [tx[p] EXCEPT !.pc = IF tx[p].kind = "apply" THEN "insert" ELSE "footprint"])
  /\ UNCHANGED <<db, disturbances>>

\* The advisory lock is held to the end of the transaction.
prepareTransaction(p) ==
  /\ tx[p].pc = "lock"
  /\ \A q \in Tools : ~Locked(q)
  /\ Continue(p, [tx[p] EXCEPT !.pc = IF tx[p].kind = "apply" THEN "insert" ELSE "footprint"])
  /\ UNCHANGED <<db, disturbances>>

\* After the statement for the row at tx.at: the next row or the next phase.
Advance(tool, order, phase) ==
  IF tool.at < Len(order) THEN [tool EXCEPT !.at = @ + 1] ELSE [tool EXCEPT !.at = 1, !.pc = phase]

\* A statement inserts or deletes rows; the run will report a change.
Write(tool, rows, value) ==
  [tool EXCEPT !.own = [r \in Rows |-> IF r \in rows THEN value ELSE tool.own[r]], !.changed = TRUE]

\* INSERT ... ON CONFLICT DO NOTHING.  A missing parent is an error of the statement.
insertFixture(p) ==
  LET tool == tx[p]
      row  == InsertOrder[tool.at]
  IN /\ tool.pc = "insert"
     /\ Free(p, row)
     /\ \/ /\ Seen(p, row) # "absent"
           /\ Continue(p, Advance(tool, InsertOrder, "verify"))
        \/ /\ Seen(p, row) = "absent"
           /\ \A r \in Parents(row) : Free(p, r) /\ Seen(p, r) \in Present
           /\ Continue(p, Advance(Write(tool, {row}, "exact"), InsertOrder, "verify"))
     /\ UNCHANGED <<db, disturbances>>

MatchesById(p, row) ==
  IF row \in Foreign THEN Seen(p, row) = "absent" ELSE Seen(p, row) \in Present

\* The fields are the manifest's, or the row is not there as it should be.
Matches(p, row) == Seen(p, row) = IF row \in Foreign THEN "absent" ELSE "exact"

verifyFixture(p) ==
  LET tool == tx[p]
      row  == VerifyOrder[tool.at]
  IN /\ tool.pc = "verify"
     /\ \/ /\ Matches(p, row)
           /\ Continue(p, Advance(tool, VerifyOrder, IF tool.kind = "apply" THEN "commit" ELSE "scope"))
           /\ UNCHANGED db
        \/ ~Matches(p, row) /\ Rollback(p, "drift")
     /\ UNCHANGED disturbances

\* One statement counts the rows under the manifest's ids and natural keys.
fixtureFootprint(p) ==
  /\ tx[p].pc = "footprint"
  /\ Continue(p, [tx[p] EXCEPT !.pc = IF "gone" \in Right(p) THEN "commit" ELSE "verify"])
  /\ UNCHANGED <<db, disturbances>>

\* Rows of the tenant that the manifest does not have.
hasExtraData(p) == Seen(p, "extra") # "absent" \/ \E r \in Scoped : Seen(p, r) = "taken"

ensureRemovalScope(p) ==
  /\ tx[p].pc = "scope"
  /\ \/ /\ ~hasExtraData(p)
        /\ Continue(p, [tx[p] EXCEPT !.pc = "delete"])
        /\ UNCHANGED db
     \/ hasExtraData(p) /\ Rollback(p, "unsafe")
  /\ UNCHANGED disturbances

\* wantAffected: a DELETE has found as many rows as the manifest has of the kind,
\* whichever they are; of the dependents there may be any number.
AsExpected(rows, found) ==
  rows \cap Manifest # {} => Cardinality(found) = Cardinality(rows \cap Manifest)

\* A DELETE waits for other transactions, then deletes what it finds; a row that
\* something refers to is an error of the statement.
deleteFixture(p) ==
  LET tool  == tx[p]
      rows  == DeleteOrder[tool.at]
      found == {r \in rows : Seen(p, r) \in Present}
  IN /\ tool.pc = "delete"
     /\ \A r \in rows : Free(p, r)
     /\ \/ /\ AsExpected(rows, found)
           /\ \A r \in found : \A s \in Children(r) : ~Refers(s, Seen(p, s))
           /\ Continue(p, Advance(Write(tool, found, "absent"), DeleteOrder, "commit"))
           /\ UNCHANGED db
        \/ ~AsExpected(rows, found) /\ Rollback(p, "drift")
     /\ UNCHANGED disturbances

Outcome(tool) ==
  CASE tool.kind = "apply" /\ tool.changed  -> "applied"
    [] tool.kind = "apply" /\ ~tool.changed -> "unchanged"
    [] tool.kind = "remove" /\ tool.changed -> "removed"
    [] OTHER -> "nothing"

\* A commit that fails may have been carried out: only its confirmation is lost.
Commit(p) ==
  /\ tx[p].pc = "commit"
  /\ db' = [r \in Rows |-> Seen(p, r)]
  /\ \/ Finish(p, Outcome(tx[p]))
     \/ Finish(p, "failed")
  /\ UNCHANGED disturbances

\* The connection is lost, a statement fails, a schema check does not hold, or a
\* foreign key forbids what a statement does.
databaseError(p) ==
  /\ tx[p].pc # "idle"
  /\ Rollback(p, "failed")
  /\ UNCHANGED disturbances

-----------------------------------------------------------------------------
(* Everybody else.                                                         *)

\* A fixture principal logs in, the worker claims the operation.  A new row is
\* seen by a transaction that has deleted the old ones.
Use(row) ==
  /\ row \in Dependents
  /\ \A r \in Parents(row) : db[r] \in Present /\ \A p \in Tools : tx[p].own[r] = "same"
  /\ db' = [db EXCEPT ![row] = "exact"]
  /\ tx' = [p \in Tools |-> [tx[p] EXCEPT !.own[row] = "same"]]
  /\ report' = NoReport
  /\ Witness
  /\ UNCHANGED disturbances

\* A row that the manifest excludes comes or goes.
Intrude(row) ==
  /\ row \in Foreign
  /\ disturbances < MaxDisturbances
  /\ \A p \in Tools : tx[p].own[row] = "same"
  /\ db' = [db EXCEPT ![row] = IF @ = "absent" THEN "exact" ELSE "absent"]
  /\ db[row] = "absent" =>
       \A r \in Parents(row) : db[r] \in Present /\ \A p \in Tools : tx[p].own[r] = "same"
  /\ disturbances' = disturbances + 1
  /\ report' = NoReport
  /\ UNCHANGED tx
  /\ Witness

\* An operator changes, repairs, adds or deletes a row of the manifest.
Disturb(row, value) ==
  /\ row \in Manifest
  /\ disturbances < MaxDisturbances
  /\ \A p \in Tools : tx[p].own[row] = "same"
  /\ \/ value = "drifted" /\ row \notin Permissions /\ db[row] \in {"absent", "exact"}
     \/ value = "exact" /\ db[row] = IF row \in Permissions THEN "absent" ELSE "drifted"
     \/ value = "taken" /\ row \in Keyed /\ db[row] = "absent"
     \/ /\ value = "absent" /\ db[row] # "absent"
        /\ db[row] \in Present =>
             \A r \in Children(row) : ~Refers(r, db[r]) /\ \A p \in Tools : tx[p].own[r] # "exact"
  /\ Refers(row, value) =>
       \A r \in Parents(row) : db[r] \in Present /\ \A p \in Tools : tx[p].own[r] # "absent"
  /\ db' = [db EXCEPT ![row] = value]
  /\ disturbances' = disturbances + 1
  /\ report' = NoReport
  /\ UNCHANGED tx
  /\ Witness

BootNext ==
  \/ \E p \in Tools :
       \/ \E kind \in {"apply", "remove"} : Begin(p, kind)
       \/ prepareTransaction(p)
       \/ insertFixture(p) \/ verifyFixture(p) \/ fixtureFootprint(p)
       \/ ensureRemovalScope(p) \/ deleteFixture(p)
       \/ Commit(p) \/ databaseError(p)
  \/ \E row \in Rows :
       \/ Use(row) \/ Intrude(row)
       \/ \E value \in Values : Disturb(row, value)

BootSpec == BootInit /\ [][BootNext]_bootVars

-----------------------------------------------------------------------------
(* Properties.                                                             *)

\* The state has its types, one transaction at a time is past
\* prepareTransaction, and no row that refers to others is left without them.
BootTypeOK ==
  /\ db \in [Rows -> Values]
  /\ tx \in [Tools -> Tool]
  /\ held \in [Tools -> SUBSET (Rows \cup {"gone"})]
  /\ report \in Report
  /\ disturbances \in 0 .. MaxDisturbances
  /\ \A p, q \in Tools : Locked(p) /\ Locked(q) => p = q
  /\ \A r \in Rows : Refers(r, db[r]) => \A s \in Parents(r) : db[s] \in Present

Checked == Manifest \cup {"grant", "unmapped"}

\* What a removal always takes with it.  (A permission that an operator grants
\* during the removal may stay: nothing refers to it and it refers to nothing.)
Owned == (Manifest \ Permissions) \cup Dependents

\* What Apply and Remove report has its ground in the transaction, whatever the
\* others do meanwhile: the fixture is declared complete, or removed, only if each
\* of its rows matched the manifest at some moment of the transaction (not all at
\* the same, nor still at the end) and each row that the manifest excludes was
\* missing at some moment; after a removal no row that could keep another alive
\* is left, and none of the events, sessions and attempts; and drift or an unsafe
\* removal is reported only if someone else has touched the fixture, never because
\* two runs met.
ReportsAreGrounded ==
  /\ report.result \in {"applied", "unchanged", "removed"} => Checked \subseteq report.held
  /\ report.result = "removed" =>
       /\ "extra" \in report.held
       /\ \A r \in Owned : db[r] = "absent"
  /\ report.result = "nothing" => "gone" \in report.held
  /\ report.result \in {"drift", "unsafe"} => disturbances > 0

Changed(rows) == {r \in rows : db'[r] # db[r]}

\* A run is whole or has no effect, also when its confirmation is lost.  Apply only
\* adds missing rows and overwrites nothing.  Remove leaves nothing of what the
\* fixture owns and deletes at most one row that the manifest excludes: a
\* permission, in the place of one of the fixture's.  Both only if the whole fixture
\* has been found right; and a run that ends in drift or refuses the removal
\* changes nothing at all.
RunsAreWhole ==
  [][report'.result # "none" /\ Changed(Rows) # {} =>
       /\ Checked \subseteq report'.held
       /\ report'.kind = "apply" =>
            /\ report'.result \in {"applied", "failed"}
            /\ \A r \in Changed(Rows) : r \in Manifest /\ db[r] = "absent" /\ db'[r] = "exact"
       /\ report'.kind = "remove" =>
            /\ report'.result \in {"removed", "failed"}
            /\ \A r \in Owned : db'[r] = "absent"
            /\ Changed(Foreign) \subseteq {"grant"}
            /\ Changed(Foreign) = {} => \A r \in Permissions : db'[r] = "absent"]_bootVars

\* Remove deletes exactly what the manifest owns, and fields that have drifted
\* prevent it, as its comment says.  (Nothing locks the rows between verifyFixture
\* and the DELETEs, which go by id and by number: rows that have drifted meanwhile
\* are deleted all the same.)
RemovesOnlyItsOwn ==
  [][report'.result = "removed" =>
       /\ \A r \in Manifest : db[r] = "exact"
       /\ Changed(Foreign) = {}]_bootVars
=============================================================================
