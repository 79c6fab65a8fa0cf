-------------------------- MODULE TestBootstrapProofs --------------------------
(***************************************************************************)
(* Proofs about TestBootstrap: what Apply and Remove report has its ground *)
(* and what they do is whole, for any number of concurrent runs and of     *)
(* changes by outsiders.                                                   *)
(***************************************************************************)
EXTENDS TestBootstrap, TLAPS, FiniteSetTheorems

-----------------------------------------------------------------------------
(* The inductive invariant.                                                *)

Earlier(order, n) == {order[i] : i \in 1 .. n - 1}

\* The rows that the first n - 1 statements of deleteFixture are about.
Deleted(n) == UNION Earlier(DeleteOrder, n)

\* The rows as a transaction with changes of its own sees them.
View(rows, own) == [r \in Rows |-> IF own[r] = "same" THEN rows[r] ELSE own[r]]

\* No row is without the rows it refers to.
Integrity(rows) ==
  \A r \in Rows : Refers(r, rows[r]) => \A s \in Parents(r) : rows[s] \in Present

\* Apply inserts rows of the manifest, Remove deletes them in their order; before
\* its first change a run has none of its own.
ToolShape(t) ==
  /\ t.pc # "idle" => t.kind # "none"
  /\ t.pc \in {"idle", "lock"} => ~t.changed
  /\ t.pc \in {"lock", "footprint", "scope"} => t.at = 1
  /\ t.pc = "insert" => t.kind = "apply" /\ t.at <= Len(InsertOrder)
  /\ t.pc = "verify" => t.at <= Len(VerifyOrder)
  /\ t.pc \in {"footprint", "scope", "delete"} => t.kind = "remove"
  /\ t.kind = "remove" /\ t.changed => t.pc \in {"delete", "commit"}
  /\ ~t.changed => t.own = Same

Granted == Permissions \cup {"grant"}

\* The DELETE of the permissions has found two: the fixture's or another.
Revoked(own) == (\A r \in Permissions : own[r] = "absent") \/ own["grant"] = "absent"

\* The own rows of a run.
OwnShape(t) ==
  /\ t.kind # "remove" => \A r \in Rows : t.own[r] # "absent"
  /\ t.kind = "remove" => \A r \in Rows : t.own[r] # "exact"
  /\ \A r \in Foreign \ {"grant"} : t.own[r] = "same"
  /\ \A r \in Dependents \cup {"grant"} : t.own[r] # "exact"
  /\ t.pc = "delete" =>
       /\ \A r \in Manifest \ Permissions :
            t.own[r] = IF r \in Deleted(t.at) THEN "absent" ELSE "same"
       /\ IF "grant" \in Deleted(t.at) THEN Revoked(t.own) ELSE \A r \in Granted : t.own[r] = "same"
  /\ t.pc = "commit" /\ t.kind = "remove" /\ t.changed =>
       (\A r \in Manifest \ Permissions : t.own[r] = "absent") /\ Revoked(t.own)

\* A run inserts only what is missing and deletes only what is there, and what
\* refers to a row that it has deleted is gone.
Consistent(rows, own) ==
  /\ Integrity(View(rows, own))
  /\ \A r \in Rows : own[r] = "exact" => rows[r] = "absent"
  /\ \A r \in Rows : own[r] = "absent" => rows[r] \in Present
  /\ \A r \in Dependents :
       (\E s \in Parents(r) : own[s] = "absent") => View(rows, own)[r] = "absent"

\* The whole fixture has been checked.
Verified(t) ==
  t.pc \in {"scope", "delete"} \/ (t.pc = "commit" /\ (t.kind = "apply" \/ t.changed))

\* What a run has found right so far.
Found(t, h) ==
  /\ t.pc = "verify" => Earlier(VerifyOrder, t.at) \subseteq h
  /\ Verified(t) => Checked \subseteq h
  /\ t.kind = "remove" /\ Verified(t) /\ t.pc # "scope" => "extra" \in h
  /\ t.kind = "remove" /\ t.pc = "commit" /\ ~t.changed => "gone" \in h

RunOK(rows, t, h) == ToolShape(t) /\ OwnShape(t) /\ Consistent(rows, t.own) /\ Found(t, h)

\* A run that has every row, inserted or found.
Complete(t) == t.pc \in {"verify", "scope"} \/ (t.pc = "commit" /\ t.kind = "apply")

\* As long as no outsider has touched it, the fixture is there as a whole or not
\* at all, and a run sees it so.
AllOrNothing(rows) ==
  /\ \A r \in Foreign : rows[r] = "absent"
  /\ \/ \A r \in Manifest : rows[r] = "exact"
     \/ \A r \in Manifest : rows[r] = "absent"

Untouched(rows, t) ==
  /\ t.pc = "insert" => \A r \in Earlier(InsertOrder, t.at) : View(rows, t.own)[r] = "exact"
  /\ Complete(t) => \A r \in Manifest : View(rows, t.own)[r] = "exact"
  /\ t.pc = "delete" => \A r \in Manifest : rows[r] = "exact"

\* Rows outside the manifest only come and go.
ComeAndGo(rows) == \A r \in Dependents \cup Foreign : rows[r] \in {"absent", "exact"}

BootInductive ==
  /\ BootTypeOK
  /\ ComeAndGo(db)
  /\ \A p \in Tools : RunOK(db, tx[p], held[p])
  /\ disturbances = 0 => AllOrNothing(db) /\ \A p \in Tools : Untouched(db, tx[p])
  /\ ReportsAreGrounded

-----------------------------------------------------------------------------
(* The tables and the orders.                                              *)

LEMMA RowFacts ==
  /\ Manifest \subseteq Rows /\ Dependents \subseteq Rows /\ Foreign \subseteq Rows
  /\ \A r \in Manifest : r \notin Dependents /\ r \notin Foreign
  /\ \A r \in Dependents : r \notin Foreign
  /\ Permissions \subseteq Manifest /\ "grant" \in Foreign /\ "grant" \in Rows
  /\ "gone" \notin Rows
  BY DEF Rows, Manifest, Permissions, Dependents, Foreign

\* Foreign keys refer to rows of the manifest.
LEMMA ParentFacts ==
  ASSUME NEW r \in Rows PROVE Parents(r) \subseteq Manifest /\ r \notin Parents(r)
  BY DEF Rows, Manifest, Permissions, Dependents, Foreign, Parents

LEMMA ChildFacts ==
  ASSUME NEW row \in Rows
  PROVE  /\ \A r : r \in Children(row) <=> r \in Rows /\ row \in Parents(r)
         /\ row \notin Manifest => Children(row) = {}
  BY ParentFacts DEF Children

LEMMA RefersFacts ==
  ASSUME NEW row
  PROVE  /\ ~Refers(row, "absent") /\ Refers(row, "exact")
         /\ \A value \in Present : Refers(row, value)
         /\ "absent" \notin Present /\ "exact" \in Present
  BY DEF Refers, Present

LEMMA EarlierFacts ==
  ASSUME NEW order, NEW n \in Nat \ {0}
  PROVE  /\ Earlier(order, 1) = {}
         /\ Earlier(order, n + 1) = Earlier(order, n) \cup {order[n]}
<1>1. 1 .. n = (1 .. n - 1) \cup {n} /\ (n + 1) - 1 = n /\ 1 .. 1 - 1 = {}
  OBVIOUS
<1> QED
  BY <1>1 DEF Earlier

LEMMA InsertFacts ==
  /\ Len(InsertOrder) = 8
  /\ \A i \in 1 .. 8 : InsertOrder[i] \in Manifest
  /\ Earlier(InsertOrder, 9) = Manifest
<1>1. Len(InsertOrder) = 8 /\ \A i \in 1 .. 8 : InsertOrder[i] \in Manifest
  BY DEF InsertOrder, Manifest, Permissions
<1>2. Manifest \subseteq Earlier(InsertOrder, 9)
  <2>1. \A i \in 1 .. 8 : InsertOrder[i] \in Earlier(InsertOrder, 9)
    BY DEF Earlier
  <2> QED
    BY <2>1 DEF InsertOrder, Manifest, Permissions
<1>3. Earlier(InsertOrder, 9) \subseteq Manifest
  BY <1>1 DEF Earlier
<1> QED
  BY <1>1, <1>2, <1>3

LEMMA VerifyFacts ==
  /\ Len(VerifyOrder) = 10
  /\ \A i \in 1 .. 10 : VerifyOrder[i] \in Checked
  /\ Earlier(VerifyOrder, 11) = Checked
<1>1. Len(VerifyOrder) = 10 /\ \A i \in 1 .. 10 : VerifyOrder[i] \in Checked
  BY DEF VerifyOrder, Checked, Manifest, Permissions
<1>2. Checked \subseteq Earlier(VerifyOrder, 11)
  <2>1. \A i \in 1 .. 10 : VerifyOrder[i] \in Earlier(VerifyOrder, 11)
    BY DEF Earlier
  <2> QED
    BY <2>1 DEF VerifyOrder, Checked, Manifest, Permissions
<1>3. Earlier(VerifyOrder, 11) \subseteq Checked
  BY <1>1 DEF Earlier
<1> QED
  BY <1>1, <1>2, <1>3

\* Each DELETE but that of the permissions is about one row.
LEMMA DeleteFacts ==
  /\ Len(DeleteOrder) = 10
  /\ DeleteOrder[3] = Granted
  /\ \A i \in 1 .. 10 : i # 3 => \E row \in Owned : DeleteOrder[i] = {row}
<1>1. Len(DeleteOrder) = 10 /\ DeleteOrder[3] = Granted
  BY DEF DeleteOrder, Granted
<1>2. ASSUME NEW i \in 1 .. 10, i # 3 PROVE \E row \in Owned : DeleteOrder[i] = {row}
  BY <1>2 DEF DeleteOrder, Owned, Manifest, Permissions, Dependents
<1> QED
  BY <1>1, <1>2

\* No row is deleted twice, and in the end everything is.
LEMMA DeletedFacts ==
  /\ Deleted(1) = {}
  /\ \A n \in 1 .. 10 : Deleted(n + 1) = Deleted(n) \cup DeleteOrder[n]
  /\ \A n \in 1 .. 10 : \A r \in DeleteOrder[n] : r \notin Deleted(n)
  /\ \A n \in 1 .. 11 : "grant" \in Deleted(n) <=> n > 3
  /\ Manifest \subseteq Deleted(11)
<1>1. Deleted(1) = {}
  BY EarlierFacts DEF Deleted
<1>2. ASSUME NEW n \in 1 .. 10 PROVE Deleted(n + 1) = Deleted(n) \cup DeleteOrder[n]
  BY EarlierFacts DEF Deleted
<1>3. ASSUME NEW n \in 1 .. 10, NEW j \in 1 .. n - 1, NEW r \in DeleteOrder[n]
      PROVE  r \notin DeleteOrder[j]
  <2>1. j \in 1 .. 10 /\ n # j
    OBVIOUS
  <2> QED
    BY <1>3, <2>1 DEF DeleteOrder, Permissions
<1>4. \A n \in 1 .. 10 : \A r \in DeleteOrder[n] : r \notin Deleted(n)
  BY <1>3 DEF Deleted, Earlier
<1>5. \A n \in 1 .. 11 : "grant" \in Deleted(n) <=> n > 3
  <2>1. \A i \in 1 .. 10 : "grant" \in DeleteOrder[i] <=> i = 3
    BY DEF DeleteOrder
  <2>2. ASSUME NEW n \in 1 .. 11, "grant" \in Deleted(n) PROVE n > 3
    <3>1. PICK i \in 1 .. n - 1 : "grant" \in DeleteOrder[i]
      BY <2>2 DEF Deleted, Earlier
    <3> QED
      BY <2>1, <3>1
  <2>3. ASSUME NEW n \in 1 .. 11, n > 3 PROVE "grant" \in Deleted(n)
    <3>1. 3 \in 1 .. n - 1 /\ "grant" \in DeleteOrder[3]
      BY <2>1, <2>3
    <3> QED
      BY <3>1 DEF Deleted, Earlier
  <2> QED
    BY <2>2, <2>3
<1>6. Manifest \subseteq Deleted(11)
  <2>1. ASSUME NEW i \in 1 .. 10 PROVE DeleteOrder[i] \subseteq Deleted(11)
    BY DEF Deleted, Earlier
  <2>2. ASSUME NEW r \in Manifest PROVE \E i \in 1 .. 10 : r \in DeleteOrder[i]
    BY DEF DeleteOrder, Manifest, Permissions
  <2> QED
    BY <2>1, <2>2
<1> QED
  BY <1>1, <1>2, <1>4, <1>5, <1>6

\* One row changes and no reference is lost.
LEMMA IntegrityUpdate ==
  ASSUME NEW rows \in [Rows -> Values], Integrity(rows), NEW row \in Rows, NEW value,
         Refers(row, value) => \A s \in Parents(row) : rows[s] \in Present,
         value \notin Present => \A r \in Children(row) : ~Refers(r, rows[r])
  PROVE  Integrity([rows EXCEPT ![row] = value])
<1> DEFINE after == [rows EXCEPT ![row] = value]
<1>1. ASSUME NEW r \in Rows, Refers(r, after[r]), NEW s \in Parents(r) PROVE after[s] \in Present
  <2>1. s \in Rows /\ row \notin Parents(row)
    BY ParentFacts, RowFacts
  <2>2. CASE r = row
    BY <1>1, <2>1, <2>2
  <2>3. CASE r # row /\ s = row
    BY <1>1, <2>1, <2>3, ChildFacts
  <2>4. CASE r # row /\ s # row
    BY <1>1, <2>1, <2>4 DEF Integrity
  <2> QED
    BY <2>2, <2>3, <2>4
<1> QED
  BY <1>1 DEF Integrity

-----------------------------------------------------------------------------
(* Steps of a run.                                                         *)

LEMMA SeenIsView ==
  ASSUME NEW p \in Tools, NEW r \in Rows PROVE Seen(p, r) = View(db, tx[p].own)[r]
  BY DEF Seen, View

LEMMA OwnTyped ==
  ASSUME NEW t \in Tool PROVE t.own \in [Rows -> {"same", "exact", "absent"}]
  BY DEF Tool

LEMMA ViewTyped ==
  ASSUME NEW rows \in [Rows -> Values], NEW own \in [Rows -> {"same", "exact", "absent"}]
  PROVE  View(rows, own) \in [Rows -> Values]
  BY DEF View, Values

LEMMA ViewOfSame ==
  ASSUME NEW rows \in [Rows -> Values] PROVE View(rows, Same) = rows
  BY DEF View, Same

LEMMA SameIsConsistent ==
  ASSUME NEW rows \in [Rows -> Values], Integrity(rows) PROVE Consistent(rows, Same)
<1>1. View(rows, Same) = rows /\ \A r \in Rows : Same[r] = "same"
  BY ViewOfSame DEF Same
<1>2. \A r \in Dependents : \A s \in Parents(r) : s \in Rows
  BY RowFacts, ParentFacts
<1> QED
  BY <1>1, <1>2 DEF Consistent

\* A run that has not got the lock yet holds nothing.
LEMMA WaitingOK ==
  ASSUME NEW rows \in [Rows -> Values], Integrity(rows), NEW t, NEW h, ToolShape(t), OwnShape(t),
         t.pc \in {"idle", "lock"}
  PROVE  RunOK(rows, t, h) /\ Untouched(rows, t)
<1>1. t.own = Same
  BY DEF ToolShape
<1>2. Consistent(rows, t.own)
  BY <1>1, SameIsConsistent
<1>3. Found(t, h)
  BY DEF Found, Verified
<1>4. Untouched(rows, t)
  BY DEF Untouched, Complete
<1> QED
  BY <1>2, <1>3, <1>4 DEF RunOK

LEMMA IdleToolOK ==
  /\ IdleTool \in Tool /\ ToolShape(IdleTool) /\ OwnShape(IdleTool) /\ IdleTool.pc = "idle"
<1>1. Same \in [Rows -> {"same", "exact", "absent"}]
  BY DEF Same
<1>2. IdleTool \in Tool
  BY <1>1, DeleteFacts DEF IdleTool, Tool
<1>3. /\ IdleTool.pc = "idle" /\ IdleTool.kind = "none" /\ IdleTool.changed = FALSE
      /\ IdleTool.own = Same
  BY DEF IdleTool
<1>4. ToolShape(IdleTool)
  BY <1>3 DEF ToolShape
<1>5. OwnShape(IdleTool)
  BY <1>3, RowFacts DEF OwnShape, Same
<1> QED
  BY <1>2, <1>3, <1>4, <1>5

LEMMA FoundGrows ==
  ASSUME NEW t, NEW h, NEW more, Found(t, h), h \subseteq more PROVE Found(t, more)
  BY DEF Found

\* A run that does nothing keeps what it knows.
LEMMA OtherFound ==
  ASSUME BootInductive, Witness, NEW q \in Tools, tx'[q].pc = tx[q].pc
  PROVE  Found(tx[q], held'[q])
<1>1. held'[q] = IF Locked(q) /\ tx'[q].pc # "idle" THEN held[q] \cup Right(q) ELSE {}
  BY DEF Witness
<1>2. Found(tx[q], held[q])
  BY DEF BootInductive, RunOK
<1>3. CASE Locked(q)
  BY <1>1, <1>2, <1>3, FoundGrows DEF Locked
<1>4. CASE ~Locked(q)
  BY <1>4 DEF Locked, Found, Verified
<1> QED
  BY <1>3, <1>4

LEMMA RightTyped == ASSUME NEW p \in Tools PROVE Right(p) \subseteq Rows \cup {"gone"}
  BY RowFacts DEF Right

LEMMA WitnessTyped ==
  ASSUME BootInductive, Witness PROVE held' \in [Tools -> SUBSET (Rows \cup {"gone"})]
<1>1. ASSUME NEW q \in Tools PROVE held[q] \cup Right(q) \in SUBSET (Rows \cup {"gone"})
  BY RightTyped DEF BootInductive, BootTypeOK
<1> QED
  BY <1>1 DEF Witness

LEMMA StateFacts ==
  ASSUME BootInductive
  PROVE  /\ db \in [Rows -> Values] /\ Integrity(db) /\ ComeAndGo(db)
         /\ tx \in [Tools -> Tool] /\ held \in [Tools -> SUBSET (Rows \cup {"gone"})]
         /\ \A p \in Tools : tx[p] \in Tool /\ RunOK(db, tx[p], held[p])
         /\ \A p, q \in Tools : Locked(p) /\ Locked(q) => p = q
  BY DEF BootInductive, BootTypeOK, Integrity

\* A step after which nothing is reported.
LEMMA NothingReported == report' = NoReport => report' \in Report /\ ReportsAreGrounded'
  BY DEF NoReport, Report, ReportsAreGrounded

\* The parts of the invariant, put together after a step.
LEMMA PutTogether ==
  ASSUME db' \in [Rows -> Values], Integrity(db'), ComeAndGo(db'), tx' \in [Tools -> Tool],
         held' \in [Tools -> SUBSET (Rows \cup {"gone"})], report' \in Report, ReportsAreGrounded',
         disturbances' \in 0 .. MaxDisturbances,
         \A p, q \in Tools : Locked(p)' /\ Locked(q)' => p = q,
         \A p \in Tools : RunOK(db', tx'[p], held'[p]),
         disturbances' = 0 => AllOrNothing(db') /\ \A p \in Tools : Untouched(db', tx'[p])
  PROVE  BootInductive'
<1>1. BootTypeOK'
  BY DEF BootTypeOK, Integrity
<1> QED
  BY <1>1 DEF BootInductive

\* The run goes on with its next statement.
LEMMA ContinueOK ==
  ASSUME BootInductive, NEW p \in Tools, NEW STATE tool, Continue(p, tool),
         UNCHANGED <<db, disturbances>>, tool \in Tool, tool.pc # "idle",
         RunOK(db, tool, IF Locked(p) THEN held[p] \cup Right(p) ELSE {}),
         disturbances = 0 => Untouched(db, tool),
         tool.pc = "lock" \/ \A q \in Tools \ {p} : ~Locked(q)
  PROVE  BootInductive'
<1>1. /\ db \in [Rows -> Values] /\ Integrity(db) /\ ComeAndGo(db) /\ tx \in [Tools -> Tool]
      /\ \A q, r \in Tools : Locked(q) /\ Locked(r) => q = r
      /\ \A q \in Tools : RunOK(db, tx[q], held[q])
  BY StateFacts
<1>2. tx'[p] = tool /\ \A q \in Tools \ {p} : tx'[q] = tx[q]
  BY <1>1 DEF Continue
<1>3. tx' \in [Tools -> Tool] /\ Witness /\ report' = NoReport
  BY <1>1 DEF Continue
<1>4. held' \in [Tools -> SUBSET (Rows \cup {"gone"})] /\ report' \in Report /\ ReportsAreGrounded'
  BY <1>3, WitnessTyped, NothingReported
<1>5. ASSUME NEW q \in Tools PROVE RunOK(db', tx'[q], held'[q])
  <2>1. CASE q = p
    <3>1. held'[p] = IF Locked(p) THEN held[p] \cup Right(p) ELSE {}
      BY <1>2, <1>3 DEF Witness
    <3> QED
      BY <1>2, <2>1, <3>1
  <2>2. CASE q # p
    <3>1. tx'[q] = tx[q] /\ RunOK(db, tx[q], held[q])
      BY <1>1, <1>2, <2>2
    <3>2. Found(tx[q], held'[q])
      BY <1>3, <3>1, OtherFound
    <3> QED
      BY <3>1, <3>2 DEF RunOK
  <2> QED
    BY <2>1, <2>2
<1>6. disturbances' = 0 => AllOrNothing(db') /\ \A q \in Tools : Untouched(db', tx'[q])
  BY <1>2 DEF BootInductive
<1>7. ASSUME NEW q \in Tools, NEW r \in Tools, Locked(q)', Locked(r)' PROVE q = r
  <2>1. \A s \in Tools : s # p => (Locked(s)' <=> Locked(s))
    BY <1>2 DEF Locked
  <2>2. tool.pc = "lock" => ~Locked(p)'
    BY <1>2 DEF Locked
  <2> QED
    BY <1>1, <1>7, <2>1, <2>2
<1>8. disturbances' \in 0 .. MaxDisturbances
  BY DEF BootInductive, BootTypeOK
<1>9. db' \in [Rows -> Values] /\ Integrity(db') /\ ComeAndGo(db')
  BY <1>1
<1> QED
  BY <1>3, <1>4, <1>5, <1>6, <1>7, <1>8, <1>9, PutTogether

\* The run ends, with its changes or without.
LEMMA FinishOK ==
  ASSUME BootInductive, NEW p \in Tools, NEW result \in Results, Finish(p, result),
         tx[p].pc # "idle", UNCHANGED disturbances,
         db' \in [Rows -> Values], Integrity(db'), ComeAndGo(db'),
         disturbances = 0 => AllOrNothing(db'),
         db' = db \/ Locked(p),
         LET h == held[p] \cup Right(p)
         IN /\ result \in {"applied", "unchanged", "removed"} => Checked \subseteq h
            /\ result = "removed" => "extra" \in h /\ \A r \in Owned : db'[r] = "absent"
            /\ result = "nothing" => "gone" \in h
            /\ result \in {"drift", "unsafe"} => disturbances > 0
  PROVE  BootInductive'
<1> DEFINE h == held[p] \cup Right(p)
<1>1. /\ db \in [Rows -> Values] /\ Integrity(db) /\ tx \in [Tools -> Tool]
      /\ \A q, r \in Tools : Locked(q) /\ Locked(r) => q = r
      /\ \A q \in Tools : tx[q] \in Tool /\ RunOK(db, tx[q], held[q])
  BY StateFacts
<1>2. tx'[p] = IdleTool /\ \A q \in Tools \ {p} : tx'[q] = tx[q]
  BY <1>1 DEF Finish
<1>3. tx' \in [Tools -> Tool] /\ Witness
  BY <1>1, IdleToolOK DEF Finish
<1>4. held' \in [Tools -> SUBSET (Rows \cup {"gone"})]
  BY <1>3, WitnessTyped
<1>5. report' = [kind |-> tx[p].kind, result |-> result, held |-> h]
  BY DEF Finish
<1>6. report' \in Report
  <2>1. tx[p].kind \in {"apply", "remove"}
    BY <1>1 DEF RunOK, ToolShape, Tool
  <2>2. h \in SUBSET (Rows \cup {"gone"})
    BY RightTyped DEF BootInductive, BootTypeOK
  <2> HIDE DEF h
  <2> QED
    BY <1>5, <2>1, <2>2 DEF Report
<1>7. ReportsAreGrounded'
  <2>1. report'.result = result /\ report'.held = h
    BY <1>5
  <2> QED
    BY <2>1 DEF ReportsAreGrounded
<1>8. ASSUME NEW q \in Tools
      PROVE  RunOK(db', tx'[q], held'[q]) /\ (disturbances = 0 => Untouched(db', tx'[q]))
  <2>1. CASE q = p
    BY <1>2, <2>1, IdleToolOK, WaitingOK
  <2>2. CASE q # p /\ db' = db
    <3>1. tx'[q] = tx[q] /\ RunOK(db, tx[q], held[q])
      BY <1>1, <1>2, <2>2
    <3>2. Found(tx[q], held'[q])
      BY <1>3, <3>1, OtherFound
    <3> QED
      BY <2>2, <3>1, <3>2 DEF RunOK, BootInductive
  <2>3. CASE q # p /\ Locked(p)
    <3>1. tx'[q] = tx[q] /\ ~Locked(q) /\ ToolShape(tx[q]) /\ OwnShape(tx[q])
      BY <1>1, <1>2, <2>3 DEF RunOK
    <3> QED
      BY <3>1, WaitingOK DEF Locked
  <2> QED
    BY <2>1, <2>2, <2>3
<1>9. ASSUME NEW q \in Tools, NEW r \in Tools, Locked(q)', Locked(r)' PROVE q = r
  <2>1. \A s \in Tools : s # p => (Locked(s)' <=> Locked(s))
    BY <1>2 DEF Locked
  <2>2. ~Locked(p)'
    BY <1>2, IdleToolOK DEF Locked
  <2> QED
    BY <1>1, <1>9, <2>1, <2>2
<1>10. disturbances' \in 0 .. MaxDisturbances
  BY DEF BootInductive, BootTypeOK
<1> QED
  BY <1>3, <1>4, <1>6, <1>7, <1>8, <1>9, <1>10, PutTogether

LEMMA RollbackOK ==
  ASSUME BootInductive, NEW p \in Tools, NEW result \in {"drift", "unsafe", "failed"},
         Rollback(p, result), tx[p].pc # "idle", UNCHANGED disturbances,
         result # "failed" => disturbances > 0
  PROVE  BootInductive'
<1>1. /\ db' = db /\ Finish(p, result) /\ result \in Results
      /\ result \notin {"applied", "unchanged", "removed", "nothing"}
  BY DEF Rollback, Results
<1>2. /\ db' \in [Rows -> Values] /\ Integrity(db') /\ ComeAndGo(db')
      /\ disturbances = 0 => AllOrNothing(db')
  BY <1>1, StateFacts DEF BootInductive
<1> QED
  BY <1>1, <1>2, FinishOK

LEMMA BeginStep ==
  ASSUME BootInductive, NEW p \in Tools, NEW kind \in {"apply", "remove"}, Begin(p, kind)
  PROVE  BootInductive'
<1> DEFINE tool == [IdleTool EXCEPT !.pc = "lock", !.kind = kind]
<1>1. /\ tool.pc = "lock" /\ tool.kind = kind /\ tool.at = 1 /\ tool.own = Same
      /\ tool.changed = FALSE
  BY DEF IdleTool
<1>2. tool \in Tool
  BY IdleToolOK DEF Tool
<1>3. Continue(p, tool) /\ UNCHANGED <<db, disturbances>>
  BY DEF Begin
<1> HIDE DEF tool
<1>4. ToolShape(tool)
  BY <1>1 DEF ToolShape
<1>5. OwnShape(tool)
  BY <1>1, RowFacts DEF OwnShape, Same
<1>6. db \in [Rows -> Values] /\ Integrity(db)
  BY StateFacts
<1>7. \A h : RunOK(db, tool, h) /\ Untouched(db, tool)
  BY <1>1, <1>4, <1>5, <1>6, WaitingOK
<1> QED
  BY <1>1, <1>2, <1>3, <1>7, ContinueOK

LEMMA prepareTransactionStep ==
  ASSUME BootInductive, NEW p \in Tools, prepareTransaction(p) PROVE BootInductive'
<1> DEFINE phase == IF tx[p].kind = "apply" THEN "insert" ELSE "footprint"
           tool  == [tx[p] EXCEPT !.pc = phase]
<1>1. /\ tx[p] \in Tool /\ tx[p].pc = "lock" /\ ToolShape(tx[p]) /\ OwnShape(tx[p])
      /\ db \in [Rows -> Values] /\ Integrity(db) /\ \A q \in Tools : ~Locked(q)
  BY StateFacts DEF prepareTransaction, RunOK
<1>2. phase \in {"insert", "footprint"} /\ (phase = "insert" <=> tx[p].kind = "apply")
  OBVIOUS
<1>3. Continue(p, tool) /\ UNCHANGED <<db, disturbances>>
  BY DEF prepareTransaction
<1> HIDE DEF phase
<1>4. /\ tool \in Tool /\ tool.pc = phase /\ tool.kind = tx[p].kind /\ tool.at = tx[p].at
      /\ tool.own = tx[p].own /\ tool.changed = tx[p].changed
  BY <1>1, <1>2 DEF Tool
<1> HIDE DEF tool
<1>5. tx[p].kind \in {"apply", "remove"} /\ tx[p].at = 1 /\ ~tx[p].changed /\ tx[p].own = Same
  BY <1>1 DEF Tool, ToolShape
<1>6. ToolShape(tool)
  BY <1>2, <1>4, <1>5, InsertFacts DEF ToolShape
<1>7. OwnShape(tool)
  BY <1>2, <1>4, <1>5, RowFacts DEF OwnShape, Same
<1>8. Consistent(db, tool.own)
  BY <1>1, <1>4, <1>5, SameIsConsistent
<1>9. \A h : Found(tool, h)
  BY <1>2, <1>4 DEF Found, Verified
<1>10. Untouched(db, tool)
  <2>1. Earlier(InsertOrder, 1) = {}
    BY EarlierFacts
  <2> QED
    BY <1>2, <1>4, <1>5, <2>1 DEF Untouched, Complete
<1> QED
  BY <1>1, <1>2, <1>3, <1>4, <1>6, <1>7, <1>8, <1>9, <1>10, ContinueOK DEF RunOK

LEMMA databaseErrorStep ==
  ASSUME BootInductive, NEW p \in Tools, databaseError(p) PROVE BootInductive'
  BY RollbackOK DEF databaseError

-----------------------------------------------------------------------------
(* insertFixture.                                                          *)

LEMMA AdvanceFacts ==
  ASSUME NEW t \in Tool, NEW order, Len(order) \in 1 .. 10, t.at <= Len(order),
         NEW phase \in {"verify", "scope", "commit"}
  PROVE  LET next == Advance(t, order, phase)
         IN /\ next \in Tool /\ next.kind = t.kind /\ next.own = t.own
            /\ next.changed = t.changed
            /\ \/ t.at < Len(order) /\ next.pc = t.pc /\ next.at = t.at + 1
               \/ t.at = Len(order) /\ next.pc = phase /\ next.at = 1
<1>0. Len(DeleteOrder) = 10 /\ t.at \in 1 .. 10
  BY DeleteFacts DEF Tool
<1> PICK n \in 1 .. 10 : n = Len(order)
  OBVIOUS
<1>1. CASE t.at < n
  <2> DEFINE next == [t EXCEPT !.at = t.at + 1]
  <2>1. t.at + 1 \in 1 .. 10
    <3>1. \A i, k \in 1 .. 10 : i < k => i + 1 \in 1 .. 10
      OBVIOUS
    <3> QED
      BY <1>0, <1>1, <3>1
  <2>2. next \in Tool /\ next.pc = t.pc /\ next.kind = t.kind /\ next.own = t.own
        /\ next.changed = t.changed /\ next.at = t.at + 1
    BY <1>0, <2>1 DEF Tool
  <2>3. Advance(t, order, phase) = next
    BY <1>1 DEF Advance
  <2> QED
    BY <1>1, <2>2, <2>3
<1>2. CASE t.at = n
  <2> DEFINE next == [t EXCEPT !.at = 1, !.pc = phase]
  <2>1. 1 \in 1 .. 10 /\ phase \in {"idle", "lock", "insert", "footprint", "verify", "scope", "delete", "commit"}
    OBVIOUS
  <2>2. next \in Tool /\ next.pc = phase /\ next.kind = t.kind /\ next.own = t.own
        /\ next.changed = t.changed /\ next.at = 1
    BY <1>0, <2>1 DEF Tool
  <2>3. Advance(t, order, phase) = next
    BY <1>2, <1>0 DEF Advance
  <2> QED
    BY <1>2, <2>2, <2>3
<1> QED
  BY <1>0, <1>1, <1>2

\* The rows of a run after a statement.
Overlay(own, rows, value) == [r \in Rows |-> IF r \in rows THEN value ELSE own[r]]

LEMMA WriteFacts ==
  ASSUME NEW t \in Tool, NEW rows, NEW value \in {"exact", "absent"}
  PROVE  /\ Write(t, rows, value) \in Tool
         /\ Write(t, rows, value).pc = t.pc /\ Write(t, rows, value).kind = t.kind
         /\ Write(t, rows, value).at = t.at /\ Write(t, rows, value).changed = TRUE
         /\ Write(t, rows, value).own = Overlay(t.own, rows, value)
<1> DEFINE own  == Overlay(t.own, rows, value)
           next == Write(t, rows, value)
<1>1. t.own \in [Rows -> {"same", "exact", "absent"}]
  BY OwnTyped
<1>2. own \in [Rows -> {"same", "exact", "absent"}]
  BY <1>1 DEF Overlay
<1>3. next = [t EXCEPT !.own = own, !.changed = TRUE]
  BY DEF Write, Overlay
<1> HIDE DEF own, next
<1>4. next \in Tool /\ next.pc = t.pc /\ next.kind = t.kind /\ next.at = t.at
      /\ next.changed = TRUE /\ next.own = own
  BY <1>2, <1>3 DEF Tool
<1> QED
  BY <1>4 DEF own, next

\* After the statement for its row the run goes on to the next one.
LEMMA InsertAdvances ==
  ASSUME NEW rows \in [Rows -> Values], NEW t \in Tool, NEW h, t.pc = "insert",
         ToolShape(t), OwnShape(t), Consistent(rows, t.own)
  PROVE  LET next == Advance(t, InsertOrder, "verify")
         IN /\ next \in Tool /\ next.pc # "idle" /\ RunOK(rows, next, h)
            /\ Untouched(rows, t) /\ View(rows, t.own)[InsertOrder[t.at]] = "exact"
                 => Untouched(rows, next)
<1> DEFINE next == Advance(t, InsertOrder, "verify")
<1>1. Len(InsertOrder) = 8 /\ t.at \in 1 .. 8 /\ t.kind = "apply"
  BY InsertFacts, DeleteFacts DEF ToolShape, Tool
<1>2. /\ next \in Tool /\ next.kind = t.kind /\ next.own = t.own /\ next.changed = t.changed
      /\ \/ t.at < 8 /\ next.pc = t.pc /\ next.at = t.at + 1
         \/ t.at = 8 /\ next.pc = "verify" /\ next.at = 1
  <2>1. Len(InsertOrder) \in 1 .. 10 /\ t.at <= Len(InsertOrder)
    BY <1>1
  <2>2. /\ next \in Tool /\ next.kind = t.kind /\ next.own = t.own
        /\ next.changed = t.changed
        /\ \/ t.at < Len(InsertOrder) /\ next.pc = t.pc /\ next.at = t.at + 1
           \/ t.at = Len(InsertOrder) /\ next.pc = "verify" /\ next.at = 1
    BY <2>1, AdvanceFacts
  <2> HIDE DEF next
  <2> QED
    BY <1>1, <2>2
<1> HIDE DEF next
<1>3. ToolShape(next)
  BY <1>1, <1>2, VerifyFacts DEF ToolShape
<1>4. OwnShape(next)
  BY <1>1, <1>2 DEF OwnShape
<1>5. Found(next, h)
  <2>1. Earlier(VerifyOrder, 1) = {}
    BY EarlierFacts
  <2> QED
    BY <1>1, <1>2, <2>1 DEF Found, Verified
<1>6. ASSUME Untouched(rows, t), View(rows, t.own)[InsertOrder[t.at]] = "exact"
      PROVE  Untouched(rows, next)
  <2>1. Earlier(InsertOrder, t.at + 1) = Earlier(InsertOrder, t.at) \cup {InsertOrder[t.at]}
    <3>1. t.at \in Nat \ {0}
      BY <1>1
    <3> QED
      BY <3>1, EarlierFacts
  <2>2. \A r \in Earlier(InsertOrder, t.at + 1) : View(rows, t.own)[r] = "exact"
    BY <1>6, <2>1 DEF Untouched
  <2>3. t.at = 8 => Earlier(InsertOrder, t.at + 1) = Manifest
    BY InsertFacts
  <2> QED
    BY <1>1, <1>2, <2>2, <2>3 DEF Untouched, Complete
<1> QED
  BY <1>1, <1>2, <1>3, <1>4, <1>5, <1>6 DEF RunOK, next

LEMMA insertFixtureStep ==
  ASSUME BootInductive, NEW p \in Tools, insertFixture(p) PROVE BootInductive'
<1> DEFINE tool == tx[p]
           row  == InsertOrder[tool.at]
           made == Write(tool, {row}, "exact")
           h    == IF Locked(p) THEN held[p] \cup Right(p) ELSE {}
<1>1. /\ tool \in Tool /\ tool.pc = "insert" /\ UNCHANGED <<db, disturbances>>
      /\ ToolShape(tool) /\ OwnShape(tool) /\ Consistent(db, tool.own)
      /\ db \in [Rows -> Values] /\ ComeAndGo(db)
  BY StateFacts DEF insertFixture, RunOK
<1>2. /\ tool.kind = "apply" /\ row \in Manifest /\ row \in Rows
      /\ tool.own \in [Rows -> {"same", "exact", "absent"}]
      /\ View(db, tool.own) \in [Rows -> Values]
  BY <1>1, InsertFacts, RowFacts, OwnTyped, ViewTyped DEF ToolShape, Tool
<1>3. \A q \in Tools \ {p} : ~Locked(q)
  BY <1>1, StateFacts DEF Locked
<1>4. disturbances = 0 => AllOrNothing(db) /\ Untouched(db, tool)
  BY DEF BootInductive
<1>0. \A r \in Rows : Seen(p, r) = View(db, tool.own)[r]
  BY SeenIsView
<1>7. \/ Seen(p, row) # "absent" /\ Continue(p, Advance(tool, InsertOrder, "verify"))
      \/ /\ Seen(p, row) = "absent"
         /\ \A r \in Parents(row) : Free(p, r) /\ Seen(p, r) \in Present
         /\ Continue(p, Advance(made, InsertOrder, "verify"))
  BY DEF insertFixture
<1> HIDE DEF tool, row, h
<1>5. CASE Seen(p, row) # "absent" /\ Continue(p, Advance(tool, InsertOrder, "verify"))
  <2>1. disturbances = 0 => View(db, tool.own)[row] = "exact"
    <3>1. View(db, tool.own)[row] = IF tool.own[row] = "same" THEN db[row] ELSE tool.own[row]
      BY <1>2 DEF View
    <3> QED
      BY <1>2, <1>4, <1>5, <3>1, <1>0 DEF AllOrNothing
  <2>2. LET next == Advance(tool, InsertOrder, "verify")
        IN /\ next \in Tool /\ next.pc # "idle" /\ RunOK(db, next, h)
           /\ Untouched(db, tool) /\ View(db, tool.own)[row] = "exact" => Untouched(db, next)
    BY <1>1, InsertAdvances DEF row
  <2> QED
    BY <1>1, <1>3, <1>4, <1>5, <2>1, <2>2, ContinueOK DEF h
<1>6. CASE /\ Seen(p, row) = "absent"
           /\ \A r \in Parents(row) : Free(p, r) /\ Seen(p, r) \in Present
           /\ Continue(p, Advance(made, InsertOrder, "verify"))
  <2>1. /\ made \in Tool /\ made.pc = "insert" /\ made.kind = "apply" /\ made.at = tool.at
        /\ made.changed = TRUE /\ made.own = [tool.own EXCEPT ![row] = "exact"]
        /\ View(db, made.own) = [View(db, tool.own) EXCEPT ![row] = "exact"]
    <3>0. db \in [Rows -> Values] /\ tool \in Tool /\ row \in Rows
      BY <1>1, <1>2
    <3>1. /\ made \in Tool /\ made.pc = tool.pc /\ made.kind = tool.kind /\ made.at = tool.at
          /\ made.changed = TRUE
      BY <3>0, WriteFacts
    <3>2. made.own = [tool.own EXCEPT ![row] = "exact"]
      <4>1. made.own = Overlay(tool.own, {row}, "exact")
        BY <3>0, WriteFacts
      <4>2. tool.own \in [Rows -> {"same", "exact", "absent"}]
        BY <3>0, OwnTyped
      <4> HIDE DEF made
      <4> QED
        BY <3>0, <4>1, <4>2 DEF Overlay
    <3>3. View(db, made.own) = [View(db, tool.own) EXCEPT ![row] = "exact"]
      <4>1. tool.own \in [Rows -> {"same", "exact", "absent"}]
        BY <3>0, OwnTyped
      <4> HIDE DEF made
      <4> QED
        BY <3>0, <3>2, <4>1 DEF View
    <3> HIDE DEF made
    <3> QED
      BY <1>1, <1>2, <3>1, <3>2, <3>3
  <2> HIDE DEF made
  <2>2. ToolShape(made)
    BY <1>1, <2>1 DEF ToolShape
  <2>3. OwnShape(made)
    BY <1>1, <1>2, <2>1, RowFacts DEF OwnShape
  <2>4. Integrity(View(db, made.own))
    <3> DEFINE view == View(db, tool.own)
    <3>1. \A s \in Parents(row) : view[s] \in Present
      BY <1>2, <1>6, <1>0, ParentFacts, RowFacts
    <3>2. view \in [Rows -> Values] /\ Integrity(view) /\ "exact" \in Present
      BY <1>1, <1>2, RefersFacts DEF Consistent
    <3> HIDE DEF view
    <3>3. Integrity([view EXCEPT ![row] = "exact"])
      BY <1>2, <3>1, <3>2, IntegrityUpdate
    <3> QED
      BY <2>1, <3>3 DEF view
  <2>5. Consistent(db, made.own)
    <3>1. tool.own[row] # "exact" => db[row] = "absent"
      BY <1>1, <1>2, <1>6, <1>0 DEF View, OwnShape
    <3>2. \A r \in Rows : made.own[r] = "exact" => db[r] = "absent"
      BY <1>1, <1>2, <2>1, <3>1 DEF Consistent
    <3>3. \A r \in Rows : made.own[r] # "absent"
      BY <2>1, <2>3 DEF OwnShape
    <3>4. \A r \in Dependents : \A s \in Parents(r) : made.own[s] # "absent"
      BY <3>3, RowFacts, ParentFacts
    <3> QED
      BY <2>4, <3>2, <3>3, <3>4 DEF Consistent
  <2>6. View(db, made.own)[row] = "exact"
    BY <1>2, <2>1
  <2>7. disturbances = 0 => Untouched(db, made)
    <3>1. \A r \in Earlier(InsertOrder, tool.at) : r \in Rows
      BY <1>1, InsertFacts, DeleteFacts, RowFacts DEF Earlier, ToolShape, Tool
    <3> QED
      BY <1>1, <1>2, <1>4, <2>1, <3>1 DEF Untouched, Complete
  <2>8. LET next == Advance(made, InsertOrder, "verify")
        IN /\ next \in Tool /\ next.pc # "idle" /\ RunOK(db, next, h)
           /\ Untouched(db, made) => Untouched(db, next)
    BY <1>1, <2>1, <2>2, <2>3, <2>5, <2>6, InsertAdvances DEF row
  <2> QED
    BY <1>1, <1>3, <1>6, <2>7, <2>8, ContinueOK DEF h
<1> QED
  BY <1>5, <1>6, <1>7

-----------------------------------------------------------------------------
(* verifyFixture, fixtureFootprint, ensureRemovalScope.                    *)

\* A run that holds the lock, and what it has seen by the end of this step.
LEMMA LockedFacts ==
  ASSUME BootInductive, NEW p \in Tools, Locked(p)
  PROVE  /\ tx[p] \in Tool /\ db \in [Rows -> Values] /\ ComeAndGo(db)
         /\ ToolShape(tx[p]) /\ OwnShape(tx[p]) /\ Consistent(db, tx[p].own)
         /\ Found(tx[p], held[p]) /\ tx[p].kind \in {"apply", "remove"}
         /\ \A q \in Tools \ {p} : ~Locked(q)
         /\ disturbances \in Nat
         /\ disturbances = 0 => AllOrNothing(db) /\ Untouched(db, tx[p])
<1>1. tx[p] \in Tool /\ tx[p].pc # "idle" /\ ToolShape(tx[p])
  BY StateFacts DEF RunOK, Locked
<1>2. tx[p].kind \in {"apply", "remove"}
  BY <1>1 DEF Tool, ToolShape
<1>3. disturbances \in Nat
  BY BootstrapAssumption DEF BootInductive, BootTypeOK
<1> QED
  BY <1>1, <1>2, <1>3, StateFacts DEF RunOK, BootInductive

\* While no outsider has touched the fixture, no row is in a run's way.
LEMMA ForeignUnseen ==
  ASSUME BootInductive, NEW p \in Tools, Locked(p), disturbances = 0, NEW r \in Foreign
  PROVE  Seen(p, r) = "absent"
<1>1. tx[p].own[r] \in {"same", "absent"}
  <2>1. tx[p].own \in [Rows -> {"same", "exact", "absent"}] /\ r \in Rows
    BY LockedFacts, OwnTyped, RowFacts
  <2> QED
    BY <2>1, LockedFacts DEF OwnShape
<1> QED
  BY <1>1, LockedFacts DEF AllOrNothing, Seen

\* What a run has just compared with the manifest is right.
LEMMA MatchesIsRight ==
  ASSUME NEW p \in Tools, NEW row \in Checked, Matches(p, row)
  PROVE  row \in Right(p)
<1>1. row \in Manifest \/ row \in Foreign
  BY DEF Checked, Foreign
<1> QED
  BY <1>1, RowFacts DEF Matches, Right

LEMMA verifyFixtureStep ==
  ASSUME BootInductive, NEW p \in Tools, verifyFixture(p) PROVE BootInductive'
<1> DEFINE tool  == tx[p]
           row   == VerifyOrder[tool.at]
           phase == IF tool.kind = "apply" THEN "commit" ELSE "scope"
           next  == Advance(tool, VerifyOrder, phase)
           h     == held[p] \cup Right(p)
<1>0. tool.pc = "verify" /\ Locked(p) /\ UNCHANGED disturbances
  BY DEF verifyFixture, Locked
<1>1. /\ tool \in Tool /\ db \in [Rows -> Values] /\ ToolShape(tool) /\ OwnShape(tool)
      /\ Consistent(db, tool.own) /\ Found(tool, held[p]) /\ tool.kind \in {"apply", "remove"}
      /\ \A q \in Tools \ {p} : ~Locked(q)
      /\ disturbances = 0 => AllOrNothing(db) /\ Untouched(db, tool)
  BY <1>0, LockedFacts
<1>2. tool.at \in 1 .. 10 /\ row \in Checked
  BY <1>0, <1>1, VerifyFacts, DeleteFacts DEF ToolShape, Tool
<1>3. CASE Matches(p, row) /\ Continue(p, next) /\ UNCHANGED db
  <2>1. phase \in {"commit", "scope"} /\ (phase = "commit" <=> tool.kind = "apply")
    OBVIOUS
  <2>2. row \in h
    BY <1>2, <1>3, MatchesIsRight
  <2>3. /\ next \in Tool /\ next.kind = tool.kind /\ next.own = tool.own
        /\ next.changed = tool.changed
        /\ \/ tool.at < 10 /\ next.pc = "verify" /\ next.at = tool.at + 1
           \/ tool.at = 10 /\ next.pc = phase /\ next.at = 1
    <3>1. Len(VerifyOrder) \in 1 .. 10 /\ tool.at <= Len(VerifyOrder)
      BY <1>2, VerifyFacts
    <3>2. /\ next \in Tool /\ next.kind = tool.kind /\ next.own = tool.own
          /\ next.changed = tool.changed
          /\ \/ tool.at < Len(VerifyOrder) /\ next.pc = tool.pc /\ next.at = tool.at + 1
             \/ tool.at = Len(VerifyOrder) /\ next.pc = phase /\ next.at = 1
      <4> HIDE DEF tool, phase
      <4> QED
        BY <1>1, <2>1, <3>1, AdvanceFacts
    <3> HIDE DEF next, tool, phase
    <3> QED
      BY <1>0, <3>2, VerifyFacts
  <2>4. Earlier(VerifyOrder, tool.at + 1) = Earlier(VerifyOrder, tool.at) \cup {row}
    <3> HIDE DEF tool
    <3>1. tool.at \in Nat \ {0}
      BY <1>2
    <3> QED
      BY <3>1, EarlierFacts
  <2>5. Earlier(VerifyOrder, tool.at + 1) \subseteq h
    BY <1>0, <1>1, <2>2, <2>4 DEF Found
  <2> HIDE DEF next, tool, phase, row
  <2>6. tool.at = 10 => Checked \subseteq h
    <3>1. tool.at = 10 => Earlier(VerifyOrder, tool.at + 1) = Checked
      BY VerifyFacts
    <3> QED
      BY <2>5, <3>1
  <2>7. ~(tool.kind = "remove" /\ tool.changed)
    BY <1>0, <1>1 DEF ToolShape
  <2>8. ToolShape(next)
    <3>1. next.pc = "verify" => next.at <= Len(VerifyOrder)
      BY <1>2, <2>1, <2>3, VerifyFacts
    <3>2. next.pc = "scope" => next.at = 1
      BY <2>1, <2>3
    <3> QED
      BY <1>0, <1>1, <2>1, <2>3, <2>7, <3>1, <3>2 DEF ToolShape
  <2>9. OwnShape(next)
    BY <1>1, <2>1, <2>3, <2>7 DEF OwnShape
  <2>10. Found(next, h)
    <3>1. next.pc = "verify" => next.at = tool.at + 1
      BY <2>1, <2>3
    <3>2. Verified(next) => tool.at = 10
      BY <2>1, <2>3 DEF Verified
    <3>3. ~(next.kind = "remove" /\ next.pc = "commit") /\ next.pc # "delete"
      BY <2>1, <2>3
    <3> HIDE DEF h
    <3> QED
      BY <2>5, <2>6, <3>1, <3>2, <3>3 DEF Found, Verified
  <2>11. disturbances = 0 => Untouched(db, next)
    BY <1>0, <1>1, <2>1, <2>3 DEF Untouched, Complete
  <2> QED
    BY <1>0, <1>1, <1>3, <2>1, <2>3, <2>8, <2>9, <2>10, <2>11, ContinueOK DEF RunOK
<1>4. CASE ~Matches(p, row) /\ Rollback(p, "drift")
  <2>1. disturbances = 0 => Matches(p, row)
    <3>1. disturbances = 0 => \A r \in Manifest : Seen(p, r) = "exact"
      BY <1>0, <1>1, RowFacts, SeenIsView DEF Untouched, Complete
    <3>2. row \in Manifest \/ row \in Foreign
      BY <1>2 DEF Checked, Foreign
    <3> QED
      BY <1>0, <3>1, <3>2, ForeignUnseen, RowFacts DEF Matches
  <2> QED
    BY <1>0, <1>4, <2>1, LockedFacts, RollbackOK
<1> QED
  BY <1>3, <1>4 DEF verifyFixture

LEMMA fixtureFootprintStep ==
  ASSUME BootInductive, NEW p \in Tools, fixtureFootprint(p) PROVE BootInductive'
<1> DEFINE tool  == tx[p]
           phase == IF "gone" \in Right(p) THEN "commit" ELSE "verify"
           next  == [tool EXCEPT !.pc = phase]
           h     == held[p] \cup Right(p)
<1>0. tool.pc = "footprint" /\ Locked(p) /\ UNCHANGED <<db, disturbances>> /\ Continue(p, next)
  BY DEF fixtureFootprint, Locked
<1>1. /\ tool \in Tool /\ db \in [Rows -> Values] /\ ToolShape(tool) /\ OwnShape(tool)
      /\ Consistent(db, tool.own)
      /\ \A q \in Tools \ {p} : ~Locked(q)
      /\ disturbances = 0 => AllOrNothing(db)
  BY <1>0, LockedFacts
<1>2. tool.kind = "remove" /\ ~tool.changed /\ tool.at = 1 /\ tool.own = Same
  BY <1>0, <1>1 DEF ToolShape
<1>3. phase \in {"commit", "verify"} /\ (phase = "commit" <=> "gone" \in Right(p))
  OBVIOUS
<1>4. disturbances = 0 /\ "gone" \notin Right(p) => \A r \in Manifest : View(db, tool.own)[r] = "exact"
  <2>1. View(db, tool.own) = db
    BY <1>1, <1>2, ViewOfSame
  <2>2. \A r \in Rows : Seen(p, r) = db[r]
    BY <2>1, SeenIsView
  <2>3. AllOrNothing(db) /\ ~(\A r \in Manifest : db[r] = "exact") => "gone" \in Right(p)
    BY <2>2, RowFacts DEF AllOrNothing, Right
  <2> QED
    BY <1>1, <2>1, <2>3
<1> HIDE DEF phase
<1>5. /\ next \in Tool /\ next.pc = phase /\ next.kind = "remove" /\ next.at = 1
      /\ next.own = tool.own /\ next.changed = tool.changed
  BY <1>1, <1>2, <1>3 DEF Tool
<1> HIDE DEF next, tool
<1>6. ToolShape(next)
  BY <1>2, <1>3, <1>5, VerifyFacts DEF ToolShape
<1>7. OwnShape(next)
  BY <1>1, <1>2, <1>3, <1>5 DEF OwnShape
<1>8. Found(next, h)
  <2>1. Earlier(VerifyOrder, 1) = {}
    BY EarlierFacts
  <2> QED
    BY <1>2, <1>3, <1>5, <2>1 DEF Found, Verified
<1>9. disturbances = 0 => Untouched(db, next)
  BY <1>3, <1>4, <1>5 DEF Untouched, Complete
<1> QED
  BY <1>0, <1>1, <1>3, <1>5, <1>6, <1>7, <1>8, <1>9, ContinueOK DEF RunOK

LEMMA ensureRemovalScopeStep ==
  ASSUME BootInductive, NEW p \in Tools, ensureRemovalScope(p) PROVE BootInductive'
<1> DEFINE tool == tx[p]
           next == [tool EXCEPT !.pc = "delete"]
           h    == held[p] \cup Right(p)
<1>0. tool.pc = "scope" /\ Locked(p) /\ UNCHANGED disturbances
  BY DEF ensureRemovalScope, Locked
<1>1. /\ tool \in Tool /\ db \in [Rows -> Values] /\ ToolShape(tool) /\ OwnShape(tool)
      /\ Consistent(db, tool.own) /\ Found(tool, held[p])
      /\ \A q \in Tools \ {p} : ~Locked(q)
      /\ disturbances = 0 => Untouched(db, tool)
  BY <1>0, LockedFacts
<1>2. tool.kind = "remove" /\ ~tool.changed /\ tool.at = 1 /\ tool.own = Same
  BY <1>0, <1>1 DEF ToolShape
<1>3. "extra" \in Foreign /\ Scoped \subseteq Manifest
  BY DEF Foreign, Scoped, Manifest
<1>4. CASE ~hasExtraData(p) /\ Continue(p, next) /\ UNCHANGED db
  <2>1. "extra" \in h
    BY <1>3, <1>4 DEF Right, hasExtraData
  <2>2. /\ next \in Tool /\ next.pc = "delete" /\ next.kind = "remove" /\ next.at = 1
        /\ next.own = tool.own /\ next.changed = tool.changed
    BY <1>1, <1>2 DEF Tool
  <2> HIDE DEF next, tool
  <2>3. ToolShape(next)
    BY <1>2, <2>2 DEF ToolShape
  <2>4. OwnShape(next)
    <3>1. Deleted(next.at) = {}
      BY <2>2, DeletedFacts
    <3>2. \A r \in Rows : next.own[r] = "same"
      BY <1>2, <2>2 DEF Same
    <3>3. \A r \in Granted : r \in Rows
      BY RowFacts DEF Granted
    <3> QED
      BY <2>2, <3>1, <3>2, <3>3, RowFacts DEF OwnShape
  <2>5. Found(next, h)
    <3>1. Checked \subseteq h
      BY <1>0, <1>1 DEF Found, Verified
    <3> HIDE DEF h
    <3> QED
      BY <2>1, <2>2, <3>1 DEF Found
  <2>6. disturbances = 0 => Untouched(db, next)
    <3>1. View(db, tool.own) = db
      BY <1>1, <1>2, ViewOfSame
    <3> QED
      BY <1>0, <1>1, <2>2, <3>1 DEF Untouched, Complete
  <2> QED
    BY <1>0, <1>1, <1>4, <2>2, <2>3, <2>4, <2>5, <2>6, ContinueOK DEF RunOK
<1>5. CASE hasExtraData(p) /\ Rollback(p, "unsafe")
  <2>1. disturbances = 0 => \A r \in Manifest : Seen(p, r) = "exact"
    BY <1>0, <1>1, RowFacts, SeenIsView DEF Untouched, Complete
  <2>2. disturbances = 0 => ~hasExtraData(p)
    BY <1>0, <1>3, <2>1, ForeignUnseen DEF hasExtraData
  <2> QED
    BY <1>0, <1>5, <2>2, LockedFacts, RollbackOK
<1> QED
  BY <1>4, <1>5 DEF ensureRemovalScope

-----------------------------------------------------------------------------
(* deleteFixture.                                                          *)

\* Rows are deleted that are there and that nothing seen refers to.
LEMMA DeleteConsistent ==
  ASSUME NEW rows \in [Rows -> Values], ComeAndGo(rows), NEW found \in SUBSET Rows,
         NEW own \in [Rows -> {"same", "exact", "absent"}], Consistent(rows, own),
         \A r \in Rows : own[r] # "exact",
         \A r \in found : View(rows, own)[r] \in Present,
         \A r \in found : \A s \in Children(r) : ~Refers(s, View(rows, own)[s])
  PROVE  Consistent(rows, Overlay(own, found, "absent"))
<1> DEFINE next  == Overlay(own, found, "absent")
           view  == View(rows, own)
           after == View(rows, next)
<1>1. /\ view \in [Rows -> Values] /\ Integrity(view)
      /\ \A r \in Rows : view[r] = IF own[r] = "same" THEN rows[r] ELSE own[r]
      /\ \A r \in Dependents : (\E s \in Parents(r) : own[s] = "absent") => view[r] = "absent"
      /\ \A r \in Rows : own[r] = "absent" => rows[r] \in Present
  BY ViewTyped DEF Consistent, View
<1>2. \A r \in Rows : next[r] = IF r \in found THEN "absent" ELSE own[r]
  BY DEF Overlay
<1>3. \A r \in Rows : after[r] = IF r \in found THEN "absent" ELSE view[r]
  BY <1>2 DEF View
<1>4. \A r \in found : view[r] \in Present /\ \A s \in Children(r) : ~Refers(s, view[s])
  OBVIOUS
<1> HIDE DEF next, view, after
<1>5. ASSUME NEW r \in Rows, Refers(r, after[r]), NEW s \in Parents(r) PROVE after[s] \in Present
  <2>1. r \notin found /\ Refers(r, view[r]) /\ s \in Rows
    BY <1>3, <1>5, RefersFacts, ParentFacts, RowFacts
  <2>2. s \notin found
    BY <1>4, <2>1, ChildFacts
  <2> QED
    BY <1>1, <1>3, <2>1, <2>2 DEF Integrity
<1>6. ASSUME NEW r \in Rows, next[r] = "absent" PROVE rows[r] \in Present
  <2>1. CASE r \in found
    <3>1. view[r] \in Present /\ own[r] # "exact" /\ "absent" \notin Present
      BY <1>4, <2>1, RefersFacts
    <3> QED
      BY <1>1, <3>1
  <2>2. CASE r \notin found
    BY <1>1, <1>2, <1>6, <2>2
  <2> QED
    BY <2>1, <2>2
<1>7. ASSUME NEW r \in Dependents, NEW s \in Parents(r), next[s] = "absent" PROVE after[r] = "absent"
  <2>1. r \in Rows /\ s \in Rows
    BY RowFacts, ParentFacts
  <2>2. CASE s \in found
    <3>1. ~Refers(r, view[r]) /\ view[r] \in {"absent", "exact"}
      BY <1>1, <1>4, <2>1, <2>2, ChildFacts DEF ComeAndGo
    <3> QED
      BY <1>3, <2>1, <3>1, RefersFacts
  <2>3. CASE s \notin found
    BY <1>1, <1>2, <1>3, <1>7, <2>1, <2>3
  <2> QED
    BY <2>2, <2>3
<1>8. \A r \in Rows : next[r] # "exact"
  BY <1>2
<1>9. Integrity(after)
  BY <1>5 DEF Integrity
<1> QED
  BY <1>6, <1>7, <1>8, <1>9 DEF Consistent, next, after

\* As many rows as wanted, and none but wanted ones, are all of them.
LEMMA AllFound ==
  ASSUME NEW wanted, IsFiniteSet(wanted), NEW found \in SUBSET wanted,
         Cardinality(found) = Cardinality(wanted)
  PROVE  found = wanted
  BY FS_Subset

LEMMA PermissionsFinite == IsFiniteSet(Permissions)
<1>1. Permissions = {"adminPermission"} \cup {"mfaPermission"}
  BY DEF Permissions
<1> QED
  BY <1>1, FS_Singleton, FS_Union

\* What the n-th DELETE finds when the number is right: its one row of the
\* manifest, or two permissions.
LEMMA ExpectedFacts ==
  ASSUME NEW n \in 1 .. 10, NEW found \in SUBSET DeleteOrder[n], AsExpected(DeleteOrder[n], found)
  PROVE  /\ n # 3 => \A r \in DeleteOrder[n] \cap Manifest : r \in found
         /\ n = 3 => Permissions \subseteq found \/ "grant" \in found
<1>1. CASE n # 3
  <2>1. PICK row \in Owned : DeleteOrder[n] = {row}
    BY <1>1, DeleteFacts
  <2>2. ASSUME row \in Manifest PROVE row \in found
    <3>1. DeleteOrder[n] \cap Manifest = {row} /\ {row} # {}
      BY <2>1, <2>2
    <3>2. Cardinality(found) = Cardinality({row}) /\ found \in SUBSET {row} /\ IsFiniteSet({row})
      BY <2>1, <3>1, FS_Singleton DEF AsExpected
    <3>3. found = {row}
      BY <3>2, AllFound
    <3> QED
      BY <3>3
  <2> QED
    BY <1>1, <2>1, <2>2
<1>2. CASE n = 3
  <2>1. DeleteOrder[n] = Granted /\ Granted \cap Manifest = Permissions /\ Permissions # {}
    BY <1>2, DeleteFacts, RowFacts DEF Granted, Permissions
  <2>2. Cardinality(found) = Cardinality(Permissions)
    BY <2>1 DEF AsExpected
  <2>3. ASSUME "grant" \notin found PROVE Permissions \subseteq found
    <3>1. found \in SUBSET Permissions
      BY <2>1, <2>3 DEF Granted
    <3> QED
      BY <2>2, <3>1, AllFound, PermissionsFinite
  <2> QED
    BY <1>2, <2>3
<1> QED
  BY <1>1, <1>2

\* The shape of a removal after its n-th DELETE.
LEMMA DeleteShape ==
  ASSUME NEW t \in Tool, OwnShape(t), t.pc = "delete", t.kind = "remove",
         NEW found \in SUBSET DeleteOrder[t.at], t.at \in 1 .. 10,
         AsExpected(DeleteOrder[t.at], found)
  PROVE  LET own == Overlay(t.own, found, "absent")
         IN /\ \A r \in Rows : own[r] # "exact"
            /\ \A r \in Foreign \ {"grant"} : own[r] = "same"
            /\ \A r \in Manifest \ Permissions :
                 own[r] = IF r \in Deleted(t.at + 1) THEN "absent" ELSE "same"
            /\ IF "grant" \in Deleted(t.at + 1) THEN Revoked(own) ELSE \A r \in Granted : own[r] = "same"
<1> DEFINE own == Overlay(t.own, found, "absent")
           n   == t.at
<1>1. /\ \A r \in Rows : own[r] = IF r \in found THEN "absent" ELSE t.own[r]
      /\ \A r \in Rows : t.own[r] # "exact"
      /\ \A r \in Foreign \ {"grant"} : t.own[r] = "same"
      /\ \A r \in Manifest \ Permissions : t.own[r] = IF r \in Deleted(n) THEN "absent" ELSE "same"
      /\ IF "grant" \in Deleted(n) THEN Revoked(t.own) ELSE \A r \in Granted : t.own[r] = "same"
  BY DEF OwnShape, Overlay
<1>2. PICK m \in 1 .. 10 : m = n
  OBVIOUS
<1>3. /\ Deleted(m + 1) = Deleted(m) \cup DeleteOrder[m]
      /\ \A r \in DeleteOrder[m] : r \notin Deleted(m)
      /\ "grant" \in Deleted(m) <=> m > 3
      /\ "grant" \in Deleted(m + 1) <=> m + 1 > 3
  <2>1. m \in 1 .. 11 /\ m + 1 \in 1 .. 11
    OBVIOUS
  <2> QED
    BY <2>1, DeletedFacts
<1>4. /\ m # 3 => \A r \in DeleteOrder[m] \cap Manifest : r \in found
      /\ m = 3 => Permissions \subseteq found \/ "grant" \in found
  BY <1>2, ExpectedFacts
<1>5. /\ found \subseteq DeleteOrder[m]
      /\ m = 3 => DeleteOrder[m] = Granted
      /\ m # 3 => \E row \in Owned : DeleteOrder[m] = {row}
  BY <1>2, DeleteFacts
<1>6. /\ \A r \in Granted : r \in Rows /\ r \notin Owned
      /\ \A r \in Foreign : r \in Rows /\ r \notin Owned
      /\ \A r \in Manifest \ Permissions : r \in Rows /\ r \notin Granted
      /\ \A r \in Foreign \ {"grant"} : r \notin Granted
  BY RowFacts DEF Granted, Owned
<1> HIDE DEF own
<1>7. \A r \in Foreign \ {"grant"} : own[r] = "same"
  BY <1>1, <1>5, <1>6
<1>8. ASSUME NEW r \in Manifest \ Permissions
      PROVE  own[r] = IF r \in Deleted(m + 1) THEN "absent" ELSE "same"
  <2>1. r \in found <=> r \in DeleteOrder[m]
    BY <1>4, <1>5, <1>6
  <2> QED
    BY <1>1, <1>2, <1>3, <1>6, <2>1
<1>9. IF "grant" \in Deleted(m + 1) THEN Revoked(own) ELSE \A r \in Granted : own[r] = "same"
  <2>1. CASE m < 3
    <3>1. \A r \in Granted : r \notin found
      BY <1>5, <1>6, <2>1
    <3>2. "grant" \notin Deleted(m + 1) /\ "grant" \notin Deleted(m)
      BY <1>3, <2>1
    <3> QED
      BY <1>1, <1>2, <1>6, <3>1, <3>2
  <2>2. CASE m = 3
    <3>1. "grant" \in Deleted(m + 1)
      BY <1>3, <2>2
    <3>2. Revoked(own)
      BY <1>1, <1>4, <1>6, <2>2 DEF Revoked, Granted
    <3> QED
      BY <3>1, <3>2
  <2>3. CASE m > 3
    <3>1. \A r \in Granted : r \notin found
      BY <1>5, <1>6, <2>3
    <3>2. "grant" \in Deleted(m + 1) /\ "grant" \in Deleted(m)
      BY <1>3, <2>3
    <3>3. \A r \in Granted : own[r] = t.own[r]
      BY <1>1, <1>6, <3>1
    <3>4. Revoked(own)
      BY <1>1, <1>2, <3>2, <3>3 DEF Revoked, Granted
    <3> QED
      BY <3>2, <3>4
  <2> QED
    BY <2>1, <2>2, <2>3
<1> QED
  BY <1>1, <1>2, <1>7, <1>8, <1>9 DEF own

LEMMA deleteFixtureStep ==
  ASSUME BootInductive, NEW p \in Tools, deleteFixture(p) PROVE BootInductive'
<1> DEFINE tool  == tx[p]
           rows  == DeleteOrder[tool.at]
           found == {r \in rows : Seen(p, r) \in Present}
           cut   == Write(tool, found, "absent")
           next  == Advance(cut, DeleteOrder, "commit")
           h     == held[p] \cup Right(p)
<1>0. tool.pc = "delete" /\ Locked(p) /\ UNCHANGED disturbances
  BY DEF deleteFixture, Locked
<1>1. /\ tool \in Tool /\ db \in [Rows -> Values] /\ ToolShape(tool) /\ OwnShape(tool)
      /\ Consistent(db, tool.own) /\ Found(tool, held[p]) /\ ComeAndGo(db)
      /\ \A q \in Tools \ {p} : ~Locked(q)
      /\ disturbances = 0 => Untouched(db, tool)
  BY <1>0, LockedFacts
<1>2. tool.kind = "remove" /\ tool.at \in 1 .. 10
  BY <1>0, <1>1, DeleteFacts DEF ToolShape, Tool
<1>3. /\ rows \subseteq Owned \cup Granted /\ rows \subseteq Rows
      /\ tool.own \in [Rows -> {"same", "exact", "absent"}]
  <2>1. rows \subseteq Owned \cup Granted
    <3> HIDE DEF tool
    <3> QED
      BY <1>2, DeleteFacts
  <2>2. Owned \cup Granted \subseteq Rows
    BY RowFacts DEF Owned, Granted
  <2> QED
    BY <1>1, <2>1, <2>2, OwnTyped
<1>4. \A r \in Rows : Seen(p, r) = View(db, tool.own)[r]
  BY SeenIsView
<1>5. found \subseteq rows /\ \A r \in rows : r \in found <=> Seen(p, r) \in Present
  OBVIOUS
<1>6. CASE /\ AsExpected(rows, found)
           /\ \A r \in found : \A s \in Children(r) : ~Refers(s, Seen(p, s))
           /\ Continue(p, next) /\ UNCHANGED db
  <2>1. /\ \A r \in Rows : tool.own[r] # "exact"
        /\ Overlay(tool.own, found, "absent") \in [Rows -> {"same", "exact", "absent"}]
    BY <1>1, <1>2, <1>3 DEF OwnShape, Overlay
  <2> HIDE DEF tool, rows, found
  <2>2. /\ cut \in Tool /\ cut.pc = tool.pc /\ cut.kind = tool.kind /\ cut.at = tool.at
        /\ cut.changed = TRUE /\ cut.own = Overlay(tool.own, found, "absent")
    BY <1>1, WriteFacts
  <2> HIDE DEF cut
  <2>3. /\ next \in Tool /\ next.kind = "remove" /\ next.changed = TRUE
        /\ next.own = Overlay(tool.own, found, "absent")
        /\ \/ tool.at < 10 /\ next.pc = "delete" /\ next.at = tool.at + 1
           \/ tool.at = 10 /\ next.pc = "commit" /\ next.at = 1
    <3>1. Len(DeleteOrder) \in 1 .. 10 /\ cut.at <= Len(DeleteOrder)
      BY <1>2, <2>2, DeleteFacts
    <3>2. /\ next \in Tool /\ next.kind = cut.kind /\ next.own = cut.own
          /\ next.changed = cut.changed
          /\ \/ cut.at < Len(DeleteOrder) /\ next.pc = cut.pc /\ next.at = cut.at + 1
             \/ cut.at = Len(DeleteOrder) /\ next.pc = "commit" /\ next.at = 1
      BY <2>2, <3>1, AdvanceFacts
    <3> HIDE DEF next
    <3> QED
      BY <1>0, <1>2, <2>2, <3>2, DeleteFacts
  <2> HIDE DEF next
  <2>4. ToolShape(next)
    BY <2>3 DEF ToolShape
  <2>5. OwnShape(next)
    <3>1. /\ \A r \in Rows : next.own[r] # "exact"
          /\ \A r \in Foreign \ {"grant"} : next.own[r] = "same"
          /\ \A r \in Manifest \ Permissions :
               next.own[r] = IF r \in Deleted(tool.at + 1) THEN "absent" ELSE "same"
          /\ IF "grant" \in Deleted(tool.at + 1) THEN Revoked(next.own)
                                               ELSE \A r \in Granted : next.own[r] = "same"
      <4>1. found \in SUBSET DeleteOrder[tool.at] /\ AsExpected(DeleteOrder[tool.at], found)
        BY <1>5, <1>6 DEF rows
      <4> QED
        BY <1>0, <1>1, <1>2, <2>3, <4>1, DeleteShape
    <3>2. next.pc = "delete" => next.at = tool.at + 1
      BY <2>3
    <3>3. next.pc = "commit" => Manifest \subseteq Deleted(tool.at + 1) /\ "grant" \in Deleted(tool.at + 1)
      <4>1. Manifest \subseteq Deleted(11) /\ "grant" \in Deleted(11)
        BY DeletedFacts
      <4> QED
        BY <2>3, <4>1
    <3>4. next.pc = "commit" => (\A r \in Manifest \ Permissions : next.own[r] = "absent") /\ Revoked(next.own)
      BY <3>1, <3>3
    <3>5. \A r \in Dependents \cup {"grant"} : r \in Rows
      BY RowFacts
    <3> QED
      BY <2>3, <3>1, <3>2, <3>4, <3>5 DEF OwnShape
  <2>6. Consistent(db, next.own)
    <3>1. found \in SUBSET Rows /\ \A r \in found : View(db, tool.own)[r] \in Present
      BY <1>3, <1>4, <1>5
    <3>2. \A r \in found : \A s \in Children(r) : ~Refers(s, View(db, tool.own)[s])
      BY <1>4, <1>6, <3>1, ChildFacts
    <3>3. Consistent(db, Overlay(tool.own, found, "absent"))
      BY <1>1, <1>3, <2>1, <3>1, <3>2, DeleteConsistent
    <3> QED
      BY <2>3, <3>3
  <2>7. Found(next, h)
    <3>1. Checked \subseteq h /\ "extra" \in h
      BY <1>0, <1>1, <1>2 DEF Found, Verified
    <3> HIDE DEF h
    <3> QED
      BY <2>3, <3>1 DEF Found
  <2>8. disturbances = 0 => Untouched(db, next)
    BY <1>0, <1>1, <2>3 DEF Untouched, Complete
  <2> QED
    BY <1>0, <1>1, <1>6, <2>3, <2>4, <2>5, <2>6, <2>7, <2>8, ContinueOK DEF RunOK, tool
<1>7. CASE ~AsExpected(rows, found) /\ Rollback(p, "drift")
  <2>1. ASSUME disturbances = 0 PROVE found = rows \cap Manifest \/ rows \cap Manifest = {}
    <3>1. ASSUME NEW r \in rows \cap Manifest PROVE Seen(p, r) = "exact"
      <4>1. r \in Rows /\ db[r] = "exact" /\ r \notin Deleted(tool.at)
        BY <1>0, <1>1, <1>2, <2>1, <3>1, RowFacts, DeletedFacts DEF Untouched
      <4>2. tool.own[r] \in {"same", "exact"}
        <5>1. CASE r \in Manifest \ Permissions
          BY <1>0, <1>1, <4>1, <5>1 DEF OwnShape
        <5>2. CASE r \in Permissions
          <6>1. tool.at = 3
            <7> HIDE DEF tool
            <7>1. tool.at # 3 => \E row \in Owned : rows = {row}
              BY <1>2, DeleteFacts
            <7> QED
              BY <3>1, <5>2, <7>1, RowFacts DEF Owned
          <6>2. "grant" \notin Deleted(tool.at)
            BY <6>1, DeletedFacts
          <6> QED
            BY <1>0, <1>1, <5>2, <6>2 DEF OwnShape, Granted
        <5> QED
          BY <3>1, <5>1, <5>2
      <4> QED
        BY <4>1, <4>2 DEF Seen
    <3>2. ASSUME rows \cap Manifest # {}, NEW r \in rows, r \notin Manifest PROVE r = "grant"
      <4>1. CASE tool.at = 3
        BY <3>2, <4>1, DeleteFacts, RowFacts DEF Granted
      <4>2. CASE tool.at # 3
        <5> HIDE DEF tool
        <5>1. PICK row \in Owned : rows = {row}
          BY <1>2, <4>2, DeleteFacts
        <5> QED
          BY <3>2, <5>1
      <4> QED
        BY <4>1, <4>2
    <3>3. Seen(p, "grant") = "absent"
      BY <1>0, <2>1, ForeignUnseen, RowFacts
    <3> QED
      BY <1>5, <3>1, <3>2, <3>3, RefersFacts
  <2>2. disturbances = 0 => AsExpected(rows, found)
    <3> HIDE DEF rows, found
    <3> QED
      BY <2>1 DEF AsExpected
  <2> QED
    BY <1>0, <1>7, <2>2, LockedFacts, RollbackOK
<1> QED
  BY <1>6, <1>7 DEF deleteFixture

-----------------------------------------------------------------------------
(* Commit.                                                                 *)

\* What the transaction has seen becomes what everybody sees.
LEMMA CommitFacts ==
  ASSUME BootInductive, NEW p \in Tools, Commit(p)
  PROVE  /\ Locked(p) /\ db' = View(db, tx[p].own)
         /\ tx[p].kind = "apply" \/ tx[p].changed => Checked \subseteq held[p]
         /\ tx[p].kind = "remove" /\ tx[p].changed =>
              /\ "extra" \in held[p]
              /\ \A r \in Owned : db'[r] = "absent"
              /\ Revoked(tx[p].own)
         /\ tx[p].kind = "remove" /\ ~tx[p].changed => "gone" \in held[p]
<1>0. tx[p].pc = "commit" /\ Locked(p)
  BY DEF Commit, Locked
<1>1. /\ OwnShape(tx[p]) /\ Consistent(db, tx[p].own) /\ Found(tx[p], held[p])
      /\ tx[p].kind \in {"apply", "remove"}
  BY <1>0, LockedFacts
<1>2. db' = View(db, tx[p].own)
  BY DEF Commit, View, Seen
<1>3. ASSUME tx[p].kind = "remove", tx[p].changed, NEW r \in Owned
      PROVE  db'[r] = "absent"
  <2>1. \A s \in Manifest \ Permissions : tx[p].own[s] = "absent"
    BY <1>0, <1>1, <1>3 DEF OwnShape
  <2>2. CASE r \in Manifest \ Permissions
    BY <1>2, <2>1, <2>2, RowFacts DEF View
  <2>3. CASE r \in Dependents
    <3>1. \E s \in Parents(r) : s \in Manifest \ Permissions
      BY <2>3 DEF Dependents, Parents, Manifest, Permissions
    <3> QED
      BY <1>1, <1>2, <2>1, <2>3, <3>1 DEF Consistent
  <2> QED
    BY <2>2, <2>3 DEF Owned
<1>4. /\ tx[p].kind = "apply" \/ tx[p].changed => Checked \subseteq held[p]
      /\ tx[p].kind = "remove" /\ tx[p].changed => "extra" \in held[p]
      /\ tx[p].kind = "remove" /\ ~tx[p].changed => "gone" \in held[p]
  BY <1>0, <1>1 DEF Found, Verified
<1>5. tx[p].kind = "remove" /\ tx[p].changed => Revoked(tx[p].own)
  BY <1>0, <1>1 DEF OwnShape
<1> QED
  BY <1>0, <1>2, <1>3, <1>4, <1>5

LEMMA CommitStep ==
  ASSUME BootInductive, NEW p \in Tools, Commit(p) PROVE BootInductive'
<1> DEFINE tool == tx[p]
<1>0. tool.pc = "commit" /\ UNCHANGED disturbances
  BY DEF Commit
<1>1. /\ Locked(p) /\ db' = View(db, tool.own)
      /\ tool.kind = "apply" \/ tool.changed => Checked \subseteq held[p]
      /\ tool.kind = "remove" /\ tool.changed =>
           /\ "extra" \in held[p]
           /\ \A r \in Owned : db'[r] = "absent"
           /\ Revoked(tool.own)
      /\ tool.kind = "remove" /\ ~tool.changed => "gone" \in held[p]
  BY CommitFacts
<1>2. /\ tool \in Tool /\ db \in [Rows -> Values] /\ ToolShape(tool) /\ OwnShape(tool)
      /\ Consistent(db, tool.own) /\ ComeAndGo(db) /\ tool.kind \in {"apply", "remove"}
      /\ disturbances = 0 => AllOrNothing(db) /\ Untouched(db, tool)
  BY <1>1, LockedFacts
<1>3. tool.own \in [Rows -> {"same", "exact", "absent"}]
  BY <1>2, OwnTyped
<1>4. PICK result \in Results : Finish(p, result) /\ result \in {Outcome(tool), "failed"}
  <2>1. Outcome(tool) \in Results /\ "failed" \in Results
    BY DEF Outcome, Results
  <2> QED
    BY <2>1 DEF Commit
<1>5. /\ result \in {"applied", "unchanged"} => tool.kind = "apply"
      /\ result = "removed" => tool.kind = "remove" /\ tool.changed
      /\ result = "nothing" => tool.kind = "remove" /\ ~tool.changed
      /\ result \notin {"drift", "unsafe"}
  BY <1>2, <1>4 DEF Outcome
<1> HIDE DEF tool
<1>6. db' \in [Rows -> Values] /\ Integrity(db')
  BY <1>1, <1>2, <1>3, ViewTyped DEF Consistent
<1>7. ComeAndGo(db')
  BY <1>1, <1>2, <1>3, RowFacts DEF ComeAndGo, View
<1>8. disturbances = 0 => AllOrNothing(db')
  <2>1. disturbances = 0 => \A r \in Foreign : db'[r] = "absent"
    <3>1. \A r \in Foreign : r \in Rows /\ tool.own[r] \in {"same", "absent"}
      BY <1>2, <1>3, RowFacts DEF OwnShape
    <3> QED
      BY <1>1, <1>2, <3>1 DEF AllOrNothing, View
  <2>2. CASE tool.kind = "apply"
    BY <1>0, <1>1, <1>2, <2>1, <2>2 DEF AllOrNothing, Untouched, Complete
  <2>3. CASE tool.kind = "remove" /\ tool.changed
    <3>1. disturbances = 0 => tool.own["grant"] # "absent"
      BY <1>2, RowFacts, RefersFacts DEF AllOrNothing, Consistent
    <3>2. disturbances = 0 => \A r \in Permissions : db'[r] = "absent"
      BY <1>1, <2>3, <3>1, RowFacts DEF Revoked, View
    <3> QED
      BY <1>1, <2>1, <2>3, <3>2 DEF AllOrNothing, Owned
  <2>4. CASE tool.kind = "remove" /\ ~tool.changed
    BY <1>1, <1>2, <2>4, ViewOfSame DEF ToolShape
  <2> QED
    BY <1>2, <2>2, <2>3, <2>4
<1>9. /\ result \in {"applied", "unchanged", "removed"} => Checked \subseteq held[p] \cup Right(p)
      /\ result = "removed" =>
           /\ "extra" \in held[p] \cup Right(p)
           /\ \A r \in Owned : db'[r] = "absent"
      /\ result = "nothing" => "gone" \in held[p] \cup Right(p)
      /\ result \in {"drift", "unsafe"} => disturbances > 0
  BY <1>1, <1>5
<1> QED
  BY <1>0, <1>1, <1>4, <1>6, <1>7, <1>8, <1>9, FinishOK DEF tool

-----------------------------------------------------------------------------
(* Everybody else.                                                         *)

\* A row that outsiders change, and that no run has changed, leaves every run
\* with a consistent view.
LEMMA OutsideConsistent ==
  ASSUME NEW rows \in [Rows -> Values], NEW own \in [Rows -> {"same", "exact", "absent"}],
         Consistent(rows, own), NEW row \in Rows, own[row] = "same", NEW value,
         Refers(row, value) => \A s \in Parents(row) : View(rows, own)[s] \in Present,
         value \notin Present => \A r \in Children(row) : ~Refers(r, View(rows, own)[r]),
         row \in Dependents => \A s \in Parents(row) : own[s] = "same"
  PROVE  Consistent([rows EXCEPT ![row] = value], own)
<1> DEFINE view  == View(rows, own)
           after == View([rows EXCEPT ![row] = value], own)
<1>1. view \in [Rows -> Values] /\ Integrity(view)
  BY ViewTyped DEF Consistent
<1>2. after = [view EXCEPT ![row] = value]
  BY DEF View
<1>3. /\ Refers(row, value) => \A s \in Parents(row) : view[s] \in Present
      /\ value \notin Present => \A r \in Children(row) : ~Refers(r, view[r])
      /\ \A r \in Dependents : (\E s \in Parents(r) : own[s] = "absent") => view[r] = "absent"
  BY DEF Consistent
<1> HIDE DEF view
<1>4. Integrity([view EXCEPT ![row] = value])
  BY <1>1, <1>3, IntegrityUpdate
<1>5. \A r \in Rows : /\ own[r] = "exact" => [rows EXCEPT ![row] = value][r] = "absent"
                      /\ own[r] = "absent" => [rows EXCEPT ![row] = value][r] \in Present
  BY DEF Consistent
<1>6. \A r \in Dependents : (\E s \in Parents(r) : own[s] = "absent") => after[r] = "absent"
  <2> HIDE DEF after
  <2> QED
    BY <1>1, <1>2, <1>3, RowFacts
<1> QED
  BY <1>2, <1>4, <1>5, <1>6 DEF Consistent

LEMMA OutsideStep ==
  ASSUME BootInductive, NEW row \in Rows, row \notin Dependents, NEW value \in Values,
         db' = [db EXCEPT ![row] = value], UNCHANGED tx, Witness, report' = NoReport,
         disturbances < MaxDisturbances, disturbances' = disturbances + 1,
         \A p \in Tools : tx[p].own[row] = "same",
         row \in Foreign => value \in {"absent", "exact"},
         Refers(row, value) =>
           \A s \in Parents(row) : db[s] \in Present /\ \A p \in Tools : tx[p].own[s] # "absent",
         value \notin Present /\ db[row] \in Present =>
           \A r \in Children(row) : ~Refers(r, db[r]) /\ \A p \in Tools : tx[p].own[r] # "exact"
  PROVE  BootInductive'
<1>1. /\ db \in [Rows -> Values] /\ Integrity(db) /\ ComeAndGo(db) /\ tx \in [Tools -> Tool]
      /\ \A p, q \in Tools : Locked(p) /\ Locked(q) => p = q
      /\ \A p \in Tools : tx[p] \in Tool /\ RunOK(db, tx[p], held[p])
  BY StateFacts
<1>2. db' \in [Rows -> Values]
  BY <1>1
<1>3. Integrity(db')
  <2>1. value \notin Present => \A r \in Children(row) : ~Refers(r, db[r])
    BY <1>1, ChildFacts DEF Integrity
  <2> QED
    BY <1>1, <2>1, IntegrityUpdate
<1>4. ComeAndGo(db')
  <2>1. ASSUME NEW r \in Dependents \cup Foreign PROVE db'[r] \in {"absent", "exact"}
    <3>1. r \in Rows
      BY RowFacts
    <3>2. CASE r = row
      BY <1>1, <3>1, <3>2
    <3>3. CASE r # row
      BY <1>1, <3>1, <3>3 DEF ComeAndGo
    <3> QED
      BY <3>2, <3>3
  <2> QED
    BY <2>1 DEF ComeAndGo
<1>5. ASSUME NEW q \in Tools PROVE RunOK(db', tx'[q], held'[q])
  <2> DEFINE own == tx[q].own
  <2>1. /\ own \in [Rows -> {"same", "exact", "absent"}] /\ own[row] = "same"
        /\ Consistent(db, own) /\ ToolShape(tx[q]) /\ OwnShape(tx[q])
    BY <1>1, OwnTyped DEF RunOK
  <2>2. Found(tx[q], held'[q])
    BY OtherFound
  <2>3. Refers(row, value) => \A s \in Parents(row) : db[s] \in Present /\ own[s] # "absent"
    OBVIOUS
  <2>4. value \notin Present /\ db[row] \in Present =>
          \A r \in Children(row) : ~Refers(r, db[r]) /\ own[r] # "exact"
    OBVIOUS
  <2> HIDE DEF own
  <2>5. Refers(row, value) => \A s \in Parents(row) : View(db, own)[s] \in Present
    <3>1. \A s \in Parents(row) : s \in Rows
      BY RowFacts, ParentFacts
    <3> QED
      BY <2>1, <2>3, <3>1 DEF View, Present
  <2>6. value \notin Present => \A r \in Children(row) : ~Refers(r, View(db, own)[r])
    <3>1. \A r \in Children(row) : r \in Rows /\ row \in Parents(r)
      BY ChildFacts
    <3>2. CASE db[row] \in Present
      BY <2>1, <2>4, <3>1, <3>2, RefersFacts DEF View
    <3>3. CASE db[row] \notin Present
      <4>1. View(db, own)[row] \notin Present
        BY <2>1, <3>3 DEF View
      <4> QED
        BY <2>1, <3>1, <4>1 DEF Consistent, Integrity
    <3> QED
      BY <3>2, <3>3
  <2>7. Consistent([db EXCEPT ![row] = value], own)
    BY <1>1, <2>1, <2>5, <2>6, OutsideConsistent
  <2> QED
    BY <2>1, <2>2, <2>7 DEF RunOK, own
<1>6. \A p, q \in Tools : Locked(p)' /\ Locked(q)' => p = q
  BY <1>1 DEF Locked
<1>7. disturbances' \in 0 .. MaxDisturbances /\ disturbances' # 0
  BY BootstrapAssumption DEF BootInductive, BootTypeOK
<1>8. held' \in [Tools -> SUBSET (Rows \cup {"gone"})] /\ report' \in Report /\ ReportsAreGrounded'
  BY WitnessTyped, NothingReported
<1> QED
  BY <1>1, <1>2, <1>3, <1>4, <1>5, <1>6, <1>7, <1>8, PutTogether

LEMMA IntrudeStep == ASSUME BootInductive, NEW row \in Rows, Intrude(row) PROVE BootInductive'
<1> DEFINE value == IF db[row] = "absent" THEN "exact" ELSE "absent"
<1>1. /\ row \in Foreign /\ row \notin Dependents /\ row \notin Manifest /\ Children(row) = {}
      /\ value \in {"absent", "exact"} /\ value \in Values
  BY RowFacts, ChildFacts DEF Intrude, Values
<1>2. \A p \in Tools : tx[p].own[row] = "same"
  BY DEF Intrude
<1>3. Refers(row, value) => db[row] = "absent"
  BY RefersFacts
<1>4. db' = [db EXCEPT ![row] = value]
  BY DEF Intrude
<1> HIDE DEF value
<1>5. Refers(row, value) =>
        \A s \in Parents(row) : db[s] \in Present /\ \A p \in Tools : tx[p].own[s] # "absent"
  BY <1>3 DEF Intrude
<1> QED
  BY <1>1, <1>2, <1>4, <1>5, OutsideStep DEF Intrude

LEMMA DisturbStep ==
  ASSUME BootInductive, NEW row \in Rows, NEW value \in Values, Disturb(row, value)
  PROVE  BootInductive'
<1>1. row \in Manifest /\ row \notin Dependents /\ row \notin Foreign
  BY RowFacts DEF Disturb
<1>2. value \notin Present /\ db[row] \in Present =>
        \A r \in Children(row) : ~Refers(r, db[r]) /\ \A p \in Tools : tx[p].own[r] # "exact"
  BY DEF Disturb, Present
<1> QED
  BY <1>1, <1>2, OutsideStep DEF Disturb

\* A session or an attempt appears, also for a run that has deleted the old ones.
LEMMA UseStep == ASSUME BootInductive, NEW row \in Rows, Use(row) PROVE BootInductive'
<1>1. /\ db \in [Rows -> Values] /\ Integrity(db) /\ ComeAndGo(db) /\ tx \in [Tools -> Tool]
      /\ \A p, q \in Tools : Locked(p) /\ Locked(q) => p = q
      /\ \A p \in Tools : tx[p] \in Tool /\ RunOK(db, tx[p], held[p])
  BY StateFacts
<1>2. /\ row \in Dependents /\ row \notin Manifest /\ row \notin Foreign
      /\ \A s \in Parents(row) : db[s] \in Present /\ \A p \in Tools : tx[p].own[s] = "same"
      /\ db' = [db EXCEPT ![row] = "exact"] /\ Witness /\ report' = NoReport
      /\ UNCHANGED disturbances
  BY RowFacts DEF Use
<1>3. /\ db' \in [Rows -> Values] /\ "exact" \in Present
      /\ \A r \in Rows : db'[r] = IF r = row THEN "exact" ELSE db[r]
  BY <1>1, <1>2 DEF Values, Present
<1>4. Integrity(db')
  BY <1>1, <1>2, <1>3, IntegrityUpdate
<1>5. ComeAndGo(db')
  BY <1>1, <1>3, RowFacts DEF ComeAndGo
<1>6. ASSUME NEW q \in Tools
      PROVE  /\ tx'[q] \in Tool /\ tx'[q].pc = tx[q].pc /\ tx'[q].kind = tx[q].kind
             /\ tx'[q].at = tx[q].at /\ tx'[q].changed = tx[q].changed
             /\ tx'[q].own \in [Rows -> {"same", "exact", "absent"}]
             /\ \A r \in Rows : tx'[q].own[r] = IF r = row THEN "same" ELSE tx[q].own[r]
  <2> DEFINE own == [tx[q].own EXCEPT ![row] = "same"]
  <2>1. tx[q].own \in [Rows -> {"same", "exact", "absent"}]
    BY <1>1, OwnTyped
  <2>2. /\ own \in [Rows -> {"same", "exact", "absent"}]
        /\ \A r \in Rows : own[r] = IF r = row THEN "same" ELSE tx[q].own[r]
    BY <2>1
  <2>3. tx'[q] = [tx[q] EXCEPT !.own = own]
    BY <1>1 DEF Use, Tool
  <2> HIDE DEF own
  <2>4. tx[q] \in Tool
    BY <1>1
  <2>5. /\ tx'[q] \in Tool /\ tx'[q].pc = tx[q].pc /\ tx'[q].kind = tx[q].kind
        /\ tx'[q].at = tx[q].at /\ tx'[q].changed = tx[q].changed /\ tx'[q].own = own
    BY <2>2, <2>3, <2>4 DEF Tool
  <2> QED
    BY <2>2, <2>5
<1>7. tx' \in [Tools -> Tool]
  BY <1>6 DEF Use
<1>8. ASSUME NEW q \in Tools
      PROVE  /\ RunOK(db', tx'[q], held'[q])
             /\ \A r \in Manifest : View(db', tx'[q].own)[r] = View(db, tx[q].own)[r]
  <2> DEFINE t   == tx[q]
             u   == tx'[q]
             own == t.own
             new == u.own
  <2>1. /\ u.pc = t.pc /\ u.kind = t.kind /\ u.at = t.at /\ u.changed = t.changed
        /\ \A r \in Rows : new[r] = IF r = row THEN "same" ELSE own[r]
        /\ own \in [Rows -> {"same", "exact", "absent"}]
        /\ new \in [Rows -> {"same", "exact", "absent"}]
    BY <1>1, <1>6, OwnTyped
  <2>2. /\ ToolShape(t) /\ OwnShape(t) /\ Consistent(db, own) /\ Found(t, held'[q])
        /\ \A s \in Parents(row) : own[s] = "same" /\ db[s] \in Present
    BY <1>1, <1>2, <2>1, OtherFound DEF RunOK
  <2> HIDE DEF t, u, own, new
  <2>3. View(db', new) = [View(db, own) EXCEPT ![row] = "exact"]
    BY <1>1, <1>3, <2>1 DEF View
  <2>4. \A r \in Manifest : View(db', new)[r] = View(db, own)[r]
    BY <1>2, <1>3, <2>1, RowFacts DEF View
  <2>5. Integrity(View(db', new))
    <3> DEFINE view == View(db, own)
    <3>1. view \in [Rows -> Values] /\ Integrity(view)
      BY <1>1, <2>1, <2>2, ViewTyped DEF Consistent
    <3>2. \A s \in Parents(row) : view[s] \in Present
      BY <2>2, RowFacts, ParentFacts DEF View
    <3> HIDE DEF view
    <3>3. Integrity([view EXCEPT ![row] = "exact"])
      BY <1>3, <3>1, <3>2, IntegrityUpdate
    <3> QED
      BY <2>3, <3>3 DEF view
  <2>6. \A r \in Rows : /\ new[r] = "exact" => db'[r] = "absent"
                        /\ new[r] = "absent" => db'[r] \in Present
    BY <1>3, <2>1, <2>2 DEF Consistent
  <2>7. ASSUME NEW r \in Dependents, NEW s \in Parents(r), new[s] = "absent"
        PROVE  View(db', new)[r] = "absent"
    <3>1. r \in Rows /\ s \in Rows /\ own[s] = "absent"
      BY <2>1, <2>7, RowFacts, ParentFacts
    <3>2. r # row
      BY <2>2, <3>1, <2>7
    <3>3. View(db', new)[r] = View(db, own)[r]
      BY <1>3, <2>1, <3>1, <3>2 DEF View
    <3> QED
      BY <2>2, <3>1, <3>3 DEF Consistent
  <2>8. Consistent(db', new)
    BY <2>5, <2>6, <2>7 DEF Consistent
  <2>9. ToolShape(u)
    <3>1. ~t.changed => new = Same
      BY <2>1, <2>2 DEF ToolShape, Same, own
    <3> QED
      BY <2>1, <2>2, <3>1 DEF ToolShape, new
  <2>10. OwnShape(u)
    <3>1. \A r \in Manifest \cup Foreign : new[r] = own[r]
      BY <1>2, <2>1, RowFacts
    <3>2. \A r \in Rows : new[r] = own[r] \/ new[r] = "same"
      BY <2>1
    <3> QED
      BY <2>1, <2>2, <3>1, <3>2, RowFacts DEF OwnShape, Revoked, Granted, own, new
  <2>11. Found(u, held'[q])
    BY <2>1, <2>2 DEF Found, Verified
  <2> QED
    BY <2>4, <2>8, <2>9, <2>10, <2>11 DEF RunOK, t, u, own, new
<1>9. disturbances' = 0 => AllOrNothing(db') /\ \A q \in Tools : Untouched(db', tx'[q])
  <2>1. \A r \in Manifest \cup Foreign : db'[r] = db[r]
    BY <1>2, <1>3, RowFacts
  <2>2. disturbances = 0 => AllOrNothing(db')
    BY <2>1 DEF AllOrNothing, BootInductive
  <2>3. ASSUME disturbances = 0, NEW q \in Tools PROVE Untouched(db', tx'[q])
    <3>1. Untouched(db, tx[q])
      BY <2>3 DEF BootInductive
    <3>2. /\ tx'[q].pc = tx[q].pc /\ tx'[q].kind = tx[q].kind /\ tx'[q].at = tx[q].at
          /\ \A r \in Manifest : View(db', tx'[q].own)[r] = View(db, tx[q].own)[r]
      BY <1>6, <1>8
    <3>3. tx[q].pc = "insert" => \A r \in Earlier(InsertOrder, tx[q].at) : r \in Manifest
      BY <1>1, InsertFacts, DeleteFacts DEF RunOK, ToolShape, Tool, Earlier
    <3> QED
      BY <2>1, <3>1, <3>2, <3>3 DEF Untouched, Complete
  <2> QED
    BY <1>2, <2>2, <2>3
<1>10. \A p, q \in Tools : Locked(p)' /\ Locked(q)' => p = q
  BY <1>1, <1>6 DEF Locked
<1>11. held' \in [Tools -> SUBSET (Rows \cup {"gone"})] /\ report' \in Report /\ ReportsAreGrounded'
  BY <1>2, WitnessTyped, NothingReported
<1>12. disturbances' \in 0 .. MaxDisturbances
  BY <1>2 DEF BootInductive, BootTypeOK
<1> QED
  BY <1>3, <1>4, <1>5, <1>7, <1>8, <1>9, <1>10, <1>11, <1>12, PutTogether

-----------------------------------------------------------------------------
(* The theorems.                                                           *)

LEMMA BootStarts == BootInit => BootInductive
<1> SUFFICES ASSUME BootInit PROVE BootInductive
  OBVIOUS
<1>0. db \in [Rows -> Values] /\ \A r \in Rows : db[r] = "absent"
  BY DEF BootInit, Values
<1>1. /\ db \in [Rows -> Values] /\ ComeAndGo(db) /\ AllOrNothing(db) /\ Integrity(db)
      /\ \A r \in Rows : db[r] \notin Present
  BY <1>0, RowFacts, RefersFacts DEF ComeAndGo, AllOrNothing, Integrity
<1>2. tx \in [Tools -> Tool] /\ \A p \in Tools : tx[p] = IdleTool
  BY IdleToolOK DEF BootInit
<1>3. \A p \in Tools : RunOK(db, tx[p], held[p]) /\ Untouched(db, tx[p])
  BY <1>1, <1>2, IdleToolOK, WaitingOK
<1>4. \A p \in Tools : ~Locked(p)
  BY <1>2, IdleToolOK DEF Locked
<1>5. report \in Report /\ ReportsAreGrounded
  BY DEF BootInit, NoReport, Report, ReportsAreGrounded
<1>6. /\ held \in [Tools -> SUBSET (Rows \cup {"gone"})]
      /\ disturbances \in 0 .. MaxDisturbances
  BY BootstrapAssumption DEF BootInit
<1>7. BootTypeOK
  BY <1>1, <1>2, <1>4, <1>5, <1>6 DEF BootTypeOK, Integrity
<1> QED
  BY <1>1, <1>3, <1>5, <1>7 DEF BootInductive

LEMMA BootStays == BootInductive /\ [BootNext]_bootVars => BootInductive'
<1> SUFFICES ASSUME BootInductive, [BootNext]_bootVars PROVE BootInductive'
  OBVIOUS
<1>1. CASE UNCHANGED bootVars
  <2>1. BootTypeOK'
    BY <1>1 DEF bootVars, BootInductive, BootTypeOK, Locked
  <2>2. ReportsAreGrounded'
    BY <1>1 DEF bootVars, BootInductive, ReportsAreGrounded
  <2> QED
    BY <1>1, <2>1, <2>2 DEF bootVars, BootInductive
<1>2. ASSUME NEW p \in Tools, NEW kind \in {"apply", "remove"}, Begin(p, kind) PROVE BootInductive'
  BY <1>2, BeginStep
<1>3. ASSUME NEW p \in Tools,
             \/ prepareTransaction(p) \/ insertFixture(p) \/ verifyFixture(p) \/ fixtureFootprint(p)
             \/ ensureRemovalScope(p) \/ deleteFixture(p) \/ Commit(p) \/ databaseError(p)
      PROVE  BootInductive'
  BY <1>3, prepareTransactionStep, insertFixtureStep, verifyFixtureStep, fixtureFootprintStep,
     ensureRemovalScopeStep, deleteFixtureStep, CommitStep, databaseErrorStep
<1>4. ASSUME NEW row \in Rows, Use(row) \/ Intrude(row) \/ \E value \in Values : Disturb(row, value)
      PROVE  BootInductive'
  BY <1>4, UseStep, IntrudeStep, DisturbStep
<1> QED
  BY <1>1, <1>2, <1>3, <1>4 DEF BootNext

\* The inductive invariant of identity-bootstrap.
THEOREM BootInductiveHolds == BootSpec => []BootInductive
  BY BootStarts, BootStays, PTL DEF BootSpec

\* Types, one transaction at a time past the advisory lock, and no foreign key
\* left dangling, however many runs and outsiders there are.
THEOREM BootTypeCorrect == BootSpec => []BootTypeOK
<1>1. BootInductive => BootTypeOK
  BY DEF BootInductive
<1> QED
  BY <1>1, BootInductiveHolds, PTL

\* What Apply and Remove report has its ground in their transaction, whatever the
\* others do meanwhile: every row matched at some moment, nothing that the fixture
\* owns is left after a removal, and only outsiders cause drift.
THEOREM ReportsGrounded == BootSpec => []ReportsAreGrounded
<1>1. BootInductive => ReportsAreGrounded
  BY DEF BootInductive
<1> QED
  BY <1>1, BootInductiveHolds, PTL

\* The changes that a commit makes are those of a whole run.
LEMMA CommitIsWhole ==
  ASSUME BootInductive, NEW p \in Tools, Commit(p), Changed(Rows) # {}
  PROVE  /\ Checked \subseteq report'.held
         /\ report'.kind = "apply" =>
              /\ report'.result \in {"applied", "failed"}
              /\ \A r \in Changed(Rows) : r \in Manifest /\ db[r] = "absent" /\ db'[r] = "exact"
         /\ report'.kind = "remove" =>
              /\ report'.result \in {"removed", "failed"}
              /\ \A r \in Owned : db'[r] = "absent"
              /\ Changed(Foreign) \subseteq {"grant"}
              /\ Changed(Foreign) = {} => \A r \in Permissions : db'[r] = "absent"
<1> DEFINE tool == tx[p]
<1>1. /\ Locked(p) /\ db' = View(db, tool.own)
      /\ tool.kind = "apply" \/ tool.changed => Checked \subseteq held[p]
      /\ tool.kind = "remove" /\ tool.changed =>
           (\A r \in Owned : db'[r] = "absent") /\ Revoked(tool.own)
  BY CommitFacts
<1>2. /\ tool \in Tool /\ db \in [Rows -> Values] /\ ToolShape(tool) /\ OwnShape(tool)
      /\ Consistent(db, tool.own) /\ tool.kind \in {"apply", "remove"}
  BY <1>1, LockedFacts
<1>3. tool.own \in [Rows -> {"same", "exact", "absent"}]
  BY <1>2, OwnTyped
<1>4. PICK result : /\ report' = [kind |-> tool.kind, result |-> result, held |-> held[p] \cup Right(p)]
                    /\ result \in {Outcome(tool), "failed"}
  BY DEF Commit, Finish
<1>5. tool.changed
  <2>1. ~tool.changed => db' = db
    BY <1>1, <1>2, ViewOfSame DEF ToolShape
  <2> QED
    BY <2>1 DEF Changed
<1>6. /\ tool.kind = "apply" => result \in {"applied", "failed"}
      /\ tool.kind = "remove" => result \in {"removed", "failed"}
  BY <1>4, <1>5 DEF Outcome
<1> HIDE DEF tool
<1>7. /\ report'.kind = tool.kind /\ report'.result = result
      /\ report'.held = held[p] \cup Right(p)
  BY <1>4
<1>8. ASSUME tool.kind = "apply", NEW r \in Changed(Rows)
      PROVE  r \in Manifest /\ db[r] = "absent" /\ db'[r] = "exact"
  <2>1. r \in Rows /\ db'[r] # db[r]
    BY <1>8 DEF Changed
  <2>2. tool.own[r] = "exact" /\ db'[r] = "exact"
    BY <1>1, <1>2, <1>3, <1>8, <2>1 DEF View, OwnShape
  <2>3. r \in Manifest
    BY <1>2, <2>1, <2>2 DEF OwnShape, Rows
  <2> QED
    BY <1>2, <2>1, <2>2, <2>3 DEF Consistent
<1>9. Changed(Foreign) \subseteq {"grant"}
  BY <1>1, <1>2, RowFacts DEF Changed, View, OwnShape
<1>10. ASSUME tool.kind = "remove", Changed(Foreign) = {}, NEW r \in Permissions PROVE db'[r] = "absent"
  <2>1. db'["grant"] = db["grant"] /\ "grant" \in Rows /\ r \in Rows
    BY <1>10, RowFacts DEF Changed
  <2>2. tool.own["grant"] # "absent"
    <3>1. tool.own["grant"] = "absent" => db["grant"] \in Present /\ db'["grant"] = "absent"
      BY <1>1, <1>2, <2>1 DEF Consistent, View
    <3> QED
      BY <2>1, <3>1, RefersFacts
  <2> QED
    BY <1>1, <1>5, <1>10, <2>1, <2>2 DEF Revoked, View
<1> QED
  BY <1>1, <1>2, <1>5, <1>6, <1>7, <1>8, <1>9, <1>10

\* A run is whole or has no effect: Apply adds only missing rows of the manifest,
\* Remove leaves nothing that the fixture owns and deletes nothing else but at most
\* a permission in the place of one of the fixture's, both only after each row has
\* been found right at some moment.  (That the rows are still right when they are
\* deleted, as RemovesOnlyItsOwn says, does not hold.)
THEOREM RunsWhole == BootSpec => RunsAreWhole
<1> DEFINE Whole ==
      report'.result # "none" /\ Changed(Rows) # {} =>
        /\ Checked \subseteq report'.held
        /\ report'.kind = "apply" =>
             /\ report'.result \in {"applied", "failed"}
             /\ \A r \in Changed(Rows) : r \in Manifest /\ db[r] = "absent" /\ db'[r] = "exact"
        /\ report'.kind = "remove" =>
             /\ report'.result \in {"removed", "failed"}
             /\ \A r \in Owned : db'[r] = "absent"
             /\ Changed(Foreign) \subseteq {"grant"}
             /\ Changed(Foreign) = {} => \A r \in Permissions : db'[r] = "absent"
<1>1. ASSUME BootInductive, [BootNext]_bootVars PROVE [Whole]_bootVars
  <2>1. NoReport.result = "none"
    BY DEF NoReport
  <2>2. db' = db => Changed(Rows) = {}
    BY DEF Changed
  <2>3. CASE \E p \in Tools : Commit(p)
    BY <1>1, <2>3, CommitIsWhole
  <2>4. CASE report' = NoReport \/ db' = db
    BY <2>1, <2>2, <2>4
  <2>5. ASSUME BootNext PROVE (\E p \in Tools : Commit(p)) \/ report' = NoReport \/ db' = db
    BY <2>5 DEF BootNext, Begin, prepareTransaction, insertFixture, verifyFixture, fixtureFootprint,
                ensureRemovalScope, deleteFixture, databaseError, Rollback, Use, Intrude, Disturb
  <2> QED
    BY <1>1, <2>3, <2>4, <2>5 DEF bootVars
<1>2. BootSpec => [][Whole]_bootVars
  BY <1>1, BootInductiveHolds, PTL DEF BootSpec
<1> QED
  BY <1>2 DEF RunsAreWhole
=============================================================================
