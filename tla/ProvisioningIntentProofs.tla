----------------------- MODULE ProvisioningIntentProofs -----------------------
(***************************************************************************)
(* Theorems about ProvisioningIntent, for any number of requests, keys,    *)
(* addresses and names.                                                    *)
(***************************************************************************)
EXTENDS ProvisioningIntent, TLAPS

IntentInductive ==
  IntentTypeOK /\ OneHolder /\ IntentIsWhole /\ AnswersAgree /\ UnavailableMeansFault

\* Nothing is requested yet.
LEMMA IntentInitial == IntentInit => IntentInductive
  BY IntentAssumption DEF IntentInit, IntentInductive, IntentTypeOK, OneHolder, IntentIsWhole,
     AnswersAgree, AnswerIsTrue, UnavailableMeansFault, HoldsKey, HoldsAddress, Tx, Codes

\* Every step leaves rows and requests well typed.
LEMMA IntentTypeStep == IntentTypeOK /\ [IntentNext]_intentVars => IntentTypeOK'
<1> SUFFICES ASSUME IntentTypeOK, [IntentNext]_intentVars PROVE IntentTypeOK'
  OBVIOUS
<1> USE DEF IntentTypeOK, Tx, Codes
<1>1. ASSUME NEW r \in Requests, NEW command \in RequestCommand, BeginTx(r, command)
      PROVE  IntentTypeOK'
  BY <1>1 DEF BeginTx
<1>2. ASSUME NEW r \in Requests, GetOperationByIdempotencyKey(r)
      PROVE  IntentTypeOK'
  BY <1>2 DEF GetOperationByIdempotencyKey, idempotentResult, Visible, Step, Answer, Operation, RequestCommand
<1>3. ASSUME NEW r \in Requests, GetProvisionableDomain(r)
      PROVE  IntentTypeOK'
  BY <1>3 DEF GetProvisionableDomain, Step, Answer
<1>4. ASSUME NEW r \in Requests, InsertOperation(r)
      PROVE  IntentTypeOK'
  BY <1>4 DEF InsertOperation, Step
<1>5. ASSUME NEW r \in Requests, LookupAgain(r)
      PROVE  IntentTypeOK'
  BY <1>5 DEF LookupAgain, idempotentResult, Visible, Answer, Operation, RequestCommand
<1>6. ASSUME NEW r \in Requests, InsertMailbox(r)
      PROVE  IntentTypeOK'
  BY <1>6 DEF InsertMailbox, Step, Answer
<1>7. ASSUME NEW r \in Requests, InsertOutboxEvent(r)
      PROVE  IntentTypeOK'
  BY <1>7 DEF InsertOutboxEvent, Step
<1>8. ASSUME NEW r \in Requests, Commit(r)
      PROVE  IntentTypeOK'
  BY <1>8 DEF Commit, CommitRows, Answer, Operation, RequestCommand, RequestHash
<1>9. ASSUME NEW r \in Requests, CommitUnconfirmed(r)
      PROVE  IntentTypeOK'
  BY <1>9 DEF CommitUnconfirmed, CommitRows, persistenceError, Answer, Operation, RequestCommand, RequestHash
<1>10. ASSUME NEW r \in Requests, Fail(r)
      PROVE  IntentTypeOK'
  BY <1>10 DEF Fail, persistenceError, Answer
<1>11. ASSUME NEW status \in {"active", "suspended"}, SetDomain(status)
      PROVE  IntentTypeOK'
  BY <1>11 DEF SetDomain
<1>12. CASE UNCHANGED intentVars
  BY <1>12 DEF intentVars
<1> QED
  BY <1>1, <1>2, <1>3, <1>4, <1>5, <1>6, <1>7, <1>8, <1>9, <1>10, <1>11, <1>12
     DEF IntentNext, RequestStep

-----------------------------------------------------------------------------
(* The two kinds of steps: statements, which leave the committed rows and  *)
(* the requests that are done alone, and commits.                          *)

\* No committed row changes, and no request but r, which is not done.
Quiet(r) ==
  /\ UNCHANGED <<ops, boxes, events>>
  /\ txs[r].pc # "done"
  /\ \A s \in Requests \ {r} : txs'[s] = txs[s]

\* Rows belong to requests that are done, so a quiet step keeps intents whole.
LEMMA QuietKeepsWhole ==
  ASSUME IntentTypeOK, IntentIsWhole, NEW r \in Requests, Quiet(r)
  PROVE  IntentIsWhole'
<1>1. \A s \in events : s \in Requests /\ txs'[s] = txs[s]
  BY DEF IntentTypeOK, IntentIsWhole, Quiet
<1>2. ASSUME NEW k \in Keys, ops[k] # None
      PROVE  ops[k].by \in events /\ txs'[ops[k].by] = txs[ops[k].by]
  BY <1>1, <1>2 DEF IntentIsWhole
<1>3. ASSUME NEW a \in Addresses, boxes[a] # None
      PROVE  boxes[a] \in events /\ txs'[boxes[a]] = txs[boxes[a]]
  BY <1>1, <1>3 DEF IntentIsWhole
<1> QED
  BY <1>1, <1>2, <1>3 DEF IntentIsWhole, Quiet, RequestHash

\* A quiet step keeps the other requests' answers true.
LEMMA QuietKeepsAnswers ==
  ASSUME IntentTypeOK, IntentIsWhole, AnswersAgree, NEW r \in Requests, Quiet(r),
         AnswerIsTrue(r)'
  PROVE  AnswersAgree'
<1> SUFFICES ASSUME NEW s \in Requests \ {r} PROVE AnswerIsTrue(s)'
  BY DEF AnswersAgree
<1>1. txs'[s] = txs[s] /\ AnswerIsTrue(s)
  BY DEF Quiet, AnswersAgree
<1>2. CASE txs[s].pc # "done"
  BY <1>1, <1>2 DEF AnswerIsTrue, IntentTypeOK
<1>3. CASE txs[s].pc = "done"
  <2>1. txs[s].command.address \in Addresses
    BY <1>3 DEF IntentTypeOK, RequestCommand
  <2>2. ASSUME boxes[txs[s].command.address] # None
        PROVE  txs'[boxes[txs[s].command.address]] = txs[boxes[txs[s].command.address]]
    BY <2>1, <2>2 DEF IntentTypeOK, IntentIsWhole, Quiet
  <2> QED
    BY <1>1, <2>2 DEF AnswerIsTrue, Quiet, RequestHash
<1> QED
  BY <1>2, <1>3

\* A quiet step by which r gets hold of nothing keeps holders alone.
LEMMA QuietKeepsHolders ==
  ASSUME IntentTypeOK, OneHolder, NEW r \in Requests, Quiet(r),
         HoldsKey(r)' => HoldsKey(r) /\ txs'[r].command = txs[r].command,
         HoldsAddress(r)' => HoldsAddress(r) /\ txs'[r].command = txs[r].command,
         txs'[r].pc # "again"
  PROVE  OneHolder'
<1>1. \A s \in Requests : HoldsKey(s)' => HoldsKey(s) /\ txs'[s].command = txs[s].command
  BY DEF Quiet, HoldsKey
<1>2. \A s \in Requests :
        HoldsAddress(s)' => HoldsAddress(s) /\ txs'[s].command = txs[s].command
  BY DEF Quiet, HoldsAddress
<1>3. \A s \in Requests : txs'[s].pc = "again" => txs'[s] = txs[s]
  BY DEF Quiet
<1> QED
  BY <1>1, <1>2, <1>3 DEF OneHolder, Quiet

-----------------------------------------------------------------------------
(* Commits.                                                                *)

\* r has committed a new intent; nothing else has changed.
Committed(r) ==
  /\ HoldsKey(r) /\ HoldsAddress(r)
  /\ txs[r].command.key \in Keys /\ txs[r].command.address \in Addresses
  /\ ops[txs[r].command.key] = None /\ boxes[txs[r].command.address] = None
  /\ ops'[txs[r].command.key] = [by |-> r, hash |-> RequestHash(txs[r].command)]
  /\ ops'[txs[r].command.key] # None
  /\ \A k \in Keys : k # txs[r].command.key => ops'[k] = ops[k]
  /\ boxes'[txs[r].command.address] = r
  /\ \A a \in Addresses : a # txs[r].command.address => boxes'[a] = boxes[a]
  /\ events' = events \cup {r}
  /\ \A s \in Requests : txs'[s].command = txs[s].command
  /\ \A s \in Requests \ {r} : txs'[s] = txs[s]
  /\ txs'[r].pc = "done"

\* The commit of a transaction does that.
LEMMA CommitCommits ==
  ASSUME IntentInductive, NEW r \in Requests, txs[r].pc = "commit", CommitRows(r),
         NEW answer, NEW op, Answer(r, answer, op)
  PROVE  Committed(r)
<1>1. txs[r].command \in RequestCommand
  BY DEF IntentInductive, IntentTypeOK
<1>2. txs[r].command.key \in Keys /\ txs[r].command.address \in Addresses
  BY <1>1 DEF RequestCommand
<1>3. ops[txs[r].command.key] = None /\ boxes[txs[r].command.address] = None
  BY DEF IntentInductive, OneHolder, HoldsKey, HoldsAddress
<1>4. HoldsKey(r) /\ HoldsAddress(r)
  BY DEF HoldsKey, HoldsAddress
<1>5. [by |-> r, hash |-> RequestHash(txs[r].command)] \in Operation
  BY <1>1 DEF Operation, RequestHash, RequestCommand
<1>6. [by |-> r, hash |-> RequestHash(txs[r].command)] # None
  BY <1>5, IntentAssumption
<1>7. /\ ops'[txs[r].command.key] = [by |-> r, hash |-> RequestHash(txs[r].command)]
      /\ \A k \in Keys : k # txs[r].command.key => ops'[k] = ops[k]
      /\ boxes'[txs[r].command.address] = r
      /\ \A a \in Addresses : a # txs[r].command.address => boxes'[a] = boxes[a]
  BY <1>2 DEF CommitRows, IntentInductive, IntentTypeOK
<1>8. /\ \A s \in Requests : txs'[s].command = txs[s].command
      /\ \A s \in Requests \ {r} : txs'[s] = txs[s]
      /\ txs'[r].pc = "done"
  BY DEF Answer, IntentInductive, IntentTypeOK
<1> QED
  BY <1>2, <1>3, <1>4, <1>6, <1>7, <1>8 DEF Committed, CommitRows

\* A commit adds a whole intent and leaves the others whole.
LEMMA CommitKeepsWhole ==
  ASSUME IntentInductive, NEW r \in Requests, Committed(r)
  PROVE  IntentIsWhole'
<1> DEFINE command == txs[r].command
<1> USE DEF Committed
<1>1. events' = events \cup {r} /\ events \subseteq Requests
  BY DEF IntentInductive, IntentTypeOK
<1>2. IntentIsWhole /\ IntentTypeOK
  BY DEF IntentInductive
<1>3. ASSUME NEW k \in Keys, ops'[k] # None
      PROVE  /\ boxes'[ops'[k].hash[1]] = ops'[k].by
             /\ txs'[ops'[k].by].command.key = k
             /\ RequestHash(txs'[ops'[k].by].command) = ops'[k].hash
             /\ ops'[k].by \in events'
  <2>1. CASE k = command.key
    <3>1. /\ ops'[k].by = r /\ ops'[k].hash = RequestHash(txs[r].command)
          /\ txs'[r].command = txs[r].command
      BY <2>1
    <3>2. ops'[k].hash[1] = txs[r].command.address
      BY <3>1 DEF RequestHash
    <3> QED
      BY <1>1, <2>1, <3>1, <3>2
  <2>2. CASE k # command.key
    <3>1. ops'[k] = ops[k] /\ ops[k] \in Operation
      BY <1>2, <1>3, <2>2 DEF IntentTypeOK
    <3>2. ops[k].by \in events /\ boxes[ops[k].hash[1]] = ops[k].by
      BY <1>2, <1>3, <3>1 DEF IntentIsWhole
    <3>3. ops[k].hash[1] \in Addresses /\ ops[k].by # None
      BY <1>1, <3>1, <3>2, IntentAssumption DEF Operation
    <3>4. boxes'[ops[k].hash[1]] = ops[k].by
      BY <3>2, <3>3
    <3> QED
      BY <1>1, <1>2, <1>3, <3>1, <3>2, <3>4 DEF IntentIsWhole, RequestHash
  <2> QED
    BY <2>1, <2>2
<1>4. ASSUME NEW a \in Addresses, boxes'[a] # None
      PROVE  txs'[boxes'[a]].command.address = a /\ boxes'[a] \in events'
  <2>1. CASE a = command.address
    BY <1>1, <2>1
  <2>2. CASE a # command.address
    BY <1>1, <1>2, <1>4, <2>2 DEF IntentIsWhole
  <2> QED
    BY <2>1, <2>2
<1>5. ASSUME NEW s \in events'
      PROVE  /\ txs'[s].pc = "done"
             /\ ops'[txs'[s].command.key] # None
             /\ ops'[txs'[s].command.key].by = s
             /\ boxes'[txs'[s].command.address] = s
  <2>1. CASE s = r
    BY <2>1
  <2>2. CASE s # r
    <3>1. s \in events /\ txs'[s] = txs[s] /\ s # None
      BY <1>1, <2>2, IntentAssumption
    <3>2. /\ txs[s].pc = "done"
          /\ ops[txs[s].command.key] # None
          /\ ops[txs[s].command.key].by = s
          /\ boxes[txs[s].command.address] = s
      BY <1>2, <3>1 DEF IntentIsWhole
    <3>3. txs[s].command.key \in Keys /\ txs[s].command.address \in Addresses
      BY <1>1, <1>2, <3>1, <3>2 DEF IntentTypeOK, RequestCommand
    <3> QED
      BY <3>1, <3>2, <3>3
  <2> QED
    BY <2>1, <2>2
<1> QED
  BY <1>3, <1>4, <1>5 DEF IntentIsWhole, RequestHash

\* What r has committed nobody else held.
LEMMA CommitKeepsHolders ==
  ASSUME IntentInductive, NEW r \in Requests, Committed(r)
  PROVE  OneHolder'
<1> USE DEF Committed
<1>1. OneHolder /\ IntentTypeOK
  BY DEF IntentInductive
<1>2. \A s \in Requests : /\ HoldsKey(s)' => HoldsKey(s) /\ s # r
                          /\ HoldsAddress(s)' => HoldsAddress(s) /\ s # r
  BY DEF HoldsKey, HoldsAddress
<1>3. HoldsKey(r) /\ HoldsAddress(r)
  OBVIOUS
<1>4. ASSUME NEW s \in Requests, HoldsKey(s)'
      PROVE  ops'[txs'[s].command.key] = None
  <2>1. txs[s].command.key \in Keys /\ txs[s].command.key # txs[r].command.key
    BY <1>1, <1>2, <1>3, <1>4 DEF OneHolder, IntentTypeOK, RequestCommand, HoldsKey
  <2> QED
    BY <1>1, <1>2, <1>4, <2>1 DEF OneHolder
<1>5. ASSUME NEW s \in Requests, HoldsAddress(s)'
      PROVE  boxes'[txs'[s].command.address] = None
  <2>1. txs[s].command.address \in Addresses /\ txs[s].command.address # txs[r].command.address
    BY <1>1, <1>2, <1>3, <1>5 DEF OneHolder, IntentTypeOK, RequestCommand, HoldsAddress
  <2> QED
    BY <1>1, <1>2, <1>5, <2>1 DEF OneHolder
<1>6. ASSUME NEW s \in Requests, txs'[s].pc = "again"
      PROVE  ops'[txs'[s].command.key] # None
  <2>1. s # r /\ txs'[s] = txs[s] /\ txs[s].command.key \in Keys
    BY <1>1, <1>6 DEF IntentTypeOK, RequestCommand
  <2> QED
    BY <1>1, <1>6, <2>1 DEF OneHolder
<1>7. \A s, t \in Requests :
        /\ HoldsKey(s)' /\ HoldsKey(t)' /\ txs'[s].command.key = txs'[t].command.key => s = t
        /\ HoldsAddress(s)' /\ HoldsAddress(t)'
             /\ txs'[s].command.address = txs'[t].command.address => s = t
  BY <1>1, <1>2 DEF OneHolder
<1> QED
  BY <1>4, <1>5, <1>6, <1>7 DEF OneHolder

\* A commit touches no row that an earlier answer speaks of.
LEMMA CommitKeepsAnswers ==
  ASSUME IntentInductive, NEW r \in Requests, Committed(r), AnswerIsTrue(r)'
  PROVE  AnswersAgree'
<1> SUFFICES ASSUME NEW s \in Requests \ {r} PROVE AnswerIsTrue(s)'
  BY DEF AnswersAgree
<1> USE DEF Committed
<1>1. txs'[s] = txs[s] /\ AnswerIsTrue(s) /\ IntentTypeOK
  BY DEF IntentInductive, AnswersAgree
<1>2. CASE txs[s].pc # "done"
  BY <1>1, <1>2 DEF AnswerIsTrue, IntentTypeOK
<1>3. CASE txs[s].pc = "done"
  <2>1. txs[s].command.key \in Keys /\ txs[s].command.address \in Addresses
    BY <1>1, <1>3 DEF IntentTypeOK, RequestCommand
  <2>2. ASSUME ops[txs[s].command.key] # None
        PROVE  ops'[txs[s].command.key] = ops[txs[s].command.key]
    BY <2>1, <2>2
  <2>3. ASSUME boxes[txs[s].command.address] # None
        PROVE  /\ boxes'[txs[s].command.address] = boxes[txs[s].command.address]
               /\ txs'[boxes[txs[s].command.address]].command
                    = txs[boxes[txs[s].command.address]].command
    BY <1>1, <2>1, <2>3 DEF IntentTypeOK
  <2>4. ASSUME txs[s].answer \in {"created", "replayed"}
        PROVE  ops[txs[s].command.key] # None
    <3>1. /\ txs[s].op \in Requests
          /\ ops[txs[s].command.key] = [by |-> txs[s].op, hash |-> RequestHash(txs[s].command)]
      BY <1>1, <2>4 DEF AnswerIsTrue, IntentTypeOK, Tx
    <3>2. ops[txs[s].command.key] \in Operation
      BY <1>1, <1>3, <3>1 DEF IntentTypeOK, Operation, RequestHash, RequestCommand
    <3> QED
      BY <3>2, IntentAssumption
  <2> QED
    BY <1>1, <2>2, <2>3, <2>4 DEF AnswerIsTrue, RequestHash
<1> QED
  BY <1>2, <1>3

-----------------------------------------------------------------------------
(* The inductive step.                                                     *)

\* BeginTx and the statements of r are quiet.
LEMMA StatementIsQuiet ==
  ASSUME IntentTypeOK, NEW r \in Requests,
         \/ \E command \in RequestCommand : BeginTx(r, command)
         \/ GetOperationByIdempotencyKey(r) \/ GetProvisionableDomain(r)
         \/ InsertOperation(r) \/ LookupAgain(r) \/ InsertMailbox(r)
         \/ InsertOutboxEvent(r) \/ Fail(r)
  PROVE  Quiet(r)
BY DEF IntentTypeOK, Quiet, BeginTx, GetOperationByIdempotencyKey, GetProvisionableDomain,
   InsertOperation, LookupAgain, InsertMailbox, InsertOutboxEvent, Fail, persistenceError,
   idempotentResult, Step, Answer

\* A row that is found is an operation.
LEMMA VisibleIsOperation ==
  ASSUME IntentTypeOK, NEW r \in Requests, txs[r].pc # "new", Visible(r) # None
  PROVE  /\ ops[txs[r].command.key] = [by |-> Visible(r).by, hash |-> Visible(r).hash]
         /\ Visible(r).by # None
BY IntentAssumption DEF IntentTypeOK, Visible, Operation, RequestCommand

\* What idempotentResult answers is true of the row it is given.
LEMMA ReplayIsTrue ==
  ASSUME IntentTypeOK, NEW r \in Requests, txs[r].pc # "new", Visible(r) # None,
         idempotentResult(r, Visible(r)), UNCHANGED ops
  PROVE  AnswerIsTrue(r)'
<1>1. /\ ops[txs[r].command.key] = [by |-> Visible(r).by, hash |-> Visible(r).hash]
      /\ Visible(r).by # None
  BY VisibleIsOperation
<1>2. CASE Visible(r).hash = RequestHash(txs[r].command)
  <2>1. /\ txs'[r].command = txs[r].command /\ txs'[r].answer = "replayed"
        /\ txs'[r].op = Visible(r).by
    BY <1>2 DEF idempotentResult, Answer, IntentTypeOK
  <2> QED
    BY <1>1, <1>2, <2>1 DEF AnswerIsTrue, RequestHash
<1>3. CASE Visible(r).hash # RequestHash(txs[r].command)
  <2>1. txs'[r].command = txs[r].command /\ txs'[r].answer = "IDEMPOTENCY_CONFLICT"
    BY <1>3 DEF idempotentResult, Answer, IntentTypeOK
  <2> QED
    BY <1>1, <1>3, <2>1 DEF AnswerIsTrue, RequestHash, Visible
<1> QED
  BY <1>2, <1>3

\* A step by which r is not answered makes none of its answers false.
LEMMA NoAnswerIsTrue ==
  ASSUME NEW r \in Requests,
         txs'[r].answer \in {"none", "DOMAIN_UNAVAILABLE", "PERSISTENCE_UNAVAILABLE", "canceled"}
  PROVE  AnswerIsTrue(r)'
BY DEF AnswerIsTrue

\* Every step keeps the inductive invariant; types are IntentTypeStep.
LEMMA IntentStep == IntentInductive /\ [IntentNext]_intentVars => IntentInductive'
<1> SUFFICES ASSUME IntentInductive, [IntentNext]_intentVars PROVE IntentInductive'
  OBVIOUS
<1> DEFINE Rest == OneHolder /\ IntentIsWhole /\ AnswersAgree /\ UnavailableMeansFault
<1>t. IntentTypeOK /\ IntentTypeOK'
  BY IntentTypeStep DEF IntentInductive
<1>i. OneHolder /\ IntentIsWhole /\ AnswersAgree /\ UnavailableMeansFault
  BY DEF IntentInductive
<1>q. ASSUME NEW r \in Requests, Quiet(r), OneHolder', AnswerIsTrue(r)',
             UnavailableMeansFault'
      PROVE  Rest'
  BY <1>t, <1>i, <1>q, QuietKeepsWhole, QuietKeepsAnswers
<1>c. ASSUME NEW r \in Requests, Committed(r), AnswerIsTrue(r)', UnavailableMeansFault'
      PROVE  Rest'
  BY <1>c, CommitKeepsHolders, CommitKeepsWhole, CommitKeepsAnswers
<1>f. ASSUME NEW r \in Requests, UNCHANGED faults,
             \A s \in Requests \ {r} : txs'[s] = txs[s],
             txs'[r].answer # "PERSISTENCE_UNAVAILABLE"
      PROVE  UnavailableMeansFault'
  BY <1>i, <1>f DEF UnavailableMeansFault
<1>1. ASSUME NEW r \in Requests, NEW command \in RequestCommand, BeginTx(r, command)
      PROVE  Rest'
  <2>1. Quiet(r)
    BY <1>1, <1>t, StatementIsQuiet
  <2>2. txs'[r].pc = "lookup" /\ txs'[r].answer = "none" /\ UNCHANGED faults
    BY <1>1, <1>t DEF BeginTx, IntentTypeOK
  <2>3. OneHolder'
    BY <1>t, <1>i, <2>1, <2>2, QuietKeepsHolders DEF HoldsKey, HoldsAddress
  <2> QED
    BY <1>q, <1>f, <2>1, <2>2, <2>3, NoAnswerIsTrue DEF Quiet
<1>2. ASSUME NEW r \in Requests, GetOperationByIdempotencyKey(r)
      PROVE  Rest'
  <2>1. Quiet(r)
    BY <1>2, <1>t, StatementIsQuiet
  <2>2. /\ txs'[r].pc \in {"domain", "done"} /\ txs'[r].answer # "PERSISTENCE_UNAVAILABLE"
        /\ UNCHANGED <<faults, ops>> /\ txs[r].pc = "lookup"
    BY <1>2, <1>t DEF GetOperationByIdempotencyKey, idempotentResult, Step, Answer, IntentTypeOK
  <2>3. OneHolder'
    BY <1>t, <1>i, <2>1, <2>2, QuietKeepsHolders DEF HoldsKey, HoldsAddress
  <2>4. AnswerIsTrue(r)'
    <3>1. CASE Visible(r) # None /\ idempotentResult(r, Visible(r))
      BY <1>t, <2>2, <3>1, ReplayIsTrue
    <3>2. CASE Step(r, "domain")
      <4>1. txs'[r].answer = "none"
        BY <1>t, <3>2 DEF Step, IntentTypeOK
      <4> QED
        BY <4>1, NoAnswerIsTrue
    <3> QED
      BY <1>2, <3>1, <3>2 DEF GetOperationByIdempotencyKey
  <2> QED
    BY <1>q, <1>f, <2>1, <2>2, <2>3, <2>4 DEF Quiet
<1>3. ASSUME NEW r \in Requests, GetProvisionableDomain(r)
      PROVE  Rest'
  <2>1. Quiet(r)
    BY <1>3, <1>t, StatementIsQuiet
  <2>2. /\ txs'[r].pc \in {"operation", "done"} /\ UNCHANGED faults
        /\ txs'[r].answer \in {"none", "DOMAIN_UNAVAILABLE"}
    BY <1>3, <1>t DEF GetProvisionableDomain, Step, Answer, IntentTypeOK
  <2>3. OneHolder'
    BY <1>t, <1>i, <2>1, <2>2, QuietKeepsHolders DEF HoldsKey, HoldsAddress
  <2> QED
    BY <1>q, <1>f, <2>1, <2>2, <2>3, NoAnswerIsTrue DEF Quiet
<1>4. ASSUME NEW r \in Requests, InsertOperation(r)
      PROVE  Rest'
  <2>1. Quiet(r)
    BY <1>4, <1>t, StatementIsQuiet
  <2>2. /\ txs'[r].pc = IF ops[txs[r].command.key] = None THEN "mailbox" ELSE "again"
        /\ txs'[r].command = txs[r].command
        /\ txs'[r].answer = "none" /\ UNCHANGED faults
    BY <1>4, <1>t DEF InsertOperation, Step, IntentTypeOK
  <2>3. OneHolder'
    <3>1. \A s \in Requests \ {r} : HoldsKey(s)' => txs'[s].command.key # txs'[r].command.key
      BY <1>4, <2>1, <2>2 DEF InsertOperation, Quiet, HoldsKey
    <3>2. ~HoldsAddress(r)'
      BY <2>2 DEF HoldsAddress
    <3>3. \A s \in Requests \ {r} : /\ HoldsKey(s)' <=> HoldsKey(s)
                                    /\ HoldsAddress(s)' <=> HoldsAddress(s)
                                    /\ txs'[s] = txs[s]
      BY <2>1 DEF Quiet, HoldsKey, HoldsAddress
    <3>4. HoldsKey(r)' => ops'[txs'[r].command.key] = None
      BY <2>1, <2>2 DEF Quiet, HoldsKey
    <3>5. txs'[r].pc = "again" => ops'[txs'[r].command.key] # None
      BY <2>1, <2>2 DEF Quiet
    <3> QED
      BY <1>i, <2>1, <3>1, <3>2, <3>3, <3>4, <3>5 DEF OneHolder, Quiet
  <2> QED
    BY <1>q, <1>f, <2>1, <2>2, <2>3, NoAnswerIsTrue DEF Quiet
<1>5. ASSUME NEW r \in Requests, LookupAgain(r)
      PROVE  Rest'
  <2>1. Quiet(r)
    BY <1>5, <1>t, StatementIsQuiet
  <2>2. Visible(r) # None /\ idempotentResult(r, Visible(r)) /\ UNCHANGED <<faults, ops>>
    BY <1>5, <1>i DEF LookupAgain, OneHolder, Visible
  <2>3. /\ txs'[r].pc = "done" /\ txs'[r].answer # "PERSISTENCE_UNAVAILABLE"
        /\ txs[r].pc = "again"
    BY <1>5, <1>t, <2>2 DEF LookupAgain, idempotentResult, Answer, IntentTypeOK
  <2>4. OneHolder'
    BY <1>t, <1>i, <2>1, <2>3, QuietKeepsHolders DEF HoldsKey, HoldsAddress
  <2>5. AnswerIsTrue(r)'
    BY <1>t, <2>2, <2>3, ReplayIsTrue
  <2> QED
    BY <1>q, <1>f, <2>1, <2>2, <2>3, <2>4, <2>5 DEF Quiet
<1>6. ASSUME NEW r \in Requests, InsertMailbox(r)
      PROVE  Rest'
  <2>1. Quiet(r)
    BY <1>6, <1>t, StatementIsQuiet
  <2>2. /\ txs[r].pc = "mailbox" /\ UNCHANGED faults
        /\ txs'[r].command = txs[r].command
        /\ \/ /\ boxes[txs[r].command.address] = None
              /\ txs'[r].pc = "event" /\ txs'[r].answer = "none"
           \/ /\ boxes[txs[r].command.address] # None
              /\ txs'[r].pc = "done" /\ txs'[r].answer = "MAILBOX_ALREADY_EXISTS"
    BY <1>6, <1>t DEF InsertMailbox, Step, Answer, IntentTypeOK
  <2>3. OneHolder'
    <3>1. \A s \in Requests \ {r} :
            HoldsAddress(s)' => txs'[s].command.address # txs'[r].command.address
      BY <1>6, <2>1, <2>2 DEF InsertMailbox, Quiet, HoldsAddress
    <3>2. HoldsKey(r)' => HoldsKey(r)
      BY <2>2 DEF HoldsKey
    <3>3. \A s \in Requests \ {r} : /\ HoldsKey(s)' <=> HoldsKey(s)
                                    /\ HoldsAddress(s)' <=> HoldsAddress(s)
                                    /\ txs'[s] = txs[s]
      BY <2>1 DEF Quiet, HoldsKey, HoldsAddress
    <3>4. HoldsAddress(r)' => boxes'[txs'[r].command.address] = None
      BY <2>1, <2>2 DEF Quiet, HoldsAddress
    <3>5. txs'[r].pc # "again"
      BY <2>2
    <3> QED
      BY <1>i, <2>1, <2>2, <3>1, <3>2, <3>3, <3>4, <3>5 DEF OneHolder, Quiet
  <2>4. AnswerIsTrue(r)'
    <3> DEFINE a == txs[r].command.address
               k == txs[r].command.key
    <3>1. CASE txs'[r].answer = "MAILBOX_ALREADY_EXISTS"
      <4>1. boxes[a] # None /\ a \in Addresses /\ ops[k] = None
        BY <1>t, <1>i, <2>2, <3>1 DEF IntentTypeOK, RequestCommand, OneHolder, HoldsKey
      <4>2. boxes[a] \in events /\ boxes[a] \in Requests
        BY <1>t, <1>i, <4>1 DEF IntentTypeOK, IntentIsWhole
      <4>3. ops[txs[boxes[a]].command.key] # None /\ txs[boxes[a]].pc = "done"
        BY <1>i, <4>2 DEF IntentIsWhole
      <4>4. txs'[boxes[a]] = txs[boxes[a]]
        BY <2>1, <2>2, <4>2, <4>3 DEF Quiet
      <4> QED
        BY <2>1, <2>2, <3>1, <4>1, <4>3, <4>4 DEF AnswerIsTrue, Quiet
    <3>2. CASE txs'[r].answer = "none"
      BY <3>2, NoAnswerIsTrue
    <3> QED
      BY <2>2, <3>1, <3>2
  <2> QED
    BY <1>q, <1>f, <2>1, <2>2, <2>3, <2>4 DEF Quiet
<1>7. ASSUME NEW r \in Requests, InsertOutboxEvent(r)
      PROVE  Rest'
  <2>1. Quiet(r)
    BY <1>7, <1>t, StatementIsQuiet
  <2>2. /\ txs[r].pc = "event" /\ txs'[r].pc = "commit" /\ txs'[r].answer = "none"
        /\ txs'[r].command = txs[r].command /\ UNCHANGED faults
    BY <1>7, <1>t DEF InsertOutboxEvent, Step, IntentTypeOK
  <2>3. OneHolder'
    BY <1>t, <1>i, <2>1, <2>2, QuietKeepsHolders DEF HoldsKey, HoldsAddress
  <2> QED
    BY <1>q, <1>f, <2>1, <2>2, <2>3, NoAnswerIsTrue DEF Quiet
<1>8. ASSUME NEW r \in Requests, Commit(r)
      PROVE  Rest'
  <2>1. Committed(r)
    BY <1>8, CommitCommits DEF Commit
  <2>2. /\ txs'[r].answer = "created" /\ txs'[r].op = r /\ UNCHANGED faults
        /\ txs'[r].command = txs[r].command
    BY <1>8, <1>t DEF Commit, Answer, IntentTypeOK
  <2>3. AnswerIsTrue(r)'
    BY <2>1, <2>2, IntentAssumption DEF AnswerIsTrue, Committed
  <2> QED
    BY <1>c, <1>f, <2>1, <2>2, <2>3 DEF Committed
<1>9. ASSUME NEW r \in Requests, CommitUnconfirmed(r)
      PROVE  Rest'
  <2>1. PICK answer \in {"PERSISTENCE_UNAVAILABLE", "canceled"} : Answer(r, answer, None)
    BY <1>9 DEF CommitUnconfirmed, persistenceError
  <2>2. Committed(r)
    BY <1>9, <2>1, CommitCommits DEF CommitUnconfirmed
  <2>3. txs'[r].answer = answer /\ faults' = faults \cup {r}
    BY <1>9, <1>t, <2>1 DEF CommitUnconfirmed, persistenceError, Answer, IntentTypeOK
  <2>4. UnavailableMeansFault'
    BY <1>i, <2>2, <2>3 DEF UnavailableMeansFault, Committed
  <2> QED
    BY <1>c, <2>2, <2>3, <2>4, NoAnswerIsTrue
<1>10. ASSUME NEW r \in Requests, Fail(r)
      PROVE  Rest'
  <2>1. Quiet(r)
    BY <1>10, <1>t, StatementIsQuiet
  <2>2. /\ txs'[r].pc = "done" /\ txs'[r].answer \in {"PERSISTENCE_UNAVAILABLE", "canceled"}
        /\ faults' = faults \cup {r}
    BY <1>10, <1>t DEF Fail, persistenceError, Answer, IntentTypeOK
  <2>3. OneHolder'
    BY <1>t, <1>i, <2>1, <2>2, QuietKeepsHolders DEF HoldsKey, HoldsAddress
  <2>4. UnavailableMeansFault'
    BY <1>i, <2>1, <2>2 DEF UnavailableMeansFault, Quiet
  <2> QED
    BY <1>q, <2>1, <2>2, <2>3, <2>4, NoAnswerIsTrue
<1>11. ASSUME UNCHANGED <<ops, boxes, events, txs, faults>>
      PROVE  Rest'
  BY <1>i, <1>11 DEF OneHolder, HoldsKey, HoldsAddress, IntentIsWhole, AnswersAgree,
     AnswerIsTrue, UnavailableMeansFault, RequestHash
<1>12. Rest'
  <2>1. CASE \E status \in {"active", "suspended"} : SetDomain(status)
    BY <1>11, <2>1 DEF SetDomain
  <2>2. CASE UNCHANGED intentVars
    BY <1>11, <2>2 DEF intentVars
  <2> HIDE DEF Rest
  <2> QED
    BY <1>1, <1>2, <1>3, <1>4, <1>5, <1>6, <1>7, <1>8, <1>9, <1>10, <2>1, <2>2
       DEF IntentNext, RequestStep
<1> QED
  BY <1>t, <1>12 DEF IntentInductive

-----------------------------------------------------------------------------
(* Theorems.                                                               *)

\* Tables and requests keep their types.
THEOREM IntentTypeCorrect == IntentSpec => []IntentTypeOK
<1>1. IntentInit => IntentTypeOK
  BY IntentInitial DEF IntentInductive
<1> QED
  BY <1>1, IntentTypeStep, PTL DEF IntentSpec

\* However many requests run at once, the inductive invariant holds.
THEOREM IntentInductiveHolds == IntentSpec => []IntentInductive
BY IntentInitial, IntentStep, PTL DEF IntentSpec

\* Open transactions never hold the same unique key.
THEOREM HoldersAreAlone == IntentSpec => []OneHolder
<1>1. IntentInductive => OneHolder
  BY DEF IntentInductive
<1> QED
  BY <1>1, IntentInductiveHolds, PTL

\* An operation is committed with its mailbox and its wake-up or not at all.
THEOREM IntentsAreWhole == IntentSpec => []IntentIsWhole
<1>1. IntentInductive => IntentIsWhole
  BY DEF IntentInductive
<1> QED
  BY <1>1, IntentInductiveHolds, PTL

\* Requests with one idempotency key get one operation, and no answer of
\* RequestMailbox is ever made false by another request.
THEOREM AnswersStayTrue == IntentSpec => []AnswersAgree
<1>1. IntentInductive => AnswersAgree
  BY DEF IntentInductive
<1> QED
  BY <1>1, IntentInductiveHolds, PTL

\* The second lookup always finds the row that won the race.
THEOREM RaceIsNoFailure == IntentSpec => []UnavailableMeansFault
<1>1. IntentInductive => UnavailableMeansFault
  BY DEF IntentInductive
<1> QED
  BY <1>1, IntentInductiveHolds, PTL
=============================================================================
