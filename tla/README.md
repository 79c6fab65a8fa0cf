# mail-suite in TLA+

A verification development for the control plane of mail-suite: TLA+ modules
that model its parts, TLC runs that check them on small instances, and theorems
about them whose proofs TLAPS checks. `PROJECT.json` lists components, runs,
mutants, the source lines behind every definition, hazards and theorems.

## The system

mail-suite keeps the wanted state of mailboxes in PostgreSQL and makes a mail
server (Stalwart, over JMAP) follow it.

| part | state | operations |
|---|---|---|
| provisioning requests (`internal/provisioning`, `provisioning_repository.go`) | mailboxes, operations, outbox_events | RequestMailbox: one transaction, idempotent per tenant and key |
| operation ledger (`query/provisioning.sql`) | operations, operation_attempts, mailboxes, outbox_events | Finalize, Claim, Resolve |
| operation service and runner (`internal/operation`) | one attempt at a time, in memory | poll, ClaimNext, Execute (inspect, ensure, verify), receipt |
| Stalwart adapter (`internal/mailcore/stalwart`) | none of its own; accounts on the server | EnsureMailbox, InspectMailbox, reading mail |
| identity (`internal/identity`, `identity_repository.go`, `query/identity.sql`) | auth_flows, user_sessions, principals, permissions, audit | StartLogin, CompleteLogin, RejectLogin, ResolveSession, Logout, back-channel revocation |
| authorization (`internal/authorization`) | none | decisions on portal and mailbox access |
| process life cycle (`internal/platform`) | stopping flag, running goroutines | serve, probe, shut down |
| test fixture bootstrap (`internal/identity/testbootstrap`) | fixture rows | Apply, Remove |
| web session client (`src/web`) | query cache | load session, expire, log out |
| migrator, deployment | schema version, hosts | not modelled |

How they interact. A request commits the wanted mailbox, an operation and a
wake-up in one transaction. Worker processes poll: they finalize what cannot be
tried any more, claim an operation with a lease (owner, epoch, expiry) and an
attempt row, call the adapter under deadlines that end before the lease does,
and send a receipt that the ledger takes only from the attempt that holds the
live lease. The adapter talks to a server it does not control; an error class
(retryable, permanent, unknown) carries to the worker what it may conclude.
API processes share the database with the workers and keep nothing in memory.

What is hard. Receipts late or repeated; takeover of an expired lease while the
old owner still runs; a mailbox revised under a running attempt; requests that
are carried out after their caller has given up; answers lost or malformed;
processes that die between any two statements; the boundaries of deadlines and
attempt budgets; and, on the identity side, two-statement reads racing with
revocation, one-time flows used twice and sliding expiries. `PROJECT.json`
lists each at its line.

What makes each part correct:

- ledger: attempts, leases and rows agree; tokens are unique; outcomes are final; success rests on evidence;
- worker: calls stay inside the lease; unknown outcomes are inspected; every operation is ended;
- adapter: an error class is true of the server; foreign accounts stay untouched; calls return;
- requests: one key, one operation; no operation without its mailbox;
- sessions: one flow, one session; no revoked or expired session is ever resolved or revived; everything is audited;
- reading mail: a page belongs to the pages before it; mail is read only from the mailbox that the request is for;
- life cycle: readiness goes first; what is waited for ends; a clean exit breaks nothing off;
- fixture: Apply and Remove are whole or have no effect, and report what they have seen.

## Modules

| module | what it is | models |
|---|---|---|
| `OperationLifecycle` | abstract specification: submit, grant with the next token, release, decide once | what users of the ledger rely on |
| `MailCore` | commands, observations, error classes | `mailcore.go` |
| `OperationLedger` | the tables and the SQL statements | `provisioning.sql`, the migrations, `provisioning_repository.go` |
| `OperationLedgerProofs` | theorems about the ledger | |
| `ProvisioningIntent` | RequestMailbox statement by statement, requests running concurrently | `provisioning.go`, `provisioning_repository.go` |
| `ProvisioningIntentProofs` | theorems about it | |
| `StalwartAdapter` | EnsureMailbox and InspectMailbox against server and network | `stalwart/adapter.go` |
| `StalwartAdapterProofs` | theorems about it | |
| `MailboxWorker` | composes the ledger and the adapter with the worker processes | `operation.go`, `runner.go`, the Go side of Claim and Resolve |
| `MailboxWorkerProofs` | theorems about the composition, from those about its parts | |
| `Authorization` | the decision on a protected request, as operators | `authorization.go`, `boundary.go` |
| `AuthSession` | login, session and logout as concurrent requests; uses `Authorization` | `identity/service.go`, `httpapi/handler.go`, `oidcclient/client.go`, `identity_repository.go`, `identity.sql.go` |
| `AuthSessionProofs` | theorems about it | |
| `MessageReader` | ListMessages and GetMessage against a mailbox that changes | `read_adapter.go`, `read_tokens.go`, `read.go` |
| `MessageReaderProofs` | theorems about it | |
| `ServiceLifecycle` | start, service and stop of a process | `lifecycle.go`, `service.go`, `probe.go`, the loop of `runner.go` |
| `ServiceLifecycleProofs` | theorems about it | |
| `TestBootstrap` | Apply and Remove among other writers | `testbootstrap/service.go` |
| `TestBootstrapProofs` | theorems about it | |
| `MC*` | the small instances that the runs check; symmetry where it is sound | |

**OperationLedger.** A row of `operations` is spread over functions of the
operation (`intents`, `status`, `attempt_count`, `next_left`, `lease`,
`observed`); `claims` and `results` are `operation_attempts` by attempt number,
`mailboxes` and `shown` the wanted and the observed columns of `mailboxes`.
Each statement is one data-modifying CTE that locks the operation and mailbox
rows it changes (`FOR UPDATE`, with `SKIP LOCKED` when it looks for work), so it
is one action. `ORDER BY` and `SKIP LOCKED` become a free choice among the
candidates. Times are kept as what is left of them: statements compare them
with `statement_timestamp()` and nothing else. A receipt may come at any time
for any claim ever made and with any contents the adapter can observe, so the
ledger's properties do not rest on the worker. `ReviseMailbox` is external: no
code of the repository revises a mailbox yet, but the statements, the schema
comments and the integration tests are written for it
(`provisioning_repository_integration_test.go`); every wanted status other than
active behaves alike and is called suspended. Suspended observations, which the
repository would accept but the adapter never makes, are left out.

**ProvisioningIntent.** In the ledger, RequestMailbox is the transaction that
commits. Here it is what leads there: every statement is an action, `pc` is the
line `RequestMailbox` is at, and the rows an open transaction has inserted
follow from `pc`. Committed rows are seen by every later statement (READ
COMMITTED); uncommitted ones only hold their unique keys, and an INSERT that
meets one waits (PostgreSQL, external). Any statement may fail or be cancelled
(`Fail`), and a commit may succeed without its confirmation reaching the process
(`CommitUnconfirmed`). A retry is another request with the same key. Local part
and display name are what `prepareRequest` made of them; the fingerprint is the
pair of both, which assumes that SHA-256 does not collide.

**StalwartAdapter.** A call is a state machine: lookup (session, domain and
account are read; the account counts when it is read), one `x:Account/set`,
perhaps a second lookup after a refused create. Requests live in a set: the
server may carry one out at any time, or never, after its caller has gone.
Receiving covers an answer that is understood, has the wrong shape, or is
hidden by transport, status or body. External assumptions: addresses are
unique, an update replaces the description whatever it was, and a request
answered by an error status, a method error or a per-object refusal was not
carried out; accounts and domains are not deleted. The metadata in the
description is modelled by what parseMetadata gives back: revision and hash of
this mailbox, or foreign.

**MailboxWorker.** A step of a worker is a statement, a request or a local
decision. `ClaimNext` is two steps because Go issues two autocommitted
statements. `left` is what remains of the current context deadline; the adapter's
ends `LeaseSafetyMargin` earlier. A failed inspection is unknown whatever its
class, as in `Execute`. A process that dies or leaves `Run` with an error is
started again (`restart: unless-stopped` in `deploy/server/compose.yaml`).
Worker and database share one clock.

**AuthSession.** A request is a record in `calls`: `pc` is the statement or
provider call that comes next, `at` what `service.now()` returned when the request
began. That reading is used in all later statements, however late they run, as
in the code. Every statement may fail, and a statement that fails may have been
committed. Lookups of the session, protected requests and logouts begin with the
same `ResolveSession`; which of them a request is, is decided when it has its
session, so one action stands for the three. Secrets, digests and cookies are
the flow or the session they stand for; a request can only present what was
handed to a browser, or none, or (flow cookies) another's. The provider's answer
is any subject, with or without MFA, or one of the two errors that
`normalizeProviderError` leaves. Principals are suspended and reactivated,
permissions taken and given (external), once something depends on them
(`Involved`). `watch` and `answer` are history: what was true of the session
while the request ran, and what the request was told.

**Authorization.** A request is reduced to which of its checks pass. `Protect`
gives the code of the first check that fails, in the order of the code: account
type, administrator's permission, then declared length, origin and CSRF token,
content type and idempotency key, and the body itself. `AuthSession` applies it
to every request at every moment, with the permissions that the second
statement of `ResolveSession` has read.

**MessageReader.** A read is a sequence of HTTP requests: lookup of the account
as the administrator (one step: the description is what counts, when it is
read), session as the mailbox, `Email/query`, `Email/get`. Between any two the
mail, the revision and the owner of the account may change. Credentials are
derived from mailbox and revision (`mailboxPassword`), so the server lets a
request in only while the account is of the request's scope: this, and not the
check before, is what closes the race. JMAP ids are small names that recur in other
accounts. Sealed tokens are records that cannot be forged but can be brought
back at any time and with any scope; the client keeps one of those it was given.
Reads share nothing but such tokens, so one read at a time is enough. An account
that is deleted and set up again for the same mailbox and revision keeps its
mail and its ids here. Text parts are their sizes: `appendPart` is one round of
the loop of `GetMessage`. The text depends on nothing but the parts, so what it
keeps of its limit (`TextWithinOneByte`) and what it does not
(`TextAsDocumented`) are not invariants but facts about `textOf`: theorems for
every body, and the assumption `TextOfBodies` that the run evaluates for the
bodies of two parts around the limit.

**ServiceLifecycle.** `phase` is where `run` and `Serve` are. The server's
goroutine, the runners, the requests, the signal and the deadline are separate.
The worker has one runner, the api none; the runs take up to two, as `Serve`
accepts any number. A runner's attempt is finished although its context is
cancelled (`WithoutCancel`); a claim or a wait is not. A runner that returns nil
has not always stored a receipt, so `attempt` is history: it is `late` when the
attempt outlived its own deadline (`Run` returns nil for that while it is being
stopped), `unheard` when a cancelled claim may have been committed, and `held`
while an attempt is neither settled nor given up. `Serve` would ignore a runner's
`context.Canceled`; `Runner.Run` never returns it. `beginShutdown` and
`cancelRun` are one step. The listener, accepted requests and `Shutdown`'s wait
are `net/http`, the wait for connections in `pool.Close` is pgx, both external.

**TestBootstrap.** One SQL statement per action; rows that are treated alike
are one row: the two mailboxes, the four principals, the audit events of the
principals, their sessions, the attempts. The two permissions of the fixture are
two rows, and a third is one that the fixture does not have, because
`deleteFixture` deletes all permissions of the principals and compares only
their number with 2 (`AsExpected`). A natural key may belong to a row with
another id (`taken`): for domain and principal that row may be anywhere, for
mailbox, operation and outbox event it lies in the fixture's tenant (`Scoped`),
so it keeps that tenant alive and counts as extra data. A transaction's own
changes are in `own`; whoever needs a row that another transaction has written
waits. The product may add audit events, sessions and attempts, operators may
change, add and delete rows at any time as far as foreign keys allow (external,
`MaxDisturbances`). `held` is history: what the transaction could have seen to be
right at some moment.

## Runs

| run | instance | shows |
|---|---|---|
| `ledger` | 2 operations, 1 mailbox, 2 owners, 2 attempts, lease 2, delay 1, revision up to 2 | the invariants and action properties below; implements `OperationLifecycle` |
| `adapter` | 2 callers, 2 hashes, revisions up to 2, one request per caller on its way | error classes and successes are true; calls return |
| `worker` | 2 operations, 2 workers, 2 attempts, lease 2, attempt 1, margin 1 | leases cover calls; nothing given up early or made up |
| `worker_live` | 2 operations, 1 worker, 1 crash | implements the ledger; attempts end; operations end |
| `intent` | 3 requests, 2 keys, 2 addresses, 1 name | intents are whole, answers stay true, nobody waits for ever |
| `session` | 2 requests at a time, 1 flow, room for 2 sessions, a mailbox principal and an administrator, clock to 3, idle 2, absolute 3, touch 1 | answers are true, logout is final, nothing comes back, everything is audited |
| `reader` | 2 mailboxes, 3 ids, revisions to 2, 2 changes, page size and page limit 2, text limit 2 | pages are one result; mail is theirs; what the text keeps of its limit |
| `lifecycle` | up to 2 runners, 2 requests | orderly stop; the process exits |
| `bootstrap` | 2 tools, 2 disturbances | reports have their ground; runs are whole |
| `superseded_stays_behind` | 3 operations, 2 workers, 1 attempt, revision up to 3 | violated, see findings |
| `logout_revokes` | as `session`, 1 request and 1 session | violated, see findings |
| `removes_only_its_own` | 1 tool, 1 disturbance | violated, see findings |

Bounds. One mailbox is enough: no statement relates two. Two operations on it
give a superseded and a superseding one. Two attempts give a first, a retried
and an exhausted one; two owners a takeover; a lease of two ticks a moment that
is inside the lease and outside the adapter's deadline. `MaxRevision`,
`MaxCalls` (calls of one worker of which a request may still be on its way) and
`MaxCrashes` bound the environment. With `MaxCalls` 1, a caller that has given up
on a request calls again only when that request is settled, and the other
caller, or worker, plays the later call that overtakes it. For an update to be
overtaken the account has to exist before, so `superseded_stays_behind` has three
operations: one that creates it, one that is superseded and one that supersedes.
In `intent`, a third request comes while two race and after they have
ended; two keys and two addresses give requests that share both, one or none,
and two addresses two fingerprints for one key. In `session`, two requests at a time are every pair
of statements that can meet, and later requests follow in the slots that become
free; one flow is enough, because statements relate a flow to nothing but its
own callback, and room for two sessions is what a flow used twice would need;
logins begin at time 0 (`LoginUntil`) and the clock goes on past the idle and the
absolute expiry. In `reader`, a result of up to three messages has pages before,
at and after `maximumPagePosition`, two changes fall between and within reads,
and one tick makes a token expire. `bootstrap` has two disturbances because one
can hide another (a row that drifts and is repaired, a permission that is
revoked and another one granted). Symmetry is used over ids that are only
compared, and never in a run with a liveness property. The `worker` run lets
crashes out, which `worker_live` has: an idle worker whose lease is still
running is also what a late receipt leaves. The proofs remove the bounds for the
ledger and for `intent`.

Fairness. `AdapterFairSpec`: a call keeps moving, since its deadline ends every
request; nothing is assumed of the server. `FairSpec`: each worker runs its loop
(`Run` does not stop, or the process is restarted) and time passes. Nobody has
to send requests, answer them or deliver receipts in time. `IntentFairSpec`: the
database executes a statement it is given once nothing it waits for is held;
commands come and errors happen as they like. `LifeSpec`: the process is
scheduled and its deadline comes; `Serve` of a closed listener returns; a runner
ends what it is doing, since attempts and claims have deadlines; the handler of a
request whose connection was closed notices it, as its context is cancelled.
Requests that are not cut off may hang for ever, runners need not fail, and a
signal need not come.

Deadlock is checked in every run but `lifecycle`, where the process exits. Time can always pass, and in `intent` a domain
be suspended, so waiting for ever is the business of the liveness properties.

What the properties say:

- `AttemptMatchesLease`, `EpochIsAttemptNumber`: the audit trail has no gap, at
  most one open attempt, and each token belongs to one attempt.
- `ActiveHasEvidence`, `NewestIsNotSuperseded`, `WakeupDeliveredOnce`: the
  mailbox, the operations and the wake-ups tell one story.
- `HistoryIsAppendOnly`, `LiveLeaseIsExclusive`: what no statement may do.
- `OneHolder`, `IntentIsWhole`, `AnswersAgree`, `UnavailableMeansFault`,
  `EveryRequestIsAnswered`: one key, one operation, with its mailbox and its
  wake-up; retries after any failure find it; a lost race is no error, and the
  transactions' waiting has no cycle.
- `RetryableMeansNoEffect`, `OkMeansReached`, `ForeignAccountUntouched`,
  `EnsureReturns`: what callers of the adapter rely on.
- `LeaseCoversCalls`: two workers never call for one unfinished operation, and a
  margin is left for the receipt.
- `DeadMeansExhausted`, `SucceededWasStored`: end results mean what they say.
- `ImplementsLedger`, `AttemptEnds`, `EventuallyFinished`: the worker keeps to
  the ledger's rules and gets things done. An operation whose mailbox is no
  longer wanted active is excepted: no statement claims it, and none finalizes
  it before its attempts are used up.

- `AuthTypeOK`, `SessionsAreEarned`, `NothingComesBack`: sliding and absolute
  expiry keep their constraints under touches in any order; one callback in time,
  with MFA where it is wanted, gives one session; used flows and revoked sessions
  stay so, with their first reason.
- `AnswersWereTrue`, `LogoutIsFinal`: the two or three statements of
  `ResolveSession` answer as one read at some moment of the request would; at the
  moment a logout is confirmed its session is accepted nowhere. That it is revoked
  for good is `LogoutRevokes`, which does not hold.
- `AuditTrail`: sessions and audit events agree also when a commit's confirmation
  is lost; a refused login is on record.
- `PagesAreOneResult`, `MailIsTheirs`: chained pages are a prefix of one state
  of the mailbox, without gap or repetition, and complete when there is no
  further cursor; no read crosses mailboxes or revisions.
- `StopIsOrderly`, `ProcessExits`: a clean exit has served every request it had
  accepted and broken off no attempt (one without a receipt has outlived its own
  deadline, or the answer to its claim never arrived; the ledger's lease settles
  both), an error has a cause, and the process always exits once it should.
- `BootTypeOK`, `ReportsAreGrounded`, `RunsAreWhole`: one run at a time; success
  is reported only if each row matched at some moment of the transaction, drift
  only if someone else touched the fixture; nothing is done by halves, and nothing
  of others' is deleted but at most a permission in the place of one of the
  fixture's.

### What the models show besides

Behaviour that no comment or document denies, but that a maintainer should know:

- A callback that is answered 503 may have stored a session (the commit's
  confirmation was lost); its token was never handed out. When
  `CreateSessionWithAudit` fails, the failure itself is not audited, and neither
  is a callback without a flow cookie.
- Two touches with readings of the clock in the other order than their
  statements may move `last_seen_at` and the idle expiry back by the difference.
- A page that would pass `maximumPagePosition` ends in CURSOR_INVALID and never
  silently.
- `principal_permissions` has no foreign key: a permission granted after its
  `DELETE` outlives its principal and makes later runs report drift.
- A runner that is being stopped returns nil also when its attempt has outlived
  its deadline without a receipt, or when its claim was committed but not
  confirmed: a clean exit may leave a running operation, which the next process
  takes over when the lease has expired.
- `pool.Close` has no deadline: the process exits because what `Serve` has given
  up on ends by its own deadline or by its closed connection.

### Findings

Comments and documents of the repository that say more than the code does. Four
are refuted by a run, two by a theorem; `PROJECT.json` quotes the lines.

- Run `superseded_stays_behind`: `ensureExistingAccount` promises to move the
  revision only forward, but compares what it read earlier and updates without a
  condition.
- The same run: a superseded operation is said to have no side effects any more,
  but it may be superseded while its worker calls, and its request can still take
  effect, here over the newer revision.
- Theorem `PermanentAfterEffect`: a set that was carried out and answered in an
  unexpected shape is `permanent`, and the operation ends failed without an
  inspection, although the class is documented as a definite failure.
- Run `logout_revokes`: a logout while the principal is suspended, or an
  administrator without its permission, answers 200 and neither revokes nor
  audits, and the session is accepted again after a reactivation. The API contract
  says that the session is revoked or did not exist, and the schema that suspension
  revokes the sessions; suspension only keeps them from being resolved.
- Run `removes_only_its_own`: field drift is said to prevent a removal, but what
  drifts between verification and `DELETE` is deleted, and a permission is deleted
  that has taken the place of one of the fixture's, since only rows are counted.
- Theorem `TextNotAsDocumented`: a text may be one byte longer than
  `maximumTextBytes` (the line break before a part that no longer fits), and a body
  of exactly the limit with an empty last part is marked as truncated.

## Proofs

`OperationLedgerProofs` proves for all constants that satisfy
`LedgerAssumption` (positive attempts, lease, delay and revision bound; NULL is
not an id) and `NullAssumption` (NULL is not a row):

- `LedgerTypeCorrect`;
- `LedgerInductiveHolds` and from it `AttemptsAreMatched`, `EpochsAreUnique`,
  `ActiveRestsOnEvidence`, `NewestSurvives`, `WakeupsAreDeliveredOnce`;
- the action properties `HistoryOnlyGrows` and `LiveLeaseHolds`;
- the refinement `LedgerImplementsLifecycle`.

The inductive invariant `LedgerInductive` is the conjunction of the six state
invariants. None but the type invariant is inductive alone: that a claim closes
the old attempt needs epoch and attempt to agree (`CloseAttempt` selects by
epoch); that the next attempt number is free needs the numbering without gaps;
that evidence survives a revision needs every operation to be no newer than its
mailbox; that the wake-up is pending exactly with its operation needs a pending
operation to have no attempts. The proof goes action by action, one lemma per
invariant. The refinement maps the waiting statuses to one phase, the epoch to
the token and a terminal status to the outcome; a claim is a grant because the
epoch is the attempt number, which the claim bounds by `MaxAttempts`.

`ProvisioningIntentProofs` proves for all constants that satisfy
`IntentAssumption` (None is neither a request nor a row) `IntentTypeCorrect`,
and from `IntentInductiveHolds` the theorems `HoldersAreAlone`,
`IntentsAreWhole`, `AnswersStayTrue` and `RaceIsNoFailure`. `IntentInductive` is
the conjunction of the five state invariants: an answer stays true because a
commit only writes rows that are not there, which `OneHolder` says; that the
address in MAILBOX_ALREADY_EXISTS is another key's follows from the whole intent
behind it and from the key that the request itself holds. Steps are of two
kinds, statements that change no committed row (`Quiet`) and commits
(`Committed`), and each invariant has one lemma per kind.

`AuthSessionProofs` proves for all constants that satisfy `AuthAssumption`
(positive lifetimes, the touch interval at most the idle and the idle at most
the absolute lifetime; None is no row's name) and `NoneAssumption` (None is not
a row of `user_sessions`) the theorems `AuthTypeCorrect`, `SessionsEarned` and
the action property `NothingReturns`. `SessionsAreEarned` is not inductive: that
the session a callback creates is the only one of its flow rests on what the
callback did several statements earlier. `AuthInductive` adds that a request
between `ConsumeAuthFlow` and `CreateSessionWithAudit` owns its flow: the flow is
used up, had not expired at the request's time, no other request owns it
(`OneOwner`) and no session was made of it; that whoever is about to create a
session has passed `Admitted`; and that a request's session exists and is not
younger than its reading of the clock, without which a touch could set an idle
expiry before the session's creation. Whoever consumes a flow found it open, so
nobody owned it; whoever creates a session gives its flow up in the same step.
All other steps leave rows as they are in what matters (`Kept`), add no session
(`NoneAdded`) and let no request gain a flow (`Steady`); one lemma covers them.

What requests are told is a second invariant on top of it, `AnswerInductive`:
`AnswersTrue`, `LogoutFinal` and `AuditComplete` follow. A request past
`GetActiveSession` has seen its session valid, one that is turned away has seen
it invalid (`Remembers`), and a confirmed logout comes from a step that has
just seen its session gone or has revoked it; each session row agrees with its audit events
(`OnRecord`), because row and event are committed by one statement.

`StalwartAdapterProofs` proves for all constants that satisfy
`AdapterAssumption` and `NoCommandAssumption` (positive bounds; None is no name
and no command) `AdapterTypeCorrect`, `RetryableIsSafe`, `OkIsReached` and the
action property `ForeignIsSafe`. `RetryableMeansNoEffect` speaks of requests
that may be carried out long after they were sent, so `AdapterInductive` has to
say where a call's request can be (`CallOK`): before an answer the caller knows
of nothing that was carried out, after one nothing of the call is on its way,
and a request that is on its way agrees with its call. That success was reached
needs that an account of ours was stored as it is (`AccountsWereStored`); that
foreign accounts are safe needs that an update is only ever on its way to an
account of ours (`UpdatesAreOurs`), which holds because accounts do not change
hands back. `PermanentAfterEffect` is the opposite kind of theorem: from every
state in which a carried-out set is awaited there is a step of `Receive` to a
state that breaks `PermanentMeansNoEffect`.

`MailboxWorkerProofs` proves for all constants that satisfy the assumptions of
ledger and adapter, `newServiceAssumption` (the checks of `newService`: an
attempt and the safety margin fit into the lease) and `NoReceiptAssumption`
(None is no receipt) `WorkerTypeCorrect`, `LeaseCovers`, `DeadIsExhausted`,
`SucceededIsStored` and the refinement `WorkersImplementLedger`.
`WorkerInductive` takes over `LedgerInductive` and `AdapterInductive` as they
are: each step of the composition is a step, or none, of either part, so their
own proofs apply. What it adds is about a process: the claim it holds is a row
with its name (`ClaimIsOurs`), its lease lasts as long as its deadline or the
operation was superseded (`LeaseStands`), and its receipt is true
(`ReceiptIsTrue`). `LeaseCoversCalls` follows by arithmetic. Every theorem about
the ledger holds of the composition by the refinement. The range of `retryDelay`
(`RetryDelayBounded`), for any number of attempts, is shown by a least
counterexample instead of an induction.

`ServiceLifecycleProofs` proves, for any sets of runners and requests
(`RunnersAssumption`: the server is not one of the runners), `OrderlyStop`.
`LifeInductive` says for every phase of `Serve` what the listener and the probes
show (`InOrder`), that results were received only from goroutines that are over
(`Ended`), that as long as there is no error everything that is over went well
(`NoError`), and that an error has a cause (`ErrorHasCause`). That no attempt is
broken off needs in addition that a runner which has returned nil holds none.

`MessageReaderProofs` proves for all constants that satisfy `ReaderAssumption`
and `NoScopeAssumption` (positive limits; None is no name and no scope)
`PagesChain`, `MailTheirs`, `TextIsWithinOneByte` and `TextNotAsDocumented`. `ReadInductive` says that
what a cursor and a read know is a `Piece`, the beginning of what the mailbox
held at a query state, and that once a read has its ids they continue that piece
(`NextIds`). The history of a mailbox only grows, so a piece stays one.
`TextIsWithinOneByte` is about `GetMessage`'s loop over the parts, for bodies of
any number and size of parts, again by least counterexample;
`TextNotAsDocumented` gives the two bodies that break the documented limit,
whatever it is.

`TestBootstrapProofs` proves, for any set of concurrent runs and any number of
disturbances (`BootstrapAssumption`), `BootTypeCorrect`, `ReportsGrounded` and
the action property `RunsWhole`. `BootInductive` says of each run: its phase and its
own rows belong together (`ToolShape`, `OwnShape`; after the `DELETE` of the
permissions both of the fixture's are gone, or one of others' is: `Revoked`); what
it sees has no dangling
references, it has inserted only missing rows, and nothing is left that refers
to a row it has deleted (`Consistent`); and what it has gone through it has
found right (`Found`). As long as no outsider has touched the fixture, the
committed rows are the whole fixture or nothing of it (`AllOrNothing`) and each
run sees it so (`Untouched`): this is why two runs alone never report drift. A
commit of one run cannot disturb another because only one is past the advisory
lock. The proof has one lemma for each statement of a run and for each kind of
step of the others.

Every state and action property of the passing runs is stated by a theorem. Only
model-checked are the liveness properties `EnsureReturns`, `AttemptEnds`,
`EventuallyFinished`, `EveryRequestIsAnswered` and `ProcessExits`, because the
prover has neither fairness nor ENABLED, and the runs that end in a violation,
which are counterexamples. The inductive invariants hold under TLC on the runs'
instances too.

## Not modelled

- Web session client: its order of events is that of React's effects and of
  TanStack Query's cache, which are not part of the repository; a model would
  mostly check assumptions about that library. The rest of the user interface is
  presentation with static data.
- String validation, wire formats, cryptography, logging, telemetry,
  configuration loading, the migrator and the deployment scripts: no state of
  their own, or I/O. Generated queries are modelled through their text.
- `RequireMailbox` and `RequireResource`: no handler calls them yet.
- Discovery and token verification of the OIDC client, which a library does, and
  the validation of the fixture manifest.
- Clock skew between worker and database: they share one clock in
  `MailboxWorker`; the margin that `LeaseCoversCalls` leaves is the skew that the
  code tolerates.
- Error codes of attempts and audit timestamps, which no property distinguishes.

## Plan

The components of the inventory that keep state of their own are modelled, and
every safety property of the runs is proved. What is left:

1. `Authorization`: that the order of the checks in `Protect` never lets a
   request pass that fails one of them, for all permissions.
2. `StalwartAdapter`: an abstract specification of the mail core contract (a call
   that succeeds, fails without effect or is unknown) and the adapter shown to
   implement it.
3. Clock skew between worker and database as a parameter of `MailboxWorker`,
   with `LeaseCoversCalls` for every skew below the safety margin.
