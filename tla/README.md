# A TLA+ model of the wagering wallet

This directory models the transactional core of the wallet service (the Go
packages `internal/domain`, `internal/wagering` and `internal/adapters/postgres`
together with the schema in `migrations/`), its messaging on both sides (the SQS
consumer and the outbox publisher in `internal/adapters/sqs`), the HTTP API in
`internal/adapters/http` (the answers that providers get, ledger pages, reconciliation, the
cache of signing keys) and its money arithmetic. TLC checks the models on small
instances; TLAPS proves most of their safety properties for every instance.
`PROJECT.json` lists components, runs, mutants, the line of source each definition
models, findings, hazards and theorems.

## 1. The system

Game providers send operations (BET, WIN, LOSS, REFUND, ROLLBACK) over HTTP or
SQS. One binary runs in three roles, each with any number of instances, over one
PostgreSQL database: `api` (HTTP), `consumer` (SQS) and `workers` (outbox publisher
and reference worker). All coordination goes through the database.

| Component | State | Operations | What makes it correct |
| --- | --- | --- | --- |
| Money (`domain/money.go`) | int64 minor units and a currency | parse, format, Add, Sub, Cmp | no wrap-around; parse and format are inverse |
| Wallet aggregate (`domain/wallet.go`) | balance, version | Credit, Debit | never negative; one version per movement |
| Kinds, states, ledger entry (`domain/transaction.go`) | - | validations | entry arithmetic; terminal states are final |
| Reversal matrix (`domain/reversal.go`) | reversal slot of a row | who may reverse what | a stake goes back once; never stake and prize |
| Submit, OpenWallet (`wagering/accept.go`, `wallet.go`, `hash.go`, `events.go`) | rows of six tables | accept, replay, refuse, park | idempotent; all rows in one commit |
| Cascade and reference worker (`wagering/work.go`, `backoff.go`) | work rows with lease and two counters | resume, reschedule, give up | every parked operation is settled, once |
| PostgreSQL adapters and schema | tables, row locks | FOR UPDATE, SKIP LOCKED, unique indexes, append-only trigger | isolation and uniqueness |
| Outbox publisher (`adapters/sqs/publisher.go`) | lease and attempts of an outbox row | claim, send, mark, nack | at least once, stable event id |
| SQS consumer (`adapters/sqs/consumer.go`, `envelope.go`) | deliveries in flight | poll, handle, defer, dead-letter, delete | nothing deleted before its commit |
| Ledger paging, reconciliation (`wagering/reconcile.go`) | - (reads; the client keeps the cursor) | pages, balance proof | no skip or duplicate; one snapshot |
| HTTP API (`adapters/http`) | requests in flight | authenticate, authorize, decode, call, map to status | every request is answered; status agrees with the outcome |
| OIDC key cache (`adapters/http/oidc.go`) | keys, fetch time, mutex | look up, fetch | a published key is never refused but for a failed fetch; a retired one soon is |
| Lifecycle, observability, migration (`app`, `obs`, `cmd`) | - | start, stop, log, count | drain before stop |

How they interact:

- HTTP handlers and SQS handlers call `Submit`. It opens one SQL transaction, locks
  the wallet row with `SELECT ... FOR UPDATE`, looks the idempotency key and the
  external id up, decides, and commits the transaction row, the ledger entry, the
  balance, the events, the inbox row and the work row together.
- An operation whose reference has not arrived, or is itself parked, is stored as
  `PENDING_REFERENCE` with a work row.
- When a BET has been committed as processed, the same goroutine runs
  `ReevaluateDependents`: a second transaction that reads the parked dependents
  and resumes them one by one, locking the wallet of each.
- The reference worker claims due work rows with `SKIP LOCKED`, leases them in a
  transaction of its own, and then resumes each in one transaction per item. It
  reads the row first and locks the wallet afterwards.
- The outbox publisher polls the outbox rows that these commits leave.
- Read requests are authenticated against the key cache, whose mutex one request may
  hold while it fetches, and then read wallets and ledger entries without locks,
  while the other sessions commit.

What is hard: the cascade and several workers resume the same row; rows are read
before the lock that protects them; leases run out while their holder still works;
a statement error aborts a whole PostgreSQL transaction; two wallets are locked
by one cascade; keys are unique across wallets although locks are per wallet;
references arrive in any order; a listing is spread over requests, and a
reconciliation over statements, between which operations are committed; and signing keys
rotate under a cache that is fetched by one request for all. `hazards` in `PROJECT.json` gives the lines.

## 2. Modules

| Module | Models | Contents |
| --- | --- | --- |
| `WagerDomain` | `internal/domain` | kinds, states, failure codes, Credit and Debit, the reversal matrix, as operators that return `Ok` or a failure code |
| `Wagering` | `internal/wagering` over `adapters/postgres` | the state machine and its properties |
| `MCWagering` | - | scenarios (what a small set of requests carry) and wallets for TLC |
| `MCCrossed` | - | the scenario on two wallets that are mirror images |
| `Answers` | `SubmitResult` and `replayResult` in `wagering/accept.go`, the submit and transaction routes of `adapters/http/handler.go` | `Wagering` with what its handlers answer |
| `MCAnswers` | - | the scenario for it |
| `WageringEffects` | - | lemmas about what the effects do to a database: types, chains, single movements |
| `WageringProofs` | - | the inductive invariant, one lemma per action, the theorems |
| `RowsProofs` | - | further invariants on top of it: rows of one operation, unique keys, reversals |
| `Account` | what all of it promises to readers | the abstract specification: histories of balances that only grow |
| `ObserverProofs` | - | what others may rely on: `Wagering` implements `Account`; what `Answers` tells is true, and what is final stays; which sessions can wait for each other; events are not taken back |
| `OutboxPublisher` | `adapters/sqs/publisher.go` over the outbox table | several publishers against a FIFO queue |
| `OutboxProofs` | - | its inductive invariant and theorems |
| `SqsConsumer` | `adapters/sqs/consumer.go`, `envelope.go` | instances with their goroutines against a FIFO queue with timeouts and redrive |
| `MCSqsConsumer` | - | small message groups for TLC |
| `SqsProofs` | - | its inductive invariants and theorems |
| `Money` | `domain/money.go` | operators: overflow tests on wrapped integers, decimals |
| `LedgerReads` | `wagering/reconcile.go`, the two repository reads it makes, the two read handlers | readers against commits of an `Account` |
| `LedgerReadsProofs` | - | `Money` is exact; its inductive invariant and theorems |
| `KeyCache` | `adapters/http/oidc.go` | requests, the mutex, fetches, an identity provider that rotates keys |
| `HttpApi` | `adapters/http/handler.go`, `server.go` | composes `LedgerReads` and `KeyCache`: every read request is authenticated anew |
| `HttpProofs` | - | the invariant of `KeyCache`; `HttpApi` implements both of its parts, so their theorems hold of it |

The state machines are separate because they meet only in rows and messages:
`Wagering` writes outbox rows, which `OutboxPublisher` takes as given (`EnqueueOutbox`);
`SqsConsumer` calls `Submit`, of which it keeps the answer, while `Wagering` explores every
order and repetition of deliveries through its handlers. The read side meets the rest in
`Account`: `Wagering` implements it (checked and proved), and `LedgerReads` starts from
it, so that what a reader may assume is exactly what the writers are shown to keep.

### State of `Wagering`

`committed` and `current` are two versions of the same six tables. `committed` is
what a READ COMMITTED statement sees of other transactions; `current` adds the
uncommitted writes of the session that holds the wallet's lock. Each row belongs to one
wallet and is written under that wallet's lock, so the statements of session `s`
read `View(s)`: the committed tables, with the rows of the wallets `s` holds taken
from `current`. A commit copies those rows to `committed`, a rollback copies them
back (`Merge`). Work-row leases are the one exception: they are taken in short
transactions without a wallet lock, and change both versions at once.

`lock` maps a wallet to the session that holds its row. `sess` is a session's
program counter with its locals: the operation in hand with the counters its work
row had when it was claimed (`noteInfra` uses these and not the stored ones), what is
left of the batch or of the dependents, and the wallet row `LockForUpdate` returned.
Transactions are rows of a request id: `Input[r]` holds the immutable columns, `tx[r]`
those the program writes. The OPENING transaction of a wallet goes by the
wallet's id.

### Actions of `Wagering`

| Action | Code |
| --- | --- |
| `OpenWallet` | `wallet.go` OpenWallet, one transaction |
| `SubmitBegin` | `accept.go` Submit up to the transaction: correctable errors and the poison check |
| `LockForUpdate` | the first statement of every transaction that moves money; waits |
| `SubmitNoWallet`, `SubmitMismatch`, `SubmitReplay`, `SubmitError` | the early returns of the transaction (404, mismatch, replay or 409, overflow) |
| `SubmitApply` | applyOperation with every row it writes |
| `Commit`, `CommitRefused` | end of Transact; a unique index refuses a key, external id or message id committed meanwhile |
| `CascadeFind`, `CascadeNext` | ReevaluateDependents: the query, then one dependent after the other in the same transaction |
| `ClaimWork`, `WorkGet` | ClaimWork with its lease; processWorkItem up to the wallet lock |
| `ResumeSettle`, `ResumeClash`, `ResumeError` | resumeOne: it settles or reschedules; the ledger's unique index refuses a second entry and the transaction is lost; the credit overflows |
| `LeaseExpires` | passage of `WorkLeaseTTL` |
| `DeadlockVictim` | PostgreSQL's deadlock detector |
| `TxFails`, `Crash` | an item's transaction is lost; the process dies |

What is abstracted: a work row is due at any moment (due times and backoff only
restrict when); an attempt finds `ReferenceTTL` over or not, by choice; row ids,
event ids, correlation ids and the game id (which only the hash reads) are left out;
the payload hash is the tuple of business fields, so hashes do not collide; the
statements between the lock and the commit are one step, which loses nothing because
no other session reads them before the commit and none writes the rows of a locked
wallet; an INSERT that meets an uncommitted key waits in PostgreSQL, here it is
decided at the commit; `ref_attempts` saturates at the limit, past which no test
tells its values apart.

### `Answers`

`Answers` adds two variables to `Wagering`: `result`, what a handler holds in memory to answer
with, and `told`, the answers that each request has had. Its steps are those of `Wagering`, each
with what it means for the answer. `Decide` keeps what `applyOperation` returns for the
wallet row read under the lock; `Replay` and `GetTransaction` answer from the columns of the
row; `Refuse` drops the result (400, 404 or 503: nothing was decided, so nothing is recorded);
`Carry` is every other step, and the last one, which may come after the cascade, answers;
`Fail` is a crash or a failed transaction, which ends a `Submit` without an answer but does not
keep a handler from answering when it was the transaction of its cascade. `Tell` may lose any
answer; a lost one is repeated by submitting again or by a GET, at any time. An answer
is the HTTP status with the body's status, operation, failure code and balance; of a 409
the body tells nothing. Steps of other sessions are `Elsewhere`.

### `OutboxPublisher`

The events of one wallet, numbered in commit order. A row has its lease (`none`,
`running`, `over`), its attempts and its mark; a publisher has the batch it claimed
with the attempts read then. `ClaimOutbox` of the code is two steps, `SelectDue` (SELECT FOR
UPDATE SKIP LOCKED) and `CommitLeases` (the updates of the leases and the commit): in
between the rows of the batch are `Locked`, other claims pass them over (`Selectable`), and the
updates of other publishers wait. `Publish` and
`PublishFails` are the call to SQS (a failed call may have been accepted);
`MarkOutboxPublished`, `NackOutbox` and `UpdateFails` are the update and its error,
which ends the tick; `LeaseExpires` is time. A claim's order is by send
time alone, and rows never handed back all have send time zero, so their order is any.
`sent` counts the sends of each event that reached the queue, and `outlived` how often a lease of
it ran out while a publisher held it; both are history for the properties. Within its
deduplication interval the queue drops a second send with the same event id; that is its own
doing and left out, so `sent` is an upper bound on the copies. That several rows are due together,
but a row handed back later than new ones, is in `Due`; how long a backoff lasts is not.

### `SqsConsumer`

One message group. A message is unsent, visible, in flight or gone, with its receive
count; a receipt is the receive count of its delivery. `ReceiveMessage`, `ReceiveFails`
(the call fails or its answer is lost, while goroutines of earlier polls run on) and `Dispatch`
are the poll loop with its semaphore; `SubmitOk`, `SubmitPoison`, `SubmitError`,
`ToDLQ`, `Delete` and `DeferVisibility` are the steps of `Handle`, each of which may fail
as the call it makes may; `VisibilityEnds` and `Redrive` are SQS. What becomes of a message
is its `Body`. The handler cannot know that its receipt is no longer current; a
delete with such a receipt may or may not have an effect. The stop hook does not wait for
the handlers, so stopping is a crash.

### `Account`, `LedgerReads`

`history[w]` is the sequence of the balances that wallet `w` had, by version: the wallet
row is its last element with its length, the ledger entry of version `v` goes from element
`v - 1` to element `v`, and an opening with zero has no entry. `reading[c]` is the
request that client `c` has at the service, with its statement (`at`) and its local
variables; `listing[c][w]` is what the client has received so far.

`BeginPage`, `GetWallet` and `ReadPage` are the ledger route: the wallet lookup and the page
are two statements with a snapshot each. `PageLedger` fetches one row more than the limit,
drops it again, and puts the last version of the page into the cursor. `BeginReconcile`,
`ReadStored`, `ReadEntries`, `ReplayEntry` and `Reconcile` are the other route: the first
statement fixes the snapshot of the REPEATABLE READ transaction (`snapshot`), the loop adds
or subtracts one entry per step with the overflow tests of `Money`. `ReadFails` is a failed
statement or an answer that never arrives: the client then asks again with the old cursor.
`Opens` and `Moves` are the commits of other sessions. A cursor is an opaque text that holds
a version; here it is the version.

### `Money`

`Add`, `Sub` and `Negate` are modelled as the machine does them: the sum wraps around at
the word width (`Half` is 2^63 in the code) and sign bits tell afterwards. `ParseMoney`
starts from the whole part and the two decimals that the text denotes; `Format` is `String`
with its special case for the smallest integer.

### `KeyCache`, `HttpApi`

`status` is the life of each key at the identity provider, `cached` and `age` are the cache,
`fetch` is the fetch under way with the client that holds the mutex for it, and `asking` is
what each client waits for. `KeyHit` and `KeyMiss` are the two ways through `keyFor`;
`ServeKeys` is the provider's answer, which may be old when `FetchReturns` stores it;
`FetchFails` is a timeout or any other error, and keeps the old keys. `Tick` is time: `age`
is counted up to the TTL, past which no comparison tells its values apart, and a fetch that
has used its timeout up ends before the next tick.

`HttpApi` conjoins the two. `Send` begins a request, `Authenticate` is the middleware,
`Unauthorized` and `Elsewhere` its refusals (401, 403, or another route), `Authorized`
hands the request to a handler of `LedgerReads`, `Serve` runs it.

## 3. Runs

The first group of runs is `MCWagering` (`Crossed`: `MCCrossed`, `Retries`: `MCAnswers`) with
its own configurations. A handler takes any request of the scenario at any time and as often as it
likes, so retries, redeliveries and every order of arrival are explored.

| Run | Scenario | Properties | States |
| --- | --- | --- | --- |
| `Reversals` | BET, WIN, REFUND, ROLLBACK of the REFUND; a handler, a worker | `LedgerChain`, `StakeReturnedOnce`, `NoStakeBackWithLiveWin` | 91,277 |
| `Duplicates` | one key, one external id, one message id used several times, on two wallets, a REFUND and a ROLLBACK of one BET; two handlers, one fault | `TypeOK`, `OneOperationPerKey`, `InboxOfAccepted`, `StakeReturnedOnce` | 22,977 |
| `Crossed` | two BETs on two wallets, each with dependents on both; two handlers, no worker | `TerminalIsFinal`, `ImplementsAccount`, `ParkedIffWork` | 74,168 |
| `Settles` | BET, free WIN, a WIN of the BET whose credit overflows; a handler, two workers, one fault, fair | `ParkedIffWork`, `EventsMatchLedger`, `OneMovementPerTransaction`, `ResultMatchesLedger`, `ParkedSettles` | 8,195 |
| `Retries` | a BET, the same under a new key, its REFUND, a BET on another wallet with the id of the one and the key of the other; two handlers, one fault, lost answers | `AnswersTypeOK`, `AnswersAgree`, `AnswersHold`, `RefusedMovesNothing` | 48,124 |

`Retries` has no worker, for the reason that the run `Races` shows: a worker may write a second
outcome over the first, and then the answers of before and after do not agree. It also has no
request that reuses a key under which another one was replayed (see below).

`ParkedIffWork` is in `Crossed` as well, where every cascade has two dependents: when it becomes the
victim of a deadlock at the second, what it did for the first is taken back, and the first has to be
parked again with the work row by which a worker will find it. That a worker then settles
it is `ParkedSettles` in `Settles`, with one dependent; two dependents with workers are beyond
what TLC does with that liveness property in minutes.

`ImplementsAccount` is the refinement: `history` of `Account` is `Histories(committed)`,
computed from wallet rows and ledger entries. `Crossed` is the scenario for it because
its cascades commit several movements of two wallets at once.

Messaging and reads:

| Run | Scenario | Properties | States |
| --- | --- | --- | --- |
| `Publishing` | two publishers, two events, claims of two, two faults, fair | `PublishedWasSent`, `SoleHolder`, `ResendsExplained`, `EventuallyPublished` | 242,757 |
| `Consuming` | a message that is always refused before a poisoned one; two instances with one goroutine each; one fault, fair | `TypeOK`, `GoneIsTreated`, `RetriedToTheEnd`, `LeavesQueue` | 138,818 |
| `Requests` | two clients, one of them a reader; a key that replaces another; a wallet with up to three versions; pages of one or two, fair | `PagesExact`, `ReconcileConsistent`, `SteadyKeyServed`, `EndsComplete`, `BoundedStaleness`, `EveryRequestAnswered` | 200,353 |

Four runs show that the code does not do what its documents say (the `findings`):

| Run | Violated | What happens |
| --- | --- | --- |
| `Races` | `TerminalIsFinal` | A worker reads a parked row, a cascade settles it, and the worker, which does not read it again under the lock, writes REJECTED over PROCESSED. The money is safe (`OneMovementPerTransaction`, proved): the ledger's unique index refuses the second movement. The recorded outcome is not. `Crossed` shows that without a worker it cannot happen. |
| `Cycles` | `NoLockCycle` | Two cascades lock two wallets in opposite orders. The comment on `ReevaluateDependents` says that dependents on other wallets are left to the worker; nothing filters them. |
| `Circular` | `ParkedSettles` | Two operations that refer to each other are rescheduled for ever, since the limits apply to a missing reference only. |
| `Lost` | `NothingLost` | The send to the dead-letter queue fails, the message is deleted all the same, and it is nowhere. |

Seven more disagreements follow from reading single lines and have no run: a WIN that
names its BET is rejected unless it pays exactly the stake (`domain/reversal.go:122`,
whose comment at line 105 does not ask for equal amounts); the jitter of a retry is an
integer division that always gives zero (`adapters/sqs/consumer.go:202`); a row handed back
is overtaken by later events of its wallet, and rows never handed back have no order
(`adapters/sqs/publisher.go:64`, comment at lines 19-20); a delivery can wait for a
goroutine or a wallet lock past its visibility timeout, so that its handler uses an old
receipt (`consumer.go:148`; ARCHITECTURE.md:201 says receipts are always current); the
inbox is keyed by the id SQS gave the message and not by the envelope's `messageId`
(`consumer.go:115`, against REQUISITOS.md:354 and openspec/specs/messaging/spec.md:38-39);
a replay of a FAILED operation is answered as if it were pending, with 202
(`wagering/accept.go:278`), where ARCHITECTURE.md:171 and
docs/adr/0010-auth-keycloak-client-credentials.md:19 say 500; and a key under which an
operation was replayed is not stored, so that it later brings another operation, after which the
first request is answered with a conflict (`wagering/accept.go:206`; REQUISITOS.md:289 asks
for a conflict the first time). The models behave as the code does, but for the jitter and the
envelope's id, which they leave out.

Bounds, and why they are enough. The four requests of `Reversals` are the smallest set with a
reversal that voids another and a WIN against a REFUND; two reversals that compete are in
`Duplicates`. Two sessions suffice for a race on one row, and two workers
with a handler (`Settles`) for the lease races, because a wallet lock has one holder and the
others only wait. `MaxMoney` is the smallest value at which a credit can overflow while
the BET still fits. `MaxRefAttempts = MaxInfraAttempts = 2` lets a counter be below,
at and past its limit; the code has 5 and 10 and only compares. `MaxFaults` bounds
crashes and lost transactions. Symmetry is over handlers, which
are interchangeable, and in `MCCrossed` also over the exchange of the two wallets with the
requests on them; it is used only in runs without liveness properties.

For the publisher, two instances suffice for a lease race, two events with claims of two
for a batch that is interrupted in the middle, and two faults for a bound of
`ResendsExplained` that sums faults and leases (TLC reaches states where it is exact with both).
For the consumer, a poll of two messages with one
goroutine leaves a delivery waiting for the semaphore; `MaxReceives = 3` (5 in the code) has
a first, a middle and a last delivery. The proofs of section 4 hold for every size.

For `Requests`, pages of one or two entries (`DefaultLimit = 1`, `MaxLimit = 2`; no limit
given, or one beyond the maximum) against three versions (`MaxVersion`) make every kind of
page: full with more behind it, full and last, and short. `MaxBalance = 1` has credits,
debits and a zero opening. `Half = 128` keeps the integers small; what happens at their limits is
proved and not run. One reader suffices because readers share nothing but the key cache, for
which there is a second client; `TTL = FetchTimeout = 1` has an age below and at each limit.

Deadlock checking stays on in every run: a handler can always submit again, and a poll
that finds nothing is a step.

Fairness (`FairSpec`, runs `Settles` and `Circular`). A session goes on with what it began
(the goroutine is scheduled); a waiter for a row lock is served (PostgreSQL queues
them); the workers keep polling every 500 ms and `ClaimWork` orders by due time with
a limit of 100, so a due row is not passed over for ever; leases run out. Nothing is
assumed of the providers, and nothing about which faults happen, except that they are
finitely many.

In `Publishing` the loops keep polling, a tick that began goes on and leases run out; in
`Consuming` the poll loops and goroutines run, visibility timeouts end and SQS redrives.
Faults are finitely many in both, and nothing obliges a refused message ever to be taken.
In `Requests` a waiter for the cache's mutex is not passed over for ever (Go hands a mutex
to a starving waiter after a millisecond), which is strong fairness of `LookUp`, because
other clients take the mutex in between; a fetch ends with an answer or with the timeout of
the HTTP client; handlers run to their end. Nothing is assumed of the identity provider.

Each property has a mutant of the definition it guards (a plain SELECT instead of FOR
UPDATE, a slot that is not freed, a missing unique index, an event forgotten, a work row
left behind, work rows deleted outside the transaction that resumes them, a limit that never
applies, a claim without row locks or without its filter on published rows, an error that is
ignored, a delete after a failure, a retry that keeps its goroutine, an answer before the commit or without its balance, an inclusive cursor, a page
without its extra row, READ COMMITTED, keys without a TTL, a mutex kept on the error path), and TLC finds the property violated with it.

## 4. Proofs

`WageringProofs` proves for all wallets, requests, handlers, workers and limits that
satisfy `ConstantsAssumption` and `MoneyAssumption`:

- `TypeCorrect`: `Spec => []TypeOK`; no balance is negative or beyond `MaxMoney`;
- `LedgerIsChained`: `Spec => []LedgerChain`;
- `MovesAtMostOnce`: `Spec => []OneMovementPerTransaction`.

All three follow from `Invariance`, `Spec => []IInv`. `LedgerChain` is not inductive: it is
about the committed tables, whereas a movement is made on the current ones from a
wallet row read a step before. `IInv` therefore says (1) of *both* versions that they
are typed and satisfy `DbInv`: every wallet's entries are a chain, every entry
belongs to the wallet of a present request (`Owned`), and no request has two
(`MovedOnce`); (2) of a session about to write that it holds the wallet's lock and that
the row it read is still the current one (`Reserved`); (3) of an unlocked wallet
that its two versions agree. (1) survives `Merge` because a chain is taken whole from
the one version or from the other, and `Owned` makes the ledger entries go with their rows.
A movement extends the chain because of (2). Single movement needs two different arguments:
a first submission inserts a row that was absent, so by `Owned` it has no entry yet;
a resume does not know that its row is still parked, and is stopped by the unique
constraint (`LedgerClash`).

`RowsProofs` proves five more, on top of `IInv`, from an invariant `RowsKeysInv` of two parts.
`ParkedHaveWork` (`ParkedIffWork`), `ResultsMatchLedger` (`ResultMatchesLedger`) and
`OutboxTellsLedger` (`EventsMatchLedger`) relate rows of one operation, which all belong to one
wallet, so `RowsInv` says it of both versions and every `Merge` keeps it. That is not
inductive yet: `WorkGet` deletes work rows without the wallet's lock, from both versions, because
the *committed* row is terminal. `RowsAhead` adds that the current row then is terminal too,
and that nothing committed is absent from the current tables.
`KeysAreUnique` (`OneOperationPerKey`) and `InboxIsOfAccepted` (`InboxOfAccepted`) are about
the committed tables of all wallets, whereas two sessions may have inserted the same key
into rows that neither sees. `UnderWay` says that whatever is inserted and not committed belongs to
the holder of its wallet's lock, which is about to commit it and has inserted nothing else; so a
commit adds at most one operation, and `UniqueViolation` has compared it with all committed ones.
`ResumesCommitted` says that cascades and workers resume committed operations only, so they
insert none.

The third part of `RowsProofs` proves `StakeBackOnce` (`StakeReturnedOnce`) and `StakeOrPrize`
(`NoStakeBackWithLiveWin`) from `StakeInv`, which says `SlotInv` of both versions. The ledger tells
which transactions reverse which (`Voids`) and which of those reversals were not reversed in
turn (`Standing`). `SlotInv` says: the slot of a present row is empty when nothing stands against
it and otherwise names the only reversal that does (`Slot`); a reversal that moved money aims
at an operation of its own wallet that moved money (`Aimed`); a processed REFUND, or WIN with a
reference, refers to the BET it names (`Linked`), so that the ROLLBACK of a REFUND frees the
slot of the right BET; external ids are unique among the rows of one wallet (`Unique`); and a
BET whose stake is back has no active WIN (`Kept`). Everything in it is about one wallet, so a `Merge` keeps it although
another wallet's session may have inserted the same id. A step breaks it only by writing an
entry, and then the verdict has looked at the slot and the wins in the locked view
(`Judged`), and `LedgerClash` stops a second entry of a stale resume. On the committed tables,
`KeysAreUnique` makes the reversals found by external id (`ReversalsOf`) the same as `Voids`.

`ObserverProofs` proves `WalletsImplementAccount`, `Spec => ImplementsAccount`. By
`LedgerChain` each version of the tables has whole histories; `Ahead` says that the current
ledger contains the committed one and no version is taken back. A commit therefore replaces
each history by one that continues it: the entries of an old version are still there, and a
chain has only one entry of each version.

It also proves `AnswersTyped` (`AnswersTypeOK`) and `AnswersStand` (`AnswersHold`) of
`AnswersSpec`, with workers too. Every step of `Answers` is one of `Wagering` or none (`Projects`), so
all invariants above hold, and `AInv` adds three. A session that has written nothing has
wallets whose two versions agree (`CleanInv`), so a replay reads committed rows although it
reads its own view. The result a handler holds is what it is about to commit under its lock, or is
committed while the cascade runs (`ResultInv`), so neither a rollback nor a crash lets an
answer out that nothing stands on. And what was told has its row and its movement in the committed
tables (`ToldInv`), where both stay. That a replay or a GET of a rejection is not
taken for a success is `Coded`, a part of `SlotInv`: a row has a failure code exactly when it is a
rejection, also after a resume has written it again. To prove this for all steps at once,
`NextShape` sorts them into five shapes by what they do to rows and locks.

Its third part is about what is final. `TerminalIsFinal` is false of the program (`Races`), so
the question is of which operations it is true. `resumeOne` does not read its row again under the
lock; an outcome is therefore written over only if two parties resume the same operation.
`Sole(r)` says that there is no second one, and `Firm(r)` that none is needed: `r` cannot be
parked at all (a BET, a LOSS, a WIN without a reference), or it is resumed by cascades only (no
worker), or by the only worker, because it names no BET whose cascade could come first. Which of
these a deployment has is its choice: the roles are separate processes
(`src/internal/app/config.go:20`), and each workers process runs one reference worker
(`src/internal/app/workers.go:57`), so `Worker` is empty or has one element when that role has no
replica or one. With more of them, or one beside the cascades of the BETs that are named, the
operations that cannot be parked remain firm, and the others are those of `Races`. `OutcomesAreFinal` says that the row of a firm
operation, with its failure code and balance, never changes once it is terminal; `TerminalStates`
is `TerminalIsFinal` for the case that all are firm, as in `Crossed`. Neither is inductive.
`FirmInv` adds the plans of the sessions (`PlansInv`): no two cascades serve the same BET, since
each goes back to its one commit, and no session has an operation twice in hand. From this
follows that what a session is going to resume is still parked in both versions (`StillWaits`),
that a submit about to commit has inserted a row that was absent (`Inserting`), and that the two
versions have the same outcome of a settled operation (`Unaltered`). For any number of workers,
`SettledStaysSettled`: only *which* outcome it has may change.

The fourth part proves the two remaining invariants of `Retries`. `RefusedForGood`
(`RefusedMovesNothing`) assumes that all operations are firm, and `RetriesAgree` (`AnswersAgree`)
also `NoReuse`: a key under which an operation was replayed is never used for other content,
which the program would accept (`src/internal/wagering/accept.go:206`, see section 3). Both
follow from statements about single requests, `RefusalsStand` and `AnswersAgreeing`, in which
only the request in question has to be firm. `FinalInv` says that a final answer about a firm
operation is what its row says now, and that a conflict was answered because an operation of
other content under the same key or external id is committed. By `OneOperationPerKey` that one
excludes the request for ever, so no request gets both a conflict and an outcome. TLC evaluates
the hypotheses on the scenarios of `Retries` and `Crossed` (the assumptions `FinalAnswers` and
`OnlyCascades` of the MC modules); with a worker, or with a request that reuses a key of
`Retries`, they are false.

The fifth part is about deadlocks. `LocksInv` says why a session may hold a wallet: a submit or a
worker has its one operation there, a cascade has dependents there of the one BET it serves.
Hence only cascades wait while they hold something, and only they are aborted for a deadlock
(`VictimsAreCascades`), which is why `Answers` has a deadlock in `Proceed`, as a failure that the
client is not told of. And a cycle needs two cascades that hold what the other waits for, hence dependents of one BET on two
wallets: `NoCycleOnOneWallet` proves `NoLockCycle` when there are none (`DependentsOnOneWallet`,
which TLC evaluates on `Retries`), and `Cycles` has a cycle when there are. The filter that the
comment on `ReevaluateDependents` describes would have the same effect.

The sixth part, `EventsAreKept`, says that no step takes back a committed outbox row or message
id; this is what `OutboxPublisher` assumes when it takes rows as given, and what lets the inbox
refuse a message id that comes back with other content, however late. As with `Ahead`, the current rows contain the committed ones
(`NothingMissing`), and a merge of the two therefore keeps all of the committed ones.

`OutboxProofs` proves `PublishedWasSent` (`NothingMarkedUnsent`), `SoleHolder`
(`ClaimsAreExclusive`) and `ResendsExplained` (`ResendsAreOwed`) for any finite sets of events and
publishers, from `OutboxAssumption`. Their common invariant `IInv` adds: a publisher about to mark has
had its event accepted; an event held after the commit of its claim has a running lease unless one
ran out under a holder (a claim needs a row that is neither locked nor under a running lease, hence
nobody holds it); and the events of a batch differ (else finishing one record would end the lease of
another). `ResendsExplained` alone is not inductive: whether another send is allowed
depends on who holds the row now. `Tallied` keeps the books for it. Each holder that has not sent
has its send reserved (`Waiting`); as long as an event is unpublished each of its sends is a fault's
or still to be marked (`Markers`), hence an unpublished event that nobody holds has been sent by
faults only, and a lease that runs out then is free; and a row that can be claimed has a send to
spare, for a holder handed it back unsent or failed, or lost its lease.

`SqsProofs` proves `GoneIsTreated` (`DeletedAfterTreatment`) and `RetriedToTheEnd`
(`RedrivenAtTheLimit`) from `ConsumerAssumption`. `CInv` adds that a goroutine about to delete a
message that can be treated has had it treated, and that none is about to dead-letter it.
`ConsumerTyped` (`TypeOK`) adds that an instance has no more goroutines than tokens are out, so
no token is given back twice.

`LedgerReadsProofs` begins with `AddExact`, `SubExact`, `NegateExact`, `ParseExact` and
`FormatExact`: at every word width the sign-bit tests refuse exactly the results that do not fit,
and parse and format are inverse. `ListingsAreExact` (`PagesExact`), `ListingsEndComplete`
(`EndsComplete`) and `ReconciliationIsConsistent` (`ReconcileConsistent`) then hold for all
wallets, readers, limits and widths. The idea is that versions have no gap, so that a page is
the interval that follows the cursor (`PageLedgerExact`); a listing is the interval up to its
cursor or, once ended, a prefix of the ledger (`ListingOK`); and the sum of a replay is the
balance before the entry in hand (`ReadingOK`), which fits because balances do.

`HttpProofs` proves `SteadyKeyServed` (`PublishedKeysServed`) and `BoundedStaleness`
(`StalenessBounded`) of `KeyCache`, from an invariant (`KeysInv`) that bounds the time since the
retirement of each key in a fetched document by the time the fetch has taken (`DocFresh`), and of
each key in the cache by the age of the cache plus that time (`CacheFresh`).
`RoutesImplementReads` and `RoutesImplementKeys` show that `HttpApi` implements `LedgerReads`
and `KeyCache`, so all their theorems hold of the composition (`RoutesCorrect`).

`WageringEffects` proves these facts about databases, one lemma per effect.
`WageringProofs` has one lemma per action, and a common one for each of rollback,
writing, work-row changes and steps that touch no table.

Only model-checked: `ParkedSettles`, `EventuallyPublished`, `LeavesQueue` and
`EveryRequestAnswered`, which are liveness under fairness and outside the prover's reach, as is
everything that speaks of ENABLED. Every safety property of a passing run
is stated by a theorem, three of them under the conditions above (`TerminalIsFinal`,
`AnswersAgree`, `RefusedMovesNothing`), without which they are false.

## 5. Plan

In this order; all of it is done.

1. `WagerDomain`, `Wagering`, `MCWagering`: the core.
2. The runs above, the mutants, the findings.
3. Types, chain and single movement proved.
4. `OutboxPublisher`, `OutboxProofs`.
5. `SqsConsumer`, `SqsProofs`.
6. `Account`, which `Wagering` refines, and `LedgerReads` on top of it.
7. `Money` at every word width.
8. `KeyCache` and the read routes (`HttpApi`), with their proofs.
9. The row and key invariants, and those of the reversals (`RowsProofs`).
10. The answers of the write routes (`Answers`), and that they hold (`ObserverProofs`).
11. What is final stays final, the answers agree, who waits for whom, events are kept
    (`ObserverProofs`, third to sixth part).

## 6. Not modelled

Identical events: the outbox of `Wagering` is a set, so a second event that agrees with one there
in type, wallet, operation, balance and version would not show. The deduplication of the
event queue, and with it the number of copies that a reader of the queue sees.
The overflow of the replay in `Reconcile` is proved (`LedgerReadsProofs`) and not run.

The decoding of request bodies, the route that opens a wallet (its transaction is `OpenWallet`),
and the answers 400, 404 and 503, which tell nothing of an operation. The claims of a token (issuer, expiry, audience, roles) are one choice, since
they depend on nothing the model has. Texts of money that `ParseMoney` refuses for their form.
Observability, dependency wiring, configuration, the migration job and the deployment scripts
have no behaviour of their own worth a state machine. Grants and the append-only trigger appear
only as the absence of any action that changes or removes a ledger entry.
