# Wager service: TLA+ models, checks and proofs

A verification development for the wager service of this repository: providers
submit bets, wins, losses, refunds and rollbacks over HTTP or an SQS queue, the
service applies them to players' wallets in PostgreSQL, keeps a ledger, and
publishes integration events through a transactional outbox. The modules model
the code of `src/`; TLC checks them on small instances and TLAPS proves the
central safety properties for every instance.

## 1. The system

| Part | State | Operations | Correct when |
|---|---|---|---|
| Money (`domain/money`) | none; `int64` minor units and a currency | Add, Sub, Negate, parse, format | an overflow is always seen, and the test for it does not overflow itself; a text and its amount are the same number |
| Wager domain (`domain/wagering`) | the aggregate `Transaction` | NewExternal, NewOpening, MarkProcessed, MarkRejected, AwaitReference, ResolveReference | a final transaction stays as it is; validation keeps amounts and references sensible |
| Wallet domain (`domain/wallet`) | balance, version | Open, Credit, Debit, ledger entries | the balance is never negative; an entry describes the movement exactly |
| Transaction use case (`app/process.go`) | SQL transaction, locals of `ProcessIn` | Process, ProcessIn, lookupExisting, apply, resolveReferenceTx, park, persistOutcome | one effect per operation whatever transport, retry or race brings it; reversals undo once and exactly |
| Pending-reference worker (`app/process.go`, `workers/pending.go`) | rows in `PENDING_REFERENCE` | ClaimDuePendingReference, apply, Update | every parked operation becomes final; workers do not do one row twice |
| Wallet use cases (`app/wallets.go`) | tables | OpenWallet, Reconcile, queries | reconciliation finds balance and ledger in agreement |
| PostgreSQL adapter (`adapters/postgres`, `migrations`) | tables, row locks, unique indexes | the repositories and `UnitOfWork` | all of a transaction is visible, or nothing |
| Outbox publisher (`workers/outbox.go`) | leases, attempts, the batch in hand | tick, publishChunk, publishOne, reschedule | no committed event is lost; every one is published |
| SQS consumer (`adapters/sqs/consumer.go`) | the batch in hand, inbox | loop, handle, classify, deadLetter, delete | no message is lost; none is processed twice; none stays for ever |
| HTTP API and auth (`adapters/httpapi`, `adapters/auth`) | none | authenticate, requireRole, postTransaction, openWallet, getTransaction, getProviderTransaction, getLedger | what a caller was told remains true; a provider cannot tell that others exist; pages neither skip nor repeat |
| Lifecycle (`fxapp`, `workers.loop`) | started hooks, deadlines, the pool | New, the start and stop hooks, Run | every component has the deadline that the sum in New pays for, and the pool closes last; a stop ends; status 0 means nothing was cut off |
| Configuration, metrics, migration runner, SQS client | see section 7 | | |

How the parts meet: HTTP handlers and the consumer both call `ProcessIn`, the
consumer inside the SQL transaction that also records its inbox row. `ProcessIn`
looks the operation up, locks the wallet row, looks it up again, applies the
rules and writes transaction, ledger, wallet and outbox rows, all in one SQL
transaction at READ COMMITTED. The worker does the same for rows it claims with
`SKIP LOCKED`. The publisher shares only the table `outbox_events` with them.
Nothing is shared in memory between requests, so all of the concurrency is
between SQL statements of different sessions, calls to SQS, and time. Within a
process the parts share the connection pool and the order in which `fx` starts
and stops them.

What is hard: statements of several sessions on one wallet or one unique key;
reads of a reference that belongs to a wallet the session has not locked;
references that arrive after what refers to them; commits whose acknowledgement
is lost; redeliveries while the first delivery is still being handled; leases
and visibility timeouts that run out under a live owner; sequence numbers taken
in another order than they commit; a stop whose deadlines overlap; the limits of
`int64`.
`PROJECT.json` lists each hazard with its line and the properties about it.

## 2. Modules

| Module | Models | State and actions |
|---|---|---|
| `Money` | `money.Add`, `money.Sub` | operators; the width of the integer is the constant `MaxMinor` |
| `Wager` | the two domain packages, `apply`, `resolveReferenceTx`, `park`, the choice of events | operators from a transaction and a wallet row to an outcome |
| `WagerService` | `process.go`, `wallets.go`, the repositories, locks and indexes of the schema | the tables, and for each session its next statement and its locals; one action per SQL statement |
| `WagerAtomic` | what the service promises to the outside | the five tables and nothing else; an operation, with its entry, its events and its inbox row, is one step |
| `WagerProperties` | the properties of `WagerService`, fairness, the refinement | |
| `WagerProofs`, `WagerHistoryProofs`, `WagerEffectProofs` | theorems about `WagerService` | section 6 |
| `Outbox` | table `outbox_events`, publisher, the FIFO queue it writes to | row states and leases; the tick of each publisher, one action per call |
| `SqsConsumer` | consumer goroutines, the FIFO queue they read, dead-lettering, start, stop, crash | queue, visibility, receive counts, inbox; one action per call |
| `Delivery` | consumer and publisher around one database | `INSTANCE`s of `SqsConsumer` and `Outbox`; a step of the consumer that commits a new operation also adds its events |
| `Channel` | what the service promises between its two queues | messages submitted, applied and put aside, operations announced |
| `HttpApi` | the handlers, roles and tokens, the ledger's pages, the writers as a reader sees them | tables, the shared sequence, writing sessions, a client that pages |
| `Amounts` | `money.Parse`, `ParseSigned`, `Negate`, `Amount` | operators on texts of digits |
| `Backoff` | the three exponential backoffs and their defaults | operators on machine durations |
| `Lifecycle` | `fxapp.New`, `Run`, the hooks, `workers.loop`, the pool | the phase of `fx`, hook index, deadlines, what each component has in hand |
| `OutboxProofs`, `SqsConsumerProofs`, `DeliveryProofs`, `HttpApiProofs`, `LifecycleProofs` | theorems about the module of the same name | section 6 |
| `MCWager`, `MCOutbox`, `MCSqsConsumer`, `MCHttpApi`, `MCDelivery` | scenarios for TLC | constants |

`WagerService` in more detail. A session is a goroutine inside `UnitOfWork.Do`:
`Callers` are HTTP requests, `Consumers` handle messages, `Resolvers` are passes
of the worker; they may belong to any number of processes. `pc` names the next
statement:

    Submit ─────────────► key1 ─► ext1 ─► lock ─► key2 ─► ext2 ─► apply ─► [reversal] ─► persist ─► commit
    Deliver ─► inbox ──►                    ▲                       ▲
    ClaimDuePendingReference ───────────────┘ (goes to apply from lock)

Each statement reads what is committed when it runs. `GetForUpdate` waits while
another session is between its own `GetForUpdate` and the end of its
transaction. `persist` stands for Insert or Update and everything
`persistOutcome` writes: its Insert waits for an uncommitted row with the same
unique key, fails if a committed one exists, and otherwise its effects wait in
the session for `Commit`. Because none of these writes can be seen before the
commit and the only ones that can wait or fail are the first (unique indexes)
and the wallet's version test, they are one step. `Fault` is a failed statement,
a cancelled request or a dead process; `CommitUnacknowledged` is the commit the
server made and the client never heard of.

Transactions are identified by their place in commit order in place of UUIDs.
Left out of the records: game ids (they only enter the payload hash), names,
wording, correlation ids and all timestamps but `next_reference_retry_at`, which
orders the worker's queue. The triggers that refuse changes to final rows and to
the ledger are not in the model: `HistoryFrozen` shows that the code does
not need them.

`Outbox` keeps time as a counter: `due` orders rows by `next_attempt_at`, which a
reschedule sets up to `MaxDelay` later than the present (the backoff), so that newer
rows may come before or after the rescheduled one. Time itself passes at any moment:
a row that waits for its time may be claimed, a lease may end, and the broker's
deduplication window may close, after which it takes a message that is sent once
more as a new one (at most `MaxLate` times). `SqsConsumer` treats the SQL transaction of `handle` as
one step, because its interior is `WagerService`'s; in exchange it has
the batches, receipts, visibility and dead-lettering that `WagerService` reduces
to "any message is delivered any number of times to any consumer". The SQS
queues are external code: they are modelled from what the callers rely on (FIFO
groups, visibility, receive counts, deduplication, redrive).

`Delivery` adds no behaviour of its own: every step is a step of one of the two
modules, and the only thing they share is `Record`, the event rows that
`persistOutcome` writes in the transaction that `handle` commits: always one for the
operation, of the operation's own aggregate, and one for the wallet, with its next
version, if the operation is among `Moving`. The body of a message is its operation:
the same body under another `messageId` is a replay, which is recorded in the inbox
and adds no event. The events that the worker adds to a parked operation later are
`WagerService`'s. Faults are counted for both sides together.

`HttpApi` reduces `WagerService`'s transactions to what a reader can tell: a
session holds a wallet row, `Append_` takes a number of the `BIGSERIAL` that all
wallets share, and `Commit` makes transaction and entry visible. So numbers are
lost by rollbacks and become visible in another order than they were taken,
except within a wallet, whose row is locked; that is what the cursor of
`getLedger` depends on. The client may ask for its page again at any time and with
any limit, valid or not. Requests come with every combination of roles and
`providerId` claim; a request that is refused changes nothing, so refusals are
guards, and the answers of the two read endpoints are operators on the committed
rows.

`Lifecycle` is one process from `fxapp.New` to its exit status. `fx` starts the
appended hooks in order and stops them in reverse; the order is that of the
providers and `Invoke`s, with the pool first because all of them ask for it. Each
component has at most one job in hand, without a connection or inside
`UnitOfWork.Do`. Time passes only while an `OnStop` waits, and two clocks run: the
hook's own deadline and that of the whole stop. No work in hand is sure to end: a
request or a message is not cancelled, and a loop is, but its rollback runs under
`context.WithoutCancel`. `loopTime` is a history variable, the time that stopping the
two loops has taken. A failed `net.Listen` stops what
has started, under the context of the start.

## 3. Runs

Passing runs:

* **idempotency** (two callers, two consumers, one fault): the same bet over HTTP
  and SQS, its key with another amount, its external id under another key, a bet in
  another currency than the wallet's, a message id with two contents, an invalid
  request. `AnswersHold`: an answer that was given stays true: a final outcome is,
  with its code and its balance, what every replay shows, except that the balance told
  with a rejection for the wrong wallet or currency comes back in the operation's
  currency (see **replay_currency**). And nobody who submits an accepted operation
  is told that it conflicts with itself. `InboxImpliesHandled`: an inbox row means a
  committed operation.
* **cross** (two callers, a consumer, a worker, two wallets, `MaxMinor = 2`):
  two bets of which the balance covers one, a win that overflows a full wallet,
  and operations on a second wallet that share a key, an external id or a
  reference with the first. `TypeOK`, `LedgerChain`, `ReconcileConsistent`,
  `VersionsContiguous`: balance, ledger, reconciliation and event versions agree
  at all times. `EffectOnce`: one row, one entry and one event each.
  `RetrySettles`: after a lost race on a unique index the one retry ends in its
  lookups. `NoWaitCycle`: no deadlock among the locks and index waits.
  `ActsAtomically`: `WagerService` implements `WagerAtomic`, with requests,
  messages, parked operations and wallets that are opened.
* **reversals** (two callers, two workers, one fault): a refund and a rollback race
  for one bet, before and after it, and the bet may be of another round than they
  say. `ReversedOnce`; `ReversalSound`: a processed reversal is the exact opposite of
  what it names; `WalletLockHolds`; `BackstopsIdle`: the wallet lock is enough, the
  single-reversal index and the version test never have to act, and a unique
  violation only comes from another wallet; `NotFoundIsTrue`: what is rejected as not
  found is not there; `HistoryFrozen`: final rows, identities and ledgers never
  change, and a parked row that changes becomes final or counts exactly one attempt
  more.
* **progress** (a caller, a worker, one fault, fairness): a rollback of a win of
  a bet, in any order. `PendingResolves`: a parked operation becomes final.
  `SessionsFinish`: what begins ends. `BackoffSound`: for every parked row, at its
  attempt and all later ones and at every configuration of base and limit that TLC is
  given, the delay is the base doubled per attempt up to the limit, positive, and
  never shorter than the one before; the defaults give the five minutes of the
  documentation.
* **outbox** (two publishers, three events in two groups, batches of three in
  chunks of two, reschedules into the present or the future, one fault): `TypeOK`,
  `PublishedIsDelivered`, `TickAdvances`: every call of a tick, successful or not,
  ends the tick or leaves less of it.
* **consumer** (two workers, a reused message id, a refused and an invalid
  message, batches of two, one fault): `TypeOK`, `NothingLost`, `ProcessedOnce`,
  `DeadLettersExplained`.
* **delivery** (one worker, one publisher, an operation that moves a balance, sent
  twice, one fault anywhere, one duplicate after the broker's window, fairness): from
  queue to queue. `NoMessageWithoutEvent`: what has left the command queue has a
  committed event or is in the dead-letter queue, and there is no event without its
  commit. `ImplementsChannel`: the two together do what `Channel` promises.
  `EventuallyDelivered`: every message ends outside the queue, dead-lettered or with
  its operation's event in the event queue. `EventuallyPublished`: every event is
  marked published.
* **api** (two writing sessions, two wallets, two providers, a client that
  pages): `PagesExact`: what the client has collected is a prefix of
  the wallet's ledger, whatever commits or rolls back between its pages.
  `LastPageComplete`: a page without `nextCursor` shows all that was committed.
  `ProvidersIsolated`: no answer to a provider depends on another's rows.
  `AmountsExact`: texts are accepted exactly if they are plain decimals that fit,
  and mean the number they say, in both directions and at both ends of the integer.
* **lifecycle** (every set of enabled components, work that may hang, fairness):
  `PoolClosesLast`; `DeadlinesKept`: when the time of the whole stop is over, the
  consumer has had its own deadline unless the loops took more than the slack, and the
  HTTP server has had its own unless they took a whole worker deadline more than that;
  `CleanExit`; `StopAdvances`: every step of `fx` while it stops brings the end nearer,
  and the work of the components never moves it away; `StopEnds`. Each also after a
  failed start where it applies.

Runs in which the code does not do what the repository says of it:

* **overflow_pending**: `PendingResolves` fails when the credit of a parked
  refund would overflow the wallet. `apply` returns the error, the worker's SQL
  transaction rolls back with its attempt count, and the row is retried for ever;
  the documentation says it is rejected after `PENDING_MAX_ATTEMPTS`.
* **outbox_order**: `GroupOrder` fails. `next_attempt_at` is the instant the
  writing transaction began, not its commit, `UPDATE ... RETURNING` has no order,
  and a rescheduled event is overtaken: the queue can have a wallet's events out
  of version order. Consumers must order by `walletVersion`.
* **replay_currency**: `ReplaysAgree` fails. A bet rejected with `CURRENCY_MISMATCH` is
  answered with the wallet's balance in the wallet's currency, but
  `result_balance_minor` is stored without one and read back with the transaction's
  (`Stored` in `WagerService`): a replay shows the same number in another
  currency, where the documentation promises the balance observed originally.

Things met while modelling that have no run of their own. `Reschedule`
does not compare `locked_by`, so a publisher whose lease has run out can end the
lease of its successor; `PublishedIsDelivered` holds all the same, and the broker
removes the duplicate if it comes within the deduplication window. After a transient failure the consumer goes on with the
next message of the batch, also when it has the same `MessageGroupId`, so a
group's operations can be committed out of order; an operation whose reference
has not come is parked. `Totals` casts sums over a wallet's whole life to
`BIGINT`, so a wallet with enough turnover cannot be reconciled although its
balance fits; `ReconcileConsistent` is about the wallets whose totals fit. The
stop's time is one worker deadline, one HTTP deadline and five seconds, but three
components have the worker deadline: two loops that take theirs, 20 seconds each (their
rollbacks run under `context.WithoutCancel`), use up all 40, and the process ends before
the HTTP server and the consumer are asked to stop; `DeadlinesKept` says up to which
time in the loops they are. The comment at `fxapp/app.go:75`, "every
component that uses the pool has already stopped", does not hold when a stop has
timed out: such work is then turned away by the closed pool like any failure, its
message is redelivered, and the exit status is not 0; `PoolClosesLast` and
`CleanExit` say exactly that. A message may be both committed and in the
dead-letter queue, when its commit's acknowledgement was lost on its last
delivery; `Channel` permits it. The doubling in the backoffs can only overflow
when the configured limit is more than half of the largest duration, about 146
years; `BackoffSound` is about the limits below.

## 4. Bounds

`MaxMinor` 2 or 4 puts full, empty and insufficient wallets and the overflow
within two or three operations. `MaxAttempts` 1 or 2 is enough for a first
attempt, a repeated one and the last. Two sessions of a kind suffice for the
races here, all of which are between two transactions; **cross** has four
sessions because a wait cycle could involve a caller, a consumer and a worker. In
**reversals** the bet's two forms share their key, so that one of them is there; a
reversal with a wrong amount is left to the theorem `ReversalsUndo`.
Commands are submitted any number of times, but the unique keys bound the rows.
`MaxFaults` counts infrastructure failures of all sessions together; what a
session leaves behind when it fails does not depend on earlier failures. In
`Outbox`, three events and chunks of two give a full chunk, a rest and a
chunk of one; `MaxDelay = 1` puts a rescheduled row behind newer ones or not, and a
duplicate after the deduplication window, which multiplies the states, is left to
**delivery** (`MaxLate` is 0 in **outbox** and 1 there). In `SqsConsumer`, `MaxReceive = 2` gives a redelivery and a
redrive. `Delivery` multiplies the two and its liveness costs most, so it has one worker, one
publisher, and one operation with two events, sent twice and received one message at a
time: enough for a redelivery, a replay, an event that waits while the other is
published, and a fault on either side; for more messages and operations there are the
theorems. In
`HttpApi`, four sequence numbers and limits of one and two give gaps by
rollbacks, numbers interleaved over two wallets, a full page, a full last page and
a page beyond it; integers have 11 bits (`MaxMinor = 1023`, two whole digits),
so that the largest amount, 10.23, is among the texts with its neighbours.
`BackoffSound` uses 11 bits too (in **progress**) and twelve attempts, more than the doublings
that fit. In `Lifecycle`, the deadlines 4, 3, 1 and 12 are the 20, 15, 5 and 60 seconds of the
code in units of five seconds. Symmetry is used only for interchangeable publishers, workers, sessions,
providers and wallets, in runs without liveness. The lifecycle ends in
`exited`, and outbox, consumer and delivery
come to rest when everything is published or settled, so these runs turn the
deadlock check off; in
`WagerService` a caller can always submit again, so the deadlock check stays on and
`NoWaitCycle` looks at the waits themselves.

Every property has a mutant in `PROJECT.json`: a small change to a modelled
definition, of the kind a bug in that code would be, under which the property
fails. The mutated forms stand next to the definitions.

## 5. Fairness

* `WagerService`: strong fairness for the statements of a session. A statement
  may be enabled and disabled again while others take the wallet; PostgreSQL
  queues the waiters of a row, so each gets its turn. Weak fairness for the
  claim: the worker's timer fires after every pass. No fairness for callers,
  messages or faults.
* `Delivery`, consumer side: strong fairness for `Receive` and `Redrive`, since
  the broker serves a worker that keeps polling although a group is blocked now
  and then; weak fairness for a worker's calls, its restart, and the end of
  visibility timeouts. Publisher side: weak fairness for claims (the timer of
  `loop`), for the calls of a tick and for the end of a lease. Faults are bounded,
  not fair: the run shows that messages and events arrive once failures cease.
  `SqsConsumer` and `Outbox` are checked for safety on their own and for liveness
  here.
* `Lifecycle`: weak fairness for `fx`, which goes on and whose timers run, and
  for the end of an idle goroutine that was asked to stop. None for requests, messages,
  passes of a loop or connections in use: `StopEnds` holds although one of them may
  hang for ever.

## 6. Proofs

The eight proof modules state, for every value of the constants, every invariant
and every action property of the passing runs, and both refinements; the types of
`HttpApi` and `Lifecycle` are proved and no run of their own repeats them. Each
theorem has the shape `Spec => []P`, `Spec => [][A]_vars` or `Spec => Abstract`,
and follows from an inductive invariant of its module.

| Module | Theorem: property | Inductive invariant |
|---|---|---|
| `WagerProofs` | `TypeCorrect`: `TypeOK`; `LockingSound`: `WalletLockHolds`; `LedgerSound`: `LedgerChain`; `AddOverflowExact`, `SubOverflowExact` | `Inv` |
| `WagerHistoryProofs` | `OneRetrySuffices`: `RetrySettles`; `LockMakesBackstopsIdle`: `BackstopsIdle`; `NothingUndoneTwice`: `ReversedOnce`; `InboxIsHonest`: `InboxImpliesHandled`; `AnswersAreKept`: `AnswersHold`; `NoDeadlock`: `NoWaitCycle`; `HistoryIsFrozen`: `HistoryFrozen`; `NotFoundIsHonest`: `NotFoundIsTrue` | `HistoryInv` |
| `WagerEffectProofs` | `ReversalsUndo`: `ReversalSound`; `VersionsNumberEntries`: `VersionsContiguous`; `ExactlyOneEffect`: `EffectOnce`; `ReconcileAgrees`: `ReconcileConsistent`; `DelaysDouble`: `BackoffSound`; `Serialisable`: `ActsAtomically` | `EffectInv` |
| `OutboxProofs` | `OutboxTypeCorrect`: `TypeOK`; `PublishedIsSafe`: `PublishedIsDelivered`; `TicksAdvance`: `TickAdvances` | `Inv` |
| `SqsConsumerProofs` | `ConsumerTypeCorrect`: `TypeOK`; `NoMessageIsLost`: `NothingLost`; `InboxDeduplicates`: `ProcessedOnce`; `DeadLettersHaveCause`: `DeadLettersExplained` | `Inv` |
| `DeliveryProofs` | `NothingIsLost`: `NoMessageWithoutEvent`; `Refinement`: `ImplementsChannel` | `Inv` |
| `HttpApiProofs` | `ApiTypeCorrect`: `TypeOK`; `PagesAreExact`: `PagesExact`; `LastPageIsComplete`: `LastPageComplete`; `ProvidersAreIsolated`: `ProvidersIsolated`; `AmountsAreExact`: `AmountsExact` | `Inv` |
| `LifecycleProofs` | `LifecycleTypeCorrect`: `TypeOK`; `PoolIsLast`: `PoolClosesLast`; `DeadlinesAreKept`: `DeadlinesKept`; `ExitIsHonest`: `CleanExit`; `StopNearsItsEnd`: `StopAdvances` | `Inv` |

Assumptions. They are the `ASSUME`s of the modules, which TLC evaluates in every
run: bounds and sizes are natural numbers, `Null` and `NoProvider` are not values
of any other kind (`Null` is no failure code and no message either), sessions of different kinds
are different, commands, openings, messages and texts have their types, the sets
of events are finite, `AmountsAssumption` ties the digits that are converted to
the integer's width, `DurationAssumption` keeps configured delays to half of what a
duration can hold (about 146 years) and the default limits within it, operations and
wallets are different aggregates, and deadlines are positive.

**The wager service.** `WagerProofs` has
`Inv == TypeOK /\ WalletLockHolds /\ LedgerChain`. `LedgerChain` is not inductive
alone: a commit appends the entry a session computed earlier, and that the
entry begins at the present balance is a fact about the session's copy
(`FreshCopy`). `FreshCopy` survives the commits of other sessions only because no
other session holds the same wallet (`Exclusive`), and both speak of locals that
exist only at certain statements (`SessionShape`). The lemmas follow that order:
what every outcome of the domain rules guarantees (`OutcomeOK` and a lemma for
each of the rules), then types action by action, then the lock, then the chain.

`WagerHistoryProofs` adds what a session knows of the committed rows and of the
other sessions. `HistoryInv` is `Inv` with `SessionsInv` (where a session's
operation comes from; the row it has claimed is still pending; the outcome it has
computed is still one that `apply` could reach on the committed rows; no row of
its wallet has its key or external id once it has looked under the lock; before
its commit no row at all has), `PairsInv` (two sessions never have the same claim,
insert the same key or external id, or record the same message), `RowsInv` (the
committed rows are ones that commits can make, with unique keys, none undone
twice), `AnswersInv` and `InboxImpliesHandled`. The central lemma is
`ChoiceKept`: what a session decided under the lock of its wallet stays right
while others commit on other wallets, because references that count are of the
same wallet and final rows do not change. A lookup can only be overtaken by a row
of another wallet, and that row is there when the retry looks again, hence
`RetrySettles`. `NoWaitCycle` follows from the order in which a transaction takes
inbox entry, claim, wallet lock and index entries. For `AnswersHold`, `Labelled`
says that an outcome with any code but those of the wrong wallet or currency has its
balance in the operation's currency, so that storing it changes no field of it.

`WagerEffectProofs` relates the tables: `EffectInv` is `HistoryInv` with
`LedgerOK` and `EventsOK` (entries and events are those that the rows call for, in
both directions), `ReversalSound` and `VersionsContiguous`. `EffectOnce` then
is a count. The refinement is of all five tables. It maps every statement before
the commit to a stutter (`LookupStep`, `OperationsStep`: only `OpenWallet`, a
commit and the replay of a message write anything) and the commit, with or without
an acknowledgement, to one step of `WagerAtomic`: `Execute` for a request,
`Receive` for a message, `Resume` for a claimed row. The hard part is that the
outcome computed under the lock is still the one the abstract step would compute
at the commit (`CommitIsAtomic`); that entry and events are those of the outcome
is `CommitLeaves`. `ReplayIsAtomic` covers the message whose operation was
already there: its inbox row is recorded next to the transaction with its very
command, and nobody recorded the message in the meantime. `ReconcileConsistent` needs an
induction along the ledger, which is done with a least counterexample
(`Counting`, from the well-foundedness of the natural numbers): credits less
debits up to an entry are the balance after it. `BackoffSound` uses the same
principle on the attempts: `TwiceFits` shows that below the limit the machine's
doubling is the integers', `Iterates` that the loop then is its reference, which
doubles without a width and without a limit.

**What the prover can say about progress.** Liveness itself stays with TLC, but a
safety half of it is proved: a tick of the publisher and a stop of the process each
have a measure that their own steps only reduce (`TickAdvances`, `StopAdvances`). For
a tick it is the events left in chunk and batch, the failures in hand and the call
it is in; `TakeLength` says that cutting a batch into chunks loses and repeats
nothing. For a stop it is the hooks left to call and to return and the time left. So
each of them ends after finitely many of its own steps, whatever fails and whoever
else is at work; only that the next step comes is left to fairness.

**Outbox.** `Inv` adds to the types that a row a publisher is about to mark is in
the queue, which holds from the acknowledgement of the batch to the update
although the lease may have gone to another publisher in between. `TypeOK` also
bounds the clock of the model; `ClockInv` counts for that the transactions begun,
the faults, and the failures still to be rescheduled.

**Consumer.** `Inv` follows a message through receive, handle and settle: what a
worker is about to delete is committed or already in the dead-letter queue, what is
about to be dead-lettered has a reason that no later step takes away
(`CallsJustified`), and every commit has its inbox row and every row its commit.

**Delivery.** The theorems about the two modules are used through `INSTANCE`; a step
of one side leaves the other's state alone, except that a commit also adds a row to
the outbox. The link is `Matched`: the event of an operation is in the outbox exactly
if a message with that operation is committed; it needs that the event of a wallet is
never that of an operation (`EventOfWallet`). `Refinement`
proves that the initial states are `Channel`'s and that every step is a step of
`Channel` or a stutter.

**HTTP API.** `PagesExact` is about the reader, but what makes it true is the
writers: numbers are taken before the commit, so entries could appear behind a
cursor. `Inv` says that they do not: a wallet's row has one holder, an
uncommitted number is later than all entries of its wallet, hence entries are
committed in the order of their numbers, and the cursor stands at the last entry
seen. `ListExact` computes what the query returns from that. `ProvidersIsolated`
needs that ids are unique. The lemmas on `Amounts` (`ConvertExact`, `ParseExact`,
`AmountExact`) hold at every width.

**Lifecycle.** `TimeInv`, a part of `Inv`, bounds what is left of the stop's time from
below, hook by hook: together with the time the loops took, it still covers the
deadlines of the hooks that come after them and the slack. `DeadlinesKept` is its
consequence when nothing is left.

Only model-checked, by TLC:

* `PendingResolves`, `SessionsFinish`, `EventuallyDelivered`,
  `EventuallyPublished`, `StopEnds`: liveness needs fairness and `ENABLED`, which
  the prover does not handle.
* The three properties that fail, of **overflow_pending**, **outbox_order** and
  **replay_currency**.

## 7. Not modelled

* JSON, routing, headers, body limits and the coding of the cursor: stateless
  conversions around the values that `HttpApi` works with.
* The signature, issuer and audience checks of a token (a library): a token
  is valid or not. Health and readiness endpoints: they read and change nothing.
* Durations other than the backoffs and the stop's deadlines: lease and
  visibility lengths appear as ends that may come at any moment.
* `MarkFailed` and the status `FAILED`: no code outside tests calls it.
* Configuration (read once; its values are the constants of the modules),
  metrics and logs, the migration runner, the SQS client's setup: no state that
  the modelled parts depend on after the start.

## 8. Plan

In this order; all ten are in place.

1. `Money`, `Wager`, `WagerService`: the core and its interleavings.
2. `WagerAtomic`: the promise, and the refinement.
3. `WagerProofs`: types, lock and ledger.
4. `Outbox` and its broker.
5. `SqsConsumer` and its queue.
6. `Lifecycle`: hooks, deadlines, and the pool closing under what still runs.
7. `Amounts`, `Backoff` and the pages of `HttpApi`, against reference definitions.
8. `Delivery` and `Channel`: from a message on the command queue to its event on
   the event queue.
9. Proofs of the safety properties and refinements of every component.
10. `WagerAtomic` for all five tables, the backoff at every width, and the
    measures that ticks and stops reduce.

Left: measures for a session of `WagerService` and for a message's way through
`SqsConsumer`, and lemmas shared by the proof modules.
