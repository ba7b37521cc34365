# Forklaunch in TLA+

A verification development for the repository `forklaunch/forklaunch`: TLA+ modules translated from its source, TLC configurations that check them on small instances, and theorems TLAPS proves for every instance.

Paths are relative to `src/`; `W` stands for `blueprint-rs/crates/implementations/worker` and `I` for `blueprint-rs/crates/interfaces/worker-interface/src`, and `ecommerce`, `billing` and `iam` for the directories of those names under `blueprint-rs/crates/implementations`.

## 1. The system and its parts

Forklaunch is a framework and a set of ready-made services ("blueprints"), in TypeScript and in Rust, with a command line tool that generates applications from them. Most of it transforms one request, or runs once at build time. Two parts of it depend on orders of events nobody can enumerate in tests:

- the **durable job machinery** of the Rust blueprints: a queue with leases in PostgreSQL or Redis, a runner that processes deliveries with renewals, drains and timeouts, a Kafka worker that settles deliveries in transactions, and a distributed control;
- the **services** where money, irreversible effects or credentials meet redelivery, races and crashes: in Rust, payments and the orders and stock behind them, billing webhooks, and logins; in TypeScript, the store with its checkout, its webhooks and its stock.

This development models those two, and the TypeScript counterparts of the workers.

| Part | State it keeps | Operations | Modelled |
|---|---|---|---|
| Durable queue contract: `I/async_queue.rs`, `I/admin.rs` | jobs, attempts, leases | enqueue, claim, ack, fail, renew, retry_dead_letter, purge_terminal | `JobQueueContract` |
| PostgreSQL job store: `W/worker-database/src/postgres.rs`, its migration | table `fl_worker.jobs` | the same, as transactions | `PostgresQueue` |
| Redis job store: `W/worker-redis/src/leased.lua`, `leased.rs` | a hash, five indexes, a sequence, a scan cursor | the same, as one script | `RedisQueue` |
| Worker runner: `W/worker-database/src/runner.rs` | consumers, their batches, timers, the report | claim, process, renew, settle, drain | `WorkerRunner` |
| Worker control: `W/worker-database/src/control.rs` | Running, Paused or Draining | pause, resume, drain, forward_signals | `WorkerRunner`, `SignalBus`, `KafkaWorker`, `WorkerRetention` |
| Redis signal bus: `W/worker-redis/src/signals.rs` | subscription, buffer, health | listen, next_signal | `SignalBus` (partly) |
| Kafka worker: `W/worker-kafka/src/client.rs` | group membership, buffered deliveries, transactions, a handle's health | run, enqueue_batch | `KafkaWorker`, `KafkaPublisher` (partly) |
| Job retention: `W/worker-database/src/retention.rs` | what has been purged, a stop channel | run, run_worker_controlled | `WorkerRetention` |
| In-memory queues, HTTP control, tenant isolation, encrypted channel | mutex-protected vectors, or none | | no: one short critical section or a pure transformation each |
| TypeScript Redis worker: `blueprint/implementations/worker/redis` | a list, the pages its ticks hold | enqueue, a tick's callback | `IntervalWorker` |
| TypeScript Kafka worker: `blueprint/implementations/worker/kafka` | offsets, processed messages | produce, consume, republish | `TopicWorker` |
| TypeScript database and BullMQ workers | rows; BullMQ's own | interval callbacks | no: what overlapping ticks write depends on the identity map of one shared MikroORM entity manager, and BullMQ's concurrency is in its library |
| TypeScript store, orders and stock: `blueprint/ecommerce-stripe` with `implementations/ecommerce/base` | orders, stock, order events | transitionOrder, enqueueJob, processOrderEvents | `StoreInventory` (partly) |
| TypeScript store, checkout and payment webhooks: the same, with `implementations/ecommerce/{stripe,paypal}` | pending orders, payments, intents, webhook events | checkout, resume, confirm, capture, fail | `StoreCheckout` (partly) |
| Orders and inventory: `ecommerce/ecommerce-base/src/{postgres,events,store}.rs` | orders, stock, queued events, receipts | transition with event, apply event, adjust stock | `OrderInventory` (partly) |
| Payments: `ecommerce/ecommerce-base/src/lib.rs`, `ecommerce-stripe/src/http/webhook.rs`, `ecommerce-paypal/src` | payments, audits, processed events, advisory locks | create, claim, capture, release, confirm, fail, reconcile, void | `EcommercePayments` (partly) |
| Billing webhook receipts: `billing/billing-base/src/services/postgres/webhooks.rs` | receipts, attempts, event locks | deliver, inspect, resolve | `BillingWebhooks` |
| Accounts and logins: `iam/iam-base/src`, `framework-rs/crates/axum/src/cookie_session.rs` | users, provider identities, sessions, cookies, pending authorizations | login, OIDC callback, logout, password change, disable, delete, bind, unbind | `IamSessions` (partly) |
| Billing records, managed creation and synchronisation; IAM directory and tokens; catalog, carts, shipping | rows, provider operations | request handlers | planned in part: sections 8 and 9 |
| Rust and TypeScript frameworks, TypeScript blueprints, CLI, docs, scripts | configuration, caches | | no: request transformations, code generation, text |

How they interact. The runner calls the store through the queue trait and knows nothing of it but what the trait promises. It shares a `WorkerControl` with other threads, with `forward_signals`, which is fed by the signal bus, and with the HTTP control. The store is shared by any number of runners and producers, in other processes too. The Kafka worker uses a `WorkerControl` but no job store: the topic is its queue and the broker's transaction its settlement.

The payment handlers change orders through `transition_order_with_event`, which enqueues the order's event into a job queue in the same transaction; a worker applies it to the stock. Providers and operators act on the same payments from outside. The billing receipts wrap a callback of the application; the IAM logins sit on a session layer (`tower-sessions`) that loads and saves cookies around each request. The three services share no state.

In the TypeScript store a request reads an order, moves it with a conditional write and then enqueues an event, in separate calls; a worker on the Redis list applies the events to the stock. Checkout requests and webhook deliveries meet in the payment table, whose unique index admits one pending payment of an order.

What is hard about it:

- leases lapse while their holder still works, and stale holders come back at any time;
- requests are cancelled by timeouts and drains after they were sent, and may still take effect;
- a claim in PostgreSQL is two statements among other sessions' transactions; a claim in Redis also recovers, and admin calls upgrade an older data format page by page while everything else goes on;
- the control changes between any two reads of it;
- a group coordinator takes partitions away at any time, and commits have unknown outcomes;
- an advisory lock goes with the connection that holds it, while the handler it protects works on with other connections;
- a provider's money moves before, after or without the record of it, and its events come again whenever it likes;
- order events reach the stock in any order;
- ticks of a TypeScript worker overlap, and a page is off the list before it is processed;
- a login verifies a password, or waits for a provider, while the account changes, and requests in flight save cookies that were deleted meanwhile.

`PROJECT.json` lists these hazards one by one, each at its line and with the properties that cover it.

## 2. The modules

```
  JobQueueContract <- PostgresQueue (refines it)      PostgresQueueMC
                   <- RedisQueue    (refines it)      RedisQueueMC
                   <- WorkerRunner  (calls it)        WorkerRunnerMC
  SignalBus  KafkaPublisher  KafkaWorker
  WorkerRetention  TopicWorker  IntervalWorker        WorkersMC (one at a time), KafkaWorkerMC
  OrderInventory <- EcommercePayments (extends,       EcommercePaymentsMC
                                       refines it)
  OrderInventory  IamSessions  BillingWebhooks        BlueprintServicesMC (one at a time)
  IntervalWorker <- StoreInventory (extends it)
  StoreInventory  StoreCheckout                       StoreMC (one at a time)

  proofs: JobQueueContractProofs  PostgresQueueProofs  RedisQueueProofs  WorkerRunnerProofs
          WorkersProofs   SignalBus, KafkaPublisher, TopicWorker, KafkaWorker
          ServicesProofs  IamSessions, BillingWebhooks, OrderInventory, EcommercePayments
          StoreProofs     IntervalWorker, StoreInventory, StoreCheckout
          SumProofs       sums over finite sets, used by ServicesProofs and StoreProofs
  PostgresQueueProofs and RedisQueueProofs instantiate JobQueueContractProofs with their views
```

**JobQueueContract** is what the two traits promise. It has no clock: a lease is live or `lapsed`, a retry is `delayed` or due, and `TimePasses` moves any of them on; the stores' clocks refine that. `issued` and `outcome` are histories: the tokens ever given out for an identity and the settlement accepted for each. `Claim(D, R, C, X, fresh)` is one claim in its full generality: it dead-letters `D`, returns `R` to the queue (the Redis script does, the table does not), delivers `C`, and `X` are deliveries that are already late when the claim takes effect.

**PostgresQueue** has one action per statement, Commit and Abort. `rows` is the committed table, `tx[s].writes` a session's uncommitted writes, which are also its row locks. A statement with SKIP LOCKED passes over locked rows; any other waits, that is, its action is disabled, and it evaluates its WHERE on the row it finds when the lock is released, as READ COMMITTED does. A claim is `ClaimExhausted`, `ClaimCandidates`, `CommitClaim`, and other sessions and the clock move between them. `held` are the leases consumers were given: any of them may be presented at any time, however stale, and `CommitClaim(s, FALSE)` is a reply that is lost.

**RedisQueue** has one action per invocation of the script, because Redis runs it without interleaving; recovery and index pages are part of the action that makes them. `db` is what the script reads and writes, the five indexes apart from the records, so that they can disagree. Ties in a sorted set and pages of HSCAN are chosen nondeterministically. The initial states contain terminal records of the release that had no indexes.

**WorkerRunner** is one call of `run_controlled`: its consumers, a `WorkerControl` and the store, whose steps are the contract's own actions through `INSTANCE`. A delivery is its own token (which claim of the job it was). A request is in `asked` until it takes effect, then its answer is in `reply`; a request whose future was dropped moves to `stray` and may still take effect, or never. All timers (leases, renewal ticks, operation and drain timeouts) count down together. With `Prompt` a timer that ran out is served before time goes on; without it an executor may stall for any time. A consumer that crashes is one that takes no more steps.

**KafkaWorker** is `KafkaWorker::run` for the replicas of a group on one partition. An iteration is split at each of its four reads of the control (`Loop`, `Assign`, `ChooseBuffered`/`ChooseRecv`, `KeepAside`/`TakeReceived`), at its three epoch checks and at the two requests of the transaction. `Evict`, `Lost` and `Assigned` are the coordinator and the rebalance callback. The broker is external and modelled from how the client uses it: it rejects offsets of an old generation, and it does not hand a partition on while a transaction with its offsets is open.

A run of it leaves behind what the code leaves: a second call of `run` on the same worker (`Rerun`) starts with the assignment, the producer and the transaction of the first. `overtaken` is a history: some record was committed while an earlier one was kept aside.

**KafkaPublisher** is `KafkaProducer::enqueue_batch` on a transactional handle and its successors: the lock, the healthy flag that is cleared before and set after the transaction, the items, the commit that goes on in a blocking thread when the caller's future is dropped, and the fencing of older handles when a fresh one initialises.

**WorkerRetention** is `run_worker_controlled`: consumers and maintenance as two futures of one task, with one stop channel and one control between them. The consumers are reduced to what the loop sees of them.

**TopicWorker** is the TypeScript Kafka worker on one partition: a message fails or is processed, a failure is published again with one more retry, the offset is resolved and committed later, the group may hand the partition on at any time and the producer may not be connected yet. kafkajs is external and modelled from how the worker uses it.

**IntervalWorker** is the TypeScript Redis worker: ticks of one process overlap, a tick pops a page in one MULTI, processes its events one after the other and pushes the failed ones back. `done`, `tries` and `lost` are histories.

**StoreInventory** extends it with the orders of the TypeScript store. A request goes through `GetOrder`, `CheckTransition`, `WriteTransition` and `EnqueueJob`, which are the four calls it awaits, and may fail between any two; a webhook does the same for pending orders only. The events travel through IntervalWorker's list, and `ApplyEvent` or `RefuseEvent` is what a tick does with one.

**StoreCheckout** is the checkout of one cart and the webhook deliveries about its payments, one action for each call to the database or the provider, with the request's local variables in `client` and `hook`. A success comes as one of two kinds of event: `confirm` carries the amount and the currency the payment was recorded with, `mismatch` carries others or none. `Compared` is what the handlers make of them once the payment is confirmed: they go on to the order, or leave it as it is and mark the event.

**SignalBus** is one listener, its bounded channel, and `forward_signals`, with the two health checks around every wait. Publications may be valid signals or garbage; the connection may break with any suffix of the publications still on the wire.

**OrderInventory** is the committed status of orders, the stock, and the queue between them reduced to what its consumer can see: an event is in `jobs`, in `dead` or gone, and may be applied from either of the first two by a worker whose lease is over. `receipts` is the table that makes a second application a no-op. `supplied` is a history: the units put in by hand.

**EcommercePayments** extends it with the two webhook handlers. A handler (`pc`, `serving`) goes from `Begin` (the event's lock) through `Guard` (the payment's lock) to the claim, the capture, the confirmation, the order and `MarkProcessed`; each store call is an action because each is a transaction of its own. The payment's guard is dropped when `process_stripe` or `process_paypal` returns, the event's when the delivery ends. `Crash` ends a delivery anywhere, `LoseLock` takes the locks and lets it go on. `CaptureOrder` has the four outcomes an answer can stand for: captured, captured but reported as an error, denied, nothing happened. `Inspect` with `RecordVerifiedCapture` or `RecordVerifiedCancellation` is an operator's repair: `inspected.current` says whether the payment's record is still the one read, which the code decides by comparing it, `updated_at` included. `charge` and `sent` are the provider's side. The worker's own steps change nothing that is read here, so they are left to OrderInventory, whose specification this one implements.

**BillingWebhooks** is `with_webhook_receipt` and `resolve_webhook`: the lock and the receipt live in one transaction, the attempt is committed on another connection before the callback's effects begin. `seen` are the attempts operators have read at any time. `started`, `allowed` and `severed` are histories.

**IamSessions** has a set of rows per table. Transactions of one statement are one action; `authenticate`, `session_for_provider_identity` and `set_password` are several, with the row locks (`userLock`, `bindingLock`) that their statements take and the uncommitted DELETE of a password change carried in the request. A login continues, after its transaction, with the revocation of the browser's previous credential, the session layer's cycle of the cookie and the final save. The password is a number: what the property needs of a hash is which change it comes from.

Mutants. A definition preceded by a comment "Mutant" is a plausible mistake in the definition after it. `PROJECT.json` says which property each of them must violate; nothing else uses them.

## 3. What the runs check

| Run | Instance | Shows |
|---|---|---|
| `contract` | 2 jobs, 4 tokens, budgets 1 and 2, 1 arrival, terminal jobs of earlier runs | `BudgetSpentExactly`, `TokensFence`, `TokensNeverReturn`, and under fairness `EveryJobEnds` |
| `postgres` | 2 jobs, 2 sessions, 2 tokens, leases of 1 and 2, limits 1 and 2, time to 3, 2 inserts and 2 arrivals | `LeaseIsExclusive`, `ImplementsContract` |
| `redis` | 2 jobs, 3 tokens, leases of 1 and 2, batches of 2, one lease recovered per call, time to 3, 2 arrivals | `IndexesAgree`, `UpgradeMissesNothing`, `LeaseIsExclusive`, `PurgeRespectsRetention`, `ImplementsContract` |
| `runner_prompt` | 2 consumers, 1 job, lease 6, renewal 2, 2 signals | `LeasesOutliveWork`, and under fairness `RunReturns` |
| `runner_stall` | 2 consumers on 1 job, or 1 consumer on 2 jobs in batches of 2; 2 attempts, stalling executor | `CompletedOnce`, `ReportIsTrue` |
| `runner_drain` | 1 consumer, 1 job | violation: finding 1 |
| `kafka_group` | 2 replicas, 2 jobs, 2 attempts, 1 eviction, 1 failure, and 2 signals or 1 with a further run | `NothingSkipped`, `SettledOnce` |
| `kafka_pause` | 1 replica, 4 signals | violation: finding 2 |
| `workers` | one of: a channel of 1 with 3 publications; 2 calls of `enqueue_batch` with batches of 2 on 2 handles; consumers with 2 jobs beside maintenance of 2 statuses with 1 due job each at most; 2 Kafka replicas with 2 jobs, 1 eviction, 1 failure; 2 topic consumers with 1 event, no retry, 1 rebalance, 1 fault; 2 overlapping ticks of 1 server with 2 events in pages of 2, 1 crash | `AppliedInOrder`, `LossDrains`; `WholeBatches`; `EndsTogether`; `JobsSettle`; `TopicNothingSkipped`, `EventsSettle`; `EventsAccounted` |
| `payments` | 1 order, a PayPal and a Stripe payment, 2 handlers, 1 fault | `OneCapturer`, `AuditsPrevail`, `MarkedIsSettled`, `PaidIsCaptured`, `ImplementsOrders` |
| `services` | one of: 2 orders over 2 variants; 1 user with 2 passwords, 2 requests, 2 tokens, 3 cookies, 1 OIDC state; 1 billing event, 2 deliveries, 3 attempts, 2 breaks | `StockAccountsForOrders`; `IssuedUnderCurrentPassword`, `NoIssueWhileBarred`, `CookieNeverReturns`; `NeverRepeated` |
| `store` | one of: 2 orders over 2 variants, 2 requests, one of them a webhook, 2 events, 1 crash or stock adjustments; 2 checkouts of a cart, either edited once or beside 1 webhook delivery; 2 webhook deliveries beside 1 checkout, with two of: 1 fault, 1 edit of the cart, amounts that disagree | `StockMatchesDone`, `OneEventPerTransition`; `OneLivePayment`; `AnnouncedOnce`, `NoForgottenSuccess` |

Type invariants are not repeated by the runs: wherever a component has a proof module its type invariant is a theorem (section 5), and the strengthenings were checked by TLC on these instances before they were proved. Those of the stores contain the table's CHECK constraints and the lock table.

Why the bounds are enough for what the runs claim:

- *Stores.* Two identities are the least for overlapping batches, partly locked candidate sets and an index that mixes up records; two sessions are the least for a race. Time 3 with leases 1 and 2 lets a lease be renewed to a shorter one, lapse exactly at a boundary, and a retried job wait out its backoff. Two arrivals let a dead letter be revived, or an identity be purged and used again. In `redis` `RecoverLimit` is 1 instead of 128 so that the limit binds.
- *Runner.* `runner_prompt` takes the tightest timing `validate` accepts, a renewal at a third of the lease, with two ticks per interval so that a reply can fall inside an interval. A batch of two in `runner_stall` is the least where one lost lease cancels another's handler, and two consumers are the least that work on one job.
- *Kafka.* Two replicas and one eviction are the least for a fenced replica; the buffer of one record makes its limit bind. Two signals (pause, resume) fill and empty the buffer; `FewChanges` keeps the instance from having both signals and a further run at once. Four signals let a record overtake one that was kept aside, which is finding 2: after that `NothingSkipped` and `SettledOnce` claim nothing (`overtaken`), and their theorems hold for any number of signals.
- *Workers.* The six parts of `workers` share no state and a behaviour exercises one of them, chosen in the initial state. Three publications overflow a channel of one, with another behind; two calls are the least that contend for a handle and its successor; two ticks the least that overlap, and with two servers the same two lists would be held. With no retry the topic's last try is its first; the theorem holds for any number of retries.
- *Store.* Two events let the second overtake a retried first; one tick and one server suffice because overlapping ticks are `workers`' subject, and the theorem about events holds for any. A crash and stock adjustments do not occur in one behaviour. Two orders of the cart and two references are what two checkouts can create at most. Beside two checkouts the cart changes only as long as no event is sent, no call of a webhook fails and all amounts agree; the failures, the edits that lead to a second payment of one order and the amounts that disagree meet the two deliveries, two of the three at a time. The proofs have no such limits.
- *Payments.* Two payments of one order are the least where a payment created after a release meets the one released, and two handlers the least where a delivery meets its own redelivery; every event may come any number of times. One fault already takes both locks. Stripe and PayPal are one payment each because their confirmations differ. No payment's amount is wrong in the run (`Mismatched` is empty); the theorems hold for any `Mismatched`. Initially, and with `MaxSupply` 0, there is no stock: the inventory worker's steps are not taken here.
- *Services.* A behaviour of `services` exercises one of the three services, chosen in the initial state: they share nothing. Two orders, one of which needs both variants, compete for one unit; two requests are the least for a race, three cookies let one be rotated twice, and two passwords are the least for a change. Two breaks sever a lock and kill a later delivery, and three attempts let a resolved one be tried again twice.

`MaxSupply`, `MaxFaults`, `MaxPasswords`, `MaxBreaks`, `MaxArrivals`, `MaxInserts`, `MaxTime`, `MaxSignals`, `MaxEvictions`, `MaxFailures`, `MaxPublished`, `MaxHandles`, `MaxDue`, `MaxJobs`, `MaxReruns`, `MaxRebalances`, `MaxCrashes`, `MaxEvents`, `MaxEdits` and the number of tokens, cookies and attempts are bounds of the instances and are named as such where they are declared; each is a guard of the action it bounds. Deadlock is not checked because the runs stop at those bounds, and a runner that returned stops for good. Identities, tokens, sessions, consumers, replicas, handlers, requests and cookies are declared symmetric in runs of safety properties only.

## 4. Fairness

- *Contract*: some consumer keeps claiming, leases lapse and backoffs elapse. Nothing is assumed of ack and fail, so `EveryJobEnds` holds even when every consumer crashes; the retry budget bounds the redeliveries.
- *Runner*: time passes, the runner's own steps are polled, and an operation timeout fires. Nothing is assumed of the store, of handlers or of the caller. That is what a live tokio executor gives; a drain then ends because the drain timeout covers whatever a consumer is waiting for.
- *Kafka*: a replica runs its steps and is restarted with a new control when it ended; handlers end because of `handler_timeout`. Receiving, losing and getting the partition have strong fairness, of some replica and not of each, because they are enabled again and again for 100 ms at a time.
- *Retention*: both futures are polled, handlers end, and the store answers or the request fails.
- *Topic*: the group assigns its partition to somebody, a consumer with the partition goes on, its producer connects and offsets are committed in time. None of it while nobody has the partition.
- *Interval worker and store*: none; an event may wait for ever if no process runs, and no property says otherwise.
- *Services*: none is assumed and none of their properties is a liveness property: nothing in the code makes a provider or an operator act again.
- *Bus*: both tasks run, and a wait for a signal ends after 30 s.

## 5. What is proved

Every theorem holds for all values of the constants that satisfy the assumption of its module (sets of any size, any bounds); the assumptions say no more than that a null is no token, that durations and budgets are positive, and the like. `PROJECT.json` lists the theorems one by one; a theorem that states a property some run checks names it. All safety invariants, action properties and refinements the passing runs check are theorems.

Each proof has the same shape. A strengthening `Inv` of the property is shown to hold initially and to be preserved by `[Next]_vars`, one step per action and under it one per conjunct the action can disturb; the theorem combines the two with temporal logic. An action property or a refinement uses the invariant in the state before the step. What follows is, for each component, what the strengthening says and why the property is not inductive without it.

### The queue: `JobQueueContractProofs`, `PostgresQueueProofs`, `RedisQueueProofs`

The contract: `TypeCorrect`, `BudgetCorrect`, `TokensCorrect`, `TokensNeverReturnCorrect`.

`BudgetSpentExactly` is not inductive: an identity that is enqueued becomes a queued job with the attempts it had while absent, so `BudgetInv` adds `AbsentIsClean`. `TokensFence` says of a processing job that its token is open, and a claim makes fresh tokens current, so `TokenInv` adds `UnissuedIsOpen`. `TokensNeverReturnCorrect` follows from `TokenInv` before the step: a token a step makes current is fresh, so not among those issued for the job, and a token that settles belongs to a processing job and is therefore open.

Both stores implement the contract, which is a theorem about each (`ImplementsContractCorrect`): the initial states map to the contract's, and every step to a step or a stutter. The mapping is six functions of the store's state, `StatusView`, `AttemptsView`, `BudgetView`, `TokenView`, `DelayedView` and `LapsedView`. The proofs first say what a view is at one job, before and after a step, and then compose what an action does to each.

So the contract's theorems hold of both stores, and `PostgresQueueProofs` and `RedisQueueProofs` state them of the stored records: `BudgetHolds`, `TokensHold` and `TokensStayLost` instantiate the contract's proofs with the views.

**PostgreSQL**: `PostgresTypeCorrect`, `LeaseIsExclusiveCorrect`, `ImplementsContractCorrect`. The invariant `PgInv` has four parts.

- `PgTypes`: the types, which contain the CHECK constraints and the disjointness of the row locks.
- `PgPending`: what a transaction has written and not committed agrees with the rows it has locked. A pending claim writes rows nobody holds a live lease of, a pending settlement frees the row whose token it presents, a pending renewal keeps the token and lengthens the lease. Without it nothing could be said of a commit, whose statement was evaluated in an earlier state.
- `PgTokens`: the tokens issued for two identities are disjoint, the token of a leased row was issued for it, and a token in a pending claim is fresh and in no other one.
- `PgLeases`: a held lease that is open and running has its row, leased with its token for at least as long; a pending settlement has closed the leases of its token.

For the refinement, what others may see changes at commits only (`CommitViews`), except that a row does not lapse while an accepted settlement or renewal of it is pending (`Settling`), that `CommitClaim` may deliver leases that are over already (the contract's `X`), and that time passing lapses leases and ends backoffs, which is `TimePasses`.

**Redis**: `RedisTypeCorrect`, `IndexesAgreeCorrect`, `UpgradeMissesNothingCorrect`, `LeaseIsExclusiveCorrect`, `PurgeRespectsRetentionCorrect`, `ImplementsContractCorrect`. The first five follow from one invariant, `RedisInv`. Its part `Good(db)` says of each record that it is in the index of its status with its own score and in no other, and of a terminal record without a date that the scan has still to read it: without `Scanned` the last page could miss one. `Leases` gives a held lease a token of its own, issued for its job, and as long as it runs a record leased with that token for at least as long, which is why a recovery or a claim never takes it. `DatesTrue` says that a dated record became terminal when it says, which a purge relies on. An invocation rewrites the keys several times in a row (recovery and claim; index page and purge), so `Good` is proved of any database for each kind of rewriting (`RecoveredGood`, `TakeGood`, `MovedGood`, `IndexedGood`, `PurgedGood`, `EnqueuedGood`), and the actions compose them.

The refinement adds `RecordsSound`: a queued record has attempts left, a record being processed was due, and only such a record has a token. One invocation is one contract step although it does several things: the deliveries `R` it recovers are those it dead-letters, those it returns to the queue and those it leases again at once, which are `D`, `A` and part of `C` in `DeliveredMaps`. Dating and indexing records of the earlier release change no view (`DatingAlike`, `IndexedAlike`), and a renewal is a stutter.

### The runner: `WorkerRunnerProofs`

`RunnerTypeCorrect`, `ReportIsTrueCorrect`, `CompletedOnceCorrect` and, for a prompt executor (`ASSUME Prompt`, the constant that says so), `LeasesOutliveWorkCorrect`. `RunnerInv` relates a delivery's outcome in the store to the store's own record (`OutcomeOK`), and to what has been counted of it (`FateOK`); and says what may be asked, answered or still under way for it, stray requests included (`AskedOK`, `ReplyOK`, `StrayOK`), and when a consumer has been joined (`JoinedOK`). A report is true because a delivery is counted only after an answer that says so, and such an answer stands for an outcome that no step changes any more.

`LeasesOutliveWork` needs an account of time: `LeaseOK` says how many renewal intervals of the lease may be used up at most in each phase of a consumer (one while a claim's reply is under way, two while its handlers work, three when a renewal was sent and its timer has not run out). `renew_interval <= lease_duration / 3`, which `validate` demands, is then what makes the lease outlive the work. Without `Prompt` it does not hold.

### The workers: `WorkersProofs`

- *SignalBus*: `BusTypeCorrect`, `AppliedInOrderCorrect`. `Flow`: what was applied, what `forward_signals` took, the channel and the wire, one after the other, are what was published: all of it while the connection lasts, and the beginning of it while the listener does.
- *KafkaPublisher*: `WholeBatchesCorrect`. An open transaction holds a prefix of one call's batch, exactly what that call has sent, and the handle is not healthy meanwhile (`HandlesOK`, `CallsOK`). Clearing the flag first and setting it last is what keeps a later call from appending to it.
- *TopicWorker*: `TopicNothingSkippedCorrect`. `Behind`: all messages before the committed offset, before the next message of the consumer that has the partition, and all a consumer remembers as resolved, were handled.
- *KafkaWorker*: `KafkaTypeCorrect`, `NothingSkippedCorrect`, `SettledOnceCorrect`. `KafkaInv` is the types and, as long as no record has overtaken one kept aside, `KafkaOrder`: one replica at most has offsets in a transaction (`OneSends`); a record is settled at most once, none behind the committed offset is left open while every worker runs once, and none in front of it is settled (`LogSettled`); and what the owner of the partition holds, keeps aside and will fetch next follow one another without a gap, whereas what another replica holds is of an earlier generation (`WorkerOK`). `overtaken` becomes true in exactly the situation of finding 2, so the theorems say that this is the only way to skip or repeat a record.

### The services: `ServicesProofs`, `SumProofs`

*Payments*: `PaymentsTypeCorrect`, `OneCapturerCorrect`, `AuditsPrevailCorrect`, `MarkedIsSettledCorrect`, `PaidIsCapturedCorrect`, `OrdersImplemented`. The first and the last rest on the types and on `AtWork` (a handler that is not idle serves an event that was sent); the other four on one invariant, the conjunction of `TypeOK`, `AtWork` and

- `Claimed`: the record of a payment that is being captured or released is neither absent nor pending, and one handler does it. The claim's precondition, pending, contradicts that, which is why two claims exclude each other without any lock;
- `AuditsPrevail` itself: evidence of capture makes a release a no-op, evidence of cancellation refuses the claim and the confirmation, and a failure event leaves a succeeded payment alone;
- `Settled`: a handler about to mark a confirmation, and every one marked, has its order out of pending, to where no transition leads back;
- `Happened` and `Recorded`: what events sent, audits and records that say failed or succeeded tell about the provider's side, with the exceptions `PaidIsCaptured` names, or that a handler is between claim and capture;
- `Backed`: a handler has the payment's lock about its claim, unless a fault struck, so that another one cannot see the claimed status in between; and what it confirms has that evidence.

`OrdersImplemented` has one case per action: it leaves OrderInventory's variables alone or takes one of its steps.

*Orders and inventory*: `StockAccountsForOrdersCorrect`. The property is an equation between the stock and two sums, over the orders that hold stock and over the events still under way. `OrderInv` adds that those sets are finite (`Counted`), and that no event under way leads where its order has not been yet (`EventsPast`): a transition raises the rank of its order, so the event it enqueues is a new one and enters the sum. `SumProofs` proves what is needed of sums over finite sets: `SumFunctionOnSet` of the community modules picks elements in an order of its own, and its value for a set with one element more is the sum plus that element's whatever that order is (`SumJoins`, `SumLeaves`). The library's induction theorems cannot be used, so this is by the least counterexample, with the well-foundedness of `<` on the naturals.

*Accounts and logins*: `IamTypeCorrect`, `IssuedUnderCurrentPasswordCorrect`, `NoIssueWhileBarredCorrect`, `CookieNeverReturnsCorrect`. The property of sessions is not inductive: a login that is about to insert its session, and a password change that is about to commit, must be in it. `Consistent` adds that a user has one account, that a request between its SELECT and its INSERT holds the user's lock (and, for a provider identity, the binding's) and read the account as it still is (`ReadsHold`), and that a password change holds the user's lock and, once it has deleted, knows every session of its user (`ChangeHolds`). For cookies, an identifier that was drawn and is not on record can only be inserted by `Visit` or `CreateCookie`, which draw fresh ones.

*Billing*: `BillingTypeCorrect`, `ActiveIsUnresolvedCorrect`, `NeverRepeatedCorrect`. The attempt whose effects have begun must still be on record, or the event completed, when a new one is committed. `Safe` adds `OneEffective`, which says so of the attempts that have begun or still can and were not released; `Guarded`, that a delivery before its intent has the event's lock, and no receipt appeared, unless the lock broke; and `Carries`, that a delivery under way has its event and attempt. A resolution needs the lock and the inspected attempt, so it does not touch a callback that has its lock (`ActiveIsUnresolved`).

### The store: `StoreProofs`

*The Redis worker*: `WorkerTypeCorrect`, `EventsAccountedCorrect`. `WorkerInv` is the types and three parts. `Apart`: no list has two records of an event, and the queue and what the ticks hold have none in common, so that popping, processing and pushing back move a record and never copy it. `Counts`: a record that is to be processed was tried as often as its `retryCount` says, one that has failed in the present tick once more, and its event is not done; this is what makes the filter of `updateEvents` drop a record after try `RetryLimit + 2` and no other. `Ends`: an event in no list was processed, was with a process that died, or was tried that often. The last step turns this into the count of places that `EventsAccounted` speaks of (`PlacesOne`). What reversing, splitting, concatenating and filtering do to the set of records is a lemma each, proved place by place; the model states what a filter leaves as the increasing enumeration of the indexes it keeps (`InOrder`), because the recursive definition of `SelectSeq` cannot be unfolded.

*Orders and stock*: `OneEventPerTransitionAlways`, `InventoryTypeCorrect`, `WorkerImplemented`, `StockMatchesDoneAlways`. `Unique` says that a request that has written holds a transition nobody has announced and no other request holds; as in OrderInventory a transition raises a rank, so none is written twice. Every step of the store is one of IntervalWorker or leaves its variables alone (`WorkerImplemented`), and so an event at the head of a tick is not done yet (`Counts`): applying it adds one term to the sum of `StockMatchesDone`, by `SumProofs`, and a refused one, rolled back, adds none.

*Checkout*: `TypeCorrect`, `OneLivePaymentAlways`, `OneCaptureAlways`, `AnnouncedOnceAlways`, `NoForgottenSuccessAlways`, of the invariant `Checked`: what a request or a delivery carries in its variables agrees with the tables it read them from, as far as the later calls rely on it (`Carries`, `Serves`); an event sent has a payment of an order behind it (`Backed`); at most one delivery is between paying an order and announcing it (`OneAnnouncer`); and an order that was announced has a payment whose success, of its own amount, was sent (`Occasioned`). `Serves` also says that a delivery serves an event that was sent, and gets as far as the order only for amounts that agree. `NoForgottenSuccess` is about those successes; the others leave the order pending on purpose (section 6).

### What stays with TLC

- Liveness: `EveryJobEnds`, `RunReturns`, `LossDrains`, `EndsTogether`, `JobsSettle`, `EventsSettle`. Fairness and `ENABLED` are out of the prover's reach.
- What the pure helpers of the community modules compute for every input, where their definitions are recursive (`SelectSeq`, folds over sequences): induction over sequences needs a theorem with an operator parameter. The models avoid them where a proof depends on it.

No module here uses RECURSIVE operators. The properties the theorems name are checked by the runs too, and the strengthenings were checked by TLC as invariants of the same instances before they were proved.

## 6. Findings

1. **An abandoned delivery may be completed** (`runner_drain`, `runner.rs:281`). The drain timeout covers the settlement too. When it fires after the acknowledgement took effect and before its reply, the delivery is counted as abandoned although it cannot be recovered, contrary to the comment at `runner.rs:147`. No job is lost or done twice by it; the report is wrong.
2. **A record kept aside can be overtaken** (`kafka_pause`, `client.rs:679`). An iteration reads the control several times. When a record is kept aside and an iteration reads Running (the partition is resumed), then Paused (the buffer is not taken), then Running (the record just received is processed), the later record's offset is committed, which covers the earlier one. The comment at `client.rs:684` says records kept aside stay uncommitted. A crash then loses the earlier job; without one, its own commit later moves the group's offset back.

More observations, of code that does what its model does. Properties that TLC refutes are kept in the modules as formulas, without a run:

- `peek` of the Redis store runs the recovery that claims run (`leased.lua:157`), so it requeues and dead-letters expired leases, and `stats` then no longer counts them as processing; the trait's comment (`I/async_queue.rs:124`) promises that they are counted until the next claim. `RedisQueue.Peek` is that recovery.
- Payments are excused from `PaidIsCaptured` in two situations. After a crash between claim and capture, or when the payment's lock is lost about them, the record says succeeded without a capture, and a redelivered approval pays the order; `blueprint-rs/README.md:90` describes the first and the operators' repair of it. After the provider denied a capture, `fail_payment` marks the payment failed, and a redelivered approval confirms it from there (`ecommerce-base/src/store.rs:338`). `PaidIsCaptured` without the excuses does not hold.
- A second `run` on one `KafkaWorker` goes on behind a record the first one abandoned or kept aside, and its next commit covers that record: `NothingSkipped` is stated for workers that run once, `SettledOnce` for any.
- In the TypeScript Kafka worker, failures that the process function returns are dropped and their message is committed (`TopicWorker.ReturnedIsHandled`); and a message of `enqueueBatchJobs` is no list, so that its failure cannot be republished and it is delivered again for ever (`TopicSettles` when `Formats` contains FALSE).
- In the TypeScript store a cancelled order is restocked although its payment's event was never applied (`RestockOnlyTaken`), or not although it was (`TakenIsReturned`), because the worker decides by a status read before the transition.
- In its checkout: a retry with an unchanged cart cancels the pending order instead of reusing it (`UnchangedIsReused`); an enqueue that fails after the order is paid is not made up for by the redelivery (`PaidIsAnnounced`); `failPayment` overwrites a payment that succeeded after it was read (`SucceededStays`); the loser of a claim pays the order although the winner's capture then fails (`PaidIsCaptured`); a checkout cancels an order that was paid after it was looked up (`PaidIsKept`), or opens a second payment of it (`ChargedOnce`).
- A success whose amount or currency disagrees with the payment, or is missing from a PayPal event, marks the payment succeeded, is recorded as processed and leaves the order pending; nothing looks at it again. The comment at `webhook.controller.ts:114` means it so, and `NoForgottenSuccess` is not about such events. The next checkout of that order finds no pending payment and opens another one.
- `captureOrder` of the TypeScript PayPal client carries no request id and throws on any answer that is not a success. When the answer to a capture was lost, the payment is pending again; if PayPal refuses the second capture (`CaptureRefused`) it refuses those of all redeliveries, and a payment that was charged stays pending. The comment at `paypal-client.ts:102` calls the capture idempotent.
- The TypeScript worker takes a commit whose reply is lost for a failure (`worker.ts:81`) and the event is tried again, so the stock would be moved twice. `StockMatchesDone` leaves this case out: a transaction that throws is taken to be rolled back.
- A billing webhook's lock that is lost between its checks and its intent lets a second delivery begin the effects as well. `NeverRepeated` excepts the events this happened to (`severed`).


## 7. Abstractions

- A SQL statement is atomic and reads one `clock_timestamp()`. `ClaimExhausted` is disabled while a row it would update is locked; in PostgreSQL it would wait with some rows already updated, none of which anybody else can see or change meanwhile.
- A call that changes no row is a stuttering step: a refused settlement, an enqueue of a stored identity, a claim that finds nothing.
- Clocks do not go back and, in the runner, the store's clock and the runner's run at one rate. With `Prompt` a request that is awaited takes effect before its deadline; a `stray` one at any time.
- One queue of one tenant. `claim_batch` and the Redis calls touch no key of another, and every statement carries tenant and queue.
- The runner's jobs are all due and have one budget; a failed job is due again at once.
- Kafka: one partition, jobs published beforehand, a poll of a paused partition yields nothing. The epoch check is modelled although the coordinator's fencing alone gives the safety properties: it saves work, and without it the same commits are refused. In `KafkaPublisher` the broker may fail any request, and a handle that is not healthy is replaced by the next call that wants to publish.
- Retention: the consumers beside it are reduced to running, ended and failed; what they do is `WorkerRunner`.
- Topic worker: one event in each message, one partition. kafkajs is external: it resolves offsets, commits some time later and throws out of `run` when the group moved on.
- Orders and payments: one tenant and currency; a wrong amount is a property of the payment (`Mismatched`); an order takes each transition at most once, so the transition stands for its event's identity. A delivery that waits for an advisory lock in vain, finds its event processed or its request refused changes nothing and is not an action. A mutation is one action because `mutate` locks the row it reads. An operator's reading of one payment at a time is kept (`inspected`); a second one replaces it. `create_payment` runs under a lock of the order and calls the provider first; it is one action, so a provider order without a record is not represented.
- TypeScript store: a cart is its row, and every creation of an order draws a fresh identity. A reference has one success, and amounts only agree or not. An event that names no payment (no `resource.id`, no related order id) or is of another type is marked without any change and is not modelled. `cancelPendingOrder` reads and compares in one conditional write and is one action. The redelivery of an event that is recorded as processed is a no-op. The money of a PayPal order is captured once, however often it is asked for; a second request may be answered with a success or an error. A Stripe intent can be confirmed again after a decline. In a request of checkout or a webhook, a write that is committed although its reply is lost is a failure after the write: the request ends there. The worker's transaction is the exception (section 6).
- IAM: a statement is atomic and its row locks are taken with it. Expiry of a session or cookie is its deletion by someone else, at any time. CSRF tokens are proved before a request is loaded. The session layer is external: it loads a record at the request's start, deletes a cycled or flushed cookie at once and saves after the handler, as `tower-sessions` does with the store's `create`, `save`, `load` and `delete`.
- Billing: what the callback does is outside; it begins at `StartEffects` and may have taken effect from then on. The operator's judgement of an attempt is free. The limit on concurrent deliveries (`webhook_slots`) only refuses deliveries.
- Payloads, names, JSON, key names, SQL text, error texts and logging are left out.

## 8. What is not modelled, and why

- Several Kafka partitions in one worker, the call `drain_signals` and the publishing side of the bus: not yet. Partitions share the buffer and one transaction but no offset, and `drain_signals` is a loop over `next_signal`.
- The TypeScript database worker: what overlapping ticks write (`database/consumers/databaseWorker.consumer.ts:61`) depends on the identity map of one shared MikroORM entity manager, which this repository does not contain. BullMQ's worker: its concurrency is in its library.
- The in-memory queues, HTTP adapters, tenant isolation, the encrypted channel and key rotation, the frameworks, the interfaces, CAC, the CLI: no interleaving of their own, or none that reaches a property a test would not.
- Ecommerce: catalog, carts and shipping are single-record operations; the cache in front of TypeScript carts (read, then written without a lock), payment resume and review in the Rust service, the scoped captures and cancellations, imports and retention are not modelled yet.
- Billing: managed creation of provider objects (an intent, a dispatch that must not be repeated, a publication) and the synchronisation of subscriptions from events in any order (`billing-stripe/src/synchronization.rs:140`): not yet.
- IAM: `create_user`, organizations, roles and the directory are single statements; tokens and credentials are cryptography.

## 9. Plan

Done, in this order: the contract; the two stores as refinements of it; the runner on top of it; Kafka; the signal bus; orders, payments, billing webhooks and logins; the TypeScript workers and store; retention and the publishing handle. Proofs of the type invariants, safety invariants, action properties and refinements of all of them.

Next, models:

1. `ManagedCreation` and `SubscriptionSync` of `billing-stripe`: at most one dispatch per operation; webhooks out of order.
2. Payment resume and review, and the scoped captures and cancellations, as further actions of `EcommercePayments`.
3. The cart cache of the TypeScript store, beside `StoreCheckout`.

Next, proofs: the invariants of each of these models, and what lies behind the liveness properties as far as it is safety: which deliveries a drained runner may still hold, and that a Kafka worker that waits has something to wait for.
