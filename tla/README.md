# A TLA+ model of the e-commerce services

This directory models the parts of the repository whose correctness depends on
what runs at the same time, what fails half-way and what is delivered twice: the
services `inventory`, `order`, `payment`, `identity` and `catalog` and the
packages under `pkg/` they share. The modules are checked by TLC on small
instances and, where a theorem is listed, proved by TLAPS for every value of the
constants. `PROJECT.json` maps every definition to the lines it models.

## 1. The system

| Component | State | Operations | Talks to |
|---|---|---|---|
| inventory server | `stock_items` (available, reserved per SKU), `reservations` with lines, status, expiry, version | CreateStockItem, AdjustStock, ReserveStock, CommitReservation, ReleaseReservation | called by order (gRPC) |
| inventory reaper | none of its own | ExpireReservations in a loop | the inventory database |
| order server | `orders` (status, version), `order_lines`, `idempotency_keys`, `outbox` | Checkout, GetOrder, ListOrders | catalog and inventory (gRPC) |
| order worker | `inbox` | MarkPaid on PaymentSucceeded; Commit/ReleaseReservation on OrderPaid/OrderCancelled | Kafka, inventory (gRPC) |
| order timeout worker | none of its own | ExpireStaleOrders in a loop | the order database |
| payment server | `payments`, `idempotency_keys`, `outbox` | InitiatePayment, HandleProviderCallback, reads | order (gRPC), the provider (HTTP) |
| payment provider | external; a fake one is in the repository | charge, webhook | payment |
| identity server | `users`, `refresh_tokens` (family, revoked_at, expiry), `outbox` | Register, Login, Refresh, Logout, reads | - |
| catalog server | `products`, variants, version | create, update, publish, archive, variants | called by order, bff-web |
| bff-web | none (stateless) | REST front for all services | every service (gRPC) |
| outbox relays | claim on `outbox` rows | publish a batch, mark it | Kafka |
| `pkg/kafkax` consumer | committed offset | fetch, handle with retries, dead-letter, commit | Kafka |
| `pkg/grpcx/client` | circuit breaker counts | deadline, retry, breaker around a call | every gRPC call |
| every `cmd/*/main.go` | what it has opened | start, serve, drain, close | - |
| `pkg/txmanager` | - | one transaction per use case | every repository |

What is hard here: every use case is a PostgreSQL transaction at READ COMMITTED
that interleaves with others statement by statement; holds expire by the clock
while calls about them are in flight; events are delivered at least once and,
with two relays, out of order; a gRPC call may take effect and still time out;
two databases are updated by one saga with no common transaction; tokens rotate
while they are being revoked.

What makes each part correct:

* inventory: counts agree with reservations, units are conserved, one live hold
  per order, a settled hold is final, expired holds come back, no deadlocks that
  the code says are impossible.
* order: one order per idempotency key; a paid order is never cancelled and a
  cancelled one never paid; a hold outlives the window in which its order can be
  paid; every paid order's hold is committed once, every cancelled order's hold
  is given back.
* payment: at most one unresolved or successful attempt per order; a settled
  attempt never changes; no charge without a stored attempt.
* delivery: no event lost, per-consumer effects exactly once, order per
  aggregate while there is one relay.
* identity: one account per address; a refresh token is spent once; reuse or
  logout ends the family and, one access TTL later, everything it handed out.
* catalog: no lost update, also across a product and its variants; what is shown
  on sale can be bought; a browse misses and repeats nothing.
* order reads: a total is what its lines cost or is refused; pages show whole
  orders, each once.
* the path of a request: a repeated call has one effect; an answer is true; the
  breaker shuts out only a target that failed; a rollout loses no call; nothing
  is closed under work in flight.

## 2. Modules

| Module | Models |
|---|---|
| `Inventory` | the inventory service and its reaper over PostgreSQL transactions |
| `StockLedger` | what the inventory service promises its callers (abstract) |
| `InventoryProofs` | theorems about `Inventory` |
| `Checkout` | `OrderService.Checkout`: idempotency key, hold, transaction, compensation |
| `OrderBook` | what an order is made of, and `GetOrder` and `ListOrders` reading it back |
| `OrderBookProofs` | theorems about `OrderBook` |
| `OrderSaga` | an order after checkout: payment against timeout, and the hold's end |
| `OrderProofs` | theorems about `Checkout` and about `OrderSaga` |
| `Payment` | the payment service and the provider it charges through |
| `PaymentProofs` | theorems about `Payment` |
| `Identity` | accounts, and the chains of refresh tokens |
| `IdentityProofs` | theorems about `Identity` |
| `Catalog` | products and variants, edited and browsed |
| `CatalogProofs` | theorems about `Catalog` |
| `OutboxRelay` | `pkg/outbox` and the publisher: write, claim, publish, mark |
| `EventConsumer` | the `pkg/kafkax` consumer, the inbox and the order worker's handlers |
| `DeliveryProofs` | theorems about `OutboxRelay` and about `EventConsumer` |
| `GrpcClient` | `pkg/grpcx/client`: deadline, breaker and retries around a call |
| `Process` | the life of a process: what each main opens, serves, drains and closes |
| `Api` | the gRPC methods, the routes of bff-web, and what an error becomes on its way out |
| `RequestPath` | a request from the edge to a handler and back, composed of the three above |
| `RequestPathProofs` | theorems about `RequestPath` |
| `MC*` | the instances TLC checks |

`RequestPath` extends `Process`, `GrpcClient` and `Api` and moves their state
together. The other modules do not share state. `OrderProofs` and `DeliveryProofs`
each extend two of them, whose theorems stand side by side; that is why `Checkout`
and `EventConsumer` name their specifications `CheckoutSpec` and `ConsumerSpec`.
`OrderSaga` composes them through what they promise and are checked for: a hold is
settled once (`Inventory`), an order is placed under a hold (`Checkout`), an event
arrives at least once (`OutboxRelay`), its effect happens once or it is
dead-lettered (`EventConsumer`), an order has one attempt at a time (`Payment`).
What a method makes of a repeat of itself, which `Api` states as a field of the
method, is what `Inventory`, `Checkout`, `Payment`, `Identity` and `Catalog` show it
to do.

An invariant of a run is often a conjunction of named parts. The parts are what
a reader should look at, and what a proof is about; the conjunction groups those
that speak of one thing.

A definition called `... Bug variant` in its comment is not part of a
specification: it is a plausible mistake in the definition below it, kept to
show that the property named in `PROJECT.json` would notice.

### 2.1 Inventory

State: `stock`/`stockDraft`/`stockOwner` and `resv`/`resvDraft`/`resvOwner` are
the committed rows, the newest row versions and the row locks of `stock_items`
and `reservations`; `tx` is what a running use case has in memory; `clock` is
`policy.Now()`. `received` and `phase` are not in the code: the units ever
delivered, and whether faults have stopped.

Each statement of a use case is an action, so two use cases interleave as two
READ COMMITTED transactions do. `Begin...` actions open a use case (after the
checks that need no database), the statements move and write rows, `COMMIT`
publishes what the transaction wrote and drops its locks, a rollback (a refused
guard, an error, a cancelled context, a crash, a deadlock victim) undoes it.
`ReserveStock` takes lines in SKU order and inserts the reservation under the
partial unique index; `settle` (commit and release) reads the reservation
without a lock, moves stock line by line and writes the reservation under its
version; `ExpireReservations` claims expired rows with `FOR UPDATE SKIP LOCKED`
and works through the batch in order of expiry.

`StockLedger` is the service with no transactions at all. `ImplementsLedger`
checks that every COMMIT is one of its steps and nothing else is visible.

### 2.2 Checkout

One call is one run of `Checkout`; a retry is another call with the same key.
`claims` and `orders` are the committed tables, `inserting` the uncommitted key
a second INSERT waits on. `holds` are the reservations as inventory has them, `wire`
the calls the client gave up on that may still take effect. Every return of the
function is an action: replayed, reused key, not priced, refused, timed out,
failed read of a replayed order, lost claim, failed transaction, lost COMMIT answer,
failed release, crash.

### 2.3 OutboxRelay and EventConsumer

`OutboxRelay`: `row` is the outbox table (uncommitted rows included), `batch`
what a relay's transaction has locked, `acked` which partitions answered,
`topic` the broker's log, `late` writes nobody waits for any more. A fault (an
unheard acknowledgement, a failed cycle, a crash) is counted, so that
`CopiesAreFaults` can say that a second copy has one behind it. `overlap`
records whether two relays were ever in a cycle at once. A relay cycle's events
for one partition are one Kafka record batch: both the relay's `BatchSize` and
the writer's default batch size are 100; with a larger relay batch the writer
would split it, and a later part could land where an earlier one failed.

`EventConsumer`: `log` and `committed` are a partition and the group's offset,
`owner` the member that has it; a member that lost it still finishes its message
(`Rebalance`). `claimed`/`claiming` are the inbox table, `done` counts committed
local effects, `called` is the remote call's effect, `dlq` the dead-letter topic,
`stage` is where a member is in `Run`. `Run` returns when a fetch, a dead letter or
a commit fails: such a member is `returned`, and it holds its partition
(`Abandoned`) until the broker takes it away (`Rebalance`) or the process is
replaced (`Replaced`).

### 2.4 OrderSaga

`status` and `created` are the order's row, `locked` the row lock `MarkPaid`
holds, `batch` the rows a sweep has claimed; `hold` and `reserved` are
inventory's side, `pay` the payment service's; `events`, `handled` and `dead`
follow the three deliveries an order can cause. `wake` and `backoff` are the
timeout worker's loop. Both services read one clock, `now`; a skew between them
would add to the margin. The clock waits for nothing but a sweep that is due and
a transaction that is open. What the margin leaves to the rest is a lag:
`CheckoutLag` from taking the hold to writing the order, `Lag` from starting a
payment to the end of what it sets off; `late`, which is not in the code,
remembers that one took longer. A payment may stay pending for ever: the service
leaves an unanswered attempt so and asks nobody again. A sweep's COMMIT may fail,
or take effect and its answer be lost (`SweepAnswerLost`), which the worker cannot
tell apart.

### 2.5 Payment

A call names the attempt it makes and the provider's charge for it, since each
mints one payment id. `claims`/`inserting` are the idempotency keys as in
`Checkout`, `payments` and `outbox` the committed rows, `rowLock` and `seen` the
settling transaction (`SELECT ... FOR UPDATE`, then `apply`, then the row and its
event), `message` what that transaction was told. `request`, `behaviour`,
`charge` and `due` are the provider: the request it was sent, what it does with
it, the charge it keeps and the webhooks it still sends. The provider is the one
the repository ships; `StrayCallback` is what it would never send: a
contradiction (counted in `odd`), or a body nobody signed, which `ParseCallback`
refuses. An answer or a webhook that is lost puts its attempt in `faults`.

### 2.6 Identity

A call names the user it registers, the token it issues and the family it opens.
Every statement commits by itself, except a rotation, which spends a link and
stores its successor in one transaction (`spending` is the row it has updated and
not committed). A family's revocation is one `UPDATE` and is modelled as
PostgreSQL runs it: it fixes the rows it will touch when it begins (`todo`), waits
for rows another transaction has updated, and re-checks each. `missed` records
that it found one changed, which is when a successor can escape it. `held` is the
access token a client has, `Verify` what every service does with it.

### 2.7 Catalog

An edit reads a row, then its variants, changes the aggregate (`Refusal`,
`Changed`) and writes both under their versions; its row and SKU locks are
`rowLock` and `skuLock`. A browse (`walk`) reads a page of rows and then their
variants in two statements with no transaction. `shown` and `steady` are not in
the code: how often a product was answered, and which products were in the listing
all along.

### 2.8 OrderBook

A product is worked out on numbers, with int64 as `Int64`, which wraps. `sum`,
`Subtotal`, `NewOrder`'s checks and the price lists the catalog may answer decide
what is placed; `stamp` is a transaction's `now()`, so rows may appear out of the
order of their `created_at`. A walk (`client`) goes from page token to page token.

### 2.9 RequestPath

`Api` gives every method its service, whether its name has a read-only prefix,
whether it has an effect, what its handler makes of a repeat, and whose call it
has to be; and every route of bff-web the call it makes. `GrpcClient` takes a call
through the interceptors: `brk` and `counts` are the breaker and which calls in
flight still count for it (gobreaker's generations), `attempt` and `code` the
retries, `ctx` the caller's context. One call is followed; of any number of others
to the same target only what they do to the breaker is kept (`others`). `Process`
holds a table of every `main.go`: what it opens in order, how it serves, what a
unit of its work uses, what it closes in order. `phase` follows `run()` from the
first open through serving, draining (gRPC: refuse new calls and wait; HTTP:
shut down; loop: finish the turn) to the last close; a drain timeout cuts off, a
failure or a kill may come anywhere. `RequestPath` joins them: an attempt that
reaches a serving process becomes a unit of its work, and a process that is gone
answers `Unavailable`. The order worker is the one main that works before it has
opened everything: its first consumer runs while the second is created (`Working`,
`InUse`). `window` is not in the code. It is an account of the calls of the
breaker's present window, or trial, kept apart from `brk`: which of them are under
way, how many began and were not cancelled, failed, were late, were answered. A
result is entered only while its call is in the account.

A service's own codes are told apart as far as the breaker, the retries and the edge
do: `Internal` stands for `Unknown` and `DataLoss` too, and `ResourceExhausted`,
which no handler answers, is left out. `Troubles` are what a handler may answer when
something fails under it, a deadline of its own included; `InitiatePayment` may also
refuse after it has committed its attempt (`RecordsFirst`). A refresh that presents
a spent token has an effect of its own, the end of the family; that is `Identity`'s.

## 3. Runs

Every run finishes in under four minutes on two workers.

| Run | Instance | Shows |
|---|---|---|
| `inventory` | 2 SKUs, 2 orders, 2 reservations, 2 transactions at a time, one unit per line, symmetric | stock never goes negative (`TypeOK`); `StockAddsUp`: `reserved` is what live holds hold and units are conserved; `OneHoldPerOrder`; `SettledIsFinal`; `RefusedOnlyWhenStale`: a sweep is never refused and other refusals have a stale read behind them; `SettlingNeverDeadlocks`; `ImplementsLedger` |
| `inventory_live` | two holds, one already expired | `ExpiredHoldsEnd` |
| `checkout` | a request, its retry and a different cart under one key | `OneOrderPerKey`; `AnswersAreOrders`: answers are committed orders for the request made; `HoldsMatchOrders`: no hold leaks without a fault and an order keeps its hold unless the answer to COMMIT was lost; `CallsEnd` |
| `order_book` | 4 orders of 2 users, 6 carts, 5 price lists, amounts up to 7, lines up to 2, pages of 1 or 2, one tick | `TotalIsExact`; `OrdersAreShownOnce`: whole orders of their owner, each once in a walk; `WalksEnd` |
| `saga` | 2 orders, batches of one, one failure, margin exactly large enough, checkouts and payments that keep their lag or not | `OutcomesAgree`: one outcome per order, stock sold only for paid orders; `MarginSuffices`: with the stated margin, no failure and nothing late no paid order loses its hold |
| `saga_live` | 2 orders, batches of one, one failure, payments that may never be settled | `EverythingSettles`: money taken reaches its order or the dead-letter topic, every order ends |
| `payment` | one order; a request, its retry, another request under its key, one under a key of its own; one callback handler at a time; one attempt in trouble | `PaidOnce`: one open attempt, one charge; `RecordsAreTrue`: records and events agree with the provider; `AnswersAreAttempts`; `DecisionsArrive`: no order of answer and webhooks leaves a decided attempt pending |
| `identity` | a registration, a login, and 3 calls that each register the same address, log in, refresh or log out with any token a client holds; 2 ticks, symmetric | `ChainsAreSound`: one account per address, chains never fork, have one owner and one end, no circle of waits; `EndedIsOver`; `ReuseEndsChain`; `AnsweredIsStored` |
| `catalog` | 3 edits of 4 products with 4 SKUs in 2 currencies, 2 of them created at one instant, a browse of what is on sale or of the drafts with pages of 1 or 2 | `EditsAreSerial`: no edit lost or half made; `ProductsAreSound`; `BrowseIsTrue`: what is shown on sale can be bought and priced, and nothing is missed or repeated |
| `outbox` | 3 events of 2 aggregates on 2 partitions, 2 relays, 2 faults | `MarkedIsSent`, `SentIsCommitted`; `DeliveredInOrder`: copies only from faults, first copies in order unless relays overlapped; `EventsArrive` |
| `consumer` | a handled, a remote, an ignored and a poison event, 3 messages, 2 members, 2 faults | `ClaimsMatchEffects`; `NothingPassedOver`: the offset passes only settled messages; `MessagesSettle` |
| `request` | every process but one twin, one call of six kinds among others, 2 attempts, a breaker that trips at 3 calls and closes after 2, one stop, one failure | `CallsAreSafe`: one effect, true answers; `VerdictsAreDeserved`: the breaker opens and closes only over what the calls of one window, or trial, came to; `StopsAreClean`; `NothingHangs` |

Three transactions, three members or three relays at once were not run: the
conflicts the code guards against are between two (one row, one key, one index
entry, one partition), and either actor can start, fail and start again as often
as the named bounds allow. Two SKUs are the least that have a locking order; two
reservations the least that compete for stock and for the order; batches of one
or two make a batch bound bite. Three events are the least with two of one
aggregate and another between them. In `saga`, TTL = 4 = 1 + 1 + 1 + 1 is the
smallest value `MarginSuffices` promises anything about, and with TTL = 3 the
same instance loses a hold. In `saga_live` two orders share batches of one, so that
a failed sweep or a skipped row holds up another order's, and holds do not run out
within the bounded clock (TTL = 9): the end of a hold changes nothing an order's
end depends on.

`payment`: two calls race for a key, a third for the order, and a fourth meets a key
that stands for something else; more would repeat one of these. `identity`: three
presentations of tokens are the least in which a reuse, the rotation it races and a
logout meet; two of them leave room for a second account or session; two ticks let
an access token and a chain run out. `catalog`: the edits are chosen so that any two
of them that could conflict do (one product, one SKU, two currencies, publish
against the first variant); the third creates the product that a browse may meet
half-way. `order_book`: with 7 for 2^63-1 and quantities up to 3, subtotals pass the
end by one and by much, and sums do so with each part in range; four orders on two
instants put equal `created_at` on both sides of a page's end. `request`: a
breaker's window is bounded by `MaxWindow` calls, as many as trip it at the least:
three, so that one or two failures must not do and two of three must, and a trial
takes two. The catalog's process is left out because its entry in the table is the
identity service's with another name; one call is enough for `CallsAreSafe`, which is about
each call by itself, and the breaker has as many others in flight as its window
counts. One failure is all that leaves room for `NothingHangs`; that an attempt and
its retry may both fail after their COMMIT takes two, for which the theorems hold as
for any number.

### Where the code and its comments part

Met while modelling; each is a behaviour of the models, and the properties are
stated around it.

* `order_service.go:159`: "The hold belonged to an order that does not exist,
  whichever way this went". After a COMMIT that took effect and whose answer was
  lost, `Checkout` releases the hold of an order that exists: it can be paid and
  has no stock (`OrdersKeepTheirHold` names the case).
* `stock_repository.go:170`: the guard on `reserved` "should never refuse", and
  reaching it "means the counts and the reservations disagree". It also refuses
  the loser of two settling calls that both read the hold
  (`RefusedOnlyWhenStale`). Nothing is lost; the error says what is not so.
* `reservations.sql:34`: sweepers "contend rather than deadlock". Two of them with
  disjoint batches can deadlock on stock rows, because a batch goes through its
  reservations by expiry. PostgreSQL ends one (`DeadlockVictim`) and its rows are
  swept later (`ExpiredHoldsEnd`).
* `timeout.go:31`: `Interval` is "the worst case for how late an order is
  cancelled". After failed sweeps it is the backoff (`timeout.go:128`), and with the
  deployed values that is longer than the margin between window and TTL.
* `consumer.go:56`: the attempts are not meant to wait out an outage, "which the
  broker redelivering after a restart already covers". An outage longer than all
  attempts dead-letters good events, which the broker does not redeliver.
* `worker-deployment.yaml:101`: a consumer that cannot reach the broker "should
  keep retrying, not be restarted". `Consumer.Run` returns when a fetch, a dead
  letter or a commit fails, and the worker waits for its other consumer
  (`worker/main.go:114`): the member keeps its partition, nobody reads it, and no
  probe notices (`Abandoned`).
* `user_repository.go:102`: a user's row and its event "commit together or neither
  does". `Register` opens no transaction, so they are two; a failure between them
  leaves an account nobody announced, and a repeat is refused.
  (`AnsweredIsStored` holds because a client is answered after both.)
* `session_service.go:226`: a logout takes the family "rather than the one token".
  Its `UPDATE` does not see a successor that a rotation has inserted and not yet
  committed: that link lives on (`missed`).
* `provider_gateway.go:75`: every method is idempotent at the far end "because every
  one of them is retried". A charge is not: when its answer is lost the attempt
  stays pending, with the order's only slot, until a webhook comes.
* `breaker.go:36`: "a BFF whose own deadline expired" does not open the breaker.
  That covers a cancellation; a `DeadlineExceeded` counts, whoever's deadline it was.
* `server.go:291`: health flips first, "so readiness probes fail". The deployments
  probe `/readyz` of the admin port, which does not look at the gRPC health; it
  also answers ready before the pool's check is registered.

Three more have no comment to part from. A refresh whose answer is lost costs the
session: the client's next attempt presents a spent token, which is reuse. Two
`CreateProduct` calls with the same SKUs in different orders wait for each other's
index entries, and one ends as an internal error. A listener that fails, or an
HTTP server cut off after its drain timeout, lets `main` close what running
handlers use (phase `abandoning`, which `ResourcesOutliveWork` names).

## 4. Fairness

* `Inventory`: the reaper's loop never ends and retries what failed
  (`BeginSweep`), PostgreSQL grants a row lock to waiters in turn (strong
  fairness of a statement) and ends every cycle of waits (`DeadlockVictim`).
  A sweep can lose to settling calls again and again, because they lock the
  same rows in the other order; the property therefore assumes that faults and
  settling calls stop at some point (`phase`), and is about what happens then.
* `Checkout`: a call that runs takes its next step. The deadline that would end
  a stuck transaction (`TxFails`) is not counted on.
* `OutboxRelay`, `EventConsumer`: loops go round again and processes are
  restarted. Faults are bounded by `MaxFaults` and `MaxFailures`, since nothing can
  be promised under faults without end. A consumer that returned is not counted on to come
  back.
* `OrderSaga`: the same for the worker, the timeout worker and the reaper; the
  clock goes on. Nothing is assumed about checkouts and payments: an order is
  placed or not, and a payment that was started may stay pending for ever
  (`payment_service.go:178`). Failures are bounded by `MaxFailures`.
* `OrderBook`: the service answers, and a client that has begun to page asks for
  the next page. Nothing is assumed about checkouts: they may go on for ever.
* `RequestPath`: a process takes its next step, handlers and turns of a loop
  return (each has a deadline), a call takes its next step, timers fire (the
  breaker's rest and window, the drain timeout). That an open breaker closes needs traffic:
  a half-open breaker closes on a success, so calls keep coming (strong fairness
  of `Arrive` and of another call that ends well) and are not all cancelled. No
  faults come after `MaxFaults`.

`Payment`, `Identity` and `Catalog` are checked for safety only. What would be
liveness there (a pending attempt is settled) is not promised by the code;
`DecisionsArrive` says instead that nothing decided is left with nobody to apply it.

## 5. Proofs

Proved by TLAPS for every value of the constants that meets the module's
`ASSUME`:

| Theorem | Says | Inductive invariant |
|---|---|---|
| `TypeCorrect` | rows, counts and transactions of `Inventory` are well-typed; `available` and `reserved` never go below zero | `TypeOK /\ TxShape` |
| `AtMostOneHold` | an order never has two live reservations | `RowInv` |
| `SettledRowsAreFinal` | a committed, released or expired reservation never changes | `RowInv` |
| `CountsAlwaysAddUp` | what is counted as reserved is held, and what came in is available, held or sold | `IndInv` |
| `RefusalsAreStale` | a settling statement is refused only because somebody else settled the hold, a sweep never | `IndInv` |
| `SettlingIsDeadlockFree` | reserving, committing and releasing transactions never wait in a circle | `IndInv /\ WaitInv` |
| `LedgerIsImplemented` | `Inventory` implements `StockLedger`: every COMMIT is one of its steps, every other statement a stutter | `IndInv /\ AskedFor` |
| `KeysPlaceOneOrder` | one idempotency key places one order | `CheckoutInv` |
| `AnswersAreCommitted` | a call answers only with a committed order for the same key and cart | `CheckoutInv` |
| `HoldsBelongToOrders` | no hold leaks without a fault; an order keeps its hold unless the answer to COMMIT was lost | `HoldInv` |
| `NoEventLost` | a row marked published is on the topic | `DeliveryInv` |
| `NoEventInvented` | an event on the topic was committed with its aggregate | `DeliveryInv` |
| `TopicIsSound` | copies come from faults only; first copies of an aggregate's events arrive in order unless relays overlapped | `OrderInv`, `CopyInv` |
| `ClaimsAgree` | a message's local effect is committed with its inbox row, once; a remote effect comes before its row | `ConsumerInv` |
| `NoMessagePassedOver` | the offset passes only what was handled or dead-lettered, whichever member commits it | `ConsumerInv` |
| `OrdersArePaidOnce` | an order has one attempt that is open or paid, and one charge | `PaymentInv` |
| `RecordsTrue` | a settled attempt, its event and the provider agree | `PaymentInv` |
| `AnswersTrue` | a call is answered with a committed attempt of its own key and order | `PaymentInv` |
| `NoDecisionLost` | what the provider decided is applied or in the hands of somebody who will apply it | `PaymentInv` |
| `OneOutcomeOnly` | an order is paid or cancelled, never both, and stock is sold only for paid orders | `SagaInv` |
| `MarginIsEnough` | with `CheckoutLag + Window + Interval + Lag <= TTL`, no failure and nothing that takes longer, no paid order loses its hold | `SagaInv` |
| `SessionsAreSound` | one account per address; chains never fork and have one owner and one end; no circle of waits | `IdentityInv` |
| `EndIsFinal` | an ended session has no live link, and its access tokens die within one TTL and the leeway | `IdentityInv` |
| `ReuseIsNoticed` | a token presented twice ends its chain, unless the revocation raced a rotation | `IdentityInv` |
| `AnswersAreStored` | what a client holds or was told is committed | `IdentityInv` |
| `EditsSerial` | a stored product changes only by one whole edit, accepted by the domain, of what was stored until then | `EditsInv` |
| `ProductsSound` | one currency a product, and an edit that passed the row's version is never refused by a variant's | `EditsInv` |
| `BrowseTrue` | what is shown on sale can be bought and priced, and a browse shows what was on sale all along exactly once | `EditsInv /\ BrowseInv` |
| `TotalsAreExact` | a committed order's total is what its lines cost, in one currency: nothing wraps around | `RowsAreOrders` in `BookInv` |
| `OrdersShownOnce` | a walk shows whole orders of their owner, none twice, and every one that was there when it began | `BookInv` |
| `CallsStaySafe` | a call, however it is repeated, cut and lost, takes effect once at most and is answered with the truth | `ProcessInv /\ BreakerInv /\ CallInv` |
| `VerdictsStayDeserved` | the breaker opens only over enough failed or late calls of one window or trial, and closes only after a whole trial was answered | `BreakerInv` |
| `StopsStayClean` | stopping a process loses no call and closes nothing in use, for each of the programs | `ProcessInv /\ BreakerInv /\ CallInv` |

Why the strengthening is needed:

* `TypeOK` of `Inventory` alone is not inductive: that a statement indexes a
  row that exists follows from where its transaction is (`TxShape`).
* One live hold per order is decided by what is committed *and* by what open
  transactions have inserted, and that a settled row is final by the version a
  settling transaction remembers. `RowInv` ties a row's version to its status,
  its newest version to its owner, and the aggregate in a transaction's memory
  to the row it was read from. From this an UPDATE that finds version 1 finds a
  live hold, whoever wrote in between.
* The counts need more: a stock row an open transaction has written differs from
  the committed one by exactly what the transaction's memory says it moved
  (`StockLocked` in `IndInv`), unit by unit (`Back`, `Taken`), so that a COMMIT
  moves the counts by what it moves the holds, and a rollback by nothing.
* That nobody waits in a circle is proved without a bound on the transactions:
  whoever completes a circle would have to want a row beyond those it holds
  (`MovesInOrder`), and the ones behind it in SKU order were a circle before.
* The refinement needs, besides, that a candidate keeps the order and basket it
  was asked for (`AskedFor`).
* `CheckoutInv` adds that a claim and its order are committed together, that an
  uncommitted key excludes a committed one, and that a call about to answer
  holds an order that exists.
* `HoldInv` says what a call has taken at each step and what may still be under way
  for it: a late `ReserveStock` has a fault behind it, and a release of an order's
  hold, in flight or done, a lost answer to COMMIT.
* `DeliveryInv` adds that a locked row is unpublished and locked once, that what
  was acknowledged is on the topic, and that whatever is in flight, also from
  a relay that died, was committed.
* `OrderInv` adds where the order of one aggregate comes from: its row lock makes
  its events commit in the order of their ids (`WrittenInOrder`), and a batch, or
  the write a dead relay left behind, reaches back to the aggregate's oldest
  event that is not on the topic. `CopyInv` counts: the copies on the topic, the
  late writes and the send still to come are one more than the faults at most.
* `ConsumerInv`: that a claim and an effect agree depends on whose transaction
  holds the inbox row (`ClaimsAreHeld`), and that the offset passes only settled
  messages on what a member that lost its partition still has in its hands
  (`SettledBehind`): it may finish late, and its successor starts at the offset.
* `PaymentInv`: one attempt per order follows from the partial unique index only
  with what is committed under a key and who is inserting it (`KeysAgree`); that
  records agree with the provider from what every message in flight says
  (`MessagesAreTrue`) and from the row lock under which it is applied
  (`LocksAreHeld`). `NoDecisionLost` needs to know where a decision is while it is
  not in the row: still due as a webhook, in the answer a call waits for, or in the
  hands of a handler (`DecisionsAreNews`).
* `SagaInv`: one outcome follows from the row lock that a sweep and a payment
  compete for (`RowsAreLocked`). The margin needs a bound on every stretch of time
  that adds up to it: a sweep leaves nothing stale behind unless its batch was
  full, the loop sleeps only after a batch that was not, so a pending order is
  younger than window and interval (`SweptInTime`), and a payment started by then
  ends within its lag as long as none was late (`BoundsAreKept`).
* `IdentityInv`: a chain forks unless a row that somebody updates is live and held
  for one open transaction (`RowsAreHeld`), and a link that was exchanged is spent
  (`LinksAreSound`). That a revocation is final needs the UPDATE half-way
  (`Revoking`): every link still live is before it, in its hands, or has been
  exchanged since, in which case the row it replaced is before it and will be
  missed.
* `EditsInv`: an edit's two reads are of two moments and its writes of later ones.
  It holds together because the row is read first and every commit that changes a
  variant moves the row's version: what a call has loaded is what is stored, row
  and variants, as long as the version is the one it read (`Loaded`). Once it has
  updated the row, the row's lock keeps the product as it is (`LocksAreHeld`), so
  what is left to write is the change to what is stored (`Decided`, `Writes`,
  `Inserts`). With the variants read first, as `VariantsFirst` has it, `Loaded` fails
  and so does `ProductsAreSound`.
* `BrowseInv` and the walk of `BookInv` are one argument. A time of creation never
  changes and `(created_at, id)` is a strict order, so a token divides the rows:
  what was shown is not before it, what is still to come is (`WalkIsOnCourse`), and
  a page of `size + 1` rows leaves nothing out between its last row and the rows
  below (`OnPageOrBelow`). For products it takes, besides, that a row on a page and
  the variants read after it may be of different moments (`StillThere`): a product
  once on sale is never without a variant again.
* `BookInv` keeps that a row's total is what its lines cost (`RowsAreOrders`). That
  `NewOrder` makes it so is arithmetic: a subtotal that passes the guard by division
  is below the largest amount and so is its product (`SubtotalExact`), and the sum
  is the exact one or refused, line after line (`SumExact`).

* `RequestPath`: that a handler at work on a call that took effect recognises the
  repeat comes from who may be at work at all: without `"replays"` there is one
  attempt, so one handler (`OnceOnly`). A refusal stays true because nothing of the
  call is in flight any more, or the service will always refuse it (`TrueAnswer`).
  That no failure means no cut handler, and work in flight an open pool, depends on
  where the process is (`Stages`). The breaker's counts never exceed those of the account,
  failure by failure and call by call, and a breaker that has changed its state has
  the account of the last window to show for it (`BreakerOK`).

What the theorems assume is what the modules assume of their constants, and no more.
`Payment`, `Identity`, `OrderBook` and `Catalog` say that `None` is not one of the
values it stands beside,
and `Api` (`RepeatsAssumption`) that a method with an effect which the clients are
configured to repeat recognises a repeat: `client.go:70` asks for names "that are
safe to retry". Working out these proofs showed three definitions (`Refusal` and its
parts in `Catalog`, `Succeed` in `Payment`, `EnsureUsable` in `Identity`) whose
cases overlapped, which left to the reader which error comes first; they now ask in
the order the code does. They also showed one mistake: `Troubles` of `RequestPath`
let a repeat that its handler recognises have an effect again when it failed, which
takes two failures to see.

Totals and pages are defined by recursion and by choice: `Owed` and `sum` add up
line by line, a statement's `ORDER BY` is the sequence of its rows in which each is
newer than the next. That such a function or sequence exists, and what follows from
it, is an induction. It is done without a theorem that takes an operator: `Upwards`
is induction over the *set* of numbers a fact holds of, from the well-foundedness
of strict inclusion of finite sets, `RecursionDefines` takes a recursion as a
function of the value before, and sequences are sorted by taking the oldest row out
(`OrderBookProofs`) or by counting the newer ones (`CanBeSorted` in `CatalogProofs`).
For this `Catalog` adds the variants of a creation as a whole (`Added`) where the
code loops, and the listings of both modules state their order (`Sorted`); the runs
have the same states as before.

`Catalog` assumes that the tables are sound at first (`SoundTables`: a variant has
its product, a product one currency, something on sale a variant), which are the
states the domain leaves behind, and that edits are requests (`Requests`).

Only model-checked: the liveness properties (`ExpiredHoldsEnd`, `CallsEnd`,
`WalksEnd`, `EverythingSettles`, `EventsArrive`, `MessagesSettle`, `NothingHangs`),
since fairness and `ENABLED` are beyond the prover. Every invariant, every action
property and the refinement that the runs check is a theorem.

## 6. Plan

The modules planned are written, and what their runs check for safety is proved.
What is left is upkeep: `OrderBookProofs` and `CatalogProofs` each hold lemmas about
sorted listings for their own rows, which one module about keyset pages could state
for both.

## 7. Not modelled

Wording and layout: error messages and their metadata, translation, the bodies of
requests and answers, names, descriptions and attributes, logs, metrics, traces.
Keys, signatures and password hashing: a token is what it says, a hash is the
password it was made from. The event envelope is a wire format; a consumer sees
an event that decodes or one that does not. Configuration is the constants.
Generated code is mapped where a module uses a query or a method of it.
Deployment is left out; that the relays run one at a time (Recreate), how many
consumers a process has, and the timings of the services are taken from there.
The fake provider's own restart, which forgets its charges, is left out: the
service never asks about a charge twice.

Assumed and not checked:

* byte-wise ordering of SKUs in both Go and PostgreSQL (the collation of the
  deployed image; another one would give `ReserveStock` and `settle` different
  locking orders);
* one clock for order and inventory, and, within `Leeway`, for identity and those
  who verify its tokens;
* a broker that keeps what it acknowledged;
* PostgreSQL's READ COMMITTED as the modules describe it;
* gobreaker: a result from an earlier generation does not count, an excluded one
  (a cancelled call) gives its slot back;
* grpc-go: `GracefulStop` and `Stop` wait for handlers that run; `net/http`:
  `Close` waits for nobody.
