# Formal model of the laptop shop backend

TLA+ specifications, TLC model checks and TLAPS proofs for the NestJS backend in
`src/`. They cover the parts of the shop in which money and stock change hands:
what concurrent requests, the scheduled job, the bank's webhook and crashes may
do to them.

## 1. Inventory of the system

The program is one Node.js process (or several behind a balancer) with MySQL
(TypeORM), Redis and BullMQ. A handler runs without interruption between two
`await`s; between awaits any other handler may run. Only the inventory code uses
database transactions. Components call each other directly; EventEmitter events
(`order.*`, `payment.*`, `warranty.*`) go to the notification module only.

| Component | State | Operations | Talks to | What is hard | What makes it correct |
|---|---|---|---|---|---|
| inventory: reservations | `inventories`, `stock_reservations`, `stock_movements` rows | `reserve`, `release`, `confirm`, `releaseExpired` (BullMQ job, every 5 min) | called by order, payment | row locks, deadlock, a read before the lock, rollback, expiry | no oversell; nothing half reserved; a reservation settled once; the journal explains the row |
| inventory: corrections | the same rows | `importStock`, `exportStock`, `adjustStock` | staff | read-modify-write without a lock | no update lost |
| order | `orders.status` | `createFromCart`, `updateStatus`, `cancelMyOrder` | cart, inventory, coupon, shipping | awaits between check and save; no transaction over the steps | status only advances; cancelled gives everything back |
| payment, webhook | `payments` row per order, idempotency keys in Redis | `create`, `processSepayWebhook`, `simulateSuccess`, `simulateFailed` | order, inventory | duplicates, late or lost notifications, crash between saves | a transfer counts once and is never lost; sold stock is paid |
| cart | `carts`, `cart_items` | add, update, remove, clear | product, inventory, order | find then write by id, clear after a slow checkout | what was put into the cart is in the cart or in one order |
| coupon | `coupons.usage_count`, `coupon_usages` | validate, mark used, roll back, create, update, expire, collect | order | limit checked long before it is counted; read-modify-write of the counter | usage within the limit; counter equals the usage rows; discount bounded by the total |
| shipping | `shipping_orders`, tracking history | create with provider fallback, track, cancel, return | order, providers | failure after the provider succeeded; refresh against cancel | what is booked is recorded; what the cache stands for is complete; no cancellation after the pickup |
| return and refund | `return_requests`, `refund_transactions`, inspection | submit, review, method, label, tracking, inspect, refund, cancel | order data | any-order calls | decided once; refunded after an inspection, with a record, at most what was paid |
| warranty | `warranty_tickets`, repair logs | create, assign, update status | order | check then insert | one open ticket per item; every status logged |
| notification | Redis list, retry set, dead letters; `notifications` | enqueue, batch, retry, dead-letter retry | events | pop then crash; push then remove; overlap of timers | nothing lost, nothing twice, attempts bounded |
| auth | Redis tokens, refresh hash | verify, reset, refresh, logout | user, mail | get then delete; keys that expire | a mailed token is used once; a revoked one stays revoked |
| review | `reviews`, rating columns of `products` | create, update, remove | product | count and store in two statements | the rating is that of the reviews |
| address | `addresses` | create, update, delete | - | reset and set in two statements | one default |
| pc-build | rules | check, suggest | product | - | what is suggested fits |
| product listing | `products` | search, sort, pages | - | - | the pages cover the matches, in order |
| wishlist, user profiles, product, category, brand, banner, site settings | one row per operation | CRUD | - | - | uniqueness |
| dashboard, statistics | none | SQL aggregates | all tables | several queries, no snapshot | the figures agree with each other and with the rows |
| health, metrics, mail, guards, filters | none | read-only or pure I/O | - | - | - |

The hazards, each at its line, are in `PROJECT.json` under `hazards`.

## 2. Modules

| Module | Models | Kind |
|---|---|---|
| `StockLedger` | what the inventory promises: hold a whole order or nothing, settle once | abstract specification |
| `StockReservation` | `StockReservationService`, its job and the stock corrections as MySQL transactions | detailed, refines `StockLedger` |
| `OrderPayment` | `OrderService`, `PaymentService`, `WebhookController`, `IdempotencyService` as interleaved handlers | built on `StockLedger` |
| `NotificationQueue` | `NotificationService`: queue, retry set, dead letters, the timer and its calls | detailed |
| `CouponRules`, `CouponUsage` | `CouponService`: what it decides; coupons, usages and the handlers that use them | pure operators; detailed, built on them |
| `ReturnFlow`, `RefundRules` | `ReturnService`: the life of a return request; eligibility and the refund amount | detailed; pure operators |
| `WarrantyTicket` | `WarrantyService`: tickets and their repair logs | detailed |
| `ShippingOrder` | `ShippingService` and the `MockShippingAdapter` it asks | detailed |
| `AuthTokens` | `AuthService`: refresh tokens, mailed tokens, and the accounts they are about | detailed |
| `CartCheckout` | `CartService`, and how `createFromCart` reads and clears the cart | detailed |
| `ReviewBook` | `ReviewService` and `updateRatingStats` | detailed |
| `AddressBook` | `AddressService` and the default address | detailed |
| `PcBuild` | compatibility issues and suggestions of `PcBuildService` | pure operators |
| `ProductListing` | `ProductRepository.findWithQuery` | pure operators |
| `ShopReports` | the dashboard and the statistics of the other services | pure operators |
| `AfterSales` | `ReturnFlow`, `WarrantyTicket` and `ShippingOrder` side by side | composition |
| `Customers` | `AuthTokens`, `CartCheckout`, `ReviewBook` and `AddressBook` side by side | composition |
| `StockReservationProofs`, `OrderPaymentProofs`, `NotificationQueueProofs`, `CouponUsageProofs`, `AfterSalesProofs`, `CustomersProofs` | theorems about these modules | proofs |
| `RulesProofs` | theorems about `PcBuild`, `RefundRules`, `ShopReports`, `CouponRules` and `ProductListing` | proofs |
| `SumTheorems` | lemmas about sums over finite sets | proofs |
| `MC...` | small instances for TLC | - |

An operator whose comment begins with "Mutant of X" is not part of the model: it
is a plausible bug in the code X stands for, kept to confirm that a run notices it.

### StockReservation

A session is a pool connection executing one transaction. `committed[p]` is the
version of the product's row a plain `SELECT` sees, `current[p]` the newest one,
`lock[p]` the holder of the row lock. `todo`/`done` are the lines (order, line
number) the `for` loop has still to process or has processed; `entries` the
`stock_movements` it inserted; both appear at the commit. `journal[p]` sums the
committed movements.

| Action | Code |
|---|---|
| `StartReserve`, `ReserveLine`, `RejectReserve` | `reserve`: transaction, one loop round, not enough stock |
| `StartSettle`, `StartExpire` | the `find` of the reservations in `release`, `confirm`, `releaseExpired`, before any lock |
| `SettleLine` | one loop round: `SELECT ... FOR UPDATE`, compute, save, movement, status |
| `Commit`, `DeadlockVictim`, `Abort` | end of the callback; InnoDB's rollback of a cycle; timeout, lost connection, crash |
| `StartCorrection`, `WriteCorrection` | the unlocked read and the write of `importStock`, `exportStock`, `adjustStock` |
| `Saved`, `Shown` | `invRepo.save(inv)`: TypeORM's `SELECT`, comparison and `UPDATE` |
| `View`, `Select` | a plain `SELECT` of the transaction and the snapshot the first one takes |
| `Elapse` | `expiresAt` passes |

`SnapshotReads` is the isolation level. `TRUE` is REPEATABLE READ, MySQL's
default, which `docker-compose.yml` and `data-source.ts` leave in place. TypeORM
writes only the columns in which the entity differs from what its own plain
`SELECT` shows; under REPEATABLE READ this is the snapshot of the transaction's
first plain `SELECT`, which may be older than the row `FOR UPDATE` locked. A
column whose new value happens to be the snapshot's is then not written and an
update is lost (section 8). `FALSE` is READ COMMITTED, under which the
`SELECT` of the save sees the locked row. The runs use `TRUE` except where the
violation should not depend on it, and the theorems hold for both. Stock
corrections are modelled under REPEATABLE READ only: under READ COMMITTED their
save would also write back the stale reserved quantity.

Two variables are history, which no guard reads. `lost` has the products of which
a save did not write what the handler computed: a column skipped under REPEATABLE
READ, or a correction computed from a row that has changed since. `raced` has the
lines that were on the lists of two settlements at once. Both events are in the
model and happen in the runs; the code does not prevent them. The properties speak
of all other products (`Exact`) and lines, so what they say is how far the damage
reaches: a lost update or a double settlement spoils the product or the line it is
about and nothing else, whatever transactions it shares with others.

Abstractions. A product without an inventory row is not modelled (it behaves like
a row of zero units in `reserve`). `damagedQty` and `incomingQty` are left out.
Rows of a settlement are processed in order of id. `createFromCart` reserves an
order once, because the id is new.

### OrderPayment

A worker is a handler between two awaits; `task[w]` holds what it has read: the
order it works on, the status it is about to save (`to`), the transfer. Every
step of a handler reads and writes what the code does between two awaits, so the
entity saved at the end is the one loaded at the beginning, whatever happened to
the row since. Coupon and shipping calls are a step each; stock calls are the
atomic steps of `StockLedger`. `ImplementsLedger` justifies this until an update
is lost or two settlements list one line (`SR_double_settlement`). After a lost
update quantities drift, but the statuses of reservations, which the properties of
`OrderPayment` speak of, are still settled once (`SettledOnce`).
A cart is filled once, at the beginning; `CartCheckout` has carts that change.

`Crash(w)` ends a handler at any await: the process dies or the awaited call
rejects. In the webhook the controller catches the error and answers success, so
the idempotency key stays. Keys expire (`ExpireKey`, 600 s); so do reservations.

### NotificationQueue

`queue`, `retry` and `dlq` are the three Redis keys; `due` marks the members of
the retry set whose score has passed. `batch[p]` is the batch of a process
(`isProcessing` allows one), `flush[f]` a call of `flushRetryJobs`, `hand[a]` a
call of `retryDeadLetterJobs` between its `LPOP` and its `RPUSH`. Each Redis
command and the save of a notification is one step. A job is its JSON text, so
equal jobs are one member of the retry set, as in Redis. A payload that is not
JSON never enters the queue through this service and is left out.

A call that dies (`BatchDies`, `FlushDies`, `RetryDies`), a save whose answer is
lost (`SaveUnanswered`) and a flush that starts on a job another flush is still
moving (`StartFlush` with an `Overlap`) are mishaps. Nothing in the code prevents
any of them, and each may lose or repeat what it meets: the history variable
`spoiled` remembers these contents and the properties speak of the others.

### The services after the checkout and around the customer

`CouponUsage`, `ReturnFlow`, `WarrantyTicket`, `ShippingOrder`, `AuthTokens`,
`CartCheckout`, `ReviewBook` and `AddressBook` are written alike. `task[h]` is what
handler `h` is doing: `pc` names the next thing it will do, the other fields are
what it has read. A step is what happens between two awaits. An entity is loaded
in one step and saved whole in a later one, because these services call
`repository.save(entity)` on what `findOne` returned: whatever another handler
wrote in between is overwritten. (The `SELECT` and `UPDATE` inside one `save`
are one step here. TypeORM writes only the columns that differ from that `SELECT`,
which, without an enclosing transaction, is the row as it then is, so the effect
is that of writing the entity.) Where the code updates single columns
(`repository.update`), so does the model.

| Action names | Code |
|---|---|
| `Start...`, `Find...`, `Load...`, `Check...` | the first query of an operation, with its guards and early returns |
| `Save...`, `Insert...`, `Delete...` | the write, and what the handler keeps for the next one |
| `...Fails` | the awaited call rejects and the code catches it |
| `Die`, `Crash` | the process, or its connection, goes away: the handler is gone and the tables stay |
| `Tick` | the clock, where something expires |

*`races`.* Most of what these services promise is true only while certain
requests do not overlap; without a transaction or a lock nothing prevents the
overlap. Saying so in the property is the point: `races` is a history variable
that remembers which kind of overlap has happened (two handlers that hold one
entity to save it, two checkouts of one customer, ...), and a property names the
kinds that break it and no other. `deaths` does the same for handlers that die.
The steps that lead to a race are not removed from the model: the races happen,
every other property must survive them, and the mutants show that the properties
say something about the histories that remain.

*Coupon.* `coupon[c].count` is `usage_count`; `usage[o]` the row of
`coupon_usages` of order `o`. A checkout goes `Validate` (row), `CountUsages`,
`CountOrders`, `InsertOrder`, `Reserve`, `FindToMark`, `SaveUsage`, `SaveCount`;
a cancellation `FindUsage`, `FindToRollback`, `SaveUncount`, `DeleteUsage`,
`SaveCancelled`. Dates are small numbers and `Tick` passes them.

*Return.* `submit` stores the request and then its items; the review controller
calls `generateLabel` after an approval (`LoadForLabel`, `SaveLabel`);
`processRefund` is `StartRefund`, `FindReport`, `SaveRefundPending`,
`SaveRefunded`, `SaveTransaction`, and asks for a report, never for a status.
`updateTracking` has no caller and is modelled like the operations that have one.

*Shipping.* `booked` is what the providers know. A provider that was asked may
fail after it has booked, a write may fail, and a call in which that happens is
`blamed`. `retries` becomes `None` where the code computes NaN: `retryCount` of an
entity that was never saved is undefined, and MySQL refuses every later insert of
it (`Storable`). `MockShippingAdapter`, the only adapter there is, serves every
provider: it keeps nothing and reports the same three events of any parcel
(`Journey`) beside the status `in_transit`, at every call with times counted from
that call. The lookup that should find an event stored before compares such a time,
with its milliseconds, with a `TIMESTAMP` column that has none: it finds it only by
coincidence (`Lookups`), so that every refresh may store the journey again. The
history is therefore the set of statuses it has rows of. That and `cached` are what
`CachedIsComplete` relates.

*Auth.* A refresh token is a JWT over the user and the second, so it is the record
`[user, iat]`, and two tokens of one second are one. `revoked[t]` is the time at
which the Redis key of a revoked token expires. A mailed token is a random key.

*Cart.* `wanted` is a ghost: what the customer has put in and neither taken out
nor ordered. Stock that the inventory shows is a constant.

*Parts.* `AfterSales` has `ReturnFlow`, `WarrantyTicket` and `ShippingOrder` side by
side, `Customers` the four services around the customer: `part` chooses which one takes
all the steps. They share no table and never call each other, so an interleaving of two
of them is a reordering of one after the other, and the properties, each about one
service, cannot tell them apart. `MCAfterSales` and `MCCustomers` give them constants.

### Pure algorithms

`CouponRules`, `RefundRules`, `PcBuild`, `ProductListing` and `ShopReports` are
operators. What is claimed of them is an `ASSUME` of the MC module that uses them;
TLC evaluates it before the run. Where the last column names a theorem, it holds for
every input (section 4).

| ASSUME | Claims, for every input of the sets in the module | Theorem |
|---|---|---|
| `BuyGetIsCheapest` | the buy-x-get-y discount is the cheapest choice of the free units | - |
| `CouponsLeaveATotal` | a discount is between 0 and the subtotal; a fixed amount leaves something to pay | `DiscountBounded`, the bounds |
| `BestAreSuggested` | no usable coupon that is not suggested beats one that is | `BestAlwaysSuggested` |
| `RefundIsBounded` | a refund is never negative, never above what was paid plus the store-credit bonus, and deductions never raise it | `RefundsAreBounded` |
| `SuggestionsFit` | a suggestion without errors can be added to a compatible selection | `SuggestionsAlwaysFit` |
| `PagesCover` | the pages hold every match once, if the sort key tells the products apart | `PagesAlwaysCover` |
| `StatisticsAgree` | the figures of a report agree with each other and with the rows | `StatisticsAlwaysAgree` |
| `OverviewAgrees` | those of the dashboard do, and its best sold products are the best sold | `OverviewAlwaysAgrees` |

## 3. Runs

Bounds are in the `.cfg` files. In the `SR` runs two orders with two crossing
lines are the smallest that deadlock; a third session, where there is one, reads
what two others are changing; two units on sale refuse one of two orders. In
`SR_concurrent` both sessions settle and one correction and one abort may come. The
`OP` runs follow one order of one customer, since handlers of different orders
meet only in the inventory: two handlers are enough for one to work with what the
other has made stale. The queue runs with two contents, of which one may be
spoiled and the other not, two attempts, two flushes and one mishap. `CU_coupons` has three orders, so that a customer has two and the coupon's
limit of two can be exceeded by a third; a percentage with a cap and an end date
and a single-use fixed amount that starts later cover every check of the
validation. The other services have two handlers, which is what a stale save
needs, one row where one row is all a handler touches and two where rows of one
owner meet (tickets of an item, rows of a product in the cart, reviews of a
product, addresses), and one death or fault. A refund can be asked for twice, a
shipment be booked with two providers, and the clock passes the lifetime of every
token and key. Everything else that grows is bounded by a `Max...` constant.

| Run | Shows |
|---|---|
| `SR_concurrent` | two sessions that both settle, REPEATABLE READ, with deadlocks, an abort and a stock import or export: no partial reservation; up to `lost` and `raced`, the journal explains the rows, reserved = pending, no oversell, settled is final, `StockLedger` is implemented |
| `SR_serial` | three sessions reserve, one of them also settles: every transaction ends and every reservation is settled |
| `OP_sequential` | one handler at a time, dying anywhere: cancelled orders hold nothing, statuses only advance, paid transfers confirm and, unless the handler dies, are recorded |
| `OP_concurrent` | two handlers: sold stock is paid, payments stay paid, coupons need stock |
| `NQ_delivery` | the notification queue with overlapping flushes and a call that dies: what the mishap does not meet is neither lost nor stored twice, and is delivered or ends among the dead letters |
| `CU_coupons` | checkouts, cancellations and administrators at one coupon: the counter is the number of usages, the limits hold and what was switched off stays off, each up to the races it names |
| `AF_after_sales` | returns: decided once, refunded after an inspection and with a record. Warranty: one open ticket, every status logged. Shipping: what is booked is recorded, and while the cache answers the history is complete |
| `CD_customers` | revoked tokens stay revoked, mailed ones are used once; units are in the cart or in one order; the rating is current; one default address |

Runs that expect a violation each show one sentence of the documents or comments
that the code does not keep; the quotation is in `findings`.

| Run | The code |
|---|---|
| `SR_double_settlement` | settles a reservation twice when two settlements overlap |
| `OP_cancel_paid` | cancels a COD order without returning the stock |
| `OP_expired_order` | confirms an order whose reservation has expired |
| `AF_cancel_after_pickup` | cancels a shipment whose tracking history shows the pickup |

Deadlock is not checked where the system may stop: every bounded counter used up
and no request owed.

### Fairness

`StockReservation`: `WF(Advance(s))`: MySQL answers the statements of an open
transaction, grants free locks and picks a deadlock victim; `WF` of starting the
job: `InventoryQueueInitializer` registers a repeating job on every start and
BullMQ keeps it in Redis; `WF(Elapse)`: time passes. `OrderPayment`:
`WF(Advance(w))`: an awaited call is answered. `NotificationQueue`: `WF` of the
batch and of the flush, which the timer of `onModuleInit` starts every two
seconds, of `Elapse`, and of the second half of a dead-letter retry. No request
and no event is ever owed. The other modules state safety only: their handlers are
requests that may die, and nothing resumes them.

## 4. Proofs

Every invariant and action property that a passing run checks is also a theorem,
for every value of the constants. The invariants are seldom inductive alone: what
has to be carried along is what the handlers in between hold. Each subsection says
which strengthening that is. A proof has one lemma per action, or per kind of step
where many actions do the same to a row, and one `Step` or `Next` lemma that puts
them together.

### StockReservation

`StockReservationProofs`, at both isolation levels, for any number of sessions that
reserve and settle:

* `TypeCorrect`: `TypeOK`. It relates a session's variables to the transaction it
  runs, which the other proofs need.
* `AllOrNothing`: an order has reservations for all its lines or for none.
* `JournalExplainsRows`: `RowsExplained`, the quantities of a product that is not in
  `lost` are the initial ones plus the journalled movements.
* `SettledOnce`: `SettledIsFinal`, a line that is not in `raced` is settled once.
* `ReservedMatches`: `ReservedIsPending`, the reserved column of an `Exact` product is
  the sum of its pending lines.
* `NeverOversold`: `NothingOversold`, if no adjustment is negative. The assumption is
  needed: `adjustStock` accepts any integer and can take away what is promised.
* `ImplementsLedger`: `RefinesLedger`. The initial states are those of
  `StockLedger`; a commit is one of its steps, with all the lines of the order, and so
  is a correction; every other step stutters, as the ledger sees committed rows.

What the histories leave out has to be left out: `SR_double_settlement` shows what two
settlements of one line do, and section 8 what REPEATABLE READ does.

`LockDiscipline` says a row is different from its committed version only while its
lock is held, and that a session with movements of a product holds its lock.
`ExplainedInv` then states the equations for `current` with the uncommitted
`entries` of the holder added, so that a line, a commit and a rollback each preserve
it. `ListsInv` is about the lists: a line that a settlement works on is still pending
unless it is in `raced`, one on two lists is in it, a line a reserve works on has no
reservation yet and belongs to no other reserve. `WorkInv` says that a locked row is
the committed one after the units of the lines its holder has processed. With these a
commit moves the two quantities and the statuses of a product's lines together, which
is `BooksInv`: reserved is the sum of the pending lines, and available is what there
was and was given less what is promised or sold. `NonNegative` adds that available is
never below zero; that a save may skip a column does no harm, because what stays is
not negative either. Oversell is the two together. `WholeOrders` and `OneStatus` say
that transactions work on whole orders, whose lines have one status: what the ledger
needs.

### OrderPayment

`OrderPaymentProofs`:

* `TypeCorrect`: `TypeOK`, through `TypeInv`: what a handler has at each of its steps
  (`FieldsOK`), that it works on an order that exists (`RowsExist`), and that the
  ledger reserves the sum of what the pending orders ask for (`LedgerInv`), without
  which a settlement could take more than there is.
* `CouponsAreHeld`: `CouponNeedsHold`.
* `PaymentsStayPaid`: `PaidStaysPaid`, if no administrator simulates a failure.
* `SoldIsPaid`: `SoldStockIsPaid`, if moreover no handler dies; a handler that dies
  between `confirm` and the save of the payment leaves sold stock unpaid. It needs
  that a COD handler about to confirm has stored its payment as paid (`SoldInv`).
* `CancelledIsEmpty`, `PaidLeavesPending`, `OrdersAdvance`: the three properties of
  `OP_sequential`, for any number of handlers that may die anywhere, as long as no two
  of them work on one order (`[]NoOverlap`). `updateStatus` saves the entity it read
  before its calls, so that two handlers of one order can each write over what the
  other did. The invariant `OwnInv` says what a handler relies on at each step of its
  own order; only the expiry job touches that order meanwhile. The code does not
  rule such an overlap out, so these three are conditional.

### NotificationQueue

`NotificationQueueProofs`:

* `TypeCorrect`: `TypeOK`.
* `JobsAreKept`: `NothingLost`, for any number of processes, flushes and
  administrators.
* `DeliveredOnce`: `StoredOnce`, for finitely many processes and administrators.

A flush pushes a job and then removes it from the retry set, so that a job is in two
places meanwhile, and the pushed copy may have gone on: it may be in a batch, stored,
back in the retry set or dead when the removal comes. `FlushInv` says that of the
contents that are not spoiled no two flushes have the same to move, and that what a
flush has still to move is in the retry set. `NothingInv` follows the pushed copy
(`Tracked`: it is stored, or it is at one of the places where a copy can have got to,
with the number of attempts it has there). `OnceInv` counts: what is stored plus
everything that can still be stored, the job between its push and its removal once, is
at most what was announced. Both are about one content at a time, and a mishap only
takes contents away that it adds to `spoiled`.

### CouponUsage

`CouponUsageProofs`, for any coupons, customers, orders and handlers, any valid
configuration and any patch the request validation lets through:

* `TypeCorrect`: `TypeOK`; with `DiscountBounded`, no discount exceeds the subtotal.
* `CounterIsExact`: `CounterExact`.
* `LimitsHold`: `UsageWithinLimits`.
* `StaysOff`: `InactiveStaysOff`.

The invariant is one, `IInv`, because its parts need each other. `OrderInv`: a
checkout is alone with its order until the order is stored, and, unless two handlers
have worked on one order, a usage row is there exactly at the steps where the code
relies on it. `RowInv`: until two handlers have held one coupon, an entity is what is
stored. `UserInv` and `LimitInv`: what a checkout has counted before it stored its
order still holds when it records the use. That the counter does not fall below zero
when a cancellation takes one off is a counting argument: each handler between its two
writes has a usage row of its own.

### Customers

`CustomersProofs`, for any number of rows, requests and users, every lifetime and
every bound:

* `TypesCorrect`, `RevokedForGood`, `MailedOnce`: `AuthTypeOK`, `RevokedStaysRevoked`,
  `MailedTokenUsedOnce` of `AuthTokens`.
* `DefaultIsUnique`: `OneDefault`. `StatsAreCurrent`: `StatsCurrent`. `CartAddsUp`:
  `UnitsAccounted`. `AllTypesCorrect`: `TypesOK` of the four services.

The services are proved one by one and hold side by side (`PartsRun`: a step is a step
of one service that leaves the others alone). The key of a revoked token expires, so
that a token is not accepted again is a fact about time. `KeyInv` says that a token a
client or a handler has was signed by now; hence a key set now outlives it, and a key
that was ever set expires no sooner than its token. It adds that, until two handlers
have had one token, a token past the check is not revoked or has expired. `MailInv`
says that, until two handlers have had one mailed token or one has died, a used token
whose key is still there is held by a handler about to delete it. `DefaultInv` says that
whoever makes an address the default is alone with that and has reset all others before
it writes. `StatsInv` says that numbers about to be stored are those of the reviews
unless somebody is going to count again. `UnitsInv` says that handlers are about
different products and that what each has read of the cart is still there; the units of
a product are a sum over its rows.

### AfterSales

`AfterSalesProofs`, likewise, for any number of requests, tickets, shipments,
handlers and providers:

* `RefundAfterInspection`, `RefundRecorded`, `DecidedOnly`: `RefundNeedsInspection`,
  `RefundIsRecorded`, `DecidedOnce` of `ReturnFlow`.
* `OneIsOpen`, `StatusesAreLogged`: `OneOpenTicket`, `StatusIsLogged` of `WarrantyTicket`.
* `ParcelsAreRecorded`, `CacheHidesNothing`: `BookedIsRecorded`, `CachedIsComplete` of
  `ShippingOrder`.
* `PartsTyped`: `TypesOK` of the three. The counts it bounds are checked before an
  `await` and stored after it, so `BoundInv` counts a handler past the check together
  with what it is going to store.

Returns: `TypeInv` and `TaskInv` say which handlers hold a row, that the request they
work on is stored, and that whoever submits a request is alone with it. `InspectedInv`
adds that a row held with a refund status, and a handler past the check of the report,
belong to a request with a report. `RecordedInv` adds that, unless somebody has died, a
row held as refunded belongs to a request whose transaction is stored or about to be.
`DecidedInv` adds that, until two handlers have held one row, what a handler holds is
the row as it is stored, and that, until a handler has turned to an approved request
that waits for its label, it stays approved.

Tickets: `OpenInv` extends the claim to the handler between the check and the insert,
which is alone with its item. Shipments: `BookedInv` says that, until two handlers have
held one shipment, what a handler holds is booked as the stored row is, unless its
booking is blamed. `CacheInv` says that a tracking number belongs to one shipment,
whoever holds it, that a number in the cache is that of a shipment whose journey is
stored, and that a handler storing events has only those left to store that it has not
looked for yet. That needs no excuse: the history only grows.

### What is computed

`RulesProofs` proves of the pure operators, for every input, what section 2 says TLC
evaluates on samples: `SuggestionsAlwaysFit`, `RefundsAreBounded`,
`StatisticsAlwaysAgree`, `OverviewAlwaysAgrees`, `BestAlwaysSuggested` and
`PagesAlwaysCover`. The rounded percentages need only that a quotient is within a half
of its fraction. Rows that tie are put in descending order by their key and then their
place in a list of them, so that an order exists and the choice the model makes has
the property it is chosen by; what is left out of the first rows is never greater than
what is among them. That all products together sold what was ordered is a sum over
items regrouped by product and name, and renumbered by the list (`SumOverKeys`,
`SumRenamed`). For the pages, a row's place in any sorting is its rank, the number of
rows with a key not above its own; hence all answers of MySQL agree, and a rank is on
exactly one page.

`SumTheorems` has what the other modules need of sums over finite sets. The operators
of the community modules are recursive functions over sets, and an induction theorem
takes an operator as a parameter, which no prover here can instantiate. Its place is
taken by an argument about a smallest counterexample (`SmallestSet`), which is an
ordinary theorem about well-founded orders.

### Assumptions

The named `ASSUME`s of the modules, which TLC evaluates in the runs: the sets of
handlers, orders and sessions that are counted or summed over are finite, quantities
are natural numbers, bounds are numbers, configurations are valid, and `None` is no
row. The hypotheses of single theorems (no negative adjustment, no simulated failure,
no death, no overlap on an order) are above; without them the code breaks the
conclusion.

### Only model-checked

* Liveness, which is outside the prover's reach: `TransactionsEnd`,
  `HoldsAreTemporary`, `TransferIsRecorded`, `JobsSettle`.
* `BuyGetIsCheapest`: the list of units is made by a recursive operator over sequences
  and sorted by one that only TLC evaluates.

## 5. Not modelled

* Wishlist, and the maintenance of products, categories, brands, banners and site
  settings: one row per operation, no protocol between operations.
* Of the coupon service `collectCoupon`, one insert under a unique constraint; of the
  auth service the linking of a Google id, passwords, roles and profiles; of the
  dashboard the 30-second cache and the list of recent orders; of the inventory the
  damaged and incoming quantities.
* Totals, validation of input, e-mail, uploads, health, metrics, guards, filters and
  the seed scripts: data, pure I/O or tools a developer runs alone.

The components with status `partly` or `not_modelled` in `PROJECT.json` say why.

## 6. Plan

What is left, in this order:

1. A theorem about the cheapest free units of `CouponRules`, with the list of units
   written so that it can be reasoned about.
2. `SoldIsPaid` with deaths: a history in which only the handlers of one order die
   leaves the others as they were.

## 7. How to run

`tlc -config X.cfg M` with the module and configuration of a run in `PROJECT.json`;
`tlapm M.tla` for the modules whose kind is `proofs` in section 2.

## 8. Other disagreements met while modelling

They have no run of their own; the definitions named here can be checked by adding
them to the configuration named with them.

* Under REPEATABLE READ a confirm that overlaps another customer's reserve leaves
  units reserved (`stock-reservation.service.ts:143`): `ReservedMatchesPending` is
  violated in `SR_serial` with two sessions, `OneProduct`, `OneUnitCarts` and
  `OneStock`, although only one session settles.
* `order.service.ts:241` saves an order loaded before a concurrent cancellation and
  brings it back: `CancelledIsFinal` is violated in `OP_concurrent`.
* A transfer that races a cancellation is answered with success and dropped:
  `TransferIsRecorded` is violated in `OP_sequential` with two workers.
* `shipping.service.ts:315` maps a provider's "created" and "cancelled" to
  `in_transit`, and `getTracking` has no guard on the status (line 229): tracking a
  cancelled shipment revives it.
* Every refresh stores the adapter's events again (`shipping.service.ts:272`): their times
  are new at every call (`mock-shipping.adapter.ts:68`), and the column keeps no
  milliseconds (`shipping-tracking-history.entity.ts:28`).
* A login and a refresh within one second sign the same refresh token, and the
  refresh answers with a token it has just revoked (`auth.service.ts:229`), where
  `PROJECT_PLAN.md:984` promises rotation: `RotationGivesUsableToken` of
  `AuthTokens` is violated under `CD_customers`. The stored hash of the token is never compared.
* `warranty.service.ts:213` accepts any status from any other, where
  `PROJECT_PLAN.md:1673` draws a state machine.
* `return.service.ts:72`, `checkEligibility`, has no caller, and looks for cancelled
  requests where its message speaks of existing ones; over HTTP `submit` passes no
  items, so that the refund of such a request is zero; `processRefund` runs twice,
  and `cancel` accepts a refunded request.
* `createFromCart` validates a coupon without the items of the cart: product filters
  are not enforced at the checkout and buy-x-get-y takes nothing off. A coupon with a
  discount of zero is never marked as used.
* `product.repository.ts:155` counts reviews in a query that also names `products`,
  so the count is multiplied by the number of products; the average is right.
* `category.service.ts:93` refuses only a category that is its own parent: two legal
  updates make two categories each other's parent.
* A list that is sorted by a column with equal values may repeat or miss rows from
  page to page.
* `inventory.service.ts:110` and its siblings read the row without a lock and
  write a quantity computed from it, where `PROJECT_PLAN.md:1910-1911` asks for a
  lock around `inventory adjust`. An export that overwrites a reserve puts its product
  into `lost` in `SR_concurrent`.
* Carts are locked in the order of their lines (`stock-reservation.service.ts:48`),
  not in a fixed product order as `PROJECT_PLAN.md:1931` asks; `SR_serial` shows
  that MySQL's deadlock detection ends every such cycle.
* `order.service.ts:62` lets an order be cancelled while it is shipping;
  `README_ROLE_FLOW_TEST.md:113` expects a refusal.
* `idempotency.service.ts:13` reads the key and stores it in two commands, so two
  deliveries of one transfer can both be processed; `OP_concurrent` shows that
  the payment is still paid once.
* A crash between `confirm` and the save of the payment (`payment.service.ts:143`)
  leaves stock sold and the payment pending: there is no transaction around them.
* Two checkouts of one cart (`order.service.ts:95`) both create an order.
* `flushRetryJobs` has no guard against its next tick and moves a job in two
  commands. Two flushes that move the same content spoil it in `NQ_delivery`:
  they push one job twice, and a flush that falls behind removes,
  with its late `ZREM`, a copy of the job that has gone the whole way round.
