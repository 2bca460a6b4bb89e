# Verification of the Valancis backend

TLA+ models of the Valancis e-commerce backend (orders, carts, catalog, category
tree, caches, accounts, rate limiter, purchase events, connection pool), the TLC instances that check them and the TLAPS proofs of
what matters most about them. Paths are relative to the repository (`src/`).

## 1. The system

A Go HTTP server (`cmd/api/main.go`) over PostgreSQL. Handlers in
`internal/delivery/http/v1` decode a request and call a usecase in
`internal/usecase`; usecases validate and call repositories in
`internal/repository/sqlc`, which run the statements of `db/queries`. There are
no in-process locks around orders, stock, carts or catalog: all coordination is
what single SQL statements give. What the components share is the database, the
connection pool, an object store for images, one in-memory cache and one map of
rate limiters per process, and nothing else.

| part | state | operations | hard behaviour | what makes it correct |
|---|---|---|---|---|
| status machine, `internal/domain/constants.go` | none (tables) | transition and payment maps, side effects, initial status, expected paths | tables that must agree with each other | an item is held exactly while its order is active; every expected path is allowed |
| order administration, `order_usecase.go` 554-926, `admin_order_handler.go` | orders, order_items, order_history, refunds, variants.stock, inventory_logs | change status, verify payment, payment status, refund, shipping zone, correct stock | each request reads, validates and then writes in 1 to n+4 separately committed steps | stock moved once per change; refunds within what was paid; totals equal items plus fee; the history tells the truth |
| checkout, `order_usecase.go` 294-552 | the same, and cart_items | checkout | stock compared under a lock that is gone, several customers after the last unit, failures half-way | no unit sold twice; a confirmed order is whole; a refused customer keeps the cart |
| transaction manager, `tx_manager.go` | one connection per `Do` | `Do` | its transaction is put in the context and never used, so nothing it wraps is atomic; it still occupies a connection | every way out returns the connection |
| connection pool, `db.go`, `config.go` | `DB_MAX_CONNS` connections | acquire, release | every `Do` holds one connection while its statements need a second | the pool stops only when `Do` holds every connection, and nobody else waits for good |
| carts, `order_usecase.go` 30-216 | carts, cart_items | get, add, update, remove | read-then-write, upsert without a unique constraint, a variant under another product | quantity covered by stock; few lines per product and variant |
| products, `catalog_usecase.go`, `product_repo.go`, `admin_catalog_handler.go` | products, variants, links, image files | create, edit, delete, status, correct stock, link | a form loaded earlier, or filled from a cached copy, overwrites stock customers are taking; variants deleted under orders; files deleted before the row is written | rows never name rows that are gone; edits bring back no more than moved under the form or its copy; images missing only for known reasons |
| category tree, `product_repo.go` 255-412 | categories | read the tree, create, edit, delete, reorder | one query per category, row-by-row reorder, no check against circles | what stands still is shown exactly once, or not at all if it is hidden or out of reach; what moves, few times |
| caches, `cache/memory.go`, `catalog_usecase.go`, `config_handler.go`, `stats_usecase.go`, `sitemap_usecase.go` | TTL map | get, set, delete | invalidated before the write they announce | staleness bounded by the TTL; what is invalidated stays invalidated |
| rate limiter, `rate_limit.go` | limiter per IP | allow, cleanup, shutdown | eviction racing use | an address is admitted as by one token bucket; idle ones are forgotten |
| purchase events, `facebook/capi.go` | goroutines | send with retries | lost answers, a stopping process | a purchase is reported only if confirmed and lost only for a named reason |
| authentication, `auth_usecase.go`, `user_repo.go`, middlewares | users, refresh tokens | login, refresh, revoke | concurrent first logins, stale roles in tokens | one user per address; a role or session outlived by one token life at most; a role not undone by a login |
| coupons, `coupon_usecase.go` (routes disabled in `main.go`) | coupons | validate, count use | validation and count apart | usage within the limit |
| wishlists and reviews | their tables | add, remove, list | columns that are unique one by one | a customer's second item is accepted |
| content, search, statistics, uploads, logging, configuration, CORS | their tables, or none | CRUD, reads, pure I/O | little | plain CRUD |

`PROJECT.json` lists each part with what is left out of it, and every hazard at
its line with the properties that cover it or the reason none does.

How the modules relate:

    OrderStatus --+-- OrderLifecycle  <== (refinement) ==+
                  |                                      |
                  +-- OrderStore --+-- OrderAdmin -------+-- MCOrderAdmin, OrderAdminProofs
                                   +-- Checkout ---------- MCCheckout
                                          +-- PurchaseEvents -- MCPurchaseEvents, CheckoutProofs
    Shop         -- MCShop, ShopProofs   (products, orders, carts and files together)
    CategoryTree -- MCCategoryTree -----------+-- CatalogProofs
    CatalogCache -- MCCatalogCache -----------+
    Cart         -- MCCart, CartProofs
    Accounts     -- MCAccounts, AccountsProofs
    ConnPool     -- MCConnPool  --------------+-- ServerProofs
    RateLimiter  == (refinement) ==> TokenBucket; MCRateLimiter --+
    SumProofs    -- lemmas on sums, used by OrderAdminProofs, CheckoutProofs, CatalogProofs

## 2. The modules and the code

**OrderStatus** is `constants.go`: `ValidTransitions`, `ValidPaymentTransitions`,
`StatusSideEffects`, `GetSideEffects`, `DetermineInitialStatus` and
`OrderTypeFlow` are the Go maps and functions of these names.

**OrderLifecycle** is the abstract specification: one item of one order, its
status, and how many units the order holds. `Move` is a change of status with
the side effect the maps give it, in one step.

**OrderStore** holds the rows (`orders` with their items, `stock`, `log` =
inventory_logs, `history`, `refunds`) and the statements. A request that passed
its checks is a list of statements in `todo`, all of whose arguments were fixed
by its one read; `Execute` runs the first one atomically, `Rollback` drops
what is left. This is what `TransactionManager.Do` amounts to: it
begins a transaction and puts it in the context, but no repository calls
`GetQueriesFromContext`, so each statement commits on its own and rolling back
undoes nothing. `UpdateStock` is one step because that repository method opens
a transaction of its own, which it does use. A statement fails by itself when
its guard does (`stock + $2 >= 0`), and for any reason (disconnect, time-out,
crash of the process) when `Faults` is set.

**OrderAdmin** adds the six administrative handlers. Each is one action that
reads the row, makes the handler's checks, and queues the statements in the
handler's order; a request that is refused changes nothing and is no step. The
state the checks see and the state the statements meet may differ as much as
other requests can make them.

**Checkout** adds carts and `Submit`: the cart is read and priced, then
InsertOrder, InsertItem per item, for each item LockVariant (`FOR UPDATE`,
reduced to the comparison because the lock ends with its statement) and
UpdateStock, ClearCart, Commit (the answer). Any of them may be the last.
`UpdateCartItemQuantity` and `RemoveFromCart` change carts meanwhile.

**PurchaseEvents** extends Checkout by the goroutine that reports a confirmed
order to the conversions API. An attempt is one step with one of three ends:
accepted (`Accepted`), refused for good (`Refused`), or no usable answer
(`Retried`: time-out, 429, 5xx), after which the event may have arrived
nevertheless. `received` holds the orders whose event arrived: the event id is the
order's id, and a receiver that takes the events of one id for one counts each
purchase once by that, so no property says so. `Stop` is the end of the process: requests and goroutines go no further;
shutdown waits five seconds for requests and not at all for goroutines, so this
covers both an orderly and a disorderly end. The client is assumed to be configured:
otherwise nothing is sent.

**Shop** is what the catalog does to orders. An administrator's edit is four
steps: the form is filled, `UpdateProduct` (change one thing on the form, and compare
its images with the row as it is now), `DeleteFile` per image, `Save` (one
transaction, which the product repository does use). `GetProduct` fills the form by
id from the rows (`LoadForm`) or by slug from the product cache (`LoadBySlug`):
`cached` holds copies of products that `ReadProduct` made at any earlier moment, and
that `Expire` or a `Save` may or may not remove, since an edit deletes the entry of
one slug only and before it writes. So a form may be older than the moment
it was opened, and name a product that is gone. How long a copy lives is
CatalogCache's question; here it may live for ever. `SavedVariants` overwrites
the variants the form has, inserts those the table lacks and deletes the rest;
`CanSave` is what makes the transaction fail. `DeleteProduct` deletes files and
then the row. Meanwhile customers fill a cart, with a variant under any product, since
nothing checks that they belong together, place orders of one unit and have them
deducted or refused; orders are cancelled (`RestoreOrderStock`) and recovered
(`DeductOrderStock`), each as one step (OrderAdmin splits them). An order whose
checkout is still running can be cancelled too: phase `early`, whose unit checkout
takes after it was given back. The queries of one read of a product are taken at
one moment. `allowed` and `excused` are bookkeeping for the properties. A taken
slug and a negative stock on the form count among the failing statements; uploads
are left out.

**CategoryTree** is the tree. `Walk` is the query for the roots, `ReadChildren`
the query for one category's children, depth first as `getChildrenRecursive`
calls itself; `FailChildren` is its dropped error. `Reorder` writes row by row
and then walks the tree for the cache. order_index is any order of the siblings.
A finished walk starts again as a new one. `changed`, `placed` and
`circled` record what happened during a walk: the rows that were changed, how
often a row was put below another parent, and whether that closed a circle.

**RateLimiter** is the middleware: `GetVisitor` and `NewVisitor` under the lock,
`Allow` after it on the limiter that was looked up, `Cleanup` when the ticker
fires, `Shutdown` and `StopLoop`. Limiters refill at every tick of an abstract clock; ages
are counted only as far as a guard can tell, so time needs no bound. `budget`
is what one bucket per address would hold. **TokenBucket** is the promise.

**Accounts** is login, refresh, logout and profile, statement by statement, with
the access tokens in circulation. `UpdateUser` writes back the role login had
read; `GiveRole` is an administrator at the database, since no request changes a
role. Names are left out (the later statement wins), as are addresses. A failed
revocation at logout is no step. `changed` and `overtaken` are bookkeeping.

**Cart** is one customer's cart under simultaneous requests, in more detail than
in Checkout: GetMyCart's two reads and its creation of the row, the existing
quantity AddToCart adds to, and the upsert as two steps (snapshot, then write),
which is what READ COMMITTED gives a statement whose CTEs look first and insert
afterwards. A request names a product and a variant, and lines are looked up and
deleted by both; nothing checks that the variant is the product's, so one variant may have
a line under each of two products. `StockChanges` is everything that moves stock or deactivates a
product.

**ConnPool** is the pool. A request takes one connection per statement and
returns it; one inside `Do` also took one at Begin. Waiters are served in order
of arrival (pgxpool's own behaviour, marked external). `Disconnect` is the
only thing that ends a wait early: neither `http.Server` nor the handlers set
a deadline. Nothing limits the requests inside `Do` to fewer than the connections
(DB_MAX_CONNS, 50 by default), so the pool may wedge: each holds one and waits for
a second (`Wedged`). A panic inside `Do`'s callback,
which would skip the rollback and keep the connection, is not modelled.

**CatalogCache** is the process's cache. A request is a script of cache and
database calls (`View` = get, read, set; `SaveCategory` = delete, delete,
write; `SaveZone` = write, delete; ...), interleaved step by step. `Affected` says which entries show which
rows: a cached product embeds its categories and collections, the sitemap lists
products, categories and collections, and no write of a collection invalidates
anything. Of the data it keeps whether an entry still agrees with the database, since when it
does not, and why nobody is about to delete it: `missed` is bookkeeping for
the properties and no guard reads it. A read is placed at its start and may
take up to `MaxRead`, which stands for an assumption on query time that the
code does not enforce. Tick is the clock of go-cache's expiry.

## 3. What the runs check

| run | instance | properties |
|---|---|---|
| AdminRace | one order of two items, of every kind at every point of its path; three requests of any kind, two at a time, failing statements | TypeOK; SubtotalPreserved (total = items + fee under racing zone changes); StockLedger (stock = initial + log); RefundsBacked (refunded_amount against the refunds table, both ways); StatusChangesBacked (a recorded status change moved all its stock) |
| AdminLifecycle | one item, four requests one at a time, no refunds or verification, no failures | ImplementsLifecycle: a refinement of OrderLifecycle, although movement and status are written apart |
| AdminSerialRefund | one order, status changes, verification, payment status and refunds, three of them one at a time, failing statements | RefundedWithinPaid |
| CheckoutRace | two customers wanting more than there is, preorder deposits, cart changes, failures, events with three attempts, the process stopping at any moment | TypeOK; NoOversell; ConfirmedWhole; ClearedAfterReserving; EventsTypeOK; OnlyConfirmedReported; LossExplained |
| CartRace | three requests, two at a time, one variant under its product and under another, stock moving between 0 and 2 | TypeOK; QuantityCovered; DuplicatesBounded |
| PoolProgress | two requests through Do and two plain ones, pool of two, failures, disconnects | StuckOnlyInDo; QueueIsWaiting; ConnectionsReturned; EveryRequestAnswered (liveness) |
| CacheRace | two requests at a time of ten kinds, TTL 1, reads of up to 1 tick, failures, restarts | StalenessBounded; Invalidated |
| ShopRace | two products, two variant ids, two images, a collection, two orders, one cached copy; two administrators' requests at once | TypeOK; ReferencesResolve; NoOversellButForms; MissingExplained; LostIsStuck |
| TreeRace | three categories in any arrangement and a fourth that may be created, depth 2, a reorder of up to two items and two changing statements during a walk | TreeTypeOK; TreeExact; CopiesBounded |
| LimitRace | one address, three requests, four limiters, bucket of 2, time to live 3, cleanup every 2 ticks, slack 1, shutdown | TypeOK; ImplementsBucket (refinement of TokenBucket); IdleIsForgotten (liveness) |
| AccountRace | one address, two user ids, two refresh tokens, two requests, access tokens of 1 tick, sessions of 2, requests of up to 1 | TypeOK; OneUserPerEmail; RoleStalenessBounded; SessionEnds; RoleIsGranted |

Each of these properties fails for a plausible bug in the code, given as a
mutant definition beside the one it replaces.

One run looks for a counterexample to a statement the repository makes of itself
and finds it (PROJECT.json "findings" quotes the statement):
**FailedCheckoutLeavesOrder**, "Transaction: Create Order, Update Stock, ..., Clear
Cart". Two checkouts go for the last units; the one that is refused leaves its
order, its items and part of its deduction behind.

Further statements of the repository that the models refute have their property
and configuration here too, to be run by hand (`tlc -config X.cfg MCY.tla`):

| configuration | module | what happens |
|---|---|---|
| RacingStatusChanges | MCOrderAdmin | two changes validated against one row; the later goes where the map forbids |
| RefundBypassesFSM, PaidSyncBypassesFSM | MCOrderAdmin | the refund SQL and the payment synchronisation consult no map |
| VerifySkipsDeduction | MCOrderAdmin | a cancelled order verified is not deducted again |
| RacingRefunds | MCOrderAdmin | two refunds exceed what was paid |
| PartialRecovery | MCOrderAdmin | half a recovery stays |
| UnverifiableAdvance | MCCheckout | mobile_banking without a transaction id counts as paid |
| LockTooShort | MCCheckout | stock changes between the lock and the deduction |
| DuplicateCartLines, ReplyOmitsLines | MCCart | two lines of one variant; an answer without the other lines |
| AddPanics | MCCart | one add beyond the stock evaluates `items[0]` of an empty slice |
| SecondConnection | MCConnPool | one request inside `Do` holds two connections |
| StaleAfterUpdate | MCCatalogCache | a reader between UpdateCategory's delete and its write stores the old tree |
| MasterVariantLost | MCShop | an edit without variants leaves a product nobody can buy |

### Bounds and why they are enough

Two requests at a time are the least that race; the third (AdminRace, CartRace) is what comes after a race: a request that reads
what it left. Two items per order make a half-done loop visible; one unit each
of two variants, one of them sold out, makes restores, deductions and
corrections meet at zero. Amounts 1 to 3 against a paid total of up to 3 give
partial, exact and too large refunds. Initial rows are the rows checkout creates
(three of the five ways to pay; the others differ in data no guard of an
administrator's request reads), moved along the expected path. A pool of two
with two requests through `Do` is the smallest on which one request alone does not
wedge and two may, and two plain requests wait among them; two
statements per request let a transaction wait for its connection after having
run one. A TTL of one tick with reads of one tick lets an entry outlive,
meet and miss every invalidation. Three attempts are the code's own number. In
ShopRace one unit of one variant is enough for a form to undo an order and a second order to take it again; the
second product id is there to be created, a second image to be kept while the other
goes, and one copy is enough to be older than any form. CartRace's second product is
the one the variant does not belong to.
Depth 2 for the code's 3 keeps one level out of reach of three nested
categories, which is what the depth does; two statements move a category away
from and back into a walk's path, and the second walk would read nothing the
first writes. LimitRace's numbers satisfy what main.go's do (a bucket refills in
two of its three ticks to live), with one tick of slack and one to be late by;
four limiters are one per request and one for the map. Lives of one and two
ticks let a token expire while its session lives and the other way round; the
proofs cover all lives, buckets and durations. Symmetry is used for ids the
modules treat alike (requests, and in some runs orders, categories, users,
tokens); the runs that check liveness, PoolProgress and LimitRace, use none.

`CHECK_DEADLOCK FALSE` is set where `Calls` is a finite supply of requests: the
model stops when it is used up, the server waits for the next one. CacheRace, PoolProgress,
TreeRace, LimitRace and AccountRace reuse their requests and check for deadlock.

### Fairness

ConnPool and RateLimiter state some. RateLimiter: weak fairness of `Tick` (time
passes) and of `Cleanup` (the runtime schedules the cleanup goroutine once its
ticker has fired), not of requests. ConnPool: weak fairness of `Acquire` (a free connection is given
to the first waiter) and of each request's own steps (goroutines are scheduled,
statements return, with a result or an error). Arrivals and disconnects are not
fair. The other modules check safety: apart from the event's three attempts, which
may all fail, nothing in the code retries or repairs, so nothing must eventually
happen there.

## 4. What is proved

The theorems hold for any value of the constants under the modules' ASSUMEs:
any number of orders, items, variants, users, requests and requests in flight,
with and without failing statements. Every safety property the runs check is a
theorem, and the refinement of TokenBucket, except ImplementsLifecycle and
RefundedWithinPaid (see "Only model-checked").

### What is assumed

The ASSUMEs are types and bounds (checked by TLC on every instance), and these
conditions:

- **OrderAdmin**, InitOrdersAssumption: at first an order's total is its items
  plus its fee and nothing is refunded, as checkout writes it.
- **Shop**, InitRowsAssumption and InitImagesAssumption: at first a variant's
  product is there, and an image is used by one product only (an upload gets a
  name of its own, `r2.go:58`; an administrator who copies an image's
  address into another product's form is outside the model).
- **CategoryTree**, CategoriesAssumption and InitAssumption: finitely many ids,
  and at first every parent is a row, as the foreign key on parent_id demands.
  Circles among the first rows are allowed.
- **RateLimiter**, RefillAssumption, which main.go's values satisfy: a bucket is
  full again within the time to live less the slack.

No theorem has a hypothesis besides, on concurrency, failures or the load of the
server.

### The arguments

- **OrderAdminProofs**. The rows alone are not inductive: a queued
  UpdateShippingDetails carries a total computed from a row that others may have
  changed since. Each invariant therefore speaks of the statements still
  queued.
  - `StoreInv` (`StoreInvariant`, `TypeCorrect`, `SubtotalNeverDrifts`): every
    queued statement is harmless whenever it runs (fee and total differ by what the
    items cost, and nobody changes items).
  - `BackedInv` (`StatusChangesAlwaysBacked`) adds the plan of every call in
    flight: each movement a queued history row claims is in the log or is queued
    before it. The log only grows, so an executed statement moves the plan up.
  - `CallsInv` and `LedgerInv` (`StockLedgerBalanced`): no call writes the same log
    row twice, so the set of rows counts every movement, and stock is the initial
    stock plus their sum.
  - `RefundInv` (`RefundsAlwaysBacked`): an order's refunded_amount and what calls
    between the two statements have yet to add to it are at most the sum of its
    refunds, and equal to it where no statement fails.
  - `HeldExactlyWhileActive` and `FlowsAreAllowed` are about the maps of
    `constants.go` alone: no path gives units back twice or leaves an active order
    without them; expected paths are allowed and move no stock.
- **CheckoutProofs**: `CheckoutCorrect`, `CheckoutInvariant`, `CheckoutTyped`,
  `NeverOversold`, `ConfirmedAreWhole`, `CartOutlivesRefusal`. `RunsInv` ties each
  call in flight to its order, the priced row and the position it has reached; what
  the tables hold of the order is exactly what the executed part wrote. `LogInv`
  says that a variant's stock and the units the log took from it add up to what
  there was. A confirmed order has one deduction per item, so confirmed units
  never exceed the initial stock: the lock is not needed, because
  `stock + $2 >= 0` is asked again by every deduction. `EventInv` adds the
  goroutines (`EventsInvariant`, `EventsTyped`, `ReportedWereConfirmed`,
  `LossesExplained`).
- **ShopProofs**: `ShopInvariant`, `ShopHasTypes`, `ReferencesAlwaysResolve`,
  `OnlyFormsOversell`, `MissingAlwaysExplained`, `LostStaysStuck`. What a form
  writes was read long before, so none of the properties is inductive; `ShopInv`
  says of every open form, and of every cached copy one may be filled from, what it
  would make of the tables. Its layers:
  - `ShopTyped`: types, and a form names no variant it did not see when it
    was loaded, but new ones; an id once used is never free again.
  - `CopiesTyped`: a copy is such a form, of variants that had a row once.
  - `ReferencesResolve`: rows name rows. A cart line or an order may name a variant of
    another product than its own; what makes deleting a product safe is that the line
    of another product aborts it, and the item of another product loses the variant.
  - `StockInv`: of each variant, held units and stock are within `allowed`, and
    would be if any open form's numbers (`FormsBacked`) or any copy's (`CopiesBacked`)
    were written now. That a copy counts as well as a form is what covers units
    that moved before the form was opened.
  - `ImagesInv`: an image a row, a form or a request deals with belongs to its
    product; of a form's images a missing one is explained; what a request deletes
    is not in the gallery it will write. It is in this proof that the deletion by an
    edit of a product cannot hurt another product's rows. `CopiesExplained` says the
    same of copies.
- **CartProofs**: `CartInvariant`, `CartTyped`, `LinesAreCovered`,
  `DuplicatesAreBounded`. The count of lines is
  not inductive: a request past its snapshot will insert. `CartInv` counts the
  requests whose line is in the cart together with those about to insert; either a
  step leaves that set no larger, or it found no line, so that everyone in the
  set is in flight. The set is that of one product and variant, as the upsert's
  look-up is; one request at a time, they have one line.
- **CatalogProofs**, the cache: `CacheInvariant`, `CacheStalenessBounded`,
  `CacheInvalidated`. An entry was behind for at most one read when it was stored
  and is served for at most its TTL; that alone bounds staleness, through
  early invalidations, failed writes and restarts. `CacheInvalidated` adds that
  a script that promises to delete an entry does so after its own write only if
  the Delete is the very next step, and that zones are always written before the
  enums are deleted, so that the enums lack the excuse the catalog has.
- **CatalogProofs**, the tree: `TreeInvariant`, `TreeHasTypes`,
  `CopiesAlwaysBounded`, `TreeAlwaysExact`, for any categories, depth, statements
  and requests. What a walk will show is decided by what is above the categories
  it has yet to read, so `TreeInv` counts those for every category c:
  - `AsShown`: c waits to be read at most once for each time it was shown, and
    one that never had a row was never shown.
  - `Copies`: c was shown, and waits to be reached from something above it, at
    most as often as CopiesBounded allows. A read replaces the head by at most
    one category that leads to c, or shows c. Putting a row below y adds to what is above
    c at most y and what is above y (`OverMoved`); of those no more wait than
    y's own count allows (`ListedAbove`), so the bound doubles. This needs that no category in a
    circle waits, which only a placement that closes one can change
    (`CircleClosed`).
  - `Exact`: of an untouched c, shown or waiting to be reached within the depth and through
    visible categories makes one if it belongs to the tree and none otherwise.
    The chain above an untouched category is the same before and after a
    statement (`SameChain`); a chain that ends passes nothing twice
    (`OnceEach`), so exactly one root and one child lead on; and a chain that
    has not ended after as many steps as there are categories never does
    (`Closes`, by counting), so that nothing on it is ever reached.

  `Above` is a recursive function: its equation is proved from the existence of
  iterations (`Iterate`), and facts along a chain by `NaturalInduction`, both
  stated of sets for the reason given under SumProofs.
- **ServerProofs**, the pool: `PoolInvariant`, `NoConnectionLeaks`,
  `PoolStuckOnlyInDo`, `QueueHoldsTheWaiting`. A request that holds a connection
  and neither runs a statement nor is about to must have statements left
  (`WaitingHasWork`) and be waiting for its second; if nobody runs, the connections in
  use are those of `Do`, so these are all there are.
  The limiter: `LimiterInvariant`, `LimiterImplementsBucket`. The refinement needs
  that no limiter in the map holds more than its address's bucket
  (`WithinBudget`), which an eviction keeps only because a bucket idle for so long is
  full (`RefillsWhenIdle`), and that a request on time still holds the limiter the
  map has (`OnTimeHoldsCurrent`): a lookup renews the address for longer than
  such a request takes. Requests slower than the slack (178 s from lookup to
  token) are exempt: one may hold a limiter whose address was evicted, and
  spend its tokens besides.
- **AccountsProofs**: `AccountsInvariant`, `UsersAreUnique`, `RolesExpire`,
  `SessionsExpire`, `OnlyOvertakenLoginsUndo`. The bounds speak of tokens in
  circulation; the inductive invariant says the same of the role each request has read
  and will sign (`RolesRead`, `RolesHeld`), and that whoever a token, a session or a
  request names is there (`SessionsThere`).
- **SumProofs**: sums of a function over a finite set, which the library folds by
  recursion. The induction theorems of the library take a predicate, which the
  provers cannot instantiate; here the good sets are collected in a set, for
  which the well-foundedness of strict inclusion suffices. From it follow the
  sum's equation, that it is a number, and what adding, removing or changing one
  element, splitting and comparing do to it.

Four forms are chosen so that the provers can follow: sums are
`SumFunctionOnSet`, the tables of Shop and CategoryTree gain a row without `@@`,
Checkout's RemoveFromCart names the rows that stay by an increasing function of
positions instead of filtering, and CategoryTree's `PowerOfTwo` is a recursive
function instead of `^`.

### Only model-checked

EveryRequestAnswered and IdleIsForgotten: liveness under fairness, which the
provers do not reach. EveryRequestAnswered is about runs in which the pool is
wedged only a finite number of times, since the code does not prevent it
from wedging; a wedge can only be resolved by a client that leaves.

ImplementsLifecycle and RefundedWithinPaid: they hold of requests served one at a
time, which nothing in the code enforces, and racing requests break them
(RacingStatusChanges.cfg, RacingRefunds.cfg). Their runs show that the handlers'
own logic is right, on paths of up to four requests; a theorem would say no more of
the server than that. ImplementsLifecycle besides needs orders of one item: a recovery of
two items may find the second out of stock after the first was taken, and stops
with the order still cancelled (PartialRecovery.cfg).

## 5. What is not modelled, and the plan

Not modelled: coupons (no route reaches them), content blocks and addresses
(one-row writes), wishlists and reviews (one insert or delete of rows nothing
else reads; their columns are unique one by one, which the migration shows
without a model), search and statistics queries, uploads and image resizing,
logging, configuration, CORS (pure I/O, computation or wiring). PROJECT.json says
of each component what is left out of it.

Next: a restart of the process composed with OrderAdmin's calls and the cache;
and, of orders with several items, the part of the lifecycle that racing requests
keep.
