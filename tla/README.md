# A verified model of FlowCart

FlowCart is a multi-warehouse inventory and order service: a Go API over
PostgreSQL (`apps/api`), a Next.js console (`apps/web`), and a payment provider
reached over HTTP. This directory holds TLA+ models of its concurrent core, the
TLC configurations that check them, and proofs checked by TLAPS. Paths below are
relative to the repository root; `api/` stands for `apps/api/internal/`.

## 1. Inventory of the system

All durable state is in PostgreSQL. Every operation of the API is one
transaction, except a provider checkout, which is a chain of transactions and
provider calls. API instances share nothing but the database; the rate limiter
is per process and in memory; the browser keeps a session of its own.

| Component | State | Operations | Talks to |
|---|---|---|---|
| inventory (`api/inventory`) | levels (on hand, threshold), reservations, movements, policies | create, adjust, reserve, release, update policy, lazy expiry, availability | audit; its rows are locked by order, payment, fulfillment and transfer |
| order (`api/order`) | orders, lines, idempotency keys, `cancel_requested_at` | create (manual lines), auto-create (allocation), cancel | inventory rows, payments, audit |
| allocation (`api/allocation`) | none (a pure function) | one warehouse that serves everything, else greedy by score | called by order.AutoCreate under the level locks |
| payment (`api/payment`) | payments, payment events | create (direct), create provider payment, advance (prepare, bind, re-check, cancel, confirm, schedule), accept event, process events | order, inventory rows, the provider, a timer in the server |
| fulfillment (`api/fulfillment`) | fulfillments and their lines | complete | order, inventory rows, movements |
| transfer (`api/transfer`) | transfers and their lines | create, dispatch, receive, cancel | product, warehouse and inventory rows |
| audit (`api/audit`) | append-only events | append (inside the caller's transaction), list | everyone |
| auth (`api/auth`) | users, sessions grouped in families | register, login, refresh (rotation with reuse containment), logout | rate limiter |
| organization (`api/organization`) | members and roles | create, add, change role, remove | auth |
| ratelimit (`api/ratelimit`) | buckets, in memory | take, refund, cleanup | auth, http |
| product, warehouse | catalogue rows | create, update, list | their rows are locked by order and transfer |
| replenishment (in `api/inventory`) | a policy per level | page of low levels with recommended donors | reads levels and reservations |
| dashboard, pagination, http, config, seed | no state of their own | read, encode, route, start | - |
| web session (`apps/web/src/lib`) | access token in memory, logout marker, generation counter | login, logout, refresh, authenticated request | auth |
| web views (`apps/web/src/components`) | rows shown, cursor, request generation | load, load more, switch organization or filter | the list endpoints |

What is hard about it, component by component, and what must hold:

* **inventory, order, fulfillment**: five repositories write the same
  reservations. Row locks serialise them, but `NOW()` is the time a transaction
  *began*, which may be long before it got its locks, and reservations lapse by
  the clock, without any write. No level may be oversold at any instant; an
  order's status and its reservations must agree; a reservation that ended must
  never count again.
* **payment**: no transaction spans the database and the provider. Processes
  die between two steps, answers are lost, several workers advance the same
  payment, events come twice, late, early and out of order, the customer cancels
  while the provider is charging. Whoever may still be charged must get the
  goods; nobody is charged twice; nothing may hang or be forgotten.
* **row locks**: a transaction takes up to a dozen of them one after another; two
  transactions must not wait for each other.
* **transfer**: dispatch and receive may be repeated; units in transit must
  neither vanish nor double; its lock order must be compatible with order's.
* **audit**: an event must be recorded exactly when its cause commits.
* **auth**: a refresh token used twice, racing a logout, must revoke its family.
* **organization**: authorisation is read before the lock; an organisation must
  keep an owner.
* **ratelimit**: a bounded table, refunds to buckets that were replaced; dropping
  a bucket must not forgive what was spent.
* **paged lists**: rows change and become visible out of order between two pages,
  and the view is switched while a page is under way; nothing may be skipped,
  shown twice or shown in the wrong place.
* **replenishment**: the list is ordered by what changes most, and its donors are
  read after the levels they are to fill.
* **web session**: answers of asynchronous calls in any order; a late refresh
  must not revive a session that was logged out.

`PROJECT.json` lists these hazards at their lines, each with the properties that
cover it or the reason none does yet.

## 2. Modules

| Module | What it is | Depends on |
|---|---|---|
| `Ledger` | abstract: promises against a capacity | - |
| `Stock` | inventory, order and fulfillment transactions, and what payment transactions do to them | implements `Ledger` |
| `StockProofs` | theorems about `Stock` | `Stock` |
| `Checkout` | payments, workers, provider, events, on top of `Stock` | extends and implements `Stock` |
| `CheckoutProofs` | theorems about `Checkout` | `Checkout`, `StockProofs` |
| `Transfers` | transfers between warehouses, next to the transactions of `Stock` | extends `Stock`, implements `Ledger` |
| `TransferProofs` | theorems about `Transfers`, `Replenishment` and `PagedList` | `MCTransfers`, `StockProofs` |
| `SessionFamilies` | refresh sessions of the API | - |
| `LoginLimits` | token buckets and hashing slots of login and registration | - |
| `Membership` | organizations, members and roles | - |
| `AccountProofs` | theorems about `SessionFamilies`, `LoginLimits` and `Membership` | `MCAccounts` |
| `LockOrder` | the row locks of every stock, order and transfer transaction, one by one | - |
| `LockProofs` | theorems about `LockOrder` | `LockOrder` |
| `Allocation` | the allocation engine, round by round | - |
| `AllocationProofs` | theorems about `Allocation` | `Allocation` |
| `Replenishment` | low levels page by page, and where to fill them up from | - |
| `AuditTrail` | the events of corrections and policies | - |
| `AuditProofs` | theorems about `AuditTrail` | `AuditTrail` |
| `PagedList` | the list of transfers, from the query to the screen | - |
| `WebSession` | the console's session in several tabs | - |
| `WebSessionProofs` | theorems about `WebSession` | `WebSession` |
| `MCStock` | small instance of `Stock` and `AuditTrail` | |
| `MCCheckout` | small instances of `Checkout` | |
| `MCTransfers` | small instance of `Transfers`, `Replenishment` and `PagedList` | |
| `MCAccounts` | small instance of `SessionFamilies`, `LoginLimits` and `Membership` | |
| `MCLockOrder`, `MCAllocation`, `MCWebSession` | constants of the small instances | |

### Stock

A reservation is identified by the pair holder and level: manual orders refuse two
lines of one product, and what an automatic order takes of one level in several
rounds adds up. `status`, `qty`, `expiry` are the columns of
`inventory_reservations`, `onHand` that of `inventory_levels`, `order` that of
`orders`.

| Action | Code |
|---|---|
| `Reserve`, `Release`, `Adjust` | `api/inventory/repository.go` Reserve, Release, AdjustAtomic |
| `ExpiredOn` | the lazy expiry `UPDATE` at the head of most transactions |
| `Effective`, `Reserved`, `Available` | the `SUM` with its `FILTER` repeated in several repositories |
| `CreateOrder`, `AutoCreateOrder`, `CancelOrder` | `api/order` |
| `HoldForPayment`, `CommitPayment`, `EndPayment` | the writes to orders and reservations in `api/payment` |
| `Complete` | `api/fulfillment/repository.go` Complete |
| `Tick` | the clock |

One transaction is one step. This is justified where every transaction takes the
row locks of its levels with `SELECT ... FOR UPDATE` before it reads their
reservations and keeps them to the commit. What interleaving remains is the
clock: a transaction uses `NOW()`, the time it began (parameter `started`, at most
`MaxWait` before `now`), in some places and `statement_timestamp()` (`now`) in
others; the model uses for each comparison the one the SQL uses. Within one step
all statement times are one `now`. The clock is discrete, so that a lapse falls
before or after a transaction.

A sum of quantities is written as a number of units, not as a recursive sum:
this keeps `Stock` provable.

Left out of `Stock`, because it only refuses a request or writes history: whether
a product or warehouse is active, price, currency and totals, replays of a known
idempotency key, requests that roll back, movement, audit and fulfillment rows,
`inventory.Create` (an insert). Policies are in `Replenishment`, the events of
corrections in `AuditTrail`.

`CreateOrder` checks each line against what is available; `AutoCreateOrder` does not,
as the repository inserts the engine's decisions without looking again. What it places is
any decision that `Decided` allows, and that is what the engine guarantees
(`EngineKeepsContract`, section 4): units of levels that have something to offer, of
each product no more than the network has; all from one warehouse, and within its levels, if one
warehouse has everything; within each level if the order is of one product. An order
of several products that no warehouse can fill may take more of a level than it has:
the engine does so (section 5). `Decided` allows there more than the engine would choose, whose
scores are in `Allocation`. So a level can be oversold in `Stock`, as in the program. The instances of the runs have
one warehouse, or one product, and there it cannot: `NoOversell` and the
ledger hold without a condition. The theorems for any levels name the condition, `AutoOrdersFit`.

Several reservations of one order on one level, which only such an order can have, are
one here, so that they are released together.

### Checkout

`pay` is the payments table; `intent` and the provider's actions are external,
modelled from how the code uses the provider's client. A worker is one run of
`CheckoutService.advance`, started by a checkout request or the timer:

    Begin -> Request -> Bind -> Recheck -> CancelIntent -> ConfirmCancelled
       \          \                   \            \
        MarkAttention  Schedule        Schedule     Schedule

Each arrow is a point where another worker, the customer, the clock, a crash or
an event comes between. A worker keeps only what it was told (`told`), as the code
keeps the provider's answer. `Crash` drops it.

| Action | Code |
|---|---|
| `CreateProvider`, `CreateDirect` | `CheckoutRepository.CreateProvider`; `payment.Repository.Create` |
| `Cancel` | `order.Repository.Cancel` with both branches |
| `Begin`, `Recheck` (`Prepared`) | the two `Prepare` calls |
| `Request`, `CancelIntent` | the provider calls: the call or the answer may be lost |
| `Bind`, `ConfirmCancelled`, `Schedule`, `MarkAttention` | the repository methods of these names |
| `AcceptEvent`, `ProcessEvent`, `ExpireEvent` | `events_repository.go` |
| `CustomerPays`, `CustomerFails`, `ConsoleCancels` | the provider (external) |

`Verdicts` says whether provider data may disagree with the payment (amount,
currency, environment, order): with `{TRUE}` never, with `BOOLEAN` at any check, as in
`checkout`.

Left out of `Checkout`: the backoff `next_reconcile_at` (a worker may start at any
time, which includes every schedule), credentials and client secrets, event
types the code ignores, and the provider forgetting idempotency keys after a day
(the code stops create calls an hour earlier: `InitWindow`). The age of an
event is counted from the opening of its payment: an over-approximation of its
receipt time.

### Transfers

`transfer` is the status column of `inventory_transfers`, `items` its lines.
`CreateTransfer`, `Dispatch`, `Receive` and `CancelTransfer` are the four
operations of `api/transfer/repository.go`; `OtherStep` is any step of `Stock`.
`booked` sums `inventory_movements` other than `transfer_out` and `transfer_in`
per product, which is what `GoodsConserved` measures shelves and transit against.
A transfer is named by its idempotency key: a repeated creation finds the row
and changes nothing. A destination level that the code inserts at creation is a
level with nothing on hand from the start. `Receive` refuses to pass `MaxStock`,
a bound of the model.

### SessionFamilies

A refresh is a chain of three possible transactions, `Lookup` (a read without
locks), `Rotate` (under the family's lock, checking again) and `Contain`
(revocation of the whole family); `Lose` cuts a request off between them. `Login`
and `Logout` are one transaction each. Tokens are identified with sessions, since a
hash of a random token is unique. `since` remembers when a request began its
rotation at the earliest, because the replacement's lifetime is computed before
the wait for the lock. Left out: users (no operation deletes one), access
tokens, registration (a login with an insert before it).

### LoginLimits

A store is one `ratelimit.Limiter`; `bucket` is its map of entries, `sweepAt` its next
cleanup. A token weighs `Period` units and a tick refills `Capacity` of them, which keeps
the arithmetic in the integers where the code uses fractions of a token: the model is
exact where the code rounds. A ticket is the pair of key and birth time of a bucket,
where the code compares pointers.

| Action or operator | Code |
|---|---|
| `Take`, `Cleaned`, `Spend` | `api/ratelimit/limiter.go` Take: cleanup at most once a second, the bound on entries, refill, expiry |
| `Refund` | Ticket.Refund |
| `LoginFrom`, `Reserve` | `api/auth/handler.go` Login: the address's token, then the account's |
| `Find`, `Verify` | Service.Login: an unknown user, a hashing slot or none, the password |
| `RegisterFrom`, `Encode`, `Encoded` | Register |

An email that does not parse has no account token, which is the branch of `LoginFrom` that
ends. The clock stands still within a request step. Left out: `Retry-After`, and the
buckets of refresh and of other routes, which are taken from and never refunded.

### Membership

A request is a chain: the actor's role is read (`Ask`), then the target's (`LookAtTarget`),
and then a transaction locks the organization and reads again (`Begin`) before it
writes (`Write`). `Abandon` cuts it off anywhere. Adding a member is one insert whose
reference to the organization waits for that lock (`Insert`).

| Action | Code |
|---|---|
| `CreateWithOwner`, `UpdateOrganization` | `api/organization` Create and Update |
| `Ask`, `LookAtTarget` | Service.AddMember, ChangeRole, RemoveMember |
| `Insert`, `Begin`, `Write` | Repository.AddMember; lockOrganization and the reads after it; the updates |

The service's look at the target and the repository's second one are kept apart because
the first decides what an admin may do and the second only counts owners: this is the gap
of `admins_spare_owners` (section 5).

### AuditTrail

From its lock on the level to its commit a transaction is alone with the level; what
interleaves is the queue before that lock, and `created_at` is the time a transaction
began, not its place in the queue. `RecordAdjustment` inserts the movement, looks it up
again by content, newest first (`Found`), and appends the event; `RecordPolicy` uses the level's
id as the source; `AppendEvent` does nothing if type and source exist. All other
writers of the trail use an id they have just made, or a row that takes that step
once, so that no conflict can arise there. Which id a movement gets is chance.

### Replenishment

`free` is what is available of each level of one product, `policy` its reorder point and
target; both change at any time (`Change` stands for everything that module `Stock` does).
A reader asks for page after page: `ReadItems` is the first query, `ReadDonors` the second,
`PageLost` a failure between them.

| Operator | Code |
|---|---|
| `Low`, `Urgency`, `Precedes`, `ByUrgency`, `FirstRows` | `api/inventory/repository.go` LowStockPage: the condition, the order, the cursor, one row more than asked for |
| `Decodes` | `low_stock_cursor.go` decodeLowStockCursor |
| `Preselected`, `Qualifying`, `Ranked`, `Donors` | the second query, its budget per level, and the sort after it |
| `Recommended`, `TakeFrom` | `api/inventory/service.go` applyRecommendations |

### PagedList

Rows are numbered by `(created_at, id)`. As `created_at` is when a transaction began, they
become visible in any order (`Commit`) and then change status (`Move`). `Serve` is the
query of one request; the view follows with `ShowPage` or `Fail` at any later time, and
may meanwhile have been switched (`Switch`), asked again (`Retry`) or asked for more
(`LoadMore`). `steady`, a ghost, remembers which rows have been in scope since the first
page was read. Source: `api/transfer/repository.go` ListPage, `api/pagination`,
`apps/web/src/components/workflow.tsx` TransfersView, `lib/pagination-state.ts`.

### LockOrder

The other modules take a transaction as one step, which row locks justify.
`LockOrder` looks inside: a transaction is the set of its lock requests (`todo`), each
with the place it has in the code, and takes them one by one (`Acquire`), waiting
for conflicting holders, until it ends. Data play no part, so a transaction may
end at any time. What a conflict is, and that the rows of one statement are
locked in the order of its `FROM` clause, is PostgreSQL's and external; so is the
key share lock that an `INSERT` takes on the rows its foreign keys refer to. The
order of ids is a constant (`Rank`), as is the order in which items and
reservations come back from a query (`Turn`).

| Action | Code |
|---|---|
| `CreateOrder`, `AutoCreate` | `api/order`: levels by id (an automatic order with each level's warehouse), then products |
| `Reserve`, `Adjust`, `LockLevel`, `CreateLevel` | `api/inventory/repository.go` |
| `LockAggregate` | the lock prelude of every payment transaction and of a cancellation |
| `Complete`, `ReplayComplete` | `api/fulfillment/repository.go` |
| `CreateTransfer`, `Move`, `CancelTransfer` | `api/transfer/repository.go`; `Move` is dispatch and receipt |
| `UpdateCatalogue` | update of a product or a warehouse |

Two claims hold (section 4): manual orders, reservations, adjustments,
payments and cancellations never deadlock, and inventory levels alone never close a circle
unless a transfer is being created. Beyond these, circles of two transactions do exist;
PostgreSQL ends each by failing one of them, and the API does not retry. On the instance of
`locks`, these pairs have one:

| Transaction | can wait in a circle with |
|---|---|
| transfer creation | itself, and all others but catalogue updates and transactions on one level |
| automatic order | itself, reserve, adjust, level creation, shipment, dispatch or receipt, transfer cancellation |
| dispatch or receipt | itself, manual order, reserve, level creation, transfer cancellation |
| shipment | manual order, level creation |
| transfer cancellation | itself |

They come from warehouses and products: a transfer's creation shares both warehouses
through its foreign keys before it locks them, and products before levels; an
automatic order locks warehouses in the order of the levels; a transfer's other
operations lock source before destination; movements share products late.

### Allocation

The engine is a pure function; a step is one round of its loop, so that its
bookkeeping between rounds is state: `remaining` of the request, and `left`, the
map `availableBy` of what is believed to be left. `available` is what the level
locks protect, `drawn` the decisions, added up per warehouse and product.

| Action or operator | Code |
|---|---|
| `Init` | a validated request and the candidates, as `order.AutoCreate` builds them |
| `Refuse`, `TakeSingle`, `TakeGreedy` | `api/allocation/engine.go` Allocate: the network check, one warehouse, the loop |
| `Fits`, `Decision`, `Draw` | single-warehouse feasibility, `allocateFromWarehouse` |
| `Lines`, `Units`, `Touched`, `Headroom`, `Outranks` | the scores and their comparison |

A request has a quantity for each product and 0 for those it does not name: that the
service refuses duplicates is taken into the representation. Left out: the ids of
the decisions and the explanation texts.

### WebSession

A tab waits for at most one answer of its current generation, which is what
`flow` says; answers to calls of older generations are thrown away by the code, so
that only those that a later sign-in waits for are kept (`pending`). The tabs share
the stored `marker`; `news` are storage events on their way. The API is external:
it answers or fails as it likes.

| Action | Code (`apps/web/src/lib`) |
|---|---|
| `Restore`, `RestoreAnswer` | `session-controller.ts` restore |
| `HydrateAnswer`, `HydrateFails` | hydrate, and the error branches of its callers |
| `Unauthorized`, `RenewAnswer` | the 401 branch of `ApiClient.request`, `refreshSession`, the refresh guard |
| `SignIn`, `GoAhead`, `LoginAnswer` | signIn: start, after waiting for logout and refreshes, after the API's answer |
| `SignOut`, `OnStorage` | signOut and the storage listener |
| `Settle` | an older call is answered |
| `Reload` | the page is opened anew |

Left out: the refresh cookie, which all tabs share and only the browser and the
API see (a late refresh of *another* tab may overwrite the cookie of a newer
login; the controller of one tab cannot wait for calls of another), a browser
storage that refuses to be written, and the choice of the active organisation.

## 3. What the runs check

A passing run explores every reachable state of its instance.

| Run | Question | Instance |
|---|---|---|
| `stock` | orders of several lines, partial releases, holds, shipments, and adjustments at the reserved sum; and what the audit trail keeps of corrections that queue for a level | 2 products in 1 warehouse, 1 order, 1 walk-in, quantities to 2, 3 instants; 3 transactions on one level, 2 clerks |
| `checkout` | a second payment after a failed first one | 1 order, 2 payments, 1 worker, 1 crash, 3 instants |
| `checkout_race` | two workers on one payment: is the charge always covered, and does everything end? | fair, 1 payment, 2 workers, 1 crash, every provider call may fail |
| `transfers` | transfers of promised stock, repeated and crossing; low levels and their donors, page by page; the list of transfers in a view that is switched | 1 product, 2 warehouses, 2 transfers in any direction, 1 order; 5 levels; 5 rows of 2 organizations |
| `accounts` | overlapping refreshes, reuse and logout; logins against budgets; owners that remove each other | 2 logins, 3 refreshes; 3 attempts on 2 accounts; 3 users, 2 overlapping changes |
| `locks` | which transactions can wait in a circle? | 3 transactions of any kind; 2 products in 2 warehouses, 1 order, 2 opposite transfers |
| `allocation` | is every order filled exactly, from one warehouse if possible, and refused only for shortage? | 3 warehouses, 2 products, requests to 4, stock to 2: every such network |
| `web_session` | do late answers and other tabs respect a logout? | fair, 2 tabs, 2 logouts, 1 reload |
| `transfer_locks` | does everyone lock levels in the order of their ids? | violated, see 5 |
| `allocation_fit` | do the engine's decisions fit what is available? | violated, see 5 |
| `cancel_after_failure` | is a cancellation always carried out? | violated, see 5 |
| `admins_spare_owners` | can an admin take an owner's role away? | violated, see 5 |

`stock`, `transfers` and `accounts` each check several components that share no state and
no step. Such a run is a sum, not a product: one component takes steps while the others
stay in a fixed state, and every behaviour of each is there. That they share no
state is not a simplification of the model: a policy or a page of a list changes no
stock, and a limiter or a membership no session.

Why these bounds are enough to be interesting: the last unit of a level can be
wanted by two holders at once; a reservation can lapse before, while and after a
transaction queues (`TTL`, `MaxWait`); an order has a
level that was released next to one that was not; deadlines (`CheckoutTTL`), the
create window and event retention each pass within the clock; the attempts run
out; two workers overlap at every pair of points. Deadlock checking is off in
the runs of data because the system may come to rest once the bounded
clock, attempts, transactions and payments are used up; that nobody waits for ever is
checked as a property (`CheckoutEnds`, `LoadingEnds`, `WaitsForAnAnswer`, the two of `locks`).

A transfer in `transfers` has one product; that one of several items leaves whole or not
at all is covered by the theorems of `TransferProofs`, which hold for any items.
In `allocation`, three warehouses and two products are what it takes for a product
to be exhausted in one warehouse, short in the second and complete only with the
third, while the other product is still open. Deadlock checking is off there
because a decided request has no further step. In `web_session`, the
second logout lets one tab log out, in and out again while the other still waits.

Three refresh requests are what it takes for two to overlap on a token while a
third uses its replacement. `accounts` uses symmetry of these requests and `stock` of the
audit transactions, which is sound as they check no liveness and the constants treat
all alike.

Audit: three transactions are what it takes for one to overtake two equal ones, and the
movement ids are given in any order. Logins: the store of accounts has room for one of two
accounts, so that it is full, and a bucket expires within the clock and is made anew
while a ticket for the old one is out; addresses have a budget of two and the clock
reaches past a refill. Memberships: two requests overlap, which is what two owners need
to remove each other, and the third user is the one who is promoted in between.
Replenishment: with five levels on pages of two, three pages are read and stock or a policy
changes once in between; each level is oversold, short or plentiful and has either of two
policies or, but for two of the levels to begin with, none; and donors are cut at each of
the three places, by a budget of 3, a limit of 1 and the one more that tells of others.
Lists: three pages for the organization with four rows, and one switch, so that answers of both generations are under way.

`locks` gives levels, warehouses, products and items orders that run against each
other, and three transactions so that circles of three are covered; any two or
three may be of any kind. Its symmetry is sound for the same reason. A
transaction can always end, so that the run has no deadlock of its own: a circle is
stated as a set of transactions each of which waits for another of the set.

Properties worth knowing:

* `NoOversell`: reservations that count fit in the stock, at every instant (with one warehouse
  or one product; see section 2 for the condition otherwise).
* `OrderMatchesHolds`: an order's status and its reservations tell one story.
* `ImplementsLedger`: ended promises never count again; sold ones leave only by
  shipment.
* `ChargeHasStock`: while an intent may be charged, the order has its goods.
* `OneCharge`: an order has at most one intent that may still be paid.
* `ClosedMeansUnpayable`, `SuccessIsBooked`, `TerminalIsFinal`,
  `PaymentMatchesOrder`: the payment row agrees with provider, events and order.
* `ImplementsStock`: payments do nothing to the stock that `Stock` does not allow.
* `ChargeIsBooked`, `CheckoutEnds`: no charge is forgotten, no checkout hangs.

* `GoodsConserved`: shelves and transit together hold the initial stock and what
  other movements account for.
* `OnlyNewestLive`, `ReuseContained`, `LogoutIsFinal`: a token serves one request,
  its reuse ends the login, a logout is final.
* `KeepsOwner`: no overlap of requests leaves an organization without an owner.
* `AttemptsWithinBudget`, `ForgetsOnlyFull`, `ShortageIsOwed`: since any moment, an
  account sees no more unrefunded logins than a full bucket and the refill allow; a bucket is
  dropped only when it would be full; and what an account lacks, failed logins or
  unfinished ones have spent.
* `TrailTellsAll`: each committed correction and first policy has an event that tells what it did,
  and there is no other. It names what the code loses: the event of a correction that
  an equal one of the same clerk overtook in the queue, whose movement the lookup finds
  instead, and those of later policies of a level.
* `AllOrNothing`, `OneWarehouseIfPossible`: the engine fills an order exactly or refuses it for
  lack of units in the network, and does not split in vain.
* `ListsEveryLow`, `BestAdvice`: a low level that did not change is listed once,
  whatever changes between the pages; and no other choice of as many donors among
  those looked at would move more.
* `ShowsItsScope`, `NothingSkipped`, `WaitsForAnAnswer`: a list shows rows of its own
  organization and filter, in order and without gaps, and never waits for nothing.
* `SignedOutEverywhere`, `LateAnswersDoNotRestore`, `AnswersInOrder`: a session
  survives no logout in any tab, and no late answer brings it back.
* `LoadingEnds`: no page restores for ever.
* `OrderedNeverDeadlock`, `LevelsNeverDeadlock`: which circles of waiting cannot
  close.

Definitions introduced by "Faulty:" are mistakes this code could have had. They
are never part of a specification; `PROJECT.json` pairs each with the property
that notices it when it replaces the definition after it.

### Fairness

`checkout_race` assumes: the timer eventually begins a run for some payment that
wants one (`cmd/server` starts it at boot and it never stops), a started run goes
on unless it crashes (bounded by `MaxCrashes`), promised events are delivered and
accepted events processed (same timer), and time passes. Weak fairness suffices:
each stays enabled until taken. Nothing is assumed of the provider's calls: they
may fail every time; nor of customers or requests.

`web_session` assumes that a tab's calls are answered or fail (`refreshSession` aborts
after 15 seconds, other requests when the browser gives up) and that storage events are
delivered; each is enabled until it happens. Nobody is assumed to sign in or out.
`allocation` assumes only that the loop goes on.

## 4. What is proved

Every invariant that a passing run checks is also a theorem, for every value of the constants
that the named assumptions allow, and so is every action property but one and every refinement.
`NoOversell` and `ImplementsLedger` have a condition on automatic orders where levels are of
several products in several warehouses. What is
left to the model checker alone is listed at the end of this section.

`StockProofs` proves for every set of levels, orders and walk-ins, every
quantity, lifetime and waiting time, from `StockAssumption` (finite sets, positive
bounds, at most one level of a product in a warehouse):

| Theorem | States |
|---|---|
| `StockTyping` | `StockSpec => []StockTypeOK` |
| `StockNeverOversold` | `StockSpec /\ AutoOrdersFit => []NoOversell` |
| `StockOrdersMatch` | `StockSpec => []OrderMatchesHolds` |
| `StockKeepsLedger` | `StockSpec /\ AutoOrdersFit => ImplementsLedger` |
| `UnsplitStockIsSafe` | `(OneProduct \/ OneWarehouse) /\ StockSpec => []NoOversell /\ ImplementsLedger` |

*The condition.* `AutoOrdersFit` says of a behaviour that whenever an automatic order is placed its lines are
within what is available. It is a hypothesis and not an assumption about the code, which
breaks it (section 5); the theorems that have it say that nothing else oversells a level or breaks a promise.
Manual orders, typing and the story of orders and reservations do
without it. Where all levels are of one product or in one warehouse, `Decided`
implies it (`UnsplitOrdersFit`), and the last theorem has no condition left.

*Oversell.* The inductive invariant adds to `NoOversell` the typing. Units of a level are a finite set;
a step either removes units (time, release, lapse), adds one line of at most
what is available (`OneMoreLine`), moves the status of lines that counted before and
after, or removes as many units as it takes from `onHand` (`OneLineLess`).
The delicate step is `HoldForPayment`: `payment_held` counts whatever the
clock says, so that the step is sound only because lapse is tested at statement
time, with the locks held.

*Orders.* `OrderMatchesHolds` is inductive with the typing; `Story` restates it
for one order, and each action touches one order's story or gives up active
reservations of any (`StoryOfGivingUp`).

*Ledger.* Every step maps to one abstract step: a reservation or an order is
`Make`, or `Void` when its transaction waited longer than the lifetime; a hold
changes nothing; a commit is `Sell`; a shipment is `Ship`; an adjustment is
`Recount`; everything else drops a set of live promises. It uses both invariants.

`TransferProofs` proves, from `StockAssumption` and `TransferAssumption`:

| Theorem | States |
|---|---|
| `TransferTyping` | `TransferSpec => []TransferTypeOK` |
| `TransfersNeverOversell` | `TransferSpec /\ AutoOrdersFit => []NoOversell` |
| `TransfersConserveGoods` | `TransferSpec => []GoodsConserved` |
| `TransfersKeepLedger` | `TransferSpec /\ AutoOrdersFit => ImplementsLedger` |
| `UnsplitTransfersAreSafe` | `(OneProduct \/ OneWarehouse) /\ TransferSpec => []NoOversell /\ ImplementsLedger` |

A transfer changes `onHand` only, and expires lapsed holds. A dispatch keeps every
level at or above its reserved units because it takes at most what is available, and for the
same reason it makes no stock negative even on a level that an automatic order oversold, so that
typing and conservation need no condition;
conservation follows by counting the units of one product on shelves and in
transit, level by level and item by item: an item has its units on one side
only. The lemmas about `Stock` steps are those of `StockProofs`, stated there for a
step and not for a specification, so that they apply under `TransferNext`.

The module also proves, from `PagedAssumption` and `ReplenishmentAssumption`:

| Theorem | States |
|---|---|
| `PagedTyping` | `PagedSpec => []PagedTypeOK` |
| `ViewShowsItsScope` | `PagedSpec => []ShowsItsScope` |
| `PagesLeaveNoGap` | `PagedSpec => []NothingSkipped` |
| `ViewNeverHangs` | `PagedSpec => []WaitsForAnAnswer` |
| `EveryLowIsListed` | `ReplenishmentSpec => []ListsEveryLow` |
| `ListedTyping` | `ListedSpec => []ListedTypeOK` |

*The list of transfers.* None of the three properties is inductive. `ListInv` adds what makes late
answers harmless and pages join up. `OneRequest`: of the view's own generation at most one request is
unanswered, and it is for what the view waits for, with the cursor the view still has; older
ones are thrown away when they are answered. `AnswerOK`: a page that is still to be shown
fits the scope, is in order, lies behind the cursor that asked for it, ends at its own, and has
every steady row in between. `ViewOK` says the same of what is shown, whose last row is the cursor.
So a further page starts where the shown rows end, and `appendUnique` drops none of it. `SteadyOK`: the
steady rows are in scope, hence a query finds them whenever it runs.

*Low levels.* `ListingInv` says that at any time the levels that did not change are listed once if
they are low and not behind the cursor, and not at all otherwise; `PageOK` says of a page that
was read and not yet joined that it has those between the two cursors. `FirstRowsHas` shows this
of a page from the order: `Precedes` is a strict total order of the keys, and a row's
place is how many come before it. A cursor is the key that a listed row had when it was read,
so that a refused cursor means an oversold row was shown.

*Composition.* The three parts of `MCTransfers` share no variable (`PartsRunAlone`), so that what is
proved of each alone holds of the specification that the run checks.

`LockProofs` proves, for any tables, ids and number of transactions, from
`LockAssumption` (ids differ within a table):

| Theorem | States |
|---|---|
| `LockTyping` | `Spec => []LockTypeOK` |
| `OrderedTransactionsNeverDeadlock` | `Spec => []OrderedNeverDeadlock` |
| `LevelTransactionsNeverDeadlock` | `Spec => []LevelsNeverDeadlock` |

The inductive invariant `LockInv` says that each transaction's requests are where a
global order puts their rows, as far as it is bound to that order: all
requests of the ordered transactions, the levels of the others. Then whoever waits
stands at a lower place than the one it waits for (`WaitsUpward`), provided that
one waits as well; places are bounded, hence no set of transactions has for each
member one further on (`NoEndlessRise`).

`AllocationProofs` proves, for any products, warehouses, requests and availability,
from `AllocationAssumption` (codes differ):

| Theorem | States |
|---|---|
| `AllocationTyping` | `Spec => []AllocationTypeOK` |
| `NeverSplitsNeedlessly` | `Spec => []OneWarehouseIfPossible` |
| `AllocatedInFull` | `Spec => []AllOrNothing` |
| `OneProductNeverOverdraws` | `Spec => []OneProductFits` |
| `EngineKeepsContract` | `Spec => []DecidedAsPromised` |

The typing is not shallow here: `remaining` stays a natural number because no decision
exceeds it. `RoundsInv` adds that an open round has drawn nothing and changed no book,
and that greedy rounds are reached only when no warehouse fits; a warehouse that fits
all is then drawn from whole, and alone.

`AllocatedInFull` is about sums over warehouses. A sum is defined as a number of units (`Total`), and
the lemmas about `Total` say that it grows by what one entry grows and is not larger than that of a larger
function. `SumsInv` then says that of every product what was drawn and what remains make up the
request, that the network had enough of each when the loop began, and that someone still needs something
in every round. `OneInv` is for a request of one product: each warehouse is then drawn from not
at all or to its end, which is why it is not visited again. With several products that is what
fails (`allocation_fit`). `EngineKeepsContract` puts together what others may rely on: it is the
ground of `Decided` in `Stock`.

`WebSessionProofs` proves, for any set of tabs, from `WebAssumption`:

| Theorem | States |
|---|---|
| `TabsTyping` | `Spec => []TabsTypeOK` |
| `LogoutReachesEveryTab` | `Spec => []SignedOutEverywhere` |
| `OwnAnswersComeFirst` | `Spec => []AnswersInOrder` |
| `NoLateRestore` | `Spec => LateAnswersDoNotRestore` |

`WebInv` has three parts besides the typing. `NoneOutlivesLogout`: a session, or
whatever a tab waits for that may give it one, began after the last logout, or the
tab has an event of it still to come. `OlderCallsSettle`: older calls are left over
only where a tab is signed out or waits for them. `TokenIsLast`: who waits to be
signed in has no token yet. The first is what the second theorem needs:
another tab's login clears the marker, and then only the event on its way tells
of the logout before it.

`CheckoutProofs` proves, for any levels, orders, payments, workers, crashes, attempts and
waiting times, whether or not the provider's data agree, from `StockAssumption` and
`CheckoutAssumption`:

| Theorem | States |
|---|---|
| `CheckoutTyping` | `CheckoutSpec => []CheckoutTypeOK` |
| `OutcomesStand` | `CheckoutSpec => TerminalIsFinal` |
| `ClosedForGood` | `CheckoutSpec => []ClosedMeansUnpayable` |
| `SuccessesBooked` | `CheckoutSpec => []SuccessIsBooked` |
| `PaymentsMatch` | `CheckoutSpec => []PaymentMatchesOrder` |
| `NeverChargedTwice` | `CheckoutSpec => []OneCharge` |
| `ChargedKeepsStock` | `CheckoutSpec => []ChargeHasStock` |
| `CheckoutImplementsStock` | `CheckoutSpec => ImplementsStock` |
| `CheckoutNeverOversells` | `CheckoutSpec /\ AutoOrdersFit => []NoOversell` |
| `UnsplitCheckoutIsSafe` | `(OneProduct \/ OneWarehouse) /\ CheckoutSpec => []NoOversell /\ ImplementsLedger` |

`CheckoutInv` has three parts. `MoneyInv` says what each worker's stage and each stored event
know of the intent: a worker that was told `canceled`, or is about to confirm it,
works for an intent that is cancelled; an intent that is not bound is of a payment that
never had another; an event of success means a charge. That is what makes stale
answers harmless: what they say of a final state stays true. `StockInv` ties the payments of
an order to its reservations: some are held exactly while a payment is awaited, the order is
paid exactly if one succeeded, and at most one is unsettled, so that no second
intent is ever created next to one that may be charged. Every step is a step of `Stock` or leaves
it alone (`IsStockStep`), so that the theorems of `StockProofs` carry over, with
their condition.

`AccountProofs` proves, from `SessionAssumption`, `MemberAssumption` and `LimitsAssumption`:

| Theorem | States |
|---|---|
| `SessionTyping` | `Spec => []SessionTypeOK` |
| `OneLiveSession` | `Spec => []OnlyNewestLive` |
| `LogoutStands` | `Spec => LogoutIsFinal` |
| `ReuseEndsLogin` | `Spec => []ReuseContained` |
| `MemberTyping` | `MemberSpec => []MemberTypeOK` |
| `AlwaysAnOwner` | `MemberSpec => []KeepsOwner` |
| `LimitsTyping` | `LimitsSpec => []LimitsTypeOK` |
| `OnlyFullForgotten` | `LimitsSpec => ForgetsOnlyFull` |
| `ShortagesAreOwed` | `LimitsSpec => []ShortageIsOwed` |
| `BudgetsHold` | `LimitsSpec => []AttemptsWithinBudget` |
| `AccountsTyping` | `AccountsSpec => []AccountsTypeOK` |

*Sessions.* `OnlyNewestLive` is inductive with the typing: a rotation re-checks that its session
is live, hence the newest, and replaces it. `ReuseContained` needs `Answers` and
`NoneBeforeLogin`: a served request's session is issued and not live, and since
numbers only grow it never is live again.

*Memberships.* `KeepsOwner` is not inductive alone: `ReadsStand` adds that what a transaction read under
the lock of the organization, the target's role and whether it is the last owner, still
holds when it writes, because whatever takes an owner's role away holds that lock, and
additions wait for it.

*Limits.* `ForgetsOnlyFull` rests on `FullByExpiry`: a bucket's tokens and
the refill until it expires make it full. Hence an expired bucket has nothing to forget, which the
other two need. `LimitsInv` adds that stores keep their bounds and that tickets are from the past and
given back at most once. To an account, every step of the program is then one of four (`StepKinds`): a token is
spent, by an attempt that now holds a ticket; an attempt ends, and its ticket gives a token back or
does not; the clock ticks; or nothing happens to it but a refill or the loss of a full bucket.
For `ShortageIsOwed` the tickets of the present bucket pay for what it lacks. For
`AttemptsWithinBudget` the invariant is `WithinBudget`: since any moment, the logins of an account and what its
bucket would give now are together no more than a full bucket, the refill since and what came
back. Spending moves a token from the one to the other; a bucket that is made anew was full
before, so nothing is gained by it.

`AuditProofs` proves, from `AuditAssumption`:

| Theorem | States |
|---|---|
| `TrailComplete` | `AuditSpec => []TrailTellsAll` |

`AuditInv` adds to the property what the code finds its sources through: each movement is that of one
committed correction and has its time, ids differ, and an event is of the type of its change. A
correction that finds another movement than its own then finds the newest of the equal ones,
whose transaction began no earlier and has committed; that one has the event, or is itself
excused by another. That a newest movement exists is shown from a least counterexample.

Only model-checked: liveness (`ChargeIsBooked`, `CheckoutEnds`, `LoadingEnds`,
`AllocationEnds`), which is out of the prover's reach, and `BestAdvice`: the donors' loop is a fold
over a sorted sequence, and what a recursive definition computes cannot be proved with
these provers, which cannot instantiate the library's induction theorems.

Where the proofs decided how a definition is written:

* The prover sees nothing in a sum or a sort of the community modules, which are recursive.
  `Allocation`'s `Total` counts units, and `PagedList`'s `Nth` and `Replenishment`'s `ByUrgency` say what place a
  row has: as many others come before it. `Ranked`, about which nothing is proved, uses the library.
* Finite sums and newest elements need induction over numbers. The proofs take a least
  counterexample instead (`WFMin` for the order of the naturals), which has no operator parameter.
* `LoginLimits`'s `Refund` writes out a nested `EXCEPT`: version 1.4.5 of the prover takes an inner `@` for the outer one.

## 5. Where code and documents disagree

* `cancel_after_failure`: after a provider payment failed, its order is pending
  and its reservations are active again. A cancellation takes the provider
  branch, because the order *once* had a provider payment
  (`api/order/repository.go:353`); it records `cancel_requested_at` and marks
  pending payments, of which there is none. Nothing carries the request out:
  workers look only at pending payments, and new checkouts are refused. The order
  stays pending for ever; `docs/orders.md` says that cancellation finally marks
  the order cancelled.

* `transfer_locks`: `docs/transfers.md:24` says that inventory rows are locked in the
  order of their ids, as everywhere else. Dispatch and receipt do so; the creation
  of a transfer locks them item by item, source before destination
  (`api/transfer/repository.go:99`).

* `allocation_fit`: `README.md:8` and `README.md:16` say that reservations must not oversell
  and that allocation preserves their correctness. A round of the engine decides by
  `candidate.Available` (`api/allocation/engine.go:161`), which no round reduces, while
  the scores go by `availableBy`, which is reduced. A warehouse that was visited for one
  product may be visited again for another; its stock of a product that is still open
  is then given a second time. In the run's trace, 1 of p1 and 3 of p2 are asked for and
  one warehouse ends with 2 decided of the 1 it has of p2. `order.AutoCreate`
  inserts the decisions as reservations without another look at the levels.

* `admins_spare_owners`: `docs/organizations.md:55` says that admins cannot modify an
  owner. The service compares the target's role before the repository locks the
  organization (`api/organization/service.go:117` and `:141`), and under the lock only the number of owners
  is looked at again. When the target is made an owner in between, an admin's
  request demotes or removes them. The last owner is safe (`KeepsOwner`).

## 6. Plan

What was planned is done: the stock core with its ledger, checkout, transfers, locks, sessions,
allocation, the web session, memberships, rate limits, the audit trail, replenishment and the
paged list, with proofs for all of these that the prover reaches. What would add most next:

1. The part of `BestAdvice` that needs no optimum as a theorem: no donor gives more than it can spare,
   nor twice, and what is missing is said.
2. The timelines of the audit reader, ordered by the time transactions began.
3. The refresh cookie that all tabs share, next to `WebSession` and `SessionFamilies`.
4. What now only refuses a request: catalogue rows that are not active, idempotency
   replays, credentials and client secrets of a checkout.

## 7. Not modelled

Read-only queries other than low stock and the list of transfers (dashboard, timelines, other
lists), the HTTP layer, configuration and migration, demonstration data, rendering.
Product and warehouse rows matter only as locks and as refusals. Performance and SQL
planning are out of scope. The atomicity of a PostgreSQL transaction is assumed, not
modelled.

Met while reading, and left out because no property of the models is about them:

* Donor candidates are cut to the first 32 by warehouse id before their availability is known
  (`api/inventory/repository.go:323`), so that better donors may never be looked at; `BestAdvice`
  is about those looked at. One donor's surplus is recommended to every level of
  a page that could use it, and the page's `donors_truncated` is set one donor later than
  a level's own.
* A cursor made of an oversold level is refused (`low_stock_cursor.go:38`): the list then ends early.
  `ListsEveryLow` says so.
* The other lists of the console read pages much as `PagedList` does, but not the same way.
  In the transfer form pages have no generation, so that a late page of the old
  organization is put in the new one's choices. In the audit view, a reload with the
  same filters has the generation of the page asked for before it, whose late answer is
  then appended; the products view guards its pages by what was last rendered only. A new order
  is put at the head of the list of orders without regard to a switch.
* The cookie of a refresh that one tab sent may replace that of another tab's newer login.

## 8. Running

    tlc -workers 2 -config MCStock.cfg MCStock.tla
    tlapm StockProofs.tla
    tlapm CheckoutProofs.tla
    tlapm TransferProofs.tla
    tlapm AccountProofs.tla
    tlapm AuditProofs.tla
    tlapm LockProofs.tla
    tlapm AllocationProofs.tla
    tlapm WebSessionProofs.tla

The configuration of `checkout_race` is `MCCheckoutRace.cfg` and that of `admins_spare_owners`
`MCSpareOwners.cfg`, with module `Membership`; `PROJECT.json` lists all. Each run takes a few
minutes at most, and so does each proof.
