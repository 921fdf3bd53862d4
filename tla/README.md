# Pastel marketplace: verification project

TLA+ models of the Pastel marketplace backend (NestJS, Prisma, PostgreSQL, Stripe),
their TLC configurations, and TLAPS proofs about orders, checkout, sessions, the search projection,
notifications, social counters, paged lists and the endpoints.
The code is the reference; every definition names the lines it models in
`PROJECT.json` under `map`.

Run a model with `tlc -config EngineRaces.cfg OrderEngineMC` and check the proofs of a
module with `tlapm OrderEngineProofs.tla`.

## 1. Inventory of the system

| Component | State it keeps | Operations | Hard behaviour | What makes it correct |
|---|---|---|---|---|
| Order engine (`orders/services/order-state-machine.service.ts`) | `Order`, `OrderTransition`, `ScheduledTransition`, `PaymentIntent`, `Payout`, `Refund`, `LineItem`, `Outbox` rows | `apply` | a row lock held over a call to Stripe; rollback after the call; immediate transitions | one live timer, history a path of the process, books backed by Stripe, one payout |
| Instant-purchase process (`orders/process`) | none (a table) | lookups | actors, timers and immediate transitions have to fit together | acyclic, every timed state leaves by its timer |
| Timer worker (`orders/workers`) | `ScheduledTransition` rows | `sweep`, every 30 s on every replica | sweeps overlap; unlocked reads; a row that always fails | fires what is due, harms nothing else |
| Payment gateway (`orders/gateway`) | Stripe's | five calls with idempotency keys | replays, lost answers, swallowed errors | a retry repeats nothing |
| Checkout (`orders/services/checkout.service.ts`) | `Order` rows with a price snapshot | `speculate`, `checkout`, `confirm` | two transactions; a call to Stripe before the commit; a price that is computed three times while listing and commission change; a request sent again | one price from the answer to the payout; one payment intent for an order, whatever dies in between |
| Order endpoints (`orders/controllers`) | none | detail, transition, speculate, checkout, confirm | which actor a caller is; the party is looked up before the transition | only the parties move an order |
| Outbox (`common/outbox`) | `Outbox` rows | `emit` inside the caller's transaction | nothing drains it | event and change commit together |
| Pricing and money (`pricing`, `common/money`) | none (pure) | `compute`, `totals`, `percentage` | half-up rounding, line by line | the seller keeps the shipping, the margin is not negative |
| Identity: sessions (`identity/services`) | `User`, `Credential` rows | signup, login, refresh, logout | a token rotated twice at once; reuse against rotation; ban against refresh | a token is consumed once, a burned family is dead |
| Guards (`identity/guards`, `admin/guards`) | `UserPermission` rows (read) | principal, scope, permission, operator secret | a token that is absent is anonymous, one that is stale is a 401; a permission that changes | a handler that needs a user has one; where a permission is asked for, a denial holds from then on |
| Catalog listings (`catalog/services/listing.service.ts`) | `Listing` rows, `Outbox` rows | create, update, publish, close, reopen, delete, setStock | ownership is checked before, not in, the write | deleted stays gone, no lost stock update |
| Search projection (`prisma/sql/performance.sql`) | `listing_search` rows | triggers, rebuild | two transactions refresh one row | the projection shows exactly what is published |
| Search and pagination (`catalog/services/search.service.ts`, `common/pagination`) | none | keyset pages | ties, null sort keys, rows that move between pages | a row that stays is seen once |
| Social (`social/services`) | `Follow`, `StoryLike`, `Favorite`, `Highlight`, counters on `User` and `Story` | follow, unfollow, like, unlike, add, remove | two transactions of the same edge; opposite lock order | counters equal edges |
| Notifications (`notifications/services`) | `Notification`, `PushToken`, preferences | create, schedule, clear, feed, count, mark, register, revoke | redelivery; reschedule against clear and mark; a feed from a replica | one per event and key, read stays read, what is due appears |
| Admin users and moderation (`admin/services`) | `User`, `UserRestriction`, `AuditLog`, reports, appeals | restrict, unrestrict, ban, resolve, review | audit row written after the commit | status is the last restriction; every action attributed |
| Idempotency keys (`common/idempotency`) | `IdempotencyKey` rows | lookup, reserve, store | wired to no endpoint | a replay repeats nothing |
| Prisma clients (`common/prisma`) | connections | primary and replica | replica lag | - |
| Own profile (`identity/controllers/me.controller.ts`) | `User` rows, addresses | `PATCH /me` | the search projection copies the name | - |
| Endpoints and HTTP layer (`*/controllers`, `*.module.ts`, `main.ts`, filter, interceptor, OpenAPI decorators) | cookies of a browser | 57 routes, the health probes apart | order of registration, guards and pipes; a lookup and a write by id; defaults of the framework | every path finds its route, rows are written by those who may, answers are the documented ones |
| DTOs, mappers, passwords, config, health | none | formatting and calls | none | - |

How they interact: the endpoints call `CheckoutService` and `OrderStateMachine`; the worker
calls `OrderStateMachine` too; the state machine calls the gateway and the outbox within its
transaction. Checkout reads listings and commission rates and calls pricing, and the state
machine calls pricing again in privileged transitions. Listing writes reach the search
projection through database triggers. Everything else shares only the database.

## 2. Modules

| Module | What it is |
|---|---|
| `InstantPurchase` | the process table as data, with the helpers `executeWithin` uses to look transitions up |
| `OrderLifecycle` | the abstract specification: an order is a state, a set of live timers, a payout flag and a number of refunds, and every transition is one indivisible step |
| `OrderEngine` | the detailed specification: `apply` with its lock, its gateway call, its commit and its rollback; the worker read by read and write by write; Stripe, buyer and seller as far as they rely on them. `ImplementsLifecycle` states that it implements `OrderLifecycle` |
| `OrderEngineMC` | what TLC needs besides (the symmetry of the sweeps) |
| `OrderEngineProofs` | facts about the process table (every timed state has one timer transition, which leaves it; the process has no cycle; which transitions move money), the type invariant of the engine, the inductive invariants behind the safety properties of the engine, those about money included, the refinement of `OrderLifecycle`, and that orders only move forward, proved |
| `Sessions`, `SessionsMC` | accounts and refresh tokens: signup, login, refresh query by query, logout, and operators who restrict and ban |
| `SessionsProofs` | the four properties of `Sessions`, and that a token never comes back to life, proved |
| `SearchProjection`, `SearchProjectionMC` | `ListingService`, the triggers of `performance.sql` and the rules of READ COMMITTED they rely on |
| `SearchProjectionProofs` | the four properties of `SearchProjection`, proved |
| `SocialGraph` | the abstract specification of the edges: they come and go one at a time, with their counters and their announcement in one indivisible step |
| `SocialCounters` | follows, likes and favorites, their counters, row locks and deadlocks; `ImplementsGraph` states that it implements `SocialGraph` |
| `KeysetPaging` | a client who reads a keyset-paginated list while its rows change |
| `KeysetPagingProofs` | no row twice, none left out, proved |
| `SocialCountersProofs` | the counters match the rows, and the refinement of `SocialGraph`, proved |
| `Pricing` | the breakdown of a price and its rounding, as operators |
| `Checkout`, `CheckoutMC` | `CheckoutService`, statement by statement, with the seller, the commission and every later transition beside it; extends `InstantPurchase` and `Pricing`, and `KeepsLifecycle` states that it implements `OrderLifecycle` |
| `CheckoutProofs` | the properties of `Checkout`, the refinement of `OrderLifecycle` included, and what half-up rounding and a breakdown guarantee, proved |
| `Notifications`, `NotificationsMC` | `NotificationService` on a primary and a replica that trails it |
| `NotificationsProofs` | the three safety properties of `Notifications`, proved |
| `Routes` | every endpoint as data: path, scope, permission, status, documented answers, and the statements of its handler; the order of registration |
| `Api`, `ApiMC` | the way of a request: router, guards, pipes, statements, answer; and a browser with its cookies |
| `ApiProofs` | facts about every endpoint and about the router, and the seven properties of `Api`, proved |

The modules share only the database, and each is checked on its own. What interacts is composed: endpoints, worker,
engine and Stripe in `OrderEngine`; checkout, pricing and the process table in `Checkout`, where a transition is one
step; all routes with guards and handlers in `Api`.
`OrderLifecycle` is what joins the two views of an order: the engine implements it with locks, sweeps and Stripe, and `Checkout`
implements it with prices and requests that stop anywhere, so that neither relies on more of the other than its contract.

### The order engine and its code

State. `db[o]` is the committed rows of one order: `Order.state`, `payoutReleased`, whether
line items were written (`priced`), `PaymentIntent.status`, whether a `Payout` row exists, the
number of `Refund` rows, the timer rows, the `OrderTransition` rows and the `Outbox` rows.
A timer row is named by its `guardState`, which is enough because an order never enters a
state twice (proved: `HistoryIsAPath`). `tx` is the set of open transactions of `apply`, each
with the transition it makes, who asked for it and how far it has come; `stripe[o]` what
Stripe holds: the status of the intent, the set of transfers (by idempotency key) and
whether it was refunded; `late` the requests that were sent to Stripe by transactions that
have since been rolled back; `runAt` the order in which timer rows became due; `sweep[w]`
the program counter, remaining batch and current row of one execution of `sweep()`.

Actions. One transaction of `apply` is three steps, because others can act in between:
`Begin` (SELECT ... FOR UPDATE and the guards of `executeWithin`), `GatewayCall` or
`GatewayRejects` (the call in `runAction`), and `Commit`, which writes every row the code
writes, in the code's order, the immediate transition included (`ExecuteWithin`). Nothing is
visible before the commit, so that the split needs no more steps. `Abort` is a rollback
at any point: the request to Stripe it leaves behind may still arrive (`LateCall`).
The worker has one step for every query of `sweep`: `Fetch`, `CheckGuard`, `MarkSkipped`,
`CallApply` / `ApplyRefused`, `MarkFired`; `QueryFails` is its catch block and `Crash` the
end of its process. `CreateOrder` and `Request` are what checkout and the order endpoints do.

The actor of a request. The HTTP controllers pass only `customer` and `provider`; `apply` is
exported and admits `operator` too, so the runs about safety let all three ask and the runs
about liveness only those who can.

### Sessions and its code

State. `account[u]` is `User.accountStatus`; `cred[c]` a `Credential` row: its user, its family, whether it
was revoked and whether `expiresAt` has passed, and (history, no column has it) `from`, the credential
that was presented for it. `req[r]` is a request under way and what it has read; `burned` the families in
which reuse was detected (history).

Actions. `TokenService.rotate` runs without a transaction, so each of its queries is a step: `Present` (find
and check the credential), `Burn` (reuse: revoke the family), `CheckAccount`, `RevokeOld`, `Issue`.
`SignupCheck` and `CreateUser` are the two queries of a signup, `Login` the checks of a login, `Logout` its one update.
A request can fail before any of its steps (`Fail`), tokens expire (`Expire`), and operators write the
account status at any time (`SetStatus`). Passwords and signatures are abstracted to their success.

### SearchProjection and its code

State. The `Listing` row as far as the projection and the guards look at it (`title` stands for every column
copied as it is), `children` for its `ListingStats` row and its `ListingImage` rows, each of which is `Unwritten` or has been
`Written` so many times, the seller's `name`, the `listing_search` row (which shows what `children` was when it was refreshed), and
`tx[w]`, a request with the row it has read or written, not yet committed.

Actions. `Check` is `assertOwner`, outside the transaction of the write; `Update`, `Publish` (and reopen), `Close`,
`SoftDelete` and `SetStock` are the `UPDATE` of the `Listing` row, under its lock, and start the trigger
when its `WHEN` clause says so; `ReadStock` is the read that a versioned `SetStock` relies on, `StockConflict` its
409; `ChildWrite` is a write of `ListingStats` or of one `ListingImage` row, whose trigger runs without the lock on the listing:
only two writes of the same child row wait for each other, so that two refreshes of one listing can overlap.
The trigger function is a `DELETE` and an `INSERT ... SELECT` with a snapshot each: `DeleteBegins`, `DeleteEnds`,
`InsertBegins`, `InsertEnds` or `InsertFails` (duplicate key). `Commit` makes all of it visible at once, `Rollback` none.

### SocialCounters and its code

State. `edges` are the `Follow`, `StoryLike` and `Favorite` rows, `counters` the denormalized columns, `notified`
the follows in the outbox; `tx[r]` the edge a transaction adds or removes and how many counters it has updated.

Actions. `Begin` (the request; `deleteMany` looks for the row), `WriteEdge` (insert or delete, once nobody else
holds the row), `Duplicate` (P2002, caught), `Bump` (one counter update, once its row is free), `Commit`, and
PostgreSQL's `Victim` of a deadlock. Removing an edge that another transaction is removing waits for it and then
deletes nothing (`Misses`). `follow` locks the followed user first, then the follower.

### KeysetPaging and its code

State. `rows[i]` is the sort value of row `i`, `cursor` where the client stands, `times[i]` how often row `i` was delivered
(history), `moved` and `born` the rows that changed or were inserted meanwhile (history).

Actions. `Fetch` is one call of `queryListings`: the seek `Selected` (the row comparison of the cursor with NULL as SQL
has it), the order `Precedes` (NULL last ascending, first descending), `Page` and `HasMore` of `buildPage` (one row more
than the page is read), and the next cursor, or a failed cast (`Failed`). `Insert` and `Change` are everybody else.

### Pricing, Checkout and their code

`Pricing` is `PricingService.compute` and `totals`: `LineItems` has the seven lines that can arise, each counted for the
customer, the provider or both, `Percentage` is `Money.percentage`. Amounts are minor units and percentages hundredths of a
percent, so that everything is an integer; `HalfUp` is `toDecimalPlaces(0, ROUND_HALF_UP)` of an amount that is not negative
(the code negates after it has rounded).

State of `Checkout`. `offer` is the Listing row as far as a price needs it, `fee` the CommissionConfig row, `orders[o]` an order
with its snapshot (`input`), its totals and the amounts it made move at Stripe (`intent`, `transfer`, `refund`), and as history the
header of the request (`key`) and the total that was answered (`shown`). `intents[o]` are the payment intents Stripe has opened
for the order, with their idempotency key and amount. `req[r]` is a request and what it has read.

Actions. `Ask` reads the listing, `ReadFee` the commission, `Create` inserts the order. The privileged transition
`request-payment` is two steps under the order's row lock: `OpenIntent` computes the price again from the snapshot (`Recomputed`)
and asks Stripe, whose answer to a known key is the intent it has; `RequestPayment` writes the rows and commits. `Resume` is the same
transition sent to `POST /orders/:id/transitions/request-payment` by the buyer of an order whose checkout has died (the endpoint
takes any name). `Answer` reads the order and returns the first breakdown; `Confirm` and `Advance` are the transitions after that,
`Fail` a crash or an error between any two steps, the one after Stripe's answer included, `Edit` and `Reprice` what sellers and
operators change meanwhile. `speculate` reads what `Ask` and `ReadFee` read and changes nothing, so that it has no action.

### Notifications and its code

State. `db` is the `Notification` table by order of creation, `replica` an earlier state of it, `prefs` and `push` the other two
tables, `now` the clock. `of` is what a notification is about: recipient, order and type, which a partial unique index keeps
apart, or what makes up a `scheduledKey`; the news (a follow, a like, a message) have no order and no key, and nothing keeps two rows
of them apart.

Actions. Every method is one statement, and one action: `Create` (P2002 swallowed), `CreateScheduled` (an upsert),
`ClearScheduled`, `ClearByShow`, `MarkRead`, `UpdatePreferences`, `RegisterPushToken`, `RevokePushToken`. `Feed` and
`UnreadCount` are what a client reads, from the replica. `Tick` and `Replicate` are the environment.

### Routes, Api and their code

`Routes` has one definition per route, in the order of the modules, controllers and methods. `work` lists the statements of the
handler that matter: a look at the owner (`owned`), at the party of an order (`party`), a write by id (`write`), the two
statements of an operator's transaction, the audit, and so on.

State of `Api`. A behaviour is about one row of one table: requests about different rows meet nowhere but in the permissions. `row`
has an owner, a party, who wrote it last and which operator decided on it last (history), and for an account its status with the last row of its restriction history;
`denied` is `UserPermission` (`req[r].denied` what a user has been denied without a break since the request came), `jar` and `session` the cookies of one browser and the credential behind them, `req[r]` a request.

Actions. `FromClient` and `FromBrowser` are a request that arrives and passes what does not wait: router, `AuthGuard`, `ScopesGuard`.
`Throttle` is the 429. `Admit` is `PermissionsGuard`, the one guard that reads the database, then `OperatorGuard` and the pipes. Each
statement is a `Work` or a `Refuse`; `Refusals` are those the row demands, `Possible` those that depend on state which the
components' modules have, or on whether the caller's own row is still there (no code deletes users, but `me.controller.ts:58`
reckons with it): the update of `PATCH /me` is then a 404, an insert that references the user a 422. `Answer` is the success with the status Nest gives it. A change of an account's status takes the row's lock
and keeps it to the commit; `End` of a request that holds it rolls back. `Deny` and `Allow` are whoever writes the permissions (no
code does).

## 3. Runs

| Run | Question | Bounds | Result |
|---|---|---|---|
| `engine_races` | Do overlapping sweeps and callers keep timers, history and money right, and does the engine implement `OrderLifecycle`? | 1 order, 2 sweeps, no fault, batch of 1, all three actors ask | holds, 787,000 states |
| `engine_faults` | Are the books backed by Stripe through a rollback, a lost call or a crash, and does every timer fire in the end? | 1 order, 1 sweep, 1 fault, buyer and seller ask | holds, 72,000 states |
| `capture_refuted` | Is a purchased order paid? | 1 order, 1 sweep | refuted |
| `expiry_refuted` | Does an expired order keep no money? | 1 order, 1 sweep | refuted |
| `sessions` | Do rotation, the end of a session and a ban hold through every interleaving and failure? | 1 account, 3 tokens, 2 requests | holds, 45,000 states |
| `projection` | Does the search show what is on sale and nothing else, and is no stock update lost? | 1 listing with its statistics and an image, 3 requests, 2 stock updates, one write of each child row | holds, 801,000 states |
| `social` | Do counters equal edges, does every request end, and does a reader see each as one step (`SocialGraph`)? | 2 users, 1 story, 1 listing, 2 requests | holds, 63,000 states |
| `paging` | Is a row that stays seen exactly once? | 5 rows, 2 sort values, pages of 2, 2 inserts, 2 changes | holds, 794,000 states |
| `checkout` | Is there one price from the answer to the payout, is the split fair, is there one payment intent for an order, and does every order keep to `OrderLifecycle`? | 2 orders, 2 requests, a buyer and the seller, 3 states of the listing, 2 commissions, 1 quantity | holds, 189,000 states |
| `replay_refuted` | Does a repeated Idempotency-Key lead to one order? | 2 orders, 1 request at a time | refuted |
| `notifications` | One row per event and reminder, read for ever, and shown when due? | 2 rows, 1 event, 1 piece of news, 2 reminders of one show, 2 moments, 2 users, 1 device | holds, 465,000 states |
| `api` | Routing, callers, ownership, permissions, documented answers, audit, account history | all routes, one row of each of 8 tables, 2 requests, 2 users, 1 browser | holds, 888,000 states |

The types of `Checkout` and `SocialCounters` are proved (`CheckoutTypeCorrect`, `SocialTypeCorrect`) and not run besides.

Why the bounds are enough.
  - Engine: two orders meet nowhere but in the batch of a sweep, so one order
    shows every race. A third overlapping sweep adds no new pair of racing
    steps (and the proved properties hold for any number). One fault suffices to separate Stripe from
    the books, and the order has at most eight transitions, so the one fault can be placed at each.
    `SettledOnce` says "as long as there was no fault" because with a fault it is
    false, which is what `PaidOutOrRefunded` shows (section 4).
  - Sessions: accounts share nothing, so one is enough; three tokens give a family a first, a second and a rival
    third one, and two requests every race of two steps. The proofs lift all three bounds.
  - Projection: listings share nothing but the seller's name. Three writers are a writer with the lock on the listing and one
    on each of two child rows, or one that waits and one on a child row; two refreshes are enough to collide. With two writes
    of each child row (`MaxWrites = 2`) the four properties hold too, in 5.6 million states; the proof has any number. A stock of 0 or 1 shows the crossing of zero,
    the only thing the projection knows of it.
  - Social: two users give the opposite lock order, two requests the duplicate and the deadlock; a cycle of three
    transactions needs three users; the proof about the counters has any number.
  - Paging: five rows and pages of two give a full page, a full last page and a page cut between two rows of one
    sort value. The proofs lift the bounds.
  - Checkout: orders share only what their requests read, so two show every race of two buyers with the seller. Two requests are
    also the two attempts to take up one order, in any order with a crash between Stripe and the commit. Three of 5 at 10 %
    is 1.5, which falls on half a unit; three of 14 at 10 % is 4.2 and at 4.5 % 1.89, below and above it. A provider's
    commission of 100 % is the edge where the seller keeps nothing but the shipping. The proofs have every price and quantity,
    and every percentage the seller can be charged.
  - Notifications: two rows give the event against a reminder, and two reminders of one show that are cleared together; two
    moments are before and after a reminder is due. The proofs lift the bounds but not `DueIsShown`.
  - Api: two requests give every race for one row and one account; the owner, a stranger and nobody are two users and none. Of the
    permissions one flag is denied at a time, as no route asks for two. The number of requests a minute is left open: any of them may
    be the one too many.

`CHECK_DEADLOCK FALSE`: an order in a final state, a client who has read to the end and a system whose tokens or
versions are used up have nothing left to do, nor has a checkout whose orders are all in a final state. `social`, `notifications`
and `api` check deadlock: a request can always come in there.

Fairness of the engine (`FairSpec`). A transaction step is weakly fair: Stripe answers or the call times
out. Time passes (`TimerDue`), and the cron starts a sweep every 30 seconds, so the steps of
a sweep are weakly fair. Strong fairness only where a sweep waits for the row lock:
PostgreSQL queues the waiters of a row, so requests that keep taking the lock cannot
keep it from a waiting sweep for ever. Buyers, sellers and faults have no fairness.

Fairness of `SocialCounters` (`FairSpec`). The steps of a request are strongly fair: each is one statement, which the
database runs once the row is free, and it queues the waiters. It looks for deadlocks, so `Victim` is among them. Nobody has to send
a request, and no connection has to be lost.

Fairness of `Notifications` (`FairSpec`). The clock runs (`Tick`, up to `MaxTime`) and the replica goes on applying what the primary
commits (`Replicate`), both weakly fair. No producer and no client has to do anything: `DueIsShown` says what is in the feed whenever
somebody asks.

## 4. What the code does otherwise than its documents say

Each `*_refuted` run is one; the quoted lines are in `PROJECT.json` under `findings`.
`confirm-payment` does not look at the status it gets back, so an order can be purchased that was never paid. An order can
expire, unrefunded, in the moment after the buyer has paid. A checkout that is sent again with the same `Idempotency-Key` is
a second order: nothing reads the header.

More statements of comments and documents are refuted as well. They have no run of their own; their definitions are
kept at the end of the modules, and TLC refutes each when it is checked as an invariant, with the constants of the
configuration given here and without its other properties.

| Statement | Checked in | What happens |
|---|---|---|
| `OrderEngine!ClaimedByOne` (worker:33) | `EngineRaces.cfg` | the sweep's query changes nothing, so it claims nothing |
| `OrderEngine!SkippedMeansSuperseded` (worker:12) | `EngineRaces.cfg` | a sweep overwrites a fired row with `skipped` |
| `OrderEngine!NothingHalfApplied` (state machine:39) | `EngineFaults.cfg` | a rollback after the call to Stripe leaves Stripe and the books apart |
| `OrderEngine!PaidOutOrRefunded` (04-transactions-payments-tax.md:360) | `EngineFaults.cfg` | a payout that was rolled back after the call to Stripe does not stop a refund |
| `OrderEngine!DueRowsFire` (worker:11) | `EngineFaults.cfg` with two orders, as a property | as many failing rows as a batch holds keep all others from firing |
| `Sessions!ConsumedOnce` (token service:22, auth service:130) | `Sessions.cfg` | two refreshes with one token at once both succeed |
| `Sessions!BurnedIsDead` (token service:23) | `Sessions.cfg` | a refresh that has passed its checks outlives the burn of its family |
| `SearchProjection!ClosedConverges` (performance.sql:143) | `Projection.cfg` | a closed listing comes back through a child row's refresh that began before |
| `SearchProjection!ProjectionIsLive` (performance.sql:144) | `Projection.cfg` | no trigger copies a new display name |
| `KeysetPaging!SeekMatchesOrder` (search service:131) | `Paging.cfg`, `Nullable = TRUE`, `Descending = FALSE` | listings without a price are on no page after the first when the cheapest come first |
| `KeysetPaging!CursorIsUsable` (cursor.util:10) | `Paging.cfg`, `Nullable = TRUE` | the cursor says "null" and the next page is a 500 |
| `Notifications!OneAccountPerDevice` (push token controller:53) | `Notifications.cfg` | a token that another account registers is a second row: nothing binds it anew |
| `Notifications!FutureIsUnread` (notification service:119) | `Notifications.cfg` | marking everything read marks reminders that are not due yet, and a reminder that is moved stays read |
| `Api!SignedInCanRefresh` (auth controller:200) | `Api.cfg` | the cookie's path is `/auth`, the route's `/api/v1/auth/refresh`: a browser never sends it |
| `Api!LogoutNeverFails` (auth controller:260, :324) | `Api.cfg` | an access token that has expired is a 401, on `auth/logout` and `auth/info` too |
| `Api!EveryChangeIsAudited` (audit service:6) | `Api.cfg`, as a property | the process ends between the commit and the audit row |
| `Api!DeniedDoNotTransact` (permissions guard:13) | `Api.cfg` | the comment says the guard is used on listing-create and on checkout and transitions, but `POST /orders/:id/transitions/:name` (orders.controller.ts:117) has no `@RequirePermission`: who is denied `initiateTx` still applies any transition |
| `Api!GoneCallerIs401` (me controller:58) | `Api.cfg` | the 401 for a caller whose user is gone is that of `GET /me`; `PATCH /me` updates by id, and the filter makes its P2025 a 404 (http-exception.filter.ts:160) |
| `Api!UnknownUserIsNotFound` (user social controller) | `Api.cfg` | the stories and highlights of a user who does not exist are an empty list |

What `PermissionTakesHold` says is therefore no more than that the two endpoints which ask for a permission, `POST /listings` and
`POST /checkout`, let nobody in who lacks it. `checkout/confirm`, `listings/:id/publish` and `listings/:id/reopen` ask for none
either; the audit the repository keeps (`AUDIT.md:60`, M2-sec) knows of the transitions.

The answers no documentation has are the set `Undocumented` of `Api`, which `AnswersAreDeclared` leaves out: a malformed
body of refresh and logout (400), a caller who is gone for `PATCH /me` (404) and as the author or buyer of an insert (422 by the
foreign key, http-exception.filter.ts:166: `POST /listings`, `POST /checkout`, following somebody who does not exist), a `confirm`
of an order that moved on (409), an unknown transition (400), and a story that is in the highlight already (409). One more
was met in reading and is no property: `catalog.controller.ts:77` says that restricted accounts get a 403, but the guard looks
at `UserPermission`, which a restriction does not write.

## 5. What is proved

### Orders

For any sets of orders, sweeps and requesters, any batch size and any number of faults.

`TypeCorrect` (`OrderEngineProofs`): `Spec => []TypeOK`. The type of the history needs the
row lock: a commit appends the state its transaction saw under the lock, so the
inductive invariant `CoreInv` adds that at most one transaction holds an order, that the
guards of an open transaction still hold, and that a sweep in the middle of a batch has a row
to read.

The safety theorems: `TimerIsLive`, `HistoryIsAPath`,
`FiredIsEffective`, `PayoutAnnounced`, `TransferIsUnique`. None of these properties is
inductive. A sweep acts on what it read a while ago, so `LiveTimer` needs to know what has become of
that since: the process is acyclic (`Rank` grows along every transition), hence the state a sweep
found left is left for good, the row it holds is no longer that of a live timer, and it may
be overwritten. `SafeInv` therefore joins
  - the rows of each order: its timers match its state, its history is a path that climbs in
    `Rank` and ends in its state, payout flag, payout row and announcement agree, and fired
    rows have their transition in the history;
  - what each sweep holds: orders that exist, and a row whose state has been reached,
    or left, depending on where the sweep stands;
  - what each open transaction will do when it returns to its sweep.
`SafeInvariant` shows it inductive, one lemma per action; the properties follow from it.

The theorems about money: `BooksBacked`, `SettledOneWay`, `PayoutIsFinal`. Stripe moves the money inside a transaction that
commits later or never, so that the books and Stripe disagree while one is open. `MoneyInv` joins to `SafeInv`
  - `Backed`: what the books say was moved, and what an open transaction that has called Stripe is about to enter, was moved;
  - `Entered`: the converse, as long as no transaction was aborted: what Stripe moved is entered or about to be.
`SettledOnce` follows because the process has no refund out of a paid state and no payout out of `canceled`
(`MoneyInTheTable`), and because the row lock keeps two transactions of an order apart. With faults it does not hold, which
is why it speaks of `faults = 0`; `PointOfNoReturn` is what remains then.

`EngineImplementsLifecycle`: `Spec => Lifecycle!Spec`. The table of the two modules is one (`SameTable`). A commit is `Ask` or
`FireTimer` of `OrderLifecycle`, every other step of the engine a stutter. `RefinesInv` adds to `SafeInv` that an open transaction was asked
for by a requester or is the timer of some state (`Asked`); that the timer is the one of the state the
order is in now, not the one the sweep read, is what the process being acyclic and the guard under the lock give.

`OrdersMoveForward`: no step of the engine takes an order back. It is not proved about the engine at all: every step of
`OrderLifecycle` climbs in `Rank` (`LifecycleClimbs`), and the engine implements it.

### Sessions

For any accounts, requests and tokens (`SessionsProofs`): `SessionTypes`, `RotationConsumes`, `DeadSessionsStayDead`,
`BannedStayOut`, and the action property `TokensNeverRevive` (a token keeps its user, family and
predecessor, and that it was revoked or expired is for good). The assumption is that `None` is none of them. `RotatedIsConsumed` is not inductive: that
the predecessor of a new token is revoked follows from what the request did two steps earlier. `IInv` adds `Lineage` (a token names tokens
that exist, and the one it was exchanged for is revoked, of the same user and family) and `Presented` (a request acts for the
user of the token it presented, and has revoked it before it issues another). The two action properties follow from it,
one case per action of `Next`.

### Paged lists

For any finite set of rows, any values, page size and direction (`KeysetPagingProofs`): `PagingTypes`; `NoRowComesTwice`, for
nullable columns too; `ListIsComplete` for a column without NULL. Three lemmas carry them: the comparison and the order
are strict orders (`LessIsOrder`, `PrecedesIsOrder`), and what is not on a page comes after all that is
(`PageIsCut`). `DeliveredInv` says that a row that was delivered is behind the cursor, `AheadInv` that a row
that has been there all along is delivered or ahead of it.

### Checkout

For any users, orders, requests, quantities above zero, states of the listing and commissions, as long as the seller is not
charged more than 100 % (`CheckoutAssumption`; the column would take more, and no code writes it): `CheckoutTypeCorrect`,
`CheckoutOnePrice`, `CheckoutFairSplit`, `CheckoutOneIntent`.
`HalfUpRounds` and `PercentageRounds` say what half-up rounding guarantees for all integers, `LinesOfInputs` what the seven lines
are for the inputs a checkout makes, and `SplitIsFair` follows from both. `OnePrice` is not inductive: that the price which is
computed again is the one that was answered needs the snapshot to be that of the request. `IInv` (`CheckoutSound`) adds to the
types that an order past `initial` has the amounts of its snapshot (`SoundOrder`), and that a request works on an order with
the input it computed (`SoundRequest`). `CheckoutOneIntent` needs that the snapshot is never written again, so that whoever
takes an order up, in whatever attempt, sends Stripe the same key with the same amount; and that a request between Stripe and its commit
holds the row's lock, so that its order is still in `initial` and the intent it is about to enter is there.

`MarginIsCommissions` is about every price that pricing can be asked for, tax, promotion and discount included: the customer's total
is the provider's and the margin, and the margin is the two commissions and the tax less the promotion.

`CheckoutKeepsLifecycle`: `Spec => Lifecycle!Spec`. `Checkout` has no timer rows, no payout flag and no number of refunds; the
mapping reads them off the state and the amounts (the live timer is that of a timed state, paid out is a transfer, refunded a
refund). It takes `Closed`, which is a theorem of its own (`CheckoutClosesOneWay`): a refund exactly in `canceled`, a transfer
exactly in `completed` and `reviewed`, no order at rest in a state that is to be left at once. `Closed` holds because of the table
(`MoneyInTheTable`) and because the immediate transition is part of the same step (`EnteredState`).
A request that inserts an order is `Place`, a transition by a party `Ask`, one by the system `FireTimer`, for which the
table must give each system transition one state and that state a timer (`SystemIsTimer`); everything else is a stutter.
`CheckoutMovesForward` says that an order climbs in `Rank`, from which follows that it makes twelve transitions at most.

### Notifications

For any events, reminders, devices, rows and times (`NotificationsProofs`): `NotificationsTypeCorrect`, `NotificationsOneOfEach`,
`NotificationsReadIsForever`. `IInv` (`NotificationsSound`) says that no two rows are about the same, on the primary and on the
replica, the news apart, which have no key, and that what is not created yet is not there. Each method is one of four steps of the table (insert, change,
delete, mark), with a lemma each.

### Social counters

For any sets of users, stories, listings and requests (`SocialCountersProofs`): `SocialTypeCorrect`, `SocialCountersMatchEdges`,
`SocialImplementsGraph`. While
transactions are open, rows and counters disagree by what has been committed of neither. `IInv` (`SocialSound`) adds what makes
a commit move both alike: an open transaction is right about whether its edge is there (`Informed`), which holds because
no other has written the same edge (`Exclusive`, the row's lock and the unique key).
The refinement follows: a commit is `Add` or `Remove` of `SocialGraph`, with the counters that the invariant says belong to the edges
before and after it (`TallyCounts`); waiting, duplicates, deadlocks and rollbacks are stutters, because none of them touches a table.

### Search projection

For any listings, any writers at the same time, and any titles, names and bounds (`SearchProjectionProofs`): `ProjectionTypes`,
`ProjectionShows`, `ProjectionHides`, `NoLostStock`. The assumptions are that the marker for "no row" is neither a listing nor a row. That
a commit leaves the right row behind is decided several statements earlier, when its trigger read. `IInv` (`ProjectionSound`) therefore says of
every open transaction
  - that no other owns the projection's row of its listing (`Apart`, `Owns`: it has deleted the row, or inserted one), and that no other holds
    the Listing row if it does;
  - of a writer of the Listing row (`WriterSound`), that what it inserts is a copy of the row it is about to commit, or that its
    update did not have to run the trigger; and, as long as no child row was written, that its DELETE finds what is there;
  - of a writer of a child row (`ChildSound`), who holds no lock but that of its child row, so that any number of them may refresh one
    listing: what it has written is remembered (`ChildRemembered`), and if the listing is on sale and it owns the
    projection's row, it shows the listing as committed. The listing can change under it, but not to another one on sale, because that
    writer would have to own the projection's row.
`StepCommit` (with `CommitShows` and `CommitKeeps`) has the argument; every other step changes one record (`StepOne`).

### Endpoints

For any users, any number of requests at a time, and any tables (`ApiProofs`): `TypeCorrect`, `RoutesAreFound`,
`HandlersHaveCallers`, `WritesAreGuarded`, `PermissionsHold`, `AnswersAreDocumented`, `SuccessesAreAudited`, `StatusIsHistory`,
and the action property `RowsKeepTheirOwners`. The assumption is that `None` is neither a user nor a request. The endpoints
themselves are data, so the first half is about them:
  - `WellFormed`, one leaf per endpoint: `Guarded` (a handler that needs a caller is behind a scope that gives it one),
    `Answerable` (whatever guards, pipes and statements may refuse with is documented or listed as `Undocumented`) and
    `Sequenced` (each write by id comes after the statement that reads the owner, an audit after a decision, a history row right
    after its mark);
  - `RegisteredApart`: no endpoint hides a later one. Within a module of the application, verb, length, first and last
    segment of the path tell one from those before it (`SignsTell`), and the modules are joined by the words their paths open with
    (`Joined`). `RoutesFound` follows: the first match is the endpoint itself.

The second half is `ApiInv`. `GuardedWrites` is not inductive: a write by id trusts a check which an earlier statement made.
`CheckedInv` says that a request past its owner check acts for the owner; it stays true while others move because a row that exists
is never given away (`Kept`). `PermissionTakesHold` needs that a denial since before the request came is still in the table when
the guard reads it (`DenialInv`); it is about the endpoints that ask for one, as is the property. `StatusTellsHistory` speaks of an account nobody has locked; `AccountInv` says of a locked one
that its holder is between the mark and the history row, and that what a rollback would restore is what the history
says. `Underway`, `Admitted`, `Recorded` and `Documented` say how far a request is and what that means. TLC found
`ApiInv` to hold on the instance of `Api.cfg` before it was proved.

### Only model-checked

`TimersFire`, `RequestsEnd` and `DueIsShown` are liveness under fairness, which is out of the prover's reach. Those properties
that TLC refutes (section 4) have no theorem, of course.

## 6. Plan

What is left, in this order:

 1. `KeysetPaging` with a replica that lags between two fetches, as `Notifications` has it.
 2. An abstract specification of a session as a chain of tokens, with its refinement by `Sessions`.
 3. Stories that expire while they are read, and the order of a highlight's stories.

## 7. Not modelled, and why

  - Envelopes, DTOs, mappers, messages, configuration, health checks: no state and no order of events. Of the
    HTTP layer `Api` has the statuses, not the bodies.
  - Passwords, JWT signatures and hashes: abstracted to success. That an access token outlives a ban until it expires is by
    design of the code, and `BanTakesHold` speaks of refresh tokens only.
  - Amounts of money in `OrderEngine`: the engine never compares them; `Checkout` has them.
  - Conversions of `Money` to other units and currencies, which nothing calls. Tax, promotions and discounts are in
    `Pricing`, but checkout never passes any, so no behaviour has them.
  - `IdempotencyService`: nothing calls it, so that it takes part in no behaviour; `replay_refuted` shows what follows.
  - The stock in `Checkout`: no step of a purchase looks at it or takes from it, in the code as in the model.
  - `rebuild_listing_search` and hard deletes of listings: the one is run by hand, the other by no code.
  - Filters, full-text rank and suggestions of the search, the offset pages of the admin lists: pure queries over one snapshot.
  - The count of the rate limiter: any request may be the one too many (`Throttle`).
  - A relay for the outbox: the code has none, its rows are only written.
  - Stripe's webhooks: the code has no handler for them.
  - What becomes of an intent at Stripe whose order stays in `initial`: the code never cancels it, and no property says it does. A
    call for an intent that lands after its transaction is gone carries the same key and amount as any other attempt, so it adds no case
    to `OneIntent`. The calls, locks and crashes of the later transitions are those of `OrderEngine`.
