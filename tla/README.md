# TLA+ models of the SHAJ retail POS service

This directory holds TLA+ modules translated from the Go code of the point-of-sale
service under `src/internal`, TLC configurations that check them on small instances,
and TLAPS proofs of the properties that matter most for every value of the constants.
Paths below are relative to `src/`.

## 1. Inventory

The service runs on a store's machine. It serves a loopback HTTP API to the cashier's
frontend, keeps everything in one SQLite database, and exchanges facts with Central
over HTTP. One process runs these goroutines (`cmd/posservice/main.go`): the HTTP
server with a goroutine per request, the sync engine, the change-feed puller, the
configuration refresher, the backup loop and the observability heartbeat.

The database has one connection and begins transactions IMMEDIATE
(`internal/database/database.go`), so a statement outside a transaction, and a
transaction, is one atomic step. What can interleave is everything *between* those
steps: a read before a transaction, a claim before its mark, an HTTP call.

| Component | State | Operations | Hard behaviour | What makes it correct |
|---|---|---|---|---|
| Transactional outbox `internal/outbox` | `outbox_events`, `pos_sync_recoveries` | insert within a business transaction, claim, mark published, mark failed, recover stale claims, apply a recovery grant | order per key, attempt counter in two statements, crash while processing | order per key, no event settled without Central, a poisoned event was really refused |
| Sync engine `internal/syncengine` | the event in hand | background loop, `POST /sync/now` | several workers with one lock owner, lost and late answers | two workers never hold one key; the queue drains |
| Sync diagnostics and recovery `internal/server`, `internal/syncrecovery` | – | skip an event or a message, accept a signed grant | skip while the event is in flight, replayed grant | a skip is final, a grant works once |
| Orders `internal/orders` | `sales_orders`, items, snapshots | create, complete, void, refund, partial return | statement by statement pricing, retries with one client id, read before the transaction, version from that read | an order adds up and is made once; a sale is sold once, returned once, never both voided and sold |
| Pricing and tax `internal/orders` | – | line, discount limit, tax | configuration replaced while an order is priced, rounding | total, discount and tax of an order agree |
| Payments `internal/payments` | `payments`, snapshots | create (idempotent), compensate | races every operation of the order; bumps the version | no money on a cancelled or returned sale |
| Inventory `internal/inventory` | balances, movements | issue for a sale, return, partial return | idempotent per item; balance also overwritten by the inbox | what was issued is restored, once |
| Receipts `internal/receipts` | receipts, counter | issue one per sale | counter and receipt within the completion | one receipt per sale, numbers without gaps |
| Refunds `internal/refunds` | `pos_partial_returns` ledger | full refund, partial return | cumulative proportional allocation, replay | refunds sum to what was captured |
| Change feed and inbox `internal/changefeed`, `internal/inbox` | cursor, `inbox_messages`, projections | pull a page, apply a change | redelivery, reordered versions, poisoned change, crash before the cursor, restored backup | a projection never goes back; nothing is skipped |
| Catalog `internal/catalog` | the tables the inbox writes | queries | – | every row refers to rows that are there |
| Customers `internal/customer` | `customers` with a sync state | create, edit, Central's upsert | local edits against the feed | an edit reaches Central and is not lost before |
| Effective configuration `internal/effectiveconfig` | snapshot, sync state | refresh, read one setting | refreshes that overlap | the store comes to have Central's configuration |
| Local authentication `internal/localauth` | users, sessions | enrol, log in, log out, lock out | failed attempts read and written apart | a lock-out takes the full number of wrong PINs |
| Manager approvals `internal/server` | one-time tokens | verify the manager, issue, spend | spent before the operation, which may fail or be sent again | a token allows one operation of one cashier |
| Device `internal/device` | one row | register | – | – |
| Backups `internal/backup` | snapshot files | snapshot, prune, restore | restore of an older state | a snapshot is whole |
| Migrations `internal/database` | schema version | migrate | – | run once |

Interactions. A business operation (complete, pay, refund) writes its own tables and
inserts its facts into the outbox in the same transaction, through hooks
(`server.handleOrderComplete`, `refunds.RefundFullSaleWithActors`). The sync engine
reads only the outbox. The inbox writes the catalog, the stock balance and the
customers, and no sale. A request is authenticated against the local users before
anything else; creating an order reads the catalog and the configuration, which the feed
and the refresher replace meanwhile; a void, a refund or a discount that exceeds the
cashier's permissions spends a manager's approval first. `hazards` in `PROJECT.json` lists, line by line, what is hard
to test in all this, with the properties that cover it.

## 2. Modules

| Module | Models | Extends / composes |
|---|---|---|
| `OrderedDelivery` | what the outbox promises: facts accepted in order, delivered in order per key, settled once delivered or written off | – |
| `Outbox` | `internal/outbox`, `internal/syncengine`, the effect of grants and skips | implements `OrderedDelivery` |
| `OutboxProofs` | theorems about `Outbox` | `Outbox` |
| `MCOutbox` | instances for TLC | `Outbox` |
| `SaleContract` | what a sale promises: sold or voided, returned only if sold, goods and money square | – |
| `SaleLifecycle` | orders, payments, stock movements, receipt and full refund of one sale, with concurrent requests | implements `SaleContract` under the conditions below |
| `SerialSale` | the same sale served one request at a time, or in a race | `SaleLifecycle` |
| `SaleProofs` | theorems about `SaleLifecycle` and `SerialSale` | `SerialSale`, `SumTheorems` |
| `MCSale` | instances for TLC | `SerialSale` |
| `PartialReturn` | a completed sale of which goods come back in parts, among full refunds and payments | – |
| `ReturnProofs` | theorems about `PartialReturn` | `PartialReturn`, `SumTheorems` |
| `MCReturn` | instances for TLC | `PartialReturn` |
| `Sums` | sums of amounts and quantities | used by `SaleLifecycle` and `PartialReturn` |
| `SumTheorems` | lemmas about `Sums` | `Sums` |
| `Projection` | the catalog, and what each change of the feed does to it | – |
| `FeedContract` | what a store promises about Central's changes: each once, in order, none left out, restored with its place | `Projection` |
| `ChangeFeed` | puller, inbox, customers, stock, backups | `Projection`; implements `FeedContract` |
| `FeedProofs` | theorems about `ChangeFeed` and `Projection` | `ChangeFeed` |
| `MCFeed` | instances for TLC | `ChangeFeed` |
| `LocalAuth` | enrolment, logins, lock-out, sessions, the device's store | – |
| `ManagerApproval` | approvals and the requests that need them | `LocalAuth` |
| `EffectiveConfig` | overlapping refreshes of the configuration | – |
| `Pricing` | line amounts, discount limit, tax, rounding | – |
| `Checkout` | creating an order | composes `ManagerApproval`, `EffectiveConfig`, `Pricing` |
| `PricingProofs` | theorems about `Pricing` | `Pricing` |
| `CounterProofs` | theorems about `LocalAuth` and `ManagerApproval` in `Checkout` | `Checkout` |
| `CheckoutProofs` | theorems about `Checkout` | `CounterProofs`, `PricingProofs` |
| `MCCounter` | instances for TLC | `Checkout` |

### Outbox

Rows are numbered in the order they are committed; each column the SQL reads is a
variable. Time is reduced to the comparisons the SQL makes: `due` (`available_at <=
now`), `expired` (`locked_at` older than two minutes) and `Precedes` (`created_at` as
text). `Stamp` maps an instant to the rank of its RFC3339Nano text: with
`TicksPerSecond = 1` every instant is a whole second and text order is time order; with
a finer clock the instant without a fraction sorts after the rest of its second.

A worker is the background loop or one sync-now request; `pc`, `claim` and `counted`
are the local variables of `dispatchOne` / `DispatchReady`.

| Action | Code |
|---|---|
| `Enqueue` | the inserts of any business transaction, e.g. `ApplySaleCompletedTx` |
| `Start`, `SyncNow` | `Engine.Run` and `DispatchReady` beginning, with `RecoverStaleClaims` |
| `ClaimNext` | the claim transaction; the request leaves right after |
| `Acknowledged`, `Rejected` | `publish` returning nil or an error; `Rejected` is always possible, also for an event Central has (lost answer) |
| `MarkPublished` | the update guarded by `status='processing' AND lock_owner=?` |
| `CountFailure`, `MarkFailed` | the read and the write of `MarkFailed`, two steps |
| `Return`, `Abandon` | a request leaving `DispatchReady`, between events or with one in hand because its context ended |
| `Crash` | the process stops with claims in hand |
| `ApplyAuthorizedRecovery`, `Skip` | a verified grant; a manager's skip |
| `CentralReceives`, `BackoffElapses`, `LeaseExpires`, `Sleep` | the environment: a sent request arriving, time passing, a suspended machine |

A request may reach Central at any time after it was sent, even after the store gave up
on it: `CentralReceives` only needs `e \in posted`.

### SaleLifecycle

One sale; other sales share only stock balances and the receipt counter, updated inside
the transactions. Requests to complete, void or refund are two steps: `ReadTo...`
(`orders.Get` and the checks on the result, remembering the version) and `Commit...`
(the transaction with all its hooks). A request that does not commit takes `Fail`,
which leaves nothing behind (rollback). A payment is one step: it sets the status from
the net paid and adds one to `version`. What serialises concurrent requests in the code
is only `Write`: the snapshot with primary key (order, version read + 1).

`SerialSale` adds one variable that never changes: in a serial behaviour a request is
read only after the one before it has committed or failed, which is what a client that
waits for its answers does; payments still come in between. In the other behaviours all
requests race.

### PartialReturn

One completed sale from its completion on. `ReturnPartial` uses the order it read
before its transaction only for its lines, which never change, and for checks it makes
again inside, so here every operation is one step. (The status it writes back is the
stale part; see section 5.)

| Operator | Code |
|---|---|
| `Plannable`, `PlannedRefund`, `LineTarget`, `FullRemaining` | `PlanPartialReturn`: a line has refunded the floor of its total times the quantity that is back |
| `Target`, `Allocatable` | `reversePartialTendersTx`: each capture gives back the floor of its share of the cumulative refund, the last one the rest |
| `Unused`, `AppendPartialReturnTx` | the replay check and the ledger |
| `ApplyPartialSaleReturnTx`, `ApplyPartialReturnStateTx` | stock and status of a partial return |
| `RefundFull` | `RefundFullSaleWithActors`, with `ApplySaleReturnTx` |
| `Capture`, `PayOut` | `payments.Create`; a payment out may name any capture, or none, as its reference |

Quantities count units large enough to enumerate; the rounding is that of the code
(`\div` on products that do not overflow there, `big.Int`).

### ChangeFeed

Central's log is a sequence and a cursor is the number of changes before it. The store's
database file (`file`: cursor, inbox, catalog, stock, customers, their events) is kept
apart from what the puller holds in memory, because a restore replaces the one and a
crash loses the other. Rows keep the columns that decide something: versions, activity,
references, the telephone number with its unique index.

| Action | Code |
|---|---|
| `Publish` | Central makes a change. It names an edit as taken in only if it was told of it (`Truthful`) |
| `Tick`, `Ask`, `EndPage` | `Puller.Run` and `pullOnce`: the page behind the cursor; the cursor is saved after the page, at most `MaxPages` pages per tick |
| `Apply` | `inbox.Apply`: one transaction for the change and its `inbox_messages` row; a message with a row is passed over |
| `Refuse` | the same returning an error: everything is rolled back, the row `failed` included, and the tick ends |
| `Fault` | a request or a statement fails, or the process restarts |
| `CreateCustomer`, `UpdateCustomer` | `internal/customer` with the insert of `customer.changed`, whose id carries the row's version |
| `Sell` | the balance update of `inventory.ApplySaleTx` |
| `Backup` | `VACUUM INTO` |
| `Restore` | external: an operator puts the file back while the service is stopped (`docs/RECOVERY.md`) |

`Projection!Effect` is the effect of each catalog change: `NotOlder` is the `WHERE` of the
versioned upserts, `ReferencesHold` the foreign keys, `ApplyCategorySnapshot` the
snapshot that retires what it does not list. `UpsertCustomer` has the three cases of the
code: an edit Central has not taken in is preserved, an edited customer Central names
without a mapping turns to `conflict`, anything else is replaced.

### LocalAuth and ManagerApproval

A login is read (`BeginLogin`), counted or cleared (`CountWrong`, `ClearFailures`) and
opened (`OpenSession`), each a statement; what it writes comes from the row it read. The
read of the row and the read of the clock next to it are one step, and the read of the
device's store is one step with the upsert of an enrolment (`StoreUser`), whose deletion
of the user's sessions (`PurgeSessions`) is another. Statements whose errors the code
ignores may have no effect. A request a crash ends takes no further step.

An approval is asked for with the manager's PIN (`AskApproval`, a login), the manager's
session is closed (`CloseVerification`), the row is written if the manager may approve
(`Issue`). A void, a refund or a discounted create without its permission spends one
(`Spend`) in a transaction of its own and then acts (`Perform`) or fails (`FailAct`). A
request keeps the permissions it was authenticated with. The permission sets hold the
permissions these handlers ask for: `orders:write` counts as `pos:sale`, and `*` is a
claim with all of them.

### EffectiveConfig

`StartRefresh`, `Answer`, `Save`, `RecordSuccess`, `FailRefresh` are the steps of
`Service.Refresh`, run by the loop and by any number of requests at once. An ETag is the
configuration it names; `last_error` is left out.

### Checkout and Pricing

`Checkout` is `POST /api/v1/orders` from authentication to the audit columns.

| Action | Code |
|---|---|
| `Submit`, `Spend` | `requireOrderWrite`: authentication, approval of a discount |
| `LookUp` | the device's store, `GetByClientID` and the answer with the order that is there |
| `ReadProduct`, `ReadPrice` | `catalog.GetProduct` for each line |
| `ReadSetting` | one setting of `effectiveconfig.Store`, in the order in which the code asks |
| `BuildLine` | the body of the loop over the lines in `Service.Create`, with the discount policy and `calculateTax`; discount and tax policy are resolved once for an order, the price override for each line |
| `Commit` | the transaction of `Create`, with the unique index on `client_order_id` |
| `FailCreate` | every error return, and an unknown customer |
| `RecordCreator`, `RecordApproval` | the two statements after the transaction |
| `ChangeProduct`, `ChangePrice` | the feed, meanwhile |

The set of settings a configuration may leave out has the code's defaults (`Default`).
Words that mean nothing to the code are one word, `other`. Amounts in `Pricing` are
unbounded integers; a discount limit is a whole percentage.

## 3. Runs

| Run | Question | Instance | Result |
|---|---|---|---|
| `outbox_safety` | order, acknowledgement, claims, dead letters and grants under all faults; does `Outbox` implement `OrderedDelivery`? | 2 events, 2 keys, background loop + 1 request, 1 grant, 2 attempts, 1 crash, 1 sleep | holds |
| `outbox_drains` | does every event settle? | 2 events, 2 keys, 1 request, 1 crash, fairness | holds |
| `outbox_overtaking` | is order kept with a clock finer than a second? | 2 events, 2 ticks per second, no faults | **violated** |
| `outbox_restart` | do unsynced sales resume after a restart? | 1 event, 1 crash, fairness | **violated** |
| `sale_races` | what holds however requests interleave; while nothing is paid, and when requests come one at a time, is the contract kept? can a sold sale be refunded then? | 3 requests, 2 tenders, 5 kinds of payments | holds |
| `sale_voidrace` | is a voided sale unsold? | 2 requests, 1 tender | **violated** |
| `return_faults` | do ledger, shelf and tenders agree, and can what is left be returned? | 2 lines (3 for 4, 1 for 2), 4 return ids, 2 captures, money by hand | holds |
| `return_tenders` | can the last part always be returned? | 1 line (3 for 3), 3 captures of 1 | **violated** |
| `return_gift` | does a full refund restore the stock? | 1 line of 2 for nothing, 1 line of 1 for 2 | **violated** |
| `feed` | is every change applied once, in order, whatever fails or is restored? does the newest fact win? is every edit sent? does every change arrive? | log of 3, pages of 2, 2 pages per tick, 1 fault, 1 sale, 2 edits, 1 restore, fairness | holds |
| `feed_edits` | are local edits protected until Central has them? | as `feed` | **violated** |
| `counter` | lock-out, approvals, orders that add up and are made once, configuration that converges | 3 users, 3 logins, 2 PINs, limit 2, 1 approval, 2 requests, 4 baskets, 2 configurations, 2 refreshers, 2 publications, 1 fault, fairness | holds |

Bounds. Two events suffice for order within a key and for independence between keys; the
proofs allow any number. Two
attempts separate "not the last" from "the last"; the limit is 12 in the code and a
constant here, arbitrary in the proofs. Two workers are the smallest race; a third
adds no new pair, and the proofs allow any number. One crash and one sleep: after
either, the table is in a state that insertions and failures also reach.
For a sale, two tenders show several captures, and a total of 2 with amounts 1 and 2
every payment status. Three requests allow a completion, a second completion or void,
and a refund to overlap. For returns, three units for 4 leave a remainder in every
split, a second line makes a return of part of the sale and a return of the whole of a
line different things, and four ids allow each unit to come back alone. Two captures,
of which the second may come between two returns, are the most for which the last
capture's share is safe (section 4); the third is what `return_tenders` is about.

Deadlock is not checked in the runs where the system may stop: all rows inserted and
published (or behind a dead letter) and no request left, or a sale that is over.

Fairness (`FairSpec`). The loop is started (the service is restarted after a crash),
the background worker claims when it can (its timer), and every claim in hand is
carried through (the HTTP client has a timeout, `syncengine.New`); backoffs and leases
elapse. Nothing makes Central accept an event, a manager act or a request come. So
`EveryEventSettles` says an event ends published, or behind a dead letter of its key
(Central kept refusing), or behind a claim whose worker is gone. For the feed, `Pull` is
weakly fair: the puller's goroutine lives as long as the service and its ticker ticks
(`changefeed/puller.go`). `EveryChangeArrives` then says that a change is applied unless
one at or before it cannot be. For the configuration, the loop's next refresh and the end
of one that was started are weakly fair (ticker, HTTP timeout); a `POST /config/refresh`
need not come. `ConfigConverges` needs no more, because the bounds let Central change its
mind and requests fail finitely often only.

### Disagreements with the documents

1. `outbox_overtaking`. `created_at` is RFC3339Nano text (`outbox/dispatch.go:34`).
   The event created exactly on a second (…:05Z) sorts after one created later in that
   second (…:05.1Z); the comment at `outbox/dispatch.go:14` promises no overtaking.
   The proofs name the assumption under which it is kept: `ChronologicalStamps`.
2. `outbox_restart`. `Engine.Run` recovers stale claims once, at its start
   (`syncengine/engine.go:78`), and only claims older than two minutes. A restart
   within two minutes of a crash leaves the event that was being sent, and its key,
   until the next restart or a manual sync. `docs/V1_INVENTORY_ACCEPTANCE_MATRIX.md:51`
   and `docs/RECOVERY.md:12` say synchronisation resumes.
3. `sale_voidrace`. `VoidWithActors` looks at `completed_at` before its transaction
   only. A payment (of no money, or captured and given back) between the reads of a
   completion and a void gives them different snapshot keys; both commit
   (`orders/void.go:55` against the comment at line 28 and
   `docs/V1_INVENTORY_ACCEPTANCE_MATRIX.md:48`).

4. `return_tenders`. The last capture takes the rest of the rounding
   (`refunds/partial_service.go:122`), which with three captures or more can exceed it:
   captures 1, 1, 1 and a refund of 2 give 0, 0, 2. Its reversals then exceed its amount
   and every later return fails with `ErrExistingReversal`, as does a full refund, so the
   rest of the sale cannot be refunded any more; `refunds/partial_plan.go:44` and
   `docs/V1_PRICING_TAX_ACCEPTANCE_MATRIX.md:36` promise the exact remainder.
5. `return_gift`. `ApplySaleReturnTx` skips an item with any `sale_return` movement
   (`inventory/refund.go:41`). A partial return that refunded nothing leaves one without a
   reversal, and the full refund that is still accepted does not put back the rest
   (`refunds/service.go:35`: "restores sale-issued stock").
6. `feed_edits`. A customer Central names without a mapping keeps the store's edit only
   while its row is `pending` (`inbox/inbox.go:326`). The first such change makes it
   `conflict`, and the second one finds nothing pending and replaces the edit, of which
   Central has not said it took it in.
   `docs/V1_CENTRAL_POS_SYNC_ACCEPTANCE_MATRIX.md:33` says local pending edits remain
   protected. The event of the edit is still sent (`EditsAreSent`).

Without a run of its own:

7. `approved_by_user_id`. `docs/order-identity-authority-matrix.md:35` says a retry of a
   `client_order_id` cannot be used by a second cashier to replace attribution. The
   creator is kept (`COALESCE` in `server/cashier_audit.go`), but `recordOrderApproval`
   (`server/manager_approval.go:253`) writes the approver of whatever request was answered
   last: a retry with a discount and an approval of its own, by any cashier, puts its
   approver and reason on the order that is there, also on one without a discount.
   `Checkout`'s `RecordApproval` does the same, and `OrderIsKept` exempts the approver.

Not a disagreement, but worth knowing: a capture between two returns lowers the shares
of the earlier captures, and a return is refused as long as one of them has given back
more than its new share. `ReturnsStayPossible` therefore asks that the tenders are in
their shares (`SharesGivenBack`).
Also: a restore takes the edits of customers and their events back together, so the next
edit may take a version, and with it an event id, that Central has already heard of.
`EditsAreSent` speaks of the store's file and does not see that; `docs/RECOVERY.md:17`
speaks only of events published again and asks Central to be idempotent.

## 4. Proofs

`OutboxProofs` proves, for any keys, workers, grants, attempt limit and bounds:

- `OutboxTypeOK`, `OutboxPublishedIsFinal`, `OutboxPublishedIsAtCentral`: from
  `TInv = TypeOK /\ RowsInOrder /\ ClaimsAreLive`. `ClaimsAreLive` is needed because a
  worker marks a row for any claim: it says a row being processed was sent, that an
  attempt is left to it, and that a worker holding a confirmation holds it for an event
  Central has.
- `OutboxNoOvertaking`, `OutboxOneClaimPerKey`, `OutboxImplementsOrderedDelivery`:
  from the inductive `IInv`, which adds `PostedInOrder` (when an event has been sent,
  everything earlier on its key is published) and `PublishedIsAtCentral`. They assume
  `ChronologicalStamps`. Lemma `WholeSecondsAreChronological` shows that a clock of
  whole seconds satisfies it, and `FinerClocksAreNot` that any finer one does not once
  its first full second is within reach.
- `OutboxGrantRevivesOnce`: the grant is recorded in the transaction that revives
  (`GrantsCounted`).
- `OutboxDeadLetterIsEarned`, from `Earned`: the attempts a row counts, with the
  rejections workers have seen and not yet counted, never exceed the deliveries of the
  event that were rejected, as long as those are fewer than the limit.

`SaleProofs` proves, for any items, tenders, payments and requests:

- `SaleTypeOK`; `SaleCancelledHoldsNoMoney` (the void looks at the money inside its
  transaction, and payments are refused from then on).
- `SaleReturnedIsSquare`: the refund looks at the reversals inside its transaction;
  the stale completion that may still commit issues nothing new, because a returned
  sale has already issued every tracked item.
- `SaleReturnedOnce`: the refund's second look at the status.
- `SaleUnpaidSoldOnce`, `SaleUnpaidVoidedIsUnsold`: while no payment is recorded the
  snapshots are exactly `1..version`, so a request can only commit if what it read is
  still current. Payments break precisely this, which is what `sale_voidrace` shows.
- `UnpaidSaleFollowsContract`: therefore such a sale goes through its life as
  `SaleContract` allows, with any number of requests at once. `ContractStep` is the
  step: a commit whose read still holds (`ReadHolds`) is a step of the contract, and
  everything else a stutter. That a refund moves the contract to a square sale needs
  `BooksInv`: what was issued and restored, which payments are recorded and reversed, and
  that the amounts of the two agree (`Books`, `OnShelf`, `Unborn`).
- of requests that do not overlap (`SerialSpec`), with payments of any kind in between,
  from `SerialInv`: no snapshot has a key above the version, and what a request has read
  still holds (`Behind`, `ReadsHold`). `SerialSaleStaysRefundable`: the key a refund needs
  is free. `SerialSaleFollowsContract`, and the same from the start as a refinement,
  `SerialSaleImplementsContract`. `SerialVoidedSaleIsUnsold` and `SerialSaleSoldOnce`
  delimit `sale_voidrace`: it takes requests that overlap *and* a payment between them.

`SumTheorems` proves about `SumOf`, for every finite domain, that it takes out any one
element (`SumTakeOut`), and from that how it changes when one value does, when one is
appended, when one function is below another. `SumOf` is a recursive function of the
community modules; the induction over subsets it takes is done without an operator as a
parameter: if a statement fails for some subset it fails for a minimal one
(`MinimalSubset`, from the library's well-foundedness of strict inclusion).

`ReturnProofs` proves, for any lines, prices, tenders and returns, from the inductive
`RInv` (types, `WithinSale`, `RefundFollowsQuantity`, `ShelfFollowsLedger`,
`UntrackedUntouched`, `ReturnedIsSettled`):

- `RefundsAreExact`: what a line has refunded depends only on how much of it is back.
  It rests on `LineTargetBounded` and `LineTargetMonotone`, and those on `FloorBounded`
  and `FloorMonotone` about `proportionalFloor`. `RefundNeverShrinks` follows: the
  planner's test `prior.RefundMinor > target` refuses nothing.
- `NeverMoreThanSold` and `ReturnedSalesAreSettled`. The last return only names the
  items it brings back; that the others are refunded in full needs `RefundFollowsQuantity`.

and, from `MInv` on top of it (types of ledger and money, `LedgerAddsUp`, and
`OwedIsGivenBack`: the captures have given back at least what the lines owe):

- `ReturnTypes`, `ReturnsCountOnce`.
- `RefundsFollow`: the targets of any number of captures add up to what is owed
  (`TargetsAddUp`, the last one takes the rest), so after a return that is what has been
  given back. As long as the lines owe nothing a return pays nothing: then the code does
  not look at the tenders at all.
- `ReturnsCovered`: the part a return pays is at most the money held.
- `ReturnedStock`, if `EachPieceCosts`: every unit of a tracked line, in the unit in which
  quantities are returned, costs at least one minor unit. Then a piece that is back has
  refunded something (`PieceRefunds`), and a full refund, which requires that nothing was
  given back (`OwedIsGivenBack`), finds nothing on the shelf. `return_gift` is an instance
  without it.
- of two captures (`TwoCaptures`: at most two, later ones included): `TendersNeverOver`,
  `TwoTendersStayPossible`, `TwoTendersSettle`, from `TwoTendersSuffice`, the arithmetic of
  the rounding, and `TwoTargets`. The last proves of two tenders the very property that
  `return_tenders` refutes of three, so the hypothesis is needed.

`FeedProofs` proves, for any identifiers, log, page size and bounds, from the inductive
`FeedInv` (`LogOK`, `StoreOK`, `SavedOK`, `PageOK`):

- `FeedTypeOK`, with every reference of the catalog. One lemma per kind of change shows
  that its effect keeps types and references (`CategoryEffect` ... `BarcodeEffect`).
- `FeedCursorIsBehind`. It needs that the inbox is an initial segment `1..n` of the log
  and the cursor at most `n`, in the file *and in the backup*, and that the puller, within
  a page, is at a change all predecessors of which are applied.
- `FeedImplementsContract`: under the mapping `applied <- Cardinality(inbox)` every step
  is a step of `FeedContract` or a stutter. A redelivered change is a stutter, because
  the segment holds it already; a restore takes the catalog and its place back together.
- `FeedEditsAreSent`, from `EditsInv`: no event of a customer has a version its row has
  not reached, so an edit, which takes the next version, never meets an event that is
  there. It rests on `VersionKept`: Central's data never lower a row's version.
- `FeedNewestFactWins`, from `NewestInv`, which holds of the file and of the backup: the
  row of a product says what the newest fact of the inbox says (`Shows`). `NextTop` is the
  step: with the next change either that is the newest, or the newest stays.
- `FeedEditsLostUnnamed` delimits `feed_edits`: Central's data replace an edit they do not
  name as taken in only by a change that names no customer of the store, and if it has no
  mapping at all, only after another such change of that customer (`ConflictInv`: a row in
  `conflict` has met one, in the file and in the backup).

`PricingProofs` proves for all amounts that `RoundHalfUp` gives the nearest integer, the
upper of two (`RoundsToNearest`), that a discount within the limit is at most the line
(`LimitBelowGross`), and that the tax is at most what it is levied on and on top of it or
a part of it (`LineAddsUp`).

`CounterProofs` and `CheckoutProofs` prove, for any users, logins, approvals, requests,
products, baskets and configurations:

- `LockoutEarned`, from `AuthInv`: a count, in a row or in what a login has read, is at
  most the number of wrong PINs (`Counted`). A stale count can only be too low.
- `ActionsApproved`, from `ApprovalInv`: an approval closes its request and names another
  approver than its cashier (`Verified`, `Issued`); who may act has the permission or
  holds a spent approval that covers the action (`Allowed`), and no two requests hold the
  same (`SpentOnce`), which is what spending it in its own transaction is for.
- `OrdersAlwaysAddUp`, from `CartOK`: the sums of an order at work add up under the tax
  mode that has been read, and there is no tax in them before it has been.
- `OrdersMadeOnce`, `OrdersKeptAsMade`, from `OrdersMade`: orders and creates that are
  done correspond one to one, and the kind of a create is that of its basket.
- `TypesKept`.

The assumptions on constants are `BoundsAssumption`, `NamesAssumption`,
`SaleAssumption`, `ReturnAssumption`, `ProjectionAssumption`, `FeedAssumption`,
`AuthAssumption`, `ApprovalAssumption`, `ConfigAssumption` and `CheckoutAssumption`: types
of the bounds, that a sale has finitely many lines, and that `None` and its like are no
value of the sets they extend. TLC evaluates them in the runs. `ChronologicalStamps`,
`EachPieceCosts` and `TwoCaptures` are not assumed but are hypotheses of the theorems named
above, because the code does not ensure them.

Only model-checked: liveness (`EveryEventSettles`, `EveryChangeArrives`,
`ConfigConverges`), which is out of the prover's reach, as everything with `ENABLED` is.
Every other property of a passing run is a theorem, three of them
(`ReturnedStockIsBack`, `TendersNeverOverRefunded`, `ReturnsStayPossible`) with a
hypothesis that the run's instance satisfies and `NoOvertaking`, `OneClaimPerKey` and
`ImplementsOrderedDelivery` with `ChronologicalStamps`.

## 5. Not modelled, and why

Components without a module: schema migrations (one transaction each, run once at start
before any goroutine that could interleave), HTTP routing, permission tables, process
configuration, logging and metrics (no state the components depend on). The rest of a
component marked `partly` in `PROJECT.json`:

- Recovery: signature, device, tenant and expiry checks of a grant. A grant is a name
  Central has signed for.
- Diagnostics: skipping an inbox message. It looks for a row `failed`
  (`server/diagnostics.go`), which the rollback of the failing change has removed, so it
  never finds one; the other handlers read.
- Receipts: the number and the printed amounts. The counter is read and written within
  the transaction of the completion.
- Partial returns: the payment part of the status (confirmed, partially paid, paid), which
  `ReturnPartial` writes back from before its transaction, and the events it emits. A
  module with both partial returns and racing payments, completions and voids is beyond
  what TLC finishes.
- Device: the installation's identity and the heartbeat, columns no transition reads.
  Nothing in the code revokes a device.
- Backups: copying, pruning and verifying files; the tables outside the feed.
- Audit columns of payments and completions, which no transition reads.

Left out of modelled components: contents of payloads; signatures and hashes (a PIN
matches if it is the same); names, barcodes' text, searches; the wall clock stepped back
and equal `created_at` values (`Outbox`); whether Central's stock figure or the store's
own movements should win (the row and its version are in `ChangeFeed`, but no document says
what is right); overflow of amounts (`Pricing` is unbounded); fractions of a percent in
the discount limit.

## 6. What could follow

1. A partial return as a request of `SaleLifecycle`, with the status it writes back, once
   a document says which write is to win.
2. The order of one sale's facts at Central: `SaleLifecycle` over `Outbox`, with the
   outbox replaced by `OrderedDelivery` to keep the state space small.
3. `Outbox` under a restored backup, where events that Central has are pending again.
