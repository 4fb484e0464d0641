# JewelryFlow server: a TLA+ model

JewelryFlow is the back office of a jewellery shop: a NestJS service over Prisma
and PostgreSQL. This directory holds TLA+ modules translated from its source,
TLC configurations that check them on small instances, and TLAPS proofs of what
matters most for instances of every size. Paths below are relative to the
repository (`src/karigar/karigar.service.ts`, `prisma/schema.prisma`).

## 1. The system

Every operation is an HTTP request, served by a handler of a NestJS service. A
typical handler

1. reads rows and checks them **outside** any transaction (`findUnique`, then
   `throw BadRequestException`),
2. opens `prisma.$transaction` at PostgreSQL's default level, READ COMMITTED,
3. inside it reads some rows again, updates some rows **conditionally**
   (`updateMany where status = ...`, count 0 => `ConflictException` and rollback)
   and others by id without a condition,
4. commits.

Handlers talk to each other only through the database. The hard behaviours
follow from that: a check made in step 1 may be stale in step 3; a value read in
step 3 may be stale when it is written; a unique index or a conditional update is
what decides a race; and every failure (conflict, constraint violation, deadlock
victim, transaction timeout, crash) rolls the whole transaction back. Nothing
retries on its own; the rate fetch only falls back from the site's interface to
its homepage. Several handlers of the accounts, the catalogue and the suppliers
use no transaction at all.

| Component | State | Operations | Correct when |
|---|---|---|---|
| **Karigar production** (`karigar.service.ts`) | production orders, lines, issues with source items, returns, disputes, metal pools, metal balances, finished stock | createProductionOrder, createProductionIssue, weighIn / correctWeighIn / approve of a line, createProductionReturn (a batch too), completeProductionOrder, resolveDispute | metal is conserved; one return per issue; a piece in stock is the weighed piece; nothing disputed is for sale; a completed order stays complete |
| **Sales** (`sales.service.ts`) | bills, lines, payments, item status | createSell, createReturn, createExchange, createBuyback, createOldGold, addPayment | an item is sold once until it comes back; a bill's paid amount is the sum of its payments; a standing sale is not undone |
| **Stock** (`stock.service.ts`, `stock-sku.service.ts`) | items, categories, karat sequences | create (single, bulk, from a sheet), updateStockItem, updateStockStatus, categories | a SOLD item is neither edited nor moved by hand; the numbers of a sequence have no gap |
| **Trade** (`trade.service.ts`) | trades (metal given for finished items), their items, parties | createTrade, updateTradeStatus | cancelling scraps what is still in stock and nothing else |
| **Purchase** (`purchase.service.ts`, `import.service.ts`) | suppliers, purchase orders, their lines and pieces | create, receive, cancel, import | each line of a received order names a piece of its own; an order's pieces are made once, unless receipts overlap; totals are near the sum of the lines; costs are known ones |
| **Rates** (`rates.service.ts`, `rates.helpers.ts`, `rates-fetch.service.ts`, `.scheduler.ts`) | daily rates, fetched snapshots, discounts | setRate, setGoldRatesFrom24K, confirmRates, patchSettings, fetch by hand and by schedule | one current rate per metal; the shop never buys above its sell rate; a published day reaches the banner |
| **Rate source** (`fenegosida-scrape.provider.ts`) | none | fetchTodayRates | what is read is what was published, or nothing |
| **Accounts** (`auth.service.ts`) | users, roles of users, codes, reset tokens, the refresh token of each user | signup, verifyEmail, login, refresh, logout, change and reset of passwords, users and roles | one account per address; verified by its own code; an older password's session only from a login that overlapped the change |
| **Bill figures** (`weight.util.ts`, `bill-rounding.util.ts`, `calculatePrice`) | none | pure functions | totals cover the columns by at most a unit; a weight reads back as it was typed |
| **Ledgers** (`ledger.service.ts`, dashboard) | none | queries | agree with the rows |
| **Nightly checks** (`common/integrity`) | none | queries | what they report follows from what the handlers did |
| Customers, audit, export, HTTP layer, agent | rows of their own | single-row edits, logs, spreadsheets, routing | see section 9 |

**Interactions.** Production takes items out of stock to be melted
(`IN_STOCK -> IN_REMAKE -> REMADE`) while sales and trade may take the same items
(`IN_STOCK -> SOLD`); it puts finished pieces into stock (`IN_STOCK`, or
`UNDER_DISPUTE` while a dispute about their wastage is open); rates feed the
price of a bill, and a rate in force the cost of a purchased piece; SKUs come
from category sequences shared by entry, import and production, or from the
count of purchased pieces; ledgers and nightly checks read all of it.

`PROJECT.json` lists all components with their status, and the hazards this code
is exposed to, each at its line.

## 2. Karigar production

A production order hands metal to a craftsman (karigar) in *issues*. An issue may
belong to an order *line*; then it comes back through `weighIn` and `approve`.
An issue without a line comes back through `createProductionReturn`. What was
lost beyond the allowance is a *deficit*: the order's pool of surplus pays it if
it can, the rest becomes a *dispute*, which is settled in cash or carried to the
karigar's *balance*. What was saved goes into the pool; completing the order
sweeps the pool into the balance. A later issue may apply the balance.

### Modules

| Module | What it is |
|---|---|
| `ProductionOrders` | the handlers of `karigar.service.ts` that change production state |
| `ProductionProperties` | type invariant, safety invariants and action properties |
| `ProductionAudit` | the metal accounts recomputed from the rows (sums over sets) |
| `ProductionLifecycle` | abstract specification: orders and line statuses, each operation one step |
| `ProductionRefinement` | `ProductionOrders` implements `ProductionLifecycle` |
| `ProductionInvariant` | the inductive invariants: `ProductionInv` of the rows and requests, `AuditInv` of the accounts, `SerialInv` for one request at a time |
| `ProductionProofs` | the proofs |
| `Sums` | theorems about sums over finite sets and running sums, for all the proofs |
| `MCProduction` | the small instances |

### Correspondence with the code

Each element of `Requests` is a place for one request in flight. `req[r]` is what
that request keeps in memory; `Idle` when there is none. A handler is split at
every moment another request can be seen.

| Handler | Actions | What is kept between them |
|---|---|---|
| `createProductionIssue` | `RequestIssue`, `CommitIssue` | the weights; the order's status is *not* read again |
| `weighInProductionOrderLine` | `RequestWeighIn`, `ReadPool`, `CommitWeighIn` | the line's row, then the pool as read in the transaction |
| `correctWeighInProductionOrderLine` | `RequestCorrect`, `CommitCorrect` | the line's row |
| `approveProductionOrderLine` | `RequestApprove`, `ReadDispute`, `CommitApprove` | the line's row, then whether the dispute was open |
| `createProductionReturn` | `RequestReturn`, `CommitReturn` | the weight |
| `completeProductionOrder` | `RequestComplete`, `ReadPools`, `CommitComplete` | the pools as read in the transaction |
| `resolveDispute` | `RequestResolve`, `CommitResolve` | how it is settled |
| `createSell` (seen from here) | `SellItem` | nothing: the conditional update decides |
| any failure | `Abort` | nothing |

*Conditional updates.* An `updateMany` with a status or an amount in its `where`
takes row locks that last until the commit, and READ COMMITTED evaluates its
condition again on the newest row after waiting for a lock. The condition
therefore holds at the commit, and the model puts it in the guard of the
`Commit...` action. A plain `SELECT` inside the transaction takes no lock and is
a step of its own.

*Variables.* One row per issue for returns, disputes and stock: the schema makes
each `@unique` on the issue. Return rows get fresh ids (`returnsMade`), because a
correction deletes a return and a snapshot may still name it. A line's
`disputeId` is the flag `disputed`. A pool or balance row that is absent holds 0
(`upsert` runs as `INSERT ... ON CONFLICT`).

*Abstractions.*
- Weights are integers in units of the columns' precision; `Eps` is
  `WEIGHT_EPSILON`.
- All pieces of a simple return are one piece with their total weight.
- The batch handlers repeat the single operations, each in a transaction of its
  own, and are modelled by them.
- `createProductionOrder` is `Init`: orders exist, with their lines and expected
  weights (constants).
- SKU and rate reads of approve and return are left out; a unique violation of
  the SKU is an `Abort`.
- `resolveDispute` reads the production item inside its transaction; the read is
  part of the commit, since nothing the handler does depends on when it happens.
- The weights of items to be melted are constants, and such an item only changes
  status by being melted or sold (for statuses set by hand see section 3).

### Runs

Both runs check safety only and assume no fairness. The workload is bounded, so
the system does stop, and `CHECK_DEADLOCK` is off everywhere.

| Run | Instance | Shows |
|---|---|---|
| `production_race` | two lines of one order, an item to be melted or sold, two requests, two returns per line | the inductive invariant `AuditInv` (`ProductionInv` is its first conjunct), the invariants on stock, returns, disputes and melted items, the pool against the lines, the gold ledger against allowances and disputes (`MissingMetalIsAccounted`), the finality of approval and disputes, and refinement, in every interleaving of two requests |
| `production_serial` | two lines and a free issue, percentage tolerance, a karigar who owes metal, one request at a time | balance against ledger, holds only while disputed: they hold when requests do not overlap |

With a second request both properties of `production_serial` fail. Two
completions read the same pool and both credit it to the balance; two resolutions of
a dispute carry its metal over twice; and an approval that saw the dispute open
creates the piece `UNDER_DISPUTE` after the resolution has lifted the hold.
Other deviations met while modelling, which no property here is about: metal may
be issued or returned on an order completed since the check, and a simple return
is accepted on a line's issue, which can then never be weighed in. The part of a
deficit within `WEIGHT_EPSILON` is given back by a correction though the pool
never paid it; `PoolMatchesLines` and `MissingMetalIsAccounted` state exactly
how much that may come to: one epsilon per return ever made.

*Bounds.* An issue of 8 for a piece of 5 allows a loss of 3. A finished weight of
8 saves 3; a weight of 1 loses 4 beyond the allowance. With `Eps` = 1 this meets every branch: surplus, a deficit
within epsilon of the pool, a deficit without pool (all disputed), a pool drained
by the other line. Two requests are enough for every race between a
check and a write of another handler; two lines are what makes a pool shared.
`MaxReturns` (2) lets a line be weighed, corrected and weighed again while an
approval holds the first snapshot. With one order and one metal there is no
confusion of keys; the proofs cover any number of them.

### Proofs

All are in `ProductionProofs`, one lemma per action and invariant, and rest on
`ProductionAssumption` (the types of the constants; `Eps` and the weights are any
naturals, no set need be finite). Those about accounts also rest on
`AuditAssumption`: orders, issues and metals are finitely many, as rows are.

| Theorem | About |
|---|---|
| `TypeCorrect`, `InvariantHolds` | `TypeOK`, `ProductionInv` |
| `Solvent`, `StockIsWhatWasWeighed`, `IssueReturnsOnce`, `DisputedIsHeld`, `DisputeMatchesDeficit`, `ItemsMeltOnce`, `CompletionIsSound` | the safety invariants, from `ProductionInv` |
| `DisputesAreKept`, `ApprovalsAreFinal` | the action properties |
| `HandlersImplementLifecycle` | the refinement |
| `AuditInvHolds`, `PoolMatchesLinesHolds`, `MissingMetalHolds` | the accounts of open orders, under any number of requests |
| `SerialInvHolds`, `HeldOnlyWhileDisputedHolds`, `BalanceMatchesLedgerHolds` | for one request at a time (`OneAtATime`) |

*The argument.* The safety properties are not inductive: they relate the stock
item of an issue to the line, and say nothing of a request about to write. The
invariant adds two things. First, how the rows of one issue fit together
(`LineRows`, `ReturnRows`, `StockRows`, `DisputeRows`, `ItemRows`): for instance
that a return made by a weigh-in exists exactly while its line is weighed or
approved. Second, `Snapshots`: what a request in flight may still rely on.
The important one is approval's. Its snapshot of the line may be stale, but *if
the return it names still exists* then the snapshot's weight and dispute flag
are the line's, because a correction deletes that return and ids are never
reused. The foreign key of the stock item to the return is what makes the stale
approval fail. Likewise a completion may rely on its lines being approved,
because approval is final; that is why lines never move on a completed order
although no line handler reads the order's status in its transaction.

`Solvent` (pools and balances never negative) and `CompletionIsSound` (lines of a
completed order are approved) are conjuncts of `ProductionInv`, which the run
checks as a whole.

*The accounts.* `MissingMetalIsAccounted` says nothing of who used which epsilon,
so no step preserves it by itself. `AuditInv` keeps, line by line, a `Credit`:
what the line paid into the pool, one epsilon for each return it ever had, less
the one of a present return within the allowance. Such a return gave the pool
exactly its surplus, and needs its epsilon elsewhere: its loss may exceed the
allowance by that much. A return beyond the allowance may have left the pool an
epsilon it did not pay, which stays when the return is corrected. `PoolBounds`
compares the pool with the sum of these credits, of which every action changes
one term or none; a correction takes back exactly the line's own, because one
whose return still exists has read the line as it is (`WeightSnapshots`).
`PoolMatchesLines` is weaker than that. For `MissingMetalIsAccounted` the lines
are grouped by metal (`SumGroups`), and `DirectReturns` says of returns without a
line that what they lack beyond the allowance is in dispute. The kharchar there is
the one each return records, which may be negative; the total an order shows never
goes below zero, and with it the property would be false.

*One request at a time.* The properties of `production_serial` are false of the
concurrent system. With `OneAtATime` as the hypothesis, `SerialInv` adds that
what the request has read still stands (`FreshSnapshots`), and `BalanceBounds`:
the ledger with the swept pools bounded order by order. A completion exchanges
the bounds of an open pool (`AuditInv`) for those of a swept one. `SerialInv` was
checked by TLC on the instance of `production_serial`.

*Sums.* The library's induction theorems cannot be used by the provers, so
`Sums` argues by a minimal counterexample: the subsets of a finite set are
well-founded under strict inclusion (`FS_StrictSubsetOrderingWellFounded`), hence
if a statement fails for some subset there is one for which it fails and no
smaller one does, and taking one element out of it gives the contradiction. That
`SumFunctionOnSet` does not depend on the order of its `CHOOSE` (`SumRemove`) is
shown in this way; the changes of a term, groups and bounds that the proofs
need follow. Running sums over sequences are shown by the least index that fails
(`RunningUnique`, `RunningWithin`).

## 3. The sales desk

A *bill* (transaction) records items that left the shop, items that came in, and
payments. Its items are also moved and edited by others: by hand
(`updateStockStatus`, `updateStockItem`), by trades, and by production, which
melts them. `SalesDesk` has all of these in one module, because every property
is about two of them meeting.

| Module | What it is |
|---|---|
| `SalesDesk` | the handlers of `sales.service.ts`; creation, status and weight of items (`stock.service.ts`); trades (`trade.service.ts`); melting as seen from here |
| `SalesProperties` | type invariant, safety invariants and action properties |
| `SalesInvariant` | the inductive invariants: `SalesInv`, `AccountInv`, and `FreshInv` and `SerialInv` for one request at a time |
| `SalesLedger` | what the gold ledger, the stock summary, the customer ledger and the nightly checks read from the bills |
| `ItemCustody` | abstract specification: where each piece is, and the bills it came and went by, each bill one step |
| `SalesRefinement` | `SalesDesk` implements `ItemCustody` |
| `SalesProofs` | the proofs |
| `MCSales` | the small instances |

### Correspondence with the code

Requests, conditional updates and plain reads are modelled as in section 2.

| Handler | Actions | What is kept between them |
|---|---|---|
| `createSell` | `RequestSell`, `CommitSell` | the items and the weights read for the lines |
| `createReturn` | `RequestReturn`, `CommitReturn` | the sale and the items; only `status = SOLD` is checked again |
| `createExchange` | `RequestExchange`, `CommitExchange` | the items in and out, the weights of those out |
| `createBuyback`, `createOldGold` | `BuyIn` | nothing read matters: one step |
| `addPayment` | `RequestPay`, `CommitPay` | the bill's paid amount and the payment |
| `createStockItem`, `bulkCreateStock` | `EnterStock` | one step |
| `updateStockStatus` | `RequestStatus`, `CommitStatus` | the new status; written by id |
| `updateStockItem` | `RequestEdit`, `CommitEdit` | the new weight; written by id |
| `createTrade` | `CreateTrade` | one step |
| `updateTradeStatus` | `RequestTrade`, `CommitTrade` | which items were in stock; written by id |
| `createProductionIssue`, return or approval of its piece | `Melt`, `Remake` | `melting`: the issue's source items; `Remake` writes by id |
| any failure | `Abort` | nothing |

The one-step handlers take no place in `Requests`; they may run between any two
steps of a request, also in the instances with a single request.

*Variables.* `bill[b]` is the transaction with its lines and payment records:
`out` and `in` are the items of its lines by direction, `weight` what its lines
say they weigh, `of` the sale a return refers to (`relatedTxId`), and
`received` the sum of its payment records. `item[i]` is the status of the item,
`"NONE"` before it is entered.

*Abstractions.*
- Amounts are integers, in paisa. Prices, rates, taxes, discount and rounding make a total
  any member of `Totals`; the checks on amounts (a first payment of at most
  twice the total, an instalment within the balance) are kept.
- The columns do not tell the direction of an exchange's lines; the model keeps
  it, for the properties. The sale an exchange may name is left out: no check
  uses it.
- Old gold an exchange takes in has no stock item and counts in its difference
  only.
- Refusals that depend on data left out (no rate today, return window of seven
  days closed, missing rows) are `Abort`.
- Edits change the weight; jerty, charges and photos behave the same way.
- Which items a trade brings in, and which ones production may melt, are
  constants.
- Customers, bill numbers (a database sequence) and the audit log are left out.

*Reports.* `getGoldLedger` takes the lines of SELL bills as going out and those
of RETURN bills as coming in. Lines of exchanges and the metal of buybacks and
old gold are in neither list, so `LedgerNets` is about items no exchange has
moved. `getCustomerLedger` sums paid amounts and balances over all bills, refunds
among them.

Three of the nightly checks read the same tables, and they are not quiet when
everything works. `in_stock_on_sell` fails for every item that came back by a
return or an exchange. `overpaid_bills` fails for every bill paid beyond its total
by more than a paisa (`OverpaidBills`): `createSell` takes a first payment of up to
twice the total, exchanges and purchases take any, and the total of an exchange
may be negative. `orphaned_sold_stock` alone reports nothing while requests do not
overlap. `ReportsAreExplained` states what the reports may be: items that came
back; no SOLD item without a line; exactly the bills whose balance says that the
shop owes money, never a return, and a sale at most at twice its total. Later
payments neither make a bill overpaid (`NoInstalmentOverpays`) nor add to one that
is.

### Runs

As in section 2 nothing assumes fairness, and the workload is bounded.

| Run | Instance | Shows |
|---|---|---|
| `sales_race` | two items, three bills, two requests, one item may be melted | the account of the items (`LinesMatchStatus`), and that every step is a one-step bill or move of `ItemCustody` or none (`ImplementsCustody`), under every race of sales, returns, exchanges, payments and melting |
| `sales_serial` | two items, one in the shop, the other bought, entered or traded in; two bills; two weights; three statuses by hand; one request | payments add up, no instalment overpays, bills say what sold items weigh, ledger and stock summary balance, what the nightly checks report is explained, SOLD is left by returns only |
| `payment_lost` (violation) | one item, one bill, two requests | of two payments at once the bill keeps one |

But for `NoInstalmentOverpays`, which is proved for any number of requests, the
properties of `sales_serial` fail once two requests may overlap: a status set by
hand, or the cancellation of a trade, overwrites a sale made after the check
(`SoldOnlyLeavesByReturn`); an edit checked before a sale changes the sold item
(`SoldAsWeighed`, `LedgerNets`). Giving the configuration a second request shows
them. With `Meltable` not empty one request is enough for
`SoldOnlyLeavesByReturn` to fail: an item being melted that is put back in stock
by hand and sold is `REMADE` when the issue returns.

`createReturn` asks whether an item is on the sale and SOLD, not whether this
sale's item came back already: sold, returned and sold again, it can be returned
a second time under the first bill. `LinesMatchStatus` holds through that: the
item is counted as back, on the wrong bill.

*Bounds.* Two items are what makes an exchange of one for the other, and a sale
of both at once, possible; three bills are a sale, the item's way back and
another sale. `sales_serial` has two, since a third makes too many states of it. There
a total of 2 is paid in part by 1, in full by 1 and 1, and overpaid by 4, the most a
sale takes; an exchange costs 2 or brings 1. Two requests and a step of its own for
every other handler cover each check against each write.

### Proofs

`SalesProofs` proves, from `SalesAssumption` (types of the constants; no set
need be finite, but for the reports, which add up finitely many rows:
`LedgerAssumption`):

- `SalesInvHolds`: `Spec => []SalesInv`. Besides types it says that a bill's
  balance is what is left of its total, and that a payment in flight was checked
  against a total that still stands.
- `NoInstalmentOverpaysHolds`: from it, since the total of a bill never changes,
  the balance an instalment writes is not negative, although the bill's row may
  have changed since it was read.
- `LinesMatchStatusHolds`, for `ManualStatuses = {}` and `Trades = {}`: the
  bills account for every item under any interleaving of any number of requests.
  The inductive invariant adds that only finitely many bills name an item (so
  that they can be counted) and that an item being melted stays `IN_REMAKE` (so
  that `Remake`, which writes by id, never meets a sold item). The condition is
  needed: a status set by hand or a cancelled trade can overwrite SOLD (see
  the runs above), and with that the account.
- `SoldLeavesByReturnInARace` and `HandlersImplementCustody`, under the same
  condition and from the same invariant. The refinement maps a status to where
  it says the item is (`CustodyOf`) and a bill to what its lines brought in and
  sent out. Its steps are those of the commits: a conditional update finds each
  item sold on the shelf, and each item returned with a customer, in the same
  step in which the bill is entered; requests and reads change nothing of it.
- `CounterLimitsHold`, in every interleaving: a sale is never paid more than twice
  its total and a return never more than its refund, because a payment in flight
  fits the total alone.
- For one request at a time (`OneAtATime`): `PaidIsReceivedHolds` and
  `SoldAsWeighedHolds`, from `FreshInvHolds`. `FreshInv` says that nothing the
  request has read is stale: no instalment, weight or status read is changed by
  another, and the one-step handlers, which still run in between, do not touch
  what it has read. That is what every other request would break.
- For one request at a time and `NoMeltingByHand`: `SoldOnlyLeavesByReturnHolds`,
  `LedgerNetsHolds` and `ReportsAreExplainedHolds`, from `SerialInvHolds`. It
  adds that an item being melted is not back at the counter (`MeltingAway`) and,
  item by item, what the gold ledger nets to (`ItemsBilled`): the weight of an
  item that is sold, nothing for another. The condition is needed: an item set
  IN_STOCK by hand while it is melted can be sold and is then REMADE.
  `LedgerNets` regroups the lines of all bills by their item (`SumGroups`).
  Under the same conditions `LinesMatchStatusSerially` and
  `HandlersImplementCustodySerially` extend the account and the refinement to
  trades and statuses set by hand: with one request at a time these find an item
  where they read it, and move only items the shop has.

`SalesInv` and `AccountInv` were checked by TLC on the instance of `sales_race`,
`FreshInv` and `SerialInv` on that of `sales_serial`.

## 4. Rates

`RateBoard` models the daily rates: how they are set by hand, derived from the
24K rate, fetched from the federation's site into snapshots, and confirmed.

| Module | What it is |
|---|---|
| `RateBoard` | `rates.service.ts`, `rates.helpers.ts`, `rates-fetch.service.ts` and its scheduler; the site, the calendar and crashes of the server as the world around them |
| `RateSource` | `fenegosida-scrape.provider.ts`: how rows and pages become rates |
| `RateProperties`, `RateInvariant`, `RateProofs` | properties, the inductive invariants, the proofs |
| `RateBook` | abstract specification: one price per metal, each write one step, each offer marked with the write it priced |
| `RateRefinement` | `RateBoard` implements `RateBook` |
| `MCRates` | the small instances |

| Handler | Actions | What is kept between them |
|---|---|---|
| `setRate`, `setGoldRatesFrom24K`, `confirmRates` | `PlanSet` / `PlanGold` / `PlanConfirm`, `Expire`, `CommitRates` | the new rates; then the rows the `updateMany` saw and locked |
| `patchSettings` | `PatchGlobal`, `PatchMetal` | the metal's own discount: two writes without a transaction |
| `runFetch` | `FetchByHand` / `CronFires`, `SiteAnswers`, `KeepSnapshot` or `Evaluate`, `RecordSnapshot` | what the site said, then the snapshot |
| the world | `Publish`, `SiteFails`, `CronPasses`, `NextDay`, `Crash`, `Restart` | |
| any failure | `Abort` | nothing |

Rates are paisa per gram, as the columns keep them; what is typed is in tenths
of a paisa, so that rounding happens. Of two writers of one metal the second
waits for the first and then does not see the row the first inserted: only the
partial unique index on the current rate of a metal, written in a migration,
stops it (`Indexed`). A crash drops all requests; their transactions are gone.

`RateSource` works out, from rows with labels, rows without (told apart by the
ratio of a tola to ten grams) or the labels of the homepage, the rates a fetch
brings. What a page means to show is not in the code; the module states it as the
three forms the provider is written for, which are external: `LabeledPage` (rows
with labels, of ten grams or only of a tola), `BarePage` (values in any order:
gold per tola and perhaps per ten grams, silver per both) and `Homepage` (labels
with a number each, or no answer). `PagesAssumption` says that every page has one
of them, whatever its values, and `PublishedAssumption` that what `RateBoard`
publishes is read from such a page; TLC evaluates both on the pages of `MCRates`.
No form has a lone unlabelled value of less than 50000, a site of gold per ten
grams only, or one of silver only: their right reading is not in the rows (the
code takes a lone pair for gold). Rupees are whole; the code keeps two decimals.

| Run | Instance | Shows |
|---|---|---|
| `rates` | 24K, 22K and silver, two managers beside the scheduler, two writing transactions, overrides and discounts | one current rate, its newest; no rate buys above its sell rate; every step is one write of `RateBook` or none (`ImplementsBook`) |
| `rates_fetch` | Friday to Sunday, the schedule and a manager, one confirmation, seven answers of the site | no repeated fetch, snapshots read as published, every fetch ends, a published day reaches the banner |

*Fairness.* `FairSpec` assumes weak fairness of `CronFires` (the scheduler fires
while the process runs) and of each fetch's own steps (`Fetching`): both
requests to the site carry `AbortSignal.timeout`, an error or a timeout yields
nulls instead of an exception, and the steps read and insert without waiting for
anybody's lock. Nothing is assumed of the site, the managers, crashes or
restarts. `DayIsCovered` has what it needs of them as its premise: from that
morning on the server runs and the site shows rates of the day. Nothing is
promised of a day whose 11:30 passes while the server is down: there is no
second attempt.

*Bounds.* Two writers and two transactions are one race for one current rate.
Three days, of which one is a Saturday, are a day without a fetch between two
with one. One manual fetch and one confirmation come before, between or after the
scheduled ones.

*Proofs.* `RateProofs` proves `RateInv` inductive from `RateAssumption` and with
it `OneCurrentRate` and `NeverInverted` for any metals, purities, discounts and
writers. The invariant adds that a plan has one row per metal and passed the
comparison, and that the rows a transaction locked are of its own metals: with
the index, then, its insert leaves exactly one current row. `NeverInverted`
rests on lemmas that rounding and scaling are monotone.

`NoRepeatedFetch` follows from `FetchInv`: snapshots are numbered in order, one
row of each number; only one scheduled fetch is under way (`OnlyCron`); and a row
about to be recorded by it does not repeat the newest snapshot (`NothingRepeats`),
although a manual fetch may record one in between, which the numbers then tell
apart. `FetchInv` was checked by TLC on the instance of `rates_fetch`, as
`RateInv` was on that of `rates`.

`HandlersImplementBook` maps the current row of a metal to its price, and
snapshots to offers with the write that consumed them. A commit of `RateBoard`
is one `Reprice` of the metals of its plan: `CommitCurrent` says that by the
index exactly the rows it locked are the current ones, so that each metal goes
from its price to the next in this one step. `PlansNamed` adds which metals a
plan may have (one, all gold, or what a confirmation prices), and that the
snapshot it names was recorded; `OffersFresh`, that a snapshot about to be
recorded is not confirmed yet.

`ReadAsPublishedHolds` rests on one lemma per form of page. The rows of a bare
page are told apart in whatever order they come: sorted, the largest is gold's
(`RoundFrom`), it forms a pair with its ten grams only (`RoundOfPair`) or is
large enough alone (`RoundOfLarge`), and what is left is silver's. `SourceInv`
then carries what was shown along the site's state, an answer in memory and a row
about to be recorded; a confirmation marks a snapshot and keeps its rates.
`FetchEnds` and `DayIsCovered` are liveness and stay with TLC.

## 5. Accounts

`Accounts` models `auth.service.ts`: sign-up, verification and its resending, login,
logout, change, request and reset of a password, and the owner's management of
users and roles. Only `updateUser` and `assignRoles` use a transaction; every
other handler reads the account (`Plan...`), hashes or compares a password, and
writes by id (`Commit...`). Sign-up of an unverified address deletes the account
(`DropAccount`), creates another (`CreateAccount`) and sends a code (`SendCode`),
each for itself. `refresh` writes nothing: the token is not rotated. A number
from one counter stands for each account, code, reset token, password, grant and
login, so that "newer" is a comparison. A login reads the account, compares the
password, generates a token and stores it: the model numbers it when it reads, and
keeps with the stored token that number, the password compared and when the token
was stored. Codes are random in the code and different here;
expiry only refuses requests and is left out.

| Run | Instance | Shows |
|---|---|---|
| `accounts` | the owner's address and another, one password, two roles, two requests, four numbers | `AccountInv`, `VerifiedByItsCode`, `OldSessionsOverlapped`, `OneGrantEach` |

Four numbers are an account, its code, a second account of the address, a login
or a new password, and a grant: enough for a verification to meet the account's
replacement, and a login a change of the password on either side of its store.

`changePassword` clears the refresh token with the comment "invalidate all
sessions" (auth.service.ts:292). It invalidates what was stored until then: a
login that read the account with the old password and stores its token (line 224)
after the change keeps its session. `OldSessionsOverlapped` says that this is the
only way to a session with an earlier password.

*Proofs.* `AccountProofs` proves `AccountInv` inductive for any addresses, roles
and number of requests, and from it the three properties and
`OneAccountPerEmail`. The invariant adds what requests remember: that a
verification in flight has a letter to the account it read, that a login in
flight saw it verified (no account is ever unverified again) and compared the
present password or one that was replaced since, that a code about to be sent is
nobody else's.

## 6. Entry of stock

`StockEntry` models the catalogue and the three ways of entering stock: one
piece, many at once, the rows of a sheet. An SKU is the category's code, a
number drawn from the sequence of the category and metal (an upserted row), and
the karat suffix. For each row `ReadCategory` reads the code, which may be changed
before the entry gets the sequence, and `Draw` raises the sequence and inserts the
item; the raised row stays locked until `CommitEntry`, and so does the category
against deletion. The category operations use no transaction; `deleteCategory`
is `PlanDelete`, `DropSequences`, `DropCategory`.

| Run | Instance | Shows |
|---|---|---|
| `stock_entry` | two categories, two codes, one metal, four sheets, two requests, two entries begun | `NumbersGapless`, `StuckForGood` |

Sheets of two rows of one category or of two, in either order, are what makes
two entries wait for each other (the model lets PostgreSQL abort one: `Abort`).
Four ids are a category, its sequence and two items, or two categories with a
sequence and an item. Two metals with one suffix are not in the instance; the
theorems cover them.

`NumbersGapless` holds because the number is drawn in the transaction that
inserts the item: a rolled back entry gives its numbers back. It makes the
nightly check of sequences (`lastSeq` below the number of items) silent unless an
item was moved to another category.

That no SKU repeats is the unique index and is not listed as a property. What
the index costs is. When `deleteCategory` has dropped the sequences and the
category stays (an item was filed in between) or is made again with the same
code after its items were moved, or when two metals have one suffix, the next
entry draws number 1, whose SKU an item already has. The index refuses the
entry, the transaction takes the raise of the sequence back, and the next entry
draws number 1 again: `StuckForGood` states that the category then refuses every
entry of the metal until somebody gives it another code. Nothing in the code
skips a number that is taken.

The check that a code changes only before the first number races with the first
entry (`ReadCategory` before the change, `Draw` after): the first item then has
the old code and the next ones the new, which "shortCode cannot be changed after
stock has been added" (stock.service.ts:1352) denies. No property forbids it.

*Proofs.* `StockEntryProofs` proves both properties for any catalogue, sheets and number of
entries, from the inductive invariant `EntryInv`: ids are given in order and a
row keeps its category and metal (`IdsGiven`), a category has its id alone
(`CategoryIds`), an entry that raised a sequence is
the only one until it ends (`RaisedByOne`), no two items share an SKU or a
number of one sequence, the uncommitted ones included (`ItemsDiffer`), and the
numbers below a sequence's last are all given, both as committed and as each
entry sees them (`NoGaps`). The last is the point: the committed view of the
sequence and of the items change together.

## 7. Purchasing

`Purchasing` models suppliers, purchase orders and their lines, receipts,
cancellations, imported orders and the numbering of purchased pieces.
`receivePurchaseOrder` reads the order before its transaction (`PlanReceive`),
makes the piece of each line (`StockLine`) and publishes the lot
(`CommitReceive`), writing the status by id: two receipts, or a receipt and a
cancellation, both pass the check. Prices are counted in parts of a paisa
(`Parts`): they are typed with any decimals, a total is added up as typed, in
floating point for an order, and total and prices are rounded to paisa when they
are stored, each by itself (`AddedUp`, `Paisa`).

Two receipts that overlap end in one of two ways. If both count the pieces before
either commits, they draw the same numbers, and the unique index on the SKU lets
the second go on only if the first is rolled back. If the second, which read the
order as PENDING, counts after the first has committed, it draws fresh numbers,
makes a second set of pieces, and writes the lines again: they name the new pieces
and nothing names the old ones. "Each line creates one StockItem"
(purchase.service.ts:168) is false of that. `StockedOnceUnlessOverlapped` states the
hole exactly: whoever received or cancelled an order last had read it before any
piece of it was in stock (`seen`), so that pieces made twice, pieces no line
names and pieces of a cancelled order are always the work of requests that
overlapped. That each line of a RECEIVED order names a piece of its own metal and
no other line's (`ReceivedIsStocked`) holds of all of them.

| Run | Instance | Shows |
|---|---|---|
| `purchasing` | one supplier, two orders of two lines, an imported sheet of one, prices of half a paisa, two requests, four pieces | `TotalNearSum`: a total is the sum of its lines but for half a paisa a line and half a paisa; `StockedOnceUnlessOverlapped`; `NumbersContiguous` |
| `zero_cost` (violation) | one order with a line that has no rate | the piece's cost is a rate of 0, not the rate it entered stock at |

Further deviations, not a property of their own: the entry rate of received
stock is looked up without its metal, so that a silver piece may enter at gold's
rate (`CostIsKnown` fails of that, too); a receipt that races with a
cancellation leaves a RECEIVED order or a CANCELLED one with its pieces in
stock; `deactivateTradeParty` works on the table of suppliers and asks for
pending trades only; an imported order takes an inactive supplier.

*Bounds.* Four pieces are two lines made twice. A second supplier would add
another name to import under; what is stated of orders does not depend on it.

*Proofs.* `PurchaseProofs` proves `TotalNearSum`, `ReceivedIsStocked`,
`StockedOnceUnlessOverlapped` and `NumbersContiguous` for any suppliers, orders,
lines, requests and parts of a paisa, from `PurchaseInv` and
`ReadBeforeStocked`. The second says that a request that read a PENDING order did
so before any of the order's pieces was in stock. `PurchaseInv` adds that a receipt
in flight numbers its pieces on from those in stock (`ReceiptsInOrder`) and that at
most one receipt has pieces it has not committed (`OneReceiptAtWork`). A second one
counts the same rows, draws the same number and waits at the index; it goes on only if the first is rolled back, and
its count then still stands.

## 8. Figures of a bill

`BillFigures` has the arithmetic the sales desk leaves out: weights in gram, tola
and lal, the price of a line with jyala, luxury tax and VAT, the columns cut to
paisa, the discount, and the total rounded up to 100 or 5 rupees. Its only state
is a bill being made up line by line; the run enumerates bills.

| Run | Instance | Shows |
|---|---|---|
| `bill` | all weights of four decimals within 0.0005 of a gram and 0.001 of a tola, of two decimals within 0.05 of a lal; one and two lines; four discounts; lines of exactly 50 and 100 rupees, a paisa off them, and above them by a fraction of a paisa | `TotalIsRoundedUp`, `ColumnsAddUp`, `ShownAsEntered` |

The last kind of line is the boundary the rounding has: at 50.0005 rupees the
columns say 50.00 and the customer is asked for 55, a whole unit more.

*Proofs.* `BillProofs` proves `TotalIsRoundedUp` for any lines, rates, taxes and
discounts, and `ShownAsEntered` for any weight: grams are kept with four
decimals, which is enough to give back a tola's four and a lal's two. The
argument is bounds on rounded quotients, stated as lemmas. `ColumnsAddUp` is
proved from `ColumnsInv` for any number of lines: the sub-total is the running
sum of the priced lines, each stored column is within a paisa of what it was cut
from, and running sums of terms that differ by at most c differ by at most c for
each term (`RunningWithin`).

## 9. Not modelled

- **Customers**: single-row edits and queries. `create` and `update` check a
  phone number before they write it ("Phone uniqueness is enforced on the
  plaintext phone column"), but no index backs the check, and a sale may create
  the same customer: two requests at once may give one number to two customers.
  Nothing else depends on it.
- **Audit log**: rows appended inside the other components' transactions.
- **Export, spreadsheets, formatting**; the reading of sheets before an import.
- **HTTP layer**: its validation bounds the inputs the modules enumerate; what
  the guards ask of an owner is part of `Accounts`.
- **Read-only queries**, but for those named above: the day book, history,
  dashboard counts, and the nightly checks of row counts, foreign keys and gaps
  of bill numbers.
- Within production: `createKarigar`, `updateKarigar` and `createKarigarPayment`
  (a record that nothing reads back), the order of row locks (a deadlock ends in
  `Abort`). The weights of melted items are constants there, so an edit between
  the read of the weights and the issue is not seen.
- Within stock and trade: add-ons, origin links, jerty ranges of categories,
  the trade's amounts and the editing of its parties.
- The bill number is a PostgreSQL sequence, which cannot repeat.
- The agent module is empty.

What is checked by TLC alone: liveness under fairness (`FetchEnds`,
`DayIsCovered`), which the prover does not do, and the two runs that show a
violation. Every other property of every run is a theorem for all values of the
constants; those of `production_serial` and `sales_serial` (but for
`NoInstalmentOverpays`) are theorems about one request at a time, because they
are false of more, and
`LinesMatchStatus` and `ImplementsCustody` are theorems about a shop without
statuses set by hand and trades, or about one request at a time where nothing is
melted that a status set by hand could put back. `ReadAsPublished` is one about
pages of the forms of section 4.

## 10. Plan

1. **Composition**: `ProductionOrders` and `SalesDesk` over one stock, with the
   weights of melted items, disputed pieces and sales of finished ones.
2. **Customers**, with the sale that creates one.
