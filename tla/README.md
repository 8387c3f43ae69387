# KaXiERP in TLA+

KaXiERP is a Django and PostgreSQL back end for a trading and manufacturing
company (`backend/`), with a React client (`frontend/`). This directory holds
TLA+ specifications of its core: what the services promise about stock, credit,
orders, money and messages when requests, workers and operators interleave.
TLC checks small instances; TLAPS proves every safety property the passing runs
check for every value of the constants.

All paths below are relative to `src/backend/src/kaxi/` unless they say otherwise.

## 1. Inventory of the system

### How the program runs

* An HTTP request runs in one thread. Most state changes are service functions
  under `transaction.atomic`, which lock the rows they change with
  `select_for_update()` and check a version or an idempotency key.
* Some requests do **not** lock: the generic CRUD views read a row with
  `get_object()`, validate a serializer against it and later save *every* column
  of the copy. Between the read and the write anything may happen.
* Background work is run by Celery workers (`system/tasks.py`,
  `analytics/tasks.py`), at least once, with a ledger of executions. External
  platforms are served by a queue of events with leases (`integrations/`), and
  services append domain events to an outbox (`shared/outbox*.py`).
* PostgreSQL is the only shared state. It grants row locks, detects deadlocks
  and enforces CHECK and UNIQUE constraints; several services rely on those.

### Components

| Component | State | Operations | What is hard | What makes it correct |
|---|---|---|---|---|
| Stock and reservations (`inventory/services.py`, `reservation_services.py`) | balances, reservations, ledger, counters of order lines | adjust, reserve, release, consume | four tables must agree after partial releases and shipments in any order; repeated keys | counters are sums; nothing is promised twice; the ledger explains the stock |
| Credit (`sales/credit_services.py`) | accounts, commitments | commit, release | concurrent orders of one customer, partial releases | the limit holds; the counter is what is held |
| Sales orders (`sales/`) | orders, lines, history, confirmations, shipments | confirm, cancel, create and move shipments, ship | shipments are validated outside of the transaction that inserts them; retries; cancelling while picking | an order is delivered or withdrawn, never both; a cancelled one holds nothing |
| Row locks | PostgreSQL's lock table | every locking statement of the requests above | statements lock joined rows too; nothing retries a deadlock victim | which requests can wait in a circle, and that all end |
| Transfers and counts (`inventory/operation_services.py`) | transfers, counts, ledger | approve, dispatch, receive; start, submit, post | goods move while they are counted; keys share one name space | goods are at one place; a posted count makes the books right |
| Outbox (`shared/outbox_service.py`) | events | append, claim | rollback, concurrent publishers, crash after a claim | one event per change, in order, to one publisher |
| Integration queue (`integrations/`) | events with leases | enqueue, claim, complete, retry, ignore | late workers, crashes, operators who save stale rows | every event is settled; a success stands |
| Background tasks (`system/task_runtime.py`) | executions | begin, finish, retry | redelivery while the first run goes on | a success is undone only by an overlapping run |
| General ledger (`finance/services.py`) | journals, periods | create, approve, post, reverse, close, reopen, edit | an edit saves a stale copy; closing while posting | periods balance; what is closed stands |
| Receipts, payments, open items (`finance/services.py`) | settlements, items, allocations | allocate, reverse, edit | chains of reversals; counters in two tables | nothing is spent twice or taken back twice |
| Purchasing (`purchasing/`) | requisitions, RFQs, orders, receipts, returns | approve, award, receive, inspect, dispatch a return, edit | a dispatch reads the counters of a line without a lock; edits of RFQs and returns save an old status, and may point an RFQ to another requisition; returns are approved one by one | an approved requisition is put out once and an RFQ makes one order; counters are sums of receipts and inspections; a return leaves once |
| Manufacturing (`manufacturing/`) | BOMs and routings, production orders, issues, completions, suggestions, subcontract orders | activate, issue, complete, convert, send, receive, edit | routings are activated without a lock on each other; standard and loss are recomputed over totals; keys are shared | one version in force; output and losses are sums; the stock is what the documents say |
| Prepack (`prepack/`) | plans, orders, executions, breakdowns | activate, execute, break down | packing and unpacking write ledger rows of the same names | no more unpacked than packed, no more material back than used |
| Serial numbers (`products/serial_services.py`) | pools, serials, attempts, reservations, assignments | generate, produce, reserve, release, assign, ship | the life of a piece crosses documents; a cancelled order leaves its serials | a number is given once; a piece is promised to one line |
| Warehouse tasks (`warehouse/`) | tasks, scans | release, scan, complete, edit | an edit saves an old status over a completion; a task moves a shipment on | goods move once, scans are what was counted |
| After-sales (`aftersales/`) | cases, receipts, refunds | submit, approve, receive, pay, edit, delete | two cases for the same goods; an edited or deleted refund; payments of two companies at once | no more comes back than was delivered; a refund is paid again only when its payment was taken back |
| Workflow (`workflow/`) | instances, tasks | start, decide, transfer | decisions, rejections and transfers lock tasks and instances in different orders | complete approvals; only rejections collide |
| Foreign trade (`trade/`) | shipments, boxes, documents, declarations, settlements, contracts | pack, seal, open, dispatch, generate, issue, edit | edits look at a status nobody locks | what was sealed and sent stands; what is out under a paper's status is what was given out |
| Documents (`documents/`) | files, versions, holds, disposal batches | add, scan, hold, archive, dispose, edit | a hold between approval and disposal; unlocked edits | a hold binds; a batch is executed as a whole |
| Cost accounting (`finance/cost_services.py`) | balances of quantity and amount, records, costs of single pieces | receive, issue, reverse, assign a piece | an average is rounded when it is saved, and what is left of the amount must leave with the last piece | a balance is what its records say; the rounding stays within the last receipt |
| Expenses, assets, payroll, tax (`finance/peripheral_services.py`, `peripheral_api.py`) | claims, payrolls, tax invoices, assets with depreciation | submit, approve, post, pay, depreciate, edit, delete | the journal is read without a lock and may be reversed later; edits save old copies | what was posted stands on a booked journal and was checked by another person than its maker; no asset is written off twice |
| Products, pricing, master data | catalogue, rules, parties | resolve a price, merge parties | precedence of rules; rows that name a merged party | not modelled yet |
| Identity, numbering, imports, branding, analytics, generic CRUD, web client, deployment | – | – | – | not modelled: permission checks, parsing, read-only reports, configuration |

Components interact through shared tables: orders call the stock and the credit
services inside their own transaction and append outbox events; transfers,
counts, purchasing, production, prepack, warehouse tasks and after-sales move the
same balances through `adjust_on_hand`; a warehouse task moves a shipment on, and
a shipment carries serials; money documents require posted journals of the
general ledger.

## 2. The modules

| Module | Models | State and actions |
|---|---|---|
| `Totals` | – | `Total(f, n)`, a sum over the rows 1..n, and `SumOver(f, S)`, a sum over a finite set, written so that TLAPS can use them |
| `Reservations` | `inventory/services.py`, `reservation_services.py` | `balance`, `line`, `reservation`, `issue` and `adjustment` (the two kinds of ledger rows). An action is the batch one transaction moves: `ReserveAll`, `ReleaseAll`, `ConsumeAll`, `AdjustOnHand` |
| `CreditLines` | `sales/credit_services.py` | `committed` per account, `commitment` per order; `CommitCredit`, `ReleaseCredit` |
| `OrderPromise` | the abstract promise of an order | phase of an order, delivered quantity of a line |
| `OrderFulfilment` | `sales/services.py`, `cancellation_services.py`, `fulfillment_services.py`, shipments of `serializers.py` | composes the two modules above; `Confirm`, `Cancel`, `ValidateShipment`, `InsertShipment`, `TransitionShipment`, `Ship`, `Restock`. Implements `OrderPromise` (`KeepsPromise`) |
| `OrderLocking` | the `select_for_update` statements of the same services | a transaction is the list of row locks it takes, in the order of its statements; `Lock`, `Commit`, `Rollback`, `AbortVictim` |
| `StockOperations` | `inventory/operation_services.py` | transfers, counts, the ledger, and the shelf (the goods really there) |
| `Outbox` | `shared/outbox_service.py` | events, ids drawn before the commit, locks of open claims |
| `IntegrationQueue` | `integrations/services.py`, `integrations/api.py` | events with leases, workers, operators' forms |
| `TaskRuntime` | `system/task_runtime.py`, `management_api.py` | executions, the broker's messages, runs |
| `GeneralLedger` | `finance/services.py`, `finance/api.py` | journals, periods, clerks' forms |
| `OpenItems` | `finance/services.py`, `finance/api.py` | settlements, items, allocations, clerks' forms |
| `Costs` | `finance/cost_services.py` | the worth of a balance, cost records, costs of pieces; `ReceiveCost`, `IssueCost`, reversal and assignment |
| `Papers` | `finance/peripheral_services.py`, `peripheral_api.py` | claims, payrolls, tax invoices, assets and their depreciation, the copy an open edit holds; the journals are `GeneralLedger`'s |
| `StockBooks` | `adjust_on_hand` of `inventory/services.py` | the stock and its ledger, with the idempotency keys of its rows, as every module below uses it |
| `Sourcing`, `Purchasing` | `purchasing/services.py`, `extended_api.py` | requisitions and RFQs; orders, lines, receipts, returns. `OpenDispatch` and `CloseDispatch` are the two halves of a return's dispatch, and edits are two actions as well. The edit of an RFQ may name another requisition |
| `Effective` | the activations of `manufacturing/` and `prepack/` | BOMs, routings and plans with the dates they are in force |
| `Production`, `Subcontract`, `Prepack` | `manufacturing/services.py`, `extended_services.py`, `prepack/services.py` | orders with what was issued, completed, sent out, packed and unpacked |
| `Supply` | the five above over one stock | `AwardQuote` joins sourcing and purchasing in one transaction; `plant` names the works that are at work |
| `Serials` | `products/serial_services.py` | pools, serials, attempts, reservations, assignments, and of a shipment and an order line what these services read |
| `WarehouseTasks`, `AfterSales` | `warehouse/`, `aftersales/` | tasks and scans; cases, receipts and refunds. A payment is `BeginPay`, which looks for its number, and `MarkPaid` or `AbortPay` |
| `Delivery` | the three above over one stock | `hall` names the parts that are at work |
| `Approvals` | `workflow/services.py` | instances, tasks, and the transactions that decide and transfer with the rows they hold and wait for |
| `Documents` | `documents/services.py`, `documents/api.py` | files, versions, disposal batches, clerks' edits |
| `Trade` | `trade/services.py`, `trade/api.py` | consignments, boxes, papers, the edit at work |
| `Totals_proofs`, `OrderFulfilment_proofs`, `StockAndLocks_proofs`, `Background_proofs`, `Finance_proofs`, `Supply_proofs`, `Delivery_proofs`, `Office_proofs` | – | the theorems, one module for the components that one run composes; section 4 |
| `MC*` | – | the instances TLC checks; `MCBackground`, `MCFinance` and `MCOffice` put components that share no rows into one run, each behaviour being of one of them |

Conventions.

* One action is one database transaction whose locks cover what it reads and
  writes. Where the code reads without a lock, the read and the write are two
  actions and the copy is a variable (`form`, `loaded`, a shipment with the
  status "validated", the row a background run carries).
* Rows with integer keys are numbered from 1; a column of a table is a function
  on those numbers, and a total is `Total` of a column.
* A service that raises changes nothing: the guard is false. Where the code
  answers a repeated key with the stored result, nothing changes either, and the
  action is disabled.
* History variables (`moved`, `begun`, `awards`, `resent`, `raced`, `given` and
  others, called so where they are declared) record what happened for the
  properties; no guard reads them. Where the code lets an unlocked read break a
  promise, the property states the promise for everything such a read did not
  touch: the history variable says exactly what was touched, and the mutants show
  that nothing else is excused.
* The outbox admits one event of a kind per aggregate and version
  (`shared/outbox.py:36-39`). An edit that saves an old row saves its version too, so
  that a step taken again fails with its event and is rolled back. Where a property
  rests on this the table is part of the model (`awardEvents`, `returnEvents`,
  `backEvents`, `refundEvents`) and of the guards; elsewhere the guard is left out
  and the model has more behaviours than the code.
* Definitions named `X_Fault` are plausible faults of `X`. No specification uses
  them; a property is only kept if replacing `X` by such a fault violates it.

Abstractions worth knowing.

* Quantities and amounts are small integers; the code's decimals are exact, but for
  the average of `Costs`: amounts there are in the smallest unit a column keeps,
  and the average is rounded half up when PostgreSQL saves it (`Rounded`).
* `Costs` leaves out repeated keys: both services answer them with the stored
  record, or the unique key rolls the later request back.
* `Reservations`: `locked_qty` is a constant of a balance, since no code in
  these services changes it. In `OrderFulfilment` the ledger keys of shipments
  and of adjustments never collide: what happens when clients make them collide
  is `StockOperations`' question (run `transfer_keys`).
* `CreditLines` takes the moment a temporary limit counts as an input, as the
  code does (`CreditInput.at` is the client's).
* `OrderFulfilment`: drafts exist from the start; the credit of a completed order
  stays committed because no code releases or converts it.
* `OrderLocking` reads the locks off the statements: without `of=`,
  `select_for_update().select_related(...)` locks the joined rows as well, so
  nearly every request also holds its company row. Shared locks taken by foreign
  keys are left out.
* `Outbox`: publishing is not in the code; a publisher that was handed an event
  is one that holds it.

## 3. What TLC checks

| Run | Instance | Shows |
|---|---|---|
| `order_fulfilment` | two orders on one account, three lines, two balances (one with a locked unit), two reservation numbers, two shipments, one adjustment, four requests, two keys: 30 thousand states | the books of stock and of credit are sound, and stock is never promised twice (`StockIsSound`, `CreditIsSound`); a cancelled order holds nothing, exactly the delivered orders are completed, "allocated" is the truth (`StatusTellsLines`); a retry confirms once, and `OrderPromise` is implemented |
| `order_locking` | six requests on three orders and two balances: 55 thousand states | requests that wait in a circle are a confirmation or a cancellation and the warehouse on the same order, or have a stock adjustment among them (`CirclesAreKnown`); all end (`AllEnd`) |
| `background` | outbox: two aggregates, three ids, two publishers, batches of two, one crash; queue: two events, two workers, one operator, two attempts, one crash or late worker; tasks: an export and a task of two minutes, two workers, two crashes, redeliveries or retries; together 86 thousand states | an event per committed change, in order (`EventsTellHistory`), with one publisher (`HandedOnce`), and claimed (`EventsAreClaimed`); an event of the queue is with two workers only after trouble, a success is undone only by an operator, every event is settled; a success of a task is overwritten only by a run that began before it, and a lost export is taken up again |
| `stock_operations` | a transfer of two lines and one that never matches, two counts, two moves of sales, keys that one operation may share with another: 199 thousand states | the books are what the ledger says, whatever keys clients choose; where no key served two documents, goods are once on the books, on a transfer, sold or written off (`GoodsAreBooked`); a count makes the books right wherever nothing moved, or its key had served before (`CountsAreExact`) |
| `finance` | three vouchers, two periods, three accounts, one bookkeeper; two receipts and a payment, three items, six allocations; two cost balances, five records, one piece; one claim, payroll, invoice and asset, each beside two approved journals, with two people and one edit: 469 thousand states up to symmetry of the vouchers | entries balance and a reversal cancels one journal once (`LedgerIsSound`), closed statements and booked journals stand (`BooksStand`); counters are sums and nothing is taken back twice (`CountersAreSound`), nothing is overpaid; a cost balance is what its records say (`CostsAreExplained`); papers stand on booked journals (`PapersAreBacked`) |
| `supply` | two orders (one made by an award), two RFQs and three quotes of one requisition, two receipts, two returns of one line; three BOMs, three routings, two plans; two production orders of two pieces and two materials, one suggestion; one subcontract and one prepack order; two edits: 196 thousand states | a line counts its receipts and inspections and the order's status tells them; a return leaves once, also when an edit put it back, and a line counts no more returns than left, and no fewer unless two dispatches overlapped; an approved requisition is put out once and an RFQ makes one order, whatever edits point it to, and a suggestion is converted as often as it was offered (`NeedsAreCounted`); one version is in force; output, use and loss are the sums of the completions; no more is unpacked than packed; the stock of all balances is what the documents of all five modules say |
| `delivery` | two pools of one label, a line of two numbered pieces and one of ordinary goods, three shipments, a task of each type, two cases for the same goods and a draft of another company, two refunds: 662 thousand states up to symmetry of two client keys, the provider's numbers and the refunds | pools count what they gave out; a piece has one owner from its reservation to its delivery and the line counts it; tasks move goods once; no more comes back than was delivered; a refund is paid once for each payment that was not taken back, and a company pays one refund under a number (`PaidOnce`) |
| `office` | an instance of two nodes (all of two, any of a role) with two requests at a time and one that leaves; two files, two batches, two clerks; two consignments, two boxes, a paper of each kind: 627 thousand states | approvals are complete and an open instance has work; only rejections wait in a circle; a disposal is whole and a hold binds; a box leaves as it was sealed; the text of a paper that is out is one that was given out, and keeps to it unless a stale edit covered it (`PapersStand`; contracts are left out, section 6) |
| `pending_shipments`, `outbox_leases`, `transfer_keys`, `lost_allocations` | small instances of the same modules | disagreements, section 6 |

Why the bounds are enough. Every property relates a bounded number of actors: two
orders that compete for one balance and one account, two claims of one row, two
counts of one balance, two returns of one line, two approvals of one node, a form
and one change under it. Every action fires in its run, and every property is
violated within it when a fault is planted in the code it is about. In `supply` and
`delivery` the parts that meet are at work together (a plant or a hall names two at
most): production and its suggestions share orders, packing and subcontracting share
client keys and a balance, tasks share shipments with reservations, cases share them
with refunds; parts that share only the arithmetic of `adjust_on_hand` are not
interleaved. What depends on the number of rows is not left to the bounds: every
invariant and action property of the passing runs is proved for any number of them
(section 4).

Deadlock is not checked: every model may stop when its requests are used up
(bounded keys, attempts, edits), and the real system may be idle.

### Fairness

* `OrderLocking`: weak fairness of granting a free lock, of committing once all
  locks are held (a request's code goes on), and of PostgreSQL's deadlock
  detector. No fairness of `Rollback`.
* `Outbox`: weak fairness of each publisher's claim and of its commit: a
  publisher is a loop. Leases expire because time passes. No fairness of
  appending or of crashes.
* `IntegrationQueue`: weak fairness of claiming, of reporting, and of the passing
  of leases and back-off times. Crashes, late
  workers and operators' requests are bounded by `MaxTrouble` and `MaxForms`:
  without a bound, workers that always die settle nothing.
* `TaskRuntime`: weak fairness of a running task's end and of taking each kind of
  message that waits.
* `MCBackground` states the same for each of the three, in the behaviours that are
  its own.

The other modules have safety properties only, and no fairness.

## 4. What is proved

TLAPS proves, for any number of rows, any quantities and any constants that
satisfy the named assumptions of the modules, every invariant and every action
property of the passing runs; the liveness properties stay with TLC. A theorem that states
a property `P` of a run is of the form `Spec => []P` (or `Spec => P` for an action
property). Hardly any `P` is inductive: each proof goes through a stronger
invariant, shown to hold at the start, to be kept by every action, and to imply
`P`. What follows is that invariant and the reason it is needed.

**Orders, stock and credit** (`OrderFulfilment_proofs`).

* `RInv`, of the reservations: the type invariant, `RowsConsistent`,
  `ReservedIsHeld`, `LineIsHeld`, `NeverOversold`, `ConsumedIsIssued` and
  `LedgerExplainsStock`. None is inductive alone: that the counters stay in step
  needs the consistency of the rows (a release of more than remains would be
  counted differently), and `NeverOversold` after a shipment needs that what
  leaves was reserved on that balance. The key lemma is `CountersStayInStep`: if a
  step changes the held column by some column and the counters by its totals, they
  stay equal. `LedgerAppendOnly` follows from the same invariant.
* `CInv`, of the credit: type, consistency, the counter and the limit.
  `LimitHolds` needs the counter: the code compares the *counter* with the limit,
  the property speaks of the *commitments*; and that what is held without an
  approval is part of what is held (`UnapprovedIsPart`).
* The order itself, in three layers. `TInv`: the books of both, the types, and
  `InBatches` (a reservation is no larger than a batch); each order action is shown
  to move the stock and the credit by one of their batches. `LInv` adds what a
  status says of the lines (`Life`), that a line never takes more than was ordered
  (`LinesFit`), that only a used reservation is consumed, and `Asked`: a shipment
  asks for something, of its own order's rows. `Asked` is what makes shipping a
  draft, a cancelled or a completed order impossible without a guard that says so:
  nothing of its rows remains. A step concerns one order; `SameLife` carries the
  claims of all others over it. `HInv` adds `Story`: a history begins at draft and
  never returns there, and the confirmation with the order's number tells its
  first row.
* The refinement `OSpec => KeepsPromise` (`PromiseIsKept`) has one lemma for each
  action: a confirmation accepts, a cancellation withdraws, a shipment delivers,
  everything else is a stutter.

**Transfers and counts** (`StockAndLocks_proofs`). Clients choose the keys, and the
services do not compare those of different operations: no theorem assumes that they
are apart. `GoodsAreBooked` says for all keys that the ledger has what documents
asked for, one row for a key and line (`LedgerTells`), and that the books are what
the ledger makes of them (`BooksFollowLedger`); that goods are once somewhere
(`GoodsAreOnce`) it says of the states in which no two lines of documents use a key
together (`KeysServeOnce`), a condition on what happened and not on the constants.
The run `transfer_keys` shows what becomes of the goods in the other states.
`OperationsInv` adds `CountsHold` (what a count froze stays true of the balances
that did not move), which `CountsAreExact` needs.

**Row locks** (`StockAndLocks_proofs`). `LocksInv` says that a row has one holder
(`OneHolder`), which a step keeps because a lock is granted only when nobody waits
for it. The rest is about the plans. Each is a concatenation of the lists of its
statements, and an order request starts with its header, whose second row is the
company (or, for the warehouse, the shipment first and the order third). A request
in a circle holds a row that another waits for, so it is past its first lock. When
no adjustment is among them, one of them is past its second, since nobody waits for
the company as long as all hold only the first row of their plans. It holds the
company, so every other one holds its first row only; the row that the holder of
the company waits for is therefore an order, held by a request on that order, and
the plan of an order request asks for no other order: the holder is the warehouse,
at work on a shipment of it. What a list of `FlattenSeq` contains is a lemma about
its definition as a recursive function, instantiated for the lists of the plans.

**Background work** (`Background_proofs`).

* Outbox: `HandedOnce` is not inductive: an open claim must hold pending rows only
  and a publisher's rows be processing (`ClaimsAreApart`), and a commit would turn
  such a row back to pending if the ids of open transactions were not fresh
  (`FreshIds`). `EventsTellHistory` needs that the one open transaction of an
  aggregate drew its id after the events already there.
* Queue (`QueueInv`): the rows of an open claim stay claimable, and on a day without
  trouble (`Undisturbed`) a worker has exactly the rows in process under its name,
  none of them with an expired lease. Only then can no second worker claim them.
* Tasks (`TaskInv`): a run never carries more attempts than its task was started.

**Finance** (`Finance_proofs`).

* Open items (`OInv`): `NothingTakenBackTwice` needs `NetIsLive`: what the rows of a
  pair add up to is the sum of its live rows, the positive ones that no reversal
  answers. A reversal takes one live row away or, when it reverses a reversal, is a
  new one. A sum of positive amounts is not negative.
* Ledger (`LedgerInv`): a reversal is itself a booked journal with the negated lines
  of a journal marked as reversed, two reversals never share a journal, and what an
  open form of a journal holds is an older state of it. The same lemmas show that
  the papers' edits of journals keep it.
* Papers (`PapersInv` over `LedgerInv`): what a row, an entry and an asset say that
  no edit moved, and the types of the copies that open edits hold.
* Costs (`CostsInv`): a balance is explained by two totals over the records, the
  quantities since the beginning and the amounts since the record at which it was
  last empty, and the drift of its average by the record it was last rounded at.

**Purchasing, production, prepack** (`Supply_proofs`): `EInv` (versions in force,
and what an open edit holds), `ProductionInv`, `SourcingInv` with `SuggestionsInv`,
`PrepackInv`, `OrdersInv` and `ReturnsInv`. They add to the properties that tables
keyed by client keys are finite, that a dispatch is under way of an approved return
only, or of one whose event is written already (`UnderWay`), that a return that left
has its event (`Announced`), that an RFQ is issued at most once on a requisition,
and that a row that was not made, or a receipt that was not completed, counts for
nothing.

Over these, `StockInv` adds up the whole of supply, for `StockFollowsWork`.

* `Books`: every key in the ledger is *told* by a document (`Told`): the key of an
  inspection's row by a completed inspection, that of a return by a dispatch, those
  of materials by an issue, a sending, a pack or an unpack. Told keys stay told,
  since no step takes a document back (`Grown`).
* `Explained`: in a *calm* history the stock is what the documents say (`Said`, the
  opening stock and five totals over documents). Calm is what `StockFollowsWork`
  asks, without its cardinalities: no outside order was put back by
  an edit, and no client's key was used for two documents whose rows have the same
  names (`OneUse`). A calm state had a calm state before it, so that the claim is
  inductive although calm may end.
* `SubInv`: an order of work outside only moves forward while calm, so that its
  materials are sent, and its receipt is booked, at most once; an open edit is
  behind its order, or has the same result.

A step that books has one lemma (`InspectBooks`, `CloseBooks`, `IssueBooks`,
`CompleteBooks`, `SendBooks`, `ReceiveBooks`, `ExecuteBooks`, `BreakBooks`). Each
shows three facts of its rows: what they move on a balance is the change of `Said`,
their keys are told afterwards, and in a calm history they were not told before.
The ledger admits a key once, so from the last fact all rows are booked, none is
passed over, and `Closes` moves both sides of the equation by the same amount. It
is here that the hypothesis is needed: a key that was told books nothing, while the
document counts.

**Serials, warehouse tasks, after-sales** (`Delivery_proofs`): `RowsInv`, `PoolsInv`
(a good piece passed one attempt, and a pool numbers below its next number),
`PiecesInv` (a reservation that was not released owns its piece alone, an
assignment is of the piece its reservation owns, so that a shipment consumes as
many reservations as it has pieces), `TasksInv`, `BooksInv` and `ReturnsInv` (every
ledger row is of a task or a receipt, which makes what tasks put away and receipts
brought two totals of one ledger), and `PaidInv` (what was paid
out is settled or was taken back, an open copy of a paid refund tells its payment or
one that was taken back, and a payment under way is alone in its company, so that no
payment of that company has the number it found free).

**Workflow, documents, trade** (`Office_proofs`).

* `ApprovalsInv`: what a task says as far as its instance has come, that one task
  is live where one approval is enough, that an open instance has work and what is
  behind it is approved; and of the transactions what they know past their second
  lock. A rejection holds every open task or still waits for it, an approval knows
  whether another task of its node is open, and one transaction at a time is past
  the lock of an instance. `OnlyRejectionsCollide` follows from the same.
* `DocumentsInv`: a batch that is not executed has disposed of nothing, and a file
  nobody saved late tells its versions and its disposal.
* `TradeInv`: the contents of boxes are counted without those an edit moved, so that
  such a box leaves no more room than it took; what a paper says while it
  is out was given out, and a paper no stale edit touched says what was given.

**Totals** (`Totals_proofs`): the theory of `Total` and `SumOver`: a step, a type,
additivity, monotonicity, the change of one point, disjoint unions, images, and
that the totals of the classes of a set are its total (`SumByClass`). It rests on
the induction over naturals and finite sets as sets.

Assumptions. `RowsAssumption`, `StockAssumption`, `CreditAssumption`,
`OrderAssumption`, `OrderLockingAssumption`, `StockOperationsAssumption`,
`OutboxAssumption`, `QueueAssumption`, `TaskAssumption`, `LedgerAssumption`,
`OpenItemAssumption`, `CostAssumption`, `PaperAssumption`, `StockBooksAssumption`,
`SourcingAssumption`, `PurchasingAssumption`, `EffectiveAssumption`,
`ProductionAssumption`, `SubcontractAssumption`, `PrepackAssumption`,
`SupplyAssumption`, `SerialsAssumption`, `TasksAssumption`, `AfterSalesAssumption`,
`DeliveryAssumption`, `ApprovalsAssumption`, `DocumentsAssumption`,
`TradeAssumption` and `NoBoxAssumption`, stated in the modules and evaluated in
every run: constants are functions of their types and tables are finite where
something is counted, bounds are naturals, names of different kinds differ, opening
stock covers what is locked, an order has a line and a line a positive quantity, and
the versions in force at the start do not overlap.

Theorems that state a property of a run:

| Module | Theorem: property |
|---|---|
| `OrderFulfilment_proofs` | `StockSound`, `OrdersKeepStock`: `StockIsSound`; `CreditSound`, `OrdersKeepCredit`: `CreditIsSound`; `StatusTold`: `StatusTellsLines`; `OrdersConfirmedOnce`: `ConfirmedOnce`; `PromiseIsKept`: `KeepsPromise` |
| `StockAndLocks_proofs` | `GoodsAreBookedAlways`, `CountsAreExactAlways`, `CirclesAreKnownAlways` |
| `Background_proofs` | `PublishersApart`: `HandedOnce`; `HistoryTold`: `EventsTellHistory`; `WorkedOnOnceAlways`; `SuccessStands`: `OnlyFormsUndoSuccess`; `SuccessOutlives`: `SuccessOutlivesItsRuns` |
| `Finance_proofs` | `CountersSound`: `CountersAreSound`; `NothingOverpaid`: `NeverOverpaid`; `LedgerIsSoundAlways`; `LedgerStands`: `BooksStand`; `PapersAreBackedAlways`; `CostsAreExplainedAlways` |
| `Supply_proofs` | `VersionsApart`: `OneInForce`; `OutputIsCountedAlways`, `NeedsAreCountedAlways`, `PacksAreCountedAlways`, `LinesAreCountedAlways`, `ReturnsAreCountedAlways`, `StockFollowsWorkAlways` |
| `Delivery_proofs` | `PoolsAreCountedAlways`, `PiecesHaveOneOwnerAlways`, `TasksAreDoneOnceAlways`, `ReturnsAreReceivedAlways`, `PaidOnceAlways` |
| `Office_proofs` | `ApprovalsAreCompleteAlways`, `OnlyRejectionsCollideAlways`, `DisposalsAreWholeAlways`, `SentBoxesStandAlways`, `PapersStandAlways` |

A theorem is about the specification of the component or composition that has the
property (`RSpec`, `LedgerSpec`, `SupplySpec` and so on), not about the `MC` module.
`MCBackground`, `MCFinance` and `MCOffice` only choose one of these specifications
for a behaviour.

Only model-checked: liveness (`AllEnd`, `EventsAreClaimed`, `EventsAreSettled`,
`ExportsAreRecovered`), since fairness and ENABLED are beyond the prover.

## 5. What is not modelled, and why

* Reads, reports, formatting, permissions and parsing change no state the
  properties are about.
* The validation of single fields by serializers is the set of inputs a model
  enumerates.
* Pricing, numbering, targets and the merge of master data are listed in
  `PROJECT.json` with the status `not_modelled`.
* Finance: dates, categories, currencies and descriptions; the reports of
  `finance/services.py`; the creation of receipts, payments and open items.
* Trade: costs (their transition locks the nullable side of an outer join, which
  PostgreSQL refuses, so that it always fails), claims, deletions, overseas
  warehouses and serial numbers in boxes. `PackedFits` over two shipments at once
  is not a property: `pack_items` locks the order line (`trade/services.py:88-92`) but
  sums what is packed of it in the boxes of its own shipment (`trade/services.py:95-98`),
  so that two shipments may together pack more than was ordered.
* Documents: shares, and what a scan found. No code calls `consume_share` or
  `set_scan_result`; the model has the latter, for the version it makes current.
* Purchasing: supplier ratings; requests and replies of an RFQ are constants. A
  dispatch names its ledger rows `<key>:line:<primary key of the return's line>`
  (`purchasing/services.py:556`), an issue `<key>:line:<line number>`
  (`manufacturing/services.py:199`). The model keeps the two apart: that a client
  uses one key for both, and a primary key is one of those numbers, is left out.
* Manufacturing: reports of operations. `report_operation` locks the operation with
  its order and the order's routing (`manufacturing/extended_services.py:60-64`), which
  may be null (`manufacturing/models.py:103`): PostgreSQL refuses `FOR UPDATE` on the
  nullable side of an outer join, so that the request always fails.
* Serials: printing, and lots, which are attributes of a balance.
* Workflow: the text of a definition; a definition is a constant sequence of nodes.
* Database constraints are part of the guards where a service relies on them.

## 6. Where code and documents disagree

Four runs show a disagreement (the quotations are in `PROJECT.json`):

* `pending_shipments`: two shipments that are validated before either is inserted
  together ask for more of a reservation than remains; so does a shipment of an
  order that is then cancelled. Shipping still refuses (`ConsumeAll`), so the
  stock is safe: what is lost is the work of the warehouse.
* `outbox_leases`: an event whose publisher died after the claim keeps the status
  PROCESSING and is never claimed again, although its lease is stored.
* `transfer_keys`: a receipt under the idempotency key of its dispatch finds the
  dispatch's ledger rows, books nothing and completes the transfer.
* `lost_allocations`: an edit of a settlement or an item saves the counter it read
  before an allocation, and the money can be allocated again.

Seen while modelling, with no run of their own:

* A confirmation or cancellation and a shipment of one order, or a stock adjustment and a
  shipment from one balance, lock the same rows in opposite orders
  (`CirclesAreKnown` shows these are the only circles of the modelled requests).
* An order that was shipped in part can never drop its rest
  (`sales/cancellation_services.py:21`).
* A worker that keeps dying makes `claim_events` attempt an event more often than
  `max_attempts`; only `complete_event` compares the two.
* The operators' retry and ignore requests save a stale event over a worker's
  report (`integrations/api.py:158`).
* Of two overlapping runs of a background task, the one that ends last saves its
  row over a success or a dead letter (`system/task_runtime.py:60`); an
  operator's retry of an export is sent without its argument and never runs
  (`system/management_api.py:180`).
* Two returns of one order line that are dispatched at once lose one of the two in
  `returned_qty`; a return of accepted goods is approved against `accepted_qty`
  and can then never leave, because the table allows `returned_qty` only up to
  `rejected_qty` (`purchasing/services.py:523,564`, `purchasing/models.py:95`).
* Edits save an old status over an award, a conversion, a dispatch, a completion or
  a payment (`purchasing/extended_api.py:86,132`,
  `manufacturing/extended_api.py:122,138`, `warehouse/task_api.py:93`,
  `aftersales/api.py:116`). A production suggestion and a warehouse task can be used
  again after them; an outside order sends its materials again. An RFQ, a return and
  a receipt of an outside order cannot: the edit saves the old version as well, and
  the outbox refuses the same event a second time.
* An RFQ can be pointed to another requisition at any time, by an edit nobody else
  is in the way of (`purchasing/extended_serializers.py:62-68`). `award_quote` looks
  neither at the requisition's status nor at what was ordered of it
  (`purchasing/services.py:431-502`): an RFQ that was issued on one requisition can
  order another one that was already ordered, or was never approved, and
  `ordered_qty` keeps the last quantity only. What holds is `NeedsAreCounted`.
  Quotes can be moved to another RFQ or supplier in the same way.
* An approved contract can be edited (`trade/api.py:72-88`): `PapersStand` is about
  documents, declarations and settlements.
* The second refund of a case cannot be approved, or paid, while the case keeps its
  status: the events of refunds carry the case's version, which they do not change
  (`aftersales/services.py:32-40,190-221`). A case with such a refund cannot be completed.
* Payments of refunds of two companies that overlap can be given the same number of the
  payment provider: the search for it is over all refunds, and only those of one
  company wait for each other (`aftersales/services.py:190-202`). An edit can also give a
  refund to another case (`aftersales/serializers.py:20-24`).
* Two routings of one product can be activated at once
  (`manufacturing/extended_services.py:33-43`).
* A client key that is used for packing and for unpacking books the material once
  (`prepack/services.py:214,367`).
* A subcontract order of which less came back than was ordered cannot be completed
  (`manufacturing/extended_services.py:259-263`).
* Cancelling an order leaves the reservations of its serials
  (`sales/cancellation_services.py:26`).
* The scan of a pick compares the number of scans with the plan and not the pieces
  with each other (`warehouse/task_services.py:137`).
* A rejection cancels the other tasks of an instance while it holds the instance,
  and an approver of one of them holds the task and waits for the instance:
  PostgreSQL ends one of the two (`workflow/services.py:158`). An applicant who is
  an approver of a node that needs all must transfer the task
  (`workflow/services.py:144`).
* A stale edit of a file takes a legal hold away, and the file can then be
  destroyed (`documents/api.py:238-248`; the message at `documents/services.py:190`
  and `docs/baseline/00`, line 577, exclude it).
* A stale edit of a trade document covers a text that was generated or issued
  (`trade/api.py:268`; its message excludes it).
* Journals can be created in a closed period, where nothing can post them; an
  edit can put the status of a journal or a period back
  (`finance/serializers.py:49,77`, `finance/api.py:94`).
* Reversing a cost record appends its counterpart and leaves the balance as it was
  (`finance/cost_services.py:181-205`).
* An edit can put the status of a claim back, or change the claimant after the
  approval and the journal after the posting; a deleted paper that is saved by an
  edit is inserted again; a paper stays posted when its journal is reversed
  (`finance/peripheral_api.py`, `finance/api.py:94`).

## 7. Plan

The order is by what is most important to the system.

1. *Done*: the books of stock, credit and orders, their locks, transfers and
   counts, the three queues, the ledger and the open items; proofs of the three
   books, of the order's invariants and of its promise.
2. *Done*: purchasing, manufacturing and prepack over one stock; serials,
   warehouse tasks and after-sales over one stock; workflow, documents and foreign
   trade.
3. *Done*: costs, and the papers that stand on journals, in the run `finance`;
   proofs of the outbox's history and of what is in force.
4. *Pricing and numbering*: precedence of rules as an operator against a reference
   definition; numbers under a row lock.
5. *Done*: proofs of the invariants of the ledger, papers, costs, purchasing,
   production, prepack, serials, warehouse tasks, after-sales, workflow, documents,
   trade, the queue, the tasks, transfers and counts.
6. *Done*: that the circles of `OrderLocking` are the known ones for any number of
   requests and orders, and that the stock follows the documents of all supply.

One run composes a group of components where it can, so that a new component adds
a handful of properties and not a run for each question.
