# A TLA+ model of Banco

Banco (`src/src`) is the server of a shop: one FastAPI process that talks to one
PostgreSQL database through asyncio SQLAlchemy sessions, the browser pages of the
till that call it, and a small compute broker (RabbitMQ, one consumer process) that
lives beside it. Around the till it grew desks of other trades: payroll, a print shop,
a camper workshop. This directory holds TLA+ modules translated from its code, the
TLC configurations that check them, and TLAPS proofs about them. `PROJECT.json` is
the index: which definition models which lines, which run checks which properties,
which hazard is covered by which property.

Paths below are relative to the repository; the application is its `src/` directory,
so the point-of-sale router is written `src/src/routes/pos_router.py`
in `PROJECT.json`, and just `pos_router.py` here.

## 1. Inventory

### What everything shares

* Every HTTP handler is one asyncio task on one database session. PostgreSQL runs at
  READ COMMITTED, sessions are `autoflush=False, expire_on_commit=False`
  (`db/database.py:68`). A SELECT sees what is committed at that moment; everything the
  handler writes becomes visible in one commit. No path asks for
  a row lock (`FOR UPDATE`). So an interleaving point is an `await` that touches the
  database, and a value computed from a read is a *stale write* when somebody else
  committed in between.
* The ORM's UPDATE names only the columns that differ from the loaded row. Two
  handlers on one row therefore mix column by column, and a handler that sets a column
  to the value it had loaded writes nothing there. Module `Rows` says this once
  (`Flushed`); the desks' modules use it.
* The only arbiters are unique indexes (`transactions.transaction_number`,
  `transactions.client_uuid`, `products.barcode`, `product_barcodes.barcode`,
  `payments.intent_id`, the columns of `users`).

### The till and the compute broker

| component | state | operations | hard behaviour | what makes it correct |
|---|---|---|---|---|
| Atomic sale, receipt numbers (`pos_router.py` `create_sale`, `create_transaction`; `templates/pos/checkout.html`, `scan.html`) | `transactions` rows, key in `sessionStorage` | one POST rings a whole sale; number = count of today + 1; unique indexes arbitrate; the page retries with its key | stale counts, retries racing the first handler, lost answers, restarts, midnight | a basket is charged once; a day's numbers have no gap and no duplicate; an answer is the basket's own sale |
| Card terminal (`_capture_terminal_sim`, `payments/`) | `payments` rows; what the terminal took | the rows of a sale are flushed, the terminal charged, all committed | money is taken before anything is committed; a second handler of the basket; a decline, a timeout, a restart in between | the terminal takes the money of a basket once, and the sale and its payment say so |
| Legacy three-step sale, age gate (`create_transaction`, `add_item`, `checkout`, cart reaper; `age_check_event`) | an open cart, its lines, the member, the record of refusals | open, add items, pay, reap empty ones | a cart edited while it is paid or reaped; a refusal must leave its record although the sale is rolled back | the cart is charged what its lines cost, is sold with a ground for every adult product, is reaped empty |
| Pricing (`services/pricing.py`, `vat_resolver.py`, `total_rounding.py`, and again in `base.html`, `scan.html`, `checkout.html`) | the basket of the page | scan, treat, discounts in three lanes, target total, ring | two programs, one in floats and one in decimals, must come to the same price | what is shown is charged; deals, discounts, VAT and coins add up |
| Reports (`get_daily_summary`, its CSV, `get_product_sales`, drill-downs) | none: reads of sales and refunds | – | a refund rewrites the row of a past day; each figure is computed from other columns | the sheet of a day states what was kept of its sales, the same in every breakdown |
| Kiosk held orders (`kiosk_carts`) | status, member | upsert, claim by hand, ring out, claim inside a sale | the status is read long before the commit that claims it; the page's code outlives the basket | one claim per order; the claiming sale is the order's |
| Loyalty (`customer_router.py`, and earning in a sale) | `credits_balance`, `welcome_discount_used`, ledger rows | enrol with a referrer, edit the profile, adjust, earn, spend the welcome discount | read–compute–write of a balance by several handlers, of a row somebody else's enrolment also writes | balance explained by the ledger; the discount given once |
| Cash box (`shift/open`, `/paid`, `/close`, `/force-close`, `services/cash_shift_service.py`) | `cash_shifts`, `cash_movements` | open blind-counted, paid-in/out, reconcile, forced close; sales and refunds move the money | two people at once; a sale between gate and time stamp; totals from stale rows; a close summing by time stamps | at most one open box, every cash sale inside one box, the closing equation, "verified" means counted, tomorrow's opening refers to what was counted |
| Shift sessions (`pos_router.py`, "SHIFT SESSION WIZARD") | `shift_sessions` | start, end, force, hand over | "no active session" is a check before the insert; queries raise on a second one | nobody is on shift twice |
| Barcodes (`products.barcode`, `product_barcodes`) | primary code and aliases | create, bind, promote, rewrite, merge, deactivate, delete, import | uniqueness across two tables rests on handlers that look at one of them | a code that scans goes on scanning |
| Receiving (`receive_stock`) | `stock_quantity`, movements | a batch of lines | read–increase–write line by line | stock is what the movements say |
| Feedback tickets (`pos_router.py`, `backlog_router.py`, `feedback_triage.py`) | items, activities | file, triage by a model in batches, merge, note, close, dispute, reopen | seconds of thinking between selection and mark; merges | a ticket is triaged once for every reason it gave |
| Logins (`hr_router.py`, `_resolve_cashier_uid`, `artemis_user_seeding.py`) | `users`, `employees`, Keycloak accounts, the sales that hang on a row | first sale, link, heal, provision, unlink, seed | a person is known by a name, a sub and a row id, each under its own unique index | what a person sold is on one row; a login acts for the employee it is linked to |
| Fair brain slots (`compute/fairness.py`) | running, waiting per user | `slot()` | a cap that changes with every arrival and departure | capacity, no lost wakeup, caps converge, nobody starves |
| Compute jobs (`routes/compute_router.py`, `compute/runner.py`, `consumer.py`, `queue.py`) | `compute_jobs` row, message, ledger rows | submit, publish, deliver, execute, poll the kill flag, settle; pull and post for remote workers | at-least-once delivery, crashes between sessions, a reconnect that leaves two tasks on one job, repeated posts | charged once, charged iff done, killed early is free, a published job ends |
| Compute credit ledger, feedback rewards (`services/compute_service.py`, `compute_router.py`, `bottega_router.py`, `pos_router.py`, `backlog_router.py`) | append-only ledger rows, numbered backlog items | starter grant, transfer, recipe paid to the house, job settled after the fact, grant by an admin, feedback rewarded up to a daily cap | an account without rows counted twice, a balance read before it is spent, a cap counted before the item is filed, a number drawn as maximum plus one | credits are conserved, debt and grants bounded by what is in flight, the cap on rewards holds, the board's numbers have no gap |

### The other desks

| component | state | operations | hard behaviour | what makes it correct |
|---|---|---|---|---|
| Payroll (`hr_router.py`, `services/payroll_service.py`) | `time_entries`, `payroll_runs`, `payslips` | write, submit, approve or reject entries; create, calculate, approve, pay a run | one commit per employee, an error skips one, a run is calculated again | what is paid is what was signed, each entry on one payslip |
| Print shop (`isotto_router.py`) | orders, invoices, the customer's statistics | quote to completion, invoice, deposit, payments | a deposit changed after a payment | an invoice never asks for less than is missing |
| Its stock (`isotto_catalog_router.py`) | `isotto_catalog_stock`, items, purchase orders | count, receive, order, generate an order from what is short | lines received twice or never; an item waiting for what nobody ordered | stock is what was counted and received; who waits is covered |
| Camper workshop (`camper_router.py`) | service jobs, quotations, purchase orders, work log | bays, hours, deposits, quotations, parts, invoice | several quotations and orders of one job; sums read and written | the deposit is the one agreed to; `parts_on_order` ends with the last pending order |
| Its calendar (`camper_router.py`) | resource bookings, appointments | book, move, use, cancel | free by a check before the insert | no day and no slot has two takers |

### How they interact

The cash gate ties the sale to the box: `create_sale` and `checkout` both ask `_open_till`
before they take their time stamp, and `CashBox` has the sale's gate, stamp and commit as actions
of its own. The two ways to sell share the space of numbers (`SaleRing`) and the member's row
(`SaleRing`, `Cart`). The page and the server meet in `Counter`, which is one state machine of
both. The terminal sits between the flush and the commit of a sale (`Terminal`). Every sale hangs
on a row of `users` (`Logins`); every report reads the sales (`DaySheet`). The fair brain
sits inside the consumer: a task waits for a slot before its first session of
`execute_job`. The compute router and the consumer share the job's row only. The ledger is
what all compute work is paid in: `execute_job` and
`worker_result` append a pair of rows when a job is done. Feedback is one table with three
writers: its numbers and rewards are in `Credits`, its triage in `Tickets`. Items of a print order
take their blanks from the stock that purchase orders fill (`Supply`).

## 2. Modules

| module | what it is | built on |
|---|---|---|
| `SaleBook` | abstract: one append-only book per day, one entry per key, answers name entries | – |
| `SaleRing`, `MCSaleRing`, `SaleRing_proofs` | `create_sale`, `create_transaction`, held orders, the till that retries | refines `SaleBook` |
| `CashBox`, `CashBox_proofs` | cash box, movements, cash sales, refunds | – |
| `FairBrain`, `MCFairBrain` | brain slots | – |
| `ComputeJobs` | compute jobs | – |
| `Compute_proofs` | theorems about `ComputeJobs` and `FairBrain` | both, `Finite_proofs` |
| `Credits`, `MCCredits`, `Credits_proofs` | credit ledger, feedback rewards, board numbers | – |
| `Rows` | what a session does to a row it read | – |
| `Payroll`, `PrintShop`, `Supply`, `Workshop`, `Bookings` | the other desks | `Rows` |
| `Members`, `Cart`, `Receiving`, `Logins` | member desk, legacy sale, receiving, logins | `Rows` |
| `Tickets`, `Shifts`, `Barcodes`, `Terminal` | tickets, shift sessions, codes, card terminal | – |
| `Pricing` | what a basket costs: operators only | – |
| `Counter`, `DaySheet` | the page against the server; the reports | `Pricing` |
| `Desks` | small instances of all desks, checked in one run | all of the last six rows |
| `EachDesk_proofs` | theorems about `Shifts`, `Tickets`, `Bookings`, `Barcodes`, `Workshop`, `Logins` | these modules, `Finite_proofs` |
| `EachBook_proofs` | theorems about `Cart`, `Terminal`, `Members`, `Receiving`, `Payroll`, `Supply`, `PrintShop`, `DaySheet` | these modules, `Finite_proofs` |
| `Desks_proofs` | eight properties of `Desks` | `Desks`, `EachDesk_proofs`, `EachBook_proofs` |
| `Finite_proofs` | what sums and maxima of finite sets are | – |

Definitions marked *Mutant* in a comment are not part of any specification: each is a
plausible mistake in the definition below it, and substituting it makes the named
property of a run fail (`PROJECT.json`, `mutants`). They show that the properties
can tell the code from a broken one.

### SaleRing

A till (`till[t]`) is a browser tab of the checkout page: basket, persisted key,
persisted held-order code, and the request it waits for. A handler (`req[r]`) walks
through the awaits of `create_sale`:

| action | code |
|---|---|
| `Submit`, `GiveUp`, `Deliver` | `completeTransaction` in `checkout.html`: the key is kept over timeouts and errors and removed on success |
| `Edit`, `ClearCart`, `RingOut` | back to the scan page; "start fresh"; loading a held order |
| `Lookup` | the key lookup: an existing sale is returned as it is |
| `ReadMember`, `CountToday`, `ReadOrder` | the three reads the commit relies on |
| `Reject` | every 4xx before the commit |
| `Commit` / `Conflict`, `Adopt` | the single commit, or `IntegrityError`, rollback and a second lookup |
| `StartLegacy`, `LegacyInsert` | `create_transaction`, sharing the number space |
| `KioskUpsert`, `CartClaim` | the kiosk's save; "claim" on the board |
| `Midnight`, `Restart` | the server's date; a deploy cutting all requests off |

Abstractions: a sale earns its member one point; the lines and their prices are data;
the upsert of a held order is one step (its two reads can only be stale against
themselves); a basket is the pair (which basket of the till, how often edited) with
the held order and the member it carries. History variable: `answered`.

### CashBox

Each operation is split at its awaits (`OpenCheck`–`OpenExpect`–`OpenCommit`,
`PaidRead`–`PaidCommit`, `CloseRead`–`CloseSum`–`CloseCommit`,
`SaleGate`–`SaleStamp`–`SaleCommit`, `RefundRead`–`RefundCommit`); `Refuse` is every
way a handler ends without writing. Handlers remember the row they loaded (`row`), and
commits write the columns the code writes, computed from that row. Time is an order:
`Now` is later than every stamp still around. Staff count honestly: a count is what is
in the drawer when the request is sent, so every deviation a property finds is one the
software makes. History variables: `counts`, `given`, and `drawer`, the physical money.

### FairBrain

One variable: where each call of `slot()` is. Counting and looking happen in one step,
because no path awaits between taking the condition's lock and releasing it or
sleeping. `Exit` is the `finally` block with its `notify_all`. A call may enter again
and again; nothing orders the notified.

### ComputeJobs

The row (`status`, `kill`), the message, the consumer's tasks with one step per session
of `execute_job`, and the web handlers for remote workers. The `try` of `execute_job` (`runner.py`
64–121) encloses all its sessions, so each may raise (`Raises`; the brain and the settling have
the choice in their own action) and send the task to `MarkFailed`, whatever the row says by then:
a job that was paid, and is delivered again after a crash, is marked as failed if it cannot be
loaded. A session that raises has written nothing: a commit that was applied and whose answer was
lost is left out. `Crash` kills the consumer and
the broker redelivers; `Drop` is a robust reconnect, which redelivers while the old tasks
run on, their acknowledgements void. A job that waits for its slot is a delivered
task that has not reached `Load`. Pull jobs ignore the kill flag, as the code does.
Bring-your-own-endpoint jobs (no slot, zero price) are not modelled, nor is a database
outage that fails the failure patch as well.

### Credits

Nothing reads one row of the ledger: handlers ask whether an account has rows and what they
sum up to, so the state is `known`, `balance` and the number of starter grants. A request
walks through its awaits:

| action | code |
|---|---|
| `Look`, `Transfer`, `Recipe`, `SubmitJob`, `Feedback`, `FileItem` | a request arrives: wallet page, `transfer_credits`, `recipes_run`, `submit_job`, feedback, `create_item` |
| `Count`, `GrantStarter` | `ensure_starter_grant`: count the rows; none, so insert and commit |
| `Check`, `Pay` / `Queue` | the balance is read; later both rows are committed, or the job is accepted |
| `Settle`, `Drop`, `AdminGrant` | a job is paid after the fact, or ends unpaid; `grant_credits` |
| `Number`, `Prior` | the board's next number; how much the user filed today |
| `File`, `PayReward` | the item alone, or the item with the pair of reward rows |
| `End` | every way to stop without a commit: 4xx, a busy brain, a taken number, a restart |

The starter grant commits by itself, and what the feedback handler has added to the session
goes with it: that is why `GrantStarter` files the item and `PayReward` then only marks it.
Reading that an account exists and reading its balance are one step, since rows are never
deleted. The house may go below zero; the code does not stop it. A job is settled once
here; that it may be settled twice is `ComputeJobs`' subject. Rows of zero (own endpoints) and
the retagging of items by triage are left out.

### The desks: handlers and rows

In the modules of the desks a handler is a record in `h[p]`: what it is doing and the row as it
read it. A `...Load` action is a handler that reads and passes its checks, a `...Commit` action
the commit of what it computed from that reading, `Abort` every other end: a refusal, an error, a
restart. Where a handler reads twice, or commits twice, it has more actions. `Flushed` writes the
changed columns only. With one handler (`{h0}`) a module says what the desk promises; with two
(`{h1, h2}`) what is left of that when they interleave.

| module | actions and code |
|---|---|
| `Payroll` | `Create`, `Update`, `Delete`, `Submit`, `Decide` (each `Load`/`Commit`): the time-entry handlers of `hr_router.py`. `CreateRun…`, `CalcLoad`, `CalcBegin` (the run is committed as calculating), `SlipLoad`, `SlipCommit`/`SlipError` for each employee, `CalcCommit`; `ApproveRun…`, `MarkPaid…`: `payroll_service.py`. History: `signed`, what a manager approved. |
| `PrintShop` | `CreateOrder`, `Update…`, `Status…`, `Approve…`, `CompleteLoad`–`CustomerLoad`–`CompleteCommit` (order, then customer); `Invoice…`, `Deposit…`, `PaymentLoad`, `PayPart`, `PayAll`, `SetStatus`. History: `received`. |
| `Supply` | `StockLoad`, `Count`, `Receive`; `AddItems`, `ItemLoad`, `ChangeItem`, `DeleteItem`; `CreatePO`, `EditPO`, `POSet`, `POBook` (the rows of the lines are read), `POReceived`; `GenerateLoad`, `Generate` (a purchase order for what one customer's order is short of). All orders draw on one stock; items may lack a colour or a size (`Unsized`), and only the lines of `Coded` variants find a product when they are received. History: `booked`, what was counted and came in since; `most`, the most that was counted and all that came in; `loose`, the variants somebody changed by hand. |
| `Workshop` | one `Load` for all operations of a job (`Ops` picks which an instance asks for), a commit per operation; quotations (`QuoteLoad`, `AcceptJob`, `AcceptCommit`, `QuoteCommit`), purchase orders (`Order`, `POLoad`, `POCount`, `POJob`, `POCommit`, `POReceived`), work log (`LogSum`, `LogCommit`). History: `logged`, `byHand`, and `received`. |
| `Bookings` | `Book…`, `Booking…`: `create_resource_booking`, `update_resource_booking`; `WalkIn`, `Appt…`, `Move…`, `Status…`: appointments. History: `moved`. |
| `Members` | `Enrol`, `ReferLoad`, `ReferCommit`: `create_customer`; `Load` with `Update`, `SetState`, `Adjust`: profile, states, `add_credits`. |
| `Cart` | `Open`, `Item…`: `create_transaction`, `add_item`; `PayLoad`, `WalkIn`/`Attach`, `Cleared`/`Refused`, `PayCommit`: `checkout`; `Counter`: a refusal recorded by hand; `Reap…`: the hourly reaper. A line has its gross, which the cart grows by, and its net, what a deal leaves of it; a line of no product has no class. `Payable` is what coins can pay of a total. |
| `Tickets` | `File`, `Note`, `SetStatus`, `Archive`, `Close…`, `Reopen`; a batch of triage: `Select`, `Context`, `Ask` per ticket (the model's answer, any merge), `TriageCommit`. |
| `Counter` | the page: `Scan`, `Search`, `Treat`, `Decrease`, `Discount`, `Target`; the server: `Ring`, all of `create_sale`'s money. What the page shows is an operator beside what the server charges. |
| `Barcodes` | one step each: create and clone, bind, promote and demote, rewrite, import, merge, deactivate, delete. `Captured` are the actions of capturing codes, `Edited` a manager's edits and deletions. |
| `Receiving` | `Resolve` a line after the other, `Commit` the batch. |
| `Shifts` | `Start…`, `End…`, `ForceLoad`, `HandoffLoad`: the session wizard. |
| `Logins` | `Account` (Keycloak makes an account, or makes it anew), `Restart` (seeding), `SaleLoad`, `FirstSaleCommit`, `SaleCommit`; `Heal…`, `Link…`, `Provision…`, `Unlink`. |
| `DaySheet` | `Ring`, `Refund`, `Tick`; the reports are operators on the sales. History: `kept`. |
| `Terminal` | `Post` (and post again), `Lookup`, `Insert` (the flush), `Charge`, `TimeOut`, `Complete`, `Decline`, `Cut` (a restart). History: `captured`, what the terminal took; `cut`, the handlers that were stopped. |

Each module's head comment names what it abstracts: amounts are small numbers, a batch of
entries is one entry, a day a number, an hour one unit of pay, every bonus one credit, and so on.
`Pricing`, `Counter` and `DaySheet` count whole cents and keep every rounding the code makes; the
floats of the page are taken as exact. Where two statuses are treated alike by all handlers they
are one value, and the comment says so.

`Desks` composes nothing: the desks share no row. It declares the variables of all, picks an
instance in its initial state (`desk`), steps that instance and leaves the others `Off`, so that
one run checks them all. Its properties are the conjunctions of the modules' own by what they
promise. The rows, codes, people, accounts and bounds of an instance are constants of `Desks` where
`Desks_proofs` proves a property for all of them, and values in its definition elsewhere.

## 3. Runs

Passing runs:

| run | bound | question and answer |
|---|---|---|
| `SaleRing_race` | 2 tills, 2 handlers, 1 member, 1 order, 1 day, one basket per till | Two sales race over one member and one order: is the order claimed twice, are points minted? No (`OrderClaimedOnce`, `PointsWithinLedger`). |
| `SaleRing_retry` | 1 till, 2 handlers, 2 baskets, 1 edit, 2 days, 1 legacy transaction | Can retries, edits, restarts or midnight tear the numbers, charge a basket twice or answer it with another's sale? No (`NumbersDense`, `BasketChargedOnce`); and `create_sale` implements `SaleBook` (`ImplementsBook`). |
| `CashBox_serial` | 1 handler, 2 boxes, 2 sales (cash and card), 2 movements, 2 refunds | With one person at a time, does everything the sources say about the box hold? Yes: every cash sale lies in a box (`CashSaleAssigned`), the closing equation and the totals are right and refunds stay within the sale (`FiguresAddUp`), one box is open and its opening refers to what was counted (`BoxesInLine`), and a counted box balances as long as every refund is one the drawer arithmetic can trace (`CountMatchesExpected`). |
| `CashBox_race` | 2 handlers (one may open), 2 boxes, 1 sale, 2 movements, 1 refund | What survives all interleavings? A closed box stays closed (`ClosedForGood`), its figures are one closer's and "verified" is never false (`CloseIsWhole`), totals never invent a movement (`PaidWithinMovements`). |
| `FairBrain_full` | 3 users, 6 calls, 3 slots | Capacity, no lost wakeup, convergence of the shares, no starvation, no deadlock. |
| `ComputeJobs_life` | a queued and a pulled job, 2 tasks, 1 web handler, 2 crashes, 1 connection loss, 2 posts | Whatever session raises, a job is charged once, and at most once more per connection loss and per two crashes; no job is done for free; and without a loss or a crash charged and done are the same (`ChargedPerDelivery`); a job killed before it started is never charged (`EarlyKillIsFree`); a published job ends (`PublishedEnds`). |
| `Credits_race` | 2 users, 2 handlers, 4 requests, 2 days, all amounts 1, 1 job in flight per user, 1 admin grant | Counts and balances are read before they are used: what holds all the same? Nothing is made or lost (`Conserved`); debt and starter grants are bounded by what can be in flight at once (`DebtBounded`, `StartersBounded`); the cap on rewards holds exactly (`RewardsCapped`) and so do the numbers of the board (`BoardDense`). |
| `Desks` | the instances below | What does each desk promise with one handler, and what is left with two? |

`Desks`, by property:

| property | instances (bounds in `Desks.tla`) | says |
|---|---|---|
| `NeverMore` | `PayRace`, `JobRace`, `ClubRace`, `TillRace`, `BackDoors`, `Deliveries` (with counts), `RegisterRace`: two handlers | however handlers interleave, a row that is a sum loses entries and never invents one: a cart charges no more than its lines cost without their deals and, when it is sold, less than a coin more; no blank is on hand beyond the most that was counted and all that came in; a person is on shift at most once per start in flight |
| `PaidAsAgreed` | `PaySerial`: 2 employees, 2 entries, 2 days, 1 run, 2 payslips; `Quoting`: 2 quotations, all orders of editing, sending, accepting, rejecting; `OrderDesk`: 1 order, 1 invoice | payslips pay what was signed, once; a deposit is the agreed one; an invoice never asks for too little |
| `BillsAddUp` | `Lanes`: four products, one of each way a discount can treat one; `Packets`: a deal over three products | sales of the till add up: lines, deals, discounts, coins, VAT |
| `ChargedAsShown` | `Lanes`, `Packets` | page and server agree on every basket both see alike |
| `NothingTwice` | `Resources`: 3 bookings; `Calendar`: 2 appointments; `Register`: 2 people, 3 sessions; `Staff`, `StaffRace`: 2 names, 3 accounts, 2 employees or 1; `Cards`: 3 baskets, two handlers, 1 restart | no double booking; nobody on shift twice; nobody in the books as two persons; no basket paid for twice by card |
| `BooksBalance` | `Club`: 2 members; `BackDoor`: 2 products, batches of 2; `Blanks`: 2 variants, one of a product with a code, 2 orders, 2 items, 2 purchase orders; `Stocktake`: one of each with every operation; `Reports`: 2 sales, 2 days, 2 refunds | balance and stock are what their entries say; stock and purchase orders cover what waits of each order, of products with a code; the sheet of a day adds up to what was kept, in each of its breakdowns |
| `SoldAsFilled` | `Till`: 3 lines, prices up to 2, a coin of 5 | a cart of the legacy sale is charged what its lines cost without their deals, less discounts and plus less than a coin; it is reaped empty; it is sold with a ground when a line of a product needs one |
| `TriagedOnce` | `Board`: 2 tickets, 1 input each, one batch of 2 | triage |
| `ClearedWhenNonePending` | `Parts`: 2 purchase orders | `parts_on_order` |
| `KeepsScanning` | `Labels`: 3 products, 3 codes, one of them minted | barcodes |

`Floor` (the statuses, places and hours of a job) has no promise beyond its types: the handlers
accept nearly every order of calls.

Violation runs, each a sentence of the repository that the code does not keep
(`PROJECT.json`, `findings`, quotes it):

| run | property | what happens |
|---|---|---|
| `SaleRing_welcome` | `WelcomeSpentOnce` | two held orders of one member in flight both find the discount unspent |
| `CashBox_full_refund` | `ExpectedIsDrawer` | one handler at a time: a fully refunded cash sale leaves the takings and is subtracted as well, so the box seems to be over by the amount |
| `ComputeJobs_repost` | `ChargedOnce` | two posts of one result at once both find the job unsettled and both settle it |
| `Logins_provision` | `SalesKept` | one handler: a cashier sells, the cashier's login is provisioned, and the ORM's cascade deletes the sales with the stale row of `users` |

Why the bounds are enough: every hazard listed needs at most two handlers that overlap
(a read of one before a commit of the other), one row they share, and one more step to
make the damage visible (a second day, a second box, a second basket of the same till, a
second calculation of a run, a second purchase order of a job).
Each of these exists in some run, and the violation runs show that the instances are
large enough for the races to occur. Where a state space allowed it, the sharing object
is one (one member, one order) and the actors are two. A deal needs three products to be shared
out unevenly and two packs to start again; a merge chain of codes needs three products.
Deadlock is off in the modules whose bounds let the system stop (no more baskets, boxes, posts or
rows); it is on in `FairBrain_full`.

`CashBox_race` lets one slot open boxes: with two simultaneous openers both find no open box, and
`BoxesInLine` fails, so the race run asks what remains when the opening is done by one person.

`PublishedEnds` excepts a connection loss together with a crash: of two tasks on one job one
marks it killed and acknowledges, the other marks it running and dies, and nobody is left. A job
whose publication fails stays `queued` for ever; nothing in the sources retries it, so the
property speaks of published jobs.

Symmetry (interchangeable tills, handlers, users, rows) is used in
`SaleRing`, `Credits` and `Desks` only, where no liveness is asked for. In `Desks` it permutes
`h1` with `h2` and `a` with `b`: an instance has both as rows of one
table, or has one of them only as a table's row, and then no two of its states are permutations of
each other.

### What else the models show

Seen when bounds are changed or a property is strengthened; described here and kept out of the
runs.

* `CashBox` with two handlers: the properties of `CashBox_serial` fail. A close between the
  gate and the stamp of a cash sale leaves it in no window; a movement loaded before and committed
  after the close changes the closed row; of two simultaneous movements one is missing from the
  total; a second close rewrites the count the next opening was compared with; two
  refunds of one sale both pay out.
* `SaleRing`: two sales of one member lose the first one's points (the balance falls behind
  its ledger, never ahead); a basket edited after a lost answer keeps its key and is answered with
  the sale before the edit; "start fresh" leaves the held order's code for the next sale to claim.
* `ComputeJobs`: with a connection loss two tasks of one job both settle it, which is why
  `ChargedPerDelivery` counts losses. It counts crashes by two: a job that is settled when the consumer
  dies before the acknowledgement is delivered again and found done; but if loading it raises it is
  marked as failed, although it was paid, and after a second crash it is run and charged again. So
  "no job is charged and then reported as failed" holds only while nothing is lost.
* `Credits`: with two handlers a new account gets two starter grants and a balance goes below
  zero, so neither "granted once" nor "no overdraft" is a property; and an account whose first row
  came from somebody else (a transfer needs rows, but a grant or a settlement does not) never gets
  its starter grant.
* `Terminal`: a handler that is stopped between approval and commit has taken money for no sale,
  and the retry takes it again; nothing looks a payment up by its `intent_id`, although
  `payment_model.py` says that "a replayed capture adopts the same row". Refused attempts are
  rolled back with their row ("one row per electronic payment ATTEMPT"). The simulated terminal is
  asked for cash sales too; a sale of zero raises in it. Two checkouts of one legacy cart at
  once both charge, and the second one fails afterwards on the unique `intent_id`.
* `Payroll`: a run that is calculated again has the totals of the second calculation only;
  a rejected entry can never be revised; a crash or a database error leaves a run "calculating"
  for good; an update moves a draft onto a day that is taken.
* `PrintShop`: a deposit changed after payments forgets them; completing an order twice counts
  it twice for the customer.
* `Supply`: a purchase order set to received twice books its lines twice, and one edited to received
  books nothing; two lines of a combination that had no row yet collide on its unique index; an
  order generated twice orders twice, and the first receipt marks items as stocked beyond what came;
  nothing consumes stock; the number of a purchase order is a count plus one; a count equal to
  what was read while a receipt commits sends no UPDATE, so that more is on hand than was counted
  and came in since (hence `most` in `NeverOverstocked`). `quantity_reserved` is never raised: two orders
  that each need the one shirt on hand are both covered by it, and both wait. A line whose code is empty
  or finds no product is skipped when its purchase order is received: its items stay
  `stock_ordered` for good, and nothing is on hand for them. `generate_po_from_order` marks every pending item as
  ordered, those without a colour or a size too, which it has not counted. `WaitingIsCovered` therefore takes
  each order by itself and products with a code. There is one supplier in the model, a code finds one
  product or none, and codes do not change; items of no product are left out.
* `Workshop`: the optimistic check compares at the read only; hours logged after completion leave
  `actual_total` behind; a cancelled last order does not clear `parts_on_order`; an order placed
  between the count and the commit loses its flag; rejecting an accepted quotation keeps its
  deposit.
* `Bookings`: appointments collide only when they start at the same time, and moved ones are not looked
  at; two creates at once both find the day free; a stale status write revives a cancelled row.
* `Members`: a field emptied and filled again pays its bonus again; two handlers lose credits.
* `Cart`: an item added while the cart is paid is not paid for; two checkouts at once earn twice;
  the reaper cancels a cart that got its first item after the read ("never touch a cart that has
  items"); an adult line added after the age rows were read is sold without a ground; the last
  item's percentage applies to the whole cart, tobacco included. `add_item` prices a line by its deal and
  adds its gross to the subtotal (6273): "3 for 5" is on the line and the cart charges 6, while
  `create_sale` adds what the line is worth (6899–6905) "so the two paths never drift" (6759). That is why
  `SoldAsFilled` and `NeverOvercharged` speak of what the lines cost *without* their deals: less is
  not what this path keeps. Cash is rounded to coins, up or down, so the total may be above the subtotal by
  less than a coin. The age rows are joined with products: a line of a department or a free name is never
  gated, and counts for a tier's discount whatever it is.
* `Tickets`: two requests to triage at once triage twice; a note added while the model thinks, or before
  the first triage, is never read; a reopened ticket keeps its cached resolution; duplicates of
  a merged ticket hear nothing.
* `Counter`: the search page drops the class of a product, so tobacco added there is discounted on
  the page and not on the server; the page ignores a shop that rounds down; the page keeps the lanes
  unrounded and can land on the other side of five Rappen, so that exact cash is refused; a
  ladder above the price is read differently by the two; a scan of what lies in the
  basket only as a treat increments the treat; packs taken greedily can be dearer than others.
* `DaySheet`: a sale given back in part is taxed at one rate while its lines keep theirs, so
  streams and product sales state more VAT than the books, and turnover is too high by the factor
  of total to subtotal; the file drops the cash line when a refund leaves less than the rounding; a
  partial amount of 0 gives back the whole sale; a later refund rewrites a past day's sheet. Read
  and not modelled: cashiers with one first name overwrite each other's row; the busiest hour is
  UTC's.
* `Barcodes`: create, quick-create and edit do not look at aliases, so a code can be one product's
  primary and another's alias ("A barcode is globally unique across BOTH places",
  `product_model.py:418`); two binds at once across the two tables do the same; merging into a
  retired product retires both; a code that is primary and alias of one product makes a merge or
  a promotion fail.
* `Shifts`: after two starts at once every query of that person raises until a manager ends one.
* `Receiving`: two batches at once lose one from the stock; sales never lower it.
* `Logins`: not modelled are the last resorts of `get_employee_from_token` (`hr_router.py` 118–141), which
  guess an unlinked employee by e-mail or first name. After the finding's deletion the receipt count falls with the rows; the next seeding
  conflicts and ends for all staff. When Keycloak makes a seeded account anew, healing and seeding
  write its sub in turns and later sales split over two rows (excluded by `Current`). With two
  requests, sales also split when an account is made anew while a provisioning is in flight: hence
  `SettledStay` speaks of accounts that are not made anew, and the two stronger properties of one
  handler only. (The proof found this: with two accounts in place of three the stronger property
  had passed.)

## 4. Fairness

* `FairBrain`: weak fairness of `Wake` (the event loop runs what is ready) and of `Exit` (a
  job's brain calls have time-outs and the job has finitely many). Nobody is
  obliged to submit. `NoUserStarves` needs no more users than slots: beyond that the cap
  is one for everybody and no order among the waiters is kept.
* `ComputeJobs`: weak fairness of delivery while a task is free (the broker pushes up to
  the prefetch), and of each task's next step. The web process is not assumed to do
  anything; crashes are bounded.
* All others: safety only. A handler of the web process may end at any await (an error, a
  restart, a browser gone), nothing runs on its own but an hourly reaper, and no source promises that
  anything eventually happens: what a person does not ask for does not come.

## 5. Proofs

TLAPS proves, for every value of the constants (any number of tills, handlers, members, orders,
boxes, jobs, tasks, users, days, rows, amounts):

| module | theorems | say |
|---|---|---|
| `SaleRing_proofs` | `TypeCorrect`; `NumbersStayDense`; `OrderStaysClaimedOnce` | types; a day's numbers are exactly 1 .. n; one claiming sale per order and day |
| | `BasketsChargedOnce`, `PointsStayWithinLedger` | a basket is charged at most once and answered with its own sale; points are never ahead of their ledger |
| | `SalesImplementBook` | `Spec => Book!Spec`, the refinement of `SaleBook` |
| `Credits_proofs` | `TypeCorrect`, `BoardStaysDense`, `RewardsStayCapped`, `StartersStayBounded`, `DebtStaysBounded`, `CreditsConserved` | types; the board's numbers are 1 .. n; the daily cap; starter grants by handler slots; debts by what is in flight; the sum over all accounts |
| `CashBox_proofs` | `CashTyped`, `StaysClosed`, `ClosesWhole`, `PaidOnRecord` | any handlers: types; closed for good; one closer's figures; totals within the movements |
| | `OneBoxOpen` | one opener, any other handlers: one open box |
| | `SalesAssigned`, `FiguresAgree`, `OneLine`, `CountedAsExpected` | one handler: the properties of `CashBox_serial` |
| `Compute_proofs` | `PoolTyped`, `CapacityHolds`, `WakeupsHold` | types; never more running than slots; nobody asleep could run |
| | `JobsTyped`, `EarlyKillCostsNothing`, `QueuedJobsChargedPerDelivery` | any web handlers: types; a job killed early is free; a queued job is charged once, and once more per connection loss and per two crashes, whatever raises |
| | `JobsChargedPerDelivery` | one web handler: the same of all jobs, pulled ones too |
| `EachDesk_proofs` | `OnShiftPerStartHolds`, `NeverOverstatedHolds`, `SettledStayHolds`, and types | any handlers: `Shifts`, `Workshop`, `Logins` |
| | `OnShiftOnceHolds`, `NoDoubleBookingHolds`, `DepositAsAgreedHolds`, `SalesOnOneRowHolds`, `ActsForLinkedHolds` | one handler: `Shifts`, `Bookings`, `Workshop`, `Logins` |
| `EachBook_proofs` | `NeverOverchargedHolds`, `SalesStayApart`, `MoneyTakenOnce`, `NeverBelowZeroHolds`, `NeverUncountedHolds`, `TotalsWithinHolds`, `NeverOverstockedHolds`, `SheetAddsUpHolds`, and types | any handlers: `Cart`, `Terminal`, `Members`, `Receiving`, `Payroll`, `Supply`; the reports, whose actions are single steps: `DaySheet` |
| | `LedgerIsBalanceHolds`, `StockIsMovesHolds`, `PaidAsSignedHolds`, `StockIsBookedHolds`, `DueCoversRestHolds` | one handler: `Members`, `Receiving`, `Payroll`, `Supply`, `PrintShop` |
| `Desks_proofs` | `NeverMoreHolds`, `PaidAsAgreedHolds`, `BooksBalanceHolds`, `TriagedOnceHolds`, `KeepsScanningHolds`, `ClearedHolds`, `SoldAsFilledHolds`, `NothingTwiceHolds` | eight properties of the run `Desks`, for any rows and bounds of their instances |

Assumptions on constants are named in the modules that declare them and evaluated by TLC on the
instances: bounds are numbers, sets that are counted or summed over are finite, and a value that
stands for none is not a row. "One handler" is a hypothesis of a theorem
(`OneHandler == \A p, q \in Handlers : p = q`, `OneOpener`), not of a model: the code does not see to
it, and section 3 tells how each of these promises fails without. No theorem assumes more of the
handlers than its run has.

### The receipts

`NumbersDense` alone is not inductive: a handler in flight holds a count, and nothing in the
property speaks of it. `BookInv` adds `HandlersKeyed` (a handler between lookup and commit has a
key, one in the legacy path has none) and `CountsNotAhead`: a handler's count is never larger than
the number of rows its day has now. A handler's number is then at most n + 1, and the unique index
refuses it unless it is exactly n + 1, so a commit extends 1 .. n to 1 .. n + 1. Rows are never
deleted and the counted day is never in the future, which keeps `CountsNotAhead`.

The claim of an order: `ClaimInv` adds `OrdersSpent` (an order a sale has claimed is `claimed` in
its row, for good) and `ClaimsAhead`: a handler that found an order open and is about to claim it
holds a count that was taken *before* that reading, so if some sale of its day has claimed the order
since, the handler's number is taken. The two reads the code makes in this order, count
then order, are what the proof rests on; the unique number, meant for receipts, is what serialises
the claims. It does so per day only.

A basket is charged once: `BasketInv` says that keys and generations of baskets are matched one to
one (`OneToOne`) over everything that carries both - the page, the requests in flight, the sales -
and that an answer in flight is of a sale with the key of its request (`AnswersRung`). The page draws
a new key exactly when it has nothing left of the old basket.

Points: `PointsInv` says that what a handler read of a member was, at the time, no more than the
ledger of rows that do not change, so a commit that writes the reading plus one, with one ledger row
more, is not ahead either.

The refinement: `SaleBook`'s books are the sales of each day in the order of their numbers.
`RefineInv` is `BookInv` with the uniqueness of the keys; each action of `SaleRing` is mapped to an
append (`Commit`, `LegacyInsert`), an answer (`Lookup`, `Adopt`, `Deliver`) or a stutter.

### Credits and brain slots

`BoardInv` is the argument of the receipt numbers once more, with the maximum in place of the count:
no number drawn is further than the next one (`DrawnNotAhead`). `CapInv` builds on it. `CapAhead`
says that a handler whose number is still the next one, and that found its user below the cap,
is still right: had anything been filed since, the number would be taken. The code draws the
number *before* it counts, and the proof needs that order. Because the starter grant's commit files
the item ahead of its reward, the bound is kept on `Entitled`, the items rewarded or about to be.
`StarterInv` counts the handlers that found no rows together with the grants given: both sum to at
most the slots, and the first grant ends the counting. `DebtInv` bounds a balance by `Room`, the
slots and jobs of a user *not* in flight: whoever passes a check finds the balance above zero, and
from there on every loss gives back one unit of room. `CreditsConserved` is one lemma per action on
what it does to a sum over the accounts (`Finite_proofs`).

`WakeupsHold` follows because the cap counts the waiting and the running, a call falls asleep
only after it has counted itself, new arrivals can only lower the cap, and the only step
that can raise anything notifies everybody.

### The cash box

`Typed` says of each program counter which rows the handler refers to; `StaysClosed` needs no
more, since no handler writes an open status to a row it loaded. `CloseInv` says that who is
counting has the figures of one reading, and that nobody verifies a forced close. `PaidInv` bounds
what a handler loaded, plus what it will add, by the movements. `OpenInv`: between the check for an open
box and the commit nobody else opens (`OpenerAlone`). `SerialInv` is the invariant of one handler:
boxes lie one behind the other in time (`InOrder`), what the handler in flight has read is still so
(`Fresh`, one predicate per operation), the drawer is the expected figure of the open box
while all refunds can be traced (`Slope`, `Ledger`), and sums over sales and movements change
by the row a commit writes.

### Compute jobs

`SpentInv` is an account in halves of a charge. `Granted` is two, two more for every lost connection
and one for every crash; `Claimed` is two for every charge of the job, for every task that is working
on it (`Active`) or has it loaded (`Loading`) and for a message it could be given by (`Pending`), and one for
a task that has only to mark it as failed or killed (`Left`). Who works on a job is covered by what is
granted; who has it loaded or could be given it may be one half ahead, but only while the job is done or
killed, and then `Load` ends without working. A redelivered job that was paid, fails to load and is
marked as failed has used up that half, and it takes another crash to be delivered again. `Drop` alone
grants a whole charge, since the tasks it leaves behind run on. A charge is part of the account
from the moment a task can no longer be stopped from making it. `EarlyInv`: who loads a job with its kill flag set ends without a charge. A
pulled job needs `PulledInv` and one web handler: the finding `ComputeJobs_repost` is what two do.

### The desks

* `Shifts`: starts in flight and sessions on shift are counted together (`StartsBounded`).
* `Tickets`: `TriageInv` relates the triages of a ticket to its reasons and its stamp: it is due
  exactly when there is one reason more (`Due`), and who holds a batch holds only tickets that are.
* `Bookings`: what the handler found free is still free (`StillFree`).
* `Barcodes`: `LabelsInv` (one primary per code, aliases of rows that exist) and, per operation,
  that what scanned goes on to (`Stays`) or was handed to the survivor of a merge (`HandedOver`).
* `Workshop`: every row a handler read is `Modest` - within what was handed over and logged - and so is
  what it writes; with one handler the reading is still the row (`StillSo`).
* `Cart`: what a handler read is `Covered` by what the lines cost, as a total is
  until `PayCommit` rounds it; with one, every line that asks for a ground has been asked (`Asked`).
* `Terminal`: of the handlers past the flush none has the key or number of another or of a sale
  (`ApartInv`); what the terminal took is what was sold, lost or is about to be written (`TakenInv`).
* `Members`: `Backed`, a balance that was read had its ledger rows; with one handler balance, totals and
  ledger change together (`Booked`).
* `Receiving`: stock and what a batch has seen are no more than the movements.
* `Payroll`: whoever calculates holds a sum that lies within the payslips of its run, and the entries
  picked for an employee stay that employee's, whatever a second calculation makes of them (`Fits`);
  with one handler they also stay what the manager approved, since nothing but the calculation in
  flight touches them (`AsRead`).
* `Supply`: what a handler read of the stock is within `most`, which never falls, and so is what it writes
  (`LessHeld`); what was booked would not do, since a count lowers it under a handler's reading. With
  one handler what was read is still the row (`StoreAsRead`), what comes in is at the same time booked, and a
  purchase order generated for what an order is short of covers every item of *that* order that waits
  (`AllCovered`); those of other orders had their own.
* `PrintShop`: with one handler what was read is still the row, and each write of an invoice either
  asks for its total minus its deposit, or for less than the row did by what was paid (`Covering`).
* `DaySheet`: every sale is as it was rung, or reversed, or stands at what was kept of it (`Entered`), and
  its columns agree while nothing was given back in part (`Whole`). The rest is about sums: over the lines of
  sales, of streams, of departments and products, each a partition of another (`Finite_proofs`).

`EachDesk_proofs` and `EachBook_proofs` speak of the modules, with constants and variables of their
own for all of them. `Desks_proofs` instantiates them with the values of `Desks` (`P` and `B`; `PCalendar`,
`PRace`, `BStocktake` and `BRace` for instances that differ) and takes a theorem over: `DeskBegins` and
`DeskSteps` say that a behaviour of `Desks` is one of the instance that `desk` names, `DeskInv` is the
invariant of that instance, and a lemma per instance (`SameBoard` and so on) says that the two
instances of one module are the same formulas.

### Left to TLC

* Liveness (`SharesConverge`, `NoUserStarves`, `PublishedEnds`) and anything with ENABLED.
* Of `Desks`: `TypeOK` (types are theorems of most modules, but not of `Counter`),
  `BillsAddUp` and `ChargedAsShown`. The last two speak of what `Pricing` computes: packs filled one after
  the other and cents handed out by recursion over the lines.
* What a recursive definition computes for every input is out of the prover's reach: the packs of
  `Pricing` are model-checked on the baskets of `Lanes` and `Packets`.
* The violation runs: a counterexample is a behaviour, and TLC shows it.

## 6. Plan

The model covers what the plan asked for, and the proofs reach every component that has a module of
its own but `Counter`: all safety properties of the passing runs are theorems but the three of `Desks` named above.
What is left:

1. `Counter`: its types, and the part of `BillsAddUp` that needs no recursion, for given shares of a deal.
2. A second supplier in `Supply`, and codes that are edited between ordering and receiving.
3. The legacy cart's deals against `create_sale`'s, basket by basket: the two disagree (section 3).

## 7. Not modelled

Of some 96 000 lines of implementation the project maps about a tenth. The larger part of the rest
declares (schemas, ORM columns, seeds, settings, translations), reads (lists, searches, exports,
documents, dashboards), draws pages, or asks a model; a definition of such a line would say what the line
says and no property would depend on it.

| part | why not |
|---|---|
| Knowledge base contributions (`kb_router.py`) | `submit_kb` (105–124) calls `calculate_credits` (`kb_contribution_model.py:336`) before the insert has given `base_credits` its default: the call raises, no row ever exists, and the review that pays credits has no reachable state |
| Background jobs (`jobs_router.py`, `tasks_router.py`, `job_service.py`, Celery) | uploads for transcription and translation by remote models; the rows record how far a worker says it is |
| Bottega, bookstore, coffee, pets, track | sibling applications of one user's rows, without a rule that relates two of them. What Bottega pays in credits is in `Credits`. Read, and left as it is: editing a card copies its pin, so that two are pinned; the next task's number is a count and repeats after a deletion; two chat turns at once lose one |
| Product photos, worklist, enrichment | object storage and text matching. Read: a photo's object is deleted before its row (a crash leaves a row without bytes); an import overwrites what somebody typed meanwhile with what it had cached, although it promises to write "ONLY into blanks"; two sheets filling one blank price at once write it twice |
| Equipment purchase orders | a schema and tables, and no handler that changes them |
| Customers, vehicles, artworks, contracts, settings | edits of one row |
| Presence, the log of a box, the drafted day survey, X-report, snapshots | reads |
| The kiosk's sign-up, tiers, the purge of members | a check before an insert; a function of one column; a deletion |
| Foreign cash, quick rounding, custom lines, departments in `Counter` | other inputs of the same arithmetic; departments are in `DaySheet` |
| Own compute endpoints, templates, nodes, streams | no slot and no price |
| Platform accounts (`auth_service.py`, `user_service.py`) | write rows of `users` outside the shop's paths |
| Keycloak, PostgreSQL, RabbitMQ, MinIO | external: accounts, committed rows and unique indexes, deliveries; the objects are left out |
| Language models, vision, concierge, search | prompts and remote models; `Tickets` and `ComputeJobs` let them answer anything, at any time |
| Database layer, startup, seeding | `get_db_session` is what `Rows` and the handlers' steps say; the seeding of staff is in `Logins`, the rest is data |
