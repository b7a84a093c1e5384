# Verification of the compute marketplace

This directory holds TLA+ models of the backend in `backend/` of this repository (a marketplace
for GPU time written in Go over MySQL and Redis), the TLC configurations that check them on small
instances, and theorems about them checked by TLAPS. The reference is the code. Where a document
or a comment promises something else, the difference is a run that TLC must find violated, or is
named in section 7.

Contents: 1 the system, 2 what makes it hard and what must hold, 3 the modules and how they
correspond to the code, 4 the runs and their bounds, 5 fairness, 6 the proofs, 7 where code and
documents part, 8 what is not modelled, 9 what could come next.

## 1. The system

One Go process (`backend/cmd/server/main.go`) serves the HTTP API and runs three background
goroutines: the job loop (every five minutes and once at start), the attestation worker, and the
node sweep (every thirty seconds). All state is in MySQL; Redis holds login codes, spent tokens and
the states of WeChat scans. Outside systems take part: the YeePay payment gateway, the BSN
blockchain, an SMS gateway, WeChat, and a language model.

| Component (under `backend/internal`) | State | Operations | Module |
|---|---|---|---|
| compute: products | `products`: status, stock, pricing mode, health | create, resubmit, review, take down, stock-take, freeze on expired qualification | `Orders`, `Suppliers`, `Checkout` |
| compute: orders and leases | `orders`: status, `stock_reserved`, payment deadline, lease start and end | place, deliver, confirm, cancel, freeze, request and complete a refund, close unpaid, complete expired | `Orders` |
| compute: renewals (`renewal.go`) | `order_renewals`: parent, mode, old and new end, applied, confirmed | quote, renew by extension or restart, apply a payment, undo a refund | `Orders`, `Checkout` |
| compute: access credentials | `order_deliveries` | generate, hand out, revoke | `Orders` |
| compute: prices and checks | none | `ValidateProductReq`, `validateOrderParams`, `CalcOrderAmount` | `Pricing` |
| compute: suppliers, certificates (`qualification_expiry.go`) | profiles and qualifications | submit, review, expiry sweep with reminders | `Suppliers` |
| payment | `payments`, `settlements` | checkout, confirm, clear, split, refund, six jobs | `Payments` |
| payment: merchant numbers | `yeepay_merchants` | apply, notices, queries, numbers entered by hand | `Onboarding` |
| blockchain | `blockchain_attestations` as a work queue | record, upload with bounded retries, confirm, requeue, verify | `Attestations` |
| scheduler | `supplier_nodes`, `products.health` | register, heartbeat, sweep, delete, advise | `NodeHealth`, `Advice` |
| invoice | invoices and their order links | apply, issue, reject | `Invoices` |
| ticket | tickets and their messages | create, write, accept, resolve, close | `Tickets` |
| equipment | listings, inquiries | publish, resubmit, review, withdraw, inquire | `Equipment` |
| intermediary | leads, commissions, registrations of collateral | submit, assign, quote, close; register, update, cancel, page through | `Leads`, `Collateral` |
| auth | Redis keys, tokens | codes by SMS, tokens, logout, WeChat | `SmsCodes`, `Sessions`, `WeChat` |
| user | identities | submit an identity | `Suppliers` |
| admin, trading | alerts, freezes, the trading policy | freeze and thaw users, dismiss, change the policy | `Sessions`, `Checkout` |
| agentsearch | none | match listings to a requirement, stream a summary | `Matching`, `SummaryStream` |
| notification, catalog, legal, sms, `pkg` | lists and single-row writes | | none |

### How they interact

* Everything that touches an order first locks the order and, for a renewal, its lease
  (`LockOrderFamilyTx`), always the lease first. Within compute an operation is one transaction.
* Payment moves an order only in `confirmPayment` (inside the same transaction) and through the
  hook that runs **after** the refund transaction has committed (`SetRefundHook`).
* Payment talks to the gateway between two transactions: it commits a request number, calls,
  and commits the answer; jobs query by request number when no answer came.
* An attestation is recorded after the commit of the operation it is about, from the tables as they
  are by then; the worker uploads later, and a verification rebuilds the payload from the tables of
  today.
* The job loop runs, in order: qualification sweep, revocation of expired credentials, payment
  jobs, closing of unpaid orders, completion of expired leases. Each lists first and handles later.
* The node sweep marks stale nodes offline and then recomputes the health of their products, each
  statement on its own.
* Most handlers outside compute and payment read a row, decide, and write in a second statement
  that names the row only by its id, or by its id and the status it had (a compare-and-swap).
  Which of the two it is decides what a concurrent request can spoil.

## 2. What is hard, and what must hold

The list of hazards with their lines, and the properties for each, is in `PROJECT.json`. A property
that a run checks is often the conjunction of a few named parts in the same module; the parts are
in parentheses.

**Orders and stock.** Four parties end an order (buyer, operator, close job, completed refund),
and each must give the units back exactly once, to a product that may have been taken down, frozen
or recounted since. Wanted: units are conserved (`StockConserved`), a family of a lease and its
renewals holds its quantity or nothing (`FamilyHoldsQuantity`), and every step is an entry of a
ledger of stock (`StockIsALedger`, below).

**Leases and renewals.** An extension moves the end of a running lease, a restart turns an ended
order back into a paid one; both can be refunded while unused. The lease job works from a list that
is stale when it is used. Wanted: a lease lasts what its paid orders add up to (`LeaseIsPaidFor`);
`PaidTimeIsKept`, that is nobody's lease is ended early (`NoLeaseEndsEarly`) and refunds take only
unused time (`RefundTakesUnusedTime`); `OpenRenewalsAreGood`, that is a renewal that can be paid takes
effect when it is (`PayableRenewalApplies`) and is the only one (`OneOpenRenewal`); renewals of
renewals do not exist (`FamiliesAreFlat`).

**Credentials.** One row is rewritten by delivery, signing, extension, freeze, refund, restart and
a job. Wanted, as `AccessFollowsLease`: it opens something only while its order is served
(`AccessOnlyWhileServed`), and until the end of the lease (`AccessEndsWithLease`).

**Jobs.** Wanted, as `JobsCatchUp`, also across a restart: unpaid orders are closed, leases are
completed, expired credentials are revoked (`UnpaidOrdersClose`, `LeasesComplete`,
`ExpiredAccessIsRevoked`).

**Payment.** The gateway answers late, never, or after the order was closed; a split and a refund
are asked for by different jobs and handlers; between two transactions the server may stop.
Wanted: what the service's books say was done, was done (`BooksAgree`: `PaidSharesArePaid`,
`RefundsWaitForSplits`, `RefundedIsPaidBack`, `SharesComeBack`), an order is told of its refund
(`OrdersAreTold`), suppliers are paid for leases that began (`SuppliersArePaidForService`), leases in
use are paid (`LeasesInUseAreFunded`), everything that was begun ends (`LateMoneyGoesBack`,
`RequestsEnd`), and whatever payment does to an order, the order domain allows (`OrdersAreObeyed`).
Also wanted, and not so: that a refund never goes out beside a split
(`RefundsDoNotCrossSplits`), and that a refunded order is closed whatever happens to the server
(`RefundedOrdersClose`); see section 7.

**Attestations.** What was hashed once must be rebuilt from rows that leases, extensions, restarts
and refunds keep changing (`AttestationsStayTrue`). An upload that timed out may be executed after
all and beside its repetition (`ConfirmedIsOnChain`), and rows that fail must not block the queue
(`RowsSettle`).

**Node health.** Heartbeat handlers, the sweep and the removal of a node compute the same column
from what they read at different times, without a transaction. Wanted: a product whose nodes are
silent is blocked unless the sweep was disturbed (`SilentProductsAreBlocked`), one with a node that reports sells
(`ReportingNodesSell`), and the supplier's last notice is the true one (`BlockedSuppliersAreTold`).

**Checkout.** Prices multiply in int64; an order is computed from a product read before the
transaction; a renewal is quoted, shown, placed later, and may be sent twice. Wanted
(`ChargesAreRight`): the amount charged is the mathematical one or the order is refused, what was
agreed to is charged, one request makes one renewal, the least order of a listing that was let through
passes the checks of an order, and the policy in force at the commit applies.

**Suppliers.** Who is swept out for an expired certificate sells nothing, although listings and newer
certificates are being reviewed meanwhile, and is told once; an identity once verified is
not replaced by a submission that was checked before (`SuppliersAreVetted`). Splits go to a
number of the supplier's own, whatever order notices come in (`NumbersAreReliable`).

**Documents.** An order is invoiced once, for what was paid, and refused only for a reason
(`InvoicesAreTrue`); tickets only move forward, are answered only when accepted, and get numbers
(`TicketsAreTrue`). Both number by the largest text.

**Equipment, leads, collateral.** What goes on sale comes out of a review, a draft says why it is one,
nobody asks for more than is on offer, and the market leaves no more leads than inquiries
(`EquipmentIsReviewed`); a commission is booked once for each time a lead was assigned, to the vendor it
was given to (`LeadsAreFair`); who pages through registrations while others write misses none, and one that was
cancelled stays as it was (`RegistrationsAreReliable`).

**Sessions.** A code admits once and is the one sent last, a few guesses spoil it (`CodesAreSafe`); a
refresh token is spent once, who is frozen or logged out stays so although the keys expire and the
write to Redis may fail (`SessionsAreSafe`); a scan serves the browser that showed it, and what it
yields is used once (`ScansAreTheirOwn`).

**Search and advice.** Needs are in cards, orders in machines, minimum orders and billing cycles round
up: what meets a buyer's model, mode, cards, time and budget comes before what does not
(`WhatMeetsComesFirst`), and an advised node can run the order (`AdviceIsSound`). The answer of the language model is cut
anywhere: what has been shown stays true (`SummariesAreTrue`).

## 3. The modules

| Module | Models | Under |
|---|---|---|
| `Orders` | products, orders, renewals, refunds, credentials, and the three jobs on them | `internal/compute` |
| `StockLedger`, `OrdersLedger` | what the order domain promises about stock, and the mapping of `Orders` to it | |
| `Payments` (EXTENDS `Orders`) | charges, splits, refunds, the gateway, the network, restarts | `internal/payment` |
| `Attestations` (EXTENDS `Orders`) | the hooks of the orders, the queue, the worker, the chain | `internal/blockchain` |
| `Onboarding` | merchant numbers | `internal/payment` |
| `NodeHealth`, `Advice` | liveness of nodes; scores and advice | `internal/scheduler` |
| `Pricing`, `Checkout` | amounts; placing and renewing against changes of product and policy | `internal/compute`, `trading`, `admin` |
| `Suppliers` | identity, onboarding, certificates and their sweep, review of products | `internal/user`, `compute` |
| `Numbering`, `Invoices`, `Tickets` | serial numbers, invoices, tickets | `internal/invoice`, `ticket` |
| `Leads`, `Equipment`, `Collateral` | brokerage, the equipment market, registrations | `internal/intermediary`, `equipment` |
| `SmsCodes`, `Sessions`, `WeChat` | codes, tokens and freezes, scans | `internal/auth`, `admin` |
| `Matching`, `SummaryStream` | the guided search and its summary | `internal/agentsearch` |
| `MCOrders`, `MCPayments`, `MCMoney`, `MCLive`, `MCNodeHealth`, `MCAttestations`, `MCOffices` | instances for TLC | |
| `CountingProofs`, `OrdersProofs`, `OrdersLeaseProofs`, `PaymentsProofs`, `AttestationsProofs`, `MarketProofs`, `LoginProofs`, `OfficeProofs` | the theorems | |

Every definition that models code is listed in `PROJECT.json` with its lines.

### Orders

`prod`, `ord`, `ren`, `dlv` are the tables `products`, `orders`, `order_renewals` and
`order_deliveries`, reduced to the columns that decide something. `None` is SQL's NULL in a time
column; `unit` stands for the pricing mode (the length of a billing cycle, 0 for an outright sale).
`job` and `todo` are the program counter and the list of the job loop. `capacity` is a history
variable: what the product had when its stock was last set.

Each action is one transaction of the code with all it calls: `PlaceOrder`, `ConfirmDelivery` and so
on carry the names of the functions. Three are split or joined for readability:

* `PaymentArrives` is the order side of `confirmPayment` (`ConfirmPayment`), with
  `ApplyRenewalPaymentTx` as `ApplyExtension` and `ApplyRestart`.
* `CloseOrder` is the common body of `releaseStockTxDeadline` and of `AdminUpdateOrderStatus` with
  "cancelled"; the buyer, the operator, both jobs and the completed refund use it.
* A job is a `List...` action followed by one action per order on the list, since the code lists
  outside and handles each order in a transaction of its own; between them anything may happen. What
  the handler re-reads under its lock (`LeaseIsOver`) is read again in the model, and what it
  does not is not.

Abstractions. Times are ticks; calendar months (`LeaseEndAt`) become cycles of whole ticks, and
comparisons keep their direction and strictness. Refusals that depend on something outside the
module (health of the product, qualification, the trading switch, consent to terms) are steps not
taken: the model allows every behaviour in which they do or do not refuse. Prices, `expected_*`
and `request_id` of a renewal, and the early read of the product in `PlaceOrder` are in `Checkout`.
The code's LIMIT 500 on job lists is ignored (lists are handled oldest first and every round lists
again). Rows from before `stock_reserved` existed (NULL there) and functions nothing calls
(`CompleteOrder`, `CancelOrder`, the `FreezeOrder` wrapper, `Deliver`, `UpdateOrderStatus`,
`revokeAccessByOrderNo`, `SeedBuyerOrders`) are not modelled. One server runs, as the deployment has it.

### StockLedger and OrdersLedger

The ledger knows three numbers per product (units on the shelf, units out on orders, their total) and
whether it is on sale. An entry takes some units from an open shelf, brings some back, or counts a
shelf anew; a product may open or close at any entry. `OrdersLedger` maps products to shelves and
the sum of what orders reserve to the units out, and states the implementation as `StockIsALedger`.

### Payments

`pay` is the row of `payments`, `settle` the two rows of `settlements`, which every statement moves
together. `gw` is what the gateway knows, `wire` the requests on their way to it, `hooks` the
refunds that are committed but whose hook has not run.

* A call to the gateway is made between two transactions. The first (`TrySplit`, `SubmitRefund`)
  commits the request number and puts a message on `wire`. The gateway takes it (`GatewayDivides`,
  `GatewayRefunds`), or it is lost (`LoseRequest`). The second (`ApplyDivideResult`,
  `RefundSucceeded`, `RefundFailed`) is reached through the answer, a notice, or a query, which all
  end in the same function; since a final result at the gateway does not change, all three read the
  gateway's books when they are handled, which covers answers that are late, repeated or missing.
* A query for a number the gateway does not know is a failure for the code (`NotFound`), and so is any
  other error the gateway answers a call or a query with (`TakenForFailed`), whatever has become of the
  request. Nothing keeps a query from overtaking the request it asks about: `trySplit` commits first
  and calls afterwards, and runs from handlers beside the jobs. So a request may still be on the wire, or
  be carried out, after its row has given it up.
* A share that was split without a number to ask it back by stays with the operator (`NeedsAHand`);
  the refund waits.
* `AcceptPayment` contains `PaymentArrives` of `Orders`, as the code makes both in one transaction;
  `RefundHook` contains `CompleteRefund` and is a step of its own, as in the code.
* `ServerCrash` loses the hooks and any part of the wire, and restarts the job loop.

Abstractions. `Pay` is one step with the creation of the payment at the gateway (the buyer gets the
cashier's address only after the commit). An order has one payment row at most. The order in which
the loop runs payment jobs and order jobs is not fixed, so the model has every order and more. The
pause of an hour after a failed split, the windows of 2 and 30 days and the LIMITs are left out.
A supplier's merchant number is gained and never lost (`BoardMerchant`); how it is gained is
`Onboarding`. `MaxRequests` bounds the splits and the refunds that are asked for per order.

### Attestations

A transaction of an order that has a hook adds its target to `due`; `RecordAttestation` is the hook,
a later step, which hashes what the tables say by then. A hash is the payload itself, kept as a
value. `att` are the rows with their status and attempts. `worker` walks through
`processPendingOnce` by its statements: list a batch, ask for the account and its sequence, broadcast,
wait, mark confirmed or record a failure; the account and its sequence number are asked for before each
row's broadcast (`UploadHash`). `chain` is external: a transaction is executed when its sequence number comes up; one whose
broadcast timed out stays in a pool and may be executed later. A write to the database may
fail (`MaxFaults`), and a restart loses the hooks and the batch. `signed` is the one
column a payload needs that `Orders` leaves out.

### NodeHealth and Advice

`node` is `supplier_nodes` (status, and whether the last heartbeat is less than 90 seconds old),
`health` the column of `products`, `told` the last notice. `refresh` holds, for every worker (the
heartbeat handler of each node, the sweep, the handler that removes a node), where it is in
`refreshProductHealth` and what it has read: the previous health, the aggregate, the write and the
notice are four steps. `sweep` holds the two statements of `MarkStaleOffline` and the list between
them. A handler ends long before the 90 seconds (`FallSilent` waits for it). `disturbances` counts
restarts, registrations, and nodes that fall silent between the two statements of the sweep.

`Advice` has `scoreNode` with its four parts and the choice of `Advise` over every fleet. The
percentage of use is what the column holds, up to 255.

### Pricing and Checkout

`Pricing` writes `CalcOrderAmount` with a multiplication that wraps to `WordSize` words and the
code's division that looks back; the limits are parameters. `Checkout` runs `PlaceOrder` in its
three steps (read the product, compute, transaction) against resubmissions, reviews and policy
changes, and renewals by a quote with `request_id` and `expected_*`, sent again at will.
`Priceable` leaves out the refusal of a fee below 0 or above the amount, which rates from 0 to
`Base` do not meet.

### Suppliers and Onboarding

`Suppliers` has the identity rows of a user (checked and written in two statements), the
qualifications in the order of their ids, the desks of operators who review, and the sweep with the
list it has read. What a transaction locks is locked in the model by the steps it excludes.
`Onboarding` has the row of a supplier, the applications at the gateway, and notices that are delivered
any number of times in any order: a notice is not consumed.

### Offices: invoices, tickets, equipment, leads, collateral, sessions

In each of these a handler with two statements is a program counter per request (`apply`, `call`,
`review`, `asking`, `updating`, `desk`, `freezing`), with what it read kept beside it, and every
statement is a step. A compare-and-swap writes only if the status is still what was read; a plain
UPDATE writes anyway. A unique key is a guard whose refusal is a step with its own answer.
Redis keys carry the time they expire at; a script of `sms_code.go` is one step.

`Invoices` sees of an order only what `Apply` asks about it; reads of the transaction's snapshot are
separate from its locks. `Numbering` compares numbers as the text column does, by the digits that
stand where the padded ones do. `Leads` keeps the rate limit in the memory of the server, where a
restart forgets it; a commission carries who closed the deal and in which round of assignment, which
the code keeps in no table, and no sum: that is one product of floating-point numbers, and nothing
relies on it.
`Collateral` counts time in half days, so that "the last day" has an inside.

### Matching and SummaryStream

`Matching` scores candidates as `matchProducts` does, with the estimate a buyer is shown; the
reading of a text by the language model is the variable `wish`. `SummaryStream` cuts an answer
of JSON fields at every place; a text is a sequence of units (letter, space, escape, pair of
surrogates, half a pair), a unit has the length it has on the wire, and `partialJSONString` is what
it returns for what has come. Fields are named once; code fences are left out.

## 4. The runs

| Run | Question | Bounds |
|---|---|---|
| `orders` | safety of Orders, and that it implements the ledger | 1 product, 3 orders, 1 unit, cycles of one tick, 2 ticks; starts empty or with a product on sale; the supplier acts until the first order exists |
| `payments` | safety of payments, and that they obey Orders | two worlds, one per behaviour: one order from an empty market with 2 splits, 2 refunds and 1 restart; or a lease in use with its money at the gateway and one order that extends or restarts it, 1 split and 1 refund of each |
| `live` | the jobs, the money and the uploads get done | three worlds, one per behaviour: 2 orders by the cycle with a restart; an order closed and its late money, with another order of the same product, 2 requests of each kind and losses; up to 2 rows with refused uploads |
| `nodes` | silent products are blocked, suppliers told, a reporting node sells | 2 nodes of one product, 2 events: silences, or one restart, registration or silence in the middle of a sweep |
| `attest` | attestations stay true and are on the chain | 3 orders with all their steps, 2 ticks, 2 attempts, 1 requeue, 1 refused write, batches of one, up to 2 rows before the account is open |
| `offices` | all other components | one office at a time, below |
| `repriced`, `used`, `stranded`, `consumed`, `hooklost`, `crossing` | violations, section 7 | the smallest that show them |

Why the bounds suffice for what they are asked:

* Three orders of one product are a lease and two renewals (an extension on an extension, a restart
  after an extension, a renewal beside a refund), or two leases that compete for the last unit, one
  of them renewed. Quantities matter only through sums, and the conservation of units is proved for
  all of them. Two ticks with cycles of one tick put "before the end", "at the end" and "after
  the end" of a lease, of an extension and of a payment deadline within reach; a lease that begins
  at 0, is extended before 1 and ends or restarts at 2 fits. A restart of the server changes only the
  place of the job loop and is in `live`, where it can stop something from happening.
* In `payments` and `live` two requests are the first that fails, is lost or is given up too early, and
  the second that is sent in its place; a third meets the same states. Lost, late and repeated answers need
  no bound. In the first world of `payments` the listing is changed by its supplier only until it is
  ordered; in the second the shortest way leads to the lease in use, and from there on the
  gateway ends each request at once, knows the number of a split, and there is no restart: renewals, closings,
  refunds and answers too early are what is left to meet. All of it together, for any number of orders,
  requests and restarts, is what the theorems of `PaymentsProofs` are about.
  In the money world of `live` time passes until money is taken in, a split may be asked for again or its order
  refunded, but not both, and refunds are answered at once; a restart does no
  more to the money than lose requests, which are lost there anyway, and hooks (`hooklost`); renewals are
  left out, their money is moved by the same jobs.
* In `attest` two attempts are one that is repeated and one that is the last; with batches of one and two
  rows one waits behind another. The account is opened when there are few rows, and from then on only
  worker and chain act; behaviours without the account go on to all three orders.
* Two nodes are the case where one hides the other; two silences let each fall silent, or one
  twice.
* `live` keeps worlds apart since what one does cannot delay another: they share no fair action but
  `Jobs`, which is in both worlds it matters to.
* `offices` joins components that share no variable, one per behaviour (`office`), so that each
  property is checked over its own component and over nothing else's product. Two requests or people
  meet in each: two applications over two orders, two tickets with two callers and three numbers
  before the digits run out (`Limit` = 3 in base 3), two reviewers of one listing, a clerk and a
  reader with pages of two, two purposes of code with two senders, two browsers and two alerts, two
  accounts that scan, two desks with three certificates, two listings or three for a search, two
  nodes for an advice. Amounts use base 4 with words of 64 values, so that products that wrap are
  common; the theorems of `MarketProofs` cover the real sizes.

Deadlock is checked in every run but `live`, `attest` and `offices`. In those the bounded world
comes to its end: rows are all uploaded, the counter of tickets or codes is used up, an advice has been
given. The job loop and heartbeats keep the others going.

## 5. Fairness

* `WF(Jobs)`: the loop is a goroutine with a ticker that runs all jobs, catches the error of each
  and goes on (`main.go` 257-304); within a job one order that fails is logged and passed over.
* `PayFairness`, and `LiveSpec` alike: weak fairness of what the service does per order (jobs poll
  every unfinished payment, split and refund in every round), of the job that queues refunds of
  closed orders, and of the gateway's treatment of what has reached it.
  Nothing obliges the buyer to pay, the operator to start or repeat a refund, or the network not to
  lose a request. `RefundHook` is part of the service's step, which is right while the server stays
  up: it is the next statement after the commit. The run `hooklost` shows what a restart does to it.
* `WF(ProcessPending)`: the worker's own steps (`worker.go`, a ticker). Nothing obliges the operator to
  open the account or to requeue dead letters; `RowsSettle` starts when the account is open.
* `NodeHealth`: weak fairness of each worker that is in the middle of a refresh and of the sweep.
  Nothing obliges a node to report; `ReportingNodesSell` assumes in its statement that one does.

## 6. The proofs

All theorems hold for every value of the constants under the assumptions their modules name
(`OrdersAssumption`, `PaymentsAssumption`, `AttestationsAssumption`, `NodeHealthAssumption`,
`PricingAssumption`, `CheckoutAssumption`, `AdviceAssumption`, `MatchingAssumption`,
`StreamAssumption`, `SuppliersAssumption`, `OnboardingAssumption`, `LeadsAssumption`,
`NumberingAssumption`, `InvoicesAssumption`, `CollateralAssumption`, `SessionsAssumption`,
`SmsAssumption`, `WeChatAssumption`), that is for any number of products, suppliers, orders, users, units, cycles,
ticks, restarts and requests. The assumptions type the constants and state the signs of limits and
lengths of time; what the code enforces by validation is an assumption on the inputs and nothing else is.

Every safety property the passing runs check is a theorem: invariants and action properties
alike, and the two refinements. Of each liveness property the safety part is one too: that what must
happen is never lost sight of, and that the steps fairness promises lead to it. That they are taken stays with
TLC.

`CountingProofs` has what the others count with: quotients, the least of a set of numbers, who stands first in
a row and where, and sums. A sum is a fold of the community modules, whose recursion is hidden in a CHOOSE. That the recursion has a solution,
and one that agrees on every part of the set, is shown by a smallest counterexample (`SumsExist`,
`SumOfSums`), and that any element may be taken first likewise (`SumWithout`). The library's induction
theorems take an operator as a parameter and cannot be instantiated here; that every set of numbers has
a least element can be cited (`WFMin`, in `LeastNumber`), and a set of numbers is named where the
induction theorems would want an operator.

`OrdersProofs`:

* `TypeCorrect`: `Spec => []TypeOK`. The point is in the arithmetic: stock stays a natural number
  because `DecrProductStock` checks it in the update itself.
* `StockIsConserved` and `FamiliesStayFlat`, by the inductive invariant
  `StockInv == TypeOK /\ FamiliesAreFlat /\ StockConserved`. Conservation alone is not inductive: when
  an operation closes a lease with its unpaid renewals, the units go back to the product of the
  lease, and it takes `FamiliesAreFlat` to know that the renewals hold units of the same product
  and that none is counted twice; that in turn needs the bound on what an order reserves. Units
  are counted as a set of pairs (`UnitsOf`), so that the sum over orders is a cardinality: the lemmas
  `UnitsAdd`, `StockGivenBack`, `StockTaken` and `StockRecounted` say how it changes, and one lemma
  per group of operations uses them.
* `OrdersKeepTheLedger`: `Spec => StockIsALedger`, the refinement. By `StockInv` the units out are
  what the last count says less the shelf, so it is enough to know how a step moves one shelf
  (`MovesAreEntries`): down, while the product is on sale; up, by no more than is out; or to a count.

`OrdersLeaseProofs`:

* `AccessFollows`: `Spec => []AccessFollowsLease`. `AccessInv` adds that a renewal has no credential of its
  own: operations move the statuses of renewals without looking at one.
* `TimeIsKept`: `Spec => PaidTimeIsKept`, an action property, from `StockInv`: every step that completes
  a lease has looked at its end again, whatever list it works from, and only `CompleteRefund` moves
  an end back.
* `FamiliesHoldOnce`: `Spec => []FamilyHoldsQuantity`. `HoldInv` says what each member of a family holds by
  its status: a lease holds its quantity while it lives, a renewal only while it waits and its
  lease is completed, and one renewal of a lease waits at most. `MovesHold` reduces a step to how it
  moves each order; operations that close a family share `CloseOrderHolds`.
* `RenewalsStayGood`: `Spec => []OpenRenewalsAreGood`. `OpenInv` says of every lease how its renewals stand
  to it and to each other: a bill that can be paid is the last renewal and quotes the end the lease
  has (`BillIsGood`); extensions that count and are not over follow each other and end with the lease
  at the latest (`PairIsGood`, `ExtensionIsGood`); a restart nobody signed for is the last restart of a
  lease that is not in use (`RestartIsGood`); and while one refund waits, what could be refunded
  besides is over (`RefundIsGood`). The last three are what shows that two refunds are never open at
  once, of which the code has no check: it follows from `unusedRenewal` only along the history of the
  lease. Most operations are quiet, they neither begin a lease nor move its end nor pay a renewal
  (`QuietKeeps`); the others have a lemma each, and leave other families alone
  (`OneFamilyKeeps`). Before the proof, TLC checked `OpenInv` with three and four orders.
* `LeasesLastAsPaid`: `Spec /\ []CyclesStand => []LeaseIsPaidFor`. `PaidInv` adds to the sum that a quote
  runs exactly as long as the duration it charges (`QuoteIsPaid`), and that a lease in use has begun:
  with `OpenInv` this is why a lease that is signed for anew starts with no extension that counts
  (`ConfirmDeliveryPays`), and why the extension that is paid or taken back is one more or one less in
  the sum (`ApplyExtensionPays`, `RefundExtensionPays`). `CyclesStand` says that the product of a first
  lease that waits to be signed for still has the cycle the order was priced in. It is a condition
  on the behaviour and no assumption of the model: nothing in the code ensures it, and the run
  `repriced` shows a lease of the wrong length where it fails.
* `LeasesLastIfModesAreKept`: `Spec /\ [][ModesAreKept]_vars => []LeaseIsPaidFor`, the same with a condition on
  what suppliers do in place of `CyclesStand`: none changes the pricing mode of a product while a first lease
  of it waits to be paid, delivered or signed for. `CyclesInv` needs that nothing begins to wait as a first
  lease but a new order: a lease may be delivered again, but only for a restart that counts, and a
  restart that counts goes on counting, whatever is refunded and closed (`Follows`, `StillCounts`).
* `LoopGetsThere`: for an order that is over and unpaid, a lease that is over and a credential that has
  expired, the turns the job loop may still take before it is there (`TurnsToClose`,
  `TurnsToComplete`, `TurnsToRevoke`) are `3 * MaxOrders + 4` at most, each turn is one less, and nothing
  but a restart makes them more. The list the loop works from is old, so an order that is over but not on
  it counts the rest of this list and the whole next one. What time has ended stays ended until it is
  handled (`DeadlinesStand`): no payment, renewal or refund moves an end that has passed. `JobsCatchUp` is
  this with fair turns.

`PaymentsProofs`:

* `PaymentsImplementOrders`: `PaySpec => OrdersAreObeyed`. The refinement mapping is the identity on the
  variables of Orders; every step of the service, the gateway, the network or a restart is a step of
  Orders or leaves its variables alone. `StockIsConservedWithPayments` follows, and so do the
  invariants of the orders that the other theorems use.
* `PaymentsTypeCorrect`: `PaySpec => []PayTypeOK`.
* `TheBooksAgree`: `PaySpec => []BooksAgree`. `BooksInv` says what is known of a request that may have been
  given up too early, and may still be on the wire or carried out under a number the row has left behind: a
  message is that of its row or of an older number and asks for what was known when it was sent
  (`InStep`), two messages for one number are one (`Distinct`), the gateway has heard of no number that was not
  given out (`Unasked`), a result in the row is one the gateway gave for the number in the row
  (`SplitIsKnown`, `RefundIsKnown`), and a hook is told only what has happened (`ToldRightly`). It promises
  what rows say was done. It does not promise what they say was not: a split that was given up may be
  carried out (section 7, `crossing`).
* `SuppliersArePaidWhatTheyServed`: `PaySpec => []SuppliersArePaidForService`.
  `BegunInv` says that a lease that is or was in use has a start, and that a restart keeps the start of the
  lease it replaced; so the marks that an order was served are never lost (`MarksStay`), and `ServedInv`
  carries them to the message that is still on the wire.
* `LeasesInUseArePaid`: `PaySpec => []LeasesInUseAreFunded`. `FundInv` ties the status of an order to that of
  its payment and its refund, down to the messages on the wire. An order whose refund waits is left out of
  the property: that a lease can be in use by such a restart is the finding `used`.
* `OnlyRestartsLoseHooks`: `PaySpec => []OrdersAreTold`. Until the server is restarted, an order whose money is
  back and that still waits for its refund has its hook to come, or is a renewal that was used
  meanwhile, which the hook refuses. `MarkedInv` says that a recorded refund was asked for; then it takes
  that every place which records one starts the hook (`RefundsAreRecorded`), that no order begins to
  wait for its refund after its money is back (`ComesFrom` lists where a status can come from, and `FundInv`
  what the payment is there), and that a renewal that was used stays used (`UsedStays`). It is the other half
  of the finding `hooklost`, which shows that one restart is enough.
* `RequestsGetThere`: an open split and an open refund come nearer to their end with every step of the service and of
  the gateway for their order, and no step of anybody else, no loss, no error taken for a failure and no
  restart takes them back. The measures (`SplitLeft`, `RefundLeft`) count what the service has still to do for
  the request in the row, and what the gateway has to do for any request of the order, since one that was given up
  may still arrive (`GatewaySteps`: twice the messages on the wire, and the requests it works on; the wire is
  finite, `FiniteWire`). A request cannot get stuck (`RequestsCanGoOn`): it is one of a payment that was made, so
  that the gateway can clear it, and has the number to ask by; one that waits to be sent has a number left
  (`NumbersInv`), or is a refund that needs a hand (`NeedsAHand`). `LateMoneyIsSeen` says of money that came
  for an order closed or frozen meanwhile that it stays where the next look of the service finds it, and is then
  queued to go back; it takes `TradeDrifts`, which lists how an operation of the orders moves the order of a
  payment that is not taken in. `RequestsEnd` and `LateMoneyGoesBack` are this with fair steps.

`AttestationsProofs`:

* `ConfirmedStaysOnChain`: `AttestSpec => []ConfirmedIsOnChain`. `ChainInv` adds where the worker stands in its
  batch and that a transaction it is about to mark is executed and carries the hash of the row.
* `AttestationsRemainTrue`: `AttestSpec => []AttestationsStayTrue`. The time of a delivery is read from the
  oldest restart that was signed for, or from the lease itself. `MarksInv` says that only restarts that were
  paid are marked, and that a lease that is to be delivered again left its first start with a restart;
  `Stays` and its lemmas show of each step that the time that was hashed is found again.
* `WorkRunsOut`: once the account is open, every step of the worker makes `WorkLeft` smaller: four times
  the attempts that rows have left and the writes that may still be refused, and the steps to where the
  worker rests. `TriesInv` says that a row that waits has an attempt left, and that what the worker took still
  waits. Only a hook, the operator who requeues dead letters, a restart, and an account that is missing
  bring work. So no row is tried for ever, and none keeps those behind it waiting. `RowsSettle` is this
  with a fair worker.

`MarketProofs`:

* `AmountsAreFound`, `AmountsAreExactlyThat`, `FeesAreExact`: the division that looks back accepts a
  product exactly when it did not wrap (`DividesBack`), for every word size larger than the limit, and
  the fee computed in two parts is the share of the whole.
* `ChargesStayRight`: `CheckoutSpec => ChargesAreRight`. `CheckoutInv` says that who has priced an order
  holds the policy (`PolicyIsHeld`), that every row was computed exactly (`OrdersFit`), and that a lease
  has one renewal that waits at most (`RenewalsAreSingle`), so that what a lease that ends gives back is
  one row's units. The proof found a case the bounds of the run had left out of `ListingsCanBeBought`:
  units that come back can lift the shelf to the least order of a listing that asks for more than any
  order may be.
* `AdviceStaysSound`: the order of the nodes is shown to be total and a best node to exist among any
  finite fleet; then the advice is the best usable node.
* `WhatMeetsStaysFirst`: what a requirement names weighs more in the score than all that it does not name
  (`AheadMeetsToo`), and the page holds the first ones of the sorted candidates.
* `HealthIsTyped`: also that no worker writes a health that is NULL, since the aggregate of no node is
  "unknown".
* `SilenceIsNeverForgotten`: while the sweep is not disturbed, a product whose nodes have all fallen silent
  is blocked, or has a node the next sweep will find, or is on the list of this one, or is about
  to be blocked. `WatchInv` says that between its two statements the sweep has every node it will mark on
  its list (`SweepIsWhole`), that what was marked is on the way to be written (`DarkIsBlocked`), and that a
  handler, working for a node that reports, never finds its product offline (`HandlersReport`).
* `BlocksAreAlwaysTold`: under the same condition the last notice about a blocked product is that it is
  blocked, or the sweep is just about to give it. A handler that is late with the news that the product is back
  would break it; `NewsAreInOrder` says what handlers and sweep have read when they write, and so that none is.
* `ReportersOpenTheirProduct`: while a node is up, only who has counted before can still block its product
  (`Blockers`), each once; and a refresh that has found it blocked counts the node and writes that it is not,
  in three steps of its own (`IsOpening`, `StepsToOpen`), unless another has written so before. It is the part of
  `ReportingNodesSell` that does not need reports to go on.
* `SummariesStayTrue`: `StreamSpec => []SummariesAreTrue`. Where a field begins and ends is a sum over the
  fields before it, so that the fields of an answer follow each other without a gap; what is certain of a text
  only grows with what has come, since an escape or a surrogate pair that is not complete is not
  shown. `StreamInv` ties what was shown to what has come and to the field that says whether the answer
  is relevant, wherever it stands among the others.

`LoginProofs`:

* `ScansStayTheirOwn`: a state that was exchanged and a ticket that was used are dead, their time to live is
  over (`UsedStatesAreDead`, `UsedTicketsAreDead`); that is what makes "once" inductive.
* `SessionsStaySafe`: `TokensInv` says that the key that marks a token as spent outlives the token, also for a
  refresh that has read the time to live and not written yet (`RefreshesInTime`), and so that a login has one
  unspent token (`OneUnspent`), or none after its end. `FreezesInv` follows an operator from the alert to
  the revocation and ties audits to the alerts they are for.
* `CodesStaySafe`: `SmsInv` counts codes and misses by the keys that hold them. Attempts that began with an
  earlier code expire before a later one does (`Missed`), which is why a code can be missed
  `2 * (VerifyAttempts - 1)` times, and no more.

`OfficeProofs`:

* `NumbersStayReliable` (Onboarding): `RequestsNameTheirUser` ties a request number to the supplier who asked,
  in the row and in every call under way, so that a late notice cannot complete another one's row;
  `NumbersDiffer` is the unique key.
* `SuppliersStayVetted`: `CertInv` says what the sweep has read of the certificate it is about to expire
  (`SweepFits`), `OneInv` that a user has one application that is open, granted or under way, and `SweptInv`
  that who is swept out has nothing on sale and nothing that a review is about to put there.
* `LeadsStayFair`: hits in the memory of the server cover the leads left in any window, per life of the
  server (`HitsAreLimited`, `LeadsAreLimited`). A lead that is assigned or quoted is in the hands of the vendor of its last
  round (`InTurn`), and that round has booked no commission yet (`Earned`), so that the one its closing books
  is that vendor's and the only one of the round (`Once`).
* `TicketsStayTrue`, `InvoicesStayTrue`: what a request has read is still reached from, or overtaken by, what
  the row says now (`CallFits`, `ApplyFits`); who is refused for a number found the digits used up.
* `EquipmentStaysReviewed`: who is about to put a listing on sale has found it waiting in this review, and it waits
  still or was withdrawn or judged since; `LeadsAreCovered` counts inquiries recorded, mirrored and in between.
* `RegistrationsStayReliable`: a row the reader has not seen stands beyond the pages already turned
  (`RowsAreAhead`), since places only grow unless a row is written over.

Only model-checked:

* Every liveness property: `JobsCatchUp`, `LateMoneyGoesBack`, `RequestsEnd`, `RowsSettle`,
  `ReportingNodesSell`, `SilentProductsAreBlocked`, `BlockedSuppliersAreTold`. Fairness and
  ENABLED are out of the prover's reach. The safety they rest on is proved: of `JobsCatchUp` by `LoopGetsThere`,
  of `RowsSettle` by `WorkRunsOut`, of `SilentProductsAreBlocked` by `SilenceIsNeverForgotten`, of
  `BlockedSuppliersAreTold` by `BlocksAreAlwaysTold`, of
  `ReportingNodesSell` by `ReportersOpenTheirProduct`, and of `RequestsEnd` and `LateMoneyGoesBack` by
  `RequestsGetThere`.
* What the violated runs show: a proof cannot show that a state is reached.

## 7. Where code and documents part

Runs that TLC must find violated, each a finding in `PROJECT.json` with the text it contradicts:

* `repriced`: a first lease takes its billing cycle from the product as it is at delivery, not as it
  was paid for.
* `used`: the refund of a restart goes out although the buyer has signed for the delivery meanwhile;
  the lease stays in use.
* `stranded`: the money of an extension whose lease was closed has no operation left that moves it.
* `consumed`: the payment of a lease that was used to its end is refunded automatically, after a
  restart of it was paid and closed.
* `hooklost`: a restart between the record of a refund and its hook leaves the order waiting for good.
* `crossing`: a query that comes before its split has reached the gateway makes the split a failure, and a
  refund goes out beside it.

Seen in the same models, and shown by changing one bound or constant, or by checking a definition
that no run checks:

* Of `crossing`, further on: a split that was given up and then carried out leaves a settlement that is failed,
  or cancelled by the refund, although the supplier has the money; a new split is then refused by the
  gateway, and a refund does not ask the share back. In the same way a refund can be recorded as failed although the
  buyer has been paid. `BooksAgree` therefore promises what the rows say was done and not what they say was not.
  Whether the gateway refuses the refund of an order it has divided in part is its own business; the model
  lets it accept.
* `SilentProductsAreBlocked` excuses disturbances, and needs to. A node that passes the 90 seconds
  between the two statements of `MarkStaleOffline` is marked offline, but its product is not on the
  list of products to refresh and stays on sale (`docs/23-智能选型与节点调度设计.md:60` and `:62`). A
  restart between marking and refreshing does the same. A product whose only nodes were registered
  and never reported keeps the health "unknown" and can be ordered (the same document, `:60` and `:68`).
* An attestation is lost when the server stops between the commit of an operation and its hook
  (`Restart` empties `due`), while `blockchain/repository.go:12-14` counts on a row for each event.
* `LinksLeadHome` of `Onboarding`: after two first calls of `StartOnboard` at once the row keeps the
  request of one and the link of the other; the supplier is shown an application whose outcome
  nobody will look up.
* `BoundIsBound` of `Onboarding`: `BindMerchant` with a number that is in the row of another supplier,
  for a supplier who has no row, rewrites the other row and reports success.
* `PoolIsConsidered` of `Matching`: the comment at `agentsearch/service.go:41` has 200 listings take part,
  but a page has 100 at most (`compute/repository.go:678`).
* `Advice`: a use of more than 100 % makes the part for load negative, so that a node that can take the
  order may score below one that cannot (`scoreNode` speaks of parts of 40, 30, 20 and 10). The advice
  itself is chosen among the usable ones, and is sound.
* Invoices and tickets share the rule that the largest text is the last number; after 9999 (999 a day)
  every application is refused for its number. `InvoicesAreTrue` and `TicketsAreTrue` name that as
  the one reason.
* `EquipmentIsReviewed` speaks of the review and not of what was reviewed: a listing that is read, withdrawn,
  sent in anew and then judged goes on sale as it has become, since `ReviewProduct` names the row by its id
  alone (`equipment/repository.go:109`). An inquiry whose mirroring fails is recorded and has no lead.
* `ListCommissions` finds a vendor's commissions by the present assignee of the lead. A closed lead may be assigned
  again, and its commission is then listed for the other vendor; that one lead may book two commissions, one
  for each time it was given, is what `CommissionsAreEarned` allows.
* A listing passes `ValidateProductReq` although its least order exceeds `MaxOrderTotalFen`
  (`compute/service.go:1056`); it can be shown and not ordered. `ListingsCanBeBought` is about quantity and
  duration only.
* A product that waits for review may be counted to zero and is then approved with an empty shelf
  (`ReviewProduct` looks at no stock; `docs/03-功能需求-算力撮合交易.md:25`, REQ-A-012).
* `docs/api/admin-api.md:44` says that closing an order does not refund it by itself; the job
  `queueCancelledPaidRefunds` does so for orders that were closed before they began.

## 8. Not modelled

* HTTP handlers, views, action hints, masking and the console's lists read and call; they have no
  protocol of their own. The seeding of demonstration orders and the credit score are not modelled.
* Notifications, the catalogue, legal consents and the SMS gateway are single inserts and updates; the
  notices somebody relies on are in the modules of those who send them.
* Passwords, their reset, and the captcha (an external service). The encodings and signatures of
  YeePay, YOP and BSN: what the gateway and the chain do is modelled from how they are used.
* What the language model makes of a text, its machine plans, and the limit of calls a minute.
* `Reconcile`, which reads and reports; the pruning of heartbeats and the yearly cleaning of tables;
  the upload of files; profiles of users; statistics.
* The job loop as one sequence over all jobs: payment jobs and the qualification sweep may come at
  any time in the models, which allows every order the loop has.
* More than one server process.

## 9. What could come next

1. One composition of the job loop with all its jobs in their order, and two servers.
2. `Suppliers` composed with `Orders` through the freezing of listings, in place of `FreezeListings`.
