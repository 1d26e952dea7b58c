# desi-event.com: a TLA+ verification of selling tickets

The repository is a ticketing platform: a Fastify API (`apps/api`), a BullMQ
worker (`apps/worker`), a Next.js front end (`apps/web`) and shared packages
(`packages/*`) over one PostgreSQL database and Redis queues. Its core is the
commerce in `apps/api/src/lib`: stock, seats, money and the people who repair
what went wrong with them. This directory models that core, checks it with TLC
on small instances, and proves part of it with TLAPS for every size.

Paths below are relative to `src/`; `A/` stands for `apps/api/src/`.

## 1. The system

Every process of the API and the worker is stateless: all state is rows of the
database and the provider's own records. A request or a job runs some
transactions (READ COMMITTED, with explicit `FOR UPDATE` locks and conditional
updates `UPDATE ... WHERE status = ...`) and, never inside one, calls of the
payment provider. So the interleavings that matter are between transactions,
and what matters most is what is *read in one and used in another*.

| Component | State | Operations | Talks to | What makes it correct |
|---|---|---|---|---|
| Holds and availability (`A/routes/holds.js`, `A/lib/inventory.js`, `packages/inventory`) | `TicketHold`, `TicketType.quantitySold` | reserve, release, expire | checkout, sweep, deletion | no ticket promised twice; lapsed stock returns; a hold an order pays for stays |
| Checkout (`A/routes/orders.js`, `A/lib/checkout.js`, `A/lib/checkout-pricing.js`) | `Order`, `Payment`, `Ticket`, promo and referral counts | begin, capture, settle, compensate, record timeout or unsettled | provider, ledger, tasks | settled once, all or nothing; an answer that is true; nothing charged is released |
| Reserved seating (`A/lib/seating.js`, `A/lib/seated-checkout.js`) | `EventSeat`, `HoldItem` | choose, reclaim, release, sell | checkout, sweep, deletion | a seat has one owner; no leaked seat; settlement finds its seats |
| Payment callback and webhooks (`A/routes/payments.js`, `A/lib/webhook-handlers.js`) | `Payment`, `Order`, `WebhookEvent` | succeeded, failed, canceled, processing, callback | checkout, ledger, tasks | late, repeated or reordered news changes nothing that is closed |
| Webhook intake (`A/lib/webhook-intake.js`, `A/routes/webhooks.js`) | `WebhookEvent` | store, claim, dispatch, mark, retry, dead letter | handlers | no delivery worked twice; a verdict stands |
| Reconciliation (`A/lib/reconciliation.js`) | `ReconciliationTask` | open, claim, note, escalate, requery, resolve | provider, checkout, refunds | a verdict is applied at most once, by the shared commands |
| Event deletion (`A/lib/event-deletion.js`) | `Event` and everything of it | decide, cancel, release, withdraw, restore | checkout, refunds | what is counted is what is there at commit |
| Worker jobs (`apps/worker/src/processors`) | holds, tickets, emails, retention | expire-holds, issue-tickets, drain-outbox, sweep-retention | all | safe to run late, twice and beside everything else |
| Refunds, ledger (`A/lib/refunds.js`, `A/lib/event-refunds.js`, `packages/ledger`) | `Refund`, `LedgerEntry` | request, approve, submit, settle, fail, cancel | provider, tickets, seats | never more given back than paid; balanced books |
| Payouts, disputes (`A/lib/payouts.js`) | `Payout`, `Transfer`, `Dispute` | schedule, pay, settle, fail, reverse | provider, ledger | never pay the same balance twice |
| Outbox (`apps/worker/src/outbox`) | `NotificationOutbox` | claim, send, retry, bury | mail | at least once, with a lease |
| Tickets, admission, group passes (`A/lib/tickets.js`, `A/lib/admission.js`, `A/lib/group-*.js`) | `Ticket`, transfers, scans | transfer, accept, admit, revoke | orders, refunds | one entry per ticket; one owner |
| Pay at the venue (`A/lib/venue-*.js`) | orders with a part due at the door | book, pay, cancel | checkout, admission | money at the door counted once |
| Event life (`A/lib/event-lifecycle.js`, `A/lib/event-cancellation.js`, `A/lib/session-cancellation.js`) | `Event`, `EventSession` | edit, publish, postpone, cancel | orders, refunds | transitions only as declared |
| Referral codes (`A/lib/referral-codes.js`, `A/lib/referral-uses.js`) | use counts and markers | take, give back | checkout, deletion, refunds | a use given back once |
| The rest | | | | accounts and permissions, privacy and retention, analytics, media, import, search, the web application: see `PROJECT.json` |

What is hard here: two transactions that decide from the same rows; the
provider's answer, which may come first as a webhook, last as an operator's
verdict, twice, or never; a request that dies between its phases; the deletion,
which has to count what others are just doing; a clock that passes while a
request waits for a lock. `PROJECT.json` lists each hazard at its line.

## 2. What is modelled

| Module | What it is |
|---|---|
| `Sale` | What selling one tier promises: an accepted order buys all of its tickets or none, and they are kept for it until then or until the promise lapses. No clock, holds or payments. |
| `Checkout` | One tier of one event: holds, the two-phase checkout, provider, webhooks, callback, reconciliation of charges, sweep, ticket job, deletion. |
| `CheckoutHistory` | `Checkout` with a history variable, and what is promised of stock, which speaks of it. |
| `SeatSale` | What selling numbered seats promises. |
| `Seating` | One night: choosing, reclaiming, releasing, sweeping and selling seats. |
| `Payback` | What giving money back on a paid order promises: an amount is set aside, then given back once or let go; the two counters never pass what was paid. |
| `Refunds` | One paid order: requests, approvals, calls of the provider, timeouts, repairs, reconciliation of refunds, admission, deletion. |
| `Attendance` | What a line's tickets promise the door: one pass per place, one entry a night, handed on only unused, ended for good. |
| `Tickets` | One line of an order: transfers, admission, revocation, refunds, cancelled nights, deletion. |
| `Delivery` | What the outbox promises for a message: sent, given up or withdrawn in the end; SENT reached the provider. |
| `Outbox` | The messages, the passes that drain them, the leases, the operator. |
| `Intake` | The stored webhook deliveries and whoever handles them. |
| `Payouts` | An organiser's payouts and the balance they are decided from. |
| `Dues` | What the door promises about a price due there: taken whole, once, when its place is first let in; excused for good if it never is. |
| `Venue` | Bookings to pay at the venue: the event's limit, the referral code's uses, the lookup and confirmation at the door, cancellation of tickets and of the event. |
| `Counting` | What a sum over a finite set is: how many units its elements bring along. |
| `MC*` | Instances for TLC: functions over model values, symmetry. |
| `*Proofs` | Theorems, in a module for each of the eight that are more than a promise. |

What joins them: `Intake` is how the Stripe handlers of `Checkout` are reached,
and `Checkout` lets them come in any order and number, which is more than
`Intake` lets happen (`WorkedOnce`). `Refunds` begins with a PAID order, which
is where `Checkout` ends. What a refund takes is a number of tickets in
`Refunds` and named rows in `Tickets`; what it promises back lessens the
balance of `Payouts`. `Seating` and `Checkout` are the two kinds of stock of one
checkout. `Venue` is the checkout with little or nothing to pay online, followed to
the door: its settlement is the one `Checkout` details, reduced to PENDING, PAID or
CANCELLED, its tickets are those of `Tickets` with what they owe, and its refunds
those of `Refunds`, of which only what they take and when is left.

### Checkout

An action is one database transaction or one step of the provider. A
transaction is atomic because it takes the tier's lock (or the hold's, or the
task's) before it reads what it decides from, and because each status moves by a
conditional update (but for a time-out, `RecordTimeout`, which writes the payment
whatever it has become). What one step reads and another uses is a variable:

| Variable | In the code |
|---|---|
| `request[o]` | how far `orders.create` has got: BEGUN (phase 1 committed), the outcome of the call, REFUSED (phase 3 rolled back), or the answer given |
| the parameter `t` | the request's `now`, read before its locks are awaited; at most `MaxLag` old |
| `candidates` | what `expireHolds` read with no transaction open |
| `decision[op]` | the verdict `reconciliation.resolve` computed from a requery, before its transaction |
| `intent[o]`, `sent[o]` | the provider's record, and what it has announced of it |
| `event` | REMOVING and REFUNDING are the deletion after its decision and before its commit, while it holds the tiers' locks (`TiersFree` keeps others out, and `applyPaymentSucceeded`, which takes no such lock, goes on) |

| Action | Code |
|---|---|
| `CreateHold`, `ReleaseHold` | `holds.create`, `holds.release` |
| `SweepRead`, `SweepWrite` | `expireHolds`, before and inside its transaction |
| `Begin` | phase 1 of `orders.create`: order, line, payment, holds attached, top-up hold, promo use |
| `CreateIntent`, `CaptureAnswered` | phase 2, `captureOutsideTransaction` |
| `Settle`, `SettleRefused`, `Compensate`, `RecordTimeout`, `RecordUnsettled` | phase 3 and its catch |
| `RequestLost` | a crash, or an error that is no outcome of a payment, anywhere between |
| `ProviderDecides`, `ProviderReports` | the provider (external) |
| `Webhook` | `dispatchDelivery` with the four payment handlers; any sent kind, any time, any number of times |
| `Callback` | `payments.webhook`, which settles or compensates through the request's own commands |
| `Requery`, `Resolve` | `reconciliation.resolve`, before and inside its transaction |
| `IssueTickets` | the `issue-tickets` job |
| `DecideDeletion`, `DeleteEvent` | `deleteEvent`, its decision and its writes |
| `Tick` | time, whatever anybody is waiting for |

Choices worth knowing. An order is named by the attempt that places it, as an
`Idempotency-Key` lets an attempt place one; the replay of an attempt changes
nothing and is left out. An order has one line and one tier, so no order
of locks arises. A webhook that finds no payment by its reference opens a task `UNMATCHED`. A task may stay open after
its verdict was applied, since somebody may have moved it meanwhile. Refusals
that only answer an error are the absence of a step. Prices, taxes, attendees,
audits and e-mail are left out.

Two races the code does not exclude are told apart, so that a property can say of each
order whether it lost one, with no assumption on how fast or in which order anybody
acts. The answer `PAYMENT_TIMEOUT` is noted as `OVERTAKEN` where a callback or webhook
had closed the order before its own request recorded the time-out (no guard reads the
difference). And `CheckoutHistory` adds the variable `late`, which no action reads: the
orders that still awaited their payment when a hold of theirs lapsed.

### Seating

Choosing seats takes no lock that keeps another choice out, so it is two steps:
`ChooseSeats` (`holdSeats` up to its transaction, kept in `claim`) and
`WriteSeatHold` (reclaim what still is as it was read, claim all or roll back) or
`SeatsGone`. The sweep is two steps as well. `Attach` is phase 1 of a checkout,
`Settle`, `Compensate`, `WebhookPaid`, `WebhookFailed` and `DeleteEvent` are what
`Checkout` details, reduced to what they do to holds and seats; they may happen
at any moment they are allowed to, which is more than `Checkout` lets happen.

### Refunds

| Action | Code |
|---|---|
| `RequestRefund`, `DeleteEvent` | `requestRefund`, called by the route and by `refundWhatIsLeft` |
| `ApproveRefund`, `ApproveOwed`, `CancelRefund` | `approveRefund`, `approveOwed` of the deletion's refunds, `cancelRefund` |
| `SubmitRefund`, `ProviderPays`, `Record`, `CallLost` | `submitRefund`: the claim, the call with nothing open, the third transaction (`settleRefund`, `recordRefundFailure`, `recordRefundTimeout`), and the process that dies while the call is out |
| `RepairReserved`, `RepairReplaced` | `repairUnreservedRefund` of rows an older version wrote without reserving |
| `LoadTask`, `Requery`, `Resolve`, `ClaimTask`, `EscalateTask` | `reconciliation.resolve`: what it loads, what the provider then says, the verdict it applies; and the task's own states |
| `CheckIn` | a scan, which leaves nothing to withdraw |

`disturbed` is a ghost: something was sent or a task moved while an operator was
deciding. The order has one line at one price; tax, discount, fee-only forms,
venue orders, disputes and ledger batches are left out. A refund of a provider
acts only while its call is out, and repeats nothing under one key. A task may
be left active by a verdict that was committed by somebody else first, as the
code leaves it; a verdict about a SUBMITTED refund may close the task a racing
timeout opens.

### Tickets

A request reads its ticket or offer outside the transaction that writes, so each
is two steps: `AskOffer` and `StartTransfer`, `AskAnswer` and `AcceptTransfer`
or `EndTransfer` (declined, withdrawn, or not delivered), `AskRevoke` and
`RevokeTicket`. A refund reads the tickets it takes under the line's lock and
writes them one by one (`SettleReads`, `SettleWrites`); `LineIsFree` keeps out
what the code locks the line against, and only that: offers and scans go on.
`Admit` lets in any set of standing tickets on a night (one ticket, or those of a
group pass). `DeleteEvent` and `CancelSession` withdraw what stands. Who holds a
ticket, its codes, and what is due at the door are left out; an event's
cancellation touches no ticket; no code writes the statuses EXPIRED of an offer
and VOID or SUPERSEDED of a ticket; DECLINED and CANCELLED offers are both ENDED.
The event has more than one night.

### Outbox

`FindDue`, `ClaimOne` or `ClaimLost`, `StartSend`, `ProviderAnswers`, and
`RecordSent` or `RecordFailure` are the steps of `dispatchOne`, run by passes that
may overlap; `Crash` is the process that dies at any of them; `LeaseLapses` and
`LeaseOutlived` are time passing before and during a send. Instants are the two
booleans a claim asks of them: due, lapsed. `OperatorReads` comes before
`RetryNotification` and `CancelNotification`, which go by what was read. The
provider sees no key (the SMTP and mock adapters ignore `idempotencyKey`), so it
takes a message as often as it is sent. `holder` and `excused` are ghosts.
SUPPRESSED and FAILED are written by no code; redaction, which only forbids a
retry, is left out. A lease carries the name of a worker's process, and passes of
one process share it: `WorkerOf` says whose name each pass has, in any way.

### Intake

`Receive` stores a delivery, or finds it stored, and handles it in line if
`ProcessInline`; `Callback` is `payments.webhook`, which stores a row that its own
transaction has already worked; `ReadDue` is a drain of what `dueDeliveries` lists, of
which the repository has none: it may come to any due row or never, with no fairness,
so that the properties hold with and without one; `ClaimDelivery` or
`AnotherHasIt`, `DispatchDelivery`, and `MarkProcessed`, `MarkIgnored` or
`MarkFailed` are `processStoredDelivery`; `Throws` is a handler or a mark that
throws, `Crash` a process that dies. The marks are unconditional, as in the code.

### Payouts

`ReadBalance` and `SchedulePayout` are apart since `schedulePayout` reads the
balance with no row locked and at READ COMMITTED. `LoadPayout`, `SubmitPayout`,
`ProviderAnswers`, `RecordPayout` are `payouts.send`; `RequestDies` is a crash, or
an adapter that makes no payouts (only the mock's does: Stripe's throws after
SUBMITTED is committed). Any error but PAYMENT_TIMEOUT is recorded as FAILED, and
the model takes such a refusal to be definite. `ReversePayout` claws back, once.
`OrderPaid`, `RefundAsked`, `RefundEnds` are what moves the balance besides. One
organisation, one currency; transfers and disputes are made by no route and no
worker, so nothing of them is here.

### Venue

| Variable | In the code |
|---|---|
| `order[o]` | `Order.status`, and PRICED or COUNTED while `orders.create`'s first transaction is still open |
| `counted[o]` | the limit `assertVenueBookingLimits` read under the advisory lock |
| `ticket[p]` | the row, the nights of its `CheckIn`s, whether its price was paid, whether it was cancelled unpaid, how often it was handed on |
| `refund[o]` | what a refund that was asked for and not yet answered will take |
| `uses`, `returned` | `ReferralCode.useCount`, and the marker `Order.referralUseReturnedAt` |
| `cancelling` | the cancellation of the event while it is not committed, and the bookings its one read found |
| `look[s]` | the signed reference a steward holds, with what it says |

| Action | Code |
|---|---|
| `PriceCheckout`, `Count`, `Place`, `NotPlaced` | the first transaction of `orders.create`: the event read with no lock, the count under the advisory lock, the order and the use of its code, and the rollback |
| `Settle`, `NotCompleted` | `settleCheckout`, `compensateCheckout` |
| `LookUp`, `LookUpGroup` | `previewAdmission`, `previewGroupAdmission` |
| `Confirm`, `ConfirmGroup` | `decide`, `decideGroup`: payment and admission in one transaction, for what was looked up |
| `ReferenceExpires` | the reference's age |
| `HandOn`, `CancelUnpaid`, `RevokeTicket` | `acceptTransfer`, `cancelUnpaidVenueTickets`, `tickets.revoke` |
| `AskRefund`, `RefundFails`, `SettleRefund` | `requestRefund`, `recordRefundFailure`, `revokeAndReturn` |
| `SetTerms` | `setVenuePaymentInTransaction` |
| `CancelLists`, `CancelCommits`, `CancelRollsBack` | `transitionEvent` with `cancellationWork`, whose list is one read and whose writes come later |

`GivesBack` is part of each action that may end a booking unused, as
`settleReferralUsesIfEnded` is called by each of them. A confirmation leaves the
reference with its steward, so it may be sent again, or after anything else has
happened. Of `paymentDueForPreview` the model keeps which tickets owe something
and `dueOf` what they owe, in cents, since the door takes a sum. The booking fee is
an amount online and is not counted: a refund may be asked while the line has
tickets left. TRANSFER_PENDING is part of VALID (`Tickets` has the offers); the
status REFUNDED of an order, which nothing here reads otherwise than PAID, is left
out; a booking id is placed to the end at most once; nights do not end; a
ticket handed on leaves its group.

## 3. What is checked

| Run | Instance | What it shows |
|---|---|---|
| `stock` | 2 orders, 2 holds, 1 ticket, clock 0-1, TTL 1, requests up to 1 tick old, any payment delay, the webhook `succeeded` | `OversoldOnlyByLate` and `ImplementsSale`: every interleaving implements `Sale`, and who oversells the tier had lost a hold to the clock. |
| `ended` | 2 orders, 2 holds, 1 operator, promo code for one, callback racing the request, any payment delay, requests up to 1 tick old | `PromoUsesExact` (four paths give a use back, each once) and `PendingHoldsItsTickets` (no sweep, release or other checkout takes a hold from an order that awaits its payment, however slow everything is). |
| `money` | 1 order, 1 hold, 2 operators, callback racing the request, all four webhooks, any payment delay, clock 0-1, fair | `OneFulfilment`, `BooksMatchOrders`, `SoldIsWhatWasSettled`, `PendingHoldsItsTickets` with every webhook and the deletion, `ClosedStaysClosed`, `NeverCancelCharged`, and the liveness `EveryOrderEnds` and `LapsedHoldsGoBack`. |
| `race` | 2 seats, 3 holds, 2 orders, clock 0-2 | `HoldsOwnTheirSeats`, `SettlementFindsItsSeats`, `ImplementsSeatSale`. |
| `refunds` | 2 refunds, one of them perhaps unreserved, 2 tickets, 2 sends, 1 operator | `CountersMatchRefunds`, `NeverPastPaid`, `TruthfulOutcomes`, `RefundedTicketsDoNotAdmit`, `ImplementsPayback`, type correctness. |
| `tickets` | 2 places, 3 rows, 2 nights, 2 offers, 2 requests | `OfferMatchesTicket`, `NothingStandsWithdrawn`, `RefundsTakeWhatTheyCount`, `ImplementsAttendance`. |
| `outbox` | 1 message, 3 passes, two of them under one name, 2 attempts, 2 mishaps | `DuplicatesHaveACause`, `RecordedByHolder`, `LeaseIsRespected`, `ImplementsDelivery` (its liveness too), type correctness. |
| `intake` | 1 Stripe event, 1 callback, 3 handlers, 3 attempts, 3 upsets, 2 crashes; deadlock checked | `OneHandlerAtATime`, `WorkedOnce`, `VerdictsStand`. |
| `payouts` | 2 payouts of 1-2, 2 people, 2 credits, 1 promised; deadlock checked | `GoneIsCounted`, `AskedOnce`. |
| `door` | 1 booking of 2 tickets at 5 cents, for every night, with a fee; 2 nights, 2 stewards, a ticket handed on once, refunds of 0-2 tickets | `ImplementsDues`: no price is taken twice, in part, or from a ticket that is no longer good, whoever looks up and confirms what, when and how often. `SoldIsWhatIsBooked`. |
| `bookings` | 3 bookings of 1-2 tickets, 2 of them of one code of 1 use, limits 0 and 2, the switch, the event's cancellation | `UsesAreCounted`, `UseComesBack`, `LimitHolds`. |
| `lapsed` | the smallest that shows it | a disagreement, section 4 |

The type invariants of `Checkout`, `Seating`, `Tickets`, `Intake`, `Payouts` and `Venue`
are proved (section 5), so that no run repeats them.

**The bounds.** Two orders are the fewest that compete, two holds the fewest
that give each one, or one a hold that lapses and the other a top-up; two operators
are the fewest with conflicting verdicts. In `stock` the two contend for one ticket, so
that a promise broken by one unit shows. A clock of 0-1 with a TTL of 1 has holds that
lapse before, at and after an instant. `MaxLag` bounds how long a request waits for its
locks. Quantities above 1 (a named hold too small for its order, with a top-up) are left
to the theorems, which are for any. `money` is about one order, whose hold may lapse
at 1 or be replaced by a top-up; no step of it reads another order, the promo count
excepted, which `ended` checks with two. Two refunds of a line of two make every split: whole, half and half, one
that finds too little left; two sends (`MaxSends`) are one each or a send again.
Three ticket rows are two places and one successor, so an accepted transfer
meets everything else; two offers are one that ended and one that stands, two
requests the fewest that race. Three passes of two workers are the fewest that take a
lease over under another name and under the same; two mishaps allow a lapse and a
crash, or a lapse and a requeue, in one behaviour. Three handlers are two that meet and one
that comes later. Two
attempts are the first and the last. Five cents over two tickets are shares of 3 and 2,
so a price taken for the wrong ticket shows; one cent over two (`bookings`) leaves a
ticket that owes nothing and does not count against the limit. A ticket for
every night meets two nights, which is what lets it be paid on one and admitted on
the next; two stewards are the fewest whose lookups cross, and a hand-on (`MaxHandOns`)
once is what makes a reference stale. Three bookings against a limit of 2, which
falls to 0 while they are placed, are two that fit alone and not together with a
third. One refund of a booking is in flight at a time. Deadlock is checked in `payouts` and
`intake`: with a bounded number of orders, holds, sends or mishaps the others end.

**Settings.** `MaxLag` is how old a request's instant may be when it takes its
locks: `A/routes/orders.js:283` reads `now` once, and `A/routes/holds.js:61-63` says such a
request "cannot decide on a stale view of availability"; a hold that lapsed in between is
attached all the same, and its order is `late` from the start. `RefKnown` says
whether a timed-out call may name its intent: the runs have TRUE alone, and section 4
says what FALSE shows. `Switches` (`Venue`) are the positions an
administrator may set the switch to: with TRUE alone, in `door`, it stays on. `EventTypes` names the webhooks the provider
sends: all four in `money`; `succeeded`, the one that moves stock's orders, in `stock`; none
in `ended`, where the callback reports instead. `ProcessInline` is `processInline` of
`A/app.js:69`.

**Fairness.** `Checkout!FairSpec`: a request that is not lost goes on (weak, the
process runs); the provider decides an open intent (weak, its contract); the
sweep runs every minute and a transaction that holds its locks ends (weak); an
operator's transaction, once begun, ends (weak); and somebody gets to each
order's tasks (strong, over operators and kinds: the queue is worked oldest
first, so an order's task that is there again and again is taken in the end,
though another may be taken before it). Webhooks and callbacks are given no
fairness: nothing has to be delivered. `RequestLost` is not fair, and
`EveryOrderEnds` excepts an order whose request was lost: nothing in the code
looks for its INITIATED payment. `Outbox`: a pass goes on, the drain being
scheduled again and again, and a due time and a lease come to an end (weak);
mishaps are bounded, so providers and processes do not fail for ever, and no
operator has to act.
The other modules state safety only.

## 4. Disagreements between the code and what it says

One is a run, the smallest instance that shows it.

| Run | What TLC finds |
|---|---|
| `lapsed` | `activeHeldQuantity` (`packages/inventory/src/holds.js:130`) ignores a lapsed hold although its order is PENDING, while `A/routes/orders.js:658` tells the buyer "Your order keeps its tickets reserved until that is settled". Settlement then counts both sold, unchecked. |

The others are shown by a property or a setting that the runs leave out, and
each is seen again by the change named here.

| Where | What it is, and how to see it |
|---|---|
| `A/lib/payouts.js:117` | A payout that is PAID is no longer in flight, and its batch moves money between clearing accounts only (`packages/ledger/src/batches.js:575`): what is owed to the organiser is debited by `settleTransfer` alone, which nothing calls. So the same balance is available, scheduled and paid again, though `A/lib/payouts.js:28` says "A negative available balance is never paid. Neither is an amount above it." `NeverOverpaid` as an invariant of `payouts` is refuted. |
| `A/lib/event-cancellation.js:175` | The PENDING and PAID bookings are listed in one unlocked read, and nothing keeps a booking out before the status is committed. One placed after the read and settled before the commit stays PAID on a cancelled event; its code's use is not given back and no refund is asked, though line 196 says of a booking that settles meanwhile that skipping it "would let it become PAID on a cancelled event with nothing asked for it". One settled after the commit does give its use back, as `UseComesBack` shows. `EveryUseComesBack` as an invariant of `bookings` is refuted. |
| `A/lib/checkout.js:884` | `recordCaptureTimeout` writes TIMEOUT over a payment a callback settled while the call was out; `A/routes/payments.js:10-13` says the two cannot race. A webhook `succeeded` that comes after it then books the payment once more, as `LATE_CAPTURE`. `BooksMatchOrders` and `ClosedStaysClosed` except exactly this: without `Overtaken(o)` in the one, or the step to it in the other, `money` refutes them. |
| `A/lib/checkout.js:884` | A timed-out call that names no intent leaves a payment without a reference, which no requery can find: the order and its stock wait for ever. `money` with `RefKnown = {TRUE, FALSE}` refutes `EveryOrderEnds`. |
| `A/lib/webhook-handlers.js:320` | `applyPaymentSucceeded` makes an order PAID with no tickets counted, no hold converted and no ledger batch; `settleCheckout`, arriving second, does nothing. "A payment recorded with no ledger entry is money the business cannot see" (`A/lib/checkout.js:529-531`). The action `ApplyPaymentSucceeded` shows it, and `Sale` allows it as `Pay`: without that action `stock` refutes `ImplementsSale`. In `Seating` such an order keeps ACTIVE holds that await nothing, so the sweep releases its seats. |
| `A/routes/orders.js:588` | A free order that the deletion cancels between the phases is answered 201: `{settled: false}` is ignored. |
| `A/lib/event-deletion.js:23-25` | A webhook pays an order between the deletion's count of nothing sold and its commit, since it takes no tier lock; the comment says a sale "waits on a tier lock and then finds the event gone". |
| `A/lib/reconciliation.js:515` | The order's other refunds are read before the provider is asked, and its total is compared with them afterwards: a second refund sent and paid in between makes the first look paid. `TruthfulOutcomes` without `~disturbed` is refuted in 12 states: a refund is recorded SUCCEEDED that no provider paid. |
| `docs/FINANCIAL_LEDGER.md:115-118` | "a second request racing the first sees the first in flight": two schedules read one balance, no row is locked, and both are SCHEDULED. With one operator `NeverOverpaid` fails only by the disagreement above; with two, by this, before any payout is PAID. |
| `A/lib/payouts.js:76-84` | HELD "goes back to SCHEDULED when it can", and counts as in flight: no code moves it, so it blocks the balance for good. Neither does any code move a payout on from RECONCILIATION_REQUIRED, or a SUBMITTED one whose request died. |
| `A/lib/webhook-intake.js:255-259` | A failed delivery waits for its next attempt, and nothing calls `dueDeliveries`; with `processInline`'s default, false, not even the first is made. A crash leaves a row PROCESSING, which even a drain would not look for. So no property says that a delivery gets its verdict in the end. |
| `apps/worker/src/processors/index.js:90-92` | The lease's name is distinct per process, and one process may run several drains (`workers.js:44`): a pass whose lease was taken over by one of its own name records over it. `RecordedByHolder` and `LeaseIsRespected` speak of names, as the code does; with `p = holder[m]` added to `HolderEnds`, `outbox` refutes them. |

## 5. What is proved

Each theorem holds for every value of the constants that the module's own
assumptions allow. Each inductive invariant was checked by TLC first.

`CheckoutProofs` proves, for any sets of orders, holds and operators, any
capacity, limits and bounds, under `CheckoutAssumption` and `SentinelAssumption`:

| Theorem | Says |
|---|---|
| `Typed` | `Spec => []TypeOK` |
| `PromoExact` | `Spec => []PromoUsesExact` |
| `FulfilledOnce` | `Spec => []OneFulfilment` |
| `SoldIsSettled` | `Spec => []SoldIsWhatWasSettled` |
| `ClosedForGood` | `Spec => ClosedStaysClosed` |
| `PendingHeld` | `Spec => []PendingHoldsItsTickets` |
| `ChargedIsKept` | `Spec => NeverCancelCharged` |
| `BooksMatch` | `Spec => []BooksMatchOrders` |
| `NeverOversold` | `HistorySpec => []OversoldOnlyByLate` |
| `SaleImplemented` | `HistorySpec => ImplementsSale` |

None assumes anything further: callbacks may overtake their requests, payments and locks
may be as slow as they like, and all four webhooks come in any order. Where the code
lets a race be lost, the property names the loss: an order that is `late` or `Overtaken`,
a charge announced `canceled` and then `processing` while its event is deleted
(`PendingHoldsItsTickets`), a first card refused of an order that the deletion then
cancels (`NeverCancelCharged`; a second card's money is booked as `LATE_CAPTURE` and
becomes a task).

*The argument.* `OneFulfilment` and `ClosedStaysClosed` rest on one inductive
invariant, `IInv`: `TypeOK` and, for each order, `RequestFits` (what the point the request
has reached says of the rows: a request that has not begun has no rows, and while one
is running with its order open the payment is as it was made) and `BooksFit` (what each
status of the order allows of payment, tickets and ledger). Neither is inductive alone.
A timeout writes the payment unconditionally, and that is harmless to an order still
open only because, until the request has answered, *nobody else has moved its payment*: it
has no reference, so a webhook cannot find it, and no task, so no operator has a verdict
about it. The callback finds the order by its own reference and may come first, but it
closes the order, and a closed order's row never moves again: what the timeout
then overwrites is the payment alone. `MoneyInv` follows that payment with `Overtaken`:
a PAID order's payment is settled unless its request was overtaken, and only then can a later
`succeeded` book it a second time; from it follows `BooksMatchOrders`.

`OversoldOnlyByLate` speaks of what is sold only. `StockInv` adds what is promised
(`NothingPromisedTwice`): with the tickets of the orders that wait for their payment and
have lost no hold, what is sold fits `Capacity` and what orders bought that had lost one.
That is kept because each waiting order holds all it is for until the event is gone
(`AllHeld`), and the holds of one that is not `late` have not lapsed (`Unlapsed`): so what an
order counts as held when it is placed includes all that was promised, at whatever
instant its request read, and holds that seem lapsed at that instant are lapsed now. An
order that becomes late takes its tickets out of the promises; one that is late and
buys adds to both sides. The same case analysis gives the step of `Sale`.

`PendingHeld`: holds are let go with their order, except by the deletion, which cancels
the orders whose payment it found dead before it wrote; `DeletionDecided` says that, while
it has its locks, no other order waits but one whose charge was announced both `canceled`
and `processing`. `ChargedIsKept` adds `ChargeFits`: whatever says that an order may end (a
declined request, a callback, an operator's verdict, a dead payment) implies that its
charge failed or was never made, or that a first card was refused, and a failed
charge stays failed. `SoldIsSettled` needs only that a settled order stays settled and settles once.

*Sums.* `OversoldOnlyByLate`, `SoldIsWhatWasSettled` and the counters of `Refunds` are sums over
sets. `Counting` says what a sum is without recursion: `SumOf(f, S)` is the size of the
set of units `<<x, i>>` with `x` in `S` and `i` in `1 .. f[x]`. What a step does to a sum
(an element comes, goes, or moves to another set) is then what it does to the size of
a finite set, for which the library has theorems; no induction is needed.

`PromoUsesExact` is inductive with `TypeOK`: cardinality lemmas say what placing,
ending and settling an order does to the set of orders that use the code, and the
cut-off at zero in `PromoReturned` is shown never to be reached.

`SeatingProofs` proves, for any sets of seats, holds and orders and any bounds,
under `SeatingAssumption` alone, all that the run `race` checks:

| Theorem | Says |
|---|---|
| `Typed` | `Spec => []TypeOK` |
| `SeatsOwned` | `Spec => []HoldsOwnTheirSeats` |
| `SettlementSafe` | `Spec => []SettlementFindsItsSeats` |
| `Implements` | `Spec => ImplementsSeatSale` |

*The argument.* The inductive invariant `IInv` is `TypeOK` with `HoldFits` (an
ACTIVE hold has its seats, and one whose order awaits a payment is ACTIVE),
`SeatFits` (a HELD seat names an ACTIVE hold that lists it, a SOLD one an order
that was placed) and `ClaimFits`, which is the point of it. The seats' holders are
read with no lock and taken back later, on the condition that each is still
ACTIVE, lapsed, and attached to the order that was read. `ClaimFits` says why that
is enough: what was read as lapsed had no order, or one that had ended, and an
order that ended never awaits a payment again; so a hold whose order is still the
one that was read cannot be one that an order pays with now. Drop the comparison
of the order (`TakenBack_Mutant`) and this step of the proof fails, as the run does.
The refinement maps a seat held for an order that awaits its payment to KEPT, and
every other seat that is not SOLD to FREE. Choosing, reclaiming, releasing and
sweeping are stutters; `Attach` is `Keep`, `Settle` is `Sell`, and compensation,
the webhook that pays, and the deletion are `GiveUp`.

`RefundsProofs` proves, for any refunds, operators, quantity, price and sends, under
`RefundsAssumption` and the sentinels', all that the run `refunds` checks:

| Theorem | Says |
|---|---|
| `CeilingHolds` | `Spec => []NeverPastPaid` |
| `Implements` | `Spec => ImplementsPayback` |
| `CountersAreSums` | `Spec => []CountersMatchRefunds` |
| `Typed` | `Spec => []TypeOK` |
| `RefundedTicketsStop` | `Spec => []RefundedTicketsDoNotAdmit` |
| `OutcomesAreTrue` | `Spec => []TruthfulOutcomes` |

*The argument.* `IInv` adds to the ceiling what each row is: a row that was sent or
answered is reserved, so what it lets go or gives back was set aside before; one
that waits to be sent is reserved or is the old kind of a cancellation's refund;
and a decision is about a refund that exists. `NeverPastPaid` alone is not
inductive, since settling a row that had reserved nothing would break it:
`assertRefundSendable` and the repair are what keeps such a row from being sent.
Every step changes at most one row and the counters by its amount, which is what
a step of `Payback` may do; the replacement of an old row is two rows of which
only the new one has anything set aside.

The counters are the sums of the rows because each step moves one row's amount
between the sets that are summed; that is also why no counter is ever taken
below zero, the part of `TypeOK` that is not obvious. A refund that succeeds ends as
many standing tickets as it is for, or all that stand, so what stands is within
what was not paid back (`TicketsStep`).

`TruthfulOutcomes` is the hard one: nobody tells the code which refund of an order
was paid. A requery gives one total, and the verdict is drawn from which of the
refunds in flight would explain it. The invariant is `Candid`, while nothing has
disturbed a decision: a call that is out is the last of a SUBMITTED refund, and one that
was paid the last of a refund that was sent (`CallsFit`); what succeeded was paid
(`SucceededPaid`); an active task is the only one of a refund that timed out (`TasksFit`);
and an operator knows what was paid of everything but the suspects, which are all that
may still be with the provider (`DecisionsFit`). By `GivenBackIs` what the provider gave
back is the sum of what it paid, each once; so the suspects it paid are *one of* the
sets that explain the part of the total nobody can account for, and `VerdictIsTrue` concludes that a
verdict which holds in every such set holds in the true one. A verdict that took the
first set that fits would fail at this step.

`OutboxProofs` proves `Typed` (`Spec => []TypeOK`), `NoCauselessDuplicate` (`Spec =>
[]DuplicatesHaveACause`) and `Keeps` (`Spec => Promise!Safe`, the safety part of
`ImplementsDelivery`), `RecordingIsOwn` (`Spec => RecordedByHolder`) and `LeasesHold`
(`Spec => LeaseIsRespected`), whatever names the passes have.

*The argument.* A record's condition names the worker, and so do the properties: a pass
may only end a claim that is under its own name. `IInv` says that a claimed row has the
name of the pass that claimed it last, that a pass past its find has a message, and that
one the provider said yes to has been heard.

`DuplicatesHaveACause` is not inductive. `Accounted`
counts, for each message, its deliveries *and the passes that hold or held a claim of it
and have had nothing accepted* (`Undelivered`): together they are at most what was
excused, and one more while the row is claimed, SENT or withdrawn. A claim from an
open state adds a pass and that one; a claim over another's lease adds a pass and an
excuse; an accepted answer turns the pass into a delivery; and a failure that is
recorded opens the row again and takes away a pass, whichever pass's claim it was. So a
pass that records over a namesake's lease, as `RecordedByHolder` lets it, opens the row
early and yet spends its own turn, which is why the bound survives it.

`IntakeProofs` proves `Typed`, `HandledByOne` (`Spec => []OneHandlerAtATime`),
`CommittedOnce` (`Spec => []WorkedOnce`), `Standing` (`Spec => VerdictsStand`) and `Bounded`
(`Spec => []TriesAreBounded`).

*The argument.* The marks write unconditionally. What makes that safe is that a
row is PROCESSING, with the attempt count its handler made, exactly while one
handler is busy with it; the claim compares the attempt count, so a handler that
read the row before another finished with it cannot claim what it read. `IInv`
adds that a handler past its read has an event and that an unclaimed row is
untried. `WorkedOnce` needs besides where the one commit may be (`WorkAccounted`): a row
that is to be tried, and a handler that has claimed or thrown, have no more commits
than were upset; only a handler that went on, a row left PROCESSING by a crash, or
a verdict may have one more.

`TicketsProofs` proves `Typed`, `OffersAgree`, `WithdrawnForGood`, `RefundsCount`
(`OfferMatchesTicket`, `NothingStandsWithdrawn`, `RefundsTakeWhatTheyCount`, each
always) and `Implements` (`Spec => ImplementsAttendance`).

*The argument.* `IInv` adds to the three: `RowsFit` (each place has one current row,
and only a current row was let in), `OffersFit`, `RequestsFit` (what a request read
stays true of what cannot change: which ticket its offer is of) and
`SettlementFits` (what a refund read under the line's lock is still settleable
when it writes). Each step is seen twice: as what it does to the rows (nothing
that counts, admissions, an end, or a successor), from which `RowsFit` and the step
of `Attendance` follow; and as what it does to offers, requests and the
settlement. `AdmittedAlready` is what the refinement rests on where a ticket is
handed on: the status alone does not say that nobody was let in.

`PayoutsProofs` proves `Typed` (`Spec => []TypeOK`), `Counted` (`Spec =>
[]GoneIsCounted`) and `OneCall` (`Spec => []AskedOnce`).

*The argument.* What a request will record depends on what it holds, so `IInv` adds
that one request sends a payout, that the payout stands SUBMITTED all that while
and is made only when the call is out, and that a loaded row still has the amount
of its payout. `transition`'s compare-and-set on the status is what makes the
sender one: a payout that left SCHEDULED never comes back to it.

`VenueProofs` proves `Typed`, `PlacesCounted`, `UsesCounted` and `UsesComeBack`
(`Spec => []` of `TypeOK`, `SoldIsWhatIsBooked`, `UsesAreCounted`, `UseComesBack`),
`LimitKept` (`Spec => LimitHolds`) and `Implements` (`Spec => ImplementsDues`), under
`VenueAssumption`: for any bookings, sizes, prices, limits, nights and stewards. All
that the runs `door` and `bookings` check is proved.

*The argument.* `IInv` is the four invariants with `CountFits` (at most one booking is
counted and not yet placed, and what waits with it is within the limit it read:
the advisory lock), `LooksFit` (a reference that names tickets names a night),
`RefundsFit` (only a booking with a fee is refunded) and `CancellingFits` (the event
is not cancelled while its cancellation is open). `LimitHolds` follows from `CountFits`,
because every other step only takes tickets out of `Waiting`. For `ImplementsDues`
the type invariant does the work: *a ticket is paid exactly when it owed
something and was let in*, so a confirmation that finds a ticket unpaid lets its place in
for the first time, and one that finds it paid takes nothing. What the sum comes to is
never computed: `Dues` is given the same `Worth`, and it is enough that the door takes the
`Worth` of the places that become paid.

## 6. What is only model-checked, and why

- `EveryOrderEnds`, `LapsedHoldsGoBack` and the liveness of `ImplementsDelivery`: the
  prover does not do liveness under fairness. The safety of `ImplementsDelivery` is
  proved (`Keeps`).

Every other invariant, action property and refinement a run checks is a theorem.

## 7. Not modelled, and why

- Arithmetic: prices, taxes, fees, discounts, payment terms, and that a batch of
  the ledger balances. No interleaving is in it.
- Of paying at the venue: the fee's cents and the offers of a ticket, which
  `Refunds` and `Tickets` have; the end of a night; the organiser's reports.
- Transfers to connected accounts and disputes: no route and no worker makes one.
- Orders of several tiers, and the order of their locks: a cycle of locks is
  broken by PostgreSQL, with an error answered and nothing written.
- Event editing, publishing and moderation: one compare-and-set of
  `Event.revision`; restoring a deleted event, and removing a past one.
- Referral codes' administration, scope and expiry: guards of one transaction.
- Accounts, sessions, permissions, privacy, retention, analytics, media, import,
  search, the web application, the worker's set-up: nothing of the commerce is
  decided there. `PROJECT.json` gives a reason for each.

Assumed: a conditional update is atomic and its count is right; a lock waits; an
order has one line; a callback or webhook about an intent carries that intent's
outcome; a provider acts on a request only while the request is out, and once
under one key; its refusals are definite.
