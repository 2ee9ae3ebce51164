# A TLA+ model of the booking system

This directory models the part of the training platform where money, time and a
real calendar meet: taking a time, paying for it, putting it on the coach's
calendar, what becomes of it afterwards, and everything that can undo one of
those while another is under way.

TLC checks the models on small instances. TLAPS proves the central safety
properties for every size: of a booking, for any number of orders, holds, events,
times and workers; of a refund, for any number of rows, refunds and overlapping
runs; of the booking page, for any number of tabs, browsers and networks, and for
any hours, grid, buffer, notice and diary; of a paid booking's later life, in every world,
for any number of senders, deliveries, runs and failures.

Paths below are relative to the repository; the application's code is under
`src/`, for example `src/data/settlement.ts`.

## The system

A customer chooses a time on the session's page, a hold takes it off sale, Stripe
takes the money, settlement turns the hold and the payment into a booking, and a
confirmation step puts it on the coach's Microsoft calendar with a join link. A
sweep runs every five minutes and repairs what any of these left undone; a second
job, as often, sends the emails the others have queued. Afterwards the customer
may move the session once, cancel or withdraw, Stripe may report a dispute, and
the coach may change the calendar by hand.

The code opens short database transactions and closes them before it talks to
the calendar, to Stripe or to the email service, so between any two calls another
request, a webhook, a job, the coach, or a dying process may act. That is where
the difficulty is, and it is what the models are about.

| Component | Code | State | Operations |
|---|---|---|---|
| Slot holds | `src/data/slot-holds.ts`, `src/domain/booking/slot-hold.ts` | rows of `slot_holds`: held, converted, expired, released | take (releasing the browser's earlier ones, within the caps), attach an event, convert, expire, release, mark the calendar released |
| Booking page | `src/components/training/BookingPanel.tsx`, `src/components/training/TurnstileWidget.tsx`, `src/lib/lead-session.ts` | each tab's step, its token of the person check; each browser's cookie | show times, give details, continue, edit, go to pay, come back |
| Availability | `src/app/training/book/[slug]/availability.ts`, `src/domain/scheduling/rules.ts`, `src/lib/single-flight-cache.ts` | the list kept between views | list times, check one time |
| Checkout request | `src/app/training/book/[slug]/actions.ts`, `src/data/orders.ts` | where the request is; the hold and the event it has in hand | check the person, check the offer, hold, block the calendar, write the order, start the session, link it, give back |
| Stripe | `src/domain/payments/stripe-provider.ts` | the Checkout session | complete, fail, expire; be expired by us |
| Settlement | `src/data/settlement.ts`, `src/app/api/webhooks/stripe/` | rows of `orders` and `bookings` | settle on the hold, on a retaken time, or without a time; fail and release |
| Confirmation | `src/data/confirmation.ts`, `src/domain/scheduling/graph-provider.ts` | what one run has read, and the event it has | read, check, create, attach, promote, record, clean up, return to waiting |
| Sweep | `src/app/api/cron/sweep-holds/` | none but the run's own progress | expire, delete released events, retry confirmations, ask Stripe, end abandoned sessions; and the steps of the components below |
| Choosing, cancelling | `src/data/choose-time.ts`, `src/data/booking-cancellation.ts`, `src/app/training/book/manage/` | rows above | give a waiting booking a time, end an open booking |
| Rescheduling | `src/data/reschedule.ts` | a booking's time, and whether its event has followed | move the booking, bring the event after it, adopt its loss |
| Refunds | `src/data/refunds.ts`, `src/data/refund-issuer.ts`, `src/data/held-refunds.ts` | rows of `refunds`, held events | queue, claim under a lease, issue with an idempotency key, retry, close, apply Stripe's events |
| Withdrawals | `src/data/withdrawals.ts`, `src/app/training/book/withdraw/` | rows of `withdrawal_requests` | record, acknowledge, decide at the desk, decline |
| Disputes, fraud warnings | `src/data/disputes.ts`, `src/data/fraud-warnings.ts` | rows of both | record Stripe's events in any order, link at settlement, cancel, queue a refund |
| Communications | `src/data/communications.ts`, `src/app/api/cron/send-communications/` | rows of `communication_log` | queue, claim under a lease, decide, send, mark, requeue, give up, withdraw |
| Graph's client | `src/lib/microsoft-graph.ts`, `src/domain/messaging/graph-provider.ts` | a token shared by the server | ask, refresh the token, repeat, give up |
| Customers | `src/data/customers.ts` | consent, its confirmation, unsubscribing | take over a paid form's details, confirm, unsubscribe |
| Calendar watch | `src/data/calendar-watch.ts` | none; compares bookings with events | report and adopt |
| Desk alerts | `src/data/desk-alerts.ts`, `src/data/audit-events.ts` | rows of `desk_alerts` | open, claim, resend, close |
| Rate limits, health | `src/lib/rate-limit.ts` and others | counters | |

### How they interact

Everything meets in the database's tables and on the calendar; nobody calls
anybody else while holding a lock. The order's row is locked during settlement, so
two deliveries of a payment serialise; the payment's advisory lock keeps a dispute
and its settlement apart; the exclusion constraint on `slot_holds` serialises two
customers who take the same time, and an advisory lock the counting of holds; the
confirmation step has only the guard `status = 'scheduled'` on its update. The calendar is
outside every transaction: the coach writes to it, and an answer may be lost
after the event was created. The email service is outside too, and takes a
repeated email for a new one.

### What is hard

- A hold lapses while its customer pays, the sweep expires it, somebody else
  takes the time, and then the money arrives (`settlement.ts:308`).
- A confirmation is retried after the calendar did its part (`confirmation.ts:205`).
- Two confirmations of one booking, or one and a cancellation, work from
  different readings (`confirmation.ts:337`).
- A converted hold blocks its time with no countdown, so a path that forgets
  one leaves a permanent hole in the diary; a path that releases one too many
  sells a paid time twice.
- An event on the calendar belongs to whichever row carries its id, and between
  its creation and that write it belongs to nobody.
- Stripe's results come several times, late, in any order, or not at all, and a
  dispute may come before the payment it is about.
- A row of the email queue stays queued while it is being sent; what the email
  says was read before, and the booking may have moved on.
- A move commits first, and its event follows by whichever of two processes gets
  through to the calendar.
- A list of times is a minute old when it is shown, and the time is held later still.

`PROJECT.json` lists each hazard at its line with the properties that watch it.

## The modules

| Module | Models |
|---|---|
| `AvailabilityRules` | which times may be offered, as arithmetic: the list generated day by day, and the check of one time |
| `BookingPage` | the page up to the payment page: tabs, cookie, person check, the list and its cache, the checkout as far as the hold, the caps; its properties |
| `BookingTables` | the rows of `orders`, `bookings`, `slot_holds`, the events on the calendar, how near each time is; the readings and writings several components share |
| `Checkout` | one checkout attempt step by step, and its Stripe session |
| `Settlement` | what a session's result does to the tables |
| `Confirmation` | workers running `confirmBookingOnCalendar` |
| `BookingSystem` | those three together with the clock, the sweep, choosing a time, cancelling, refunds, the desk and the coach; the properties; fairness |
| `SlotSale` | the abstract specification: a time sold to an order |
| `Refunds` | the money going back on one order: what is owed, the sweep's runs, Stripe's refunds and events, events held for the settlement, refunds by hand; the properties; fairness |
| `CareTables` | the rows one paid booking leaves: booking, holds, calendar, email queue; queueing and withdrawing an email |
| `Customers` | the customer's consent to offers, from paid forms and links |
| `MicrosoftGraph` | the rounds of one request, and the shared token |
| `Communications` | the senders of the queue |
| `Rescheduling` | the customer's move and the event that follows it |
| `Withdrawals` | a notice, the desk's decision |
| `CalendarWatch` | the comparison of bookings with the calendar |
| `PaymentEvents` | disputes and fraud warnings, and the settlement that links them |
| `DeskAlerts` | the desk's emails |
| `SweepRuns` | the order of the sweep's steps, its batches, and the rows that fail |
| `CustomerCare` | the composition of the ten above; the properties; fairness |
| `MCBooking`, `MCRefunds`, `MCPage`, `MCCare` | the constants' values for TLC |
| `BookingTypes`, `BookingSafety`, `BookingPromise`, `BookingDiary` | the proofs about `BookingSystem`, each on top of the one before |
| `RefundSafety`, `RulesAgree`, `PageSafety`, `CareSafety` | the proofs about `Refunds`, `AvailabilityRules`, `BookingPage`, `CustomerCare` |

`Checkout`, `Settlement` and `Confirmation` extend `BookingTables` and act on its
variables; `BookingSystem` extends them and adds to each action what the others
leave unchanged. `CustomerCare` does the same over `CareTables`, which takes up one booking where
`BookingSystem` has confirmed it (or where it waits for a time, or for its payment).
`Refunds` stands beside them: it has the order's payment status
and one session of its own, and sees of settlement only its transaction. What a refund does
to a booking's time is in `BookingSystem`, what makes a refund is in `Refunds`.
`BookingPage` ends where `Checkout` begins: with the hold taken.

### How state corresponds to code

In `BookingSystem`:

- **An order** is one checkout attempt and the order and booking it becomes.
  `order[o]` is `orders.payment_status` ("none" before the row exists),
  `booking[o]` the row of `bookings` with its time and `calendar_event_id`.
- **A hold** has its status, time, owner key, order and event, `lapsed` for
  "`expires_at` has passed", `cleared` for `calendar_released_at`.
- **A time** is an element of `Slots`. `Overlaps` is the database's range
  overlap, `Near` the same with the calendar's buffer; the assumptions say
  overlap is reflexive, symmetric, and implies nearness.
- **An event** is tentative, confirmed or gone. `maker` and `order` are what
  makes Graph's `transactionId` deduplicate a repeated creation.
- **Ids** are taken lowest first, so a behaviour is not repeated for every
  permutation of unused rows. The pools' sizes are the bound of an instance: a
  behaviour that would need one more row stops there.
- **`checkout[o].pc`** is where the request stands between two calls;
  `worker[w]` is what one run of the confirmation has read and where it stands.
- **`Env`** names what the world may do in an instance: `calendar_down` (a
  request fails without effect), `lost_answer` (it had its effect),
  `no_link`, `checkout_error`, `crash`, `coach_adds`, `coach_deletes`, `by_hand`,
  `cancel`, `refund`, `part_refund`, `time`, `delayed_payment`. It weakens no
  guard of the code; the proofs hold for every value of it.

In `Refunds`:

- **`row[r]`** is a row of `refunds`: `seq` is `key_seq`, `used` whether
  `key_first_used_at` is set, `lapsed` whether `lease_until` has passed, `waiting` whether
  `next_attempt_at` is to come, `at` is `last_event_at`.
- **`run[w]`** is one run of the sweep between its claim and its recording: what
  the claim returned of the row and the order, and what Stripe has said.
- **A moment** is twice the second, plus one when our own clock gave it:
  Stripe's events carry whole seconds, the reading of a refund a moment inside one.
- **`settling`, `taken`, `holding`** split the settlement's transaction and that
  of an event without an order into the reading and the commit, so that
  `lockPayment` does something. Every other transaction locks the order's row
  and is one step.
- **Stripe** is `money` (its refunds), `wire` (requests on their way), `answers` (what
  it keeps per idempotency key), `old` (keys past `KEY_WINDOW_MINUTES`) and `sent`
  (events, which may be delivered in any order, twice, or never).
- **`World`** names what may happen: `unclear` (no usable answer, or a lost
  request), `refusal`, `crash`, `old_keys`, `refresh` (a pending refund is read again), `slow`
  (a run held up beyond its lease), `dashboard`, `bounce`, `time`.

In `CustomerCare`:

- **`world`** is chosen at the start and never changes: who is at work (senders,
  movers, tabs, deliveries, runs), what may go wrong, and which emails, subjects
  and rows are followed. One run explores all the worlds of an instance.
- **`hour`** counts in the one length the code's notices share: a session may be
  moved until a day before it, its reminder goes a day before it, a notice is open for
  so many days. Leases and back-offs, which are minutes, are steps that may happen at any moment.
- **`log[t]`** is the row of `communication_log` for a template, of which a booking
  has one; `leased`, `attempts`, `status`, `at` are its columns.
- **`sender[s]`, `mover[m]`, `handler[h]`, `run[r]`, `sweep[s]`, `form[p]`** are processes: which step each has
  reached and what it has read. `untold` counts emails that went while nobody
  was there, or was told, to write it down: what excuses a second copy.
- **`calendar`** has the event's state and time; `file` is what the customer's
  own calendar shows, by the sequence number of the files that came with the emails.
- **`claim`, `sent`, `ledger`** are the dispute's true status at Stripe,
  the events it has sent, and those the database has taken in (`webhook_events`).
- **`problem`** is what the desk should hear about now, **`alert[x]`** a subject's latest row of `desk_alerts`, and
  `tried` the order of the rows' last tries. `told[x]` counts the desk's emails about a subject over all its
  rows, less one for each day that it is owed a reminder; `reasons[x]` counts the times the problem appeared
  and the times a late run closed a row still needed or opened one no longer needed.
- **`mishaps`** counts what has gone wrong (a crash, a lost answer, a refusal, a calendar
  down); an instance allows `MaxMishaps` of them.

In `BookingPage`:

- **`panel[t]`** is a tab: blank, waiting for its list, on the page at the details or the
  time step, leaving for the payment page, or paying; with its token of the person check.
- **`cookie[b]`** is the browser's lead session: the email and the owner key.
- **`request[t]`** is the tab's request on the server, between two calls; `now` is the minute it
  came in, by which it counts holds even when the clock has gone on.
- **`pageHold[h]`** is a row of `slot_holds` with its `until`, its lead and its network.
- **`pageList`** is the single-flight cache: none, loading, read from the calendar, ready.
- **`diary`** says since when each of the coach's appointments has been on the calendar.

### What is abstracted, and why it is safe

- In `Checkout`, the check that a time is offered and the insert of the hold are one step: what
  the calendar does between them commutes with the insert, which only asks the
  constraint. The calendar is asked again in a step of its own afterwards. `BookingPage` has them apart.
- `LapseHold` lets a countdown run out at any moment, which is more behaviour
  than a clock has.
- In `BookingSystem` the sweep's batches are taken row by row, in any order; what the
  batches' limits do is `SweepRuns`.
- The exclusion constraints are guards only where the code relies on being
  refused (`insertHold`, `scheduleWaitingBooking`). Settlement and
  cancellation are written to look first; there the invariants check
  that no constraint would ever have refused them.
- A payment's result is final per session, so a redelivery is the same
  settlement step taken again.
- An unpaid order has one hold, so ending the sessions of the holds just released
  and ending abandoned sessions in the sweep are one action, `EndCheckout`.
- `BookingTables.Bookable` knows times, not their distance: the booking horizon is in
  `AvailabilityRules` only. Amounts are in `Refunds` only, consents in `Customers` only.
- In `BookingPage` what follows the hold is one step that leads to a payment page or
  gives the hold back; the tentative events of checkouts are left to `BookingSystem`, so
  its diary holds the coach's appointments only. A limiter's refusal ends a
  request before it has done anything and is left out.
- In `Refunds` an order has one session, so each refund of ours is for the whole
  amount, as both places that write one make it. The notice of withdrawal is the automatic
  route: today's form sends new notices to the desk (`Withdrawals`), whose approval is a refund in the
  dashboard, which is modelled too. A dispute is one row that may or may not cancel; alarms
  and the refusal of an event that names another payment or currency are left out.
- In `CustomerCare` an email is its template, the state of the booking it was written
  from and its calendar file; the links' secrets are set and the session is in the catalogue.
- Left outside: Graph and Stripe are modelled from how this code uses them, and
  the entries for them in the map are marked external, as are the coach, the
  desk working by hand in the database, and the clock.

## The runs

Each is named after its `.cfg`. `Page` is an instance of `MCPage`, `Care` of `MCCare`, the refunds'
of `MCRefunds` and the others of `MCBooking`.

| Run | Instance | Checks |
|---|---|---|
| `Page` | four tabs, three holds, sessions at two times, three appointments; eight worlds | `TypeOK`, `HoldCapsKept`, `PaymentPageIsLive`, `OffersAreAccepted`, `PageLagIsBounded` |
| `Confirming` | one order, two times; errors and crashes between all calls, the coach, cancelling, a part refund, a delayed payment | `TypeOK`, `ScheduledIsBacked`, `ConfirmedIsBacked`, `SweepDeletesNoOpenSession` |
| `AfterTheSale` | two orders of one person, one time; by hand, refunds, cancellations, the clock, a coach who deletes | `BookingsDoNotOverlap`, `NoHoleInDiary`, `NoSessionUnpaid`, `EventsAreOwned`, `KeepsThePromise` |
| `EverythingEnds` | one order, one time, with fairness | `PaymentIsSettled`, `ScheduledIsResolved`, `ReleasedEventGoes` |
| `RefundsTold` | two rows, two Stripe refunds, two seconds; dashboard, bounces, unclear answers, the session drawing near | `OneRowPerRefund`, `WrittenOffOnlyWhenPaid`, `OneFullRefundAtATime`, `HeardIsRecorded`, `NewsIsNeverLost` |
| `RefundsEnd` | one row, two Stripe refunds, two attempts; unclear answers, refusals, crashes, old keys, with fairness | `TypeOK`, `OneRefundPerRow`, `OwedIsAnswered`, `PendingIsHeard` |
| `Care` | one paid booking, twenty-four worlds, with fairness | `TypeOK`, `CopiesAreExplained`, `LogTellsTheTruth`, `CalendarFileIsCurrent`, `WatchMissesNoChange`, `DisputeKeepsUp`, `NewsReachesTheOrder`, `EveryAlertHasItsReason`, `MailMatchesTheBooking`, `EveryMessageIsDecided`, `CalendarCatchesUp`, `WaitingNoticeStaysListed`, `LastingProblemIsTold`, `WorkIsReached` |

The properties, in words. Of taking and selling a time:

- `HoldCapsKept`: one live unpaid hold for a person in one browser, and the caps of a network
  and of the diary, however many checkouts count at once and however old the clock they count by.
- `PaymentPageIsLive`: nobody loses the time they are paying for to somebody else who types their
  email, nor to a checkout that is then refused.
- `OffersAreAccepted`: the list and the check, written twice, agree.
- `PageLagIsBounded`: a list served from the one kept shows nothing taken more than `PageLag` ago.
- `BookingsDoNotOverlap`: no two sessions overlap. Since settlement's guards do not include
  the constraint, this also says that no payment's delivery dies on it.
- `ScheduledIsBacked`, `ConfirmedIsBacked`: a paid time is off sale.
  `NoHoleInDiary` is the converse: what is off sale for good backs a session.
- `NoSessionUnpaid`: a session with a time has its money, or was refunded after it began.
- `SweepDeletesNoOpenSession`, `EventsAreOwned`: the event of a session is not about to be
  deleted, and no event is left that nobody will ever delete.
- `KeepsThePromise`: refinement of `SlotSale`.
- `PaymentIsSettled`, `ScheduledIsResolved`, `ReleasedEventGoes`: what must happen in the end.

Of refunds:

- `OneRefundPerRow`: whatever is lost or repeated, Stripe makes one refund at most for a
  row. `OneFullRefundAtATime`: a withdrawal and a fraud warning do not both give the money back.
- `OneRowPerRefund`: the request's answer and the event about it end up on the same row.
- `WrittenOffOnlyWhenPaid`: a refund owed is dropped only when the whole did go back.
- `HeardIsRecorded`, `NewsIsNeverLost`: an acknowledged event is not forgotten, and once
  all are in, in whatever order, each row says what Stripe says.
- `OwedIsAnswered`, `PendingIsHeard`: what must happen in the end.

Of a booking's later life:

- `CopiesAreExplained`: a second copy of an email only where a sender died, or was not told the first
  had gone. `LogTellsTheTruth`: what the queue says of an email is what happened to it.
- `MailMatchesTheBooking`: an email says what the booking says as it goes, a reminder goes in its day, an
  offer only to who asked for it, unless that changed between reading and sending.
- `CalendarFileIsCurrent`: after the move's email, the customer's calendar has the new time, though
  the first confirmation may arrive last.
- `EveryMessageIsDecided`: every email due is sent, withdrawn or given up on.
- `CalendarCatchesUp`: while the coach leaves it alone, the event comes to the booking's time.
- `WatchMissesNoChange`: no alarm rests on a booking that changed while the calendar was read.
- `DisputeKeepsUp`, `NewsReachesTheOrder`: once all is handled the database says what Stripe says, and
  no session goes ahead that a dispute stops, whichever came first.
- `WaitingNoticeStaysListed`: a notice leaves the desk's list only decided, refunded in full, cancelled or
  after its days.
- `EveryAlertHasItsReason`: an email to the desk for each reason at most. Reasons are an appearance of the
  problem, a day gone by, a run that closed or opened its row by an old reading, and a run that died or heard
  that an email which arrived had failed. `LastingProblemIsTold`: nothing that lasts is kept from the desk.
- `WorkIsReached`: a row that always fails does not keep another from the sweep's attention.

### Bounds

**A booking.** Two orders are enough for every race in the code: each conflict (two holds, two
bookings, a hold and a booking, a payment and the hold that replaced its own) is
between two. Three holds allow one attempt each and a time retaken or chosen
again; three or four events allow one per order, one lost, and one made again.
One time makes every claim conflict; two times are used where choosing another
is the question. One worker is the case of no overlapping confirmations; the
proofs cover any number, and `LateConfirmer` shows what two of them break.

**Refunds.** Two rows are a refund of ours and one by hand, or two causes for one
refund; two Stripe refunds are one too many for a row, or the two halves of a payment of 2.
Two attempts stand for the code's eight: one that is repeated and one that is the
last. Two seconds let events of the same moment and of different ones meet; with a
single row and liveness in question, one second is enough. `RefundsTold` has one run,
since runs overlap only beyond the lease, and `StaleRefusal` shows what that breaks.

**The page.** Two tabs of one browser, a phone on the same network and a stranger whose address
cannot be read; caps of one hold per network and two in all, so that each is met with one checkout
more. A day has 24 units, Dubai's clock is 4 ahead, and every evening has windows from 12 to
15 with a session of 1 on a grid of 2: two starts an evening, the buffer of 1 between them. The
notice and the horizon (8 and 11) each fall inside an evening, and the three appointments are one
on a session, one in the gap and one that ends where another begins. One minute passes, which is as
long as a hold and a list of times last.

**Care.** Two session times and four hours, with one unit's notice: a move to an earlier and to a later time,
before and after each notice. One move per booking, as in the code. Two attempts of an email for the
code's five, two rounds of the client for its own. One mishap: every property says what one failure
may and may not do; a second would only repeat a send (`CopiesAreExplained` and
`EveryAlertHasItsReason` count them). Two reasons for the alerts of a subject (`MaxReasons`): its problem goes and
comes back once behind a run; a late run's doing may be a third. One for the subject that can never be written,
of which nothing is told. Two of everything that overlaps: senders, tabs, deliveries, runs,
sweeps. Of two alerts one can never be written and a run sends one; of two rows at each of the
sweep's steps one always fails, in batches of two (one where the rows take turns).
The worlds split the composition by who can touch what: each puts together the
parts that share rows (the move with its emails, with the watch, with a dispute; the notice
with its acknowledgement, with refunds) and leaves out those that do not.

### Fairness

**A booking.** `FairSpec` is used only by the liveness runs. Weak fairness of the sweep's
expiry, release and reconciliation steps: it runs every five minutes and repeats
what is left undone. Strong fairness of the start and of each call of a
confirmation: an error or a crash may cut an attempt short, the sweep tries again, and not every
try is cut short at the same call. Checkout requests, customers, Stripe and the coach owe
nothing. The coach deleting events is left out of the liveness instance, because the
pool of event ids would run out and stop the system for a reason it does not have.

**Refunds.** Weak fairness of the claim, of a lease and a wait running out, and of Stripe
carrying out or refusing what reached it; strong fairness of each step of a run and of reading a
quiet refund again, since a crash or an unclear answer may cut a run short, but
not every run at the same step. No event is owed: `PendingIsHeard` holds with all of them lost.

**Care.** Weak fairness of the clock, of the senders' work with the end of a lease, of the movers,
of each run of the desk's alerts, of half an hour going by, and of each sweep: the jobs are run every five
minutes for ever. Nothing is assumed to succeed and nothing is owed by the customer, the coach, the desk or
Stripe. A failure is bounded by `MaxMishaps`, except a refusal the row can never
escape (`Unwritable`, `Stuck`), which is there for ever.

**The page** has no liveness: a customer may walk away at any step.

### Where the code and its own words differ

Five runs end in a violation of something the code's comments promise.

- `RetryLosesTime`: a confirmation that had created its event and then failed
  (no link yet, or the promotion's request failed) is repeated. `holdSlot` first
  asks whether the time is free, finds its own tentative event, and the paid
  customer's time is given up, though "every step here is safe to repeat".
- `LateConfirmer`: `returnToWaiting` guards the booking's update but releases the
  converted hold regardless, so a confirmer that comes late takes the time from
  under a booking another one has confirmed. The guard's other half is as weak: it asks for
  `scheduled`, not for the time that was read. When two confirmers find a time lost, the first
  gives it up, and the customer chooses another before the second reports, the second takes the
  new time from the booking and leaves its hold converted: a time blocked for nobody. Both are what
  `OneAtATime` excludes in the theorems of `BookingDiary`.
- `PartRefunded`: a goodwill part refund before the confirmation, and no sweep
  confirms the booking again, nor does an alarm list it.
- `LatePending`: `refreshPendingRefunds` reads the refund and only then looks at the
  clock, so its reading passes for newer than an event applied meanwhile, and a late
  `pending` does undo a `succeeded`.
- `StaleRefusal`: `recordRefundRetry` asks only that the row is still `issuing`, not that it
  is this run's claim. A run held up beyond its lease moves the key on under
  another run's request, which may have made a refund the next key does not know of.

`EventsAreOwned` and `ConfirmedIsBacked` pass in the runs whose instance does not
let that happen: `AfterTheSale` has a calendar that answers, `Confirming` one worker.
`NewsIsNeverLost` is checked where nothing is read again, `OneRefundPerRow` where no run outlives its lease.

### Met while modelling

Read in the code beside the models, and not runs of their own.

Of taking a time:

- A customer whose time was lost is offered times up to 90 days ahead: `choosableSlots` passes the
  move's window as the list's horizon (`manage/flow.ts:339`). The confirmation that follows checks
  the chosen time with `isBookableSlot`, whose horizon is `bookingHorizonDays`, 60 (`rules.ts:92`). A time
  between the two is accepted by the page, refused by the confirmation, and reported as just booked
  by somebody else, each time it is chosen; `availability.ts:13` says the two must agree. A move
  is not affected: its event is moved without that check.
- At the horizon itself the list asks for the session's end and the check for its start,
  and the list does not read an appointment that begins just after its end: the last
  buffer before the horizon is the one exception `OffersAreAccepted` makes.
- A person who goes back to the time they hold is refused it: the offered times
  count their own hold (`availability.ts:49`), though `slot-holds.ts:203` says it never blocks them.
- A lapsed hold not yet swept is offered, since the list looks at the clock, but the constraint
  refuses it until the sweep has run.
- A load of the list that takes longer than its life is joined by everybody who comes meanwhile, who are
  shown what was read before (`single-flight-cache.ts:45`).
- Two tabs that give their first details at once get two owner keys, so each may hold a time
  (`lead-session.ts:95`). Going back to edit while a checkout is on its way can leave an order
  with the details as they were. With the person check off, a second click while the browser is
  leaving releases the hold it is about to pay for.

Of the calendar:

- `blockCalendarForHold` says that it never throws (`actions.ts:645`), but the transaction that attaches the event
  just made may (`:677`). The checkout catches it and releases the hold (`:501`); the tentative event is then on no row, and
  nothing will delete it.
- A booking cancelled while its confirmation fails for want of a link: the
  throw at `confirmation.ts:242` skips the clean-up written for exactly that event.
- `adoptRestoredEvents` compares only the status and the event's id, and a move keeps both: the comment's
  "moved ... meanwhile is left alone" (`calendar-watch.ts:144`) is not what it does, and does no harm, since the
  move's own event follows by its new id.
- Two syncs of one booking's event with different times cannot overlap only because a booking moves once
  (`MovesPerBooking`): a slow call of a first move could land after the second had cleared the flag.

Of money:

- `applyRefundEvent` leaves `last_event_at` as it was when the status is
  unchanged (`refunds.ts:458`). A row closed as failed by its own run, whose late answer
  then brings the id, takes a failed event without its time, and an older `pending` after it.
- What links disputes and warnings after the fact (`linkUnlinkedDisputes`) has nothing to do while
  the payment's lock does its work: `NewsReachesTheOrder` holds without it. `ordersWithDisputeWork` has
  one case: a stolen-card dispute that came too late for a session cancels nothing, and when the
  calendar then refuses that session's time and the booking waits for another, it stops it after all. The
  proof attempt showed this; until the next sweep the customer may choose a time for it.

Of emails and the desk:

- A late run may close the alert of a problem that has come back, or open one for a problem that has gone, and the desk
  hears of it once more. `calendar-watch-step.ts:35` and `desk-alerts.ts:9` accept that; `EveryAlertHasItsReason` says that
  there is no other way.
- "The only way to deliver twice is a crash" (`messaging/graph-provider.ts:19`): a lost
  answer is another, and so is the client's own repetition of a request answered with a 5xx.
  A 401 uses up an attempt and earns one more, so there may be one round more than attempts.
- `withdraw/flow.ts:76` says a notice is never called under review for ever; once its booking is cancelled,
  or its days are over, a page may still say so.
- A reminder claimed before a move may go although its session moved away (`reschedule.ts:153`);
  `MailMatchesTheBooking` names that exception. So does a reminder that was refused: `markFailed` puts the row
  back for the retry's time (`communications.ts:313`) though the move had set it to the new session's
  (`reschedule.ts:152`), and the retry sends it early. The proof attempt found this one, and the world
  `RefusedReminder` was added for it. `markSent` and `markFailed` ask nothing of the row.
- The inbox's limit "counts only emails that really went" (`manage/request.ts:72`), but is counted
  before the send.
- Offers stop "until they opt in again on a booking" (`customers.ts:205`), but nothing takes an
  unsubscription back, and no link to confirm is sent to who has unsubscribed (`deliver.ts:379`).
- Rows that always fail come first in every batch of the confirmations, moves and releases
  (`confirmation.ts:155`, `reschedule.ts:268`, `slot-holds.ts:491`): as many as a batch would keep all others from being
  reached. Reconciliation rotates. `WorkIsReached` holds below that number. `findStuckWork` does not
  count scheduled bookings that are not confirmed.
- Attribution reads and then updates without a lock; a purge by retention and a new order may cross
  (`retention.ts:146`). Neither is modelled.

## The proofs

All by TLAPS 1.4.5 with SMT (Z3), Zenon and PTL.

| Theorem | Says |
|---|---|
| `BookingTypes!TypeCorrect` | `Spec => []TypeOK` |
| `BookingSafety!HoldsNeverOverlap` | `Spec => []HoldsDoNotOverlap` |
| `BookingSafety!BookingsNeverOverlap` | `Spec => []BookingsDoNotOverlap` |
| `BookingSafety!NobodySitsUnpaid` | `Spec => []NoSessionUnpaid` |
| `BookingPromise!PromiseKept` | `Spec => KeepsThePromise` |
| `BookingPromise!ScheduledTimesAreBacked` | unless the desk places bookings by hand, `Spec => []ScheduledIsBacked` |
| `BookingDiary!NoHoleEver` | `Spec /\ []OneAtATime => []NoHoleInDiary` |
| `BookingDiary!ConfirmedTimesAreBacked` | unless the desk places bookings by hand, `Spec /\ []OneAtATime => []ConfirmedIsBacked` |
| `BookingDiary!SweepSparesSessions` | `Spec /\ []OneAtATime => []SweepDeletesNoOpenSession` |
| `BookingDiary!EventsAlwaysOwned` | while the calendar answers, no checkout throws and nothing crashes, `Spec /\ []OneAtATime => []EventsAreOwned` |
| `RefundSafety!RefundTypes` | `Spec => []TypeOK`, of `Refunds` |
| `RefundSafety!OpenRowsHoldNone` | `Spec => []OpenRowHoldsNoRefund` |
| `RefundSafety!OneRowEach` | `Spec => []OneRowPerRefund` |
| `RefundSafety!HeardStaysRecorded` | `Spec => []HeardIsRecorded` |
| `RefundSafety!OneRefundEach` | unless a run outlives its lease, `Spec => []OneRefundPerRow` |
| `RefundSafety!OneFullRefund` | `Spec => []OneFullRefundAtATime` |
| `RefundSafety!NothingWrittenOffUnpaid` | `Spec => []WrittenOffOnlyWhenPaid` |
| `RefundSafety!NewsNeverLost` | unless a run outlives its lease or a refund is read again, `Spec => []NewsIsNeverLost` |
| `RulesAgree!ListedIsChecked` | a time is on the list just when it passes the check and lies within the query |
| `PageSafety!CapsAreKept` | `Spec => []HoldCapsKept`, of `BookingPage` |
| `PageSafety!ListedTimesAreAccepted` | `Spec => []OffersAreAccepted` |
| `PageSafety!PaymentPageStaysLive` | `Spec => []PaymentPageIsLive` |
| `PageSafety!PageLagAlwaysBounded` | `Spec => PageLagIsBounded`, an action property |
| `PageSafety!PageTypesHold` | `Spec => []TypeOK`, of `BookingPage` |
| `CareSafety!CareTypesHold` | `Spec => []TypeOK`, of `CustomerCare` |
| `CareSafety!BaseAlways` | `Spec => []BaseInv`: the rows, the workers and the locks of `CustomerCare` |
| `CareSafety!NewsAlwaysReachesTheOrder` | `Spec => []NewsReachesTheOrder` |
| `CareSafety!DisputeAlwaysKeepsUp` | `Spec => []DisputeKeepsUp` |
| `CareSafety!WatchNeverMissesChange` | for one move per booking, `Spec => []WatchMissesNoChange` |
| `CareSafety!CopiesAlwaysExplained` | `Spec => []CopiesAreExplained` |
| `CareSafety!LogAlwaysTellsTheTruth` | `Spec => []LogTellsTheTruth` |
| `CareSafety!CalendarFileAlwaysCurrent` | for one move per booking, `Spec => []CalendarFileIsCurrent` |
| `CareSafety!MailAlwaysMatches` | `Spec => MailMatchesTheBooking`, an action property |
| `CareSafety!AlertsAlwaysHaveReasons` | `Spec => []EveryAlertHasItsReason` |
| `CareSafety!WaitingNoticeAlwaysStaysListed` | `Spec => WaitingNoticeStaysListed`, an action property |

`HoldsDoNotOverlap` (no two live claims overlap) and `OpenRowHoldsNoRefund` (a row that
would be asked for again holds no refund) are proved and no longer run: the theorems say more.

Those of a booking assume `PoolAssumption` (ids are numbers, every attempt has an owner),
`NullAssumption` (null is no id), `OverlapAssumption` and `SeatAssumption` (the
two words for an order without a seat are not times), and nothing about `Env`, so
they hold for every combination of failures and for any number of workers. Those of refunds
assume `RefundPools`, `RefundAmounts` and `NullIsNothing` (null is no refund's id and no event's
word), and nothing about `World`: runs held up beyond their lease are included. Two say more, and are false without
it: `OneRefundEach` that `"slow"` is not in `World` (`StaleRefusal` is the counterexample), `NewsNeverLost` that neither
`"slow"` nor `"refresh"` is (a row closed as failed may keep its word though a late answer named its refund; and
`LatePending` reads again). Those of
the page assume `RulesAssumption` (times and lengths are natural numbers, a day, a session and
the grid's interval are not zero, hours lie within a day), `NoticeAssumption` (the buffer is no longer than the
notice: 15 minutes and 24 hours in the configuration; otherwise an appointment that is over could
matter to one of the two and not to the other) and `PageAssumption` (pools, and a finite number of holds to count);
`PageTypesHold` also `TimesAssumption` (every time that can be sold before the clock stops is in `PageTimes`).
Those of a booking's later life assume `InstantAssumption` (hours, notices and limits are natural numbers, times
lie after the first hour, ids are numbers, null is neither), `FirstAssumption` (times and ids have a
least element), `MoverAssumption`, `EventAssumption` (a warning is no dispute's status), `DeskAssumption`,
`SweepAssumption` (a row of the sweep belongs to one step, which has a batch) and `AttemptAssumption` (a request is tried at
least once), and nothing about `Worlds`: they hold in every world there may be, not only in the twenty-four that are run.
Two of them also assume `MovesPerBooking <= 1`; the policy's `movesPerBooking` is 1.

The four of `BookingDiary` are about behaviours in which no two confirmers work on one order at the same time
(`OneAtATime`). The code does not see to that: a webhook's confirmation, the sweep's and the page's may
overlap. `LateConfirmer` shows what happens then, and the theorems that nothing else takes a
session's time or event away: no crash, lost answer, late payment or cancellation. The fourth,
`EventsAlwaysOwned`, also assumes `NothingFails`: none of `"crash"`, `"checkout_error"`, `"lost_answer"`, `"calendar_down"`
and `"no_link"` is in `Env`, as in `AfterTheSale`, the run that checks it. With any one of the five, or with two
confirmers on one order, TLC finds an event nobody knows of after a few steps: each lets a
confirmer or a checkout end between the creation of an event and the write of its id.

- **Types.** `TypeOK` is inductive as it stands. It is more than types: a waiting
  booking carries no time and no event, a timed one has a time, a request past
  its first step has a hold whose row exists. One lemma per action.
- **Holds.** Every action either claims nothing (each blocking hold blocked
  before, at the same time) or claims one free time. `HoldSlot`, `ChooseTime` and
  `SettleOnRetakenTime` are the three that claim; their guards are what the proof uses.
- **Bookings.** `StepMoves` lists, for every action, the moves it may make on
  `order` and `booking`. A booking gets a time only where `BookingClash` was false.
- **Money.** `NoSessionUnpaid` is not inductive: an order is `pending` when its booking must still
  be waiting, which the invariant alone does not say. `UnsettledWaits` is the
  strengthening: an order not yet paid has no booking or a waiting one.
- **Refinement.** The same list of moves is mapped, case by case, to a step of `SlotSale` or a
  stutter; `NoSessionUnpaid` rules out a seat lost or given without money.
- **Backing.** A scheduled booking has its converted hold: the proof follows the
  hold through every action that ends one, and needs `by_hand` to be absent because
  a booking placed by hand has none.
- **Refunds.** None of them is inductive. `RefundInv` adds what the code relies on without
  saying so: rows are in use only once the payment has settled (`Beginning`), requests and answers
  are about rows in use and an answer "made" names the refund made for that row
  (`AskedForRows`), nobody speaks of a refund Stripe has not made (`KnownToStripe`), and a refund made
  for one row is carried by another only when that row has one of its own
  (`CarriedAtHome`). The last is what lets a late answer be recorded without meeting
  its refund on another row: an event that came first went to the row its metadata names.
  `RowMove` and `MoneyMove` list what a step does to the rows and to Stripe's refunds;
  the invariants follow from the two lists. `HeardIsRecorded` follows an acknowledged
  event from `held` to `taken` to a row, and needs `lockPayment`: an event waits to be
  held only before the settlement has begun.
- **One refund.** For `OneFullRefundAtATime`, `OwedOnce`: what makes a refund of ours cancels the session in the same
  transaction, and only a session still to come makes one. For `OneRefundPerRow`, `OneClaim` and `OneKey`: while
  leases outlive runs a run has its row to itself; the key on its way is the row's key of now, unanswered, and
  has made nothing; a key that made a refund has its answer, or is too old to be sent; a refused key made
  nothing and never will. So a new key is taken only where the old ones made no refund.
- **News.** The events of one refund are ordered by the rank of their word, pending before succeeded before failed or
  canceled (`InOrder`), the last one says what Stripe says (`LastIsSent`), and `mayApply` lets through exactly
  what ranks higher (`MayApplyRanks`). So what is held for a settlement, and then the row, carry the
  furthest word heard (`HeldIsNewest`, `RowIsNewest`), and the order of arrival does not matter.
- **Writing off.** `WrittenInv` says that a row which succeeded carries a refund whose money went (whoever says "succeeded"
  tells the truth: `WordsAreTrue`), for that refund's amount (`RowsAreBacked`; our own are for all of the
  money, `MadeInFull`). No two rows carry one refund, so what the rows add up to is at most what went back; that only
  grows, so what a run read of the order at its claim still holds when it drops its row. The sums are
  the model's own: `SumStep` unfolds one, `SumTakes` lets any element come first, and `SumInjects` compares two
  by matching their elements. Where one would argue by induction on a set, the proofs take a smallest set for which
  the claim is false (`SmallestSet`, from the well-foundedness of strict inclusion), and find a smaller one.
- **Caps.** A request counts in one step and inserts in another. `CapsInv` adds `CountStands`: whoever has
  counted holds the lock, and what it counted is still so. In between, nobody else counts or inserts;
  the other steps only take holds away (`HoldsOnlyGo`); and a request counts by the minute it came in,
  which finds every hold that is live now and perhaps some that are not. So the insert adds one to a
  number below the cap.
- **The payment page.** `PayInv`: the rows of holds are used in increasing order; a hold whose payment has not
  started belongs to one request; and a hold ends only by its countdown, by a later hold of the same person in the same
  browser, or by the refusal of its own request, which has ended once the payment page opens.
- **The list's age.** `ListsInv`: a list being loaded, kept or shown holds nothing that was taken before its load began. The
  property first measured the horizon from the present minute, and was false for longer clocks than the run's: a list
  ends where the horizon was when it was asked for. It now says so.
- **Page types.** A time that is held, listed or shown passed the rules at some minute, so it is below the horizon of
  the last one; `AllInv` puts this together with the above.
- **The rules.** The list goes day by day and adds the grid's minutes to the start of Dubai's day; the
  check divides. `RulesAgree` shows that the two meet: a remainder is unique, a start of the list lies on
  the day it was generated from (hours end within the day), days differ by multiples of
  a day, so each day between the first and the last is visited and its weekday is the one the check
  computes. `PageSafety` adds the calendar: both reads see every appointment that can conflict, as long as
  the session and its buffer end by the horizon.

- **Diary.** `DiaryInv` says that a converted hold backs its order's session, and that a confirmer's booking
  is still as it was read, or cancelled (`Unmoved`, which is what `OneAtATime` is needed for). For the
  sweep, `EventInv` says who carries an event: a checkout that has just made one is alone with it, the hold
  that carries a booking's event backs that booking, a confirmer's event is on its own booking's hold or on none.
- **Owners.** `EventInv` says who may carry an event, `OwnInv` that somebody does. Events fade (`EventsFade`: one
  that is gone stays gone), and what a row carries stays on a row: `QuietMove` lists what the steps of everybody but the
  confirmers do to the rows, and each step is shown to be one. A booking that is called off leaves its event to
  its hold because hold and booking agree on it (`HoldsAgree`), but while a confirmer is between
  giving it to the one and to the other; a request gives its event to its hold or deletes it
  (`RequestsHandOn`), a confirmer to its booking, or ends knowing it on a hold, deleted or gone (`ConfirmersHandOn`).
- **Care's rows.** `BaseInv` is the base of every proof about `CustomerCare`: rows and workers have their shape, one
  transaction writes at a time and sees what is there (`OneWriter`). `BookingMove` lists, once for all, what a
  step may do to the booking, and `LogMove` what it may do to the queue.
- **News.** `NewsInv` holds between transactions and within them: a settlement that writes sees every dispute and
  warning stored before it, and one stored after it sees the order; the lock is what rules out a third case.
  For `DisputeKeepsUp`, `OrderInv` says that whatever the row or a delivery holds may still
  become Stripe's status, and that once the event of Stripe's own status is in, the row has it. A
  dispute's statuses have few ways to follow one another, and `mayReplaceStatus` allows each.
- **Watch.** `WatchInv` says that a booking that changed since it was listed is cancelled, or has another
  time or another flag, so that it does not pass the comparison before the write. A change
  that can be undone would, hence one move.
- **Emails.** `MailInv` counts: an email is in the inbox as often as it went unrecorded, and once more when its row
  or its sender says that it went. One sender at most works on a row, because a lease outlives
  its sender (`LeaseEnds`). `CopiesAreExplained` and `LogTellsTheTruth` are read off that equation.
  `FileInv` says that a file of the second sequence number was written after the move, and `MatchInv` that a
  reminder in the queue is due a notice before the booking's time, and what a sender read still fits its row.
- **Desk.** One run at most is at work on an alert, for its claim is `just` tried; `AlertInv` says
  so. `CountInv` keeps each subject's balance over all its rows: a row owes one email until the desk is told that day; the emails
  sent, the sends under way and what is owed stay within the rows opened and the mishaps; the rows opened, and the one that
  is missing while a problem has none, stay within the reasons. `NoticeInv` says that a notice is about a paid booking;
  the rest of `WaitingNoticeStaysListed` is followed through each step.
- **Care's types.** `CareTypesHold` is `PartsInv`, one part for each component's state, and one lemma per part. Two parts are more
  than types. `RequestsEnd`: a request is as far in its rounds as it has tried, and once more when its token
  was refused, which happens once; so no round goes past `MaxAttempts`. `SweepInv`: a row waits at its own step and once, though
  runs overlap and each works through the rows it read; what a run has in hand is of the step it is at, and what was asked about did wait. The facts about sequences it needs (what is left when an
  element is taken out, what stands where one was put in) are lemmas of their own: `TakenOut`, `PutIn`, `PutBehind`.

With TLC only: liveness, which is out of the prover's reach: the temporal properties under fairness of `Care`, `EverythingEnds`
and `RefundsEnd`. Every safety invariant and every action property of the passing runs is a theorem.

## Not modelled

- Pages, components, email layouts: presentation. That an email says what the
  booking says is `MailMatchesTheBooking`.
- Scripts and build files: tooling. Of the migrations, the two exclusion constraints
  and the tables' columns are in the models.
- Attribution, the records of booking consents, retention and the health record: reads and
  writes of one row that no other component decides by.
- The rate limiter: it refuses a request before anything has happened, and its counters
  are in one process's memory. What its maximum of keys forgets changes no row.
- HTTP, headers, signatures and credentials: input and output. Graph's rounds and its
  token are in `MicrosoftGraph`, the order of Stripe's events in `Refunds` and `PaymentEvents`.
- Notices of withdrawal decided by the card itself: the code for them is there for the bookings of
  that time only; their cancellation and refund are in `BookingSystem` and `Refunds`.
- The booking's horizon in `BookingTables`, which would be needed for the first item under
  "Met while modelling": times there have no distance from now.

What would come next: the safety of
`BookingSystem` where two confirmers of one order are told apart by what they read, to say exactly what `LateConfirmer` can
cost; and the booking's horizon in `BookingTables`.
