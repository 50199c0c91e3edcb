# Call-center agent: TLA+ models, model checks and proofs

The repository is a multi-tenant receptionist: a caller talks to a Gemini Live
agent over a Twilio media stream, the agent (or a customer on the web, or the
staff in the dashboard) books appointments in MongoDB, bookings are mirrored to
Google Calendar, texts go out before a visit, and each business pays a monthly
bill through Stripe. The implementation is `src/src` (Node.js, Express), the
indexes are in `src/db/schema.js`.

Everything runs in one or a few Node processes over one database. Inside a
process, code runs without interruption from one `await` to the next; between
two awaits any other request, timer, socket event or process may run. That is
the grain of every model here: **one action per stretch of code between two
awaits that touch shared state**. A MongoDB transaction, a single-document
update and an insert against a unique index are one action.

## 1. Inventory

| Part | State it keeps | Operations | What is hard | What makes it correct |
|---|---|---|---|---|
| Booking and slot locks: `services/bookingService.js`, `routes/team.js`, `routes/services.js` | `bookings`, `booking_slot_locks` (unique `_id`, TTL), `staff`, `services` | create, reschedule, cancel, add/delete staff, delete service | two requests for one slot; times off the five-minute grid; idempotent retries after a cancellation; the staff list read before the transaction; TTL deletions | nobody has two customers at a time; no slot is held for nobody; one intent makes one booking; nothing revives a cancelled booking |
| Calendar sync: `calendar/sync-worker.js`, `workerLease.js`, `calendar/google.js` | `sync_status`, `sync_attempts`, `next_retry_at`, `google_event_id`, `worker_leases`, Google's events | claim lease, read batch, insert/patch/delete event, save, catch, retry | the batch is a copy; a lost answer leaves an event behind; two workers when a lease is overrun; crash inside a batch | queue drains; no booking is stuck out of sight; one event per booking; the event looks like the booking |
| Billing: `services/billingService.js`, `billing/worker.js`, `routes/billing.js`, `webhooks/stripe.js`, `routes/platform.js` | billing fields of `businesses`, `invoices`, `stripe_events`, `payment_failures`, Stripe's intents | close a period, charge, retry, cancel, reactivate, suspend, webhook events | several sweeps; crash between invoice, period and charge; lost or late answers; events out of order or again | a period is closed once and never without an invoice; money is taken once |
| Voice calls: `voice/twilioBridge.js`, `voice/geminiSession.js`, `webhooks/twilio.js`, `voice/tools.js`, `services/staleCalls.js`, `server.js` | `call_logs`, `callback_requests`; in memory `activeCalls`, `callsByBusiness`, per-connection variables | answer, start stream, admit/refuse, start session, transfer, hang up, finalize, sweep, drain | hang-up while the session starts; log written by five handlers; drain and crash; Twilio's answer to a redirect is lost | lines are given back once; the log says what happened and is closed in the end; sessions are closed |
| Availability, services, staff and time off: `getAvailability`, `isSlotOffered`, `routes/services.js`, `routes/team.js` | `services`, `staff`, `staff_time_off` | offer slots; add, delete; grant time off | check and write are two steps; bookings come in between | who is booked exists and is not away |
| Messaging: `notifications/*`, `services/waitlistService.js`, `services/reviewService.js`, inbound texts in `webhooks/twilio.js` | `reminder_*`/`confirmation_*` fields, `waitlist` | claim, send, give back; join and notify; STOP, START, C | a reschedule between claim and send; crash after claim; two joins, two cancellations at once | a mark is reminded of once; nobody is told twice of one place; STOP is heard |
| Customers and consent: `services/customerService.js` | `customers` and references to them | upsert, merge, form, consent | a merge is many writes beside forms, replies and bookings | a "no" survives; a booking's phone has a record |
| Agent tools: `voice/geminiSession.js`, `voice/tools.js` | the session, what it was told; `call_logs.booking_id`, `failed_bookings` | availability, create, find, move, cancel, transfer | messages that cross, repeat or are lost; settings edited during the call | one booking per wish; the agent is told what is so |
| Access: `auth.js`, `loginHelpers.js`, `mfa.js`, `sessionRevocation.js`, `rateLimit.js`, `verification.js`, `routes/acceptInvite.js` | `admins`, tokens, counters, codes | log in, change, reset, invite, enroll, guess | what was read is old when it is written; parallel guesses | a new password ends old sessions; an invitation is used once; tries are limited |
| Sign-up, onboarding, accounts, demo data: `routes/signup.js`, `routes/onboarding.js`, `routes/phoneNumber.js`, `routes/platform.js`, `services/demoData.js` | `businesses`, `admins`, Twilio's numbers | sign up, go live, buy, close, suspend, remove, seed | several writes without a transaction, two people at once | an account is whole or absent; one number; what is live was ready; removed is gone |
| Customers' pages: booking page, "My appointments", links, directory | the pages' state, `customer_login_codes`, `booking_codes`, `directoryCache` | choose, submit, retry, change, search | late answers, double clicks, lost answers, stale caches | booked with who does it, once; changes are allowed ones; results are of the search |
| Staff's pages: lists, calendar, settings, setup guide, knowledge | the pages' state, `knowledge_versions` | load, drag, save, publish | late answers, two tabs, forms saved over newer values | what is shown is stored; what was typed stands |
| Exceptions, reports, retention | marks on bookings, `monthly_report_sent_for`, recordings | list, resolve, retry; claim, build, send; delete | claims before sends; failures half way | nothing is forgotten; nothing is reported twice |
| Tenant isolation: `db.js` | none | add `business_id` to every query | - | every model is of one business |

How they meet: the **booking documents** are shared by the booking handlers,
the calendar worker, the messaging workers and the inbound texts. The voice
bridge calls the booking service through the agent's tools, always under an
idempotency key (`voice/tools.js`). Billing suspends a **business**, which
keeps the owner from signing in; calls and bookings read only the business's
settings. Workers are elected by `worker_leases`.

Hazards (what is hard to test, line by line) are listed in `PROJECT.json`.

## 2. Modules

| Module | What it is |
|---|---|
| `Diary` | abstract specification of the booking service: an appointment is written once, may be moved, may be struck out for good, and no two that still bind clash |
| `Booking` | the booking service: handlers, transactions, locks, TTL; `Promise == INSTANCE Diary WITH ...` is the refinement |
| `BookingProofs` | TLAPS proofs about `Booking` (section 5) |
| `CalendarSync` | the calendar worker in several processes with its lease, Google, and the edits it races with |
| `CalendarSyncProofs` | TLAPS proofs about `CalendarSync` |
| `Billing` | closing periods, charging, retries, webhooks, suspension |
| `BillingProofs` | TLAPS proofs about `Billing` |
| `VoiceBridge` | calls from the answering webhook to the finished log, with transfers, the stale sweep, drains and crashes |
| `VoiceBridgeProofs` | TLAPS proofs about `VoiceBridge` |
| `Reminders`, `WaitingList`, `Customers`, `Exceptions`, `Retention`, `Agent`, `Report` | what goes to and comes from customers; instances in `MCContact` |
| `Access`, `Lockout`, `Pages`, `SignUp`, `Account`, `Demo`, `Onboarding`, `Catalog`, `Desk`, `Knowledge`, `Settings` | what staff, owners and the platform do; instances in `MCOffice` |
| `BookPage`, `Codes`, `Portal`, `Directory` | what visitors and customers do on the web; instances in `MCPublic` |
| `MC*` | the instances TLC checks. `MCBooking`, `MCCalendarSync`, `MCBilling`, `MCVoiceBridge` extend their module; `MCContact`, `MCOffice` and `MCPublic` put several components side by side: `part` says which one a behaviour is of, and the variables of the others hold `None`. The parts share no state in the code either (a part's neighbours appear in it as actions), so exploring them side by side is exploring each, and saves a run for each |
| `BookPageProofs` | TLAPS proofs about a visit of `BookPage`, for any places, services, staff, days and times |
| `PublicProofs` | TLAPS proofs about `MCPublic`: every invariant of the run `public` |
| `ContactProofs` | TLAPS proofs about `MCContact`: every invariant of the run `contact` |
| `OfficeProofs` | TLAPS proofs about `MCOffice`: every invariant of the run `office` |

### Booking

`req[r]` is the local state of one handler; its `pc` names the await it is at.
`createBooking` is `CreateStart` (checks, up to the replay lookup),
`CreateReplay`, `CreateReleaseKey`, `CreateReadTeam` (`staffIdsFor`),
`CreateCommit` (the transaction) or `CreateCollide` (error 11000) and
`CreateAfterCollision`. `rescheduleBooking` is `MoveStart`, `MoveReadTeam`,
`MoveCommit` or `MoveAbort`. `cancelBooking` decides everything inside its
transaction, so `Cancel` is one action. Deleting staff or a service is a check
and a deletion in two steps. Lock ids (`business:staff:slot`) are records
`[staff, slot, booking, expires]`, and `Insertable` is the unique index.
`covers` and `intent` are history variables in the booking document: the staff
list its locks were taken for, and the key it was made with.

Left out here: availability and the callers' change cut-off (they only refuse
more), prices, what is written to the audit log, time off (in `Catalog`),
no-shows (in `Report` and `Reminders`), what is sent to customers (in
`MCContact`), and failures of database writes other than the aborts the handlers handle.

### CalendarSync

`worker[i]` is one backend process: `batch` is a set of document snapshots read
once, `current` the one being mirrored. `Begin` is the start of `syncOne`,
`Insert`/`Patch`/`Delete` are Google's side, `SaveEvent` and `Save` the two
updates afterwards, `Catch` the catch block, which computes the attempts from
the snapshot. `Answered` lets an answer be lost after Google did what it was
asked. `LeaseExpires` may strike in the middle of a batch because `runSyncOnce`
does not renew the lease. `due` abstracts `next_retry_at`; a booking's time is
the number of the edit that set it.

Left out: deletion of a business, personal calendars, the free/busy lookup.

### Billing

A process of `proc` runs any handler: `CloseStart … CloseAccount` is
`closeBillingPeriod`, `RetryStart … ClearHold` the owner's retry,
`Deliver`, `HandleEvent`, `RaiseAlert` and `EventFails` the Stripe webhook.
`Charge` is `chargeInvoice`: Stripe answers the first call under an idempotency
key and repeats that answer to later ones; the answer may be lost. Amounts are
reduced to "nothing to collect" (`FreePeriod`). `billing_status`, disputes and
plan changes are left out. The sweep does not hold a lease in the model: the
comment on `closeBillingPeriod` says it must be safe without one, and it is.

### VoiceBridge

Up to four things are under way for one call at once, so `conn[c]` has four
counters: `start` (the `start` frame's handler), `fin` (`finalizeCall` between
its read and its write), `transfer` (the agent's request) and `dial[c]` (what
Twilio rings, and the webhook that reports it). `Finalized` is the first half of
`finalizeCall`, which runs without an await. `HangUp` stands for every way the
socket closes: the caller, the 30-minute watchdog, the start timer, Google
ending the session, a transfer. `ProcessGone` clears what is in memory; the
phone Twilio rings and the documents stay.

Left out: audio, prompts, transcripts, media frames, the tools that only read,
and a call without a caller's number.

### What goes to customers (`MCContact`)

- **Reminders** - each worker goes through a copy of the due bookings: `Claim`
  (the conditional update), consent, send, `Store` or `GiveBack`. Workers take
  no lease, so two may hold one booking. `Move` resets the marks while a text is
  under way; STOP and START change the consent between its read and the send.
  Failures end differently at each await: a consent that cannot be read is taken
  for none and the text goes out (`ConsentUnread`), a text Twilio refuses is
  marked all the same (`Refused`), a write that fails gives the mark back
  (`Fail`, `GiveBack`), and a give-back that fails leaves it (`NotGivenBack`).
- **WaitingList** - `JoinLook` and `JoinInsert` are the check and the insert;
  `Book` and `Cancel` hand the one place of a day over, `Begin`, `CheckFree`,
  `Claim`, `Send` are `notifyWaitlistForCancellation`, `LoseTask` a restart
  between a commit and what follows it. `created` is read before the insert, so
  a row may come in after a later ticket: the one exception of `LineIsKept`.
- **Customers** - `UpsertBooked`, the form, the reply by text, the boxes of the
  web page, and `MergeRead`, `MergeMove`, `MergeWrite`, `MergeDelete`, which are
  `mergeCustomers` write by write; `Die` is a restart anywhere.
- **Exceptions** - the fields the queue is read off, the runs of
  `sendBookingConfirmation` that write them, Twilio's receipts, the marks.
- **Retention** - a sweep asks Twilio to delete recording after recording and
  forgets those it was told are gone.
- **Agent** - a message of the session with one or two tools in flight per
  handler; what the model may ask for is anything it was told and any
  wish; the owner edits settings during the call (`Edit`).
- **Report** - the claim of the month before the figures, every figure a query
  of its own. `Fail` is the `catch`: the claim is given back, or that fails too
  and the month is lost.

### What the office does (`MCOffice`)

- **Access** - a request is what it read and what it will write (`Start*`,
  `Finish*`); passwords and secrets are numbers, tokens carry the second they
  were issued in. An acceptance writes by `_id` alone, whatever became of the row.
  **Lockout** - the counters of `rateLimit.js`, incremented if
  live, written if not, per e-mail, address and code. **Pages** - one tab's
  lists, the session in `localStorage`, answers in any order.
- **SignUp** - insert by insert, with the clean-up in reverse. **Account** - the
  owner, billing, the platform and customers over one account. **Demo** - the
  runs of `demoData.js` as lists of writes that a stop cuts anywhere.
  **Onboarding** - the guide's page and the routes behind it; a test call may
  come from another tab or member too (`OtherTestCall`), and is counted as
  `hit` counts it: in the row there is (`CountTestCall`), or in a new one written
  over whatever is there by then (`FirstTestCall`).
- **Catalog** - checks and writes of services, staff, time off and bookings as
  separate steps. A booking is moved by the desk (`ChooseMove`), by the link or
  the phone, which look at nothing (`MoveByLink`), or in the portal, which looks
  at what is offered (`MoveInPortal`, `LookAtMove`). **Desk** - the calendar's page: drags, the form, fetches.
- **Knowledge** - draft, publish, roll back. **Settings** - five sections that
  load and save whole forms.

### What the public does (`MCPublic`)

- **BookPage** - the state hooks of the page, the questions it has under way,
  and the posts with the loop over staff behind them. Checked three times: with
  two places (`wide`), two days (`days`) and three attempts (`deep`).
- **Codes** - send and check of one-time codes at three doors.
- **Portal** - one appointment on "My appointments" and on the page of its link.
- **Directory** - two reads of a load, the memory of each process, the visitor's
  page. A change is answered well and clears the memory of its process
  (`Finish`), or is not and clears nothing (`FinishBadly`); no other process is
  told (`Missed`).

In all of these, history variables record only what a property's exception
names (two requests at once, a restart in the middle); none guards an action.

## 3. Runs

| Run | Instance | Shows |
|---|---|---|
| `booking` | 2 requests, 2 booking ids, 1 staff member who joins and leaves, starts on and off the grid and back to back, a clock passing the bookings' ends and the expiry of some of their locks | `NoDoubleBooking`, `AnyoneBlocksTeam`, `NoStrayLock`, `LocksHeld`, refinement `KeepsPromise` |
| `booking_retries` | 2 requests, 3 booking ids, 1 key | `OneBookingPerIntent`: needs a booking, its cancellation, and two retries that both saw it cancelled |
| `calendar_sync` | 1 booking, 2 processes, 3 event ids, 2 attempts, 2 edits, 1 mishap | `SomebodyLooks`, `OneEventPerBooking`, `SyncedUnlessDisturbed`, and `QueueDrains` (liveness) |
| `billing` | 2 handlers, a free and a paid month, 1 retry, 1 mishap | `ClosedOnce`, `NoPeriodSkipped`, `PaidOnceUnlessRisky` |
| `billing_twice` | 1 handler, 1 month, 1 lost answer | **violation**: money taken twice |
| `voice` | 2 calls, 1 business, 1 line, 1 restart, 1 call with a request of the agent | `LinesMatchCalls`, `OutcomeStands`, `CallbackAsLogged` |
| `voice_liveness` | 1 call, 2 restarts | `LogsClose`, `SessionsEnd` (liveness) |
| `contact` | per part: 2 bookings or customers, 2 workers or handlers | `NobodyIsPestered`, `WaitersServedInTurn`, `RecordsHold`, `NothingIsForgotten`, `AgentHolds` |
| `undelivered` | the same | **violation**: an undelivered text is in no list |
| `office` | per part: 2 requests, 3 sign-ups, 2 tabs, 1 test call a day | `AccessHolds`, `AccountsHold`, `CatalogHolds`, `KnowledgeHolds` |
| `profile_save` | the same | **violation**: an unlimited window cannot be saved |
| `public` | three visits, 2 + 2 requests for codes, 2 pages, 2 searches of a directory in 2 processes | `DoneByWhoDoesIt`, `BookedOnceUnlessGivenUp`, `ConsentedBeforeBooking`, `CodesHold`, `ChangesAreAllowed`, `DirectoryHolds` |

Why the bounds are enough. Every safety property relates at most two bookings,
two calls or two payments, and the handlers that disturb it are at most two
(the third booking id of `booking_retries` is there because the cancelled one
keeps its id). Times: `MCStart` has one start on the grid, one off it and one
where the first booking ends; `MCInstant` falls before every start, after the
end but inside the grace, and after the first locks expire. `Grace` is 6 and
not a day, but larger than a booking, as in the code. Two attempts stand for
five: the first one fails and is retried, the last one gives up. In `voice`
both limits are 1, so that the second call meets them. Symmetry is used only in
runs without liveness properties (requests, booking ids, people, handlers and
calls are interchangeable).

`CHECK_DEADLOCK FALSE`: each of these systems may stop when every id is used
and nothing is in flight.

The bounds of `MCContact`, `MCPublic` and `MCOffice` are constants, given their
values in `Contact.cfg`, `Undelivered.cfg`, `Public.cfg`, `Office.cfg` and
`ProfileSave.cfg`; the proofs leave them open.
In the composed runs a part has two of everything that can cross and one of
what it crosses over; the third sign-up is there because a name freed by the
second may be taken by it, the third place on the waiting list because a line
needs somebody in front and behind. One test call is in flight from elsewhere
beside the guide's own, which is what the race for the first row needs; the
directory has two processes and two changes, one to be told of and one not.
`MaxMoves`, `MaxMishaps`, `MaxEdits` and the
like end behaviours after the first disturbance of each kind: the properties
speak of one promise and what may come between. Clocks have the instants that
tell cases apart (before, inside and after a window). `VIEW Matters` (in
the runs `contact`, `public` and `office`) leaves out what no later step or
property reads: fields of a settled post or of a page that is done, sessions
that are revoked, a call that is over, histories an exemption has settled. `CHECK_DEADLOCK FALSE` as above.

## 4. Fairness

Safety runs need none. `CalendarSync` assumes weak fairness of each process's
work (the interval timer fires again and every await comes back, because the
Google client and MongoDB driver answer or throw), of the passing of
`next_retry_at` and of the lease's expiry. Google may refuse for ever, edits
may stop, and crashes are bounded by `MaxMishaps`; `Work` is one fair action,
so no particular answer is promised. `VoiceBridge` assumes that awaits come
back (`Handler`, `Finalizer`, `Transfer`), that each socket closes (`HangUp`:
the watchdog in `twilioBridge.js`), that the sweep runs (`CloseStaleCall`: its
timer) and that a drain ends (`Exit`: `DRAIN_TIMEOUT_MS`). Nothing is assumed
of callers, Google or Twilio. Crashes are bounded by `MaxRestarts`: a process
that crashes for ever closes no log.

## 5. Proofs

Checked by TLAPS for every value of the constants, under the assumptions named
in the modules (times are integers, grace and notice are natural numbers, null
values are not ids). The set of requests, people, services, keys, bookings and
times may be infinite.

`BookingProofs` builds one inductive invariant in layers:

1. `TypeOK` and `ReqInv`. `ReqInv` says what a request in flight knows: one
   that will write has a positive length, one that moves or releases has read
   the booking it names, and the kind of worker and service it carries never
   changes under it. → `TypeCorrect`.
2. `LockInv` = `OneLockPerSlot`, `NoStrayLock`, `LocksHeld` → `LocksCorrect`,
   `NothingHeldForNobody`.
   No one of the three is inductive alone: that a live booking keeps its locks
   through somebody else's cancellation needs that locks belong to one booking,
   and that a new booking's locks collide with nothing needs that every stored
   lock belongs to a confirmed booking. `OverlapSharesSlot` is the arithmetic
   of the five-minute grid: two overlapping intervals, wherever they start,
   have a grid line in common.
3. `NeverDoubleBooked` and `AnyoneBlocksWholeTeam` follow from 2: an overlap is
   a shared grid line, hence one lock, hence one booking.
4. `KeyInv`: a confirmed booking still has the key it was made with, and no two
   bookings have one key → `OneIntentOneBooking`.
5. `ServiceKeepsPromise`: every step is a step of `Diary` or a stutter, using 2.

`CalendarSyncProofs` (any number of bookings, processes, event ids and
attempts; event ids may be infinite):

1. `TypeOK` and `QueueInv` = `HeldExist` (a snapshot is of a document there is)
   and `SomebodyLooks`. The type of a snapshot carries the fact that it was read
   with attempts left; this is what makes the catch block, which counts from the
   snapshot and writes over whatever edits did meanwhile, write `failed` exactly
   with the last attempt. → `SyncTypes`, `NoBookingForgotten`.
2. `QuietInv`, while there is no mishap: only the holder of a live lease works
   (`LeaseHeld`); a batch has one snapshot of a booking and the one at work is
   out of it (`OneSnapshot`); no edit touches `google_event_id`, so a snapshot has
   it right even when it has nothing else right (`EventsKnown`); and every event
   is stored in its booking or about to be, by the one worker (`EventsStored`).
   Two entries of a booking would be one stored and one about to be, but only a
   booking without an event gets one. → `NeverTwoEvents`. The hypothesis (no
   crash, lost answer or overrun lease) is the property's own: an event whose id
   was never stored is made again on the next attempt, and two workers with the
   same snapshot each make one.

3. `MirrorInv`, while there is no mishap: an event id in a booking is that of an
   event made for it (`EventsOwned`); a copy nobody edited behind the worker's
   back still is the booking (`FreshCopies`); what the worker is about to save
   is already so in Google (`ResultsLook`), and then so is what it saved
   (`SyncedLook`). → `SyncedIsMirrored`.

`BillingProofs` (any number of processes, periods and retries): `CloseInv` says
what a close knows at each await (`Knows`), that a close which may advance the
period has its invoice in place (`InvoiceFirst`), and that a close which may
charge moved the period on and nobody charged before it (`MayCharge`,
`OneCharger`, `ChargedIsOver`). The start of the period only grows, so the one
conditional update that moves it from p to p + 1 is won once: its winner is the
only one that ever charges. A restart forgets what a process knows and changes
no document. → `BillingTypes`, `ChargedOnceByClose`, `EveryPeriodInvoiced`.
`PayInv` is about the periods whose charges met no mishap (`Sound`): a later
try is asked for only when Stripe has declined the ones before it (`InOrder`),
because the invoice names the last try that was written (`InvoiceSays`), a
handler that writes brings back what Stripe said (`RetryKnows`, `CloseKnows`),
and a close and a retry take turns (`InTurn`, the property's own hypothesis).
→ `PaidOnce`.

`VoiceBridgeProofs` (any finite set of calls, any businesses and caps):
`LineInv` is `LinesMatchCalls`, the two counters as cardinalities of the set of
calls that hold a line, with `KnownCalls`: a call is counted only when its start
handler has run to its end, and nothing is known of a call without a log, which
keeps the business a line was taken for the one it is given back to.
`finalizeCall` runs its counting part once per connection, so a line is given
back by the call that holds it and by no other. → `BridgeTypes`,
`LinesAlwaysMatch`. On it stand two more: `VerdictsStand`, a finalizer about to
write holds what the log says unless the log was written since it read it
(`crossed`) → `OutcomesStand`; and `CallbackPromised`, a log that says that
nobody answered, or a finalizer that will say so, has its callback stored or its
webhook still to store it, unless the process ended in between (`cut`)
→ `CallbacksAsLogged`.

`BookPageProofs` is about one visit with any places, services, staff, days,
times and number of attempts. A key is the current one as long as its outcome is
open (`OpenKnown`) or its booking not yet shown (`BookedKnown`), and one that
was heard of is done with (`HeardKnown`); only what is dropped, which is the
exception of the promise, escapes. `SomebodyLeft` says that the loop over staff
always has somebody to try. → `VisitKeepsPromises`, of which `PublicProofs`
makes the three visits of `MCPublic`.

`PublicProofs` and `ContactProofs` prove the invariants of the runs `public` and
`contact`. A behaviour stays in its part, so each part has an inductive invariant
of its own (`PublicInv`, `ContactInv` gather them), and nothing of one part is
needed in another:

- *Directory* - a load that no write crossed has read the businesses as they are,
  and what a process keeps of it is so until a change it is not told of;
  and the newest search asks for what the page shows as asked.
- *Portal* - a request that was checked and not overtaken is still in order
  (`CheckedHolds`), and the times on offer are of the day shown.
- *Codes* - guesses made and guesses under way are at most the tries taken off
  the row (`TriesCounted`); a code has one check at most unless two crossed
  (`OneCheck`); and the newest one is in the row, or about to be with nothing
  else under way (`NewestStands`).
- *Retention* (`SweepInv`) - what Twilio keeps has a row.
- *Exceptions* (`QueueInv`) - a text without a sid that was not held back is an
  error, and two requests to be deleted need two that crossed.
- *Report* (`ReportInv`) - one process holds the claim of a month, and the claim
  is of the month before, not yet mailed; one that nobody holds was settled, or
  its month is among the mishaps.
- *Customers* (`KeepInv`) - who said no and whose record was not merged away has a
  record that says no; what a merge read is so or gone; and the phone of every
  booking has a record or its record is on its way.
- *Waiting list* (`WaitInv`) - tickets given out are rows and joiners about to
  insert; the line a notifier holds is the front of the waiting line
  (`LineHolds`); rows and inserts of one phone are at most as many as those who
  join.
- *Reminders* (`RemindInv`) - texts sent and texts under way are at most the marks
  taken away and the mark there is (`Marked`): the conditional update is won
  once per mark. After STOP, texts sent and workers past the consent check
  together are at most the workers and the reads of the consent that failed.
- *Agent* (`AgentInv`) - what the model was told and may ask for is of the call's
  kind, a key is of one confirmed booking, and an answer says what the diary
  says.

The texts in these parts are counted with cardinalities of sets of workers, which
is why the workers are finite. The reminders are proved for the instance of
`MCContact` (one customer, the two-hour label, the instants that tell the cases
apart) with any bookings and workers; every other part for any value of its
constants.

`OfficeProofs` does the same for the eleven parts of `MCOffice` (`OfficeInv`), for
any values of their constants:

- *Access* (`EnterInv`) - sessions are revoked up to the last password unless an
  acceptance overtook one (`RevokedInv`), without a password nobody is in or on
  the way (`FirstInv`), only who read the invitation before it was taken may
  still take it (`InviteInv`), and a member suspended under an acceptance in
  flight is one whose suspension crossed it (`SuspendedInv`).
- *Lockout* (`GuardInv`) - a row counts at least the tries it let through
  (`LimitInv`); one try takes it to its limit (`ToldInv`); an address' count is
  the wrong tries and those still judged; stored failures and tries not yet
  judged are at most the tries sent (`FailureInv`). Counted with cardinalities, so
  requests are finite.
- *Pages* (`BrowseInv`) - the newest request of a page is for what its search says
  (`ListInv`), a tab that checks its session asks for nothing else
  (`CheckInv`), and an answer "no session" was to a session that is over
  (`DeadInv`).
- *SignUp* (`SignInv`, `Signed`) - what there is of an account is what its attempt
  has inserted so far. Attempts are finite and names more than attempts, so a
  free name is found.
- *Account* (`CloseInv`) - who is suspended by a person has nobody past the door
  (`HoldInv`), one purchase runs at a time, and while the deletion may still
  stop what is left is still on its list (`LeftInv`).
- *Demo* (`DemoInv`, `Reached`) - where a process is in its plan says which
  collections are cleared and which businesses are marked; each plan removes
  first and inserts each business before what is of it (`Planned`).
- *Onboarding* (`GuideInv`) - who was found ready still is (`ReadyInv`); calls
  that rang and calls that may still ring are at most the limit and those whose
  count a crossing first call wrote over (`RingInv`; one is in flight from the
  guide at most and one from elsewhere); and the page waits for something or shows what is
  stored.
- *Catalog* (`StockInv`, `StillSo`) - what a request in flight has looked at still
  is so, unless two crossed; a move that looked at nothing leaves its mark on
  the booking (`unasked`).
- *Desk* (`MindInv`, `Follows`) - one drag of a booking is drawn where it ends and
  stored where it began until it is stored.
- *Knowledge* (`TeachInv`) - what calls are about to use is recorded, and a number
  about to be used is new while one request publishes.
- *Settings* (`SetInv`, `TabHolds`) - an untouched form is what was loaded, and what
  is under way is what the form was when it was sent.

Assumptions, beside the ranges of the bounds: null values are not documents,
ids, texts, records, keys or bookings (`NullIsNoDoc`, `NullIsNoLog`,
`NullsAreNotIds`, `NullsAreNotValues`, and `Assumptions` of the parts); a real
business is not one of the demo's; an account's business row is deleted after
the rows of its collections, and is none of them; calls, workers, joiners,
sign-ups and tries are finite, as cardinalities need it; and the agent has a
first start time to offer. One is built into an action: `Report.NextMonth` lets
no month end while its report is under way, because the sweep is hourly and
does not overlap itself (`running`, `reportService.js:66`); without it, and three
months on, a report may be sent of a month that another process has reported.

Only model-checked: liveness (`QueueDrains`, `LogsClose`, `SessionsEnd`), which
needs ENABLED and is out of the provers' reach. Every invariant of every
passing run is stated by a theorem.

## 6. Where the code disagrees with what it says

Three runs end in a violation, each of a sentence of the repository
(`PROJECT.json`, `findings`):

1. `billing_twice` - a charge whose answer was lost is stored as failed without
   its intent, and the owner's retry has a new idempotency key.
2. `profile_save` - `Number(null)` is 0: a profile without a booking window is
   refused when it is saved untouched.
3. `undelivered` - Twilio's receipt sets a status the Exceptions queue does not
   look at.

What else was met while modelling. Each is behaviour the models have, kept apart
from the promises by a history variable or by what a property does not claim:

- *Calendar.* `sync-worker.js:55` marks a booking `synced` from a copy that is out
  of date (`disturbed`); a moved test booking is queued for Google
  (`bookingService.js:417`).
- *Billing.* A billing suspension overwrites the platform's
  (`billingService.js:168`, `overtaken` in `Account`), and the next payment lifts
  it; a platform toggle reopens a closed account.
- *Voice.* The cap on calls is checked before an await and counted after
  (`twilioBridge.js:193`); a hang-up during `startSession` leaves the line counted
  until the process ends (`crossed`). `check_availability` ignores a staff
  name it does not know.
- *Booking page.* After giving up on an answer the page makes a new key, so a
  retry may book twice (`BookPageClient.jsx:177`, beside UC-A6 in
  `USE_CASES.md:17`; `dropped`). Times of the day before stay clickable while new
  ones load (`BookingModal.jsx:132`; `astray`).
- *Moves.* A reschedule by the link or by phone is not checked against what is
  offered, as the portal's is (`myBooking.js:80`, `voice/tools.js:273`; beside
  `customerPortal.js:262`), so a visit may end in somebody's time off (`unasked`).
- *Consent.* A consent that cannot be read is taken for none: a reminder, a review
  text or a text of the waiting list then goes to somebody who said STOP
  (`notify.js:55`, `reviewService.js:39`, `waitlistService.js:76`; `unread`).
- *Invites.* An acceptance is written by `_id` alone (`acceptInvite.js:47`): begun
  before a suspension and finished after it, it lets the member back in
  (`crossing`, `restored`).
- *Test calls.* Two calls that find no row of the day both write 1, as the comment
  at `rateLimit.js:17` says: more ring than the limit (`uncounted`).
- *Directory.* "Any change made through the API clears it at once"
  (`directoryCache.js:3`) holds for the process that served it and an answer
  below 400 (`app.js:78`): another process, and one whose request failed after
  its write, remember the old list for up to 30 seconds (`crossed` of an entry).
- *Sign-up.* A clash of link names at the insert is an error, although `slug.js:26`
  says callers retry once.
- *Customers.* A merge may give consent back (`customerService.js:189`; `gone`); a
  no-show stays on a visit that is moved; a resolved mark stays on a new failure.
- *Platform.* Removing demo data leaves `knowledge_versions` (`Kept` in `Demo`);
  `OWNED_COLLECTIONS` lacks `customer_login_codes` and `booking_codes`; demo runs in
  two processes leave orphans (`crossed`).
- *Reports.* A month's report is lost when the mail is refused, or when what
  failed keeps the claim from being given back too (`reportService.js:79-82`,
  whose `.catch(() => {})` says nothing; `mishap`); a visit both booked and transferred counts
  twice (`analyticsService.js:146`).
- *Pages.* Hours saved before they are loaded wipe the week (`Unseen` in
  `Settings`); a late 401 signs out a fresh session (`bystander`); "show more" mixes
  searches (`mixed`); an undelivered verification code still starts the cool-down
  (`onboarding.js:83`).

## 7. Not modelled

- `getAvailability` and `isSlotOffered`: time-zone arithmetic over one day; pages
  and tools pick from any list of times, and `Booking` refuses what is taken.
- Audio, prompts, transcripts; wording, languages and layout; maps, distances,
  Twilio's number search; password hashing and token formats.
- The platform's lists and figures, the audit log, exports: queries without
  state. Tenant isolation: a filter on one field.
- Migrations and scripts run by hand while nothing else runs, except the demo
  script. Disputes and plan changes of billing; deletion of a business in the
  calendar's worker; personal calendars.

## 8. Plan

Modelling is done but for what section 7 leaves out, and every invariant the runs
check is proved. What is left is to state more for every value of the constants:
the reminders for any customers, both labels and any instants, which needs a
finite-sum argument for texts per customer; and abstract specifications, as
`Diary` is for bookings, of what a month's invoice and a call's log go through,
refined step by step by `Billing` and `VoiceBridge`.

Liveness stays with TLC.
