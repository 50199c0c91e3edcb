------------------------------ MODULE Billing ------------------------------
(***************************************************************************)
(* Billing of one business: the sweep that closes finished periods         *)
(* (services/billingService.js, billing/worker.js), the owner's requests   *)
(* (routes/billing.js), the platform's suspension (routes/platform.js) and *)
(* Stripe's events (webhooks/stripe.js).                                   *)
(*                                                                         *)
(* Any number of processes run any of the handlers at once, the sweep too: *)
(* closeBillingPeriod does not count on the worker's lease.  Each await is *)
(* a step.  Period p is the p-th month; it is over when now > p.           *)
(***************************************************************************)
EXTENDS Integers, FiniteSets

CONSTANTS
  Process,     \* handlers in flight
  MaxPeriod,   \* bound: billing periods
  MaxTry,      \* bound: retries by the owner of one invoice
  MaxMishaps,  \* bound: restarts, lost answers and failed webhooks
  Verdict,     \* statuses the platform may give the business
  FreePeriod,  \* periods with nothing to collect
  NoIntent,    \* stripe_payment_intent_id null
  Never        \* cancel_at null

Period == 0..(MaxPeriod - 1)

\* A payment intent is named by its idempotency key, invoice_<id>_try_<attempt>.
Intent == [invoice : Period, try : 0..MaxTry]

ASSUME BoundsAreNumbers ==
  /\ MaxPeriod \in Nat \ {0} /\ MaxTry \in Nat /\ MaxMishaps \in Nat
  /\ FreePeriod \subseteq Period /\ Verdict \subseteq {"active", "suspended"}

ASSUME NullsAreNotValues == NoIntent \notin Intent /\ Never \notin Int

VARIABLES
  now,       \* how many periods are over
  biz,       \* the business document
  invoices,  \* invoices collection, by period
  stripe,    \* Stripe: what became of each intent, and its first answer
  events,    \* events Stripe has to deliver, as often as it takes
  seen,      \* stripe_events collection
  alerts,    \* intents with a payment_failures document
  proc,      \* what each handler in flight knows
  mishaps,   \* restarts, lost answers and failed webhooks so far
  closes,    \* history: how often a close called Stripe for each period
  risky      \* history: periods whose charge met a restart or a lost answer, or
             \* which a close and an owner's retry were at work on at once

vars == <<now, biz, invoices, stripe, events, seen, alerts, proc, mishaps,
          closes, risky>>

-----------------------------------------------------------------------------
(* Documents.                                                              *)

\* open: current_period_end is set; the period is the one that begins at start.
Business ==
  [start : 0..MaxPeriod, open : BOOLEAN, cancelAt : Int \cup {Never},
   status : {"active", "suspended"}, reason : {"none", "billing", "cancelled"},
   card : BOOLEAN]

Invoice ==
  [status : {"none", "pending", "paid", "failed", "processing"},
   intent : Intent \cup {NoIntent}, retries : Nat]

Answers == {"none", "succeeded", "processing", "failed"}

ProcessState ==
  [pc : {"idle", "previous", "insert", "advance", "charge", "write", "account",
         "retry", "retried", "clear", "event", "alert", "cancel"},
   period : 0..MaxPeriod, cancelling : BOOLEAN, card : BOOLEAN, unpaid : BOOLEAN,
   result : {"none", "pending", "paid", "failed", "processing"},
   try : 0..MaxTry, intent : Intent \cup {NoIntent},
   type : Answers]

Idle ==
  [pc |-> "idle", period |-> 0, cancelling |-> FALSE, card |-> FALSE,
   unpaid |-> FALSE, result |-> "none", try |-> 0, intent |-> NoIntent,
   type |-> "none"]

Goto(q, pc) == proc' = [proc EXCEPT ![q].pc = pc]
Return(q)   == proc' = [proc EXCEPT ![q] = Idle]

AtWork(p, pcs) == \E q \in Process : proc[q].pc \in pcs /\ proc[q].period = p
Closing(p)  == AtWork(p, {"previous", "insert", "advance", "charge", "write"})
Retrying(p) == AtWork(p, {"retry", "retried"})

-----------------------------------------------------------------------------
(* Stripe.                                                                 *)

\* The first call under a key decides; later calls get the first answer again.
Outcome(i, a) ==
  IF stripe[i].answer = "none" THEN a # "none" ELSE a = stripe[i].answer

Charged(i, a) ==
  IF stripe[i].answer = "none"
  THEN /\ stripe' = [stripe EXCEPT ![i] = [status |-> a, answer |-> a]]
       /\ events' = events \cup {[type |-> a, intent |-> i]}
  ELSE UNCHANGED <<stripe, events>>

\* A slow payment settles one way or the other.
Settle(i, a) ==
  /\ stripe[i].status = "processing" /\ a \in {"succeeded", "failed"}
  /\ stripe' = [stripe EXCEPT ![i].status = a]
  /\ events' = events \cup {[type |-> a, intent |-> i]}
  /\ UNCHANGED <<now, biz, invoices, seen, alerts, proc, mishaps, closes, risky>>

ResultOfRaw(a) == a  \* mutant: Stripe's word for it goes into the invoice
ResultOf(a) == IF a = "succeeded" THEN "paid" ELSE a

\* chargeInvoice, for the handler q and the try t, then on to pc.
Charge(q, t, pc) ==
  LET p == proc[q].period
      i == [invoice |-> p, try |-> t]
      Answer(r, intent) ==
        proc' = [proc EXCEPT ![q].pc = pc, ![q].result = r, ![q].intent = intent]
  IN
  \/ /\ p \in FreePeriod
     /\ Answer("paid", NoIntent)
     /\ UNCHANGED <<stripe, events, mishaps, risky>>
  \/ /\ p \notin FreePeriod /\ ~proc[q].card
     /\ Answer("pending", NoIntent)
     /\ UNCHANGED <<stripe, events, mishaps, risky>>
  \/ /\ p \notin FreePeriod /\ proc[q].card
     /\ \E a \in Answers :
          /\ Outcome(i, a)
          /\ Charged(i, a)
          /\ \/ Answer(ResultOf(a), i) /\ UNCHANGED <<mishaps, risky>>
             \/ \* the answer is lost
                /\ mishaps < MaxMishaps /\ mishaps' = mishaps + 1
                /\ risky' = risky \cup {p}
                /\ Answer("failed", NoIntent)

-----------------------------------------------------------------------------
(* closeBillingPeriod.                                                     *)

Due(b) == b.open /\ now > b.start

\* mutant: the period moves before its invoice exists
FirstStepAdvances == "advance"
FirstStep == "previous"

\* The sweep reads the business.
CloseStart(q) ==
  /\ proc[q].pc = "idle"
  /\ Due(biz)
  /\ proc' = [proc EXCEPT ![q] =
       [Idle EXCEPT !.pc = FirstStep, !.period = biz.start, !.card = biz.card,
                    !.cancelling = biz.cancelAt # Never /\ biz.cancelAt <= biz.start]]
  /\ risky' = IF Retrying(biz.start) THEN risky \cup {biz.start} ELSE risky
  /\ UNCHANGED <<now, biz, invoices, stripe, events, seen, alerts, mishaps, closes>>

\* Is the invoice just before this one unpaid?
Unpaid(p) ==
  \/ invoices[p].status = "failed"
  \/ invoices[p].status = "pending" /\ p \notin FreePeriod

ReadPrevious(q) ==
  /\ proc[q].pc = "previous"
  /\ proc' = [proc EXCEPT ![q].pc = "insert",
                          ![q].unpaid = proc[q].period > 0 /\ Unpaid(proc[q].period - 1)]
  /\ UNCHANGED <<now, biz, invoices, stripe, events, seen, alerts, mishaps,
                 closes, risky>>

\* The unique index on (business_id, period_start): a second insert finds the
\* first one's document, and remembers its status.
InsertInvoice(q) ==
  LET p == proc[q].period IN
  /\ proc[q].pc = "insert"
  /\ IF invoices[p].status = "none"
     THEN /\ invoices' = [invoices EXCEPT ![p].status = "pending"]
          /\ proc' = [proc EXCEPT ![q].pc = "advance", ![q].result = "pending"]
     ELSE /\ UNCHANGED invoices
          /\ proc' = [proc EXCEPT ![q].pc = "advance", ![q].result = invoices[p].status]
  /\ UNCHANGED <<now, biz, stripe, events, seen, alerts, mishaps, closes, risky>>

\* mutant: the update of the period does not ask for the period's end
StillCurrentUnchecked(p) == TRUE
StillCurrent(p) == biz.open /\ biz.start = p

\* Whoever moves the period forward goes on to charge.
Advance(q) ==
  LET p == proc[q].period IN
  /\ proc[q].pc = "advance"
  /\ \/ ~StillCurrent(p) /\ Return(q) /\ UNCHANGED biz
     \/ /\ StillCurrent(p)
        /\ biz' = [biz EXCEPT !.start = p + 1, !.open = ~proc[q].cancelling]
        /\ IF proc[q].result = "pending" THEN Goto(q, "charge") ELSE Return(q)
  /\ UNCHANGED <<now, invoices, stripe, events, seen, alerts, mishaps, closes, risky>>

CloseCharge(q) ==
  /\ proc[q].pc = "charge"
  /\ Charge(q, 0, "write")
  /\ closes' = [closes EXCEPT ![proc[q].period] = @ + 1]
  /\ UNCHANGED <<now, biz, invoices, seen, alerts>>

CloseWrite(q) ==
  /\ proc[q].pc = "write"
  /\ invoices' = [invoices EXCEPT ![proc[q].period].status = proc[q].result,
                                  ![proc[q].period].intent = proc[q].intent]
  /\ Goto(q, "account")
  /\ UNCHANGED <<now, biz, stripe, events, seen, alerts, mishaps, closes, risky>>

\* An unpaid invoice from before suspends the business, a due cancellation ends it.
CloseAccount(q) ==
  /\ proc[q].pc = "account"
  /\ biz' = IF proc[q].cancelling
            THEN [biz EXCEPT !.status = "suspended", !.reason = "cancelled"]
            ELSE IF proc[q].unpaid
            THEN [biz EXCEPT !.status = "suspended", !.reason = "billing"]
            ELSE biz
  /\ Return(q)
  /\ UNCHANGED <<now, invoices, stripe, events, seen, alerts, mishaps, closes, risky>>

-----------------------------------------------------------------------------
(* The owner's requests: a suspended business cannot sign in.              *)

RetryableAll == {"pending", "failed", "paid", "processing"}  \* mutant: no status check
Retryable == {"pending", "failed"}

\* POST /billing/invoices/:id/retry.
RetryStart(q, p) ==
  /\ proc[q].pc = "idle"
  /\ biz.status = "active" /\ biz.card
  /\ invoices[p].status \in Retryable
  /\ invoices[p].retries < MaxTry
  /\ proc' = [proc EXCEPT ![q] =
       [Idle EXCEPT !.pc = "retry", !.period = p, !.card = TRUE,
                    !.try = invoices[p].retries + 1]]
  /\ risky' = IF Closing(p) THEN risky \cup {p} ELSE risky
  /\ UNCHANGED <<now, biz, invoices, stripe, events, seen, alerts, mishaps, closes>>

RetryCharge(q) ==
  /\ proc[q].pc = "retry"
  /\ Charge(q, proc[q].try, "retried")
  /\ UNCHANGED <<now, biz, invoices, seen, alerts, closes>>

\* An answer without an intent keeps the intent that was stored.
RetryWrite(q) ==
  LET p == proc[q].period IN
  /\ proc[q].pc = "retried"
  /\ invoices' = [invoices EXCEPT ![p] =
       [status |-> proc[q].result, retries |-> proc[q].try,
        intent |-> IF proc[q].intent = NoIntent THEN @.intent ELSE proc[q].intent]]
  /\ IF proc[q].result = "paid" THEN Goto(q, "clear") ELSE Return(q)
  /\ UNCHANGED <<now, biz, stripe, events, seen, alerts, mishaps, closes, risky>>

\* clearBillingHold lifts a suspension that billing made.
ClearHold(q) ==
  /\ proc[q].pc = "clear"
  /\ biz' = IF biz.status = "suspended" /\ biz.reason = "billing"
            THEN [biz EXCEPT !.status = "active", !.reason = "none"] ELSE biz
  /\ Return(q)
  /\ UNCHANGED <<now, invoices, stripe, events, seen, alerts, mishaps, closes, risky>>

\* POST /billing/payment-method.
AddCard ==
  /\ biz.status = "active" /\ ~biz.card
  /\ biz' = [biz EXCEPT !.card = TRUE]
  /\ UNCHANGED <<now, invoices, stripe, events, seen, alerts, proc, mishaps,
                 closes, risky>>

\* POST /billing/cancel reads the end of the period and writes it to cancel_at.
CancelStart(q) ==
  /\ proc[q].pc = "idle"
  /\ biz.status = "active" /\ biz.open
  /\ proc' = [proc EXCEPT ![q] = [Idle EXCEPT !.pc = "cancel", !.period = biz.start]]
  /\ UNCHANGED <<now, biz, invoices, stripe, events, seen, alerts, mishaps,
                 closes, risky>>

CancelWrite(q) ==
  /\ proc[q].pc = "cancel"
  /\ biz' = [biz EXCEPT !.cancelAt = proc[q].period]
  /\ Return(q)
  /\ UNCHANGED <<now, invoices, stripe, events, seen, alerts, mishaps, closes, risky>>

\* POST /billing/reactivate.
Reactivate ==
  /\ biz.status = "active" /\ biz.cancelAt # Never
  /\ biz' = [biz EXCEPT !.cancelAt = Never]
  /\ UNCHANGED <<now, invoices, stripe, events, seen, alerts, proc, mishaps,
                 closes, risky>>

\* PATCH /platform/businesses/:id/status.
PlatformDecides(status) ==
  /\ biz.status # status \/ biz.reason # "none"
  /\ biz' = [biz EXCEPT !.status = status, !.reason = "none"]
  /\ UNCHANGED <<now, invoices, stripe, events, seen, alerts, proc, mishaps, closes, risky>>

-----------------------------------------------------------------------------
(* POST /webhooks/stripe.                                                  *)

\* Delivered for the first time; every later delivery is answered "duplicate".
Deliver(q, ev) ==
  /\ proc[q].pc = "idle"
  /\ ev \in events /\ ev \notin seen
  /\ seen' = seen \cup {ev}
  /\ proc' = [proc EXCEPT ![q] =
       [Idle EXCEPT !.pc = "event", !.type = ev.type, !.intent = ev.intent]]
  /\ UNCHANGED <<now, biz, invoices, stripe, events, alerts, mishaps, closes, risky>>

Matching(i) == {p \in Period : invoices[p].intent = i}

HandleEvent(q) ==
  /\ proc[q].pc = "event"
  /\ \/ /\ Matching(proc[q].intent) = {}
        /\ Return(q)
        /\ UNCHANGED invoices
     \/ \E p \in Matching(proc[q].intent) :
          \/ /\ proc[q].type = "processing"
             /\ invoices' = IF invoices[p].status = "paid" THEN invoices
                            ELSE [invoices EXCEPT ![p].status = "processing"]
             /\ Return(q)
          \/ /\ proc[q].type = "succeeded"
             /\ invoices' = [invoices EXCEPT ![p].status = "paid"]
             /\ Goto(q, "clear")
          \/ /\ proc[q].type = "failed"
             /\ invoices' = [invoices EXCEPT ![p].status = "failed"]
             /\ Goto(q, "alert")
  /\ UNCHANGED <<now, biz, stripe, events, seen, alerts, mishaps, closes, risky>>

RaiseAlert(q) ==
  /\ proc[q].pc = "alert"
  /\ alerts' = alerts \cup {proc[q].intent}
  /\ Return(q)
  /\ UNCHANGED <<now, biz, invoices, stripe, events, seen, mishaps, closes, risky>>

\* The handler fails on the way: the event is forgotten, so that Stripe's next
\* delivery runs it again.
EventFails(q) ==
  /\ proc[q].pc \in {"event", "clear", "alert"} /\ proc[q].type # "none"
  /\ mishaps < MaxMishaps /\ mishaps' = mishaps + 1
  /\ seen' = seen \ {[type |-> proc[q].type, intent |-> proc[q].intent]}
  /\ Return(q)
  /\ UNCHANGED <<now, biz, invoices, stripe, events, alerts, closes, risky>>

-----------------------------------------------------------------------------
PeriodEnds ==
  /\ now < MaxPeriod
  /\ now' = now + 1
  /\ UNCHANGED <<biz, invoices, stripe, events, seen, alerts, proc, mishaps,
                 closes, risky>>

\* A backend restarts: its handlers are gone wherever they were.
Restart(Gone) ==
  /\ mishaps < MaxMishaps
  /\ \A q \in Gone : proc[q].pc # "idle"
  /\ mishaps' = mishaps + 1
  /\ risky' = risky \cup
       {proc[q].period : q \in {x \in Gone : proc[x].pc \in {"charge", "write", "retry", "retried"}}}
  /\ proc' = [q \in Process |-> IF q \in Gone THEN Idle ELSE proc[q]]
  /\ UNCHANGED <<now, biz, invoices, stripe, events, seen, alerts, closes>>

Init ==
  /\ now = 0
  /\ biz = [start |-> 0, open |-> TRUE, cancelAt |-> Never, status |-> "active",
            reason |-> "none", card |-> FALSE]
  /\ invoices = [p \in Period |-> [status |-> "none", intent |-> NoIntent, retries |-> 0]]
  /\ stripe = [i \in Intent |-> [status |-> "none", answer |-> "none"]]
  /\ events = {} /\ seen = {} /\ alerts = {}
  /\ proc = [q \in Process |-> Idle]
  /\ mishaps = 0
  /\ closes = [p \in Period |-> 0] /\ risky = {}

Close(q) ==
  \/ CloseStart(q) \/ ReadPrevious(q) \/ InsertInvoice(q) \/ Advance(q)
  \/ CloseCharge(q) \/ CloseWrite(q) \/ CloseAccount(q)

Retry(q) ==
  \/ \E p \in Period : RetryStart(q, p)
  \/ RetryCharge(q) \/ RetryWrite(q) \/ ClearHold(q)

Webhook(q) ==
  \/ \E ev \in events : Deliver(q, ev)
  \/ HandleEvent(q) \/ RaiseAlert(q) \/ EventFails(q)

Owner(q) == CancelStart(q) \/ CancelWrite(q)

Next ==
  \/ \E q \in Process : Close(q) \/ Retry(q) \/ Webhook(q) \/ Owner(q)
  \/ AddCard \/ Reactivate
  \/ \E status \in Verdict : PlatformDecides(status)
  \/ \E i \in Intent, a \in Answers : Settle(i, a)
  \/ PeriodEnds
  \/ \E Gone \in (SUBSET Process) \ {{}} : Restart(Gone)

Spec == Init /\ [][Next]_vars

-----------------------------------------------------------------------------
(* Properties.                                                             *)

\* Shapes.
TypeOK ==
  /\ now \in 0..MaxPeriod
  /\ biz \in Business
  /\ invoices \in [Period -> Invoice]
  /\ stripe \in [Intent -> [status : Answers, answer : Answers]]
  /\ events \subseteq [type : Answers, intent : Intent] /\ seen \subseteq events
  /\ alerts \subseteq Intent
  /\ proc \in [Process -> ProcessState]
  /\ mishaps \in 0..MaxMishaps
  /\ closes \in [Period -> Nat] /\ risky \subseteq Period

\* However many sweeps run at once, and wherever they are cut short, a period's
\* close reaches the card at most once ("whoever moves the period forward first
\* is the only one that charges").
ClosedOnce == \A p \in Period : closes[p] <= 1

\* No finished period is ever left without an invoice: a restart between the
\* steps of a close can cost the charge, never the record of what is owed.
NoPeriodSkipped == \A p \in Period : p < biz.start => invoices[p].status # "none"

Payments(p) == {i \in Intent : i.invoice = p /\ stripe[i].status = "succeeded"}

\* Money is taken at most once for an invoice through closes, double clicks,
\* declined and slow payments, unless its charge met a restart or a lost answer,
\* or a close and a retry were at work on it at once.
PaidOnceUnlessRisky ==
  \A p \in Period : p \notin risky => Cardinality(Payments(p)) <= 1

\* "It can never be taken twice" (comment on closeBillingPeriod).
NeverTakenTwice == \A p \in Period : Cardinality(Payments(p)) <= 1
=============================================================================
