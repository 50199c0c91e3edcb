----------------------------- MODULE Reminders -----------------------------
(***************************************************************************)
(* The texts around a visit: the reminder worker (notifications/           *)
(* reminder-worker.js, notify.js), the review texts it sends after a visit *)
(* (services/reviewService.js), and STOP and START from customers          *)
(* (webhooks/twilio.js).  Several server processes may each run a worker:  *)
(* it takes no lease.                                                      *)
(*                                                                         *)
(* A worker goes through one batch at a time: the 24h reminders, the 2h    *)
(* reminders, the review texts.  A batch is a copy of the bookings.  Email *)
(* goes with the text it accompanies.  Times are minutes, and midnight is  *)
(* a multiple of 1440 in the business's time zone.                         *)
(***************************************************************************)
EXTENDS Integers, FiniteSets

CONSTANTS
  Booking,      \* bookings
  Customer,     \* customers
  Owner,        \* whose booking it is: the phone a booking carries
  Worker,       \* server processes, each with one reminder worker
  Label,        \* the reminders: "24h" and "2h"
  Nobody,       \* no booking, no customer
  Instant,      \* values of the clock
  Start,        \* start times
  Length,       \* end_time - start_time
  Never,        \* null, for times
  MaxMoves,     \* bound: no booking is moved once one lost its marks so often
  MaxMishaps,   \* bound: restarts and failed writes
  MaxWords      \* bound: STOP and START texts

Assumptions ==
  /\ Owner \in [Booking -> Customer] /\ Nobody \notin Booking \cup Customer
  /\ Instant \subseteq Nat /\ Start \subseteq Nat /\ Length \in Nat /\ Never \notin Nat
  /\ Label \subseteq {"24h", "2h"} /\ Label # {}

VARIABLES
  now,        \* the clock
  bookings,   \* the bookings collection
  customers,  \* sms_opt_in and last_review_request_at of the customers
  worker,     \* each reminder worker's local state
  sent,       \* history: reminders sent, by booking and label
  resets,     \* history: how often a label became unsent again
  reviews,    \* history: review texts, by customer
  late,       \* history: texts since a customer's last STOP
  unread,     \* history: texts let go since then for a consent that could not be read
  words,      \* STOP and START texts so far
  mishaps,    \* restarts and failed writes so far
  together    \* history: two workers were at the review texts at once

vars == <<now, bookings, customers, worker, sent, resets, reviews, late, unread,
          words, mishaps, together>>

history == <<sent, resets, reviews, late, unread, words, mishaps, together>>

Job == Label \cup {"review"}

BookingDoc ==
  [status : {"confirmed", "cancelled"}, start : Start, noShow : BOOLEAN,
   reminded : [Label -> BOOLEAN], asked : BOOLEAN]

CustomerDoc == [smsOptIn : BOOLEAN, lastAsked : Instant \cup {Never}]

\* runReminderSweepOnce, then runReviewSweepOnce.
FirstJob == IF "24h" \in Label THEN "24h" ELSE "2h"
JobAfter(j) == IF j = "24h" /\ "2h" \in Label THEN "2h" ELSE "review"

WorkerState ==
  [pc : {"idle", "next", "consent", "send", "store", "giveBack"}, job : Job,
   todo : SUBSET Booking, at : Booking \cup {Nobody}, began : Instant,
   may : BOOLEAN]

Resting ==
  [pc |-> "idle", job |-> FirstJob, todo |-> {}, at |-> Nobody,
   began |-> CHOOSE i \in Instant : TRUE, may |-> FALSE]

-----------------------------------------------------------------------------
(* What a sweep looks for.                                                 *)

Window == 10

Ahead == [l \in Label |-> IF l = "24h" THEN 24 * 60 ELSE 2 * 60]

\* dueBookings: the mark of the label falls within this tick's window.
DueForReminder(b, l) ==
  /\ bookings[b].status = "confirmed"
  /\ ~bookings[b].reminded[l]
  /\ bookings[b].start \in (now + Ahead[l] - Window)..(now + Ahead[l])

AskAfter    == 2 * 60
GiveUpAfter == 30 * 60
RepeatAfter == 30 * 24 * 60

DueForReview(b) ==
  /\ bookings[b].status = "confirmed"
  /\ ~bookings[b].noShow
  /\ ~bookings[b].asked
  /\ bookings[b].start + Length \in (now - GiveUpAfter)..(now - AskAfter)

Batch(j) ==
  IF j = "review" THEN {b \in Booking : DueForReview(b)}
                  ELSE {b \in Booking : DueForReminder(b, j)}

\* No review texts between 9pm and 8am.
Quiet(t) == LET hour == (t % 1440) \div 60 IN hour >= 21 \/ hour < 8

\* The customer was asked for a review less than 30 days ago.
NeverRecent(c, t) == FALSE  \* mutant: last_review_request_at is not looked at
Recent(c, t) ==
  customers[c].lastAsked # Never /\ t - customers[c].lastAsked < RepeatAfter

AlwaysWilling(c) == TRUE  \* mutant: the customer's consent is not looked at
Willing(c) == customers[c].smsOptIn

FindThenSend(b, j) == TRUE  \* mutant: no claim, as before KG-13
\* The claim's filter: the field the batch was read for is still null.
Claimable(b, j) ==
  IF j = "review" THEN ~bookings[b].asked ELSE ~bookings[b].reminded[j]

-----------------------------------------------------------------------------
(* The worker.                                                             *)

StaysAt(w) == [worker EXCEPT ![w].at = Nobody]  \* mutant: the loop does not go on
\* The next booking of the batch.
Onward(w) == [worker EXCEPT ![w].pc = "next", ![w].at = Nobody, ![w].may = FALSE]

\* The batch of a job, and the time the review sweep goes by.
Read(w, job) ==
  /\ worker' = [worker EXCEPT ![w] =
       [Resting EXCEPT !.pc = "next", !.job = job, !.todo = Batch(job),
                       !.began = IF job = "review" THEN now ELSE @]]
  /\ together' = (together \/ (job = "review" /\ \E v \in Worker \ {w} :
                     worker[v].pc # "idle" /\ worker[v].job = "review"))
  /\ UNCHANGED <<now, bookings, customers, sent, resets, reviews, late, unread,
                 words, mishaps>>

\* setInterval: a tick finds the worker idle and reads the first batch.
Tick(w) == worker[w].pc = "idle" /\ Read(w, FirstJob)

\* A batch is done, and the next one is read.
NextBatch(w) ==
  /\ worker[w].pc = "next" /\ worker[w].todo = {} /\ worker[w].job # "review"
  /\ Read(w, JobAfter(worker[w].job))

\* The last one is done.
EndTick(w) ==
  /\ worker[w].pc = "next" /\ worker[w].todo = {} /\ worker[w].job = "review"
  /\ worker' = [worker EXCEPT ![w] = Resting]
  /\ UNCHANGED <<now, bookings, customers, history>>

\* Quiet hours leave the booking for the morning; a lost claim leaves it to
\* the worker that has it.
Pass(w, b) ==
  /\ worker[w].pc = "next" /\ b \in worker[w].todo
  /\ \/ (worker[w].job = "review" /\ Quiet(worker[w].began))
     \/ ~Claimable(b, worker[w].job)
  /\ worker' = [worker EXCEPT ![w].todo = @ \ {b}]
  /\ UNCHANGED <<now, bookings, customers, history>>

\* updateOne with the field still null in the filter, and nothing else.
Claim(w, b) ==
  /\ worker[w].pc = "next" /\ b \in worker[w].todo
  /\ ~(worker[w].job = "review" /\ Quiet(worker[w].began))
  /\ Claimable(b, worker[w].job)
  /\ bookings' = IF worker[w].job = "review"
                 THEN [bookings EXCEPT ![b].asked = TRUE]
                 ELSE [bookings EXCEPT ![b].reminded[worker[w].job] = TRUE]
  /\ worker' = [worker EXCEPT ![w].pc = "consent", ![w].todo = @ \ {b},
                              ![w].at = b]
  /\ UNCHANGED <<now, customers, history>>

\* The customer's document: consent, and for a review when they were asked.
\* A review that may not be sent is handled all the same.
ReadConsent(w) ==
  LET c == Owner[worker[w].at]
      may == Willing(c) /\ (worker[w].job = "review" => ~Recent(c, worker[w].began))
  IN /\ worker[w].pc = "consent"
     /\ worker' = IF worker[w].job = "review" /\ ~may THEN Onward(w)
                   ELSE [worker EXCEPT ![w].may = may, ![w].pc = "send"]
     /\ UNCHANGED <<now, bookings, customers, history>>

\* getConsent(...).catch(() => null): a consent that cannot be read is one that
\* nobody withdrew, and the text goes out.
ConsentUnread(w) ==
  LET c == Owner[worker[w].at]
      may == worker[w].job = "review" => ~Recent(c, worker[w].began)
  IN /\ mishaps < MaxMishaps /\ worker[w].pc = "consent"
     /\ worker' = IF may THEN [worker EXCEPT ![w].may = TRUE, ![w].pc = "send"]
                   ELSE Onward(w)
     /\ unread' = IF may THEN [unread EXCEPT ![c] = @ + 1] ELSE unread
     /\ mishaps' = mishaps + 1
     /\ UNCHANGED <<now, bookings, customers, sent, resets, reviews, late, words,
                    together>>

\* The text goes out.
Send(w) ==
  LET b == worker[w].at
      c == Owner[b]
  IN /\ worker[w].pc = "send"
     /\ worker' = [worker EXCEPT ![w].pc = "store", ![w].may = FALSE]
     /\ sent' = IF worker[w].may /\ worker[w].job # "review"
                THEN [sent EXCEPT ![b][worker[w].job] = @ + 1] ELSE sent
     /\ reviews' = IF worker[w].job = "review" THEN [reviews EXCEPT ![c] = @ + 1]
                   ELSE reviews
     /\ late' = IF worker[w].may /\ ~customers[c].smsOptIn
                THEN [late EXCEPT ![c] = @ + 1] ELSE late
     /\ UNCHANGED <<now, bookings, customers, unread, resets, words, mishaps,
                    together>>

\* sendSms returns null, or sendGated catches what it throws: nobody got a text,
\* and the worker goes on as if.
Refused(w) ==
  /\ mishaps < MaxMishaps
  /\ worker[w].pc = "send" /\ worker[w].may
  /\ worker' = [worker EXCEPT ![w].pc = "store", ![w].may = FALSE]
  /\ mishaps' = mishaps + 1
  /\ UNCHANGED <<now, bookings, customers, sent, resets, reviews, late, unread, words,
                 together>>

\* What is written after a text: the reminder's field once more, or when the
\* customer was asked.
Store(w) ==
  LET b == worker[w].at
  IN /\ worker[w].pc = "store"
     /\ worker' = Onward(w)
     /\ IF worker[w].job = "review"
        THEN /\ customers' = [customers EXCEPT ![Owner[b]].lastAsked = worker[w].began]
             /\ UNCHANGED bookings
        ELSE /\ bookings' = [bookings EXCEPT ![b].reminded[worker[w].job] = TRUE]
             /\ UNCHANGED customers
     /\ UNCHANGED <<now, history>>

\* A reminder's reading before the consent or its last write throws: the claim
\* is to be given back.  A review's sending or last write throws: that is logged.
Fail(w) ==
  /\ mishaps < MaxMishaps
  /\ \/ /\ worker[w].job # "review" /\ worker[w].pc \in {"consent", "store"}
        /\ worker' = [worker EXCEPT ![w].pc = "giveBack", ![w].may = FALSE]
     \/ /\ worker[w].job = "review" /\ worker[w].pc \in {"send", "store"}
        /\ worker' = Onward(w)
  /\ mishaps' = mishaps + 1
  /\ UNCHANGED <<now, bookings, customers, sent, resets, reviews, late, unread,
                 words, together>>

GiveBack(w) ==
  LET b == worker[w].at
      l == worker[w].job
  IN /\ worker[w].pc = "giveBack"
     /\ bookings' = [bookings EXCEPT ![b].reminded[l] = FALSE]
     /\ resets' = [resets EXCEPT ![b][l] = @ + 1]
     /\ worker' = Onward(w)
     /\ UNCHANGED <<now, customers, sent, reviews, late, unread, words, mishaps,
                    together>>

\* .catch(() => {}): what failed once fails again, and the claim stays.
NotGivenBack(w) ==
  /\ worker[w].pc = "giveBack"
  /\ worker' = Onward(w)
  /\ UNCHANGED <<now, bookings, customers, history>>

\* The process dies, or the tick throws: at a batch, at a claim, at the review's
\* own reading of the customer.  What was claimed stays claimed.
Restart(w) ==
  /\ mishaps < MaxMishaps /\ worker[w].pc # "idle"
  /\ worker' = [worker EXCEPT ![w] = Resting]
  /\ mishaps' = mishaps + 1
  /\ UNCHANGED <<now, bookings, customers, sent, resets, reviews, late, unread,
                 words, together>>

-----------------------------------------------------------------------------
(* The staff and the customers.                                            *)

\* rescheduleBooking: a new time invalidates reminders sent for the old one.
Unreminded(b) == [l \in Label |-> FALSE]

Move(b, s) ==
  /\ bookings[b].status = "confirmed"
  /\ \A o \in Booking, l \in Label : resets[o][l] < MaxMoves
  /\ bookings' = [bookings EXCEPT ![b].start = s, ![b].reminded = Unreminded(b)]
  /\ resets' = [resets EXCEPT ![b] = [l \in Label |-> @[l] + 1]]
  /\ UNCHANGED <<now, customers, worker, sent, reviews, late, unread, words,
                 mishaps, together>>

\* setNoShow
SetNoShow(b, flag) ==
  /\ bookings[b].status = "confirmed" /\ bookings[b].start < now
  /\ bookings' = [bookings EXCEPT ![b].noShow = flag]
  /\ UNCHANGED <<now, customers, worker, history>>

\* cancelBooking
Cancel(b) ==
  /\ bookings[b].status = "confirmed"
  /\ bookings' = [bookings EXCEPT ![b].status = "cancelled"]
  /\ UNCHANGED <<now, customers, worker, history>>

\* STOP and START.
SetSmsOptIn(c, v) ==
  /\ words < MaxWords /\ customers[c].smsOptIn # v
  /\ customers' = [customers EXCEPT ![c].smsOptIn = v]
  /\ late' = [late EXCEPT ![c] = 0] /\ unread' = [unread EXCEPT ![c] = 0]
  /\ words' = words + 1
  /\ UNCHANGED <<now, bookings, worker, sent, resets, reviews, mishaps,
                 together>>

TimePasses ==
  /\ \E t \in Instant : t > now /\ now' = t
  /\ UNCHANGED <<bookings, customers, worker, history>>

-----------------------------------------------------------------------------
Init ==
  /\ now \in Instant /\ \A t \in Instant : now <= t
  /\ bookings \in [Booking ->
       {[status |-> "confirmed", start |-> s, noShow |-> FALSE,
         reminded |-> [l \in Label |-> FALSE], asked |-> FALSE] : s \in Start}]
  /\ customers = [c \in Customer |-> [smsOptIn |-> TRUE, lastAsked |-> Never]]
  /\ worker = [w \in Worker |-> Resting]
  /\ sent = [b \in Booking |-> [l \in Label |-> 0]]
  /\ resets = [b \in Booking |-> [l \in Label |-> 0]]
  /\ reviews = [c \in Customer |-> 0]
  /\ late = [c \in Customer |-> 0] /\ unread = [c \in Customer |-> 0]
  /\ words = 0 /\ mishaps = 0 /\ together = FALSE

Work(w) ==
  \/ Tick(w) \/ NextBatch(w) \/ EndTick(w)
  \/ ReadConsent(w) \/ ConsentUnread(w) \/ Send(w) \/ Refused(w) \/ Store(w)
  \/ Fail(w) \/ GiveBack(w) \/ NotGivenBack(w) \/ Restart(w)
  \/ \E b \in Booking : Pass(w, b) \/ Claim(w, b)

Next ==
  \/ \E w \in Worker : Work(w)
  \/ \E b \in Booking : \E s \in Start : Move(b, s)
  \/ \E b \in Booking : \E flag \in BOOLEAN : SetNoShow(b, flag)
  \/ \E b \in Booking : Cancel(b)
  \/ \E c \in Customer : \E v \in BOOLEAN : SetSmsOptIn(c, v)
  \/ TimePasses

Spec == Init /\ [][Next]_vars

-----------------------------------------------------------------------------
(* Shapes of the documents and of a worker's variables.                    *)
TypeOK ==
  /\ now \in Instant
  /\ bookings \in [Booking -> BookingDoc]
  /\ customers \in [Customer -> CustomerDoc]
  /\ worker \in [Worker -> WorkerState]
  /\ \A w \in Worker :
       worker[w].pc \in {"consent", "send", "store", "giveBack"} => worker[w].at # Nobody

(* Overlapping sweeps never remind twice (KG-13): the reminders of one kind  *)
(* that a booking got, and the one being sent, are at most one more than the *)
(* times its mark was taken away, by a new time or by a failure.             *)
RemindedOncePerMark ==
  \A b \in Booking, l \in Label : sent[b][l] <= 1 + resets[b][l]

(* A customer with several visits is asked for one review in 30 days (the    *)
(* clock of the model spans less), unless two workers were at it at once or  *)
(* one failed before it wrote the day down.                                  *)
OneReviewPerPerson ==
  \A c \in Customer : reviews[c] > 1 => together \/ mishaps > 0

(* After STOP, a worker sends a customer at most the one text for which it   *)
(* had read the consent already; and one more for every consent that could   *)
(* not be read since: "no record" lets a text out.                           *)
StopIsHeard ==
  \A c \in Customer : late[c] <= Cardinality(Worker) + unread[c]
=============================================================================
