------------------------------ MODULE MCContact -------------------------------
(***************************************************************************)
(* What a business says to its customers and its owner, and what it has to *)
(* remember of that, part by part: the reminders and review texts; the     *)
(* waiting list; the customers' records and consent; the queue of what     *)
(* went wrong; the recordings; what the agent does during a call; and the  *)
(* monthly report.                                                         *)
(***************************************************************************)
EXTENDS Integers, Sequences, FiniteSets, TLC

CONSTANTS
  Thing, Actor, Anyone, None,
  Person,                              \* staff members
  Visit,                               \* bookings of the records and of the report
  BookingId, Hour,                     \* of the agent's bookings
  MaxMoves, MaxMishaps, MaxWords,      \* of the reminders
  MaxEntries, MaxTexts,                \* of the waiting list
  MaxRecords,                          \* of the records
  MaxTime, MaxMessages,                \* of the agent
  MaxMonth, MaxEvents                  \* of the report

VARIABLES
  part,
  now, bookings, customers, worker, sent, resets, reviews, late, unread, words, mishaps,
  together,
  entries, tickets, visit, joiner, notifier, marks, texts,
  records, ids, phone, pending, handler, stopped, gone, crossed, stray,
  sms, email, sync, marked, optedOut, work, told, ask, twice,
  age, row, transcript, audio, sweep, posted,
  clock, shop, diary, call, logged, unlogged, lost, tools, asked,
  month, early, enabled, sentFor, books, rang, working, mails, quiet, mishap,
  events

reminding ==
  <<now, bookings, customers, worker, sent, resets, reviews, late, unread, words,
    mishaps, together>>
waiting == <<entries, tickets, visit, joiner, notifier, marks, texts>>
keeping ==
  <<records, ids, phone, pending, handler, stopped, gone, crossed, stray>>
queueing == <<sms, email, sync, marked, optedOut, work, told, ask, twice>>
sweeping == <<age, row, transcript, audio, sweep, posted>>
answering == <<clock, shop, diary, call, logged, unlogged, lost, tools, asked>>
reporting ==
  <<month, early, enabled, sentFor, books, rang, working, mails, quiet, mishap,
    events>>

everything ==
  <<part, reminding, waiting, keeping, queueing, sweeping, answering, reporting>>

\* A visit at noon tomorrow and one on the day after; the two-hour mark of the first,
\* and half an hour past it.
Starts == {2160, 3600}
Instants == {2040, 2350}

R == INSTANCE Reminders WITH
  Booking <- Thing, Worker <- Actor, Customer <- {"ann"},
  Owner <- [b \in Thing |-> "ann"], Label <- {"2h"}, Instant <- Instants,
  Start <- Starts, Length <- 30, Nobody <- None, Never <- None

W == INSTANCE WaitingList WITH
  Customer <- Thing, Joiner <- Actor, Notifier <- Actor, Staff <- Person,
  Wish <- Person, Nobody <- None

C == INSTANCE Customers WITH
  Phone <- Thing, Handler <- Actor, Booking <- Visit, NoPhone <- None, NoRecord <- None

Q == INSTANCE Exceptions WITH
  Sender <- Actor, Asker <- Thing, NoText <- None

A == INSTANCE Retention WITH
  Call <- Thing, words <- transcript, told <- posted

G == INSTANCE Agent WITH
  Handler <- Actor, Start <- Hour, business <- shop, bookings <- diary, log <- logged,
  work <- tools, sent <- asked

M == INSTANCE Report WITH
  Process <- Actor, Booking <- Visit, work <- working

ASSUME Sane ==
  /\ R!Assumptions /\ W!Assumptions /\ C!Assumptions /\ Q!Assumptions
  /\ G!Assumptions /\ M!Assumptions

\* A part that is not looked at.
NoReminding ==
  /\ now = None /\ bookings = None /\ customers = None /\ worker = None
  /\ sent = None /\ resets = None /\ reviews = None /\ late = None /\ unread = None
  /\ words = None /\ mishaps = None /\ together = None
NoWaiting ==
  /\ entries = None /\ tickets = None /\ visit = None /\ joiner = None
  /\ notifier = None /\ marks = None /\ texts = None
NoKeeping ==
  /\ records = None /\ ids = None /\ phone = None /\ pending = None
  /\ handler = None /\ stopped = None /\ gone = None /\ crossed = None
  /\ stray = None
NoQueueing ==
  /\ sms = None /\ email = None /\ sync = None /\ marked = None
  /\ optedOut = None /\ work = None /\ told = None /\ ask = None /\ twice = None
NoSweeping ==
  /\ age = None /\ row = None /\ transcript = None /\ audio = None
  /\ sweep = None /\ posted = None
NoAnswering ==
  /\ clock = None /\ shop = None /\ diary = None /\ call = None /\ logged = None
  /\ unlogged = None /\ lost = None /\ tools = None /\ asked = None
NoReporting ==
  /\ month = None /\ early = None /\ enabled = None /\ sentFor = None
  /\ books = None /\ rang = None /\ working = None /\ mails = None
  /\ quiet = None /\ mishap = None /\ events = None

Init ==
  /\ part \in
      {"reminding", "waiting", "keeping", "queueing", "sweeping", "answering",
       "reporting"}
  /\ IF part = "reminding" THEN R!Init ELSE NoReminding
  /\ IF part = "waiting" THEN W!Init ELSE NoWaiting
  /\ IF part = "keeping" THEN C!Init ELSE NoKeeping
  /\ IF part = "queueing" THEN Q!Init ELSE NoQueueing
  /\ IF part = "sweeping" THEN A!Init ELSE NoSweeping
  /\ IF part = "answering" THEN G!Init ELSE NoAnswering
  /\ IF part = "reporting" THEN M!Init ELSE NoReporting

Next ==
  /\ UNCHANGED part
  /\ IF part = "reminding" THEN R!Next ELSE UNCHANGED reminding
  /\ IF part = "waiting" THEN W!Next ELSE UNCHANGED waiting
  /\ IF part = "keeping" THEN C!Next ELSE UNCHANGED keeping
  /\ IF part = "queueing" THEN Q!Next ELSE UNCHANGED queueing
  /\ IF part = "sweeping" THEN A!Next ELSE UNCHANGED sweeping
  /\ IF part = "answering" THEN G!Next ELSE UNCHANGED answering
  /\ IF part = "reporting" THEN M!Next ELSE UNCHANGED reporting

Spec == Init /\ [][Next]_everything

Symmetric == UNION {Permutations(S) : S \in {Thing, Actor}}

\* What still matters: of a cancelled booking its marks, as long as a worker has it, and
\* of one that was asked about no more whether anybody came; of the reminders' histories
\* what the promises compare and the bounds count; of an entry that is settled its place;
\* of the records the stops that must be heard;
\* of the reports the months that can still be reported, and the one that is claimed; of
\* the agent's log whether it names a booking of the call, and of a call that is over no
\* more than what its tools still do.
AtWork(b) == \E w \in Actor : b \in worker[w].todo \cup {worker[w].at}

Remembered(b) ==
  IF bookings[b].status = "cancelled"
  THEN IF AtWork(b)
       THEN <<bookings[b].reminded, bookings[b].asked, sent[b]["2h"] - resets[b]["2h"]>>
       ELSE <<>>
  ELSE <<[bookings[b] EXCEPT !.noShow = @ /\ ~bookings[b].asked],
         sent[b]["2h"] - resets[b]["2h"]>>

\* All instants are in the daytime of one day: when a sweep began decides nothing.
Working(w) == <<worker[w].pc, worker[w].job, worker[w].todo, worker[w].at, worker[w].may>>

Listed(e) ==
  IF entries[e].status \in {"booked", "removed"} THEN <<entries[e].created>> ELSE entries[e]

Matters ==
  CASE part = "reminding" ->
         <<now, [b \in Thing |-> Remembered(b)], [w \in Actor |-> Working(w)],
           customers["ann"].lastAsked # None, words, mishaps,
           IF customers["ann"].smsOptIn THEN <<>> ELSE <<late["ann"] - unread["ann"]>>,
           \A b \in Thing : resets[b]["2h"] = 0,
           together \/ mishaps > 0, IF together \/ mishaps > 0 THEN <<>> ELSE reviews>>
    [] part = "waiting" ->
         <<[e \in DOMAIN entries |-> Listed(e)], tickets, visit, joiner, notifier, marks, texts>>
    [] part = "keeping" ->
         <<part, records, ids, phone, pending, handler, stopped \ (crossed \cup gone), gone,
           stray>>
    [] part = "reporting" ->
         LET live == {m \in 0..MaxMonth : m >= month - 1 \/ m = sentFor} IN
         <<part, month, early, enabled, sentFor, books, rang \cap live, working,
           [m \in live |-> mails[m]], (quiet \cup mishap) \cap live, events>>
    [] part = "answering" ->
         <<part, clock, diary, unlogged, tools, call.state, call.test, call.business,
           call.instruction, logged # None /\ diary[logged].ours,
           IF call.state = "over" THEN <<>> ELSE <<shop, call.known, asked>>>>
    [] OTHER -> everything

-----------------------------------------------------------------------------
(* The shapes of every part.                                                 *)
Types ==
  /\ part = "reminding" => R!TypeOK
  /\ part = "waiting" => W!TypeOK
  /\ part = "keeping" => C!TypeOK
  /\ part = "queueing" => Q!TypeOK
  /\ part = "sweeping" => A!TypeOK
  /\ part = "answering" => G!TypeOK
  /\ part = "reporting" => M!TypeOK

(* Reminders' promises: one text per booking, mark and time; one review text *)
(* per person and month; none to somebody who wrote STOP.                    *)
NobodyIsPestered ==
  part = "reminding" =>
    R!RemindedOncePerMark /\ R!OneReviewPerPerson /\ R!StopIsHeard

(* WaitingList's promises: nobody is texted twice for one place, the line is *)
(* served from its front, and joining again moves nobody and adds nobody.    *)
WaitersServedInTurn ==
  part = "waiting" => W!TextedOnce /\ W!LineIsKept /\ W!OneEntryPerJoin

(* Customers' promises: a stop survives every other write, and a booking's   *)
(* phone has a record.                                                       *)
RecordsHold == part = "keeping" => C!StopStays /\ C!BookingsHaveRecords

(* Exceptions', Retention's and Report's promises: what did not go out is in *)
(* the queue until something did, one request to be deleted waits there at a *)
(* time; a recording Twilio still keeps is one a later sweep can find; no    *)
(* month is reported twice, one that is claimed is dealt with, and a rate is *)
(* one.                                                                      *)
NothingIsForgotten ==
  /\ part = "queueing" => Q!UnsentIsListed /\ Q!OneDeleteRequest
  /\ part = "sweeping" => A!AudioIsFindable
  /\ part = "reporting" => M!ReportedOnce /\ M!ClaimsAreSettled /\ M!RatesAreRates

(* Agent's promises: one booking per wish, with whom was asked for; a test   *)
(* call and customers' bookings stay apart; what the agent says is so.       *)
AgentHolds ==
  part = "answering" =>
    G!OneBookingPerWish /\ G!KindsApart /\ G!ToldWhatIsSo /\ G!DepartmentsAreFound

(* Exceptions' claim of the test plan, which the queue does not keep.        *)
UndeliveredShows == part = "queueing" => Q!UndeliveredShows
===============================================================================
