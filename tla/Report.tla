------------------------------- MODULE Report -------------------------------
(***************************************************************************)
(* Figures for the owner: the monthly report by email, the sample of it    *)
(* sent on demand, and the figures of the Overview page.  The sweep that   *)
(* sends reports claims the month first and then builds and sends; every   *)
(* figure is a query of its own, so bookings may change between two.       *)
(*                                                                         *)
(* One business.  Months are numbered; month m is reported in the first    *)
(* days of month m + 1.  A process is a sweep, in the old or the new       *)
(* server of a restart, or the answer to a request.                        *)
(***************************************************************************)
EXTENDS Integers, FiniteSets

CONSTANTS
  Process,   \* sweeps and requests
  Booking,   \* the bookings there can be
  MaxMonth,  \* the last month that is looked at
  MaxEvents  \* how often a booking is changed

Assumptions ==
  /\ Process # {}
  /\ IsFiniteSet(Booking)
  /\ MaxMonth \in Nat \ {0}
  /\ MaxEvents \in Nat

VARIABLES
  month,    \* the current month
  early,    \* it is day 1 to 3, after 9 in the morning, for the business
  enabled,  \* monthly_report_enabled
  sentFor,  \* monthly_report_sent_for, 0 when not set
  books,    \* the bookings
  rang,     \* the months in which somebody called
  work,     \* what each process is doing
  mails,    \* how many reports of a month went out
  quiet,    \* the months in which there was nothing to report
  mishap,   \* the months whose report a crash, a refused email or a claim that
            \* could not be given back has cost
  events    \* how often a booking was changed

vars == <<month, early, enabled, sentFor, books, rang, work, mails, quiet, mishap,
          events>>

Month == 0..MaxMonth
Count == 0..Cardinality(Booking)

Doc ==
  [status : {"none", "confirmed", "cancelled"}, month : Month, no_show : BOOLEAN,
   via : {"call", "dashboard"}]

NoDoc == [status |-> "none", month |-> 0, no_show |-> FALSE, via |-> "dashboard"]

Shown == [visits : Count, noShows : Count, ai : Count, crossed : BOOLEAN]

Nothing == [visits |-> 0, noShows |-> 0, ai |-> 0, crossed |-> FALSE]

\* What a process has read so far.
WorkState ==
  [pc : {"idle", "claim", "count", "send"}, of : {"report", "answer"},
   for : Month, whole : BOOLEAN, parts : BOOLEAN, got : Shown]

Idle ==
  [pc |-> "idle", of |-> "report", for |-> 0, whole |-> FALSE, parts |-> FALSE,
   got |-> Nothing]

TypeOK ==
  /\ month \in Month /\ early \in BOOLEAN /\ enabled \in BOOLEAN
  /\ sentFor \in Month
  /\ books \in [Booking -> Doc]
  /\ rang \subseteq Month
  /\ work \in [Process -> WorkState]
  /\ mails \in [Month -> 0..2]
  /\ quiet \subseteq Month /\ mishap \subseteq Month
  /\ events \in 0..MaxEvents

Init ==
  /\ month = 1 /\ early = FALSE /\ enabled = TRUE /\ sentFor = 0
  /\ books = [b \in Booking |-> NoDoc]
  /\ rang = {}
  /\ work = [p \in Process |-> Idle]
  /\ mails = [m \in Month |-> 0]
  /\ quiet = {} /\ mishap = {}
  /\ events = 0

-----------------------------------------------------------------------------
(* The diary, and time.                                                     *)

Diary == <<books, events, rang>>
Ledger == <<sentFor, mails, quiet, mishap>>
Time == <<month, early, enabled>>

\* History: whoever has read a part of the figures reads the rest of others.
Crossing ==
  work' = [p \in Process |->
             IF work[p].whole \/ work[p].parts THEN [work[p] EXCEPT !.got.crossed = TRUE]
             ELSE work[p]]

Change(b, doc) ==
  /\ events < MaxEvents
  /\ events' = events + 1
  /\ books' = [books EXCEPT ![b] = doc]
  /\ Crossing
  /\ UNCHANGED <<rang, Ledger, Time>>

Book(b, via) ==
  /\ books[b].status = "none"
  /\ Change(b, [status |-> "confirmed", month |-> month, no_show |-> FALSE, via |-> via])

\* Only of a visit that has happened.
SetNoShow(b, flag) ==
  /\ books[b].status = "confirmed" /\ books[b].month <= month
  /\ books[b].no_show # flag
  /\ Change(b, [books[b] EXCEPT !.no_show = flag])

\* Also of a visit that is over; the mark of a no-show stays.
Cancel(b) ==
  /\ books[b].status = "confirmed"
  /\ Change(b, [books[b] EXCEPT !.status = "cancelled"])

Call ==
  /\ rang' = rang \cup {month}
  /\ UNCHANGED <<books, events, work, Ledger, Time>>

\* A report is read, built and sent within the month: a sweep takes minutes.
NextMonth ==
  /\ month < MaxMonth
  /\ \A p \in Process : work[p].of = "report" => work[p].pc = "idle"
  /\ month' = month + 1
  /\ early' = TRUE
  /\ UNCHANGED <<enabled, Diary, work, Ledger>>

LateInMonth ==
  /\ early' = FALSE
  /\ UNCHANGED <<month, enabled, Diary, work, Ledger>>

\* The checkbox of the settings page.
Switch ==
  /\ enabled' = ~enabled
  /\ UNCHANGED <<month, early, Diary, work, Ledger>>

-----------------------------------------------------------------------------
(* The figures: one query for each, side by side.                           *)

OfMonth(m) == {b \in Booking : books[b].status = "confirmed" /\ books[b].month = m}
Marked(m) == {b \in Booking : books[b].no_show /\ books[b].month = m}

NoShows(m) == {b \in OfMonth(m) : books[b].no_show}
ByAgent(m) == {b \in OfMonth(m) : books[b].via = "call"}

CountVisits(p) ==
  /\ work[p].pc = "count" /\ ~work[p].whole
  /\ work' = [work EXCEPT ![p].whole = TRUE,
                          ![p].got.visits = Cardinality(OfMonth(work[p].for))]
  /\ UNCHANGED <<Diary, Ledger, Time>>

CountParts(p) ==
  /\ work[p].pc = "count" /\ ~work[p].parts
  /\ work' = [work EXCEPT ![p].parts = TRUE,
                          ![p].got.noShows = Cardinality(NoShows(work[p].for)),
                          ![p].got.ai = Cardinality(ByAgent(work[p].for))]
  /\ UNCHANGED <<Diary, Ledger, Time>>

Counted(p) == work[p].pc = "count" /\ work[p].whole /\ work[p].parts

\* The Overview page, and "email me a sample report now": this month so far.
GetAnalytics(p) ==
  /\ work[p].pc = "idle"
  /\ work' = [work EXCEPT ![p] =
                [Idle EXCEPT !.pc = "count", !.of = "answer", !.for = month]]
  /\ UNCHANGED <<Diary, Ledger, Time>>

Answer(p) ==
  /\ Counted(p) /\ work[p].of = "answer"
  /\ work' = [work EXCEPT ![p] = Idle]
  /\ UNCHANGED <<Diary, Ledger, Time>>

-----------------------------------------------------------------------------
(* The sweep.                                                               *)

\* The business is read; the month is that of the start of the sweep.
Sweep(p) ==
  /\ work[p].pc = "idle"
  /\ enabled /\ early /\ sentFor # month - 1
  /\ work' = [work EXCEPT ![p] = [Idle EXCEPT !.pc = "claim", !.for = month - 1]]
  /\ UNCHANGED <<Diary, Ledger, Time>>

AnyBody(p) == TRUE  \* mutant: the claim does not look at what is stored
Claimable(p) == sentFor # work[p].for

Claim(p) ==
  /\ work[p].pc = "claim"
  /\ IF Claimable(p)
     THEN /\ sentFor' = work[p].for
          /\ work' = [work EXCEPT ![p].pc = "count"]
     ELSE /\ work' = [work EXCEPT ![p] = Idle]
          /\ UNCHANGED sentFor
  /\ UNCHANGED <<mails, quiet, mishap, Diary, Time>>

\* A month without calls and bookings keeps its claim.
Silent(p) == work[p].got.visits = 0 /\ work[p].for \notin rang

Built(p) ==
  /\ Counted(p) /\ work[p].of = "report"
  /\ IF Silent(p)
     THEN /\ quiet' = quiet \cup {work[p].for}
          /\ work' = [work EXCEPT ![p] = Idle]
     ELSE /\ work' = [work EXCEPT ![p].pc = "send"]
          /\ UNCHANGED quiet
  /\ UNCHANGED <<sentFor, mails, mishap, Diary, Time>>

\* A query fails: the month is for the next sweep again, unless giving it back
\* fails too (.catch(() => {})).
KeepClaim(p) == sentFor  \* mutant: it is not
GiveBack(p) == 0

Fail(p) ==
  /\ work[p].pc = "count" /\ work[p].of = "report"
  /\ work' = [work EXCEPT ![p] = Idle]
  /\ \/ sentFor' = GiveBack(p) /\ UNCHANGED mishap
     \/ mishap' = mishap \cup {work[p].for} /\ UNCHANGED sentFor
  /\ UNCHANGED <<mails, quiet, Diary, Time>>

\* sendEmail never throws: it returns {sent: false}, which nobody looks at.
Send(p) ==
  /\ work[p].pc = "send"
  /\ work' = [work EXCEPT ![p] = Idle]
  /\ \/ /\ mails' = [mails EXCEPT ![work[p].for] = IF @ < 2 THEN @ + 1 ELSE @]
        /\ UNCHANGED mishap
     \/ /\ mishap' = mishap \cup {work[p].for}
        /\ UNCHANGED mails
  /\ UNCHANGED <<sentFor, quiet, Diary, Time>>

\* A restart does not wait for the sweep.
Crash(p) ==
  /\ work[p].pc # "idle"
  /\ work' = [work EXCEPT ![p] = Idle]
  /\ mishap' = IF work[p].of = "report" /\ work[p].pc # "claim"
               THEN mishap \cup {work[p].for} ELSE mishap
  /\ UNCHANGED <<sentFor, mails, quiet, Diary, Time>>

Next ==
  \/ \E b \in Booking :
       \/ \E via \in {"call", "dashboard"} : Book(b, via)
       \/ \E flag \in BOOLEAN : SetNoShow(b, flag)
       \/ Cancel(b)
  \/ Call \/ NextMonth \/ LateInMonth \/ Switch
  \/ \E p \in Process :
       \/ GetAnalytics(p) \/ Answer(p)
       \/ CountVisits(p) \/ CountParts(p)
       \/ Sweep(p) \/ Claim(p) \/ Built(p) \/ Fail(p) \/ Send(p) \/ Crash(p)

Spec == Init /\ [][Next]_vars

-----------------------------------------------------------------------------
(* No month is reported twice, whatever sweeps overlap                      *)
(* (reportService.js:70).                                                   *)
ReportedOnce == \A m \in Month : mails[m] <= 1

(* A month that is claimed is reported, was quiet, or is being worked on,   *)
(* unless a restart, a refused email or a claim that could not be given     *)
(* back cost its report (reportService.js:79-82): a query that fails by     *)
(* itself loses none.                                                       *)
ClaimsAreSettled ==
  sentFor # 0 =>
    \/ mails[sentFor] = 1
    \/ sentFor \in quiet \cup mishap
    \/ \E p \in Process : /\ work[p].of = "report" /\ work[p].for = sentFor
                          /\ work[p].pc \in {"count", "send"}

(* A rate shown to the owner is one: no more no-shows than visits, no more  *)
(* bookings made by the agent than bookings, unless the diary changed       *)
(* between two queries (analyticsService.js:166, reportService.js:15).      *)
RatesAreRates ==
  \A p \in Process :
    LET got == work[p].got
    IN  Counted(p) => \/ got.crossed
                      \/ got.noShows <= got.visits /\ got.ai <= got.visits
=============================================================================
