------------------------------- MODULE Portal -------------------------------
(***************************************************************************)
(* A customer changes an appointment without calling: on "My appointments" *)
(* (door "portal": dashboard/app/my/[slug]/page.jsx, routes/customerPortal *)
(* .js, customerAuth.js) or by the link of the confirmation (door "link":  *)
(* dashboard/app/manage/[token]/page.jsx, routes/myBooking.js, customer-   *)
(* Link.js).  Both pages may be open at once, staff and other customers go *)
(* on meanwhile, and the handlers check first and act later.               *)
(*                                                                         *)
(* The slots and locks of bookingService.js are here the times that others *)
(* hold; Booking.tla has them in detail.                                   *)
(***************************************************************************)
EXTENDS Integers, FiniteSets

CONSTANTS
  Slot,     \* start times the service could have
  Day,
  DayOf,    \* the business's day of a time
  Instant,  \* values of the clock
  CUTOFF,   \* reschedule_cutoff_minutes
  Request,  \* changes in flight
  None,     \* no time chosen; slots not there yet
  MaxCalls, \* bound: lists of slots asked for
  MaxMoves  \* bound: what staff, rivals and the owner do meanwhile

Assumptions ==
  /\ Slot \cup Instant \subseteq Int /\ CUTOFF \in Nat /\ MaxCalls \in Nat /\ MaxMoves \in Nat
  /\ None \notin Slot \cup Request /\ DayOf \in [Slot \cup Instant -> Day]

VARIABLES
  now,
  booking,  \* the appointment
  open,     \* times inside hours, breaks and time off respected
  taken,    \* times other bookings hold
  expires,  \* of the link
  session,  \* of the portal: signed in this very second, earlier, or ended
  page,     \* both pages
  calls,    \* lists of slots on their way
  request,
  asked, moves, \* what the bounds count
  wrong     \* history: changes that no check allowed

world == <<now, booking, open, taken, expires, session, moves>>

vars == <<world, page, calls, asked, request, wrong>>

Door == {"portal", "link"}

Booking == [start : Slot, status : {"confirmed", "cancelled"}]

PageState ==
  [mayChange : BOOLEAN, mode : {"view", "reschedule", "cancel", "done"},
   date : Day, slots : (SUBSET Slot) \cup {None}, slot : Slot \cup {None}, late : BOOLEAN]

Fresh == [mayChange |-> FALSE, mode |-> "view", date |-> DayOf[booking.start],
          slots |-> None, slot |-> None, late |-> FALSE]

\* The link's page starts at today and with an empty list.
Today == [Fresh EXCEPT !.date = DayOf[now], !.slots = {}]

Idle == [pc |-> "idle"]

Change ==
  [pc : {"check", "offered", "act"}, door : Door, to : Slot \cup {None}, shownDay : BOOLEAN,
   waits : BOOLEAN, overtaken : BOOLEAN]

Confirmed == booking.status = "confirmed"

InTime(start) == start - now >= CUTOFF

\* getAvailability, the appointment's own time left out.
Offered(day) == {s \in open \ taken : DayOf[s] = day}

\* History: something changes between a handler's check and what it does.
Overtaken(but) ==
  [r \in Request |-> IF r # but /\ request[r] # Idle
                     THEN [request[r] EXCEPT !.overtaken = TRUE] ELSE request[r]]

-----------------------------------------------------------------------------
(* The pages.                                                              *)

LetIn(d) == IF d = "portal" THEN session # "ended" ELSE now < expires

\* GET /appointments: the server says whether it may still change.  GET /my-booking/:token:
\* the page goes by the status.  A page may be loaded again at any time, and what it asked
\* for before goes unheard.
Open(d) ==
  /\ LetIn(d)
  /\ page' = [page EXCEPT ![d] =
       [(IF d = "portal" THEN Fresh ELSE Today) EXCEPT
          !.mayChange = Confirmed /\ (d = "portal" => InTime(booking.start))]]
  /\ calls' = {c \in calls : c.door # d}
  /\ request' = [r \in Request |-> IF request[r] # Idle /\ request[r].door = d
                                   THEN [request[r] EXCEPT !.waits = FALSE] ELSE request[r]]
  /\ UNCHANGED <<world, asked, wrong>>

KeepSlots(p) == [p EXCEPT !.late = FALSE]  \* mutant: the list stays until the answer
Emptied(p) == [p EXCEPT !.slots = None, !.slot = None, !.late = FALSE]

\* The effect on mode and date: only the portal empties the list first.
AskSlots(d, p) ==
  /\ asked < MaxCalls /\ asked' = asked + 1
  /\ calls' = calls \cup {[door |-> d, date |-> p.date]}
  /\ page' = [page EXCEPT ![d] = IF d = "portal" THEN Emptied(p) ELSE p]

Reschedule(d) ==
  /\ page[d].mode = "view" /\ page[d].mayChange
  /\ AskSlots(d, [page[d] EXCEPT !.mode = "reschedule"])
  /\ UNCHANGED <<world, request, wrong>>

PickDate(d, day) ==
  /\ page[d].mode = "reschedule" /\ day # page[d].date
  /\ AskSlots(d, [page[d] EXCEPT !.date = day, !.slot = None])
  /\ UNCHANGED <<world, request, wrong>>

\* Slots come as they were when the server looked.  late: for a day asked for before.
Answer(c) ==
  /\ c \in calls /\ LetIn(c.door) /\ (c.door = "portal" => Confirmed)
  /\ calls' = calls \ {c}
  /\ LET all == Offered(c.date)
     IN page' = [page EXCEPT ![c.door].slots =
                   IF c.door = "portal" THEN {s \in all : s > now} ELSE all,
                   ![c.door].late = @ \/ (c.door = "portal" /\ c.date # page[c.door].date)]
  /\ UNCHANGED <<world, asked, request, wrong>>

Refused(c) ==
  /\ c \in calls /\ calls' = calls \ {c}
  /\ page' = IF c.door = "portal" THEN [page EXCEPT !["portal"].slots = {}] ELSE page
  /\ UNCHANGED <<world, asked, request, wrong>>

PickSlot(d, s) ==
  /\ page[d].mode = "reschedule" /\ page[d].slots # None /\ s \in page[d].slots
  /\ page' = [page EXCEPT ![d].slot = s]
  /\ UNCHANGED <<world, calls, asked, request, wrong>>

Back(d) ==
  /\ page[d].mode \in {"reschedule", "cancel"}
  /\ page' = [page EXCEPT ![d].mode = "view",
                          ![d].slot = IF d = "link" /\ page[d].mode = "reschedule" THEN None
                                      ELSE @]
  /\ UNCHANGED <<world, calls, asked, request, wrong>>

AskCancel(d) ==
  /\ page[d].mode = "view" /\ page[d].mayChange
  /\ page' = [page EXCEPT ![d].mode = "cancel"]
  /\ UNCHANGED <<world, calls, asked, request, wrong>>

\* run, confirmReschedule, confirmCancel: one at a time from a page.
Confirm(d, r) ==
  /\ request[r] = Idle
  /\ page[d].mode = "cancel" \/ (page[d].mode = "reschedule" /\ page[d].slot # None)
  /\ \A q \in Request : request[q] # Idle => ~(request[q].door = d /\ request[q].waits)
  /\ LET to == IF page[d].mode = "cancel" THEN None ELSE page[d].slot
     IN request' = [request EXCEPT ![r] =
          [pc |-> "check", door |-> d, to |-> to, waits |-> TRUE, overtaken |-> FALSE,
           shownDay |-> to = None \/ page[d].late \/ DayOf[to] = page[d].date]]
  /\ UNCHANGED <<world, page, calls, asked, wrong>>

-----------------------------------------------------------------------------
(* The handlers.                                                           *)

\* The page hears of it, if it still shows the same visit.
Hears(r, ok) ==
  /\ request' = [request EXCEPT ![r] = Idle]
  /\ page' = IF ok /\ request[r].waits
             THEN [page EXCEPT ![request[r].door].mode =
                     IF request[r].door = "portal" THEN "view" ELSE "done"]
             ELSE page

AnyTime(start) == TRUE  \* mutant: the cutoff is not checked
AssertWithinCutoff(start) == InTime(start)

\* requireCustomer or loadFromToken, the appointment, assertWithinChangeCutoff.
Check(r) ==
  /\ request[r].pc = "check"
  /\ LET q == request[r]
         portal == q.door = "portal"
     IN IF /\ LetIn(q.door) /\ AssertWithinCutoff(booking.start)
           /\ portal => Confirmed /\ (q.to # None => q.to > now)
        THEN /\ request' = [request EXCEPT
                  ![r].pc = IF portal /\ q.to # None THEN "offered" ELSE "act",
                  ![r].overtaken = FALSE]
             /\ UNCHANGED page
        ELSE Hears(r, FALSE)
  /\ UNCHANGED <<world, calls, asked, wrong>>

\* isSlotOffered: the hours, not the other bookings.  The link asks nobody.
CheckOffered(r) ==
  /\ request[r].pc = "offered"
  /\ IF request[r].to \in open
     THEN request' = [request EXCEPT ![r].pc = "act"] /\ UNCHANGED page
     ELSE Hears(r, FALSE)
  /\ UNCHANGED <<world, calls, asked, wrong>>

AnyStatus == TRUE  \* mutant: a booking that was cancelled meanwhile is moved
StillConfirmed == Confirmed

\* rescheduleBooking, cancelBooking: a booking that is cancelled already is good news.
Act(r) ==
  /\ request[r].pc = "act"
  /\ LET q == request[r]
         does == IF q.to = None THEN Confirmed ELSE StillConfirmed /\ q.to \notin taken
     IN /\ booking' = IF ~does THEN booking
                      ELSE IF q.to = None THEN [booking EXCEPT !.status = "cancelled"]
                      ELSE [start |-> q.to, status |-> "confirmed"]
        /\ wrong' = (wrong \cup
             (IF does /\ ~q.overtaken /\ ~InTime(booking.start) THEN {"too late"} ELSE {})
             \cup (IF does /\ ~Confirmed THEN {"cancelled before"} ELSE {})
             \cup (IF does /\ q.door = "portal" /\ ~q.overtaken /\ q.to \notin open \cup {None}
                   THEN {"closed"} ELSE {})
             \cup (IF does /\ q.door = "portal" /\ ~q.shownDay THEN {"another day"} ELSE {}))
        /\ LET rest == IF does THEN Overtaken(r) ELSE request
               ok   == does \/ q.to = None
           IN /\ request' = [rest EXCEPT ![r] = Idle]
              /\ page' = IF ok /\ q.waits
                         THEN [page EXCEPT ![q.door].mode =
                                 IF q.door = "portal" THEN "view" ELSE "done"]
                         ELSE page
  /\ UNCHANGED <<now, open, taken, expires, session, moves, calls, asked>>

-----------------------------------------------------------------------------
(* Everybody else, and time.                                               *)

Meanwhile ==
  /\ moves < MaxMoves /\ moves' = moves + 1
  /\ request' = Overtaken(None)
  /\ UNCHANGED <<expires, page, calls, asked, wrong>>

StaffMoves(s) ==
  /\ Confirmed /\ s \notin taken \cup {booking.start}
  /\ booking' = [booking EXCEPT !.start = s]
  /\ Meanwhile /\ UNCHANGED <<now, open, taken, session>>

StaffCancels ==
  /\ Confirmed /\ booking' = [booking EXCEPT !.status = "cancelled"]
  /\ Meanwhile /\ UNCHANGED <<now, open, taken, session>>

RivalBooks(s) ==
  /\ s \in open \ taken /\ Confirmed => s # booking.start
  /\ taken' = taken \cup {s}
  /\ Meanwhile /\ UNCHANGED <<now, booking, open, session>>

OwnerCloses(s) ==
  /\ s \in open /\ open' = open \ {s}
  /\ Meanwhile /\ UNCHANGED <<now, booking, taken, session>>

\* POST /sign-out-everywhere, from this page or another: it compares seconds.
SignOutEverywhere ==
  /\ session \in {"new", "old"}
  /\ session' = IF session = "old" THEN "ended" ELSE session
  /\ page' = [page EXCEPT !["portal"] = Fresh]
  /\ calls' = {c \in calls : c.door # "portal"}
  /\ moves < MaxMoves /\ moves' = moves + 1
  /\ request' = [r \in Request |-> IF request[r] # Idle /\ request[r].door = "portal"
                                   THEN [request[r] EXCEPT !.waits = FALSE] ELSE request[r]]
  /\ UNCHANGED <<now, booking, open, taken, expires, asked, wrong>>

Tick ==
  /\ \E t \in Instant : t > now /\ now' = t
  /\ session' = IF session = "new" THEN "old" ELSE session
  /\ request' = Overtaken(None)
  /\ UNCHANGED <<booking, open, taken, expires, moves, page, calls, asked, wrong>>

\* signManageToken: the link is good until the time the appointment had first.
Init ==
  /\ now \in Instant /\ \A t \in Instant : now <= t
  /\ booking \in [start : {s \in Slot : s > now}, status : {"confirmed"}]
  /\ open = Slot /\ taken = {}
  /\ expires = booking.start /\ session = "new"
  /\ page = [portal |-> Fresh, link |-> Today] /\ calls = {} /\ asked = 0 /\ moves = 0
  /\ request = [r \in Request |-> Idle] /\ wrong = {}

Next ==
  \/ \E d \in Door :
       \/ Open(d) \/ Reschedule(d) \/ Back(d) \/ AskCancel(d)
       \/ \E day \in Day : PickDate(d, day)
       \/ \E s \in Slot : PickSlot(d, s)
       \/ \E r \in Request : Confirm(d, r)
  \/ \E c \in calls : Answer(c) \/ Refused(c)
  \/ \E r \in Request : Check(r) \/ CheckOffered(r) \/ Act(r)
  \/ \E s \in Slot : StaffMoves(s) \/ RivalBooks(s) \/ OwnerCloses(s)
  \/ StaffCancels \/ SignOutEverywhere \/ Tick

Spec == Init /\ [][Next]_vars

-----------------------------------------------------------------------------
(* Shapes of the appointment, the pages and the changes in flight.           *)
TypeOK ==
  /\ now \in Instant /\ booking \in Booking
  /\ open \subseteq Slot /\ taken \subseteq Slot /\ expires \in Slot
  /\ session \in {"new", "old", "ended"}
  /\ page \in [Door -> PageState]
  /\ calls \subseteq [door : Door, date : Day]
  /\ asked \in 0..MaxCalls /\ moves \in 0..MaxMoves
  /\ request \in [Request -> Change \cup {Idle}]

(* Checks come first and changes later, on two pages at once: an appointment  *)
(* changes in time for the business (unless somebody moved it, or the clock   *)
(* passed, between the two), is never moved once it is cancelled, and a move  *)
(* on "My appointments" is to an open time of the day the page showed (unless *)
(* the list for another day came late).                                       *)
ChangesAreAllowed == wrong = {}
=============================================================================
