------------------------------ MODULE Catalog ------------------------------
(***************************************************************************)
(* What can be booked, and the people who change it: services (routes/     *)
(* services.js, dashboard/app/services/page.jsx), staff and their time off *)
(* (routes/team.js, components/team/StaffSection.jsx), while bookings come *)
(* in from the web and the phone, which look at the offer first, and from  *)
(* the desk (routes/bookings.js, components/BookingModal.jsx), which may   *)
(* override it.  Customers move their visits by the link, on the phone     *)
(* (routes/myBooking.js, voice/tools.js), where nobody looks at the offer, *)
(* and in the portal (customerPortal.js).  All look first and write later. *)
(*                                                                         *)
(* Every visit takes one unit of time; Booking.tla has the lengths, and    *)
(* how locks keep two bookings apart.                                      *)
(***************************************************************************)
EXTENDS Integers, FiniteSets

CONSTANTS
  Service,
  Staff,
  Anyone,  \* nobody in particular
  Time,    \* start times
  Instant, \* values of the clock
  Booking,
  Handler, \* requests in flight
  None     \* no such booking; no time chosen

Assumptions ==
  /\ Time \cup Instant \subseteq Int /\ Anyone \notin Staff
  /\ None \notin Time /\ None \notin Booking

VARIABLES
  now,
  services, staff, \* rows that exist
  off,             \* staff_time_off
  book,            \* bookings
  work,            \* requests in flight, each from the page it was chosen on
  raced            \* history: a write crossed another request

shop == <<services, staff, off>>

vars == <<now, shop, book, work, raced>>

Row ==
  [service : Service, who : Staff \cup {Anyone}, time : Time, keys : SUBSET (Staff \cup {Anyone}),
   confirmed : BOOLEAN, noShow : BOOLEAN,
   unasked : BOOLEAN,   \* history: put there with no look at the offer, or by force
   revived : BOOLEAN]   \* history: moved out of the past

Idle == [pc |-> "idle"]

Work ==
  [pc : {"book", "offered", "write"}, desk : BOOLEAN, service : Service,
   who : Staff \cup {Anyone}, time : Time, keys : SUBSET (Staff \cup {Anyone})]
    \cup [pc : {"drop service", "dropping service"}, service : Service]
    \cup [pc : {"drop staff", "dropping staff"}, who : Staff]
    \cup [pc : {"time off", "putting off"}, who : Staff, time : Time, force : BOOLEAN]
    \cup [pc : {"own move", "move", "moving"}, booking : Booking, time : Time,
          looked : BOOLEAN, keys : SUBSET (Staff \cup {Anyone})]

Made == {b \in Booking : book[b] # None}

Confirmed == {b \in Made : book[b].confirmed}

Upcoming == {b \in Confirmed : book[b].time > now}

Others(h) == {g \in Handler \ {h} : work[g] # Idle}

\* What every write notes: it may cross what others have looked at.
Writes(h) ==
  /\ work' = [work EXCEPT ![h] = Idle]
  /\ raced' = (raced \/ Others(h) # {})

Refuse(h) == work' = [work EXCEPT ![h] = Idle] /\ UNCHANGED raced

-----------------------------------------------------------------------------
(* The offer.                                                              *)

\* getAvailability: with somebody chosen, that person's bookings and time off; without,
\* everybody's bookings.
BusyAt(who, t) ==
  \/ \E b \in Confirmed : book[b].time = t /\ (who = Anyone \/ book[b].who = who)
  \/ <<who, t>> \in off

NotAsked(who, t) == TRUE  \* mutant: whatever is sent is booked
\* isSlotOffered: bookings are left to the locks.
StillOffered(who, t) == <<who, t>> \notin off

\* slotLockIds and staffIdsFor: nobody in particular keeps all of today's staff.
Keys(who) == IF who = Anyone THEN staff \cup {Anyone} ELSE {who}

Free(keys, t, but) == \A b \in Confirmed \ {but} : book[b].time = t => book[b].keys \cap keys = {}

\* A page lists services, staff and slots; one of each is chosen.  The desk's list stays
\* when the staff or the service is changed, until the next answer.
Choose(h, desk, s, w, t) ==
  /\ work[h] = Idle /\ s \in services /\ w \in staff \cup {Anyone} /\ t > now
  /\ IF desk THEN \E v \in staff \cup {Anyone} : ~BusyAt(v, t) ELSE ~BusyAt(w, t)
  /\ work' = [work EXCEPT ![h] = [pc |-> IF desk THEN "book" ELSE "offered", desk |-> desk,
                                  service |-> s, who |-> w, time |-> t, keys |-> {}]]
  /\ UNCHANGED <<now, shop, book, raced>>

\* POST /bookings of publicBooking.js asks for an active member of staff; both web and
\* phone ask isSlotOffered.
LookAtOffer(h) ==
  /\ work[h].pc = "offered"
  /\ LET w == work[h]
     IN IF w.who \in staff \cup {Anyone} /\ StillOffered(w.who, w.time)
        THEN work' = [work EXCEPT ![h].pc = "book"] /\ UNCHANGED raced
        ELSE Refuse(h)
  /\ UNCHANGED <<now, shop, book>>

\* createBooking reads the service and the staff, not whether the one chosen is there.
ReadForBooking(h) ==
  /\ work[h].pc = "book"
  /\ IF work[h].service \in services
     THEN work' = [work EXCEPT ![h].pc = "write", ![h].keys = Keys(work[h].who)] /\ UNCHANGED raced
     ELSE Refuse(h)
  /\ UNCHANGED <<now, shop, book>>

WriteBooking(h, b) ==
  /\ work[h].pc = "write" /\ book[b] = None
  /\ LET w == work[h]
     IN IF Free(w.keys, w.time, None)
        THEN /\ book' = [book EXCEPT ![b] =
                  [service |-> w.service, who |-> w.who, time |-> w.time, keys |-> w.keys,
                   confirmed |-> TRUE, noShow |-> FALSE, unasked |-> w.desk, revived |-> FALSE]]
             /\ Writes(h)
        ELSE Refuse(h) /\ UNCHANGED book
  /\ UNCHANGED <<now, shop>>

-----------------------------------------------------------------------------
(* Bookings that are there.                                                *)

Cancel(b) ==
  /\ b \in Upcoming /\ book' = [book EXCEPT ![b].confirmed = FALSE]
  /\ UNCHANGED <<now, shop, work, raced>>

\* PATCH /bookings/:id {noShow}: only a visit of the past that was not cancelled.
SetNoShow(b, flag) ==
  /\ b \in Confirmed /\ book[b].time < now /\ book[b].noShow # flag
  /\ book' = [book EXCEPT ![b].noShow = flag]
  /\ UNCHANGED <<now, shop, work, raced>>

Move(pc, b, t) == [pc |-> pc, booking |-> b, time |-> t, looked |-> FALSE, keys |-> {}]

\* PATCH /bookings/:id {startTime}: the desk moves any confirmed booking, to any time.
ChooseMove(h, b, t) ==
  /\ work[h] = Idle /\ b \in Confirmed
  /\ work' = [work EXCEPT ![h] = Move("move", b, t)]
  /\ UNCHANGED <<now, shop, book, raced>>

\* By the link and on the phone only the visit must be far enough off (Upcoming: a
\* cutoff of no minutes); a time that the page or the agent did not offer goes too.
MoveByLink(h, b, t) == b \in Upcoming /\ ChooseMove(h, b, t)

\* The portal takes a time to come, and looks at the offer as well.
MoveInPortal(h, b, t) ==
  /\ work[h] = Idle /\ b \in Upcoming /\ t > now
  /\ work' = [work EXCEPT ![h] = Move("own move", b, t)]
  /\ UNCHANGED <<now, shop, book, raced>>

LookAtMove(h) ==
  /\ work[h].pc = "own move"
  /\ IF StillOffered(book[work[h].booking].who, work[h].time)
     THEN work' = [work EXCEPT ![h].pc = "move", ![h].looked = TRUE] /\ UNCHANGED raced
     ELSE Refuse(h)
  /\ UNCHANGED <<now, shop, book>>

ReadForMove(h) ==
  /\ work[h].pc = "move"
  /\ LET b == work[h].booking
     IN IF b \in Confirmed /\ book[b].service \in services
        THEN work' = [work EXCEPT ![h].pc = "moving", ![h].keys = Keys(book[b].who)]
             /\ UNCHANGED raced
        ELSE Refuse(h)
  /\ UNCHANGED <<now, shop, book>>

WriteMove(h) ==
  /\ work[h].pc = "moving"
  /\ LET w == work[h]
         b == w.booking
     IN IF b \in Confirmed /\ Free(w.keys, w.time, b)
        THEN /\ book' = [book EXCEPT ![b].time = w.time, ![b].keys = w.keys,
                                     ![b].unasked = ~w.looked,
                                     ![b].revived = @ \/ book[b].time <= now]
             /\ Writes(h)
        ELSE Refuse(h) /\ UNCHANGED book
  /\ UNCHANGED <<now, shop>>

-----------------------------------------------------------------------------
(* Services, staff and time off.                                           *)

AddService(s) ==
  /\ s \notin services /\ \A b \in Made : book[b].service # s
  /\ services' = services \cup {s} /\ UNCHANGED <<now, staff, off, book, work, raced>>

AddStaff(p) ==
  /\ p \notin staff /\ \A b \in Made : book[b].who # p /\ \A t \in Time : <<p, t>> \notin off
  /\ staff' = staff \cup {p} /\ UNCHANGED <<now, services, off, book, work, raced>>

NobodyComes(on) == FALSE  \* mutant: deleted without a look at the bookings
SomebodyComes(on) == on \cap Upcoming # {}

Start(h, w) ==
  /\ work[h] = Idle /\ work' = [work EXCEPT ![h] = w]
  /\ UNCHANGED <<now, shop, book, raced>>

DropService(h, s) == s \in services /\ Start(h, [pc |-> "drop service", service |-> s])

DropStaff(h, p) == p \in staff /\ Start(h, [pc |-> "drop staff", who |-> p])

CheckService(h) ==
  /\ work[h].pc = "drop service"
  /\ IF SomebodyComes({b \in Made : book[b].service = work[h].service})
     THEN Refuse(h)
     ELSE work' = [work EXCEPT ![h].pc = "dropping service"] /\ UNCHANGED raced
  /\ UNCHANGED <<now, shop, book>>

DeleteService(h) ==
  /\ work[h].pc = "dropping service"
  /\ services' = services \ {work[h].service} /\ Writes(h)
  /\ UNCHANGED <<now, staff, off, book>>

CheckStaff(h) ==
  /\ work[h].pc = "drop staff"
  /\ IF SomebodyComes({b \in Made : book[b].who = work[h].who})
     THEN Refuse(h)
     ELSE work' = [work EXCEPT ![h].pc = "dropping staff"] /\ UNCHANGED raced
  /\ UNCHANGED <<now, shop, book>>

\* The time off of whoever goes stays.
DeleteStaff(h) ==
  /\ work[h].pc = "dropping staff"
  /\ staff' = staff \ {work[h].who} /\ Writes(h)
  /\ UNCHANGED <<now, services, off, book>>

NoClash(p, t) == {}  \* mutant: time off over anything
Clashes(p, t) == {b \in Confirmed : book[b].who = p /\ book[b].time = t}

AskTimeOff(h, p, t) ==
  p \in staff /\ Start(h, [pc |-> "time off", who |-> p, time |-> t, force |-> FALSE])

\* 409 with the names; confirmed, the page asks again with force.
CheckTimeOff(h) ==
  /\ work[h].pc = "time off"
  /\ IF Clashes(work[h].who, work[h].time) = {} \/ work[h].force
     THEN work' = [work EXCEPT ![h].pc = "putting off"] /\ UNCHANGED raced
     ELSE \/ work' = [work EXCEPT ![h].force = TRUE] /\ UNCHANGED raced
          \/ Refuse(h)
  /\ UNCHANGED <<now, shop, book>>

PutTimeOff(h) ==
  /\ work[h].pc = "putting off"
  /\ LET p == work[h].who
         t == work[h].time
     IN /\ off' = off \cup {<<p, t>>}
        /\ book' = [b \in Booking |->
             IF b \in Made /\ work[h].force /\ b \in Clashes(p, t)
             THEN [book[b] EXCEPT !.unasked = TRUE] ELSE book[b]]
  /\ Writes(h)
  /\ UNCHANGED <<now, services, staff>>

RemoveTimeOff(p, t) ==
  /\ <<p, t>> \in off /\ off' = off \ {<<p, t>>}
  /\ UNCHANGED <<now, services, staff, book, work, raced>>

Tick ==
  /\ \E t \in Instant : t > now /\ now' = t
  /\ UNCHANGED <<shop, book, work, raced>>

Init ==
  /\ now \in Instant /\ \A t \in Instant : now <= t
  /\ services = Service /\ staff = Staff /\ off = {}
  /\ book = [b \in Booking |-> None]
  /\ work = [h \in Handler |-> Idle] /\ raced = FALSE

Next ==
  \/ \E h \in Handler :
       \/ \E s \in Service : DropService(h, s)
       \/ \E p \in Staff : DropStaff(h, p)
       \/ \E p \in Staff, t \in Time : AskTimeOff(h, p, t)
       \/ \E desk \in BOOLEAN, s \in Service, w \in Staff \cup {Anyone}, t \in Time :
            Choose(h, desk, s, w, t)
       \/ \E b \in Booking, t \in Time :
            ChooseMove(h, b, t) \/ MoveByLink(h, b, t) \/ MoveInPortal(h, b, t)
       \/ \E b \in Booking : WriteBooking(h, b)
       \/ LookAtOffer(h) \/ ReadForBooking(h) \/ LookAtMove(h) \/ ReadForMove(h) \/ WriteMove(h)
       \/ CheckService(h) \/ DeleteService(h) \/ CheckStaff(h) \/ DeleteStaff(h)
       \/ CheckTimeOff(h) \/ PutTimeOff(h)
  \/ \E b \in Booking : Cancel(b)
  \/ \E b \in Booking, flag \in BOOLEAN : SetNoShow(b, flag)
  \/ \E s \in Service : AddService(s)
  \/ \E p \in Staff : AddStaff(p)
  \/ \E p \in Staff, t \in Time : RemoveTimeOff(p, t)
  \/ Tick

Spec == Init /\ [][Next]_vars

-----------------------------------------------------------------------------
(* Shapes of the rows and of the requests in flight.                         *)
TypeOK ==
  /\ now \in Instant /\ services \subseteq Service /\ staff \subseteq Staff
  /\ off \subseteq Staff \X Time
  /\ book \in [Booking -> Row \cup {None}]
  /\ work \in [Handler -> Work \cup {Idle}] /\ raced \in BOOLEAN

(* "Refuse to orphan a booking": who will come finds the service and the      *)
(* person booked, unless a deletion crossed a page or a request that had seen *)
(* them, or a visit of the past was moved to a day to come.                   *)
NobodyOrphaned ==
  ~raced => \A b \in Upcoming :
    ~book[b].revived => book[b].service \in services /\ book[b].who \in staff \cup {Anyone}

(* Nobody is booked with a person who is away then, unless the time off       *)
(* crossed a request in flight, or the visit was put there with no look at    *)
(* the offer: by the desk, by force, or by a customer's move on the phone or  *)
(* by the link (voice/tools.js:267-275, myBooking.js:71-83), which may end in *)
(* somebody's time off.  Those made on the web, and moved in the portal, do   *)
(* not.                                                                       *)
NobodyAway ==
  ~raced => \A b \in Confirmed : <<book[b].who, book[b].time>> \in off => book[b].unasked
=============================================================================
