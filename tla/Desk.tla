-------------------------------- MODULE Desk --------------------------------
(***************************************************************************)
(* The calendar of the dashboard: bookings are drawn from one list that is *)
(* fetched now and then, dragged to another time, and made, moved and      *)
(* cancelled in a form that lists the free times of a day.  Nothing here   *)
(* waits for anything: a booking can be dragged again while the first      *)
(* drag is being stored, the form can be closed while it is being saved.   *)
(*                                                                         *)
(* One person is booked.  What the form lists the times of (service, staff *)
(* member and date) is one choice, called a day.                           *)
(***************************************************************************)
EXTENDS Integers, FiniteSets

CONSTANTS
  Booking,
  Time,
  Day,
  DayOf,    \* [Time -> Day]
  NoTime,   \* not booked, not drawn, not picked
  Gone,     \* cancelled
  NoDay,    \* no times are listed
  Nobody,   \* no booking
  MaxCalls  \* how many requests are under way at once, the fetch aside

Assumptions ==
  /\ DayOf \in [Time -> Day]
  /\ NoTime \notin Time /\ Gone \notin Time /\ NoTime # Gone /\ NoDay \notin Day /\ Nobody \notin Booking
  /\ MaxCalls \in Nat \ {0}

VARIABLES
  diary,   \* when each booking is, at the server
  shown,   \* where the calendar draws it
  behind,  \* the bookings that changed behind the calendar's back
  fetch,   \* the calendar's newest fetch
  drops,   \* the drags that are being stored
  form,    \* the form, if it is open
  lists,   \* the days whose free times are being asked for, for the form
  saves    \* what was sent from a form

vars == <<diary, shown, behind, fetch, drops, form, lists, saves>>

Place == Time \cup {NoTime}

\* What the calendar draws of the bookings: those that stand.
Drawn == [b \in Booking |-> IF diary[b] \in Time THEN diary[b] ELSE NoTime]

Fetch == [pc : {"none", "asked", "read"}, got : [Booking -> Place]]

NoFetch == [pc |-> "none", got |-> [b \in Booking |-> NoTime]]

Drop == [booking : Booking, from : Time, to : Time, state : {"sent", "done", "refused"}]

Form ==
  [mode : {"closed", "create", "edit"}, booking : Booking \cup {Nobody},
   day : Day \cup {NoDay}, list : Day \cup {NoDay}, picked : Place, astray : BOOLEAN]

Closed ==
  [mode |-> "closed", booking |-> Nobody, day |-> NoDay, list |-> NoDay,
   picked |-> NoTime, astray |-> FALSE]

SaveCall ==
  [kind : {"create", "move", "cancel"}, booking : Booking \cup {Nobody}, to : Place,
   day : Day, astray : BOOLEAN, mine : BOOLEAN, state : {"sent", "done", "refused"}]

TypeOK ==
  /\ diary \in [Booking -> Place \cup {Gone}]
  /\ shown \in [Booking -> Place]
  /\ behind \subseteq Booking
  /\ fetch \in Fetch
  /\ drops \subseteq Drop
  /\ form \in Form
  /\ lists \subseteq Day
  /\ saves \subseteq SaveCall

Init ==
  /\ diary = [b \in Booking |-> NoTime]
  /\ shown = diary
  /\ behind = {}
  /\ fetch = NoFetch
  /\ drops = {}
  /\ form = Closed
  /\ lists = {}
  /\ saves = {}

Calendar == <<shown, fetch>>
TheForm == <<form, lists>>

Free(t, b) == \A c \in Booking \ {b} : diary[c] # t

Dropped(b) == {d \in drops : d.booking = b}

Room == Cardinality(drops) + Cardinality(saves) + Cardinality(lists) < MaxCalls

-----------------------------------------------------------------------------
(* The calendar.                                                            *)

\* Another range, another filter, or a form that was saved; only the newest fetch
\* is drawn.
Refetched == [NoFetch EXCEPT !.pc = "asked"]

Refetch ==
  /\ fetch' = Refetched
  /\ UNCHANGED <<diary, shown, behind, drops, TheForm, saves>>

ListBookings ==
  /\ fetch.pc = "asked"
  /\ fetch' = [pc |-> "read", got |-> Drawn]
  /\ behind' = {b \in Booking : Dropped(b) # {}}
  /\ UNCHANGED <<diary, shown, drops, TheForm, saves>>

Draw ==
  /\ fetch.pc = "read"
  /\ shown' = fetch.got
  /\ fetch' = NoFetch
  /\ UNCHANGED <<diary, behind, drops, TheForm, saves>>

FetchFails ==
  /\ fetch.pc # "none"
  /\ fetch' = NoFetch
  /\ behind' = Booking
  /\ UNCHANGED <<diary, shown, drops, TheForm, saves>>

\* The event is drawn where it was dropped, before anything is stored.
HandleDrop(b, t) ==
  /\ shown[b] \in Time \ {t}
  /\ form.mode = "closed"
  /\ Room
  /\ drops' = drops \cup {[booking |-> b, from |-> shown[b], to |-> t, state |-> "sent"]}
  /\ shown' = [shown EXCEPT ![b] = t]
  /\ behind' = IF Dropped(b) # {} \/ fetch.pc # "none" THEN behind \cup {b} ELSE behind
  /\ UNCHANGED <<diary, fetch, TheForm, saves>>

DropStored(d) ==
  /\ d \in drops /\ d.state = "done"
  /\ drops' = drops \ {d}
  /\ UNCHANGED <<diary, shown, behind, fetch, TheForm, saves>>

LeftThere(d) == shown  \* mutant: a drag that was refused stays drawn
Reverted(d) == [shown EXCEPT ![d.booking] = d.from]

\* An error takes it back to where it was dragged from; an answer that was lost is
\* an error too.
DropRefused(d) ==
  /\ d \in drops
  /\ drops' = drops \ {d}
  /\ shown' = Reverted(d)
  /\ behind' = IF d.state = "refused" THEN behind ELSE behind \cup {d.booking}
  /\ UNCHANGED <<diary, fetch, TheForm, saves>>

-----------------------------------------------------------------------------
(* The form.                                                                *)

OpenForm(mode, b, d) ==
  /\ form.mode = "closed" /\ Room
  /\ form' = [Closed EXCEPT !.mode = mode, !.booking = b, !.day = d]
  /\ lists' = {d}
  /\ UNCHANGED <<diary, Calendar, behind, drops, saves>>

NewBooking(d) == OpenForm("create", Nobody, d)

\* The day is the one of the last fetch, which a drag has not changed.
EditBooking(b, d) == shown[b] \in Time /\ OpenForm("edit", b, d)

KeepPicked(d) == form.picked  \* mutant: what was picked stays picked
Unpicked(d) == NoTime

\* Every change of the choice asks anew; the times that are listed stay meanwhile.
Choose(d) ==
  /\ form.mode # "closed" /\ Room
  /\ d # form.day
  /\ form' = [form EXCEPT !.day = d, !.picked = Unpicked(d), !.astray = FALSE]
  /\ lists' = lists \cup {d}
  /\ UNCHANGED <<diary, Calendar, behind, drops, saves>>

\* An answer is listed, of whatever day it is.
TimesListed(d) ==
  /\ d \in lists
  /\ form' = [form EXCEPT !.list = d]
  /\ lists' = lists \ {d}
  /\ UNCHANGED <<diary, Calendar, behind, drops, saves>>

TimesFailed(d) ==
  /\ d \in lists
  /\ lists' = lists \ {d}
  /\ UNCHANGED <<diary, Calendar, behind, form, drops, saves>>

Pick(t) ==
  /\ form.list # NoDay /\ DayOf[t] = form.list
  /\ form' = [form EXCEPT !.picked = t, !.astray = form.list # form.day]
  /\ UNCHANGED <<diary, Calendar, behind, lists, drops, saves>>

Saving == \E s \in saves : s.mine

Send(kind, to) ==
  /\ ~Saving /\ Room
  /\ saves' = saves \cup {[kind |-> kind, booking |-> form.booking, to |-> to,
                           day |-> form.day, astray |-> form.astray, mine |-> TRUE,
                           state |-> "sent"]}
  /\ UNCHANGED <<diary, Calendar, behind, TheForm, drops>>

Save ==
  /\ form.mode # "closed" /\ form.picked # NoTime
  /\ Send(IF form.mode = "edit" THEN "move" ELSE "create", form.picked)

CancelBooking == form.mode = "edit" /\ Send("cancel", NoTime)

\* Escape, or a click beside the form, also while it is being saved.
CloseForm ==
  /\ form.mode # "closed"
  /\ form' = Closed
  /\ lists' = {}
  /\ saves' = {[s EXCEPT !.mine = FALSE] : s \in saves}
  /\ UNCHANGED <<diary, Calendar, behind, drops>>

\* The form that is open is closed, even if it is another one by now.
Saved(s) ==
  /\ s \in saves /\ s.state = "done"
  /\ saves' = {[r EXCEPT !.mine = FALSE] : r \in saves \ {s}}
  /\ fetch' = Refetched
  /\ form' = Closed
  /\ lists' = {}
  /\ UNCHANGED <<diary, shown, behind, drops>>

\* Refused, or the answer was lost.
SaveFailed(s) ==
  /\ s \in saves
  /\ saves' = saves \ {s}
  /\ behind' = IF s.state = "refused" THEN behind ELSE Booking
  /\ UNCHANGED <<diary, Calendar, TheForm, drops>>

-----------------------------------------------------------------------------
(* The server.                                                              *)

Replace(set, old, state) == (set \ {old}) \cup {[old EXCEPT !.state = state]}

\* Refused also when the service is gone.
RescheduleBooking(b, t) ==
  {<<diary, "refused">>} \cup
    IF diary[b] \in Time /\ Free(t, b) THEN {<<[diary EXCEPT ![b] = t], "done">>} ELSE {}

ServeDrop(d) ==
  /\ d \in drops /\ d.state = "sent"
  /\ \E result \in RescheduleBooking(d.booking, d.to) :
       /\ diary' = result[1]
       /\ drops' = Replace(drops, d, result[2])
  /\ UNCHANGED <<Calendar, behind, TheForm, saves>>

\* A booking that is drawn and not behind is behind until the next fetch.
Change(s, after) ==
  /\ diary' = after
  /\ saves' = Replace(saves, s, "done")
  /\ behind' = behind \cup {b \in Booking : after[b] # diary[b]}
  /\ UNCHANGED <<Calendar, TheForm, drops>>

Refuse(s) ==
  /\ saves' = Replace(saves, s, "refused")
  /\ UNCHANGED <<diary, Calendar, behind, TheForm, drops>>

\* Refused when the time is taken, the service gone or a field wrong.
ServeCreate(s) ==
  /\ s \in saves /\ s.state = "sent" /\ s.kind = "create"
  /\ \/ \E b \in Booking : diary[b] = NoTime /\ Free(s.to, b)
                           /\ Change(s, [diary EXCEPT ![b] = s.to])
     \/ Refuse(s)

ServeMove(s) ==
  /\ s \in saves /\ s.state = "sent" /\ s.kind = "move"
  /\ \E result \in RescheduleBooking(s.booking, s.to) :
       IF result[2] = "done" THEN Change(s, result[1]) ELSE Refuse(s)

\* What is cancelled already is cancelled: that is no error.
ServeCancel(s) ==
  /\ s \in saves /\ s.state = "sent" /\ s.kind = "cancel"
  /\ Change(s, [diary EXCEPT ![s.booking] = Gone])

\* A customer, or somebody at another desk.
Elsewhere(b, t) ==
  /\ t # diary[b]
  /\ IF t = Gone THEN diary[b] \in Time ELSE diary[b] # Gone /\ Free(t, b)
  /\ diary' = [diary EXCEPT ![b] = t]
  /\ behind' = behind \cup {b}
  /\ UNCHANGED <<Calendar, TheForm, drops, saves>>

Next ==
  \/ Refetch \/ ListBookings \/ Draw \/ FetchFails
  \/ \E b \in Booking :
       \/ \E t \in Time : HandleDrop(b, t)
       \/ \E t \in Time \cup {Gone} : Elsewhere(b, t)
       \/ \E d \in Day : EditBooking(b, d)
  \/ \E d \in drops : DropStored(d) \/ DropRefused(d) \/ ServeDrop(d)
  \/ \E d \in Day : NewBooking(d) \/ Choose(d) \/ TimesListed(d) \/ TimesFailed(d)
  \/ \E t \in Time : Pick(t)
  \/ Save \/ CancelBooking \/ CloseForm
  \/ \E s \in saves :
       \/ Saved(s) \/ SaveFailed(s)
       \/ ServeCreate(s) \/ ServeMove(s) \/ ServeCancel(s)

Spec == Init /\ [][Next]_vars

-----------------------------------------------------------------------------
(* What is sent to be stored is a time of the day that the form shows,      *)
(* unless it was picked while the times of another day were still listed    *)
(* (BookingModal.jsx:30-38, 132-145).                                       *)
PickedAsChosen ==
  /\ form.picked # NoTime => form.astray \/ DayOf[form.picked] = form.day
  /\ \A s \in saves : s.kind # "cancel" => s.astray \/ DayOf[s.to] = s.day

(* The calendar draws a booking where it is stored as soon as nothing of it *)
(* is under way, unless it changed behind the calendar's back: elsewhere,   *)
(* in two drags at once, during a fetch, or by a request whose answer was   *)
(* lost (calendar/page.jsx:46, 77).                                         *)
ShownIsStored ==
  \A b \in Booking :
    Dropped(b) = {} /\ fetch.pc = "none" /\ b \notin behind => shown[b] = Drawn[b]
=============================================================================
