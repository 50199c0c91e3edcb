------------------------------- MODULE Agent -------------------------------
(***************************************************************************)
(* What the voice agent does during one call: the session                  *)
(* (voice/geminiSession.js) that is told about the business once, at its   *)
(* start, and carries out the tools the model asks for (voice/tools.js).   *)
(* A message of the session asks for one tool or several and is answered   *)
(* as a whole; while one waits for the database the next is taken up.      *)
(*                                                                         *)
(* What the model says and asks for is anything it may have been told.     *)
(* The slot locks behind a booking are in Booking.tla: here an appointment *)
(* is there or is refused.  Times are hours.                               *)
(***************************************************************************)
EXTENDS Integers, Sequences, FiniteSets

CONSTANTS
  Handler,      \* messages of the session handled at once
  BookingId,
  Person,       \* staff members
  None,
  Start,        \* times one may ask for
  MaxTime,      \* bound: the clock
  MaxMessages   \* bound: messages of the call

VARIABLES
  clock,
  business,   \* its settings
  bookings,   \* bookings collection
  call,       \* the session, with what it was told at the start
  log,        \* booking_id of the call's log
  unlogged,   \* bookings whose onBookingCreated has not come through
  lost,       \* the call has a row in failed_bookings
  work,       \* what each message has come to
  sent        \* messages so far

vars == <<clock, business, bookings, call, log, unlogged, lost, work, sent>>

Who == Person \cup {None}

Key == [who : Who, start : Start]

\* ours and named are history: made by this call, and with whom the caller named.
BookingDoc ==
  [confirmed : BOOLEAN, test : BOOLEAN, who : Who, start : Start,
   key : Key \cup {None}, ours : BOOLEAN, named : Who \cup {"stranger"}]

Assumptions ==
  /\ None \notin BookingId /\ None \notin Person /\ None \notin Key \cup BookingDoc
  /\ Start \subseteq Nat /\ \E t \in Start : \A u \in Start : t <= u
  /\ MaxTime \in Nat /\ MaxMessages \in Nat

Settings == [cutoff : 0..1, departments : BOOLEAN, closes : Nat]

Tool ==
  {"check_availability", "create_booking", "find_upcoming_bookings", "reschedule_booking",
   "cancel_booking", "transfer_to_human", "no such tool"}

Request == [tool : Tool, named : Who \cup {"stranger"}, start : Start, id : BookingId \cup {None}]

Answer ==
  [tool : Tool, named : Who \cup {"stranger"}, ok : BOOLEAN, ids : SUBSET BookingId,
   by : {"department", "business", "nobody"}]

Soonest == CHOOSE t \in Start : \A u \in Start : t <= u

Quiet == [pc |-> "idle", todo |-> <<>>, who |-> None, answers |-> {}]

-----------------------------------------------------------------------------
(* The start of the call.                                                  *)

\* What the instruction says, as far as it depends on the business: it is not written
\* again during the call.
Instruction(b) ==
  {s \in {"closed", "departments", "cutoff"} :
     \/ s = "closed" /\ ~(clock < b.closes)
     \/ s = "departments" /\ b.departments
     \/ s = "cutoff"}

StartSession(test) ==
  /\ call.state = "none"
  /\ call' = [state |-> "open", test |-> test, business |-> business,
              instruction |-> Instruction(business), known |-> {}]
  /\ UNCHANGED <<clock, business, bookings, log, unlogged, lost, work, sent>>

\* The caller hangs up, or the session closes: messages in work go on.
EndSession ==
  /\ call.state = "open" /\ call' = [call EXCEPT !.state = "over"]
  /\ UNCHANGED <<clock, business, bookings, log, unlogged, lost, work, sent>>

Ask(tool, named, start, id) == [tool |-> tool, named |-> named, start |-> start, id |-> id]

Booked == {Ask("create_booking", n, t, None) : n \in Who, t \in Start}
           \cup {Ask("create_booking", "stranger", Soonest, None)}

\* By the ids it has been given.
Changes ==
  {Ask("reschedule_booking", None, t, b) : t \in Start, b \in call.known}
  \cup {Ask("cancel_booking", None, Soonest, b) : b \in call.known}

Looks ==
  {Ask("check_availability", "stranger", Soonest, None),
   Ask("transfer_to_human", None, Soonest, None), Ask("no such tool", None, Soonest, None)}

\* Bound: what changes no document is asked for in one message with a booking.
Messages ==
  {<<r>> : r \in Booked \cup Changes \cup {Ask("find_upcoming_bookings", None, Soonest, None)}}
  \cup {<<Ask("create_booking", n, Soonest, None), q>> : n \in Person, q \in Looks}

Message(h, rs) ==
  /\ call.state = "open" /\ sent < MaxMessages /\ sent' = sent + 1
  /\ work[h].pc = "idle"
  /\ work' = [work EXCEPT ![h] = [Quiet EXCEPT !.pc = "tool", !.todo = rs]]
  /\ UNCHANGED <<clock, business, bookings, call, log, unlogged, lost>>

-----------------------------------------------------------------------------
(* The tools.                                                              *)

Asked(h) == Head(work[h].todo)

Runs(h, pc, tool) == work[h].pc = pc /\ Asked(h).tool = tool

Goto(h, pc) == work' = [work EXCEPT ![h].pc = pc]

\* A tool has its answer: on to the next of the message.
Answers(h, ok, ids, by) ==
  work' = [work EXCEPT ![h] =
    [pc |-> IF Len(@.todo) = 1 THEN "reply" ELSE "tool", todo |-> Tail(@.todo), who |-> None,
     answers |-> @.answers \cup
       {[tool |-> Asked(h).tool, named |-> Asked(h).named, ok |-> ok, ids |-> ids,
         by |-> by]}]]

Refused(h) == Answers(h, FALSE, {}, "nobody")

Nothing == UNCHANGED <<clock, business, bookings, call, log, unlogged, lost, sent>>

\* A name that matches nobody is as good as no name here.
CheckAvailability(h) ==
  /\ Runs(h, "tool", "check_availability")
  /\ Answers(h, TRUE, {}, "nobody") \/ Refused(h)
  /\ Nothing

Anybody(r) == IF r.named = "stranger" THEN None ELSE r.named  \* mutant: no one found, no one asked for

\* Whom the caller asked for; a name nobody has is an error.
Resolved(r) == r.named

\* The service is found, and the time is one that would be offered now, whoever has
\* booked it.
CreateBooking(h) ==
  /\ Runs(h, "tool", "create_booking")
  /\ \/ Refused(h)
     \/ /\ Resolved(Asked(h)) # "stranger"
        /\ work' = [work EXCEPT ![h].pc = "book", ![h].who = Resolved(Asked(h))]
  /\ Nothing

CountedKey(h) == None  \* mutant: a retry has a key of its own

KeyFor(h) == [who |-> work[h].who, start |-> Asked(h).start]

Confirmed(b) == bookings[b] # None /\ bookings[b].confirmed

Replayed(h) == {b \in BookingId : Confirmed(b) /\ KeyFor(h) # None /\ bookings[b].key = KeyFor(h)}

Clash(who, start, but) ==
  \E b \in BookingId \ {but} :
    Confirmed(b) /\ bookings[b].start = start
    /\ (bookings[b].who = who \/ None \in {who, bookings[b].who})

\* createBooking: the booking the key has made, a new one, or nothing, which somebody
\* is to look at.
Book(h) ==
  /\ Runs(h, "book", "create_booking")
  /\ \/ \E b \in Replayed(h) :
          Answers(h, TRUE, {b}, "nobody")
          /\ UNCHANGED <<bookings, lost>> /\ unlogged' = unlogged \cup {b}
     \/ /\ Replayed(h) = {} /\ ~Clash(work[h].who, Asked(h).start, None)
        /\ (\E x \in BookingId : bookings[x] = None)
        /\ LET b == CHOOSE x \in BookingId : bookings[x] = None
           IN
             /\ bookings' = [x \in BookingId |->
                  IF x = b
                  THEN [confirmed |-> TRUE, test |-> call.test, who |-> work[h].who,
                        start |-> Asked(h).start, key |-> KeyFor(h), ours |-> TRUE,
                        named |-> Asked(h).named]
                  ELSE IF bookings[x] # None /\ ~bookings[x].confirmed /\ bookings[x].key = KeyFor(h)
                  THEN [bookings[x] EXCEPT !.key = None] ELSE bookings[x]]
             /\ Answers(h, TRUE, {b}, "nobody")
             /\ unlogged' = unlogged \cup {b}
        /\ UNCHANGED lost
     \/ /\ Replayed(h) = {}   \* too short a notice, or taken
        /\ lost' = TRUE /\ Refused(h)
        /\ UNCHANGED <<bookings, unlogged>>
  /\ UNCHANGED <<clock, business, call, log, sent>>

\* onBookingCreated is not waited for, and may fail, when it is never written.
LogBooking(b) ==
  /\ b \in unlogged /\ unlogged' = unlogged \ {b} /\ log' = b
  /\ UNCHANGED <<clock, business, bookings, call, lost, work, sent>>

EitherKind == {b \in BookingId : Confirmed(b) /\ bookings[b].start > clock}  \* mutant: test or not

\* Of the caller's number, to come, and of the kind of the call.
Upcoming ==
  {b \in BookingId : Confirmed(b) /\ bookings[b].start > clock /\ bookings[b].test = call.test}

FindUpcomingBookings(h) ==
  /\ Runs(h, "tool", "find_upcoming_bookings")
  /\ Answers(h, TRUE, Upcoming, "nobody")
  /\ Nothing

\* Too late by the business as it was when the call began.
TooLate(b) == bookings[b].start - clock < call.business.cutoff

\* The booking is read, and is not too close.
Change(h) ==
  /\ work[h].pc = "tool" /\ Asked(h).tool \in {"reschedule_booking", "cancel_booking"}
  /\ IF TooLate(Asked(h).id) THEN Refused(h) ELSE Goto(h, "change")
  /\ Nothing

\* rescheduleBooking: not asked whether the new time would be offered.
Reschedule(h) ==
  /\ Runs(h, "change", "reschedule_booking")
  /\ LET b == Asked(h).id
         t == Asked(h).start
     IN \/ /\ Confirmed(b) /\ ~Clash(bookings[b].who, t, b)
           /\ bookings' = [bookings EXCEPT ![b].start = t]
           /\ Answers(h, TRUE, {b}, "nobody")
        \/ Refused(h) /\ UNCHANGED bookings
  /\ UNCHANGED <<clock, business, call, log, unlogged, lost, sent>>

\* cancelBooking: of a cancelled one it is an error.
Cancel(h) ==
  /\ Runs(h, "change", "cancel_booking")
  /\ LET b == Asked(h).id
     IN IF Confirmed(b)
        THEN /\ bookings' = [bookings EXCEPT ![b].confirmed = FALSE]
             /\ Answers(h, TRUE, {b}, "nobody")
        ELSE Refused(h) /\ UNCHANGED bookings
  /\ UNCHANGED <<clock, business, call, log, unlogged, lost, sent>>

FreshBusiness == business     \* mutant: the settings of now
BusinessOfCall == call.business

\* The model names a department it has been told of; else the number of the staff
\* member, of the location or of the business is taken, or there is none.
TransferToHuman(h) ==
  /\ Runs(h, "tool", "transfer_to_human")
  /\ \E by \in IF BusinessOfCall.departments /\ "departments" \in call.instruction
               THEN {"department"} ELSE {"business", "nobody"} :
       Answers(h, TRUE, {}, by)
  /\ Nothing

UnknownTool(h) == Runs(h, "tool", "no such tool") /\ Refused(h) /\ Nothing

\* The database fails under a tool: the model is told of an error.
Throws(h) ==
  /\ work[h].pc \notin {"idle", "reply"} /\ Refused(h) /\ Nothing

\* All answers of a message at once; a session that is over takes none.
Reply(h) ==
  /\ work[h].pc = "reply"
  /\ IF call.state = "open"
     THEN call' = [call EXCEPT !.known = @ \cup UNION {a.ids : a \in work[h].answers}]
     ELSE UNCHANGED call
  /\ work' = [work EXCEPT ![h] = Quiet]
  /\ UNCHANGED <<clock, business, bookings, log, unlogged, lost, sent>>

-----------------------------------------------------------------------------
(* The rest of the world.                                                  *)

Tick ==
  /\ clock < MaxTime /\ clock' = clock + 1
  /\ UNCHANGED <<business, bookings, call, log, unlogged, lost, work, sent>>

\* The owner changes the settings.
Edit ==
  /\ call.state = "open" /\ business.departments
  /\ business' = [business EXCEPT !.departments = FALSE, !.cutoff = 1]
  /\ UNCHANGED <<clock, bookings, call, log, unlogged, lost, work, sent>>

Elsewhere(test, who, start) ==
  [confirmed |-> TRUE, test |-> test, who |-> who, start |-> start, key |-> None,
   ours |-> FALSE, named |-> who]

\* The caller has a booking from before, or a test call has left one.
Init ==
  /\ clock = 0
  /\ business \in [cutoff : {0}, departments : {TRUE}, closes : {1}]
  /\ LET old == CHOOSE b \in BookingId : TRUE
     IN \E test \in BOOLEAN, who \in Person :
          bookings = [b \in BookingId |-> IF b = old THEN Elsewhere(test, who, Soonest) ELSE None]
  /\ call = [state |-> "none", test |-> FALSE, business |-> business,
             instruction |-> {}, known |-> {}]
  /\ log = None /\ unlogged = {} /\ lost = FALSE /\ sent = 0
  /\ work = [h \in Handler |-> Quiet]

Next ==
  \/ \E test \in BOOLEAN : StartSession(test)
  \/ EndSession \/ Tick \/ Edit
  \/ \E b \in BookingId : LogBooking(b)
  \/ \E h \in Handler :
       \/ call.state = "open" /\ \E rs \in Messages : Message(h, rs)
       \/ CheckAvailability(h) \/ CreateBooking(h) \/ Book(h) \/ FindUpcomingBookings(h)
       \/ Change(h) \/ Reschedule(h) \/ Cancel(h) \/ TransferToHuman(h)
       \/ UnknownTool(h) \/ Throws(h) \/ Reply(h)

Spec == Init /\ [][Next]_vars

-----------------------------------------------------------------------------
(* Shapes of the documents and of the messages.                              *)
TypeOK ==
  /\ clock \in 0..MaxTime /\ business \in Settings
  /\ \A b \in BookingId : bookings[b] = None \/ bookings[b] \in BookingDoc
  /\ call.state \in {"none", "open", "over"} /\ call.business \in Settings
  /\ log \in BookingId \cup {None} /\ unlogged \subseteq BookingId
  /\ lost \in BOOLEAN /\ sent \in 0..MaxMessages
  /\ \A h \in Handler :
       /\ work[h].pc \in {"idle", "tool", "book", "change", "reply"}
       /\ work[h].who \in Who /\ work[h].answers \subseteq Answer

(* A booking of the call is with whom the caller named, and one wish never   *)
(* has two: however often the model asks again, in messages that cross, and  *)
(* though the first was moved or cancelled meanwhile.                        *)
OneBookingPerWish ==
  /\ \A b \in BookingId :
       bookings[b] # None /\ bookings[b].ours => bookings[b].who = bookings[b].named
  /\ \A b, c \in BookingId :
       Confirmed(b) /\ Confirmed(c) /\ bookings[b].ours /\ bookings[c].ours
       /\ bookings[b].key = bookings[c].key => b = c

\* What the model is about to be told.
ToBeTold == UNION {work[h].answers : h \in Handler}

(* A test call is only ever shown, and only ever changes, what test calls    *)
(* have made; a caller only what customers have.                             *)
KindsApart ==
  \A a \in ToBeTold : \A b \in a.ids : bookings[b].test = call.test

(* The model is told of a booking that is there and is with whom was asked   *)
(* for.  And the log of a call that has booked names a booking of it, once   *)
(* the writes have come through.                                             *)
ToldWhatIsSo ==
  /\ \A a \in ToBeTold : a.ok /\ a.tool = "create_booking" =>
       \E b \in a.ids : bookings[b] # None /\ bookings[b].ours /\ bookings[b].who = a.named
  /\ unlogged = {} /\ (\E b \in BookingId : bookings[b] # None /\ bookings[b].ours) =>
       log # None /\ bookings[log].ours

(* A department the agent was told of at the start is put through as one,    *)
(* though the owner changes the list during the call.                        *)
DepartmentsAreFound ==
  \A a \in ToBeTold : a.ok /\ a.tool = "transfer_to_human" /\ "departments" \in call.instruction
    => a.by = "department"
=============================================================================
