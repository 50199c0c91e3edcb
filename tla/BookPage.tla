------------------------------ MODULE BookPage ------------------------------
(***************************************************************************)
(* One visit to the public booking page (dashboard/app/book/[slug]/        *)
(* BookPageClient.jsx) and what answers it (routes/publicBooking.js,       *)
(* services/phoneCode.js).                                                 *)
(*                                                                         *)
(* The page asks for staff and times and goes on before the answers are    *)
(* in; answers come in any order, and a booking's answer may be lost.  Two *)
(* clicks may reach `submit` before the button is greyed out.  A day has   *)
(* one start, so a time is its date; createBooking is one step here        *)
(* (Booking shows that it may be).                                         *)
(***************************************************************************)
EXTENDS Integers, FiniteSets

CONSTANTS
  Service, Staff, Location, Date,
  Today,      \* the day the page opens on
  Offers,     \* <<staff, service>>: service_ids
  WorksAt,    \* <<staff, location>>: location_id
  Any,        \* "any available" as the choice of staff
  None,       \* nothing chosen
  Rival,      \* whoever else books
  MaxCalls,   \* bound: questions unanswered at a time (two alike count as one)
  MaxPosts,   \* bound: bookings it sends
  MaxRivals   \* bound: bookings by others

Assumptions ==
  /\ Offers \subseteq Staff \X Service /\ WorksAt \subseteq Staff \X Location
  /\ Today \in Date /\ {Any, None} \cap Staff = {} /\ Any # None
  /\ None \notin Service \cup Location \cup Date /\ Rival \notin Nat
  /\ MaxCalls \in Nat /\ MaxPosts \in Nat /\ MaxRivals \in Nat

VARIABLES
  page,     \* the state hooks of BookPageClient
  calls,    \* questions about staff and times on their way
  posts,    \* bookings on their way, and what became of them
  consent,  \* recordWebConsent has run
  diary,    \* bookings
  dropped   \* history: keys the page let go of while one of their bookings was open

vars == <<page, calls, posts, consent, diary, dropped>>

multi == Cardinality(Location) > 1

Keys == 0..MaxPosts

Call == [kind : {"staff", "slots"}, svc : Service, loc : Location \cup {None},
         who : Staff \cup {Any}, date : Date]

Post ==
  [pc : {"check", "loop", "done"}, open : BOOLEAN, tried : SUBSET Staff,
   svc : Service, loc : Location \cup {None}, who : Staff \cup {Any}, slot : Date,
   date : Date, key : Keys, answer : {0, 201, 400, 409}]

Booking ==
  [staff : Staff, slot : Date, svc : Service \cup {None}, loc : Location \cup {None},
   key : Keys \cup {Rival}]

PageState ==
  [loc : Location \cup {None}, svc : Service \cup {None}, staff : SUBSET Staff,
   who : Staff \cup {Any}, date : Date, slots : SUBSET Date, loading : BOOLEAN,
   slot : Date \cup {None}, step : 0..3, saving : BOOLEAN,
   key : Keys, result : BOOLEAN]

FreshPage(d) ==
  [loc |-> None, svc |-> None, staff |-> {}, who |-> Any, date |-> d, slots |-> {},
   loading |-> TRUE, slot |-> None, step |-> 0, saving |-> FALSE,
   key |-> 0, result |-> FALSE]

inFlow == ~page.result /\ (multi => page.loc # None)

-----------------------------------------------------------------------------
(* Questions.                                                              *)

Question(k, p) ==
  [kind |-> k, svc |-> p.svc, loc |-> p.loc, who |-> p.who, date |-> p.date]

Asks(s) == calls' = s /\ Cardinality(s) <= MaxCalls

\* The render after a change: useEffect loads the times when the step or the day
\* has changed, with what the page holds by then.
Render(p, waiting) ==
  LET load == p.step = 2 /\ p.svc # None /\ <<p.step, p.date>> # <<page.step, page.date>>
  IN IF load
     THEN /\ Asks(waiting \cup {Question("slots", p)})
          /\ page' = [p EXCEPT !.loading = TRUE, !.slots = {}, !.slot = None]
     ELSE page' = p /\ calls' = waiting

server == <<posts, consent, diary, dropped>>

ChooseLocation(l) ==
  /\ multi /\ page.loc = None /\ ~page.result
  /\ Render([page EXCEPT !.loc = l], calls)
  /\ UNCHANGED server

\* The button stays live while a booking is being sent.
ChangeLocation ==
  /\ multi /\ page.loc # None /\ ~page.result
  /\ Render([page EXCEPT !.loc = None, !.svc = None, !.staff = {}, !.who = Any,
                         !.slot = None, !.slots = {}, !.loading = TRUE, !.step = 0], calls)
  /\ UNCHANGED server

PickService(s) ==
  /\ inFlow /\ page.step = 0
  /\ page' = [page EXCEPT !.svc = s, !.slot = None, !.slots = {}, !.loading = TRUE,
                          !.who = Any]
  /\ Asks(calls \cup {Question("staff", page')})
  /\ UNCHANGED server

\* GET /public/:slug/staff
StaffFor(svc, loc) ==
  {t \in Staff : <<t, svc>> \in Offers /\ (loc # None => <<t, loc>> \in WorksAt)}

AnyStaff(q) == IF q.who = Any THEN StaffFor(q.svc, q.loc) ELSE {q.who}  \* mutant: who is named is not checked
\* candidatesFor
Candidates(q) ==
  IF q.who = Any THEN StaffFor(q.svc, q.loc) ELSE {q.who} \cap StaffFor(q.svc, q.loc)

Free(t, x) == \A b \in diary : <<b.staff, b.slot>> # <<t, x>>

\* GET /public/:slug/availability: the times free with any of them that day.
Offered(c) == {x \in {c.date} : \E t \in Candidates(c) : Free(t, x)}

\* The answer to pickService moves the page, wherever it is by now.
StaffArrive(c) ==
  /\ c \in calls /\ c.kind = "staff"
  /\ \E list \in {StaffFor(c.svc, c.loc), {}} :  \* {}: the call failed
       Render([page EXCEPT !.staff = list, !.step = IF list = {} THEN 2 ELSE 1], calls \ {c})
  /\ UNCHANGED server

PickStaff(w) ==
  /\ inFlow /\ page.step = 1 /\ w \in page.staff \cup {Any}
  /\ Render([page EXCEPT !.who = w, !.step = 2], calls)
  /\ UNCHANGED server

PickDate(d) ==
  /\ inFlow /\ page.step = 2 /\ d # page.date
  /\ Render([page EXCEPT !.date = d], calls)
  /\ UNCHANGED server

\* loadSlots shows the times of whichever question is answered last.
SlotsArrive(c) ==
  /\ c \in calls /\ c.kind = "slots"
  /\ \E list \in {Offered(c), {}} : page' = [page EXCEPT !.slots = list, !.loading = FALSE]
  /\ calls' = calls \ {c}
  /\ UNCHANGED server

PickSlot(x) ==
  /\ inFlow /\ page.step = 2 /\ ~page.loading /\ x \in page.slots
  /\ page' = [page EXCEPT !.slot = x]
  /\ UNCHANGED <<calls, server>>

Continue ==
  /\ inFlow /\ page.step = 2 /\ page.slot # None
  /\ page' = [page EXCEPT !.step = 3]
  /\ UNCHANGED <<calls, server>>

Back ==
  /\ inFlow /\ page.step > 0 /\ (page.step = 3 => ~page.saving)
  /\ Render([page EXCEPT !.step = CASE page.step = 3 -> 2
                                    [] page.step = 2 /\ page.staff # {} -> 1
                                    [] OTHER -> 0], calls)
  /\ UNCHANGED server

-----------------------------------------------------------------------------
(* The form.                                                               *)

NewKey(i) == i  \* mutant: a key for every click
\* key.current ??= crypto.randomUUID()
KeyFor(i) == IF page.key # 0 THEN page.key ELSE Cardinality(DOMAIN posts) + 1

PostOf(k) ==
  [pc |-> "check", open |-> TRUE, tried |-> {}, svc |-> page.svc, loc |-> page.loc,
   who |-> page.who, slot |-> page.slot, date |-> page.date, key |-> k, answer |-> 0]

AnyForm == TRUE  \* mutant: a form without a service is sent
Filled == page.svc # None

\* submit.  The key is kept until an error.  A second click that beats the render
\* sends the booking again.  A late answer may have brought a customer without a
\* service here: submit then throws into its catch.
Submit ==
  /\ inFlow /\ page.step = 3 /\ ~page.saving /\ Filled
  /\ \E clicks \in 1..2 :
       LET n == Cardinality(DOMAIN posts)
       IN /\ n + clicks <= MaxPosts
          /\ posts' = [i \in 1..(n + clicks) |->
                         IF i <= n THEN posts[i] ELSE PostOf(KeyFor(i))]
          /\ page' = [page EXCEPT !.saving = TRUE, !.key = KeyFor(n + clicks)]
  /\ UNCHANGED <<calls, consent, diary, dropped>>

\* The booking's outcome is open for the page until it hears of it.
OpenWith(k, i) == \E j \in DOMAIN posts \ {i} : posts[j].open /\ posts[j].key = k

\* catch: the key goes, whatever became of the bookings sent with it.
DropKey(i, known) ==
  dropped' = IF page.key # 0
                /\ (OpenWith(page.key, i) \/ (~known /\ posts[i].key = page.key))
             THEN dropped \cup {page.key} ELSE dropped

HearBooked(i) ==
  /\ posts[i].open /\ posts[i].pc = "done" /\ posts[i].answer = 201
  /\ page' = [page EXCEPT !.result = TRUE, !.saving = FALSE]
  /\ posts' = [posts EXCEPT ![i].open = FALSE]
  /\ UNCHANGED <<calls, consent, diary, dropped>>

\* A refusal, or no answer: the request timed out, the server failed after the
\* booking was made.
HearError(i) ==
  /\ posts[i].open
  /\ \/ posts[i].pc = "done" /\ posts[i].answer = 400 /\ DropKey(i, TRUE)
     \/ DropKey(i, FALSE)
  /\ page' = [page EXCEPT !.key = 0, !.saving = FALSE]
  /\ posts' = [posts EXCEPT ![i].open = FALSE]
  /\ UNCHANGED <<calls, consent, diary>>

\* 409: back to the times.  They are asked for by the form, as it was rendered
\* when it was sent, and by the render.
HearTaken(i) ==
  /\ posts[i].open /\ posts[i].pc = "done" /\ posts[i].answer = 409
  /\ DropKey(i, TRUE)
  /\ LET p == [page EXCEPT !.key = 0, !.saving = FALSE, !.step = 2, !.loading = TRUE,
                           !.slots = {}, !.slot = None]
         again == IF page.step # 2 /\ page.svc # None THEN {Question("slots", p)} ELSE {}
     IN page' = p /\ Asks(calls \cup again \cup {Question("slots", posts[i])})
  /\ posts' = [posts EXCEPT ![i].open = FALSE]
  /\ UNCHANGED <<consent, diary>>

-----------------------------------------------------------------------------
(* POST /public/:slug/bookings.                                            *)

client == <<page, calls, dropped>>

Ends(q, status) == [q EXCEPT !.pc = "done", !.answer = status]

\* The limits, the bot check, the fields and the text code (PhoneCodes) may refuse.
\* candidatesFor refuses a named person who does not do the service or works
\* elsewhere; with "any" there may be nobody.
Check(i) ==
  /\ posts[i].pc = "check"
  /\ \E ok \in BOOLEAN : posts' = [posts EXCEPT ![i] =
       IF ~ok \/ (Candidates(@) = {} /\ @.who # Any) THEN Ends(@, 400)
       ELSE IF Candidates(@) = {} THEN Ends(@, 409) ELSE [@ EXCEPT !.pc = "loop"]]
  /\ UNCHANGED <<client, consent, diary>>

\* "any" goes through them by name: in some fixed order.
InTurn(i) == CHOOSE t \in Candidates(posts[i]) \ posts[i].tried : TRUE

\* 409 from the last of them is the answer.
TryNext(q, t) ==
  IF Candidates(q) \subseteq q.tried \cup {t} THEN Ends(q, 409)
  ELSE [q EXCEPT !.tried = @ \cup {t}]

Booked(i, d) == \E b \in d : b.key = posts[i].key

NobodyAsked(c) == c  \* mutant: recordWebConsent is left to whoever confirms
Recorded(c) == TRUE

\* One turn of the loop.  createBooking gives back the booking that has the key.
TryStaff(i) ==
  /\ posts[i].pc = "loop"
  /\ consent' = Recorded(consent)
  /\ LET t == InTurn(i)
         booking == [staff |-> t, slot |-> posts[i].slot, svc |-> posts[i].svc,
                     loc |-> posts[i].loc, key |-> posts[i].key]
     IN /\ diary' = IF Booked(i, diary) \/ ~Free(t, posts[i].slot) THEN diary
                    ELSE diary \cup {booking}
        /\ posts' = [posts EXCEPT ![i] =
             IF Booked(i, diary') THEN Ends(@, 201) ELSE TryNext(@, t)]
  /\ UNCHANGED client

\* isSlotOffered says no: the hours changed, or the day was closed.
SkipStaff(i) ==
  /\ posts[i].pc = "loop"
  /\ posts' = [posts EXCEPT ![i] = TryNext(@, InTurn(i))]
  /\ UNCHANGED <<client, consent, diary>>

RivalBooks(t, x) ==
  /\ Free(t, x) /\ Cardinality({b \in diary : b.key = Rival}) < MaxRivals
  /\ diary' = diary \cup {[staff |-> t, slot |-> x, svc |-> None, loc |-> None, key |-> Rival]}
  /\ UNCHANGED <<client, posts, consent>>

Init ==
  /\ page = FreshPage(Today)
  /\ calls = {}
  /\ posts = <<>> /\ consent = FALSE
  /\ diary = {} /\ dropped = {}

Next ==
  \/ \E l \in Location : ChooseLocation(l)
  \/ ChangeLocation \/ Continue \/ Back \/ Submit
  \/ \E s \in Service : PickService(s)
  \/ \E w \in Staff \cup {Any} : PickStaff(w)
  \/ \E d \in Date : PickDate(d) \/ PickSlot(d)
  \/ \E c \in calls : StaffArrive(c) \/ SlotsArrive(c)
  \/ \E i \in DOMAIN posts :
       \/ HearBooked(i) \/ HearError(i) \/ HearTaken(i)
       \/ Check(i) \/ TryStaff(i) \/ SkipStaff(i)
  \/ \E t \in Staff, x \in Date : RivalBooks(t, x)

Spec == Init /\ [][Next]_vars

-----------------------------------------------------------------------------
mine == {b \in diary : b.key # Rival}

(* Shapes of the page's state and of what is on its way.                    *)
TypeOK ==
  /\ page \in PageState
  /\ calls \subseteq Call
  /\ \A i \in DOMAIN posts : posts[i] \in Post
  /\ diary \subseteq Booking

(* Whatever late answer the page was showing, nobody is booked with somebody *)
(* who does not do the service or does not work at the location.             *)
DoneByWhoDoesIt ==
  \A b \in mine : /\ <<b.staff, b.svc>> \in Offers
                  /\ b.loc # None => <<b.staff, b.loc>> \in WorksAt

(* Double clicks, and any number of refusals: a visit makes a second booking *)
(* only after the page let go of a key whose outcome it did not know.        *)
BookedOnceUnlessGivenUp ==
  \A b, c \in mine : b # c => b.key # c.key /\ {b.key, c.key} \cap dropped # {}

(* A booking's confirmation finds the consent the customer gave with it.     *)
ConsentedBeforeBooking == mine # {} => consent
=============================================================================
