--------------------------- MODULE BookPageProofs ---------------------------
(***************************************************************************)
(* BookPage's promises for any services, people, places and days, and any  *)
(* number of calls, bookings and rivals: who serves, consent before the    *)
(* booking, and one booking unless the page gave up a key.                 *)
(***************************************************************************)
EXTENDS BookPage, FiniteSetTheorems, TLAPS

Sent == Cardinality(DOMAIN posts)

\* Bookings are numbered as they are sent; a key is the number of the first that had it.
Numbered ==
  /\ Sent \in Nat /\ DOMAIN posts = 1..Sent
  /\ Sent <= MaxPosts
  /\ page.key \in 0..Sent
  /\ \A i \in DOMAIN posts : posts[i].key \in 1..Sent
  /\ \A b \in mine : b.key \in 1..Sent
  /\ dropped \subseteq 1..Sent

\* The form is only reached with a time.
TimedPage == {p \in PageState : p.step = 3 => p.slot # None}

Shapes == TypeOK /\ Numbered /\ page \in TimedPage

\* Whoever is tried next does the service there.
SomebodyLeft ==
  \A i \in DOMAIN posts :
    /\ posts[i].pc = "check" => posts[i].tried = {}
    /\ posts[i].pc = "loop" => Candidates(posts[i]) \ posts[i].tried # {}

\* A booking is one that the server answered with 201.
Answered(k) ==
  \E i \in DOMAIN posts : posts[i].key = k /\ posts[i].pc = "done" /\ posts[i].answer = 201

\* What the page knows of the keys it has not let go of too early: one whose booking is
\* made is the current one, until a result is shown; one whose outcome is open is the
\* current one; a booking that is heard of is done with, and one that was made and heard
\* of has its result shown.
BookedKnown ==
  \A b \in mine :
    /\ Answered(b.key)
    /\ b.key \notin dropped => b.key = page.key \/ (page.result /\ page.key = 0)
OpenKnown ==
  \A i \in DOMAIN posts : posts[i].open /\ posts[i].key \notin dropped => posts[i].key = page.key
HeardKnown ==
  \A i \in DOMAIN posts : ~posts[i].open /\ posts[i].key \notin dropped =>
    posts[i].pc = "done" /\ (posts[i].answer = 201 => page.result)

Inv ==
  /\ Shapes
  /\ SomebodyLeft /\ DoneByWhoDoesIt
  /\ ConsentedBeforeBooking
  /\ BookedKnown /\ OpenKnown /\ HeardKnown /\ BookedOnceUnlessGivenUp

-----------------------------------------------------------------------------
(* What the page does by itself.                                           *)

Browsing ==
  \/ \E l \in Location : ChooseLocation(l)
  \/ ChangeLocation \/ Continue \/ Back
  \/ \E s \in Service : PickService(s)
  \/ \E w \in Staff \cup {Any} : PickStaff(w)
  \/ \E d \in Date : PickDate(d) \/ PickSlot(d)
  \/ \E c \in calls : StaffArrive(c) \/ SlotsArrive(c)

(* A rendered page keeps its key and its result, and asks proper questions.  *)
LEMMA RenderTypes ==
  ASSUME NEW p \in TimedPage, NEW waiting, waiting \subseteq Call, Render(p, waiting)
  PROVE  /\ page' \in TimedPage /\ calls' \subseteq Call
         /\ page'.key = p.key /\ page'.result = p.result
<1> DEFINE load == p.step = 2 /\ p.svc # None /\ <<p.step, p.date>> # <<page.step, page.date>>
<1>1. CASE load
  <2>1. page' = [p EXCEPT !.loading = TRUE, !.slots = {}, !.slot = None]
        /\ calls' = waiting \cup {Question("slots", p)}
    BY <1>1 DEF Render, Asks
  <2>2. Question("slots", p) \in Call
    BY <1>1 DEF Question, Call, TimedPage, PageState
  <2>3. page' \in PageState /\ page'.key = p.key /\ page'.result = p.result /\ page'.step = 2
    BY <1>1, <2>1 DEF TimedPage, PageState
  <2>4. calls' \subseteq Call
    BY <2>1, <2>2
  <2> QED BY <2>3, <2>4 DEF TimedPage
<1>2. CASE ~load
  BY <1>2 DEF Render
<1> QED BY <1>1, <1>2

(* While the customer browses, what was sent and the key stay as they are.   *)
LEMMA BrowsingKeeps ==
  ASSUME Assumptions, Shapes, Browsing
  PROVE  /\ UNCHANGED server
         /\ page' \in TimedPage /\ calls' \subseteq Call
         /\ page'.key = page.key /\ page'.result = page.result
<1> USE DEF Browsing
<1>0. /\ page \in TimedPage /\ calls \subseteq Call
      /\ page \in PageState /\ (page.step = 3 => page.slot # None)
  BY DEF Shapes, TypeOK, TimedPage
<1>1. ASSUME NEW l \in Location, ChooseLocation(l) PROVE UNCHANGED server
         /\ page' \in TimedPage /\ calls' \subseteq Call
         /\ page'.key = page.key /\ page'.result = page.result
  <2> DEFINE p == [page EXCEPT !.loc = l]
  <2>1. p \in TimedPage /\ p.key = page.key /\ p.result = page.result
    <3>1. p \in PageState /\ p.key = page.key /\ p.result = page.result
      BY <1>0 DEF PageState
    <3>2. p.step # 3 \/ p.slot # None
      BY <1>0 DEF PageState
    <3> QED BY <3>1, <3>2 DEF TimedPage
  <2>2. Render(p, calls) /\ UNCHANGED server
    BY <1>1 DEF ChooseLocation
  <2> HIDE DEF p
  <2> QED BY <1>0, <2>1, <2>2, RenderTypes
<1>2. ASSUME ChangeLocation PROVE UNCHANGED server
         /\ page' \in TimedPage /\ calls' \subseteq Call
         /\ page'.key = page.key /\ page'.result = page.result
  <2> DEFINE p == [page EXCEPT !.loc = None, !.svc = None, !.staff = {}, !.who = Any,
                     !.slot = None, !.slots = {}, !.loading = TRUE, !.step = 0]
  <2>1. p \in TimedPage /\ p.key = page.key /\ p.result = page.result
    <3> DEFINE q == [page EXCEPT !.loc = None, !.svc = None, !.staff = {}, !.who = Any]
               r == [q EXCEPT !.slot = None, !.slots = {}, !.loading = TRUE, !.step = 0]
    <3>1. p = r
      BY <1>0 DEF TimedPage, PageState
    <3>2. q \in PageState /\ q.key = page.key /\ q.result = page.result
      BY <1>0 DEF TimedPage, PageState
    <3>3. 0 \in 0..3
      OBVIOUS
    <3> HIDE DEF q
    <3>4. r \in TimedPage /\ r.key = q.key /\ r.result = q.result
      <4>1. r \in PageState /\ r.key = q.key /\ r.result = q.result
        BY <3>2, <3>3 DEF PageState
      <4>2. r.step # 3 \/ r.slot # None
        BY <3>2, <3>3 DEF PageState
      <4> QED BY <4>1, <4>2 DEF TimedPage
    <3> HIDE DEF p, r
    <3> QED BY <3>1, <3>2, <3>4
  <2>2. Render(p, calls) /\ UNCHANGED server
    BY <1>2 DEF ChangeLocation
  <2> HIDE DEF p
  <2> QED BY <1>0, <2>1, <2>2, RenderTypes
<1>3. ASSUME Continue PROVE UNCHANGED server
         /\ page' \in TimedPage /\ calls' \subseteq Call
         /\ page'.key = page.key /\ page'.result = page.result
  BY <1>0, <1>3 DEF Continue, TimedPage, PageState
<1>4. ASSUME Back PROVE UNCHANGED server
         /\ page' \in TimedPage /\ calls' \subseteq Call
         /\ page'.key = page.key /\ page'.result = page.result
  <2> DEFINE n == CASE page.step = 3 -> 2
                    [] page.step = 2 /\ page.staff # {} -> 1
                    [] OTHER -> 0
             p == [page EXCEPT !.step = n]
  <2>1. n \in 0..3 /\ n # 3
    OBVIOUS
  <2>2. p \in TimedPage /\ p.key = page.key /\ p.result = page.result
    <3> HIDE DEF n
    <3>1. p \in PageState /\ p.key = page.key /\ p.result = page.result
      BY <1>0, <2>1 DEF PageState
    <3>2. p.step # 3 \/ p.slot # None
      BY <1>0, <2>1 DEF PageState
    <3> QED BY <3>1, <3>2 DEF TimedPage
  <2>3. Render(p, calls) /\ UNCHANGED server
    BY <1>4 DEF Back
  <2> HIDE DEF p
  <2> QED BY <1>0, <2>2, <2>3, RenderTypes
<1>5. ASSUME NEW s \in Service, PickService(s) PROVE UNCHANGED server
         /\ page' \in TimedPage /\ calls' \subseteq Call
         /\ page'.key = page.key /\ page'.result = page.result
  <2>1. page' = [page EXCEPT !.svc = s, !.slot = None, !.slots = {}, !.loading = TRUE,
                             !.who = Any]
        /\ calls' = calls \cup {Question("staff", page')} /\ UNCHANGED server
    BY <1>5 DEF PickService, Asks
  <2>2. page' \in TimedPage /\ page'.key = page.key /\ page'.result = page.result
        /\ page'.svc = s
    <3>0. page \in PageState
      BY <1>0
    <3>1. page' \in PageState /\ page'.key = page.key /\ page'.result = page.result
          /\ page'.svc = s
      BY <2>1, <3>0 DEF PageState
    <3>2. page'.step # 3 \/ page'.slot # None
      <4>1. page.step = 0
        BY <1>5 DEF PickService
      <4>2. page'.step = page.step
        BY <2>1, <3>0 DEF PageState
      <4> QED BY <4>1, <4>2
    <3> QED BY <3>1, <3>2 DEF TimedPage
  <2>3. Question("staff", page') \in Call
    BY <2>2 DEF Question, Call, TimedPage, PageState
  <2> QED BY <1>0, <2>1, <2>2, <2>3
<1>6. ASSUME NEW w \in Staff \cup {Any}, PickStaff(w) PROVE UNCHANGED server
         /\ page' \in TimedPage /\ calls' \subseteq Call
         /\ page'.key = page.key /\ page'.result = page.result
  <2> DEFINE p == [page EXCEPT !.who = w, !.step = 2]
  <2>0. 2 \in 0..3 /\ w \in Staff \cup {Any}
    OBVIOUS
  <2>1. p \in TimedPage /\ p.key = page.key /\ p.result = page.result
    <3>1. p \in PageState /\ p.key = page.key /\ p.result = page.result
      BY <1>0, <2>0 DEF PageState
    <3>2. p.step # 3 \/ p.slot # None
      BY <1>0, <2>0 DEF PageState
    <3> QED BY <3>1, <3>2 DEF TimedPage
  <2>2. Render(p, calls) /\ UNCHANGED server
    BY <1>6 DEF PickStaff
  <2> HIDE DEF p
  <2> QED BY <1>0, <2>1, <2>2, RenderTypes
<1>7. ASSUME NEW d \in Date, PickDate(d) PROVE UNCHANGED server
         /\ page' \in TimedPage /\ calls' \subseteq Call
         /\ page'.key = page.key /\ page'.result = page.result
  <2> DEFINE p == [page EXCEPT !.date = d]
  <2>1. p \in TimedPage /\ p.key = page.key /\ p.result = page.result
    <3>1. p \in PageState /\ p.key = page.key /\ p.result = page.result
      BY <1>0 DEF PageState
    <3>2. p.step # 3 \/ p.slot # None
      BY <1>0 DEF PageState
    <3> QED BY <3>1, <3>2 DEF TimedPage
  <2>2. Render(p, calls) /\ UNCHANGED server
    BY <1>7 DEF PickDate
  <2> HIDE DEF p
  <2> QED BY <1>0, <2>1, <2>2, RenderTypes
<1>8. ASSUME NEW d \in Date, PickSlot(d) PROVE UNCHANGED server
         /\ page' \in TimedPage /\ calls' \subseteq Call
         /\ page'.key = page.key /\ page'.result = page.result
  BY <1>0, <1>8 DEF PickSlot, TimedPage, PageState
<1>9. ASSUME NEW c \in calls, StaffArrive(c) PROVE UNCHANGED server
         /\ page' \in TimedPage /\ calls' \subseteq Call
         /\ page'.key = page.key /\ page'.result = page.result
  <2>1. PICK list \in {StaffFor(c.svc, c.loc), {}} :
          Render([page EXCEPT !.staff = list, !.step = IF list = {} THEN 2 ELSE 1], calls \ {c})
    BY <1>9 DEF StaffArrive
  <2> DEFINE n == IF list = {} THEN 2 ELSE 1
             p == [page EXCEPT !.staff = list, !.step = n]
  <2>2. n \in 0..3 /\ n # 3 /\ list \subseteq Staff
    <3>1. n \in 0..3 /\ n # 3
      OBVIOUS
    <3>2. StaffFor(c.svc, c.loc) \subseteq Staff
      BY DEF StaffFor
    <3>3. list \subseteq Staff
      BY <2>1, <3>2
    <3> QED BY <3>1, <3>3
  <2>3. p \in TimedPage /\ p.key = page.key /\ p.result = page.result
    <3> HIDE DEF n
    <3>1. p \in PageState /\ p.key = page.key /\ p.result = page.result
      BY <1>0, <2>2 DEF PageState
    <3>2. p.step # 3 \/ p.slot # None
      BY <1>0, <2>2 DEF PageState
    <3> QED BY <3>1, <3>2 DEF TimedPage
  <2>4. Render(p, calls \ {c}) /\ UNCHANGED server
    BY <1>9, <2>1 DEF StaffArrive
  <2>5. calls \ {c} \subseteq Call
    BY <1>0
  <2> HIDE DEF p
  <2> QED BY <2>3, <2>4, <2>5, RenderTypes
<1>10. ASSUME NEW c \in calls, SlotsArrive(c) PROVE UNCHANGED server
         /\ page' \in TimedPage /\ calls' \subseteq Call
         /\ page'.key = page.key /\ page'.result = page.result
  <2>1. PICK list \in {Offered(c), {}} : page' = [page EXCEPT !.slots = list, !.loading = FALSE]
    BY <1>10 DEF SlotsArrive
  <2>2. c.date \in Date
    BY <1>0 DEF Call
  <2>3. list \subseteq Date
    BY <2>1, <2>2 DEF Offered
  <2> QED BY <1>0, <1>10, <2>1, <2>3 DEF SlotsArrive, TimedPage, PageState
<1> QED BY <1>1, <1>2, <1>3, <1>4, <1>5, <1>6, <1>7, <1>8, <1>9, <1>10

-----------------------------------------------------------------------------
(* What the server and the answers do, as facts about one booking.         *)

SameForm(q, p) ==
  /\ q.svc = p.svc /\ q.loc = p.loc /\ q.who = p.who /\ q.slot = p.slot /\ q.date = p.date
  /\ q.key = p.key

\* The server takes booking i a step further.
Served(i, q) ==
  /\ posts[i].pc # "done"
  /\ posts' = [posts EXCEPT ![i] = q]
  /\ SameForm(q, posts[i]) /\ q.open = posts[i].open
  /\ q.pc # "check" /\ (q.pc = "loop" => Candidates(q) \ q.tried # {})
  /\ UNCHANGED client
  /\ \/ /\ UNCHANGED <<diary, consent>> /\ ~(q.pc = "done" /\ q.answer = 201)
     \/ /\ diary' = diary /\ consent' = TRUE
        /\ Booked(i, diary) <=> q.pc = "done" /\ q.answer = 201
     \/ /\ ~Booked(i, diary) /\ consent' = TRUE /\ q.pc = "done" /\ q.answer = 201
        /\ \E t \in Candidates(posts[i]) :
             diary' = diary \cup {[staff |-> t, slot |-> posts[i].slot, svc |-> posts[i].svc,
                                   loc |-> posts[i].loc, key |-> posts[i].key]}

\* The page hears of booking i, or that there is no answer.
Heard(i) ==
  /\ posts[i].open
  /\ posts' = [posts EXCEPT ![i] = [posts[i] EXCEPT !.open = FALSE]]
  /\ UNCHANGED <<consent, diary>>
  /\ \/ /\ posts[i].pc = "done" /\ posts[i].answer = 201
        /\ page'.result = TRUE /\ page'.key = page.key /\ dropped' = dropped
     \/ /\ posts[i].pc = "done" /\ posts[i].answer \in {400, 409}
        /\ page'.result = page.result /\ page'.key = 0 /\ DropKey(i, TRUE)
     \/ /\ page'.result = page.result /\ page'.key = 0 /\ DropKey(i, FALSE)

\* A form is sent, once or twice, with one key.
Sends(n) ==
  /\ n \in Nat /\ n > Sent /\ n <= MaxPosts
  /\ ~page.result /\ page'.result = page.result
  /\ page.step = 3
  /\ page'.key = (IF page.key # 0 THEN page.key ELSE Sent + 1)
  /\ page.svc \in Service
  /\ posts' = [i \in 1..n |-> IF i <= Sent THEN posts[i] ELSE PostOf(page'.key)]
  /\ UNCHANGED <<consent, diary, dropped>>

LEMMA CandidatesAreStaff ==
  ASSUME NEW q PROVE Candidates(q) \subseteq StaffFor(q.svc, q.loc) /\ Candidates(q) \subseteq Staff
BY DEF Candidates, StaffFor

LEMMA EndsType ==
  ASSUME NEW q \in Post, NEW a \in {400, 409, 201}
  PROVE  /\ Ends(q, a) \in Post /\ SameForm(Ends(q, a), q) /\ Ends(q, a).open = q.open
         /\ Ends(q, a).pc = "done" /\ Ends(q, a).answer = a
<1>1. a \in {0, 201, 400, 409} /\ "done" \in {"check", "loop", "done"}
  OBVIOUS
<1> DEFINE r == [q EXCEPT !.pc = "done", !.answer = a]
<1>2. r.pc = "done" /\ r.answer = a /\ SameForm(r, q) /\ r.open = q.open
  BY DEF Post, SameForm
<1>3. r \in Post
  <2> DEFINE p == [q EXCEPT !.pc = "done"]
  <2>1. p \in Post /\ r = [p EXCEPT !.answer = a]
    BY <1>1 DEF Post
  <2> HIDE DEF p, r
  <2> QED BY <1>1, <2>1 DEF Post
<1> HIDE DEF r
<1>4. Ends(q, a) = r
  BY DEF Ends, r
<1> QED BY <1>2, <1>3, <1>4

(* The next turn of the loop has somebody to try, or the answer is 409.      *)
LEMMA TryNextType ==
  ASSUME NEW q \in Post, NEW t \in Candidates(q), q.pc = "loop"
  PROVE  /\ TryNext(q, t) \in Post /\ SameForm(TryNext(q, t), q) /\ TryNext(q, t).open = q.open
         /\ TryNext(q, t).pc # "check" /\ ~(TryNext(q, t).pc = "done" /\ TryNext(q, t).answer = 201)
         /\ TryNext(q, t).pc = "loop" => Candidates(TryNext(q, t)) \ TryNext(q, t).tried # {}
<1>1. CASE Candidates(q) \subseteq q.tried \cup {t}
  BY <1>1, EndsType DEF TryNext
<1>2. CASE ~(Candidates(q) \subseteq q.tried \cup {t})
  <2> DEFINE r == [q EXCEPT !.tried = q.tried \cup {t}]
  <2>1. TryNext(q, t) = r
    BY <1>2 DEF TryNext
  <2>2. t \in Staff
    BY CandidatesAreStaff
  <2>3. r \in Post /\ SameForm(r, q) /\ r.open = q.open /\ r.pc = "loop"
        /\ r.tried = q.tried \cup {t}
    BY <2>2 DEF Post, SameForm
  <2>4. Candidates(r) = Candidates(q)
    BY <2>3 DEF Candidates, SameForm
  <2> HIDE DEF r
  <2> QED BY <1>2, <2>1, <2>3, <2>4
<1> QED BY <1>1, <1>2

LEMMA ChecksServe ==
  ASSUME Shapes, SomebodyLeft, NEW i \in DOMAIN posts, Check(i)
  PROVE  \E q \in Post : Served(i, q)
<1>1. PICK ok \in BOOLEAN : posts' = [posts EXCEPT ![i] =
        IF ~ok \/ (Candidates(posts[i]) = {} /\ posts[i].who # Any) THEN Ends(posts[i], 400)
        ELSE IF Candidates(posts[i]) = {} THEN Ends(posts[i], 409)
        ELSE [posts[i] EXCEPT !.pc = "loop"]]
  BY DEF Check
<1>2. /\ posts[i] \in Post /\ posts[i].pc = "check" /\ posts[i].tried = {}
      /\ UNCHANGED <<client, consent, diary>>
  BY DEF Check, Shapes, TypeOK, SomebodyLeft
<1>3. ASSUME NEW a \in {400, 409}, posts' = [posts EXCEPT ![i] = Ends(posts[i], a)]
      PROVE  \E q \in Post : Served(i, q)
  <2> DEFINE q == Ends(posts[i], a)
  <2>1. q \in Post /\ SameForm(q, posts[i]) /\ q.open = posts[i].open /\ q.pc = "done"
        /\ q.answer = a
    BY <1>2, EndsType
  <2>2. posts' = [posts EXCEPT ![i] = q]
    BY <1>3
  <2> HIDE DEF q
  <2>3. Served(i, q)
    BY <1>2, <2>1, <2>2 DEF Served
  <2> QED BY <2>1, <2>3
<1>4. ASSUME posts' = [posts EXCEPT ![i] = [posts[i] EXCEPT !.pc = "loop"]],
             Candidates(posts[i]) # {}
      PROVE  \E q \in Post : Served(i, q)
  <2> DEFINE q == [posts[i] EXCEPT !.pc = "loop"]
  <2>1. q \in Post /\ SameForm(q, posts[i]) /\ q.open = posts[i].open /\ q.pc = "loop"
        /\ q.tried = {}
    BY <1>2 DEF Post, SameForm
  <2>2. Candidates(q) = Candidates(posts[i])
    BY <2>1 DEF Candidates, SameForm
  <2>3. posts' = [posts EXCEPT ![i] = q]
    BY <1>4
  <2> HIDE DEF q
  <2>4. Served(i, q)
    BY <1>2, <1>4, <2>1, <2>2, <2>3 DEF Served
  <2> QED BY <2>1, <2>4
<1> QED BY <1>1, <1>3, <1>4

LEMMA SkipsServe ==
  ASSUME Shapes, SomebodyLeft, NEW i \in DOMAIN posts, SkipStaff(i)
  PROVE  \E q \in Post : Served(i, q)
<1>1. /\ posts[i] \in Post /\ posts[i].pc = "loop" /\ Candidates(posts[i]) \ posts[i].tried # {}
      /\ UNCHANGED <<client, consent, diary>>
  BY DEF SkipStaff, Shapes, TypeOK, SomebodyLeft
<1>2. InTurn(i) \in Candidates(posts[i])
  BY <1>1 DEF InTurn
<1> DEFINE q == TryNext(posts[i], InTurn(i))
<1>3. /\ q \in Post /\ SameForm(q, posts[i]) /\ q.open = posts[i].open
      /\ q.pc # "check" /\ ~(q.pc = "done" /\ q.answer = 201)
      /\ q.pc = "loop" => Candidates(q) \ q.tried # {}
  BY <1>1, <1>2, TryNextType
<1>4. posts' = [posts EXCEPT ![i] = q]
  BY DEF SkipStaff
<1> HIDE DEF q
<1>5. Served(i, q)
  BY <1>1, <1>3, <1>4 DEF Served
<1> QED BY <1>3, <1>5

(* A turn of the loop: the answer is 201 exactly when a booking has the key. *)
LEMMA TriesServe ==
  ASSUME Shapes, SomebodyLeft, NEW i \in DOMAIN posts, TryStaff(i)
  PROVE  \E q \in Post : Served(i, q)
<1>1. /\ posts[i] \in Post /\ posts[i].pc = "loop" /\ Candidates(posts[i]) \ posts[i].tried # {}
      /\ UNCHANGED client /\ consent' = TRUE
  BY DEF TryStaff, Recorded, Shapes, TypeOK, SomebodyLeft
<1> DEFINE t == InTurn(i)
           b == [staff |-> t, slot |-> posts[i].slot, svc |-> posts[i].svc,
                 loc |-> posts[i].loc, key |-> posts[i].key]
<1>2. t \in Candidates(posts[i])
  BY <1>1 DEF InTurn
<1>3. /\ diary' = IF Booked(i, diary) \/ ~Free(t, posts[i].slot) THEN diary ELSE diary \cup {b}
      /\ posts' = [posts EXCEPT ![i] =
           IF Booked(i, diary') THEN Ends(posts[i], 201) ELSE TryNext(posts[i], t)]
  BY DEF TryStaff
<1>4. b.key = posts[i].key
  OBVIOUS
<1> DEFINE e == Ends(posts[i], 201)
           n == TryNext(posts[i], t)
<1>5. e \in Post /\ SameForm(e, posts[i]) /\ e.open = posts[i].open /\ e.pc = "done"
      /\ e.answer = 201
  BY <1>1, EndsType
<1>6. /\ n \in Post /\ SameForm(n, posts[i]) /\ n.open = posts[i].open
      /\ n.pc # "check" /\ ~(n.pc = "done" /\ n.answer = 201)
      /\ n.pc = "loop" => Candidates(n) \ n.tried # {}
  BY <1>1, <1>2, TryNextType
<1>7. posts' = [posts EXCEPT ![i] = IF Booked(i, diary') THEN e ELSE n]
  BY <1>3
<1>8. b = [staff |-> t, slot |-> posts[i].slot, svc |-> posts[i].svc,
           loc |-> posts[i].loc, key |-> posts[i].key]
  OBVIOUS
<1> HIDE DEF e, n, b, t
<1>9. CASE Booked(i, diary) \/ ~Free(t, posts[i].slot)
  <2>1. diary' = diary
    BY <1>3, <1>9
  <2>2. CASE Booked(i, diary)
    <3>1. Served(i, e)
      BY <1>1, <1>5, <1>7, <2>1, <2>2 DEF Served
    <3> QED BY <1>5, <3>1
  <2>3. CASE ~Booked(i, diary)
    <3>1. Served(i, n)
      BY <1>1, <1>6, <1>7, <2>1, <2>3 DEF Served
    <3> QED BY <1>6, <3>1
  <2> QED BY <2>2, <2>3
<1>10. CASE ~(Booked(i, diary) \/ ~Free(t, posts[i].slot))
  <2>1. diary' = diary \cup {b}
    BY <1>3, <1>10
  <2>2. Booked(i, diary')
    BY <2>1, <1>4 DEF Booked
  <2>3. Served(i, e)
    BY <1>1, <1>2, <1>5, <1>7, <1>8, <1>10, <2>1, <2>2 DEF Served
  <2> QED BY <1>5, <2>3
<1> QED BY <1>9, <1>10

LEMMA AnswersAreHeard ==
  ASSUME Assumptions, Shapes, NEW i \in DOMAIN posts, HearBooked(i) \/ HearError(i) \/ HearTaken(i)
  PROVE  Heard(i) /\ page' \in TimedPage /\ calls' \subseteq Call
<1>0. page \in TimedPage /\ calls \subseteq Call /\ posts[i] \in Post /\ 0 \in Keys
  BY DEF Assumptions, Shapes, TypeOK, Numbered, Keys
<1>1. CASE HearBooked(i)
  <2>1. page' \in TimedPage /\ page'.key = page.key /\ page'.result = TRUE /\ calls' = calls
    BY <1>0, <1>1 DEF HearBooked, TimedPage, PageState
  <2>2. /\ posts' = [posts EXCEPT ![i] = [posts[i] EXCEPT !.open = FALSE]]
        /\ posts[i].open /\ posts[i].pc = "done" /\ posts[i].answer = 201
        /\ UNCHANGED <<consent, diary, dropped>>
    BY <1>1 DEF HearBooked
  <2> QED BY <1>0, <2>1, <2>2 DEF Heard
<1>2. CASE HearError(i)
  <2>1. page' \in TimedPage /\ page'.key = 0 /\ page'.result = page.result /\ calls' = calls
    BY <1>0, <1>2 DEF HearError, TimedPage, PageState
  <2> QED BY <1>0, <1>2, <2>1 DEF HearError, Heard
<1>3. CASE HearTaken(i)
  <2> DEFINE p == [page EXCEPT !.key = 0, !.saving = FALSE, !.step = 2, !.loading = TRUE,
                               !.slots = {}, !.slot = None]
             again == IF page.step # 2 /\ page.svc # None THEN {Question("slots", p)} ELSE {}
  <2>1. page' = p /\ calls' = calls \cup again \cup {Question("slots", posts[i])}
    BY <1>3 DEF HearTaken, Asks
  <2>2. p \in TimedPage /\ p.key = 0 /\ p.result = page.result /\ p.svc = page.svc
    <3> DEFINE q == [page EXCEPT !.key = 0, !.saving = FALSE]
               r == [q EXCEPT !.step = 2, !.loading = TRUE, !.slots = {}, !.slot = None]
    <3>1. p = r
      BY <1>0 DEF TimedPage, PageState
    <3>2. q \in PageState /\ q.key = 0 /\ q.result = page.result /\ q.svc = page.svc
      BY <1>0 DEF TimedPage, PageState
    <3>3. 2 \in 0..3
      OBVIOUS
    <3> HIDE DEF q
    <3>4. r \in TimedPage /\ r.key = q.key /\ r.result = q.result /\ r.svc = q.svc
      <4>1. r \in PageState /\ r.key = q.key /\ r.result = q.result /\ r.svc = q.svc
        BY <3>2, <3>3 DEF PageState
      <4>2. r.step # 3 \/ r.slot # None
        BY <3>2, <3>3 DEF PageState
      <4> QED BY <4>1, <4>2 DEF TimedPage
    <3> HIDE DEF p, r
    <3> QED BY <3>1, <3>2, <3>4
  <2> HIDE DEF p
  <2>3. Question("slots", posts[i]) \in Call
    BY <1>0 DEF Question, Call, Post
  <2>4. again \subseteq Call
    BY <2>2 DEF Question, Call, TimedPage, PageState
  <2> HIDE DEF again
  <2>5. page' \in TimedPage /\ calls' \subseteq Call
    BY <1>0, <2>1, <2>2, <2>3, <2>4
  <2>6. page'.key = 0 /\ page'.result = page.result
    BY <2>1, <2>2
  <2> QED BY <1>3, <2>5, <2>6 DEF HearTaken, Heard
<1> QED BY <1>1, <1>2, <1>3

LEMMA SubmitSends ==
  ASSUME Assumptions, Shapes, Submit
  PROVE  (\E n \in Nat : Sends(n)) /\ page' \in TimedPage /\ calls' \subseteq Call
<1>0. /\ page \in TimedPage /\ calls \subseteq Call /\ Sent \in Nat /\ DOMAIN posts = 1..Sent
      /\ ~page.result /\ page.svc \in Service
  BY DEF Shapes, TypeOK, Numbered, Submit, inFlow, Filled, TimedPage, PageState
<1>1. PICK clicks \in 1..2 :
        /\ Sent + clicks <= MaxPosts
        /\ posts' = [i \in 1..(Sent + clicks) |-> IF i <= Sent THEN posts[i] ELSE PostOf(KeyFor(i))]
        /\ page' = [page EXCEPT !.saving = TRUE, !.key = KeyFor(Sent + clicks)]
  BY DEF Submit, Sent
<1> DEFINE k == IF page.key # 0 THEN page.key ELSE Sent + 1
           n == Sent + clicks
<1>2. \A i : KeyFor(i) = k
  BY DEF KeyFor, Sent
<1>3. n \in Nat /\ n > Sent /\ n <= MaxPosts /\ k \in 1..n
  <2>1. n \in Nat /\ n > Sent /\ n <= MaxPosts
    BY <1>0, <1>1
  <2>2. page.key \in 0..Sent
    BY DEF Shapes, Numbered
  <2> HIDE DEF n
  <2> QED BY <1>0, <2>1, <2>2
<1>4. k \in Keys
  <2> HIDE DEF n, k
  <2>1. MaxPosts \in Nat
    BY DEF Assumptions
  <2> QED BY <1>3, <2>1 DEF Keys
<1>5. page' = [page EXCEPT !.saving = TRUE, !.key = k]
  BY <1>1, <1>2
<1>6. posts' = [i \in 1..n |-> IF i <= Sent THEN posts[i] ELSE PostOf(k)]
  BY <1>1, <1>2
<1> HIDE DEF n
<1>7. page' \in TimedPage /\ page'.key = k /\ page'.result = page.result
  <2> HIDE DEF k
  <2> QED BY <1>0, <1>4, <1>5 DEF TimedPage, PageState
<1>8. Sends(n)
  BY <1>0, <1>3, <1>6, <1>7 DEF Sends, Submit
<1>9. calls' = calls
  BY DEF Submit
<1> QED BY <1>0, <1>3, <1>7, <1>8, <1>9

Quiet == UNCHANGED server /\ page'.key = page.key /\ page'.result = page.result

RivalComes ==
  /\ UNCHANGED <<client, posts, consent>>
  /\ \E t \in Staff, x \in Date :
       diary' = diary \cup {[staff |-> t, slot |-> x, svc |-> None, loc |-> None, key |-> Rival]}

(* Every step of a visit is one of five kinds.                               *)
LEMMA Kinds ==
  ASSUME Assumptions, Shapes, SomebodyLeft, [Next]_vars
  PROVE  /\ page' \in TimedPage /\ calls' \subseteq Call
         /\ \/ Quiet
            \/ \E n \in Nat : Sends(n)
            \/ \E i \in DOMAIN posts : Heard(i)
            \/ \E i \in DOMAIN posts : \E q \in Post : Served(i, q)
            \/ RivalComes
<1>0. page \in TimedPage /\ calls \subseteq Call /\ TypeOK
  BY DEF Shapes, TypeOK
<1>1. CASE Browsing
  BY <1>0, <1>1, BrowsingKeeps DEF Quiet
<1>2. CASE Submit
  BY <1>2, SubmitSends
<1>3. ASSUME NEW i \in DOMAIN posts, HearBooked(i) \/ HearError(i) \/ HearTaken(i)
      PROVE  Heard(i) /\ page' \in TimedPage /\ calls' \subseteq Call
  BY <1>3, AnswersAreHeard
<1>4. ASSUME NEW i \in DOMAIN posts, Check(i) \/ TryStaff(i) \/ SkipStaff(i)
      PROVE  (\E q \in Post : Served(i, q)) /\ page' \in TimedPage /\ calls' \subseteq Call
  <2>1. \E q \in Post : Served(i, q)
    BY <1>4, ChecksServe, TriesServe, SkipsServe
  <2>2. page' = page /\ calls' = calls
    BY <2>1 DEF Served, client
  <2> QED BY <1>0, <2>1, <2>2
<1>5. ASSUME NEW t \in Staff, NEW x \in Date, RivalBooks(t, x)
      PROVE  RivalComes /\ page' \in TimedPage /\ calls' \subseteq Call
  BY <1>0, <1>5 DEF RivalBooks, RivalComes, client
<1>6. CASE UNCHANGED vars
  BY <1>0, <1>6 DEF vars, Quiet, server
<1> QED BY <1>1, <1>2, <1>3, <1>4, <1>5, <1>6 DEF Next, Browsing

-----------------------------------------------------------------------------
(* Each kind of step keeps the invariant.                                  *)

LEMMA QuietKeeps ==
  ASSUME Inv, Quiet, page' \in TimedPage, calls' \subseteq Call
  PROVE  Inv'
<1>1. UNCHANGED <<posts, consent, diary, dropped>> /\ page'.key = page.key
      /\ page'.result = page.result
  BY DEF Quiet, server
<1>2. mine' = mine /\ Sent' = Sent
  BY <1>1 DEF mine, Sent
<1>3. Shapes'
  BY <1>1, <1>2 DEF Inv, Shapes, TypeOK, TimedPage, Numbered
<1>4. SomebodyLeft' /\ DoneByWhoDoesIt' /\ ConsentedBeforeBooking' /\ BookedOnceUnlessGivenUp'
  BY <1>1, <1>2 DEF Inv, SomebodyLeft, DoneByWhoDoesIt, ConsentedBeforeBooking,
    BookedOnceUnlessGivenUp
<1>5. BookedKnown' /\ OpenKnown' /\ HeardKnown'
  BY <1>1, <1>2 DEF Inv, BookedKnown, OpenKnown, HeardKnown, Answered
<1> QED BY <1>3, <1>4, <1>5 DEF Inv

LEMMA RivalKeeps ==
  ASSUME Assumptions, Inv, RivalComes
  PROVE  Inv'
<1>1. UNCHANGED <<posts, consent, page, calls, dropped>>
  BY DEF RivalComes, client
<1>2. PICK t \in Staff, x \in Date :
        diary' = diary \cup {[staff |-> t, slot |-> x, svc |-> None, loc |-> None, key |-> Rival]}
  BY DEF RivalComes
<1>3. mine' = mine /\ Sent' = Sent
  BY <1>1, <1>2 DEF mine, Sent
<1>4. Shapes'
  <2>1. diary' \subseteq Booking
    BY <1>2 DEF Inv, Shapes, TypeOK, Booking
  <2> QED BY <1>1, <1>3, <2>1 DEF Inv, Shapes, TypeOK, Numbered
<1>5. SomebodyLeft' /\ DoneByWhoDoesIt' /\ ConsentedBeforeBooking' /\ BookedOnceUnlessGivenUp'
  BY <1>1, <1>3 DEF Inv, SomebodyLeft, DoneByWhoDoesIt, ConsentedBeforeBooking,
    BookedOnceUnlessGivenUp
<1>6. BookedKnown' /\ OpenKnown' /\ HeardKnown'
  BY <1>1, <1>3 DEF Inv, BookedKnown, OpenKnown, HeardKnown, Answered
<1> QED BY <1>4, <1>5, <1>6 DEF Inv

LEMMA SendKeeps ==
  ASSUME Assumptions, Inv, NEW n \in Nat, Sends(n), page' \in TimedPage, calls' \subseteq Call
  PROVE  Inv'
<1> DEFINE k == IF page.key # 0 THEN page.key ELSE Sent + 1
<1>1. /\ n > Sent /\ n <= MaxPosts /\ Sent \in Nat /\ DOMAIN posts = 1..Sent
      /\ UNCHANGED <<consent, diary, dropped>> /\ page.svc \in Service /\ page \in TimedPage
      /\ ~page.result /\ page'.key = k /\ page'.result = page.result
      /\ page.key \in 0..Sent
      /\ posts' = [i \in 1..n |-> IF i <= Sent THEN posts[i] ELSE PostOf(page'.key)]
  BY DEF Sends, Inv, Shapes, Numbered, TypeOK
<1>2. k \in 1..n /\ (page.key # 0 => k = page.key) /\ k \in Keys
  <2>1. n \in Nat /\ MaxPosts \in Nat
    BY DEF Assumptions
  <2>2. CASE page.key # 0
    BY <1>1, <2>1, <2>2 DEF Keys
  <2>3. CASE page.key = 0
    BY <1>1, <2>1, <2>3 DEF Keys
  <2> QED BY <2>2, <2>3
<1> HIDE DEF k
<1> DEFINE new == PostOf(k)
<1>3. /\ new \in Post /\ new.pc = "check" /\ new.tried = {} /\ new.open = TRUE /\ new.key = k
  <2>1. /\ page.loc \in Location \cup {None} /\ page.who \in Staff \cup {Any}
        /\ page.slot \in Date \cup {None} /\ page.date \in Date
    BY <1>1 DEF TimedPage, PageState
  <2>2. page.slot # None
    BY <1>1 DEF Sends, TimedPage
  <2> QED BY <1>1, <1>2, <2>1, <2>2 DEF PostOf, Post
<1>4. DOMAIN posts' = 1..n
  BY <1>1
<1>5. /\ \A i \in DOMAIN posts : i \in DOMAIN posts' /\ posts'[i] = posts[i]
      /\ \A i \in DOMAIN posts' : i \in DOMAIN posts \/ posts'[i] = new
  BY <1>1
<1>6. Sent' = n
  BY <1>1, <1>4, FS_Interval DEF Sent
<1>7. mine' = mine
  BY <1>1 DEF mine
<1> HIDE DEF new
<1>8. TypeOK'
  BY <1>1, <1>3, <1>5 DEF Inv, Shapes, TypeOK, TimedPage
<1>9. Numbered'
  <2>1. 1..Sent \subseteq 1..n
    BY <1>1
  <2>2. \A i \in DOMAIN posts' : posts'[i].key \in 1..n
    BY <1>2, <1>3, <1>5, <2>1 DEF Inv, Shapes, Numbered
  <2>3. page'.key \in 0..n
    BY <1>1, <1>2
  <2> QED BY <1>1, <1>4, <1>6, <1>7, <2>1, <2>2, <2>3 DEF Inv, Shapes, Numbered
<1>10. SomebodyLeft'
  BY <1>3, <1>5 DEF Inv, SomebodyLeft
<1>11. DoneByWhoDoesIt' /\ ConsentedBeforeBooking' /\ BookedOnceUnlessGivenUp'
  BY <1>1, <1>7 DEF Inv, DoneByWhoDoesIt, ConsentedBeforeBooking, BookedOnceUnlessGivenUp
<1>12. BookedKnown'
  <2> SUFFICES ASSUME NEW b \in mine
               PROVE  Answered(b.key)' /\ (b.key \notin dropped => b.key = page'.key)
    BY <1>1, <1>7 DEF BookedKnown
  <2>1. Answered(b.key)'
    BY <1>5 DEF Inv, BookedKnown, Answered
  <2>2. b.key \in 1..Sent /\ (b.key \notin dropped => b.key = page.key)
    BY <1>1 DEF Inv, BookedKnown, Shapes, Numbered
  <2> QED BY <1>1, <1>2, <2>1, <2>2
<1>13. OpenKnown'
  <2> SUFFICES ASSUME NEW i \in DOMAIN posts', posts'[i].key \notin dropped, posts'[i].open
               PROVE  posts'[i].key = k
    BY <1>1 DEF OpenKnown
  <2>1. CASE i \in DOMAIN posts
    <3>1. posts[i].key \in 1..Sent /\ posts[i].key = page.key
      BY <1>5, <2>1 DEF Inv, Shapes, Numbered, OpenKnown
    <3> QED BY <1>1, <1>2, <1>5, <2>1, <3>1
  <2>2. CASE posts'[i] = new
    BY <1>3, <2>2
  <2> QED BY <1>5, <2>1, <2>2
<1>14. HeardKnown'
  BY <1>1, <1>3, <1>5 DEF Inv, HeardKnown
<1> QED BY <1>8, <1>9, <1>10, <1>11, <1>12, <1>13, <1>14 DEF Inv, Shapes

LEMMA HearKeeps ==
  ASSUME Assumptions, Inv, NEW i \in DOMAIN posts, Heard(i), page' \in TimedPage,
         calls' \subseteq Call
  PROVE  Inv'
<1> DEFINE q == [posts[i] EXCEPT !.open = FALSE]
<1>1. /\ posts[i].open /\ posts' = [posts EXCEPT ![i] = q] /\ UNCHANGED <<consent, diary>>
      /\ posts[i] \in Post /\ page.key \in 0..Sent /\ Sent \in Nat /\ posts[i].key \in 1..Sent
      /\ dropped \subseteq 1..Sent
  BY DEF Heard, Inv, Shapes, TypeOK, Numbered
<1>2. /\ q \in Post /\ SameForm(q, posts[i]) /\ q.open = FALSE /\ q.pc = posts[i].pc
      /\ q.tried = posts[i].tried /\ q.answer = posts[i].answer
  BY <1>1 DEF Post, SameForm
<1> HIDE DEF q
<1>3. /\ DOMAIN posts' = DOMAIN posts
      /\ \A j \in DOMAIN posts : posts'[j] = IF j = i THEN q ELSE posts[j]
  BY <1>1
<1>4. /\ \A j \in DOMAIN posts : /\ SameForm(posts'[j], posts[j]) /\ posts'[j].pc = posts[j].pc
                                 /\ posts'[j].tried = posts[j].tried
                                 /\ posts'[j].answer = posts[j].answer
      /\ \A j \in DOMAIN posts : posts'[j].open => j # i /\ posts[j].open
      /\ \A j \in DOMAIN posts : ~posts'[j].open => j = i \/ ~posts[j].open
  BY <1>2, <1>3 DEF SameForm
<1>5. Sent' = Sent /\ mine' = mine
  BY <1>1, <1>3 DEF Sent, mine
<1>6. \A j \in DOMAIN posts : Candidates(posts'[j]) = Candidates(posts[j])
  BY <1>4 DEF Candidates, SameForm
<1>7. \/ /\ posts[i].pc = "done" /\ posts[i].answer = 201
         /\ page'.result = TRUE /\ page'.key = page.key /\ dropped' = dropped
      \/ /\ page'.result = page.result /\ page'.key = 0
         /\ \/ page.key # 0 /\ dropped' = dropped \cup {page.key}
            \/ /\ dropped' = dropped
               /\ page.key # 0 =>
                    /\ \A j \in DOMAIN posts \ {i} : posts[j].open => posts[j].key # page.key
                    /\ \/ posts[i].key # page.key
                       \/ posts[i].pc = "done" /\ posts[i].answer \in {400, 409}
  BY DEF Heard, DropKey, OpenWith
<1>8. Shapes'
  <2>1. \A j \in DOMAIN posts' : posts'[j] \in Post
    BY <1>2, <1>3 DEF Inv, Shapes, TypeOK
  <2>2. page'.key \in 0..Sent /\ dropped' \subseteq 1..Sent
    BY <1>1, <1>7
  <2>3. TypeOK'
    BY <1>1, <2>1 DEF Inv, Shapes, TypeOK, TimedPage
  <2>4. Numbered'
    BY <1>1, <1>3, <1>4, <1>5, <2>2 DEF Inv, Shapes, Numbered, SameForm
  <2> QED BY <2>3, <2>4 DEF Shapes
<1>9. SomebodyLeft'
  BY <1>3, <1>4, <1>6 DEF Inv, SomebodyLeft
<1>10. DoneByWhoDoesIt' /\ ConsentedBeforeBooking'
  BY <1>1, <1>5 DEF Inv, DoneByWhoDoesIt, ConsentedBeforeBooking
<1>11. dropped \subseteq dropped'
  BY <1>7
<1>12. BookedOnceUnlessGivenUp'
  BY <1>5, <1>11 DEF Inv, BookedOnceUnlessGivenUp
<1>13. \A b \in mine : Answered(b.key)'
  BY <1>3, <1>4 DEF Inv, BookedKnown, Answered, SameForm
<1>14. \A b \in mine : b.key \in 1..Sent
  BY DEF Inv, Shapes, Numbered
<1>15. CASE /\ posts[i].pc = "done" /\ posts[i].answer = 201
            /\ page'.result = TRUE /\ page'.key = page.key /\ dropped' = dropped
  <2>1. BookedKnown'
    <3> SUFFICES ASSUME NEW b \in mine, b.key \notin dropped
                 PROVE  b.key = page.key \/ page.key = 0
      BY <1>5, <1>13, <1>15 DEF BookedKnown
    <3> QED BY DEF Inv, BookedKnown
  <2>2. OpenKnown'
    BY <1>3, <1>4, <1>15 DEF Inv, OpenKnown, SameForm
  <2>3. HeardKnown'
    BY <1>3, <1>4, <1>15 DEF Inv, HeardKnown, SameForm
  <2> QED BY <2>1, <2>2, <2>3, <1>8, <1>9, <1>10, <1>12 DEF Inv
<1>16. CASE /\ page'.result = page.result /\ page'.key = 0
            /\ page.key # 0 /\ dropped' = dropped \cup {page.key}
  <2>1. BookedKnown'
    <3> SUFFICES ASSUME NEW b \in mine, b.key \notin dropped'
                 PROVE  page.result
      BY <1>5, <1>13, <1>16 DEF BookedKnown
    <3> QED BY <1>16 DEF Inv, BookedKnown
  <2>2. OpenKnown'
    BY <1>3, <1>4, <1>16 DEF Inv, OpenKnown, SameForm
  <2>3. HeardKnown'
    <3>1. posts[i].key \in dropped'
      BY <1>1, <1>16 DEF Inv, OpenKnown
    <3> QED BY <1>3, <1>4, <1>16, <3>1 DEF Inv, HeardKnown, SameForm
  <2> QED BY <2>1, <2>2, <2>3, <1>8, <1>9, <1>10, <1>12 DEF Inv
<1>17. CASE /\ page'.result = page.result /\ page'.key = 0 /\ dropped' = dropped
            /\ page.key # 0 =>
                 /\ \A j \in DOMAIN posts \ {i} : posts[j].open => posts[j].key # page.key
                 /\ \/ posts[i].key # page.key
                    \/ posts[i].pc = "done" /\ posts[i].answer \in {400, 409}
  \* Whoever is still open has a key that was let go of.
  <2>1. \A j \in DOMAIN posts : j # i /\ posts[j].open => posts[j].key \in dropped
    <3> SUFFICES ASSUME NEW j \in DOMAIN posts, j # i, posts[j].open, posts[j].key \notin dropped
                 PROVE  FALSE
      OBVIOUS
    <3>1. posts[j].key = page.key /\ posts[j].key \in 1..Sent
      BY DEF Inv, OpenKnown, Shapes, Numbered
    <3> QED BY <1>1, <1>17, <3>1
  <2>2. posts[i].key \notin dropped => posts[i].pc = "done" /\ posts[i].answer \in {400, 409}
    BY <1>1, <1>17 DEF Inv, OpenKnown
  <2>3. BookedKnown'
    <3> SUFFICES ASSUME NEW b \in mine, b.key \notin dropped
                 PROVE  page.result
      BY <1>5, <1>13, <1>17 DEF BookedKnown
    <3>1. PICK j \in DOMAIN posts :
            posts[j].key = b.key /\ posts[j].pc = "done" /\ posts[j].answer = 201
      BY DEF Inv, BookedKnown, Answered
    <3>2. j # i
      BY <2>2, <3>1
    <3>3. ~posts[j].open
      BY <2>1, <3>1, <3>2
    <3> QED BY <3>1, <3>3 DEF Inv, HeardKnown
  <2>4. OpenKnown'
    BY <1>3, <1>4, <1>17, <2>1 DEF OpenKnown, SameForm
  <2>5. HeardKnown'
    <3> SUFFICES ASSUME NEW j \in DOMAIN posts, ~posts'[j].open, posts[j].key \notin dropped
                 PROVE  posts[j].pc = "done" /\ (posts[j].answer = 201 => page.result)
      BY <1>3, <1>4, <1>17 DEF HeardKnown, SameForm
    <3>1. CASE j = i
      BY <2>2, <3>1
    <3>2. CASE ~posts[j].open
      BY <3>2 DEF Inv, HeardKnown
    <3> QED BY <1>4, <3>1, <3>2
  <2> QED BY <2>3, <2>4, <2>5, <1>8, <1>9, <1>10, <1>12 DEF Inv
<1> QED BY <1>7, <1>15, <1>16, <1>17

(* The server's turn: a booking it makes has the key of one that is open, or *)
(* one the page has let go of, and nobody else's.                            *)
LEMMA ServeKeeps ==
  ASSUME Assumptions, Inv, NEW i \in DOMAIN posts, NEW q \in Post, Served(i, q),
         page' \in TimedPage, calls' \subseteq Call
  PROVE  Inv'
<1>1. /\ posts[i].pc # "done" /\ posts' = [posts EXCEPT ![i] = q] /\ SameForm(q, posts[i])
      /\ q.open = posts[i].open /\ UNCHANGED <<page, calls, dropped>>
      /\ q.pc # "check" /\ (q.pc = "loop" => Candidates(q) \ q.tried # {})
      /\ posts[i] \in Post /\ posts[i].key \in 1..Sent
  BY DEF Served, client, Inv, Shapes, TypeOK, Numbered
<1>2. /\ DOMAIN posts' = DOMAIN posts
      /\ \A j \in DOMAIN posts : posts'[j] = IF j = i THEN q ELSE posts[j]
  BY <1>1
<1>3. /\ \A j \in DOMAIN posts : SameForm(posts'[j], posts[j])
      /\ \A j \in DOMAIN posts : posts'[j].open => posts[j].open
      /\ \A j \in DOMAIN posts : ~posts'[j].open => ~posts[j].open
      /\ \A j \in DOMAIN posts : posts[j].pc = "done" => posts'[j] = posts[j]
  BY <1>1, <1>2 DEF SameForm
<1>4. Sent' = Sent
  BY <1>2 DEF Sent
<1>5. \A k : Answered(k) => Answered(k)'
  BY <1>2, <1>3 DEF Answered
<1>6. posts[i].key # Rival
  BY <1>1 DEF Assumptions, Inv, Shapes, Numbered
<1>7. SomebodyLeft'
  BY <1>1, <1>2 DEF Inv, SomebodyLeft
<1>8. OpenKnown'
  BY <1>1, <1>2, <1>3 DEF Inv, OpenKnown, SameForm
\* Who is closed and not let go of is done, and so is not served any more.
<1>9. HeardKnown'
  BY <1>1, <1>2, <1>3 DEF Inv, HeardKnown, SameForm
<1>10. \A j \in DOMAIN posts' : posts'[j] \in Post
  BY <1>2 DEF Inv, Shapes, TypeOK
<1>11. CASE diary' = diary
  <2>1. mine' = mine
    BY <1>11 DEF mine
  <2>2. Shapes'
    BY <1>1, <1>2, <1>3, <1>4, <1>10, <1>11, <2>1 DEF Inv, Shapes, TypeOK, Numbered, SameForm
  <2>3. DoneByWhoDoesIt' /\ BookedOnceUnlessGivenUp'
    BY <1>1, <2>1 DEF Inv, DoneByWhoDoesIt, BookedOnceUnlessGivenUp
  <2>4. ConsentedBeforeBooking'
    BY <2>1 DEF Inv, ConsentedBeforeBooking, Served
  <2>5. BookedKnown'
    BY <1>1, <1>5, <2>1 DEF Inv, BookedKnown
  <2> QED BY <1>7, <1>8, <1>9, <2>2, <2>3, <2>4, <2>5 DEF Inv
<1>12. CASE /\ ~Booked(i, diary) /\ consent' = TRUE /\ q.pc = "done" /\ q.answer = 201
            /\ \E t \in Candidates(posts[i]) :
                 diary' = diary \cup {[staff |-> t, slot |-> posts[i].slot, svc |-> posts[i].svc,
                                       loc |-> posts[i].loc, key |-> posts[i].key]}
  <2>1. PICK t \in Candidates(posts[i]) :
          diary' = diary \cup {[staff |-> t, slot |-> posts[i].slot, svc |-> posts[i].svc,
                                loc |-> posts[i].loc, key |-> posts[i].key]}
    BY <1>12
  <2> DEFINE new == [staff |-> t, slot |-> posts[i].slot, svc |-> posts[i].svc,
                     loc |-> posts[i].loc, key |-> posts[i].key]
  <2>2. t \in Staff /\ t \in StaffFor(posts[i].svc, posts[i].loc)
    BY CandidatesAreStaff
  <2>3. new \in Booking /\ new.key = posts[i].key /\ new.staff = t /\ new.svc = posts[i].svc
        /\ new.loc = posts[i].loc
    BY <1>1, <2>2 DEF Booking, Post
  <2>4. diary' = diary \cup {new}
    BY <2>1
  <2> HIDE DEF new
  <2>5. mine' = mine \cup {new}
    BY <1>6, <2>3, <2>4 DEF mine
  <2>6. Shapes'
    BY <1>1, <1>2, <1>3, <1>4, <1>10, <2>3, <2>4, <2>5
    DEF Inv, Shapes, TypeOK, Numbered, SameForm
  <2>7. DoneByWhoDoesIt'
    BY <2>2, <2>3, <2>5 DEF Inv, DoneByWhoDoesIt, StaffFor
  <2>8. ConsentedBeforeBooking'
    BY <1>12 DEF ConsentedBeforeBooking
  \* A closed booking with a key not let go of is done.
  <2>9. posts[i].key \notin dropped => posts[i].key = page.key
    BY <1>1 DEF Inv, OpenKnown, HeardKnown
  <2>10. \A b \in mine : b.key # new.key /\ {b.key, new.key} \cap dropped # {}
    <3> SUFFICES ASSUME NEW b \in mine
                 PROVE  b.key # new.key /\ (b.key \in dropped \/ new.key \in dropped)
      OBVIOUS
    <3>1. b.key # new.key
      BY <1>12, <2>3 DEF Booked, mine
    <3>2. b.key \notin dropped => b.key = page.key \/ page.key = 0
      BY DEF Inv, BookedKnown
    <3>3. new.key # 0
      BY <1>1, <2>3 DEF Inv, Shapes, Numbered
    <3> QED BY <2>3, <2>9, <3>1, <3>2, <3>3
  <2>11. BookedOnceUnlessGivenUp'
    BY <1>1, <2>5, <2>10 DEF Inv, BookedOnceUnlessGivenUp
  <2>12. i \in DOMAIN posts' /\ posts'[i].key = new.key /\ posts'[i].pc = "done"
         /\ posts'[i].answer = 201
    BY <1>1, <1>2, <1>12, <2>3 DEF SameForm
  <2>13. BookedKnown'
    <3> SUFFICES ASSUME NEW b \in mine'
                 PROVE  /\ Answered(b.key)'
                        /\ b.key \notin dropped => b.key = page.key \/ (page.result /\ page.key = 0)
      BY <1>1 DEF BookedKnown
    <3>1. CASE b \in mine
      BY <1>1, <1>5, <3>1 DEF Inv, BookedKnown
    <3>2. CASE b = new
      <4>1. Answered(b.key)'
        BY <2>12, <3>2 DEF Answered
      <4> QED BY <2>3, <2>9, <3>2, <4>1
    <3> QED BY <2>5, <3>1, <3>2
  <2> QED BY <1>7, <1>8, <1>9, <2>6, <2>7, <2>8, <2>11, <2>13 DEF Inv
<1> QED BY <1>11, <1>12 DEF Served

-----------------------------------------------------------------------------
(* The invariant.                                                          *)

LEMMA InvInit == ASSUME Assumptions, Init PROVE Inv
<1>1. DOMAIN posts = {} /\ Sent = 0 /\ mine = {}
  BY FS_EmptySet DEF Init, Sent, mine
<1>2. page = FreshPage(Today) /\ calls = {} /\ dropped = {} /\ diary = {} /\ MaxPosts \in Nat
      /\ Today \in Date
  BY DEF Init, Assumptions
<1>3. page \in PageState /\ page.step = 0 /\ page.key = 0
  <2>1. 0 \in 0..3 /\ 0 \in Keys
    BY <1>2 DEF Keys
  <2> QED BY <1>2, <2>1 DEF FreshPage, PageState
<1>4. Shapes
  BY <1>1, <1>2, <1>3 DEF Shapes, TypeOK, Numbered, TimedPage
<1>5. SomebodyLeft /\ OpenKnown /\ HeardKnown
  BY <1>1 DEF SomebodyLeft, OpenKnown, HeardKnown
<1>6. DoneByWhoDoesIt /\ ConsentedBeforeBooking /\ BookedKnown /\ BookedOnceUnlessGivenUp
  BY <1>1 DEF DoneByWhoDoesIt, ConsentedBeforeBooking, BookedKnown, BookedOnceUnlessGivenUp
<1> QED BY <1>4, <1>5, <1>6 DEF Inv

LEMMA InvNext == ASSUME Assumptions, Inv, [Next]_vars PROVE Inv'
<1>1. Shapes /\ SomebodyLeft
  BY DEF Inv
<1>2. /\ page' \in TimedPage /\ calls' \subseteq Call
      /\ \/ Quiet
         \/ \E n \in Nat : Sends(n)
         \/ \E i \in DOMAIN posts : Heard(i)
         \/ \E i \in DOMAIN posts : \E q \in Post : Served(i, q)
         \/ RivalComes
  BY <1>1, Kinds
<1>3. CASE Quiet
  BY <1>2, <1>3, QuietKeeps
<1>4. CASE \E n \in Nat : Sends(n)
  BY <1>2, <1>4, SendKeeps
<1>5. CASE \E i \in DOMAIN posts : Heard(i)
  BY <1>2, <1>5, HearKeeps
<1>6. CASE \E i \in DOMAIN posts : \E q \in Post : Served(i, q)
  BY <1>2, <1>6, ServeKeeps
<1>7. CASE RivalComes
  BY <1>7, RivalKeeps
<1> QED BY <1>2, <1>3, <1>4, <1>5, <1>6, <1>7

-----------------------------------------------------------------------------
(* A visit to the booking page, whatever is offered and however often it is  *)
(* clicked, answered late, refused or cut off: who serves does the service   *)
(* at the place, consent is written with the booking, and there is one       *)
(* booking unless the page gave up a key whose outcome it did not know       *)
(* (BookPageClient.jsx submit, publicBooking.js).                            *)
THEOREM VisitKeepsPromises ==
  ASSUME Assumptions
  PROVE  Spec => [](TypeOK /\ DoneByWhoDoesIt /\ ConsentedBeforeBooking /\ BookedOnceUnlessGivenUp)
<1>1. Init => Inv
  BY InvInit
<1>2. Inv /\ [Next]_vars => Inv'
  BY InvNext
<1>3. Inv => TypeOK /\ DoneByWhoDoesIt /\ ConsentedBeforeBooking /\ BookedOnceUnlessGivenUp
  BY DEF Inv, Shapes
<1> QED BY <1>1, <1>2, <1>3, PTL DEF Spec
=============================================================================
