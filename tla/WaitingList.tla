---------------------------- MODULE WaitingList ----------------------------
(***************************************************************************)
(* The waiting list for one service on one full day (services/             *)
(* waitlistService.js), with what moves it: joins from the booking page    *)
(* (routes/publicBooking.js), bookings, cancellations (services/           *)
(* bookingService.js), "C" by text (webhooks/twilio.js), removal by staff  *)
(* (routes/waitlist.js).                                                   *)
(*                                                                         *)
(* A staff member has one start left to give that day.  What createBooking *)
(* and cancelBooking do after their commit runs on its own, and is lost if *)
(* the process stops.                                                      *)
(***************************************************************************)
EXTENDS Integers, Sequences, FiniteSets

CONSTANTS
  Customer,   \* phones
  Staff,      \* staff members who do the service
  Anyone,     \* no staff member asked for
  Wish,       \* what joining customers ask for
  Nobody,     \* nobody has the start
  Joiner,     \* joins in flight
  Notifier,   \* runs of notifyWaitlistForCancellation in flight
  MaxEntries, \* bound: entries ever made
  MaxTexts    \* MAX_TEXTS_PER_CANCELLATION

Assumptions ==
  /\ MaxEntries \in Nat /\ MaxTexts \in Nat \ {0} /\ IsFiniteSet(Joiner)
  /\ Anyone \notin Staff /\ Nobody \notin Customer /\ Wish \subseteq Staff \cup {Anyone}

VARIABLES
  entries,    \* the waitlist collection, in the order of the inserts
  tickets,    \* created_at: how many have been given out
  visit,      \* who has the start of a staff member
  joiner,     \* joins in flight
  notifier,   \* notifications in flight
  marks,      \* bookings whose markWaitlistBooked has not run
  texts       \* history: texts per entry

vars == <<entries, tickets, visit, joiner, notifier, marks, texts>>

EntryId == 1..MaxEntries

EntryDoc ==
  [phone : Customer, staff : Staff \cup {Anyone}, created : Nat,
   status : {"waiting", "notified", "booked", "removed"}]

JoinerState ==
  [pc : {"idle", "insert"}, phone : Customer \cup {Nobody},
   staff : Staff \cup {Anyone}, created : Nat]

NotifierState ==
  [pc : {"idle", "begin", "free", "claim", "send"}, line : Seq(EntryId)]

NotJoining == [pc |-> "idle", phone |-> Nobody, staff |-> Anyone, created |-> 0]
Done       == [pc |-> "idle", line |-> <<>>]

Waiting == {e \in DOMAIN entries : entries[e].status = "waiting"}

-----------------------------------------------------------------------------
(* Joining.                                                                *)

NeverListed(p) == FALSE  \* mutant: an insert instead of an upsert
\* The upsert's filter finds a row.
Listed(p) == \E e \in Waiting : entries[e].phone = p

\* joinWaitlist stamps the entry and asks for the upsert, which looks, and only
\* then inserts: no unique index makes it one step.
JoinLook(j, p, s) ==
  /\ joiner[j].pc = "idle"
  /\ tickets < MaxEntries
  /\ ~Listed(p)
  /\ tickets' = tickets + 1
  /\ joiner' = [joiner EXCEPT ![j] =
       [pc |-> "insert", phone |-> p, staff |-> s, created |-> tickets']]
  /\ UNCHANGED <<entries, visit, notifier, marks, texts>>

JoinInsert(j) ==
  /\ joiner[j].pc = "insert"
  /\ entries' = Append(entries,
       [phone |-> joiner[j].phone, staff |-> joiner[j].staff,
        created |-> joiner[j].created, status |-> "waiting"])
  /\ joiner' = [joiner EXCEPT ![j] = NotJoining]
  /\ UNCHANGED <<tickets, visit, notifier, marks, texts>>

\* removeWaitlistEntry, or the TTL index after the day.
RemoveEntry(e) ==
  /\ entries[e].status # "removed"
  /\ entries' = [entries EXCEPT ![e].status = "removed"]
  /\ UNCHANGED <<tickets, visit, joiner, notifier, marks,
                 texts>>

-----------------------------------------------------------------------------
(* Bookings and cancellations.                                             *)

Free(s) == visit[s] = Nobody

\* createBooking commits, and sets markWaitlistBooked going.
Book(p, s) ==
  /\ Free(s) /\ \A t \in Staff : visit[t] # p
  /\ visit' = [visit EXCEPT ![s] = p]
  /\ marks' = marks \cup {p}
  /\ UNCHANGED <<entries, tickets, joiner, notifier, texts>>

\* markWaitlistBooked: whether they were texted or not.
MarkBooked(p) ==
  /\ p \in marks
  /\ marks' = marks \ {p}
  /\ entries' = [e \in DOMAIN entries |->
       IF entries[e].phone = p /\ entries[e].status \in {"waiting", "notified"}
       THEN [entries[e] EXCEPT !.status = "booked"] ELSE entries[e]]
  /\ UNCHANGED <<tickets, visit, joiner, notifier, texts>>

\* cancelBooking commits, and sets notifyWaitlistForCancellation going.  A
\* booking that is cancelled already sets nothing going: of two at once, one
\* by a "C" that had chosen it say, the second does nothing.
Cancel(s) ==
  /\ ~Free(s)
  /\ visit' = [visit EXCEPT ![s] = Nobody]
  /\ \E n \in Notifier :
       /\ notifier[n].pc = "idle"
       /\ notifier' = [notifier EXCEPT ![n].pc = "begin"]
  /\ UNCHANGED <<entries, tickets, joiner, marks, texts>>

-----------------------------------------------------------------------------
(* notifyWaitlistForCancellation.                                          *)

LastFirst(e, f) == entries[e].created > entries[f].created  \* mutant: the last in line first
InLine(e, f) == entries[e].created < entries[f].created

\* sort({ created_at: 1 }).limit(MAX_TEXTS_PER_CANCELLATION): whoever waits before one
\* who is told stands before them in the line.
FirstInLine ==
  LET few == IF Cardinality(Waiting) < MaxTexts THEN Cardinality(Waiting) ELSE MaxTexts
  IN {line \in [1..few -> Waiting] :
        \A i \in 1..few :
          /\ \A j \in 1..(i - 1) : line[j] # line[i]
          /\ \A e \in Waiting : InLine(e, line[i]) => \E j \in 1..(i - 1) : line[j] = e}

Head1(n) == Head(notifier[n].line)

\* The loop goes on to the next entry, or ends.
NextEntry(n) ==
  IF Len(notifier[n].line) <= 1 THEN Done
  ELSE [pc |-> "free", line |-> Tail(notifier[n].line)]

\* Between 9pm and 8am, without a booking page or suspended, nobody is told.
Begin(n) ==
  /\ notifier[n].pc = "begin"
  /\ \E mayText \in BOOLEAN, line \in FirstInLine : notifier' = [notifier EXCEPT ![n] =
       IF ~mayText \/ Waiting = {} THEN Done ELSE [pc |-> "free", line |-> line]]
  /\ UNCHANGED <<entries, tickets, visit, joiner, marks, texts>>

\* Whom hasFreeSlot asks for: the staff member the entry names, or all.
Asked(e) == IF entries[e].staff = Anyone THEN Staff ELSE {entries[e].staff}

\* hasFreeSlot.  Nothing for this entry ends the loop for the others too.
CheckFree(n) ==
  /\ notifier[n].pc = "free"
  /\ notifier' = [notifier EXCEPT ![n] =
       IF \E s \in Asked(Head1(n)) : Free(s) THEN [@ EXCEPT !.pc = "claim"] ELSE Done]
  /\ UNCHANGED <<entries, tickets, visit, joiner, marks, texts>>

FindThenText(e) == TRUE  \* mutant: no claim
Claimable(e) == entries[e].status = "waiting"

Claim(n) ==
  /\ notifier[n].pc = "claim"
  /\ IF Claimable(Head1(n))
     THEN /\ entries' = [entries EXCEPT ![Head1(n)].status = "notified"]
          /\ notifier' = [notifier EXCEPT ![n].pc = "send"]
     ELSE /\ notifier' = [notifier EXCEPT ![n] = NextEntry(n)]
          /\ UNCHANGED entries
  /\ UNCHANGED <<tickets, visit, joiner, marks, texts>>

\* The consent is read after the claim: an opted-out customer's turn is over.
\* One that cannot be read counts as given (waitlistService.js:76).
Send(n) ==
  /\ notifier[n].pc = "send"
  /\ \E optedIn \in BOOLEAN :
       texts' = IF optedIn THEN [texts EXCEPT ![Head1(n)] = @ + 1] ELSE texts
  /\ notifier' = [notifier EXCEPT ![n] = NextEntry(n)]
  /\ UNCHANGED <<entries, tickets, visit, joiner, marks>>

-----------------------------------------------------------------------------
(* The world.                                                              *)

\* The process stops with what it had not awaited, or a step of it throws.
LoseTask ==
  /\ \/ \E n \in Notifier : /\ notifier[n].pc # "idle"
                            /\ notifier' = [notifier EXCEPT ![n] = Done]
                            /\ UNCHANGED marks
     \/ \E p \in marks : marks' = marks \ {p} /\ UNCHANGED notifier
  /\ UNCHANGED <<entries, tickets, visit, joiner, texts>>

Init ==
  /\ entries = <<>> /\ tickets = 0
  /\ visit \in [Staff -> Customer \cup {Nobody}]
  /\ joiner = [j \in Joiner |-> NotJoining]
  /\ notifier = [n \in Notifier |-> Done]
  /\ marks = {}
  /\ texts = [e \in EntryId |-> 0]

Next ==
  \/ \E j \in Joiner : JoinInsert(j)
  \/ \E j \in Joiner, p \in Customer, s \in Wish : JoinLook(j, p, s)
  \/ \E e \in DOMAIN entries : RemoveEntry(e)
  \/ \E p \in Customer : MarkBooked(p)
  \/ \E p \in Customer, s \in Staff : Book(p, s)
  \/ \E s \in Staff : Cancel(s)
  \/ \E n \in Notifier : Begin(n) \/ CheckFree(n) \/ Claim(n) \/ Send(n)
  \/ LoseTask

Spec == Init /\ [][Next]_vars

-----------------------------------------------------------------------------
(* Shapes of the list and of the handlers' variables.                      *)
TypeOK ==
  /\ entries \in Seq(EntryDoc) /\ Len(entries) <= MaxEntries
  /\ joiner \in [Joiner -> JoinerState]
  /\ notifier \in [Notifier -> NotifierState]
  /\ \A n \in Notifier :
       notifier[n].pc \in {"free", "claim", "send"} => notifier[n].line # <<>>
  /\ marks \subseteq Customer

(* Two cancellations at once never text the same person twice about one      *)
(* entry, whatever bookings, removals and losses come between.               *)
TextedOnce == \A e \in EntryId : texts[e] <= 1

(* The line is kept: whoever has been told stands behind nobody who is still *)
(* waiting, unless that one's row came into the database after theirs.       *)
LineIsKept ==
  \A e, f \in DOMAIN entries :
    texts[e] > 0 /\ entries[f].status = "waiting" /\ entries[f].created < entries[e].created
      => f > e

(* "One live entry per person, service and day", up to the joins that were   *)
(* in flight at the same time.                                               *)
OneEntryPerJoin ==
  \A p \in Customer :
    Cardinality({e \in Waiting : entries[e].phone = p}) <= Cardinality(Joiner)
=============================================================================
