------------------------- MODULE CalendarSyncProofs -------------------------
(***************************************************************************)
(* The sync worker, proved for every set of bookings, processes and event  *)
(* ids and every number of attempts: a booking never waits where nobody    *)
(* looks, the lease and the order of the writes keep a booking from having *)
(* two events in Google Calendar, and 'synced' means what it says.         *)
(***************************************************************************)
EXTENDS CalendarSync, FiniteSetTheorems, TLAPS

-----------------------------------------------------------------------------
(* The inductive invariant.                                                *)

Pcs == {"idle", "fetch", "next", "skip", "call", "saveEvent", "save", "catch"}

Seen == [id : Booking, status : {"confirmed", "cancelled"}, time : Nat,
         attempts : 0..(MaxAttempts - 1), event : Event \cup {NoEvent}]

\* A snapshot is of a booking there is.
HeldExist ==
  \A i \in Instance : \A s \in worker[i].batch \cup worker[i].current : Exists(s.id)

QueueInv == HeldExist /\ SomebodyLooks

\* Only the holder of a live lease works.
LeaseHeld ==
  \A i \in Instance : Working(i) => lease.owner = i /\ lease.live

\* A batch has one snapshot of a booking, and the one at work is out of it.
OneSnapshot ==
  \A i \in Instance :
    /\ worker[i].pc \in {"idle", "fetch", "next"} => worker[i].current = {}
    /\ worker[i].pc \in {"idle", "fetch"} => worker[i].batch = {}
    /\ \A s, t \in worker[i].batch : s.id = t.id => s = t
    /\ \A s, t \in worker[i].current : s = t
    /\ \A s \in worker[i].batch, t \in worker[i].current : s.id # t.id

\* Nobody but the worker itself writes the event id, so its snapshot has it right.
EventsKnown ==
  \A i \in Instance :
    /\ \A s \in worker[i].batch : s.event = bookings[s.id].event
    /\ worker[i].pc \in {"call", "saveEvent"} =>
         \A s \in worker[i].current : s.event = bookings[s.id].event
    /\ worker[i].pc = "saveEvent" => \A s \in worker[i].current : s.event = NoEvent

\* Some worker is about to store event e in booking b.
Storing(e, b) ==
  \E i \in Instance :
    worker[i].pc = "saveEvent" /\ worker[i].event = e /\ \E s \in worker[i].current : s.id = b

\* Every event is stored in its booking, or about to be.
EventsStored ==
  \A e \in Event : InCalendar(e) =>
    /\ Exists(calendar[e].booking)
    /\ bookings[calendar[e].booking].event = e \/ Storing(e, calendar[e].booking)

QuietInv ==
  mishaps = 0 => LeaseHeld /\ OneSnapshot /\ EventsKnown /\ EventsStored

-----------------------------------------------------------------------------
(* What a step writes.                                                     *)

\* The step leaves instance i with these fields and the others alone.
At(i, pc, batch, current, event) ==
  /\ worker' \in [Instance -> WorkerState]
  /\ \A j \in Instance \ {i} : worker'[j] = worker[j]
  /\ worker'[i].pc = pc /\ worker'[i].batch = batch
  /\ worker'[i].current = current /\ worker'[i].event = event

\* The step leaves booking b with these fields and the others alone.
DocAt(b, sync, attempts, event) ==
  /\ bookings' \in [Booking -> Doc \cup {NoDoc}]
  /\ \A x \in Booking \ {b} : bookings'[x] = bookings[x]
  /\ bookings'[b] \in Doc
  /\ bookings'[b].sync = sync /\ bookings'[b].attempts = attempts
  /\ bookings'[b].event = event

\* The state of a worker, field by field.
LEMMA WorkerShape ==
  ASSUME NEW w
  PROVE  w \in WorkerState <=>
           w \in [pc : Pcs, batch : SUBSET Seen, current : SUBSET Seen,
                  event : Event \cup {NoEvent}]
BY DEF WorkerState, Seen, Pcs

\* One instance's state is replaced.
LEMMA WorkerReplaced ==
  ASSUME TypeOK, NEW i \in Instance, NEW w \in WorkerState,
         worker' = [worker EXCEPT ![i] = w]
  PROVE  At(i, w.pc, w.batch, w.current, w.event)
BY DEF TypeOK, At

\* The fields of a worker's state, and the states that differ in some of them.
LEMMA WorkerFacts ==
  ASSUME NEW w \in WorkerState, NEW pc \in Pcs, NEW B \in SUBSET Seen,
         NEW C \in SUBSET Seen, NEW e \in Event \cup {NoEvent}
  PROVE  /\ w.batch \in SUBSET Seen /\ w.current \in SUBSET Seen
         /\ w.pc \in Pcs /\ w.event \in Event \cup {NoEvent}
         /\ [w EXCEPT !.pc = pc] \in WorkerState
         /\ [w EXCEPT !.pc = pc, !.batch = B] \in WorkerState
         /\ [w EXCEPT !.batch = B, !.current = C, !.pc = pc] \in WorkerState
         /\ [w EXCEPT !.pc = pc, !.current = C, !.event = e] \in WorkerState
         /\ [w EXCEPT !.pc = pc, !.event = e] \in WorkerState
<1>1. w \in [pc : Pcs, batch : SUBSET Seen, current : SUBSET Seen,
             event : Event \cup {NoEvent}]
  BY WorkerShape
<1> QED BY <1>1, WorkerShape

\* A worker goes on, nothing else about it changes.
LEMMA GotoFacts ==
  ASSUME TypeOK, NEW i \in Instance, NEW pc \in Pcs, Goto(i, pc)
  PROVE  At(i, pc, worker[i].batch, worker[i].current, worker[i].event)
<1> DEFINE w == [worker[i] EXCEPT !.pc = pc]
<1>1. worker[i] \in WorkerState
  BY DEF TypeOK
<1>2. w \in WorkerState
  BY <1>1, WorkerFacts
<1>3. worker' = [worker EXCEPT ![i] = w]
  BY DEF Goto, TypeOK
<1>4. w.pc = pc /\ w.batch = worker[i].batch /\ w.current = worker[i].current
      /\ w.event = worker[i].event
  BY <1>1, WorkerShape
<1> HIDE DEF w
<1> QED BY <1>2, <1>3, <1>4, WorkerReplaced

\* A worker is done with its booking.
LEMMA DoneFacts ==
  ASSUME TypeOK, NEW i \in Instance, Done(i)
  PROVE  At(i, "next", worker[i].batch, {}, NoEvent)
<1> DEFINE w == [worker[i] EXCEPT !.pc = "next", !.current = {}, !.event = NoEvent]
<1>1. worker[i] \in WorkerState
  BY DEF TypeOK
<1>2. w \in WorkerState
  BY <1>1, WorkerFacts, "next" \in Pcs DEF Pcs
<1>3. worker' = [worker EXCEPT ![i] = w]
  BY DEF Done, TypeOK
<1>4. w.pc = "next" /\ w.batch = worker[i].batch /\ w.current = {} /\ w.event = NoEvent
  BY <1>1, WorkerShape
<1> HIDE DEF w
<1> QED BY <1>2, <1>3, <1>4, WorkerReplaced

\* A worker at rest, and one that starts a batch.
LEMMA RestFacts ==
  ASSUME TypeOK, NEW i \in Instance, NEW pc \in Pcs,
         worker' = [worker EXCEPT ![i] = [Resting EXCEPT !.pc = pc]]
  PROVE  At(i, pc, {}, {}, NoEvent)
<1> DEFINE w == [Resting EXCEPT !.pc = pc]
<1>2. w \in WorkerState
  BY WorkerShape DEF Resting
<1>4. w.pc = pc /\ w.batch = {} /\ w.current = {} /\ w.event = NoEvent
  BY DEF Resting
<1>3. worker' = [worker EXCEPT ![i] = w]
  OBVIOUS
<1> HIDE DEF w
<1> QED BY <1>2, <1>3, <1>4, WorkerReplaced

\* The fields a document's edits write, and what they leave alone.
LEMMA DocFacts ==
  ASSUME NEW d \in Doc, NEW t \in Nat, NEW n \in Nat, NEW e \in Event \cup {NoEvent},
         NEW y \in {"pending", "synced", "failed", "skipped"}
  PROVE  /\ d.attempts \in Nat /\ d.event \in Event \cup {NoEvent}
         /\ d.sync \in {"pending", "synced", "failed", "skipped"}
         /\ [Requeued(d) EXCEPT !.time = t] \in Doc
         /\ [Requeued(d) EXCEPT !.due = TRUE] \in Doc
         /\ Cancelled(d) \in Doc
         /\ [d EXCEPT !.due = TRUE] \in Doc
         /\ [d EXCEPT !.sync = y] \in Doc
         /\ [d EXCEPT !.sync = y, !.attempts = n, !.due = FALSE] \in Doc
         /\ [d EXCEPT !.event = e] \in Doc
BY DEF Doc, Requeued, Cancelled

\* One document is replaced.
LEMMA DocReplaced ==
  ASSUME TypeOK, NEW b \in Booking, NEW d \in Doc, bookings' = [bookings EXCEPT ![b] = d]
  PROVE  DocAt(b, d.sync, d.attempts, d.event)
BY DEF TypeOK, DocAt

-----------------------------------------------------------------------------
(* The steps.                                                              *)

LooksOk(sync, attempts) ==
  /\ sync = "pending" => attempts < MaxAttempts
  /\ sync = "failed" => attempts = MaxAttempts

\* The parts of the state that are neither documents nor workers.
Rest ==
  /\ calendar \in [Event -> Entry \cup {Unused, Deleted}]
  /\ connected \in BOOLEAN
  /\ lease \in [owner : Instance \cup {Nobody, Dead}, live : BOOLEAN]
  /\ edits \in Nat /\ mishaps \in Nat /\ disturbed \subseteq Booking

\* An edit outside the worker leaves the event id alone and a queued booking with
\* all its attempts.
LEMMA EditFacts ==
  ASSUME TypeOK, QueueInv, NEW b \in Booking, Edit(b) \/ BackoffEnds(b)
  PROVE  /\ UNCHANGED <<calendar, lease, worker, mishaps>> /\ Rest'
         /\ \E y, n, e : /\ DocAt(b, y, n, e) /\ LooksOk(y, n)
                         /\ e = IF Exists(b) THEN bookings[b].event ELSE NoEvent
<1>1. bookings[b] \in Doc \cup {NoDoc} /\ Rest
  BY DEF TypeOK, Rest
<1>2. ASSUME NEW isTest \in BOOLEAN, Create(b, isTest)
      PROVE  /\ UNCHANGED <<calendar, lease, worker, mishaps>> /\ Rest'
             /\ \E y, n, e : /\ DocAt(b, y, n, e) /\ LooksOk(y, n)
                             /\ e = IF Exists(b) THEN bookings[b].event ELSE NoEvent
  <2> DEFINE y == IF isTest THEN "skipped" ELSE "pending"
             d == [status |-> "confirmed", test |-> isTest, time |-> 0,
                   sync |-> y, attempts |-> 0, due |-> TRUE, event |-> NoEvent]
  <2>1. d \in Doc
    BY DEF Doc
  <2>2. bookings' = [bookings EXCEPT ![b] = d]
    BY <1>2 DEF Create
  <2>3. d.sync = y /\ d.attempts = 0 /\ d.event = NoEvent
    OBVIOUS
  <2>4. LooksOk(y, 0)
    BY AttemptsArePositive DEF LooksOk
  <2> HIDE DEF d, y
  <2>5. DocAt(b, y, 0, NoEvent)
    BY <2>1, <2>2, <2>3, DocReplaced
  <2> QED BY <1>1, <1>2, <2>4, <2>5 DEF Create, Rest
<1>3. ASSUME Move(b) \/ Cancel(b) \/ Retry(b) \/ BackoffEnds(b)
      PROVE  /\ UNCHANGED <<calendar, lease, worker, mishaps>> /\ Rest'
             /\ \E y, n, e : /\ DocAt(b, y, n, e) /\ LooksOk(y, n)
                             /\ e = IF Exists(b) THEN bookings[b].event ELSE NoEvent
  <2>1. Exists(b) /\ bookings[b] \in Doc
    BY <1>1, <1>3 DEF Move, Cancel, Retry, BackoffEnds, Exists
  <2>2. edits + 1 \in Nat
    BY <1>1 DEF Rest
  <2>3. PICK d \in Doc : /\ bookings' = [bookings EXCEPT ![b] = d]
                         /\ d.event = bookings[b].event
                         /\ \/ d.sync = "pending" /\ d.attempts = 0
                            \/ d.sync = bookings[b].sync /\ d.attempts = bookings[b].attempts
    <3>1. CASE Move(b)
      <4> DEFINE d == [Requeued(bookings[b]) EXCEPT !.time = edits + 1]
      <4>1. d \in Doc
        BY <2>1, <2>2, DocFacts
      <4>2. d.event = bookings[b].event /\ d.sync = "pending" /\ d.attempts = 0
        BY <2>1 DEF Requeued, Doc
      <4>3. bookings' = [bookings EXCEPT ![b] = d]
        BY <3>1 DEF Move, TypeOK
      <4> HIDE DEF d
      <4> QED BY <4>1, <4>2, <4>3
    <3>2. CASE Cancel(b)
      <4> DEFINE d == Cancelled(bookings[b])
      <4>1. d \in Doc
        BY <2>1, DocFacts
      <4>2. d.event = bookings[b].event /\ d.sync = "pending" /\ d.attempts = 0
        BY <2>1 DEF Requeued, Cancelled, Doc
      <4>3. bookings' = [bookings EXCEPT ![b] = d]
        BY <3>2 DEF Cancel, TypeOK
      <4> HIDE DEF d
      <4> QED BY <4>1, <4>2, <4>3
    <3>3. CASE Retry(b)
      <4> DEFINE d == [Requeued(bookings[b]) EXCEPT !.due = TRUE]
      <4>1. d \in Doc
        BY <2>1, DocFacts
      <4>2. d.event = bookings[b].event /\ d.sync = "pending" /\ d.attempts = 0
        BY <2>1 DEF Requeued, Doc
      <4>3. bookings' = [bookings EXCEPT ![b] = d]
        BY <3>3 DEF Retry, TypeOK
      <4> HIDE DEF d
      <4> QED BY <4>1, <4>2, <4>3
    <3>4. CASE BackoffEnds(b)
      <4> DEFINE d == [bookings[b] EXCEPT !.due = TRUE]
      <4>1. d \in Doc
        BY <2>1, DocFacts
      <4>2. d.event = bookings[b].event /\ d.sync = bookings[b].sync
            /\ d.attempts = bookings[b].attempts
        BY <2>1 DEF Doc
      <4>3. bookings' = [bookings EXCEPT ![b] = d]
        BY <3>4 DEF BackoffEnds, TypeOK
      <4> HIDE DEF d
      <4> QED BY <4>1, <4>2, <4>3
    <3> QED BY <1>3, <3>1, <3>2, <3>3, <3>4
  <2>4. DocAt(b, d.sync, d.attempts, d.event)
    BY <2>3, DocReplaced
  <2>5. LooksOk(d.sync, d.attempts)
    BY <2>1, <2>3, AttemptsArePositive DEF QueueInv, SomebodyLooks, LooksOk
  <2>6. UNCHANGED <<calendar, connected, lease, worker, mishaps>> /\ edits' \in Nat
    BY <1>1, <1>3, <2>2 DEF Move, Cancel, Retry, BackoffEnds, Rest
  <2>7. disturbed' \subseteq Booking
    BY <1>1, <1>3 DEF Move, Cancel, Retry, BackoffEnds, Edited, Rest
  <2>8. Rest'
    BY <1>1, <2>6, <2>7 DEF Rest
  <2> QED BY <2>1, <2>3, <2>4, <2>5, <2>6, <2>8
<1> QED BY <1>2, <1>3 DEF Edit

\* A snapshot is of a document there is, with attempts left.
LEMMA HeldFacts ==
  ASSUME TypeOK, QueueInv, NEW i \in Instance, NEW s \in worker[i].batch \cup worker[i].current
  PROVE  /\ s \in Seen /\ s.id \in Booking /\ s.attempts + 1 \in Nat
         /\ s.attempts + 1 <= MaxAttempts /\ s.event \in Event \cup {NoEvent}
         /\ bookings[s.id] \in Doc
<1>1. worker[i].batch \in SUBSET Seen /\ worker[i].current \in SUBSET Seen
  BY WorkerShape DEF TypeOK
<1>2. Exists(s.id)
  BY DEF QueueInv, HeldExist
<1> QED BY <1>1, <1>2, AttemptsArePositive DEF Seen, TypeOK, Exists

\* The results that are written to the document: the event id, or an outcome.
LEMMA ResultFacts ==
  ASSUME TypeOK, QueueInv, NEW i \in Instance, NEW s \in worker[i].current
  PROVE  /\ Skip(i, s) \/ Save(i, s) \/ Catch(i, s) =>
              /\ At(i, "next", worker[i].batch, {}, NoEvent) /\ Rest'
              /\ UNCHANGED <<calendar, lease, mishaps>>
              /\ \E y, n : DocAt(s.id, y, n, bookings[s.id].event) /\ LooksOk(y, n)
         /\ SaveEvent(i, s) =>
              /\ At(i, "save", worker[i].batch, worker[i].current, worker[i].event) /\ Rest'
              /\ UNCHANGED <<calendar, lease, mishaps>>
              /\ \E y, n : DocAt(s.id, y, n, worker[i].event) /\ LooksOk(y, n)
<1> DEFINE b == s.id
<1>1. b \in Booking /\ bookings[b] \in Doc /\ Rest
  BY HeldFacts DEF TypeOK, Rest
<1>2. s.attempts + 1 \in Nat /\ s.attempts + 1 <= MaxAttempts
  BY HeldFacts
<1>3. ASSUME NEW y \in {"skipped", "synced"}, bookings' = [bookings EXCEPT ![b].sync = y]
      PROVE  \E z, n : DocAt(b, z, n, bookings[b].event) /\ LooksOk(z, n)
  <2> DEFINE d == [bookings[b] EXCEPT !.sync = y]
  <2>1. d \in Doc
    BY <1>1, DocFacts
  <2>2. d.event = bookings[b].event /\ d.sync = y
    BY <1>1 DEF Doc
  <2>3. bookings' = [bookings EXCEPT ![b] = d]
    BY <1>1, <1>3 DEF TypeOK
  <2> HIDE DEF d, b
  <2>4. DocAt(b, d.sync, d.attempts, d.event)
    BY <1>1, <2>1, <2>3, DocReplaced
  <2> QED BY <2>2, <2>4 DEF LooksOk
<1>4. ASSUME Catch(i, s)
      PROVE  \E y, n : DocAt(b, y, n, bookings[b].event) /\ LooksOk(y, n)
  <2> DEFINE n == s.attempts + 1
             y == IF n >= MaxAttempts THEN "failed" ELSE "pending"
             d == [bookings[b] EXCEPT !.sync = y, !.attempts = n, !.due = FALSE]
  <2>1. d \in Doc
    BY <1>1, <1>2, DocFacts
  <2>2. d.event = bookings[b].event /\ d.sync = y /\ d.attempts = n
    BY <1>1 DEF Doc
  <2>3. bookings' = [bookings EXCEPT ![b] = d]
    BY <1>1, <1>4 DEF TypeOK, Catch
  <2>4. LooksOk(y, n)
    BY <1>2, AttemptsArePositive DEF LooksOk
  <2> HIDE DEF d, b, y, n
  <2>5. DocAt(b, d.sync, d.attempts, d.event)
    BY <1>1, <2>1, <2>3, DocReplaced
  <2> QED BY <2>2, <2>4, <2>5
<1>5. ASSUME SaveEvent(i, s)
      PROVE  \E y, n : DocAt(b, y, n, worker[i].event) /\ LooksOk(y, n)
  <2> DEFINE e == worker[i].event
             d == [bookings[b] EXCEPT !.event = e]
  <2>1. e \in Event \cup {NoEvent}
    BY WorkerShape DEF TypeOK
  <2>2. d \in Doc
    BY <1>1, <2>1, DocFacts
  <2>3. d.event = e /\ d.sync = bookings[b].sync /\ d.attempts = bookings[b].attempts
    BY <1>1 DEF Doc
  <2>4. bookings' = [bookings EXCEPT ![b] = d]
    BY <1>1, <1>5 DEF TypeOK, SaveEvent, WithEvent
  <2>5. LooksOk(bookings[b].sync, bookings[b].attempts)
    BY <1>1, HeldFacts DEF QueueInv, SomebodyLooks, LooksOk, HeldExist
  <2> HIDE DEF d, b
  <2>6. DocAt(b, d.sync, d.attempts, d.event)
    BY <1>1, <2>2, <2>4, DocReplaced
  <2> QED BY <2>3, <2>5, <2>6
<1>6. Skip(i, s) \/ Save(i, s) => \E y, n : DocAt(b, y, n, bookings[b].event) /\ LooksOk(y, n)
  BY <1>3 DEF Skip, Save
<1>7. Skip(i, s) \/ Save(i, s) \/ Catch(i, s) =>
        /\ At(i, "next", worker[i].batch, {}, NoEvent)
        /\ UNCHANGED <<calendar, connected, lease, edits, mishaps, disturbed>>
  BY DoneFacts DEF Skip, Save, Catch
<1>8. SaveEvent(i, s) =>
        /\ At(i, "save", worker[i].batch, worker[i].current, worker[i].event)
        /\ UNCHANGED <<calendar, connected, lease, edits, mishaps, disturbed>>
  BY GotoFacts, "save" \in Pcs DEF SaveEvent, Pcs
<1>9. UNCHANGED <<calendar, connected, lease, edits, mishaps, disturbed>> => Rest'
  BY <1>1 DEF Rest
<1> QED BY <1>4, <1>5, <1>6, <1>7, <1>8, <1>9

\* Asking Google: the event of the snapshot is removed, given the times of the
\* snapshot, or made; and an answer takes the worker to a save or, lost, to the
\* catch block.
LEMMA CallFacts ==
  ASSUME TypeOK, QueueInv, NEW i \in Instance, NEW s \in worker[i].current
  PROVE  /\ NothingToDelete(i, s) \/ Delete(i, s) \/ Patch(i, s) \/ Refused(i, s) =>
              /\ UNCHANGED <<bookings, lease>> /\ Rest' /\ mishaps' >= mishaps
              /\ \E pc \in {"save", "catch"} :
                   At(i, pc, worker[i].batch, worker[i].current, worker[i].event)
              /\ \A e \in Event : InCalendar(e)' =>
                   InCalendar(e) /\ calendar'[e].booking = calendar[e].booking
         /\ \A e \in Event : Insert(i, s, e) =>
              /\ UNCHANGED <<bookings, lease>> /\ Rest' /\ mishaps' >= mishaps
              /\ \/ At(i, "saveEvent", worker[i].batch, worker[i].current, e)
                 \/ /\ At(i, "catch", worker[i].batch, worker[i].current, worker[i].event)
                    /\ mishaps' > mishaps
              /\ calendar'[e].booking = s.id
              /\ \A f \in Event \ {e} : calendar'[f] = calendar[f]
<1>1. Rest /\ s.id \in Booking /\ s.time \in Nat /\ s.event \in Event \cup {NoEvent}
  BY HeldFacts DEF TypeOK, Rest, Seen
<1>2. \A pc \in {"save", "catch", "saveEvent"} : pc \in Pcs
  BY DEF Pcs
<1>3. ASSUME NEW pc \in {"save", "saveEvent"}, Answered(i, pc)
      PROVE  /\ mishaps' \in Nat /\ mishaps' >= mishaps
             /\ \/ At(i, pc, worker[i].batch, worker[i].current, worker[i].event)
                \/ At(i, "catch", worker[i].batch, worker[i].current, worker[i].event)
  BY <1>1, <1>2, <1>3, GotoFacts DEF Answered, Rest
<1>4. ASSUME NothingToDelete(i, s) \/ Refused(i, s)
      PROVE  /\ UNCHANGED <<bookings, lease>> /\ Rest' /\ mishaps' >= mishaps
             /\ \E pc \in {"save", "catch"} :
                  At(i, pc, worker[i].batch, worker[i].current, worker[i].event)
             /\ \A e \in Event : InCalendar(e)' =>
                  InCalendar(e) /\ calendar'[e].booking = calendar[e].booking
  <2>1. UNCHANGED <<bookings, calendar, connected, lease, edits, mishaps, disturbed>>
    BY <1>4 DEF NothingToDelete, Refused
  <2>2. \E pc \in {"save", "catch"} : Goto(i, pc)
    BY <1>4 DEF NothingToDelete, Refused
  <2>3. Rest' /\ mishaps' >= mishaps
    BY <1>1, <2>1 DEF Rest
  <2> QED BY <1>2, <2>1, <2>2, <2>3, GotoFacts DEF InCalendar
<1>5. ASSUME Delete(i, s)
      PROVE  /\ UNCHANGED <<bookings, lease>> /\ Rest' /\ mishaps' >= mishaps
             /\ \E pc \in {"save", "catch"} :
                  At(i, pc, worker[i].batch, worker[i].current, worker[i].event)
             /\ \A e \in Event : InCalendar(e)' =>
                  InCalendar(e) /\ calendar'[e].booking = calendar[e].booking
  <2>1. /\ calendar' = [calendar EXCEPT ![s.event] = Deleted] /\ s.event \in Event
        /\ UNCHANGED <<bookings, connected, lease, edits, disturbed>> /\ Answered(i, "save")
    BY <1>1, <1>5 DEF Delete
  <2>2. Rest'
    BY <1>1, <1>3, <2>1 DEF Rest
  <2> QED BY <1>1, <1>3, <2>1, <2>2 DEF InCalendar, Rest
<1>6. ASSUME Patch(i, s)
      PROVE  /\ UNCHANGED <<bookings, lease>> /\ Rest' /\ mishaps' >= mishaps
             /\ \E pc \in {"save", "catch"} :
                  At(i, pc, worker[i].batch, worker[i].current, worker[i].event)
             /\ \A e \in Event : InCalendar(e)' =>
                  InCalendar(e) /\ calendar'[e].booking = calendar[e].booking
  <2>1. /\ calendar' = [calendar EXCEPT ![s.event].time = s.time] /\ s.event \in Event
        /\ InCalendar(s.event) /\ Answered(i, "save")
        /\ UNCHANGED <<bookings, connected, lease, edits, disturbed>>
    BY <1>1, <1>6 DEF Patch
  <2>2. calendar[s.event] \in Entry
    BY <1>1, <2>1 DEF InCalendar, Rest
  <2> DEFINE x == [calendar[s.event] EXCEPT !.time = s.time]
  <2>3. x \in Entry /\ x.booking = calendar[s.event].booking
    BY <1>1, <2>2 DEF Entry
  <2>4. calendar' = [calendar EXCEPT ![s.event] = x]
    BY <1>1, <2>1 DEF Rest
  <2> HIDE DEF x
  <2>5. Rest'
    BY <1>1, <1>3, <2>1, <2>3, <2>4 DEF Rest
  <2> QED BY <1>1, <1>3, <2>1, <2>3, <2>4, <2>5 DEF InCalendar, Rest
<1>7. ASSUME NEW e \in Event, Insert(i, s, e)
      PROVE  /\ UNCHANGED <<bookings, lease>> /\ Rest' /\ mishaps' >= mishaps
             /\ \/ At(i, "saveEvent", worker[i].batch, worker[i].current, e)
                \/ /\ At(i, "catch", worker[i].batch, worker[i].current, worker[i].event)
                   /\ mishaps' > mishaps
             /\ calendar'[e].booking = s.id
             /\ \A f \in Event \ {e} : calendar'[f] = calendar[f]
  <2> DEFINE x == [booking |-> s.id, time |-> s.time]
  <2>1. x \in Entry /\ x.booking = s.id
    BY <1>1 DEF Entry
  <2>2. /\ calendar' = [calendar EXCEPT ![e] = x]
        /\ UNCHANGED <<bookings, connected, lease, edits, disturbed>>
    BY <1>7 DEF Insert
  <2>3. CASE /\ worker' = [worker EXCEPT ![i].pc = "saveEvent", ![i].event = e]
             /\ UNCHANGED mishaps
    <3> DEFINE w == [worker[i] EXCEPT !.pc = "saveEvent", !.event = e]
    <3>1. worker[i] \in WorkerState
      BY DEF TypeOK
    <3>2. w \in WorkerState
      BY <1>2, <3>1, WorkerFacts
    <3>3. worker' = [worker EXCEPT ![i] = w]
      BY <2>3 DEF TypeOK
    <3>4. w.pc = "saveEvent" /\ w.batch = worker[i].batch /\ w.current = worker[i].current
          /\ w.event = e
      BY <3>1, WorkerShape
    <3> HIDE DEF w, x
    <3>5. At(i, "saveEvent", worker[i].batch, worker[i].current, e)
      BY <3>2, <3>3, <3>4, WorkerReplaced
    <3>6. Rest' /\ mishaps' >= mishaps
      BY <1>1, <2>1, <2>2, <2>3 DEF Rest
    <3> QED BY <1>1, <2>1, <2>2, <3>5, <3>6 DEF Rest
  <2>4. CASE Goto(i, "catch") /\ mishaps < MaxMishaps /\ mishaps' = mishaps + 1
    <3>1. At(i, "catch", worker[i].batch, worker[i].current, worker[i].event)
      BY <1>2, <2>4, GotoFacts
    <3> HIDE DEF x
    <3>2. Rest' /\ mishaps' > mishaps
      BY <1>1, <2>1, <2>2, <2>4 DEF Rest
    <3> QED BY <1>1, <2>1, <2>2, <3>1, <3>2 DEF Rest
  <2> QED BY <1>7, <2>3, <2>4 DEF Insert
<1> QED BY <1>4, <1>5, <1>6, <1>7

\* Moving through the batch: what the worker holds is a snapshot it held, or one it
\* has just read; and it comes from and to these places.
LEMMA BatchFacts ==
  ASSUME TypeOK, QueueInv, NEW i \in Instance
  PROVE  /\ Tick(i) =>
              /\ ~Working(i) /\ Claimable(i) /\ At(i, "fetch", {}, {}, NoEvent) /\ Rest'
              /\ lease'.owner = i /\ lease'.live
              /\ UNCHANGED <<bookings, calendar, mishaps>>
         /\ Fetch(i) =>
              /\ worker[i].pc = "fetch" /\ Rest'
              /\ At(i, "next", {Snapshot(b) : b \in {x \in Booking : Queued(x)}},
                    worker[i].current, worker[i].event)
              /\ UNCHANGED <<bookings, calendar, lease, mishaps>>
         /\ \A s \in worker[i].batch : Begin(i, s) =>
              /\ worker[i].pc = "next" /\ Rest'
              /\ \E pc \in {"call", "skip"} :
                   At(i, pc, worker[i].batch \ {s}, {s}, worker[i].event)
              /\ UNCHANGED <<bookings, calendar, lease, mishaps>>
         /\ Finish(i) =>
              /\ At(i, "idle", {}, {}, NoEvent) /\ Rest'
              /\ UNCHANGED <<bookings, calendar, lease, mishaps>>
         /\ Crash(i) =>
              /\ At(i, "idle", {}, {}, NoEvent) /\ Rest' /\ mishaps' > mishaps
              /\ UNCHANGED <<bookings, calendar>>
<1>1. /\ worker[i] \in WorkerState /\ Rest
      /\ worker[i].batch \in SUBSET Seen /\ worker[i].current \in SUBSET Seen
      /\ worker[i].event \in Event \cup {NoEvent}
  BY WorkerShape DEF TypeOK, Rest
<1>2. /\ "idle" \in Pcs /\ "fetch" \in Pcs /\ "next" \in Pcs /\ "call" \in Pcs
      /\ "skip" \in Pcs
  BY DEF Pcs
<1>3. ASSUME Tick(i)
      PROVE  /\ ~Working(i) /\ Claimable(i) /\ At(i, "fetch", {}, {}, NoEvent) /\ Rest'
             /\ lease'.owner = i /\ lease'.live
             /\ UNCHANGED <<bookings, calendar, mishaps>>
  BY <1>1, <1>2, <1>3, RestFacts DEF Tick, Working, Rest
<1>4. ASSUME Fetch(i)
      PROVE  /\ worker[i].pc = "fetch" /\ Rest'
             /\ At(i, "next", {Snapshot(b) : b \in {x \in Booking : Queued(x)}},
                   worker[i].current, worker[i].event)
             /\ UNCHANGED <<bookings, calendar, lease, mishaps>>
  <2> DEFINE B == {Snapshot(b) : b \in {x \in Booking : Queued(x)}}
             w == [worker[i] EXCEPT !.pc = "next", !.batch = B]
  <2>1. ASSUME NEW b \in Booking, Queued(b)
        PROVE  Snapshot(b) \in Seen
    <3>1. bookings[b] \in Doc
      BY <2>1 DEF TypeOK, Queued, Exists
    <3> QED BY <2>1, <3>1, AttemptsArePositive DEF Queued, Snapshot, Seen, Doc
  <2>2. B \in SUBSET Seen
    BY <2>1
  <2>3. worker' = [worker EXCEPT ![i] = w]
    BY <1>1, <1>4 DEF Fetch, TypeOK
  <2> HIDE DEF B
  <2>4. w \in WorkerState
    BY <1>1, <1>2, <2>2, WorkerFacts
  <2>5. w.pc = "next" /\ w.batch = B /\ w.current = worker[i].current
        /\ w.event = worker[i].event
    BY <1>1, WorkerShape
  <2> HIDE DEF w
  <2>6. At(i, "next", B, worker[i].current, worker[i].event)
    BY <2>3, <2>4, <2>5, WorkerReplaced
  <2> QED BY <1>1, <1>4, <2>6 DEF Fetch, Rest, B
<1>5. ASSUME NEW s \in worker[i].batch, Begin(i, s)
      PROVE  /\ worker[i].pc = "next" /\ Rest'
             /\ \E pc \in {"call", "skip"} :
                  At(i, pc, worker[i].batch \ {s}, {s}, worker[i].event)
             /\ UNCHANGED <<bookings, calendar, lease, mishaps>>
  <2> DEFINE pc == IF connected THEN "call" ELSE "skip"
             B == worker[i].batch \ {s}
             w == [worker[i] EXCEPT !.batch = B, !.current = {s}, !.pc = pc]
  <2>1. worker' = [worker EXCEPT ![i] = w]
    BY <1>1, <1>5 DEF Begin, TypeOK
  <2>2. pc \in Pcs /\ B \in SUBSET Seen /\ {s} \in SUBSET Seen /\ pc \in {"call", "skip"}
    BY <1>1, <1>2
  <2> HIDE DEF pc, B
  <2>3. w \in WorkerState
    BY <1>1, <2>2, WorkerFacts
  <2>4. w.pc = pc /\ w.batch = B /\ w.current = {s} /\ w.event = worker[i].event
    BY <1>1, WorkerShape
  <2> HIDE DEF w
  <2>5. At(i, pc, B, {s}, worker[i].event)
    BY <2>1, <2>3, <2>4, WorkerReplaced
  <2>6. At(i, pc, worker[i].batch \ {s}, {s}, worker[i].event)
    BY <2>5 DEF B
  <2> QED BY <1>1, <1>5, <2>2, <2>6 DEF Begin, Rest
<1>6. ASSUME Finish(i)
      PROVE  /\ At(i, "idle", {}, {}, NoEvent) /\ Rest'
             /\ UNCHANGED <<bookings, calendar, lease, mishaps>>
  <2>1. worker' = [worker EXCEPT ![i] = [Resting EXCEPT !.pc = "idle"]]
    BY <1>6 DEF Finish, Resting
  <2> QED BY <1>1, <1>2, <1>6, <2>1, RestFacts DEF Finish, Rest
<1>7. ASSUME Crash(i)
      PROVE  /\ At(i, "idle", {}, {}, NoEvent) /\ Rest' /\ mishaps' > mishaps
             /\ UNCHANGED <<bookings, calendar>>
  <2>1. worker' = [worker EXCEPT ![i] = [Resting EXCEPT !.pc = "idle"]]
    BY <1>7 DEF Crash, Resting
  <2>2. /\ UNCHANGED <<bookings, calendar, connected, edits, disturbed>>
        /\ mishaps' = mishaps + 1
        /\ lease' = IF lease.owner = i THEN [lease EXCEPT !.owner = Dead] ELSE lease
    BY <1>7 DEF Crash
  <2>3. lease' \in [owner : Instance \cup {Nobody, Dead}, live : BOOLEAN]
    <3>1. \A l \in [owner : Instance \cup {Nobody, Dead}, live : BOOLEAN] :
            [l EXCEPT !.owner = Dead] \in [owner : Instance \cup {Nobody, Dead}, live : BOOLEAN]
      OBVIOUS
    <3> QED BY <1>1, <2>2, <3>1 DEF Rest
  <2>4. Rest' /\ mishaps' > mishaps
    BY <1>1, <2>2, <2>3 DEF Rest
  <2> QED BY <1>2, <2>1, <2>2, <2>4, RestFacts
<1> QED BY <1>3, <1>4, <1>5, <1>6, <1>7

-----------------------------------------------------------------------------
(* Types and the queue.                                                    *)

\* A step that writes at most one document, with its attempts in order, and leaves
\* the workers with snapshots of documents there are.
LEMMA StepKeeps ==
  ASSUME TypeOK, QueueInv, Rest', worker' \in [Instance -> WorkerState],
         \/ UNCHANGED bookings
         \/ \E b \in Booking : \E y, n, e : DocAt(b, y, n, e) /\ LooksOk(y, n),
         \A i \in Instance : \A s \in worker'[i].batch \cup worker'[i].current :
           s.id \in Booking /\ Exists(s.id)
  PROVE  TypeOK' /\ QueueInv'
<1>1. CASE UNCHANGED bookings
  BY <1>1 DEF TypeOK, Rest, QueueInv, HeldExist, SomebodyLooks, Exists
<1>2. CASE \E b \in Booking : \E y, n, e : DocAt(b, y, n, e) /\ LooksOk(y, n)
  <2>1. PICK b \in Booking : \E y, n, e : DocAt(b, y, n, e) /\ LooksOk(y, n)
    BY <1>2
  <2>2. /\ bookings' \in [Booking -> Doc \cup {NoDoc}]
        /\ \A x \in Booking \ {b} : bookings'[x] = bookings[x]
        /\ bookings'[b] \in Doc
        /\ LooksOk(bookings'[b].sync, bookings'[b].attempts)
    BY <2>1 DEF DocAt
  <2>3. \A x \in Booking : Exists(x) => Exists(x)'
    BY <2>2, NullIsNoDoc DEF Exists
  <2>4. HeldExist'
    BY <2>3 DEF HeldExist
  <2>5. SomebodyLooks'
    BY <2>2 DEF QueueInv, SomebodyLooks, LooksOk, Exists
  <2> QED BY <2>2, <2>4, <2>5 DEF TypeOK, Rest, QueueInv
<1> QED BY <1>1, <1>2

\* The snapshots the workers hold are of documents there are.
LEMMA AllHeldExist ==
  ASSUME TypeOK, QueueInv, NEW i \in Instance, NEW s \in worker[i].batch \cup worker[i].current
  PROVE  s.id \in Booking /\ Exists(s.id)
BY HeldFacts DEF QueueInv, HeldExist

HeldAfter ==
  /\ worker' \in [Instance -> WorkerState]
  /\ \A i \in Instance : \A s \in worker'[i].batch \cup worker'[i].current :
       s.id \in Booking /\ Exists(s.id)

\* A worker that goes on with snapshots it had, or new ones of existing documents.
LEMMA MovedOn ==
  ASSUME TypeOK, QueueInv, NEW i \in Instance, NEW p, NEW B, NEW C, NEW e, At(i, p, B, C, e),
         \A s \in B \cup C : \/ s \in worker[i].batch \cup worker[i].current
                             \/ s.id \in Booking /\ Exists(s.id)
  PROVE  HeldAfter
BY AllHeldExist DEF At, HeldAfter

\* Every step keeps the types and the queue in order.
LEMMA NextKeepsQueue == TypeOK /\ QueueInv /\ [Next]_vars => TypeOK' /\ QueueInv'
<1> SUFFICES ASSUME TypeOK, QueueInv, [Next]_vars PROVE TypeOK' /\ QueueInv'
  OBVIOUS
<1>1. /\ Rest /\ worker \in [Instance -> WorkerState]
      /\ \A i \in Instance : \A s \in worker[i].batch \cup worker[i].current :
           s.id \in Booking /\ Exists(s.id)
  BY AllHeldExist DEF TypeOK, Rest
<1>2. ASSUME NEW b \in Booking, Edit(b) \/ BackoffEnds(b) PROVE TypeOK' /\ QueueInv'
  BY <1>1, <1>2, EditFacts, StepKeeps
<1>3. ASSUME Connect \/ LeaseExpires \/ UNCHANGED vars PROVE TypeOK' /\ QueueInv'
  <2>1. Rest' /\ UNCHANGED <<bookings, worker>>
    <3>1. CASE Connect
      BY <1>1, <3>1 DEF Connect, Rest
    <3>2. CASE LeaseExpires
      <4>1. [lease EXCEPT !.live = FALSE]
              \in [owner : Instance \cup {Nobody, Dead}, live : BOOLEAN]
        BY <1>1 DEF Rest
      <4>2. mishaps' \in Nat
        BY <1>1, <3>2 DEF LeaseExpires, Rest
      <4> QED BY <1>1, <3>2, <4>1, <4>2 DEF LeaseExpires, Rest
    <3>3. CASE UNCHANGED vars
      BY <1>1, <3>3 DEF vars, Rest
    <3> QED BY <1>3, <3>1, <3>2, <3>3
  <2> QED BY <1>1, <2>1, StepKeeps
<1>4. ASSUME NEW i \in Instance, Work(i) \/ Crash(i) PROVE TypeOK' /\ QueueInv'
  <2>2. CASE Tick(i) \/ Finish(i) \/ Crash(i)
    <3>1. (\E p : At(i, p, {}, {}, NoEvent)) /\ Rest' /\ UNCHANGED bookings
      BY <2>2, BatchFacts
    <3>2. PICK p : At(i, p, {}, {}, NoEvent)
      BY <3>1
    <3>3. HeldAfter
      BY <1>1, MovedOn, <3>2
    <3> QED BY <3>1, <3>3, StepKeeps DEF HeldAfter
  <2>3. CASE Fetch(i)
    <3> DEFINE B == {Snapshot(b) : b \in {x \in Booking : Queued(x)}}
    <3>1. \A s \in B : s.id \in Booking /\ Exists(s.id)
      BY DEF Snapshot, Queued
    <3>2. At(i, "next", B, worker[i].current, worker[i].event) /\ Rest' /\ UNCHANGED bookings
      BY <2>3, BatchFacts
    <3> HIDE DEF B
    <3>3. HeldAfter
      BY <1>1, MovedOn, <3>1, <3>2
    <3> QED BY <3>2, <3>3, StepKeeps DEF HeldAfter
  <2>4. ASSUME NEW s \in worker[i].batch, Begin(i, s) PROVE TypeOK' /\ QueueInv'
    <3>1. /\ \E p : At(i, p, worker[i].batch \ {s}, {s}, worker[i].event)
          /\ Rest' /\ UNCHANGED bookings
      BY <2>4, BatchFacts
    <3>2. PICK p : At(i, p, worker[i].batch \ {s}, {s}, worker[i].event)
      BY <3>1
    <3>3. HeldAfter
      BY <1>1, MovedOn, <3>2
    <3> QED BY <3>1, <3>3, StepKeeps DEF HeldAfter
  <2>5. ASSUME NEW s \in worker[i].current,
               Skip(i, s) \/ Save(i, s) \/ Catch(i, s) \/ SaveEvent(i, s)
        PROVE  TypeOK' /\ QueueInv'
    <3>1. /\ Rest' /\ \E y, n, e : DocAt(s.id, y, n, e) /\ LooksOk(y, n)
          /\ \/ At(i, "next", worker[i].batch, {}, NoEvent)
             \/ At(i, "save", worker[i].batch, worker[i].current, worker[i].event)
      BY <2>5, ResultFacts
    <3>2. HeldAfter
      <4>1. CASE At(i, "next", worker[i].batch, {}, NoEvent)
        BY <1>1, MovedOn, <4>1
      <4>2. CASE At(i, "save", worker[i].batch, worker[i].current, worker[i].event)
        BY <1>1, MovedOn, <4>2
      <4> QED BY <3>1, <4>1, <4>2
    <3>3. s.id \in Booking
      BY <1>1
    <3> QED BY <3>1, <3>2, <3>3, StepKeeps DEF HeldAfter
  <2>6. ASSUME NEW s \in worker[i].current,
               \/ NothingToDelete(i, s) \/ Delete(i, s) \/ Patch(i, s) \/ Refused(i, s)
               \/ \E e \in Event : Insert(i, s, e)
        PROVE  TypeOK' /\ QueueInv'
    <3>1. /\ Rest' /\ UNCHANGED bookings
          /\ \E p, e : At(i, p, worker[i].batch, worker[i].current, e)
      BY <2>6, CallFacts
    <3>2. PICK p, e : At(i, p, worker[i].batch, worker[i].current, e)
      BY <3>1
    <3>3. HeldAfter
      BY <1>1, MovedOn, <3>2
    <3> QED BY <3>1, <3>3, StepKeeps DEF HeldAfter
  <2> QED BY <1>4, <2>2, <2>3, <2>4, <2>5, <2>6 DEF Work, SyncOne
<1> QED BY <1>2, <1>3, <1>4 DEF Next

\* Before the first booking there is nothing to look for.
LEMMA InitQueue == Init => TypeOK /\ QueueInv
<1> SUFFICES ASSUME Init PROVE TypeOK /\ QueueInv
  OBVIOUS
<1>1. Resting \in WorkerState
  BY WorkerShape DEF Resting, Pcs
<1>2. connected \in BOOLEAN
  BY Zenon DEF Init
<1>3. TypeOK
  BY <1>1, <1>2 DEF Init, TypeOK
<1>4. \A i \in Instance : worker[i].batch = {} /\ worker[i].current = {}
  BY DEF Init, Resting
<1>5. QueueInv
  BY <1>4 DEF Init, QueueInv, HeldExist, SomebodyLooks, Exists
<1> QED BY <1>3, <1>5

\* The shapes of the documents, the calendar and the workers, for every set of
\* bookings and processes and every number of attempts (bookings and sync-worker.js).
THEOREM SyncTypes == Spec => []TypeOK
<1>1. Init => TypeOK /\ QueueInv
  BY InitQueue
<1>2. TypeOK /\ QueueInv /\ [Next]_vars => TypeOK' /\ QueueInv'
  BY NextKeepsQueue
<1> QED BY <1>1, <1>2, PTL DEF Spec

\* A booking that waits has attempts left and one that failed has none, so it is
\* either in the worker's query or in the owner's Exceptions list: although the
\* catch block counts from a snapshot and edits reset the count meanwhile.
THEOREM NoBookingForgotten == Spec => []SomebodyLooks
<1>1. Init => TypeOK /\ QueueInv
  BY InitQueue
<1>2. TypeOK /\ QueueInv /\ [Next]_vars => TypeOK' /\ QueueInv'
  BY NextKeepsQueue
<1>3. QueueInv => SomebodyLooks
  BY DEF QueueInv
<1> QED BY <1>1, <1>2, <1>3, PTL DEF Spec

-----------------------------------------------------------------------------
(* One event per booking.                                                  *)

\* While there is no mishap, the invariant gives all its parts.
QuietParts == LeaseHeld /\ OneSnapshot /\ EventsKnown /\ EventsStored

\* A document once there stays, with the event id it has.
EventsSame ==
  \A x \in Booking : Exists(x) => Exists(x)' /\ bookings'[x].event = bookings[x].event

\* Documents written with the event id they had.
LEMMA SameEvents ==
  ASSUME TypeOK, UNCHANGED bookings \/ \E b \in Booking : \E y, n, e :
           DocAt(b, y, n, e) /\ e = IF Exists(b) THEN bookings[b].event ELSE NoEvent
  PROVE  EventsSame
<1>1. CASE UNCHANGED bookings
  BY <1>1 DEF EventsSame, Exists
<1>2. CASE \E b \in Booking : \E y, n, e :
             DocAt(b, y, n, e) /\ e = IF Exists(b) THEN bookings[b].event ELSE NoEvent
  BY <1>2, NullIsNoDoc DEF EventsSame, Exists, DocAt
<1> QED BY <1>1, <1>2

\* Entries stay linked when no worker was, or is, about to store an event.
LEMMA QuietMove ==
  ASSUME TypeOK, QueueInv, QuietParts, EventsSame,
         NEW i \in Instance, NEW pc, NEW B, NEW C, NEW v, At(i, pc, B, C, v),
         worker[i].pc \notin {"idle", "saveEvent"},
         pc \in {"idle", "next", "save", "catch"},
         B \subseteq worker[i].batch, C \subseteq worker[i].current,
         pc \in {"idle", "next"} => C = {}, pc = "idle" => B = {},
         UNCHANGED lease,
         \A e \in Event : InCalendar(e)' =>
           InCalendar(e) /\ calendar'[e].booking = calendar[e].booking,
         \A e \in Event : InCalendar(e) => calendar[e].booking \in Booking
  PROVE  QuietParts'
<1>1. \A j \in Instance : j # i => worker'[j] = worker[j]
  BY DEF At
<1>2. worker'[i].pc = pc /\ worker'[i].batch = B /\ worker'[i].current = C
  BY DEF At
<1>3. \A j \in Instance : \A s \in worker[j].batch \cup worker[j].current :
        s.id \in Booking /\ Exists(s.id)
  BY AllHeldExist
<1>4. LeaseHeld'
  BY <1>1, <1>2 DEF QuietParts, LeaseHeld, Working
<1>5. OneSnapshot'
  BY <1>1, <1>2 DEF QuietParts, OneSnapshot
<1>6. EventsKnown'
  <2> SUFFICES ASSUME NEW j \in Instance
               PROVE  /\ \A s \in worker'[j].batch : s.event = bookings'[s.id].event
                      /\ worker'[j].pc \in {"call", "saveEvent"} =>
                           \A s \in worker'[j].current : s.event = bookings'[s.id].event
                      /\ worker'[j].pc = "saveEvent" =>
                           \A s \in worker'[j].current : s.event = NoEvent
    BY DEF EventsKnown
  <2> QED BY <1>1, <1>2, <1>3 DEF QuietParts, EventsKnown, EventsSame
<1>7. EventsStored'
  <2> SUFFICES ASSUME NEW e \in Event, InCalendar(e)'
               PROVE  /\ Exists(calendar[e].booking)'
                      /\ \/ bookings'[calendar[e].booking].event = e
                         \/ Storing(e, calendar[e].booking)'
    BY DEF EventsStored
  <2> QED BY <1>1, <1>2 DEF QuietParts, EventsStored, EventsSame, Storing
<1> QED BY <1>4, <1>5, <1>6, <1>7 DEF QuietParts

\* Edits, and steps of the world, while the workers stand still.
LEMMA QuietEdit ==
  ASSUME TypeOK, QueueInv, QuietParts, EventsSame, UNCHANGED <<calendar, worker>>,
         LeaseHeld',
         \A e \in Event : InCalendar(e) => calendar[e].booking \in Booking
  PROVE  QuietParts'
<1>1. \A j \in Instance : \A s \in worker[j].batch \cup worker[j].current :
        s.id \in Booking /\ Exists(s.id)
  BY AllHeldExist
<1>2. OneSnapshot'
  BY DEF QuietParts, OneSnapshot
<1>3. EventsKnown'
  BY <1>1 DEF QuietParts, EventsKnown, EventsSame
<1>4. EventsStored'
  BY DEF QuietParts, EventsStored, EventsSame, Storing, InCalendar
<1> QED BY <1>2, <1>3, <1>4 DEF QuietParts

\* A tick takes the lease, when nobody else can be at work.
LEMMA QuietTick ==
  ASSUME TypeOK, QueueInv, QuietParts, NEW i \in Instance, Tick(i)
  PROVE  QuietParts'
<1>1. /\ ~Working(i) /\ Claimable(i) /\ lease'.owner = i /\ lease'.live
      /\ UNCHANGED <<bookings, calendar>>
      /\ \A j \in Instance : j # i => worker'[j] = worker[j]
      /\ worker'[i].pc = "fetch" /\ worker'[i].batch = {} /\ worker'[i].current = {}
  BY BatchFacts DEF At
<1>2. \A j \in Instance : ~Working(j) \/ j = i
  BY <1>1, NullsAreNotIds DEF QuietParts, LeaseHeld, Claimable
<1>3. LeaseHeld'
  BY <1>1, <1>2 DEF LeaseHeld, Working
<1>4. OneSnapshot'
  BY <1>1 DEF QuietParts, OneSnapshot
<1>5. EventsKnown'
  BY <1>1 DEF QuietParts, EventsKnown
<1>6. worker[i].pc = "idle"
  BY <1>1 DEF Working
<1>7. EventsStored'
  BY <1>1, <1>6 DEF QuietParts, EventsStored, Storing, Exists, InCalendar
<1> QED BY <1>3, <1>4, <1>5, <1>7 DEF QuietParts

\* A batch is read: one snapshot per booking, each with the event id of its document.
LEMMA QuietFetch ==
  ASSUME TypeOK, QueueInv, QuietParts, NEW i \in Instance, Fetch(i)
  PROVE  QuietParts'
<1> DEFINE B == {Snapshot(b) : b \in {x \in Booking : Queued(x)}}
<1>1. /\ worker[i].pc = "fetch" /\ UNCHANGED <<bookings, calendar, lease>>
      /\ \A j \in Instance : j # i => worker'[j] = worker[j]
      /\ worker'[i].pc = "next" /\ worker'[i].batch = B
      /\ worker'[i].current = worker[i].current
  BY BatchFacts DEF At
<1>2. \A s \in B : \E b \in Booking : s = Snapshot(b) /\ s.id = b /\ s.event = bookings[b].event
  BY DEF Snapshot
<1> HIDE DEF B
<1>3. worker[i].current = {}
  BY <1>1 DEF QuietParts, OneSnapshot
<1>4. LeaseHeld'
  BY <1>1 DEF QuietParts, LeaseHeld, Working
<1>5. OneSnapshot'
  BY <1>1, <1>2, <1>3 DEF QuietParts, OneSnapshot
<1>6. EventsKnown'
  BY <1>1, <1>2, <1>3 DEF QuietParts, EventsKnown
<1>7. EventsStored'
  BY <1>1 DEF QuietParts, EventsStored, Storing, Exists, InCalendar
<1> QED BY <1>4, <1>5, <1>6, <1>7 DEF QuietParts

\* A booking is taken out of the batch.
LEMMA QuietBegin ==
  ASSUME TypeOK, QueueInv, QuietParts, NEW i \in Instance, NEW s \in worker[i].batch, Begin(i, s)
  PROVE  QuietParts'
<1>1. /\ worker[i].pc = "next" /\ UNCHANGED <<bookings, calendar, lease>>
      /\ \A j \in Instance : j # i => worker'[j] = worker[j]
      /\ worker'[i].pc \in {"call", "skip"} /\ worker'[i].batch = worker[i].batch \ {s}
      /\ worker'[i].current = {s}
  BY BatchFacts DEF At
<1>4. LeaseHeld'
  BY <1>1 DEF QuietParts, LeaseHeld, Working
<1>5. OneSnapshot'
  BY <1>1 DEF QuietParts, OneSnapshot
<1>6. EventsKnown'
  BY <1>1 DEF QuietParts, EventsKnown
<1>7. EventsStored'
  BY <1>1 DEF QuietParts, EventsStored, Storing, Exists, InCalendar
<1> QED BY <1>4, <1>5, <1>6, <1>7 DEF QuietParts

\* An event is made, for a booking that has none, and is about to be stored.
LEMMA QuietInsert ==
  ASSUME TypeOK, QueueInv, QuietParts, NEW i \in Instance, NEW s \in worker[i].current,
         NEW e \in Event, Insert(i, s, e), UNCHANGED mishaps
  PROVE  QuietParts'
<1>1. /\ UNCHANGED <<bookings, lease>>
      /\ \A j \in Instance : j # i => worker'[j] = worker[j]
      /\ worker'[i].pc = "saveEvent" /\ worker'[i].batch = worker[i].batch
      /\ worker'[i].current = worker[i].current /\ worker'[i].event = e
      /\ calendar'[e].booking = s.id
      /\ \A f \in Event \ {e} : calendar'[f] = calendar[f]
  <2>1. mishaps \in Nat
    BY DEF TypeOK
  <2> QED BY <2>1, CallFacts DEF At
<1>2. worker[i].pc = "call" /\ s.event = NoEvent
  BY DEF Insert
<1>3. s.id \in Booking /\ Exists(s.id) /\ \A t \in worker[i].current : t = s
  BY AllHeldExist DEF QuietParts, OneSnapshot
<1>4. LeaseHeld'
  BY <1>1, <1>2 DEF QuietParts, LeaseHeld, Working
<1>5. OneSnapshot'
  BY <1>1, <1>2 DEF QuietParts, OneSnapshot
<1>6. EventsKnown'
  BY <1>1, <1>2, <1>3 DEF QuietParts, EventsKnown
<1>7. EventsStored'
  <2> SUFFICES ASSUME NEW f \in Event, InCalendar(f)'
               PROVE  /\ Exists(calendar[f].booking)'
                      /\ \/ (bookings[calendar[f].booking].event)' = f
                         \/ Storing(f, calendar[f].booking)'
    BY DEF EventsStored
  <2>1. CASE f = e
    BY <1>1, <1>3, <2>1 DEF Storing, Exists
  <2>2. CASE f # e
    <3>1. InCalendar(f) /\ calendar'[f] = calendar[f]
      BY <1>1, <2>2 DEF InCalendar
    <3> QED BY <1>1, <1>2, <3>1 DEF QuietParts, EventsStored, Storing, Exists
  <2> QED BY <2>1, <2>2
<1> QED BY <1>4, <1>5, <1>6, <1>7 DEF QuietParts

\* The event id is stored, by the one worker there is.
LEMMA QuietSaveEvent ==
  ASSUME TypeOK, QueueInv, QuietParts, NEW i \in Instance, NEW s \in worker[i].current,
         SaveEvent(i, s),
         \A e \in Event : InCalendar(e) => calendar[e].booking \in Booking
  PROVE  QuietParts'
<1>1. /\ UNCHANGED <<calendar, lease>>
      /\ \A j \in Instance : j # i => worker'[j] = worker[j]
      /\ worker'[i].pc = "save" /\ worker'[i].batch = worker[i].batch
      /\ worker'[i].current = worker[i].current
      /\ \A x \in Booking : x # s.id => bookings'[x] = bookings[x]
      /\ bookings'[s.id] \in Doc /\ bookings'[s.id].event = worker[i].event
  BY ResultFacts DEF At, DocAt
<1>2. worker[i].pc = "saveEvent"
  BY DEF SaveEvent
<1>3. /\ s.id \in Booking /\ \A t \in worker[i].current : t = s
      /\ s.event = NoEvent /\ s.event = bookings[s.id].event
  BY <1>2, AllHeldExist DEF QuietParts, OneSnapshot, EventsKnown
<1>4. \A j \in Instance : Working(j) => j = i
  BY <1>2 DEF QuietParts, LeaseHeld, Working
<1>5. LeaseHeld'
  BY <1>1, <1>2 DEF QuietParts, LeaseHeld, Working
<1>6. OneSnapshot'
  BY <1>1, <1>2 DEF QuietParts, OneSnapshot
<1>7. EventsKnown'
  <2>1. ASSUME NEW j \in Instance, NEW t \in worker[j].batch
        PROVE  t.event = bookings'[t.id].event
    <3>1. t.event = bookings[t.id].event /\ t.id \in Booking
      BY AllHeldExist DEF QuietParts, EventsKnown
    <3>2. CASE j = i
      BY <1>1, <3>1, <3>2 DEF QuietParts, OneSnapshot
    <3>3. CASE j # i
      BY <1>4, <3>3 DEF QuietParts, OneSnapshot, Working
    <3> QED BY <3>2, <3>3
  <2>2. ASSUME NEW j \in Instance,
               worker'[j].pc \in {"call", "saveEvent"}
        PROVE  worker'[j].current = {}
    BY <1>1, <1>4, <2>2 DEF Working
  <2> QED BY <1>1, <2>1, <2>2 DEF EventsKnown
<1>8. EventsStored'
  <2> SUFFICES ASSUME NEW f \in Event, InCalendar(f)'
               PROVE  /\ Exists(calendar[f].booking)'
                      /\ bookings'[calendar[f].booking].event = f
    BY <1>1 DEF EventsStored
  <2> DEFINE b == calendar[f].booking
  <2>1. /\ b \in Booking /\ Exists(b)
        /\ bookings[b].event = f \/ Storing(f, b)
    BY <1>1 DEF InCalendar, QuietParts, EventsStored
  <2>2. CASE Storing(f, b)
    <3>1. worker[i].event = f /\ b = s.id
      BY <1>3, <1>4, <2>2 DEF Storing, Working
    <3> QED BY <1>1, <3>1, NullIsNoDoc DEF Exists
  <2>3. CASE ~Storing(f, b)
    <3>1. bookings[b].event = f
      BY <2>1, <2>3
    <3>2. b # s.id
      BY <1>3, <3>1, NullsAreNotIds
    <3> QED BY <1>1, <2>1, <3>1, <3>2 DEF Exists
  <2> QED BY <2>2, <2>3
<1> QED BY <1>5, <1>6, <1>7, <1>8 DEF QuietParts

\* Every step without a mishap keeps each event with its booking.
LEMMA NextKeepsQuiet ==
  TypeOK /\ QueueInv /\ QuietInv /\ [Next]_vars => QuietInv'
<1> SUFFICES ASSUME TypeOK, QueueInv, QuietInv, [Next]_vars, mishaps' = 0
             PROVE  QuietParts'
  BY DEF QuietInv, QuietParts
<1>1. mishaps \in Nat /\ \A e \in Event : InCalendar(e) => calendar[e].booking \in Booking
  BY DEF TypeOK, InCalendar, Entry
<1>2. ASSUME mishaps = 0 PROVE QuietParts
  BY <1>2 DEF QuietInv, QuietParts
<1>3. ASSUME NEW b \in Booking, Edit(b) \/ BackoffEnds(b) PROVE QuietParts'
  <2>1. /\ UNCHANGED <<calendar, lease, worker, mishaps>>
        /\ \E y, n, e : DocAt(b, y, n, e) /\ e = IF Exists(b) THEN bookings[b].event ELSE NoEvent
    BY <1>3, EditFacts
  <2>2. EventsSame
    BY <2>1, SameEvents
  <2>3. QuietParts
    BY <1>2, <2>1
  <2>4. LeaseHeld'
    BY <2>1, <2>3 DEF QuietParts, LeaseHeld, Working
  <2> QED BY <1>1, <2>1, <2>2, <2>3, <2>4, QuietEdit
<1>4. ASSUME Connect \/ LeaseExpires \/ UNCHANGED vars PROVE QuietParts'
  <2>1. UNCHANGED <<bookings, calendar, worker>> /\ mishaps' >= mishaps
    BY <1>1, <1>4 DEF Connect, LeaseExpires, vars
  <2>2. QuietParts /\ EventsSame /\ UNCHANGED mishaps
    BY <1>1, <1>2, <2>1, SameEvents
  <2>3. LeaseHeld'
    <3>1. CASE Connect \/ UNCHANGED vars
      BY <2>2, <3>1 DEF Connect, vars, QuietParts, LeaseHeld, Working
    <3>2. CASE LeaseExpires
      <4>1. ~(lease.owner \in Instance /\ Working(lease.owner))
        BY <1>1, <2>2, <3>2 DEF LeaseExpires
      <4>2. \A i \in Instance : ~Working(i)
        BY <2>2, <4>1 DEF QuietParts, LeaseHeld
      <4> QED BY <2>1, <4>2 DEF LeaseHeld, Working
    <3> QED BY <1>4, <3>1, <3>2
  <2> QED BY <1>1, <2>1, <2>2, <2>3, QuietEdit
<1>5. ASSUME NEW i \in Instance, Work(i) \/ Crash(i) PROVE QuietParts'
  <2>1. CASE Tick(i)
    BY <1>2, <2>1, BatchFacts, QuietTick
  <2>2. CASE Fetch(i)
    BY <1>2, <2>2, BatchFacts, QuietFetch
  <2>3. ASSUME NEW s \in worker[i].batch, Begin(i, s) PROVE QuietParts'
    BY <1>2, <2>3, BatchFacts, QuietBegin
  <2>4. CASE Finish(i)
    <3>1. /\ At(i, "idle", {}, {}, NoEvent) /\ UNCHANGED <<bookings, calendar, lease, mishaps>>
      BY <2>4, BatchFacts
    <3>2. QuietParts /\ EventsSame /\ worker[i].pc = "next"
      BY <1>2, <2>4, <3>1, SameEvents DEF Finish
    <3> QED BY <1>1, <3>1, <3>2, QuietMove DEF InCalendar
  <2>5. ASSUME NEW s \in worker[i].current, Skip(i, s) \/ Save(i, s) \/ Catch(i, s)
        PROVE  QuietParts'
    <3>1. /\ At(i, "next", worker[i].batch, {}, NoEvent)
          /\ UNCHANGED <<calendar, lease, mishaps>>
          /\ \E y, n : DocAt(s.id, y, n, bookings[s.id].event)
      BY <2>5, ResultFacts
    <3>2. s.id \in Booking /\ Exists(s.id)
      BY AllHeldExist
    <3>3. QuietParts /\ EventsSame /\ worker[i].pc \in {"skip", "save", "catch"}
      BY <1>2, <2>5, <3>1, <3>2, SameEvents DEF Skip, Save, Catch
    <3> QED BY <1>1, <3>1, <3>3, QuietMove DEF InCalendar
  <2>6. ASSUME NEW s \in worker[i].current, SaveEvent(i, s) PROVE QuietParts'
    BY <1>1, <1>2, <2>6, ResultFacts, QuietSaveEvent
  <2>7. ASSUME NEW s \in worker[i].current,
               NothingToDelete(i, s) \/ Delete(i, s) \/ Patch(i, s) \/ Refused(i, s)
        PROVE  QuietParts'
    <3>1. /\ UNCHANGED <<bookings, lease>> /\ mishaps' >= mishaps
          /\ \A e \in Event : InCalendar(e)' =>
               InCalendar(e) /\ calendar'[e].booking = calendar[e].booking
      BY <2>7, CallFacts
    <3>2. PICK pc \in {"save", "catch"} :
            At(i, pc, worker[i].batch, worker[i].current, worker[i].event)
      BY <2>7, CallFacts
    <3>3. QuietParts /\ EventsSame /\ worker[i].pc = "call"
      BY <1>1, <1>2, <2>7, <3>1, SameEvents DEF NothingToDelete, Delete, Patch, Refused
    <3> QED BY <1>1, <3>1, <3>2, <3>3, QuietMove
  <2>8. ASSUME NEW s \in worker[i].current, NEW e \in Event, Insert(i, s, e)
        PROVE  QuietParts'
    <3>1. mishaps = 0
      BY <1>1, <2>8, CallFacts
    <3> QED BY <1>2, <2>8, <3>1, QuietInsert
  <2>9. CASE Crash(i)
    <3>1. mishaps' > mishaps
      BY <2>9, BatchFacts
    <3> QED BY <1>1, <3>1
  <2> QED BY <1>5, <2>1, <2>2, <2>3, <2>4, <2>5, <2>6, <2>7, <2>8, <2>9 DEF Work, SyncOne
<1> QED BY <1>3, <1>4, <1>5 DEF Next

\* An event is stored in its booking, or about to be, and there is one of these.
LEMMA OneIsStored == TypeOK /\ QueueInv /\ QuietInv => OneEventPerBooking
<1> SUFFICES ASSUME TypeOK, QueueInv, QuietParts, NEW b \in Booking
             PROVE  Cardinality(Entries(b)) <= 1
  BY Zenon DEF OneEventPerBooking, QuietInv, QuietParts
<1>1. ASSUME NEW e \in Entries(b), NEW f \in Entries(b) PROVE e = f
  <2>1. /\ e \in Event /\ f \in Event
        /\ bookings[b].event = e \/ Storing(e, b)
        /\ bookings[b].event = f \/ Storing(f, b)
    BY DEF Entries, QuietParts, EventsStored
  <2>2. ASSUME NEW x, Storing(x, b) PROVE bookings[b].event = NoEvent
    BY <2>2 DEF Storing, QuietParts, EventsKnown
  <2>3. ASSUME Storing(e, b), Storing(f, b) PROVE e = f
    BY <2>3 DEF Storing, QuietParts, LeaseHeld, Working
  <2> QED BY <2>1, <2>2, <2>3, NullsAreNotIds
<1>2. CASE Entries(b) = {}
  BY <1>2, FS_EmptySet
<1>3. CASE Entries(b) # {}
  <2>1. PICK e : Entries(b) = {e}
    BY <1>1, <1>3
  <2>2. Cardinality({e}) = 1
    BY FS_Singleton
  <2> QED BY <2>1, <2>2
<1> QED BY <1>2, <1>3

\* Nobody works and nothing is in the calendar to begin with.
LEMMA InitQuiet == Init => QuietInv
<1> SUFFICES ASSUME Init PROVE QuietParts
  BY DEF QuietInv, QuietParts
<1>1. \A i \in Instance :
        worker[i].pc = "idle" /\ worker[i].batch = {} /\ worker[i].current = {}
  BY DEF Init, Resting
<1>2. \A e \in Event : ~InCalendar(e)
  BY DEF Init, InCalendar
<1> QED BY <1>1, <1>2
      DEF QuietParts, LeaseHeld, Working, OneSnapshot, EventsKnown, EventsStored

\* Without a mishap no booking ever has two events in Google Calendar: for any number
\* of processes ticking against one lease, and any edits (workerLease.js, sync-worker.js).
THEOREM NeverTwoEvents == Spec => []OneEventPerBooking
<1>1. Init => TypeOK /\ QueueInv /\ QuietInv
  BY InitQueue, InitQuiet
<1>2. TypeOK /\ QueueInv /\ QuietInv /\ [Next]_vars => (TypeOK /\ QueueInv /\ QuietInv)'
  BY NextKeepsQueue, NextKeepsQuiet
<1>3. TypeOK /\ QueueInv /\ QuietInv => OneEventPerBooking
  BY OneIsStored
<1> QED BY <1>1, <1>2, <1>3, PTL DEF Spec

-----------------------------------------------------------------------------
(* What 'synced' says of Google Calendar.                                  *)

\* An event id in a booking is that of an event made for it.
EventsOwned ==
  \A b \in Booking : Exists(b) /\ bookings[b].event # NoEvent =>
    \/ calendar[bookings[b].event] = Deleted
    \/ /\ calendar[bookings[b].event] \in Entry
       /\ calendar[bookings[b].event].booking = b

\* A copy nobody edited behind the worker's back is the booking, not yet synced.
FreshCopies ==
  \A i \in Instance : \A s \in worker[i].batch \cup worker[i].current :
    s.id \notin disturbed =>
      /\ bookings[s.id].status = s.status /\ bookings[s.id].time = s.time
      /\ bookings[s.id].sync # "synced"

\* Google shows a booking as it is; Mirrored, without counting.
Looks(b) ==
  IF bookings[b].status = "confirmed"
  THEN \E e \in Event : Entries(b) = {e} /\ calendar[e].time = bookings[b].time
  ELSE Entries(b) = {}

\* What the worker is about to save.
ResultsLook ==
  \A i \in Instance : \A s \in worker[i].current :
    /\ worker[i].pc = "saveEvent" =>
         /\ s.status = "confirmed" /\ worker[i].event \in Event
         /\ calendar[worker[i].event] = [booking |-> s.id, time |-> s.time]
    /\ worker[i].pc = "save" /\ s.id \notin disturbed => Looks(s.id)

SyncedLook ==
  \A b \in Booking :
    Exists(b) /\ bookings[b].sync = "synced" /\ b \notin disturbed => Looks(b)

\* While there is no mishap, the invariant gives all its parts.
MirrorParts == EventsOwned /\ FreshCopies /\ ResultsLook /\ SyncedLook

MirrorInv == mishaps = 0 => MirrorParts

\* Nothing Google shows of b changes, nor what it should show.
LEMMA LooksSame ==
  ASSUME NEW b \in Booking, Looks(b),
         bookings'[b].status = bookings[b].status, bookings'[b].time = bookings[b].time,
         \A e \in Event : e \in Entries(b)' <=> e \in Entries(b),
         \A e \in Entries(b) : calendar'[e] = calendar[e]
  PROVE  Looks(b)'
<1>1. Entries(b)' = Entries(b)
  BY DEF Entries
<1> QED BY <1>1 DEF Looks

\* While i works, nobody else holds a copy or is about to store an event.
LEMMA Alone ==
  ASSUME TypeOK, QuietParts, NEW i \in Instance, Working(i)
  PROVE  /\ \A j \in Instance \ {i} :
              worker[j].pc = "idle" /\ worker[j].batch = {} /\ worker[j].current = {}
         /\ \A e, b : Storing(e, b) => worker[i].pc = "saveEvent" /\ worker[i].event = e
<1>1. \A j \in Instance \ {i} : worker[j].pc = "idle"
  BY DEF QuietParts, LeaseHeld, Working
<1> QED BY <1>1 DEF QuietParts, OneSnapshot, Storing

\* The events shown for the booking at work.
LEMMA ShownAtWork ==
  ASSUME TypeOK, QueueInv, QuietParts, NEW i \in Instance, Working(i),
         NEW b \in Booking, NEW e \in Entries(b)
  PROVE  \/ bookings[b].event = e
         \/ worker[i].pc = "saveEvent" /\ worker[i].event = e
<1>1. e \in Event /\ InCalendar(e) /\ calendar[e].booking = b
  BY DEF Entries
<1>2. bookings[b].event = e \/ Storing(e, b)
  BY <1>1 DEF QuietParts, EventsStored
<1> QED BY <1>2, Alone

\* A worker's step, from what it leaves behind.
LEMMA MirrorStep ==
  ASSUME NEW i \in Instance, NEW pc, NEW B, NEW C, NEW v, At(i, pc, B, C, v),
         \A j \in Instance \ {i} :
           worker[j].pc = "idle" /\ worker[j].batch = {} /\ worker[j].current = {},
         UNCHANGED disturbed, EventsOwned', SyncedLook',
         \A s \in B \cup C : s.id \notin disturbed =>
           /\ bookings'[s.id].status = s.status /\ bookings'[s.id].time = s.time
           /\ bookings'[s.id].sync # "synced",
         pc = "saveEvent" => \A s \in C :
           /\ s.status = "confirmed" /\ v \in Event
           /\ calendar'[v] = [booking |-> s.id, time |-> s.time],
         pc = "save" => \A s \in C : s.id \notin disturbed => Looks(s.id)'
  PROVE  MirrorParts'
<1>1. /\ worker'[i].pc = pc /\ worker'[i].batch = B /\ worker'[i].current = C
      /\ worker'[i].event = v
      /\ \A j \in Instance \ {i} : worker'[j] = worker[j]
  BY DEF At
<1>2. FreshCopies'
  <2> SUFFICES ASSUME NEW j \in Instance, NEW s \in worker'[j].batch \cup worker'[j].current,
                      s.id \notin disturbed'
               PROVE  /\ bookings'[s.id].status = s.status /\ bookings'[s.id].time = s.time
                      /\ bookings'[s.id].sync # "synced"
    BY DEF FreshCopies
  <2>1. j = i
    BY <1>1
  <2> QED BY <1>1, <2>1
<1>3. ResultsLook'
  <2> SUFFICES ASSUME NEW j \in Instance, NEW s \in worker'[j].current
               PROVE  /\ worker'[j].pc = "saveEvent" =>
                           /\ s.status = "confirmed" /\ worker'[j].event \in Event
                           /\ calendar'[worker'[j].event] = [booking |-> s.id, time |-> s.time]
                      /\ worker'[j].pc = "save" /\ s.id \notin disturbed' => Looks(s.id)'
    BY DEF ResultsLook
  <2>1. j = i
    BY <1>1
  <2>2. s \in C
    BY <1>1, <2>1
  <2> QED BY <1>1, <2>1, <2>2
<1> QED BY <1>2, <1>3 DEF MirrorParts

\* Edits find the worker with an older copy, or leave one that waits for it.
LEMMA MirrorEdit ==
  ASSUME TypeOK, QueueInv, QuietParts, MirrorParts, NEW b \in Booking, Edit(b)
  PROVE  MirrorParts'
<1>1. /\ UNCHANGED <<calendar, worker>>
      /\ \A x \in Booking \ {b} : bookings'[x] = bookings[x]
      /\ bookings'[b] \in Doc
      /\ bookings'[b].event = IF Exists(b) THEN bookings[b].event ELSE NoEvent
  BY EditFacts DEF DocAt
<1>2. bookings'[b].sync # "synced"
  <2>1. bookings[b] \in Doc \cup {NoDoc} /\ bookings \in [Booking -> Doc \cup {NoDoc}]
    BY DEF TypeOK
  <2>2. ASSUME NEW isTest \in BOOLEAN, Create(b, isTest) PROVE bookings'[b].sync # "synced"
    BY <2>1, <2>2 DEF Create
  <2>3. ASSUME Move(b) \/ Cancel(b) \/ Retry(b) PROVE bookings'[b].sync # "synced"
    <3>1. bookings[b] \in Doc
      BY <2>1, <2>3 DEF Move, Cancel, Retry, Exists
    <3> QED BY <2>1, <2>3, <3>1 DEF Move, Cancel, Retry, Requeued, Cancelled, Doc
  <2> QED BY <2>2, <2>3 DEF Edit
<1>3. /\ disturbed' \subseteq disturbed \cup {b} /\ disturbed \subseteq disturbed' \cup {b}
      /\ \A j \in Instance : \A s \in worker[j].batch \cup worker[j].current :
           s.id = b => b \in disturbed'
  <2>1. ASSUME NEW j \in Instance, NEW s \in worker[j].batch \cup worker[j].current, s.id = b
        PROVE  Exists(b) /\ b \in Held(j)
    <3>1. Exists(b)
      BY <2>1, AllHeldExist
    <3>2. worker[j].pc # "idle"
      BY <2>1 DEF QuietParts, OneSnapshot
    <3> QED BY <2>1, <3>1, <3>2 DEF Held
  <2>2. ASSUME NEW isTest \in BOOLEAN, Create(b, isTest)
        PROVE  UNCHANGED disturbed /\ ~Exists(b)
    BY <2>2 DEF Create
  <2>3. ASSUME Move(b) \/ Cancel(b) \/ Retry(b) PROVE Edited(b)
    BY <2>3 DEF Move, Cancel, Retry
  <2>4. Edited(b) \/ (UNCHANGED disturbed /\ ~Exists(b))
    BY <2>2, <2>3 DEF Edit
  <2> QED BY <2>1, <2>4 DEF Edited
<1>4. EventsOwned'
  BY <1>1 DEF MirrorParts, EventsOwned, Exists
<1>5. FreshCopies'
  <2> SUFFICES ASSUME NEW j \in Instance, NEW s \in worker[j].batch \cup worker[j].current,
                      s.id \notin disturbed'
               PROVE  /\ bookings'[s.id].status = s.status /\ bookings'[s.id].time = s.time
                      /\ bookings'[s.id].sync # "synced"
    BY <1>1 DEF FreshCopies
  <2>1. s.id \in Booking \ {b} /\ s.id \notin disturbed
    BY <1>3, AllHeldExist
  <2> QED BY <1>1, <2>1 DEF MirrorParts, FreshCopies
<1>6. ASSUME NEW x \in Booking \ {b}, Looks(x) PROVE Looks(x)'
  <2>1. Entries(x)' = Entries(x)
    BY <1>1 DEF Entries, InCalendar
  <2> QED BY <1>1, <1>6, <2>1 DEF Looks
<1>7. ResultsLook'
  <2> SUFFICES ASSUME NEW j \in Instance, NEW s \in worker[j].current
               PROVE  /\ worker[j].pc = "saveEvent" =>
                           /\ s.status = "confirmed" /\ worker[j].event \in Event
                           /\ calendar[worker[j].event] = [booking |-> s.id, time |-> s.time]
                      /\ worker[j].pc = "save" /\ s.id \notin disturbed' => Looks(s.id)'
    BY <1>1 DEF ResultsLook
  <2>1. s.id \in Booking
    BY AllHeldExist
  <2>2. ASSUME s.id \notin disturbed' PROVE s.id # b /\ s.id \notin disturbed
    BY <1>3, <2>2
  <2> QED BY <1>6, <2>1, <2>2 DEF MirrorParts, ResultsLook
<1>8. SyncedLook'
  <2> SUFFICES ASSUME NEW x \in Booking, Exists(x)', bookings'[x].sync = "synced",
                      x \notin disturbed'
               PROVE  Looks(x)'
    BY DEF SyncedLook
  <2>1. x # b
    BY <1>2
  <2> QED BY <1>1, <1>3, <1>6, <2>1 DEF MirrorParts, SyncedLook, Exists
<1> QED BY <1>4, <1>5, <1>7, <1>8 DEF MirrorParts

\* Backoffs, leases and connections change nothing the mirror depends on.
LEMMA MirrorRest ==
  ASSUME TypeOK, QueueInv, MirrorParts, UNCHANGED <<calendar, worker, disturbed>>,
         \A x \in Booking :
           /\ Exists(x)' <=> Exists(x)
           /\ Exists(x) => /\ bookings'[x].status = bookings[x].status
                           /\ bookings'[x].time = bookings[x].time
                           /\ bookings'[x].sync = bookings[x].sync
                           /\ bookings'[x].event = bookings[x].event
  PROVE  MirrorParts'
<1>1. ASSUME NEW x \in Booking, Exists(x), Looks(x) PROVE Looks(x)'
  <2>1. Entries(x)' = Entries(x)
    BY DEF Entries, InCalendar
  <2> QED BY <1>1, <2>1 DEF Looks
<1>2. EventsOwned' /\ SyncedLook'
  BY <1>1 DEF MirrorParts, EventsOwned, SyncedLook
<1>3. FreshCopies'
  BY AllHeldExist DEF MirrorParts, FreshCopies
<1>4. ResultsLook'
  <2> SUFFICES ASSUME NEW j \in Instance, NEW s \in worker[j].current
               PROVE  /\ worker[j].pc = "saveEvent" =>
                           /\ s.status = "confirmed" /\ worker[j].event \in Event
                           /\ calendar[worker[j].event] = [booking |-> s.id, time |-> s.time]
                      /\ worker[j].pc = "save" /\ s.id \notin disturbed => Looks(s.id)'
    BY DEF ResultsLook
  <2>1. s.id \in Booking /\ Exists(s.id)
    BY AllHeldExist
  <2> QED BY <1>1, <2>1 DEF MirrorParts, ResultsLook
<1> QED BY <1>2, <1>3, <1>4 DEF MirrorParts

\* The documents as before.
LEMMA StillSynced ==
  ASSUME TypeOK, QueueInv, MirrorParts, UNCHANGED <<calendar, bookings, disturbed>>
  PROVE  EventsOwned' /\ SyncedLook'
<1>1. ASSUME NEW x \in Booking, Looks(x) PROVE Looks(x)'
  BY <1>1 DEF Looks, Entries, InCalendar
<1> QED BY <1>1 DEF MirrorParts, EventsOwned, SyncedLook, Exists

\* A batch is begun, read, gone through and finished.
LEMMA MirrorBatch ==
  ASSUME TypeOK, QueueInv, QuietParts, MirrorParts, NEW i \in Instance,
         Tick(i) \/ Fetch(i) \/ Finish(i) \/ \E s \in worker[i].batch : Begin(i, s)
  PROVE  MirrorParts'
<1>1. /\ UNCHANGED <<bookings, calendar, disturbed>> /\ EventsOwned' /\ SyncedLook'
  <2>1. UNCHANGED <<bookings, calendar, disturbed>>
    BY DEF Tick, Fetch, Finish, Begin
  <2> QED BY <2>1, StillSynced
<1>2. CASE Tick(i)
  <2>1. At(i, "fetch", {}, {}, NoEvent) /\ ~Working(i) /\ Claimable(i)
    BY <1>2, BatchFacts
  <2>2. \A j \in Instance : worker[j].pc = "idle"
    BY <2>1, NullsAreNotIds DEF QuietParts, LeaseHeld, Claimable, Working
  <2>3. \A j \in Instance \ {i} :
           worker[j].pc = "idle" /\ worker[j].batch = {} /\ worker[j].current = {}
    BY <2>2 DEF QuietParts, OneSnapshot
  <2> QED BY <1>1, <2>1, <2>3, MirrorStep
<1>3. CASE Fetch(i)
  <2> DEFINE B == {Snapshot(b) : b \in {x \in Booking : Queued(x)}}
  <2>1. At(i, "next", B, worker[i].current, worker[i].event) /\ worker[i].pc = "fetch"
    BY <1>3, BatchFacts
  <2>2. worker[i].current = {} /\ Working(i)
    BY <2>1 DEF QuietParts, OneSnapshot, Working
  <2>3. \A s \in B : /\ bookings[s.id].status = s.status /\ bookings[s.id].time = s.time
                     /\ bookings[s.id].sync # "synced"
    BY DEF Snapshot, Queued
  <2> HIDE DEF B
  <2> QED BY <1>1, <2>1, <2>2, <2>3, Alone, MirrorStep
<1>4. CASE Finish(i)
  <2>1. At(i, "idle", {}, {}, NoEvent) /\ Working(i)
    BY <1>4, BatchFacts DEF Finish, Working
  <2> QED BY <1>1, <2>1, Alone, MirrorStep
<1>5. ASSUME NEW s \in worker[i].batch, Begin(i, s) PROVE MirrorParts'
  <2>1. PICK pc \in {"call", "skip"} : At(i, pc, worker[i].batch \ {s}, {s}, worker[i].event)
    BY <1>5, BatchFacts
  <2>2. Working(i)
    BY <1>5 DEF Begin, Working
  <2>3. \A t \in (worker[i].batch \ {s}) \cup {s} : t.id \notin disturbed =>
          /\ bookings'[t.id].status = t.status /\ bookings'[t.id].time = t.time
          /\ bookings'[t.id].sync # "synced"
    BY <1>1 DEF MirrorParts, FreshCopies
  <2>4. \A j \in Instance \ {i} :
           worker[j].pc = "idle" /\ worker[j].batch = {} /\ worker[j].current = {}
    BY <2>2, Alone
  <2> QED BY <1>1, <2>1, <2>3, <2>4, MirrorStep
<1> QED BY <1>2, <1>3, <1>4, <1>5

\* An outcome is written to the document, and nothing Google shows depends on it.
LEMMA MirrorResult ==
  ASSUME TypeOK, QueueInv, QuietParts, MirrorParts, NEW i \in Instance,
         NEW s \in worker[i].current, Skip(i, s) \/ Save(i, s) \/ Catch(i, s)
  PROVE  MirrorParts'
<1>1. /\ At(i, "next", worker[i].batch, {}, NoEvent) /\ UNCHANGED <<calendar, disturbed>>
      /\ Working(i)
  BY ResultFacts DEF Skip, Save, Catch, Working
<1>2. s.id \in Booking /\ bookings[s.id] \in Doc /\ bookings \in [Booking -> Doc \cup {NoDoc}]
  BY HeldFacts DEF TypeOK
<1>3. /\ \A x \in Booking \ {s.id} : bookings'[x] = bookings[x]
      /\ bookings'[s.id] \in Doc
      /\ bookings'[s.id].status = bookings[s.id].status
      /\ bookings'[s.id].time = bookings[s.id].time
      /\ bookings'[s.id].event = bookings[s.id].event
      /\ bookings'[s.id].sync = "synced" => worker[i].pc = "save"
  <2>1. PICK y, n : DocAt(s.id, y, n, bookings[s.id].event)
    BY ResultFacts
  <2>2. CASE Skip(i, s)
    BY <1>2, <2>1, <2>2 DEF Skip, DocAt, Doc
  <2>3. CASE Save(i, s)
    BY <1>2, <2>1, <2>3 DEF Save, DocAt, Doc
  <2>4. CASE Catch(i, s)
    BY <1>2, <2>1, <2>4 DEF Catch, DocAt, Doc
  <2> QED BY <2>2, <2>3, <2>4
<1>4. ASSUME NEW x \in Booking, Looks(x) PROVE Looks(x)'
  <2>1. Entries(x)' = Entries(x)
    BY <1>1 DEF Entries, InCalendar
  <2>2. bookings'[x].status = bookings[x].status /\ bookings'[x].time = bookings[x].time
    BY <1>3
  <2>3. calendar' = calendar
    BY <1>1
  <2> QED BY <1>4, <2>1, <2>2, <2>3 DEF Looks
<1>5. EventsOwned'
  BY <1>1, <1>2, <1>3, NullIsNoDoc DEF MirrorParts, EventsOwned, Exists
<1>6. SyncedLook'
  <2> SUFFICES ASSUME NEW x \in Booking, Exists(x)', bookings'[x].sync = "synced",
                      x \notin disturbed
               PROVE  Looks(x)'
    BY <1>1 DEF SyncedLook
  <2>1. CASE x = s.id
    BY <1>3, <1>4, <2>1 DEF MirrorParts, ResultsLook
  <2>2. CASE x # s.id
    BY <1>3, <1>4, <2>2 DEF MirrorParts, SyncedLook, Exists
  <2> QED BY <2>1, <2>2
<1>7. \A t \in worker[i].batch : t.id \in Booking \ {s.id}
  BY AllHeldExist DEF QuietParts, OneSnapshot
<1>8. \A t \in worker[i].batch \cup {} : t.id \notin disturbed =>
        /\ bookings'[t.id].status = t.status /\ bookings'[t.id].time = t.time
        /\ bookings'[t.id].sync # "synced"
  BY <1>3, <1>7 DEF MirrorParts, FreshCopies
<1>9. \A j \in Instance \ {i} :
         worker[j].pc = "idle" /\ worker[j].batch = {} /\ worker[j].current = {}
  BY <1>1, Alone
<1> QED BY <1>1, <1>5, <1>6, <1>8, <1>9, MirrorStep

\* Google is asked about the booking at work; the others see nothing of it.
LEMMA MirrorCall ==
  ASSUME TypeOK, QueueInv, QuietParts, MirrorParts, NEW i \in Instance,
         NEW s \in worker[i].current, worker[i].pc = "call",
         UNCHANGED <<bookings, disturbed>>,
         NEW pc, NEW v, At(i, pc, worker[i].batch, worker[i].current, v),
         \A x \in Booking \ {s.id}, e \in Event :
           (e \in Entries(x)' <=> e \in Entries(x)) /\ (e \in Entries(x) => calendar'[e] = calendar[e]),
         EventsOwned',
         pc = "saveEvent" =>
           /\ s.status = "confirmed" /\ v \in Event
           /\ calendar'[v] = [booking |-> s.id, time |-> s.time],
         pc = "save" /\ s.id \notin disturbed => Looks(s.id)'
  PROVE  MirrorParts'
<1>1. s.id \in Booking /\ \A t \in worker[i].current : t = s
  BY AllHeldExist DEF QuietParts, OneSnapshot
<1>2. \A t \in worker[i].batch \cup worker[i].current : t.id \notin disturbed =>
        /\ bookings[t.id].status = t.status /\ bookings[t.id].time = t.time
        /\ bookings[t.id].sync # "synced"
  BY DEF MirrorParts, FreshCopies
<1>3. SyncedLook'
  <2> SUFFICES ASSUME NEW x \in Booking, Exists(x)', bookings'[x].sync = "synced",
                      x \notin disturbed'
               PROVE  Looks(x)'
    BY DEF SyncedLook
  <2>1. x # s.id
    BY <1>2
  <2>2. Looks(x)
    BY DEF MirrorParts, SyncedLook, Exists
  <2>3. /\ \A e \in Event : e \in Entries(x)' <=> e \in Entries(x)
        /\ \A e \in Entries(x) : calendar'[e] = calendar[e]
    <3>1. Entries(x) \subseteq Event
      BY DEF Entries
    <3> QED BY <2>1, <3>1
  <2> QED BY <2>2, <2>3, LooksSame
<1>4. \A j \in Instance \ {i} :
         worker[j].pc = "idle" /\ worker[j].batch = {} /\ worker[j].current = {}
  BY Alone DEF Working
<1>5. pc = "saveEvent" => \A t \in worker[i].current :
        /\ t.status = "confirmed" /\ v \in Event
        /\ calendar'[v] = [booking |-> t.id, time |-> t.time]
  BY <1>1
<1>6. pc = "save" => \A t \in worker[i].current : t.id \notin disturbed => Looks(t.id)'
  <2> SUFFICES ASSUME pc = "save", NEW t \in worker[i].current, t.id \notin disturbed
               PROVE  Looks(t.id)'
    OBVIOUS
  <2>1. t = s
    BY <1>1
  <2> QED BY <2>1
<1> QED BY <1>2, <1>3, <1>4, <1>5, <1>6, MirrorStep

\* An event that is not its own is not shown for a booking.
LEMMA OwnEvent ==
  ASSUME TypeOK, QueueInv, QuietParts, MirrorParts, NEW i \in Instance,
         NEW s \in worker[i].current, worker[i].pc = "call"
  PROVE  /\ s \in Seen /\ s.id \in Booking /\ s.event = bookings[s.id].event
         /\ s.event \in Event \cup {NoEvent}
         /\ \A e \in Entries(s.id) : e = s.event
         /\ s.event # NoEvent => \A x \in Booking \ {s.id} : s.event \notin Entries(x)
         /\ s.id \notin disturbed =>
              bookings[s.id].status = s.status /\ bookings[s.id].time = s.time
<1>1. s \in Seen /\ s.id \in Booking /\ s.event \in Event \cup {NoEvent} /\ Exists(s.id)
  BY HeldFacts, AllHeldExist
<1>2. s.event = bookings[s.id].event
  BY DEF QuietParts, EventsKnown
<1>3. \A e \in Entries(s.id) : e = s.event
  BY <1>1, <1>2, ShownAtWork DEF Working
<1>4. s.event # NoEvent => \A x \in Booking \ {s.id} : s.event \notin Entries(x)
  BY <1>1, <1>2 DEF MirrorParts, EventsOwned, Entries, InCalendar
<1>5. s.id \notin disturbed =>
        bookings[s.id].status = s.status /\ bookings[s.id].time = s.time
  BY DEF MirrorParts, FreshCopies
<1> QED BY <1>1, <1>2, <1>3, <1>4, <1>5

\* There is nothing to delete, or Google does nothing.
LEMMA MirrorNothing ==
  ASSUME TypeOK, QueueInv, QuietParts, MirrorParts, NEW i \in Instance,
         NEW s \in worker[i].current, NothingToDelete(i, s) \/ Refused(i, s)
  PROVE  MirrorParts'
<1>1. worker[i].pc = "call" /\ UNCHANGED <<bookings, calendar, disturbed>> /\ EventsOwned'
  <2>1. UNCHANGED <<bookings, calendar, disturbed>>
    BY DEF NothingToDelete, Refused
  <2> QED BY <2>1, StillSynced DEF NothingToDelete, Refused
<1>2. \A x \in Booking \ {s.id}, e \in Event :
        (e \in Entries(x)' <=> e \in Entries(x)) /\ (e \in Entries(x) => calendar'[e] = calendar[e])
  BY <1>1 DEF Entries, InCalendar
<1>3. CASE NothingToDelete(i, s)
  <2>1. At(i, "save", worker[i].batch, worker[i].current, worker[i].event)
    BY <1>3, GotoFacts, "save" \in Pcs DEF NothingToDelete, Pcs
  <2>2. s.status = "cancelled" /\ s.event = NoEvent
    BY <1>3 DEF NothingToDelete
  <2>3. Entries(s.id) = {}
    <3>1. ASSUME NEW e \in Entries(s.id) PROVE FALSE
      <4>1. e = NoEvent
        BY <1>1, <2>2, OwnEvent
      <4>2. e \in Event
        BY DEF Entries
      <4> QED BY <4>1, <4>2, NullsAreNotIds
    <3> QED BY <3>1
  <2>4. Entries(s.id)' = {}
    BY <1>1, <2>3 DEF Entries, InCalendar
  <2>5. s.id \notin disturbed => Looks(s.id)'
    BY <1>1, <2>2, <2>4, OwnEvent DEF Looks
  <2> QED BY <1>1, <1>2, <2>1, <2>5, MirrorCall
<1>4. CASE Refused(i, s)
  <2>1. At(i, "catch", worker[i].batch, worker[i].current, worker[i].event)
    BY <1>4, GotoFacts, "catch" \in Pcs DEF Refused, Pcs
  <2>2. "catch" # "saveEvent" /\ "catch" # "save"
    OBVIOUS
  <2> DEFINE pc == "catch"
  <2>3. /\ At(i, pc, worker[i].batch, worker[i].current, worker[i].event)
        /\ pc # "saveEvent" /\ pc # "save"
    BY <2>1, <2>2
  <2> HIDE DEF pc
  <2> QED BY <1>1, <1>2, <2>3, MirrorCall
<1> QED BY <1>3, <1>4

\* The event of a cancelled booking is deleted.
LEMMA MirrorDelete ==
  ASSUME TypeOK, QueueInv, QuietParts, MirrorParts, NEW i \in Instance,
         NEW s \in worker[i].current, Delete(i, s)
  PROVE  MirrorParts'
<1>1. /\ worker[i].pc = "call" /\ s.status = "cancelled" /\ s.event # NoEvent
      /\ calendar' = [calendar EXCEPT ![s.event] = Deleted]
      /\ UNCHANGED <<bookings, disturbed>>
  BY DEF Delete
<1>2. /\ s.event \in Event /\ s.id \in Booking /\ calendar'[s.event] = Deleted
      /\ \A e \in Event \ {s.event} : calendar'[e] = calendar[e]
  BY <1>1, OwnEvent DEF TypeOK
<1>3. PICK pc \in {"save", "catch"} :
        At(i, pc, worker[i].batch, worker[i].current, worker[i].event)
  BY CallFacts
<1>4. \A x \in Booking \ {s.id}, e \in Event :
        (e \in Entries(x)' <=> e \in Entries(x)) /\ (e \in Entries(x) => calendar'[e] = calendar[e])
  BY <1>1, <1>2, OwnEvent DEF Entries, InCalendar
<1>5. EventsOwned'
  BY <1>1, <1>2 DEF MirrorParts, EventsOwned, Exists, TypeOK, Doc
<1>6. Entries(s.id)' = {}
  <2>1. ASSUME NEW e \in Event, e \in Entries(s.id)' PROVE FALSE
    <3>1. InCalendar(e)' /\ calendar'[e].booking = s.id
      BY <2>1 DEF Entries
    <3>2. e # s.event
      BY <1>2, <3>1 DEF InCalendar
    <3>3. e \in Entries(s.id)
      BY <1>2, <3>1, <3>2 DEF Entries, InCalendar
    <3> QED BY <1>1, <3>2, <3>3, OwnEvent
  <2> QED BY <2>1 DEF Entries
<1>7. s.id \notin disturbed => Looks(s.id)'
  BY <1>1, <1>6, OwnEvent DEF Looks
<1>8. pc # "saveEvent"
  BY <1>3
<1> QED BY <1>1, <1>3, <1>4, <1>5, <1>7, <1>8, MirrorCall

\* The event of a confirmed booking is given the times of the copy.
LEMMA MirrorPatch ==
  ASSUME TypeOK, QueueInv, QuietParts, MirrorParts, NEW i \in Instance,
         NEW s \in worker[i].current, Patch(i, s)
  PROVE  MirrorParts'
<1>1. /\ worker[i].pc = "call" /\ s.status = "confirmed" /\ s.event # NoEvent
      /\ InCalendar(s.event) /\ calendar' = [calendar EXCEPT ![s.event].time = s.time]
      /\ UNCHANGED <<bookings, disturbed>>
  BY DEF Patch
<1>2. /\ s.event \in Event /\ s.id \in Booking /\ s.time \in Nat /\ Exists(s.id)
      /\ s.event = bookings[s.id].event
      /\ \A e \in Event \ {s.event} : calendar'[e] = calendar[e]
  BY <1>1, OwnEvent, AllHeldExist DEF TypeOK, Seen
<1>3. calendar[s.event] \in Entry /\ calendar[s.event].booking = s.id
  BY <1>1, <1>2 DEF MirrorParts, EventsOwned, InCalendar
<1>4. /\ calendar'[s.event] \in Entry /\ calendar'[s.event].booking = s.id
      /\ calendar'[s.event].time = s.time
  <2> DEFINE x == [calendar[s.event] EXCEPT !.time = s.time]
  <2>1. x \in Entry /\ x.booking = s.id /\ x.time = s.time
    BY <1>2, <1>3 DEF Entry
  <2>2. calendar'[s.event] = x
    BY <1>1, <1>2 DEF TypeOK
  <2> QED BY <2>1, <2>2
<1>5. PICK pc \in {"save", "catch"} :
        At(i, pc, worker[i].batch, worker[i].current, worker[i].event)
  BY CallFacts
<1>6. \A x \in Booking \ {s.id}, e \in Event :
        (e \in Entries(x)' <=> e \in Entries(x)) /\ (e \in Entries(x) => calendar'[e] = calendar[e])
  <2> SUFFICES ASSUME NEW x \in Booking \ {s.id}, NEW e \in Event
               PROVE  /\ e \in Entries(x)' <=> e \in Entries(x)
                      /\ e \in Entries(x) => calendar'[e] = calendar[e]
    OBVIOUS
  <2>1. CASE e = s.event
    BY <1>3, <1>4, <2>1 DEF Entries
  <2>2. CASE e # s.event
    BY <1>2, <2>2 DEF Entries, InCalendar
  <2> QED BY <2>1, <2>2
<1>7. EventsOwned'
  <2> SUFFICES ASSUME NEW x \in Booking, Exists(x), bookings[x].event # NoEvent
               PROVE  \/ calendar'[bookings[x].event] = Deleted
                      \/ /\ calendar'[bookings[x].event] \in Entry
                         /\ calendar'[bookings[x].event].booking = x
    BY <1>1 DEF EventsOwned, Exists
  <2>1. bookings[x].event \in Event
    BY DEF TypeOK, Exists, Doc
  <2>2. CASE bookings[x].event = s.event
    BY <1>1, <1>3, <1>4, <2>2 DEF MirrorParts, EventsOwned, InCalendar
  <2>3. CASE bookings[x].event # s.event
    BY <1>2, <2>1, <2>3 DEF MirrorParts, EventsOwned
  <2> QED BY <2>2, <2>3
<1>8. Entries(s.id)' = {s.event}
  <2>1. s.event \in Entries(s.id)'
    BY <1>2, <1>4, NullsAreNotEntries DEF Entries, InCalendar
  <2>2. ASSUME NEW e \in Event, e \in Entries(s.id)', e # s.event PROVE FALSE
    <3>1. e \in Entries(s.id)
      BY <1>2, <2>2 DEF Entries, InCalendar
    <3> QED BY <1>1, <2>2, <3>1, OwnEvent
  <2> QED BY <2>1, <2>2 DEF Entries
<1>9. s.id \notin disturbed => Looks(s.id)'
  <2> SUFFICES ASSUME s.id \notin disturbed PROVE Looks(s.id)'
    OBVIOUS
  <2>1. bookings'[s.id].status = "confirmed" /\ bookings'[s.id].time = s.time
    BY <1>1, OwnEvent
  <2> QED BY <1>2, <1>4, <1>8, <2>1 DEF Looks
<1>10. pc # "saveEvent"
  BY <1>5
<1> QED BY <1>1, <1>5, <1>6, <1>7, <1>9, <1>10, MirrorCall

\* An event is made for a confirmed booking that has none.
LEMMA MirrorInsert ==
  ASSUME TypeOK, QueueInv, QuietParts, MirrorParts, NEW i \in Instance,
         NEW s \in worker[i].current, NEW e \in Event, Insert(i, s, e), UNCHANGED mishaps
  PROVE  MirrorParts'
<1>1. /\ worker[i].pc = "call" /\ s.status = "confirmed" /\ calendar[e] = Unused
      /\ calendar' = [calendar EXCEPT ![e] = [booking |-> s.id, time |-> s.time]]
      /\ UNCHANGED <<bookings, disturbed>>
  BY DEF Insert
<1>2. /\ calendar'[e] = [booking |-> s.id, time |-> s.time]
      /\ \A f \in Event \ {e} : calendar'[f] = calendar[f]
      /\ s.id \in Booking
  BY <1>1, OwnEvent DEF TypeOK
<1>3. At(i, "saveEvent", worker[i].batch, worker[i].current, e)
  <2>1. mishaps \in Nat
    BY DEF TypeOK
  <2> QED BY <2>1, CallFacts
<1>4. \A x \in Booking \ {s.id}, f \in Event :
        (f \in Entries(x)' <=> f \in Entries(x)) /\ (f \in Entries(x) => calendar'[f] = calendar[f])
  <2> SUFFICES ASSUME NEW x \in Booking \ {s.id}, NEW f \in Event
               PROVE  /\ f \in Entries(x)' <=> f \in Entries(x)
                      /\ f \in Entries(x) => calendar'[f] = calendar[f]
    OBVIOUS
  <2>1. CASE f = e
    BY <1>1, <1>2, <2>1 DEF Entries, InCalendar
  <2>2. CASE f # e
    BY <1>2, <2>2 DEF Entries, InCalendar
  <2> QED BY <2>1, <2>2
<1>5. EventsOwned'
  <2> SUFFICES ASSUME NEW x \in Booking, Exists(x), bookings[x].event # NoEvent
               PROVE  \/ calendar'[bookings[x].event] = Deleted
                      \/ /\ calendar'[bookings[x].event] \in Entry
                         /\ calendar'[bookings[x].event].booking = x
    BY <1>1 DEF EventsOwned, Exists
  <2>1. bookings[x].event \in Event
    BY DEF TypeOK, Exists, Doc
  <2>2. bookings[x].event # e
    BY <1>1, NullsAreNotEntries DEF MirrorParts, EventsOwned
  <2> QED BY <1>2, <2>1, <2>2 DEF MirrorParts, EventsOwned
<1> DEFINE pc == "saveEvent"
<1>6. At(i, pc, worker[i].batch, worker[i].current, e) /\ pc # "save"
  BY <1>3
<1> HIDE DEF pc
<1> QED BY <1>1, <1>2, <1>4, <1>5, <1>6, MirrorCall

\* The new event's id is stored in the booking.
LEMMA MirrorSaveEvent ==
  ASSUME TypeOK, QueueInv, QuietParts, MirrorParts, NEW i \in Instance,
         NEW s \in worker[i].current, SaveEvent(i, s)
  PROVE  MirrorParts'
<1>1. /\ worker[i].pc = "saveEvent" /\ Working(i) /\ UNCHANGED <<calendar, disturbed>>
      /\ At(i, "save", worker[i].batch, worker[i].current, worker[i].event)
  BY ResultFacts DEF SaveEvent, Working
<1>2. /\ s.id \in Booking /\ bookings[s.id] \in Doc /\ Exists(s.id)
      /\ \A t \in worker[i].current : t = s
  BY HeldFacts, AllHeldExist DEF QuietParts, OneSnapshot
<1>3. PICK e \in Event : e = worker[i].event
  BY <1>1 DEF MirrorParts, ResultsLook
<1>4. /\ s.status = "confirmed" /\ calendar[e] = [booking |-> s.id, time |-> s.time]
      /\ bookings[s.id].event = NoEvent
  BY <1>1, <1>3 DEF MirrorParts, ResultsLook, QuietParts, EventsKnown
<1>5. /\ \A x \in Booking \ {s.id} : bookings'[x] = bookings[x]
      /\ bookings'[s.id].status = bookings[s.id].status
      /\ bookings'[s.id].time = bookings[s.id].time
      /\ bookings'[s.id].sync = bookings[s.id].sync
      /\ bookings'[s.id].event = e
  <2>1. bookings' = [bookings EXCEPT ![s.id] = [bookings[s.id] EXCEPT !.event = e]]
    BY <1>2, <1>3 DEF SaveEvent, WithEvent, TypeOK
  <2>2. bookings'[s.id] = [bookings[s.id] EXCEPT !.event = e]
    BY <1>2, <2>1 DEF TypeOK
  <2>3. \A x \in Booking \ {s.id} : bookings'[x] = bookings[x]
    BY <2>1 DEF TypeOK
  <2> QED BY <1>2, <2>2, <2>3 DEF Doc
<1>6. \A x \in Booking : Entries(x)' = Entries(x)
  BY <1>1 DEF Entries, InCalendar
<1>7. EventsOwned'
  <2> SUFFICES ASSUME NEW x \in Booking, Exists(x)', bookings'[x].event # NoEvent
               PROVE  \/ calendar[bookings'[x].event] = Deleted
                      \/ /\ calendar[bookings'[x].event] \in Entry
                         /\ calendar[bookings'[x].event].booking = x
    BY <1>1 DEF EventsOwned
  <2>1. CASE x = s.id
    <3>1. s.time \in Nat
      BY HeldFacts DEF Seen
    <3>2. calendar[e] \in Entry /\ calendar[e].booking = s.id
      BY <1>2, <1>4, <3>1 DEF Entry
    <3> QED BY <1>5, <2>1, <3>2
  <2>2. CASE x # s.id
    BY <1>5, <2>2 DEF MirrorParts, EventsOwned, Exists
  <2> QED BY <2>1, <2>2
<1>8. SyncedLook'
  <2> SUFFICES ASSUME NEW x \in Booking, Exists(x)', bookings'[x].sync = "synced",
                      x \notin disturbed
               PROVE  Looks(x)'
    BY <1>1 DEF SyncedLook
  <2>1. x # s.id
    BY <1>5 DEF MirrorParts, FreshCopies
  <2>2. Looks(x)
    BY <1>5, <2>1 DEF MirrorParts, SyncedLook, Exists
  <2> QED BY <1>1, <1>5, <1>6, <2>1, <2>2 DEF Looks
<1>9. \A t \in worker[i].batch \cup worker[i].current : t.id \notin disturbed =>
        /\ bookings'[t.id].status = t.status /\ bookings'[t.id].time = t.time
        /\ bookings'[t.id].sync # "synced"
  <2> SUFFICES ASSUME NEW t \in worker[i].batch \cup worker[i].current, t.id \notin disturbed
               PROVE  /\ bookings'[t.id].status = t.status /\ bookings'[t.id].time = t.time
                      /\ bookings'[t.id].sync # "synced"
    OBVIOUS
  <2>1. t.id \in Booking
    BY AllHeldExist
  <2> QED BY <1>5, <2>1 DEF MirrorParts, FreshCopies
<1>10. Entries(s.id) = {e}
  <2>1. ASSUME NEW f \in Entries(s.id) PROVE f = e
    <3>1. f \in Event
      BY DEF Entries
    <3>2. bookings[s.id].event = f \/ worker[i].event = f
      BY <1>1, <1>2, ShownAtWork
    <3> QED BY <1>3, <1>4, <3>1, <3>2, NullsAreNotIds
  <2>2. e \in Entries(s.id)
    <3>1. s.time \in Nat
      BY HeldFacts DEF Seen
    <3>2. calendar[e] \in Entry /\ calendar[e].booking = s.id
      BY <1>2, <1>4, <3>1 DEF Entry
    <3> QED BY <3>2, NullsAreNotEntries DEF Entries, InCalendar
  <2> QED BY <2>1, <2>2
<1>11. \A t \in worker[i].current : t.id \notin disturbed => Looks(t.id)'
  <2> SUFFICES ASSUME s.id \notin disturbed PROVE Looks(s.id)'
    BY <1>2
  <2>1. bookings'[s.id].status = "confirmed" /\ bookings'[s.id].time = s.time
    BY <1>4, <1>5, <1>9
  <2>2. Entries(s.id)' = {e}
    BY <1>2, <1>6, <1>10
  <2>3. calendar'[e].time = s.time
    BY <1>1, <1>4
  <2> QED BY <2>1, <2>2, <2>3 DEF Looks
<1>12. \A j \in Instance \ {i} :
         worker[j].pc = "idle" /\ worker[j].batch = {} /\ worker[j].current = {}
  BY <1>1, Alone
<1> DEFINE pc == "save"
<1>13. At(i, pc, worker[i].batch, worker[i].current, worker[i].event) /\ pc # "saveEvent"
  BY <1>1
<1> HIDE DEF pc
<1> QED BY <1>1, <1>7, <1>8, <1>9, <1>11, <1>12, <1>13, MirrorStep

\* Every step without a mishap keeps the mirror.
LEMMA NextKeepsMirror ==
  TypeOK /\ QueueInv /\ QuietInv /\ MirrorInv /\ [Next]_vars => MirrorInv'
<1> SUFFICES ASSUME TypeOK, QueueInv, QuietInv, MirrorInv, [Next]_vars, mishaps' = 0
             PROVE  MirrorParts'
  BY DEF MirrorInv
<1>1. mishaps = 0
  <2>1. mishaps \in Nat
    BY DEF TypeOK
  <2>2. mishaps' >= mishaps
    <3>1. ASSUME NEW b \in Booking, Edit(b) \/ BackoffEnds(b) PROVE mishaps' >= mishaps
      BY <2>1, <3>1, EditFacts
    <3>2. ASSUME Connect \/ LeaseExpires \/ UNCHANGED vars PROVE mishaps' >= mishaps
      BY <2>1, <3>2 DEF Connect, LeaseExpires, vars
    <3>3. ASSUME NEW i \in Instance, Work(i) \/ Crash(i) PROVE mishaps' >= mishaps
      <4>1. ASSUME NEW s \in worker[i].current,
                   Skip(i, s) \/ Save(i, s) \/ Catch(i, s) \/ SaveEvent(i, s)
            PROVE  mishaps' >= mishaps
        BY <2>1, <4>1, ResultFacts
      <4>2. ASSUME NEW s \in worker[i].current,
                   \/ NothingToDelete(i, s) \/ Delete(i, s) \/ Patch(i, s) \/ Refused(i, s)
                   \/ \E e \in Event : Insert(i, s, e)
            PROVE  mishaps' >= mishaps
        BY <4>2, CallFacts
      <4>3. ASSUME Tick(i) \/ Fetch(i) \/ Finish(i) \/ Crash(i)
                   \/ \E s \in worker[i].batch : Begin(i, s)
            PROVE  mishaps' >= mishaps
        <5>1. mishaps' = mishaps \/ mishaps' = mishaps + 1
          BY <4>3 DEF Tick, Fetch, Finish, Crash, Begin
        <5> QED BY <2>1, <5>1
      <4> QED BY <3>3, <4>1, <4>2, <4>3 DEF Work, SyncOne
    <3> QED BY <3>1, <3>2, <3>3 DEF Next
  <2>3. mishaps' = 0
    OBVIOUS
  <2> QED BY <2>1, <2>2, <2>3
<1>2. QuietParts /\ MirrorParts
  BY <1>1 DEF QuietInv, QuietParts, MirrorInv
<1>3. ASSUME NEW b \in Booking, Edit(b) PROVE MirrorParts'
  BY <1>2, <1>3, MirrorEdit
<1>4. ASSUME NEW b \in Booking, BackoffEnds(b) PROVE MirrorParts'
  <2>1. /\ UNCHANGED <<calendar, worker, disturbed>>
        /\ bookings' = [bookings EXCEPT ![b].due = TRUE] /\ Exists(b)
    BY <1>4 DEF BackoffEnds
  <2>2. bookings[b] \in Doc /\ bookings \in [Booking -> Doc \cup {NoDoc}]
    BY <2>1 DEF TypeOK, Exists
  <2>3. bookings'[b] = [bookings[b] EXCEPT !.due = TRUE]
        /\ \A x \in Booking \ {b} : bookings'[x] = bookings[x]
    BY <2>1, <2>2
  <2>4. /\ bookings'[b].status = bookings[b].status /\ bookings'[b].time = bookings[b].time
        /\ bookings'[b].sync = bookings[b].sync /\ bookings'[b].event = bookings[b].event
    BY <2>2, <2>3 DEF Doc
  <2>5. [bookings[b] EXCEPT !.due = TRUE] \in Doc
    BY <2>2, DocFacts
  <2>6. \A x \in Booking : Exists(x)' <=> Exists(x)
    BY <2>1, <2>3, <2>5, NullIsNoDoc DEF Exists
  <2>7. \A x \in Booking : Exists(x) => /\ bookings'[x].status = bookings[x].status
                                        /\ bookings'[x].time = bookings[x].time
                                        /\ bookings'[x].sync = bookings[x].sync
                                        /\ bookings'[x].event = bookings[x].event
    BY <2>3, <2>4
  <2> QED BY <1>2, <2>1, <2>6, <2>7, MirrorRest
<1>5. ASSUME Connect \/ LeaseExpires \/ UNCHANGED vars PROVE MirrorParts'
  <2>1. UNCHANGED <<bookings, calendar, worker, disturbed>>
    BY <1>5 DEF Connect, LeaseExpires, vars
  <2>2. \A x \in Booking : Exists(x)' <=> Exists(x)
    BY <2>1 DEF Exists
  <2> QED BY <1>2, <2>1, <2>2, MirrorRest
<1>6. ASSUME NEW i \in Instance, Work(i) PROVE MirrorParts'
  <2>1. CASE Tick(i) \/ Fetch(i) \/ Finish(i) \/ \E s \in worker[i].batch : Begin(i, s)
    BY <1>2, <2>1, MirrorBatch
  <2>2. ASSUME NEW s \in worker[i].current, Skip(i, s) \/ Save(i, s) \/ Catch(i, s)
        PROVE  MirrorParts'
    BY <1>2, <2>2, MirrorResult
  <2>3. ASSUME NEW s \in worker[i].current, SaveEvent(i, s) PROVE MirrorParts'
    BY <1>2, <2>3, MirrorSaveEvent
  <2>4. ASSUME NEW s \in worker[i].current,
               NothingToDelete(i, s) \/ Delete(i, s) \/ Patch(i, s) \/ Refused(i, s)
        PROVE  MirrorParts'
    BY <1>2, <2>4, MirrorNothing, MirrorDelete, MirrorPatch
  <2>5. ASSUME NEW s \in worker[i].current, NEW e \in Event, Insert(i, s, e)
        PROVE  MirrorParts'
    BY <1>1, <1>2, <2>5, MirrorInsert
  <2> QED BY <1>6, <2>1, <2>2, <2>3, <2>4, <2>5 DEF Work, SyncOne
<1>7. ASSUME NEW i \in Instance, Crash(i) PROVE MirrorParts'
  <2>1. mishaps' > mishaps
    BY <1>7, BatchFacts
  <2> QED BY <1>1, <2>1
<1> QED BY <1>3, <1>4, <1>5, <1>6, <1>7 DEF Next

\* A booking that Google shows as it is has one event, or none once cancelled.
LEMMA LooksMirrored == \A b \in Booking : Looks(b) => Mirrored(b)
<1> SUFFICES ASSUME NEW b \in Booking, Looks(b) PROVE Mirrored(b)
  OBVIOUS
<1>1. CASE bookings[b].status = "confirmed"
  <2>1. PICK e \in Event : Entries(b) = {e} /\ calendar[e].time = bookings[b].time
    BY <1>1 DEF Looks
  <2>2. Cardinality({e}) = 1
    BY FS_Singleton
  <2> QED BY <1>1, <2>1, <2>2 DEF Mirrored
<1>2. CASE bookings[b].status # "confirmed"
  BY <1>2 DEF Looks, Mirrored
<1> QED BY <1>1, <1>2

\* A booking marked 'synced' looks in Google Calendar as it does here, for any
\* number of processes, unless it was edited behind a worker's back (syncOne).
THEOREM SyncedIsMirrored == Spec => []SyncedUnlessDisturbed
<1>1. Init => TypeOK /\ QueueInv /\ QuietInv
  BY InitQueue, InitQuiet
<1>2. Init => MirrorInv
  <2> SUFFICES ASSUME Init PROVE MirrorParts
    BY DEF MirrorInv
  <2>1. /\ \A b \in Booking : ~Exists(b)
        /\ \A i \in Instance : worker[i].batch = {} /\ worker[i].current = {}
    BY DEF Init, Exists, Resting
  <2> QED BY <2>1 DEF MirrorParts, EventsOwned, FreshCopies, ResultsLook, SyncedLook
<1>3. TypeOK /\ QueueInv /\ QuietInv /\ MirrorInv /\ [Next]_vars
        => (TypeOK /\ QueueInv /\ QuietInv /\ MirrorInv)'
  BY NextKeepsQueue, NextKeepsQuiet, NextKeepsMirror
<1>4. MirrorInv => SyncedUnlessDisturbed
  BY LooksMirrored DEF MirrorInv, MirrorParts, SyncedLook, SyncedUnlessDisturbed, Settled
<1> QED BY <1>1, <1>2, <1>3, <1>4, PTL DEF Spec
=============================================================================
