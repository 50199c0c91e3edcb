---------------------------- MODULE CalendarSync ----------------------------
(***************************************************************************)
(* The worker that mirrors bookings to Google Calendar                     *)
(* (calendar/sync-worker.js), under the lease of workerLease.js, while the *)
(* handlers of bookingService.js and routes/exceptions.js edit the same    *)
(* booking documents.  One business; each backend process is an instance.  *)
(*                                                                         *)
(* A batch is a set of document snapshots: everything the worker knows of  *)
(* a booking while it talks to Google was read before the batch began.     *)
(***************************************************************************)
EXTENDS Integers, FiniteSets

CONSTANTS
  Booking,      \* ids of bookings
  Instance,     \* backend processes
  Event,        \* event ids Google can assign
  NoEvent,      \* google_event_id null
  Unused,       \* no event was ever stored under an id
  Deleted,      \* the event under an id was deleted
  NoDoc,        \* no booking document under an id
  Nobody,       \* no lease document yet
  Dead,         \* the owner of a lease is a process that died
  MaxAttempts,  \* MAX_ATTEMPTS
  MaxEdits,     \* bound: edits after the creation of the bookings
  MaxMishaps    \* bound: crashes, lost answers and overrun leases

ASSUME AttemptsArePositive == MaxAttempts \in Nat \ {0}

ASSUME NullsAreNotIds ==
  NoEvent \notin Event /\ Nobody \notin Instance /\ Dead \notin Instance

VARIABLES
  bookings,   \* bookings collection, the fields the worker looks at
  calendar,   \* what Google stores under each event id
  connected,  \* the business has a google_refresh_token
  lease,      \* worker_leases document 'calendar-sync'
  worker,     \* each instance's progress through its batch
  edits,      \* edits so far; also the start time a booking is moved to
  mishaps,    \* history: crashes, lost answers and overrun leases so far
  disturbed   \* history: bookings last edited while a batch was holding them

vars == <<bookings, calendar, connected, lease, worker, edits, mishaps, disturbed>>

-----------------------------------------------------------------------------
(* Documents.                                                              *)

\* due: next_retry_at is null or has passed.
Doc ==
  [status : {"confirmed", "cancelled"}, test : BOOLEAN, time : Nat,
   sync : {"pending", "synced", "failed", "skipped"},
   attempts : Nat, due : BOOLEAN, event : Event \cup {NoEvent}]

ASSUME NullIsNoDoc == NoDoc \notin Doc

Entry == [booking : Booking, time : Nat]

ASSUME NullsAreNotEntries ==
  Unused # Deleted /\ Unused \notin Entry /\ Deleted \notin Entry

Exists(b) == bookings[b] # NoDoc

InCalendar(e) == calendar[e] # Unused /\ calendar[e] # Deleted

Entries(b) == {e \in Event : InCalendar(e) /\ calendar[e].booking = b}

-----------------------------------------------------------------------------
(* Edits.                                                                  *)

\* Bookings some instance has a snapshot of.
Held(i) ==
  IF worker[i].pc = "idle" THEN {}
  ELSE {s.id : s \in worker[i].batch \cup worker[i].current}

Edited(b) ==
  disturbed' = IF \E i \in Instance : b \in Held(i) THEN disturbed \cup {b}
                                                    ELSE disturbed \ {b}

\* createBooking: a test call's booking is not queued.
Create(b, isTest) ==
  /\ ~Exists(b)
  /\ bookings' = [bookings EXCEPT ![b] =
       [status |-> "confirmed", test |-> isTest, time |-> 0,
        sync |-> IF isTest THEN "skipped" ELSE "pending",
        attempts |-> 0, due |-> TRUE, event |-> NoEvent]]
  /\ UNCHANGED <<calendar, connected, lease, worker, edits, mishaps, disturbed>>

\* mutant: the queue fields are set without the attempts
RequeuedAsTried(doc) == [doc EXCEPT !.sync = "pending"]
Requeued(doc) == [doc EXCEPT !.sync = "pending", !.attempts = 0]

\* rescheduleBooking; next_retry_at keeps its old value.
Move(b) ==
  /\ edits < MaxEdits
  /\ Exists(b) /\ bookings[b].status = "confirmed"
  /\ edits' = edits + 1
  /\ bookings' = [bookings EXCEPT ![b] = [Requeued(@) EXCEPT !.time = edits + 1]]
  /\ Edited(b)
  /\ UNCHANGED <<calendar, connected, lease, worker, mishaps>>

CancelledQuietly(doc) == [doc EXCEPT !.status = "cancelled"]  \* mutant: not queued
Cancelled(doc) == [Requeued(doc) EXCEPT !.status = "cancelled"]

\* cancelBooking.
Cancel(b) ==
  /\ Exists(b) /\ bookings[b].status = "confirmed"
  /\ bookings' = [bookings EXCEPT ![b] = Cancelled(@)]
  /\ Edited(b)
  /\ UNCHANGED <<calendar, connected, lease, worker, edits, mishaps>>

\* POST /exceptions/calendar_sync/:id/retry, on a booking in any state.
Retry(b) ==
  /\ edits < MaxEdits
  /\ Exists(b)
  /\ edits' = edits + 1
  /\ bookings' = [bookings EXCEPT ![b] = [Requeued(@) EXCEPT !.due = TRUE]]
  /\ Edited(b)
  /\ UNCHANGED <<calendar, connected, lease, worker, mishaps>>

\* The OAuth callback stores a refresh token; nothing ever removes it.
Connect ==
  /\ ~connected
  /\ connected' = TRUE
  /\ UNCHANGED <<bookings, calendar, lease, worker, edits, mishaps, disturbed>>

-----------------------------------------------------------------------------
(* The lease.                                                              *)

LeaseIgnored(i) == TRUE  \* mutant: every process is the worker
Claimable(i) == lease.owner = i \/ lease.owner = Nobody \/ ~lease.live

Resting == [pc |-> "idle", batch |-> {}, current |-> {}, event |-> NoEvent]

\* A tick of the interval timer: 'running' keeps ticks from overlapping.
Tick(i) ==
  /\ worker[i].pc = "idle"
  /\ Claimable(i)
  /\ lease' = [owner |-> i, live |-> TRUE]
  /\ worker' = [worker EXCEPT ![i] = [Resting EXCEPT !.pc = "fetch"]]
  /\ UNCHANGED <<bookings, calendar, connected, edits, mishaps, disturbed>>

Working(i) == worker[i].pc # "idle"

\* The lease lasts three ticks and is not renewed during a batch: one that takes
\* longer overruns it.
LeaseExpires ==
  /\ lease.owner # Nobody /\ lease.live
  /\ LET overrun == lease.owner \in Instance /\ Working(lease.owner) IN
       /\ overrun => mishaps < MaxMishaps
       /\ mishaps' = IF overrun THEN mishaps + 1 ELSE mishaps
  /\ lease' = [lease EXCEPT !.live = FALSE]
  /\ UNCHANGED <<bookings, calendar, connected, worker, edits, disturbed>>

-----------------------------------------------------------------------------
(* A batch.                                                                *)

\* mutant: a booking gets one attempt less than it takes to be given up
QueuedOneShort(b) ==
  /\ Exists(b)
  /\ bookings[b].sync \in {"pending", "failed"}
  /\ bookings[b].attempts < MaxAttempts - 1 /\ bookings[b].due
\* mutant: a booking that was given up is tried again
QueuedAnyAttempts(b) ==
  /\ Exists(b)
  /\ bookings[b].sync \in {"pending", "failed"} /\ bookings[b].due
Queued(b) ==
  /\ Exists(b)
  /\ bookings[b].sync \in {"pending", "failed"}
  /\ bookings[b].attempts < MaxAttempts /\ bookings[b].due

Snapshot(b) ==
  [id |-> b, status |-> bookings[b].status, time |-> bookings[b].time,
   attempts |-> bookings[b].attempts, event |-> bookings[b].event]

\* runSyncOnce reads its batch.
Fetch(i) ==
  /\ worker[i].pc = "fetch"
  /\ worker' = [worker EXCEPT ![i].pc = "next",
                  ![i].batch = {Snapshot(b) : b \in {x \in Booking : Queued(x)}}]
  /\ UNCHANGED <<bookings, calendar, connected, lease, edits, mishaps, disturbed>>

\* syncOne begins: is the business connected by now?
Begin(i, s) ==
  /\ worker[i].pc = "next"
  /\ s \in worker[i].batch
  /\ worker' = [worker EXCEPT ![i].batch = @ \ {s}, ![i].current = {s},
                  ![i].pc = IF connected THEN "call" ELSE "skip"]
  /\ UNCHANGED <<bookings, calendar, connected, lease, edits, mishaps, disturbed>>

Finish(i) ==
  /\ worker[i].pc = "next"
  /\ worker[i].batch = {}
  /\ worker' = [worker EXCEPT ![i] = Resting]
  /\ UNCHANGED <<bookings, calendar, connected, lease, edits, mishaps, disturbed>>

Goto(i, pc) == worker' = [worker EXCEPT ![i].pc = pc]
Done(i) ==
  worker' = [worker EXCEPT ![i].pc = "next", ![i].current = {}, ![i].event = NoEvent]

Skip(i, s) ==
  /\ worker[i].pc = "skip" /\ s \in worker[i].current
  /\ bookings' = [bookings EXCEPT ![s.id].sync = "skipped"]
  /\ Done(i)
  /\ UNCHANGED <<calendar, connected, lease, edits, mishaps, disturbed>>

\* A cancelled booking that has no event: nothing to ask of Google.
NothingToDelete(i, s) ==
  /\ worker[i].pc = "call" /\ s \in worker[i].current
  /\ s.status = "cancelled" /\ s.event = NoEvent
  /\ Goto(i, "save")
  /\ UNCHANGED <<bookings, calendar, connected, lease, edits, mishaps, disturbed>>

\* Google does what it is asked.  An answer that is lost leaves the effect in
\* place and takes the handler to its catch block.
Answered(i, pc) ==
  \/ Goto(i, pc) /\ UNCHANGED mishaps
  \/ Goto(i, "catch") /\ mishaps < MaxMishaps /\ mishaps' = mishaps + 1

\* deleteEvent: an event that is already gone is fine.
Delete(i, s) ==
  /\ worker[i].pc = "call" /\ s \in worker[i].current
  /\ s.status = "cancelled" /\ s.event # NoEvent
  /\ calendar' = [calendar EXCEPT ![s.event] = Deleted]
  /\ Answered(i, "save")
  /\ UNCHANGED <<bookings, connected, lease, edits, disturbed>>

\* updateEvent patches the recorded event, with the times of the snapshot.
Patch(i, s) ==
  /\ worker[i].pc = "call" /\ s \in worker[i].current
  /\ s.status = "confirmed" /\ s.event # NoEvent
  /\ InCalendar(s.event)
  /\ calendar' = [calendar EXCEPT ![s.event].time = s.time]
  /\ Answered(i, "save")
  /\ UNCHANGED <<bookings, connected, lease, edits, disturbed>>

\* createEvent: Google assigns an id it never used.
Insert(i, s, e) ==
  /\ worker[i].pc = "call" /\ s \in worker[i].current
  /\ s.status = "confirmed" /\ s.event = NoEvent
  /\ calendar[e] = Unused
  /\ calendar' = [calendar EXCEPT ![e] = [booking |-> s.id, time |-> s.time]]
  /\ \/ /\ worker' = [worker EXCEPT ![i].pc = "saveEvent", ![i].event = e]
        /\ UNCHANGED mishaps
     \/ Goto(i, "catch") /\ mishaps < MaxMishaps /\ mishaps' = mishaps + 1
  /\ UNCHANGED <<bookings, connected, lease, edits, disturbed>>

\* Google (or the lookup of the service) fails, with no effect.
Refused(i, s) ==
  /\ worker[i].pc = "call" /\ s \in worker[i].current
  /\ ~(s.status = "cancelled" /\ s.event = NoEvent)
  /\ Goto(i, "catch")
  /\ UNCHANGED <<bookings, calendar, connected, lease, edits, mishaps, disturbed>>

WithoutEvent(doc, e) == doc  \* mutant: the event id is not stored
WithEvent(doc, e) == [doc EXCEPT !.event = e]

SaveEvent(i, s) ==
  /\ worker[i].pc = "saveEvent" /\ s \in worker[i].current
  /\ bookings' = [bookings EXCEPT ![s.id] = WithEvent(@, worker[i].event)]
  /\ Goto(i, "save")
  /\ UNCHANGED <<calendar, connected, lease, edits, mishaps, disturbed>>

\* Whatever happened to the booking since the batch was read.
Save(i, s) ==
  /\ worker[i].pc = "save" /\ s \in worker[i].current
  /\ bookings' = [bookings EXCEPT ![s.id].sync = "synced"]
  /\ Done(i)
  /\ UNCHANGED <<calendar, connected, lease, edits, mishaps, disturbed>>

\* The catch block counts from the snapshot, not from the document.
Catch(i, s) ==
  /\ worker[i].pc = "catch" /\ s \in worker[i].current
  /\ LET n == s.attempts + 1 IN
       bookings' = [bookings EXCEPT
         ![s.id].sync = IF n >= MaxAttempts THEN "failed" ELSE "pending",
         ![s.id].attempts = n,
         ![s.id].due = FALSE]
  /\ Done(i)
  /\ UNCHANGED <<calendar, connected, lease, edits, mishaps, disturbed>>

\* next_retry_at passes.
BackoffEnds(b) ==
  /\ Exists(b) /\ ~bookings[b].due
  /\ bookings' = [bookings EXCEPT ![b].due = TRUE]
  /\ UNCHANGED <<calendar, connected, lease, worker, edits, mishaps, disturbed>>

\* The process dies and comes back under a new INSTANCE_ID.
Crash(i) ==
  /\ Working(i) /\ mishaps < MaxMishaps
  /\ mishaps' = mishaps + 1
  /\ worker' = [worker EXCEPT ![i] = Resting]
  /\ lease' = IF lease.owner = i THEN [lease EXCEPT !.owner = Dead] ELSE lease
  /\ UNCHANGED <<bookings, calendar, connected, edits, disturbed>>

-----------------------------------------------------------------------------
Init ==
  /\ bookings = [b \in Booking |-> NoDoc]
  /\ calendar = [e \in Event |-> Unused]
  /\ connected \in BOOLEAN
  /\ lease = [owner |-> Nobody, live |-> FALSE]
  /\ worker = [i \in Instance |-> Resting]
  /\ edits = 0 /\ mishaps = 0 /\ disturbed = {}

Edit(b) ==
  \/ \E isTest \in BOOLEAN : Create(b, isTest)
  \/ Move(b)
  \/ Cancel(b)
  \/ Retry(b)

\* One booking of the batch, from its first look at the business to its result.
SyncOne(i) ==
  \/ \E s \in worker[i].batch : Begin(i, s)
  \/ \E s \in worker[i].current :
       \/ Skip(i, s)
       \/ NothingToDelete(i, s)
       \/ Delete(i, s)
       \/ Patch(i, s)
       \/ \E e \in Event : Insert(i, s, e)
       \/ Refused(i, s)
       \/ SaveEvent(i, s)
       \/ Save(i, s)
       \/ Catch(i, s)

Work(i) == Tick(i) \/ Fetch(i) \/ SyncOne(i) \/ Finish(i)

Next ==
  \/ \E b \in Booking : Edit(b) \/ BackoffEnds(b)
  \/ \E i \in Instance : Work(i) \/ Crash(i)
  \/ Connect
  \/ LeaseExpires

\* The interval timers keep firing, the worker's awaits all come back, and time
\* passes for leases and retries.  Users, Google and crashes promise nothing.
Fairness ==
  /\ \A i \in Instance : WF_vars(Work(i))
  /\ \A b \in Booking : WF_vars(BackoffEnds(b))
  /\ WF_vars(LeaseExpires)

Spec == Init /\ [][Next]_vars /\ Fairness

-----------------------------------------------------------------------------
(* Properties.                                                             *)

WorkerState ==
  LET Seen == [id : Booking, status : {"confirmed", "cancelled"}, time : Nat,
               attempts : 0..(MaxAttempts - 1), event : Event \cup {NoEvent}] IN
  [pc : {"idle", "fetch", "next", "skip", "call", "saveEvent", "save", "catch"},
   batch : SUBSET Seen, current : SUBSET Seen, event : Event \cup {NoEvent}]

\* Shapes; a snapshot is only ever taken of a booking with attempts left.
TypeOK ==
  /\ bookings \in [Booking -> Doc \cup {NoDoc}]
  /\ calendar \in [Event -> Entry \cup {Unused, Deleted}]
  /\ connected \in BOOLEAN
  /\ lease \in [owner : Instance \cup {Nobody, Dead}, live : BOOLEAN]
  /\ worker \in [Instance -> WorkerState]
  /\ edits \in Nat /\ mishaps \in Nat /\ disturbed \subseteq Booking

\* A booking is never stuck where neither the worker nor the owner looks: one
\* that waits has attempts left, and one becomes 'failed' (an Exceptions item) only
\* when every attempt is used, however edits and stale writes interleave.
SomebodyLooks ==
  \A b \in Booking : Exists(b) =>
    /\ bookings[b].sync = "pending" => bookings[b].attempts < MaxAttempts
    /\ bookings[b].sync = "failed" => bookings[b].attempts = MaxAttempts

\* What the lease, the 'running' flag and the order of the writes are for: with
\* no crash, lost answer or overrun lease, a booking never has two events.
OneEventPerBooking ==
  mishaps = 0 => \A b \in Booking : Cardinality(Entries(b)) <= 1

Mirrored(b) ==
  IF bookings[b].status = "confirmed"
  THEN /\ Cardinality(Entries(b)) = 1
       /\ \A e \in Entries(b) : calendar[e].time = bookings[b].time
  ELSE Entries(b) = {}

\* 'synced', and no worker is about to change that.
Settled(b) ==
  /\ Exists(b) /\ bookings[b].sync = "synced"
  /\ \A i \in Instance : b \notin Held(i)

\* A booking marked 'synced' looks in Google as it does here, unless its last
\* edit came while a worker was holding an older copy of it.
SyncedUnlessDisturbed ==
  mishaps = 0 => \A b \in Booking : Settled(b) /\ b \notin disturbed => Mirrored(b)

\* Every queued booking is dealt with: it is mirrored, given up after all its
\* attempts, or skipped, whatever Google answers and whichever process dies.
QueueDrains ==
  \A b \in Booking :
    (Exists(b) /\ bookings[b].sync = "pending")
      ~> (Exists(b) /\ bookings[b].sync # "pending")
=============================================================================
