------------------------------ MODULE Booking ------------------------------
(***************************************************************************)
(* The booking service of one business (services/bookingService.js) with   *)
(* the two deletions that look at its bookings (routes/team.js,            *)
(* routes/services.js).                                                    *)
(*                                                                         *)
(* Every "await" of a handler is a point where other requests run, so each *)
(* handler is a sequence of actions and its local variables live in req.   *)
(* A MongoDB transaction and a single-document update are one action.      *)
(* Times are minutes.                                                      *)
(***************************************************************************)
EXTENDS Integers, FiniteSets

CONSTANTS
  Request,    \* requests that can be in flight at once
  BookingId,  \* ids newId() can return
  Person,     \* ids of staff members
  Anyone,     \* staff_id null, and the lock key 'none'
  Service,    \* ids of services
  Key,        \* idempotency keys
  NoKey,      \* no idempotency key
  NoBooking,  \* no booking document under an id
  Start,      \* start times a caller may ask for
  Length,     \* duration_minutes + buffer_minutes a service may have
  Instant,    \* values of the clock
  Notice,     \* min_booking_notice_minutes
  Grace       \* LOCK_GRACE_MS

ASSUME TimesAreMinutes ==
  /\ Start \subseteq Int /\ Length \subseteq Int /\ Instant \subseteq Int
  /\ Notice \in Nat /\ Grace \in Nat

ASSUME NullsAreNotValues ==
  Anyone \notin Person /\ NoKey \notin Key /\ NoBooking \notin BookingId

VARIABLES
  now,       \* the clock
  team,      \* staff collection: "new" (not added yet), "member" or "gone"
  services,  \* ids in the services collection
  bookings,  \* bookings collection
  locks,     \* booking_slot_locks collection
  req        \* what each request in flight knows

vars == <<now, team, services, bookings, locks, req>>

-----------------------------------------------------------------------------
(* Documents.                                                              *)

Worker == Person \cup {Anyone}

\* covers and intent are history: the staff list the locks were taken for, and
\* the key the booking was made with even after the key was released.
BookingDoc ==
  [status : {"confirmed", "cancelled"}, staff : Worker, service : Service,
   from : Int, to : Int, key : Key \cup {NoKey},
   covers : SUBSET Person, intent : Key \cup {NoKey}]

ASSUME NullIsNoDocument == NoBooking \notin BookingDoc

LockDoc ==
  [staff : Worker, slot : Int, booking : BookingId, expires : Int]

Phase == {"idle", "replay", "release", "readTeam", "commit", "collided",
          "readMoveTeam", "move", "dropStaff", "dropService"}

RequestState ==
  [pc : Phase, staff : Worker, service : Service \cup {"none"}, from : Int,
   to : Int, key : Key \cup {NoKey}, covers : SUBSET Person,
   booking : BookingId \cup {NoBooking}]

Idle ==
  [pc |-> "idle", staff |-> Anyone, service |-> "none", from |-> 0, to |-> 0,
   key |-> NoKey, covers |-> {}, booking |-> NoBooking]

Confirmed(b) == bookings[b] # NoBooking /\ bookings[b].status = "confirmed"

Members == {p \in Person : team[p] = "member"}

Goto(r, pc) == req' = [req EXCEPT ![r].pc = pc]
Answer(r)   == req' = [req EXCEPT ![r] = Idle]

-----------------------------------------------------------------------------
(* Slot locks.                                                             *)

Granularity == 5

FloorToGridNone(t) == t  \* mutant: the lock grid starts at the booking's own start

\* The grid line at or before t.
FloorToGrid(t) == t - (t % Granularity)

\* The five-minute slots a booking from s to e occupies.
SlotTimes(s, e) ==
  {t \in FloorToGrid(s)..(e - 1) : (t - FloorToGrid(s)) % Granularity = 0}

LockKeysNoneOnly(staff, covers) == {staff}  \* mutant: Anyone locks only 'none'

\* Whose slots a booking takes: its staff member's, or everybody's.
LockKeys(staff, covers) ==
  IF staff = Anyone THEN {Anyone} \cup covers ELSE {staff}

LockDocs(b, staff, covers, s, e) ==
  {[staff |-> k, slot |-> t, booking |-> b, expires |-> e + Grace] :
     k \in LockKeys(staff, covers), t \in SlotTimes(s, e)}

LocksOf(b) == {l \in locks : l.booking = b}

\* The unique index on _id: none of docs has the id of a stored lock.
Insertable(docs, stored) ==
  \A d \in docs, l \in stored : ~(d.staff = l.staff /\ d.slot = l.slot)

-----------------------------------------------------------------------------
(* POST /bookings and the create_booking tool.                             *)

\* An answer of 400 when a service's times do not add up.
AnyLength(s, e) == TRUE  \* mutant: end <= start is not refused
PositiveLength(s, e) == s < e

EnoughNotice(s) == Notice > 0 => s - now >= Notice

\* Checks up to the replay lookup.  Callers take the staff id from the staff
\* collection; a service's length may have been edited at any time before.
CreateStart(r, sv, p, s, len, k) ==
  /\ req[r].pc = "idle"
  /\ sv \in services
  /\ p \in Members \cup {Anyone}
  /\ PositiveLength(s, s + len)
  /\ EnoughNotice(s)
  /\ req' = [req EXCEPT ![r] =
       [Idle EXCEPT !.pc = IF k = NoKey THEN "readTeam" ELSE "replay",
                    !.staff = p, !.service = sv, !.from = s, !.to = s + len,
                    !.key = k]]
  /\ UNCHANGED <<now, team, services, bookings, locks>>

Holds(b, k) == bookings[b] # NoBooking /\ bookings[b].key = k

\* Look for the booking this key already made: a confirmed one is the answer.
CreateReplay(r) ==
  /\ req[r].pc = "replay"
  /\ \/ /\ \A b \in BookingId : ~Holds(b, req[r].key)
        /\ Goto(r, "readTeam")
     \/ \E b \in BookingId :
          /\ Holds(b, req[r].key)
          /\ \/ bookings[b].status = "confirmed" /\ Answer(r)
             \/ /\ bookings[b].status # "confirmed"
                /\ req' = [req EXCEPT ![r].pc = "release", ![r].booking = b]
  /\ UNCHANGED <<now, team, services, bookings, locks>>

\* mutant: the release finds its booking by key, not by the id that was read
ReleaseByKey(b, k) ==
  [o \in BookingId |->
     IF Holds(o, k) THEN [bookings[o] EXCEPT !.key = NoKey] ELSE bookings[o]]

\* updateOne({ _id, status: { $ne: 'confirmed' } }, { $unset: idempotency_key })
Released(b, k) ==
  IF bookings[b].status # "confirmed"
  THEN [bookings EXCEPT ![b].key = NoKey]
  ELSE bookings

CreateReleaseKey(r) ==
  /\ req[r].pc = "release"
  /\ bookings' = Released(req[r].booking, req[r].key)
  /\ req' = [req EXCEPT ![r].pc = "readTeam", ![r].booking = NoBooking]
  /\ UNCHANGED <<now, team, services, locks>>

\* staffIdsFor: the staff list is read before the transaction, not inside it.
StaffIdsFor(p) == IF p = Anyone THEN Members ELSE {}

CreateReadTeam(r) ==
  /\ req[r].pc = "readTeam"
  /\ req' = [req EXCEPT ![r].pc = "commit",
                        ![r].covers = StaffIdsFor(req[r].staff)]
  /\ UNCHANGED <<now, team, services, bookings, locks>>

NewDocs(r, b) == LockDocs(b, req[r].staff, req[r].covers, req[r].from, req[r].to)

KeyFree(k) == k = NoKey \/ \A b \in BookingId : ~Holds(b, k)

\* The transaction: lock documents first, then the booking, or neither.
CreateCommit(r, b) ==
  /\ req[r].pc = "commit"
  /\ bookings[b] = NoBooking
  /\ Insertable(NewDocs(r, b), locks)
  /\ KeyFree(req[r].key)
  /\ locks' = locks \cup NewDocs(r, b)
  /\ bookings' = [bookings EXCEPT ![b] =
       [status |-> "confirmed", staff |-> req[r].staff,
        service |-> req[r].service, from |-> req[r].from, to |-> req[r].to,
        key |-> req[r].key, covers |-> req[r].covers, intent |-> req[r].key]]
  /\ Answer(r)
  /\ UNCHANGED <<now, team, services>>

\* Duplicate key (11000): a slot is taken, or the key was used meanwhile.
CreateCollide(r, b) ==
  /\ req[r].pc = "commit"
  /\ bookings[b] = NoBooking
  /\ ~(Insertable(NewDocs(r, b), locks) /\ KeyFree(req[r].key))
  /\ IF req[r].key = NoKey THEN Answer(r) ELSE Goto(r, "collided")
  /\ UNCHANGED <<now, team, services, bookings, locks>>

\* Second lookup by key: answers with the booking found or with 409.
CreateAfterCollision(r) ==
  /\ req[r].pc = "collided"
  /\ Answer(r)
  /\ UNCHANGED <<now, team, services, bookings, locks>>

-----------------------------------------------------------------------------
(* rescheduleBooking, cancelBooking.                                       *)

MoveStart(r, b, s, len) ==
  /\ req[r].pc = "idle"
  /\ Confirmed(b)
  /\ bookings[b].service \in services
  /\ PositiveLength(s, s + len)
  /\ req' = [req EXCEPT ![r] =
       [Idle EXCEPT !.pc = "readMoveTeam", !.booking = b, !.from = s,
                    !.to = s + len, !.staff = bookings[b].staff]]
  /\ UNCHANGED <<now, team, services, bookings, locks>>

MoveReadTeam(r) ==
  /\ req[r].pc = "readMoveTeam"
  /\ req' = [req EXCEPT ![r].pc = "move",
                        ![r].covers = StaffIdsFor(req[r].staff)]
  /\ UNCHANGED <<now, team, services, bookings, locks>>

\* mutant: the update in the transaction does not ask for status 'confirmed'
StillMovableAnyStatus(b) == bookings[b] # NoBooking
StillMovable(b) == Confirmed(b)

\* mutant: the old slots are kept when the booking moves
KeepOldLocks(b) == locks
WithoutLocksOf(b) == locks \ LocksOf(b)

\* The transaction swaps the locks and moves the booking, or does nothing.
MoveCommit(r) ==
  LET b == req[r].booking IN
  /\ req[r].pc = "move"
  /\ Insertable(NewDocs(r, b), WithoutLocksOf(b))
  /\ StillMovable(b)
  /\ locks' = WithoutLocksOf(b) \cup NewDocs(r, b)
  /\ bookings' = [bookings EXCEPT ![b] =
       [@ EXCEPT !.from = req[r].from, !.to = req[r].to, !.covers = req[r].covers]]
  /\ Answer(r)
  /\ UNCHANGED <<now, team, services>>

\* 409: a new slot is taken, or the booking was cancelled meanwhile.
MoveAbort(r) ==
  LET b == req[r].booking IN
  /\ req[r].pc = "move"
  /\ ~(Insertable(NewDocs(r, b), WithoutLocksOf(b)) /\ StillMovable(b))
  /\ Answer(r)
  /\ UNCHANGED <<now, team, services, bookings, locks>>

\* One transaction; a booking that is not confirmed is left as it is.
Cancel(b) ==
  /\ Confirmed(b)
  /\ bookings' = [bookings EXCEPT ![b].status = "cancelled"]
  /\ locks' = WithoutLocksOf(b)
  /\ UNCHANGED <<now, team, services, req>>

-----------------------------------------------------------------------------
(* The team and the service list.                                          *)

AddStaff(p) ==
  /\ team[p] = "new"
  /\ team' = [team EXCEPT ![p] = "member"]
  /\ UNCHANGED <<now, services, bookings, locks, req>>

Upcoming(b) == Confirmed(b) /\ bookings[b].from > now

\* DELETE /staff/:id looks for upcoming bookings first and deletes afterwards.
DropStaffCheck(r, p) ==
  /\ req[r].pc = "idle"
  /\ team[p] = "member"
  /\ ~\E b \in BookingId : Upcoming(b) /\ bookings[b].staff = p
  /\ req' = [req EXCEPT ![r] = [Idle EXCEPT !.pc = "dropStaff", !.staff = p]]
  /\ UNCHANGED <<now, team, services, bookings, locks>>

DropStaff(r) ==
  /\ req[r].pc = "dropStaff"
  /\ team' = [team EXCEPT ![req[r].staff] = "gone"]
  /\ Answer(r)
  /\ UNCHANGED <<now, services, bookings, locks>>

\* DELETE /services/:id, in the same two steps.
DropServiceCheck(r, sv) ==
  /\ req[r].pc = "idle"
  /\ sv \in services
  /\ ~\E b \in BookingId : Upcoming(b) /\ bookings[b].service = sv
  /\ req' = [req EXCEPT ![r] = [Idle EXCEPT !.pc = "dropService", !.service = sv]]
  /\ UNCHANGED <<now, team, services, bookings, locks>>

DropService(r) ==
  /\ req[r].pc = "dropService"
  /\ services' = services \ {req[r].service}
  /\ Answer(r)
  /\ UNCHANGED <<now, team, bookings, locks>>

-----------------------------------------------------------------------------
(* The clock and MongoDB's TTL monitor.                                    *)

Tick ==
  /\ \E t \in Instant : t > now /\ now' = t
  /\ UNCHANGED <<team, services, bookings, locks, req>>

ExpiredEarly(l) == l.expires <= now + Grace  \* mutant: expires_at is the end itself
Expired(l) == l.expires <= now

\* The TTL index removes expired lock documents one by one, in its own time.
ExpireLock(l) ==
  /\ Expired(l)
  /\ locks' = locks \ {l}
  /\ UNCHANGED <<now, team, services, bookings, req>>

-----------------------------------------------------------------------------
Init ==
  /\ now \in {t \in Instant : \A u \in Instant : t <= u}
  /\ team = [p \in Person |-> "new"]
  /\ services = Service
  /\ bookings = [b \in BookingId |-> NoBooking]
  /\ locks = {}
  /\ req = [r \in Request |-> Idle]

CreateStep(r) ==
  \/ \E sv \in Service, p \in Worker, s \in Start, len \in Length,
        k \in Key \cup {NoKey} : CreateStart(r, sv, p, s, len, k)
  \/ CreateReplay(r)
  \/ CreateReleaseKey(r)
  \/ CreateReadTeam(r)
  \/ \E b \in BookingId : CreateCommit(r, b) \/ CreateCollide(r, b)
  \/ CreateAfterCollision(r)

MoveStep(r) ==
  \/ \E b \in BookingId, s \in Start, len \in Length : MoveStart(r, b, s, len)
  \/ MoveReadTeam(r)
  \/ MoveCommit(r)
  \/ MoveAbort(r)

DropStep(r) ==
  \/ \E p \in Person : DropStaffCheck(r, p)
  \/ DropStaff(r)
  \/ \E sv \in Service : DropServiceCheck(r, sv)
  \/ DropService(r)

Next ==
  \/ \E r \in Request : CreateStep(r) \/ MoveStep(r) \/ DropStep(r)
  \/ \E b \in BookingId : Cancel(b)
  \/ \E p \in Person : AddStaff(p)
  \/ Tick
  \/ \E l \in locks : ExpireLock(l)

Spec == Init /\ [][Next]_vars

-----------------------------------------------------------------------------
(* Properties.                                                             *)

\* Every document and request has the shape the handlers give it; a booking
\* always has a positive length (createBooking's check of end against start).
TypeOK ==
  /\ now \in Int
  /\ team \in [Person -> {"new", "member", "gone"}]
  /\ services \subseteq Service
  /\ bookings \in [BookingId -> BookingDoc \cup {NoBooking}]
  /\ locks \subseteq LockDoc
  /\ req \in [Request -> RequestState]
  /\ \A b \in BookingId : bookings[b] # NoBooking => bookings[b].from < bookings[b].to

\* A booking whose locks the TTL index may not have touched.
Live(b) == Confirmed(b) /\ now < bookings[b].to + Grace

LockDocsFor(b) ==
  LockDocs(b, bookings[b].staff, bookings[b].covers, bookings[b].from, bookings[b].to)

\* The unique _id index of the lock collection.
OneLockPerSlot ==
  \A l, m \in locks : l.staff = m.staff /\ l.slot = m.slot => l = m

\* Through every cancellation, move and abort, a slot is held only by a booking
\* that is confirmed and occupies it: no time stays blocked for nobody.
NoStrayLock ==
  \A l \in locks : Confirmed(l.booking) /\ l \in LockDocsFor(l.booking)

\* A live booking holds every one of its slots.
LocksHeld == \A b \in BookingId : Live(b) => LockDocsFor(b) \subseteq locks

Overlap(a, b) == bookings[a].from < bookings[b].to /\ bookings[b].from < bookings[a].to

\* The guarantee of the lock table: no staff member (and no "anyone" slot) is
\* given two customers at overlapping times, on the slot grid or off it.
NoDoubleBooking ==
  \A a, b \in BookingId :
    a # b /\ Live(a) /\ Live(b) /\ bookings[a].staff = bookings[b].staff
      => ~Overlap(a, b)

\* A booking with nobody assigned shares its time with no booking of anyone who
\* was on the staff list it was made (or moved) under.
AnyoneBlocksTeam ==
  \A a, b \in BookingId :
    Live(a) /\ Live(b) /\ bookings[a].staff = Anyone /\ bookings[b].staff \in bookings[a].covers
      => ~Overlap(a, b)

\* However often one intent is retried, and however its key is released after a
\* cancellation, it never stands behind two confirmed bookings.
OneBookingPerIntent ==
  \A a, b \in BookingId :
    /\ Confirmed(a) /\ Confirmed(b)
    /\ bookings[a].intent = bookings[b].intent /\ bookings[a].intent # NoKey
    => a = b

\* What the diary says under b.
Entry(b) ==
  IF bookings[b] = NoBooking THEN NoBooking
  ELSE [kept |-> bookings[b].status = "confirmed", who |-> bookings[b].staff,
        from |-> bookings[b].from, to |-> bookings[b].to]

ASSUME NullIsNoEntry == NoBooking \notin [kept : BOOLEAN, who : Worker, from : Int, to : Int]

\* Each step changes the diary the way Diary.tla allows, or not at all: in
\* particular nothing revives or moves a cancelled booking.
Promise == INSTANCE Diary WITH Blank <- NoBooking, diary <- [b \in BookingId |-> Entry(b)]

KeepsPromise == Promise!DiarySpec
=============================================================================
