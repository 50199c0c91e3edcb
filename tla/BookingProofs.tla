--------------------------- MODULE BookingProofs ---------------------------
(***************************************************************************)
(* The slot locks of Booking.tla do what they are for, for every set of    *)
(* requests, staff, services and times: an inductive invariant ties the    *)
(* lock collection to the live bookings, and arithmetic on the five-minute *)
(* grid turns "no shared slot" into "no overlap".                          *)
(***************************************************************************)
EXTENDS Booking, TLAPS

-----------------------------------------------------------------------------
(* The slot grid.                                                          *)

\* floorToGrid returns a time at or before its argument, on the grid.
LEMMA FloorFacts ==
  ASSUME NEW t \in Int
  PROVE  /\ FloorToGrid(t) \in Int
         /\ FloorToGrid(t) <= t /\ t < FloorToGrid(t) + 5
         /\ FloorToGrid(t) % 5 = 0
BY DEF FloorToGrid, Granularity

\* Two bookings that overlap in time share a five-minute slot, also when one
\* or both of them start off the grid.
LEMMA OverlapSharesSlot ==
  ASSUME NEW s1 \in Int, NEW e1 \in Int, NEW s2 \in Int, NEW e2 \in Int,
         s1 < e1, s2 < e2, s1 < e2, s2 < e1
  PROVE  \E t \in Int : t \in SlotTimes(s1, e1) /\ t \in SlotTimes(s2, e2)
<1>1. ASSUME NEW a \in Int, NEW b \in Int, NEW c \in Int, NEW d \in Int,
             a <= c, c < b, c < d
      PROVE  FloorToGrid(c) \in SlotTimes(a, b) /\ FloorToGrid(c) \in SlotTimes(c, d)
  <2>1. /\ FloorToGrid(a) \in Int /\ FloorToGrid(a) % 5 = 0 /\ FloorToGrid(a) <= a
        /\ a < FloorToGrid(a) + 5
    BY FloorFacts
  <2>2. /\ FloorToGrid(c) \in Int /\ FloorToGrid(c) % 5 = 0 /\ FloorToGrid(c) <= c
        /\ c < FloorToGrid(c) + 5
    BY FloorFacts
  <2>3. FloorToGrid(a) <= FloorToGrid(c)
    BY <1>1, <2>1, <2>2
  <2>4. (FloorToGrid(c) - FloorToGrid(a)) % 5 = 0 /\ (FloorToGrid(c) - FloorToGrid(c)) % 5 = 0
    BY <2>1, <2>2
  <2>5. FloorToGrid(c) \in FloorToGrid(a)..(b - 1) /\ FloorToGrid(c) \in FloorToGrid(c)..(d - 1)
    BY <1>1, <2>1, <2>2, <2>3
  <2> QED
    BY <2>4, <2>5 DEF SlotTimes, Granularity
<1>2. CASE s1 <= s2
  <2>1. FloorToGrid(s2) \in SlotTimes(s1, e1) /\ FloorToGrid(s2) \in SlotTimes(s2, e2)
    BY <1>1, <1>2
  <2> QED BY <2>1, FloorFacts
<1>3. CASE s2 <= s1
  <2>1. FloorToGrid(s1) \in SlotTimes(s2, e2) /\ FloorToGrid(s1) \in SlotTimes(s1, e1)
    BY <1>1, <1>3
  <2> QED BY <2>1, FloorFacts
<1> QED BY <1>2, <1>3

-----------------------------------------------------------------------------
(* Types.  What a request in flight remembers is part of the invariant: a  *)
(* commit writes it into the database.                                     *)

Timed == {"replay", "release", "readTeam", "commit", "collided", "readMoveTeam", "move"}
Creating == {"replay", "release", "readTeam", "commit", "collided"}
Moving == {"readMoveTeam", "move"}

ReqInv ==
  \A r \in Request :
    /\ req[r].pc \in Timed => req[r].from < req[r].to
    /\ req[r].pc \in Creating \cup {"dropService"} => req[r].service \in Service
    /\ req[r].pc \in Moving \cup {"release"} =>
         /\ req[r].booking \in BookingId
         /\ bookings[req[r].booking] # NoBooking
    /\ req[r].pc \in Moving => req[r].staff = bookings[req[r].booking].staff
    /\ req[r].pc = "dropStaff" => req[r].staff \in Person

\* The empty database and idle requests satisfy the type invariant.
LEMMA InitTypes == Init => TypeOK /\ ReqInv
BY TimesAreMinutes DEF Init, TypeOK, ReqInv, Idle, RequestState, Phase, Worker,
   Timed, Creating, Moving

\* Slots are whole minutes.
LEMMA FloorType ==
  ASSUME NEW s \in Int, NEW e \in Int
  PROVE  SlotTimes(s, e) \subseteq Int
BY FloorFacts DEF SlotTimes

\* The lock documents a transaction inserts are lock documents.
LEMMA LockDocsType ==
  ASSUME NEW b \in BookingId, NEW p \in Worker, NEW c \in SUBSET Person,
         NEW s \in Int, NEW e \in Int
  PROVE  LockDocs(b, p, c, s, e) \subseteq LockDoc
<1>1. e + Grace \in Int
  BY TimesAreMinutes
<1>2. LockKeys(p, c) \subseteq Worker
  BY DEF LockKeys, Worker
<1> QED BY <1>1, <1>2, FloorType DEF LockDocs, LockDoc

\* An answered request remembers nothing.
LEMMA IdleType == Idle \in RequestState
BY DEF Idle, RequestState, Phase, Worker

\* What a handler changes in its request between two awaits keeps its type.
LEMMA NextPhase ==
  ASSUME NEW q \in RequestState, NEW pc \in Phase, NEW c \in SUBSET Person,
         NEW b \in BookingId \cup {NoBooking}
  PROVE  /\ [q EXCEPT !.pc = pc] \in RequestState
         /\ [q EXCEPT !.pc = pc, !.covers = c] \in RequestState
         /\ [q EXCEPT !.pc = pc, !.booking = b] \in RequestState
BY DEF RequestState

\* staffIdsFor returns ids of staff members.
LEMMA StaffIdsType ==
  ASSUME NEW p \in Worker
  PROVE  StaffIdsFor(p) \in SUBSET Person
BY DEF StaffIdsFor, Members

\* A request changes and the database does not.
LEMMA OnlyRequest ==
  ASSUME TypeOK, ReqInv, NEW r \in Request, NEW q \in RequestState,
         req' = [req EXCEPT ![r] = q],
         UNCHANGED <<now, team, services, bookings, locks>>,
         q.pc \in Timed => q.from < q.to,
         q.pc \in Creating \cup {"dropService"} => q.service \in Service,
         q.pc \in Moving \cup {"release"} =>
           q.booking \in BookingId /\ bookings[q.booking] # NoBooking,
         q.pc \in Moving => q.staff = bookings[q.booking].staff,
         q.pc = "dropStaff" => q.staff \in Person
  PROVE  TypeOK' /\ ReqInv'
<1>1. TypeOK'
  BY DEF TypeOK
<1>2. ReqInv'
  BY DEF TypeOK, ReqInv
<1> QED BY <1>1, <1>2

\* A request is answered, and documents change without losing what the other
\* requests know about them.
LEMMA OnlyDocuments ==
  ASSUME TypeOK, ReqInv, TypeOK',
         \A r \in Request : req'[r] = req[r] \/ req'[r] = Idle,
         \A b \in BookingId : bookings[b] # NoBooking =>
           bookings'[b] # NoBooking /\ bookings'[b].staff = bookings[b].staff
  PROVE  ReqInv'
BY DEF ReqInv, TypeOK, Timed, Creating, Moving, Idle

\* A handler that answers and writes nothing preserves the types.
LEMMA AnswerTypes ==
  ASSUME TypeOK, ReqInv, NEW r \in Request, Answer(r),
         UNCHANGED <<now, team, services, bookings, locks>>
  PROVE  TypeOK' /\ ReqInv'
<1>1. /\ Idle.pc = "idle" /\ req' = [req EXCEPT ![r] = Idle]
  BY DEF Idle, Answer
<1> QED
  BY <1>1, IdleType, OnlyRequest DEF Timed, Creating, Moving

\* A create that only moves on to its next await preserves the types.
LEMMA GotoTypes ==
  ASSUME TypeOK, ReqInv, NEW r \in Request, NEW pc \in Creating, Goto(r, pc),
         req[r].pc \in Creating,
         pc # "release",
         UNCHANGED <<now, team, services, bookings, locks>>
  PROVE  TypeOK' /\ ReqInv'
<1> DEFINE new == [req[r] EXCEPT !.pc = pc]
<1>1. req[r] \in RequestState /\ req' = [req EXCEPT ![r] = new]
  BY DEF TypeOK, Goto
<1>2. new \in RequestState
  BY <1>1, NextPhase DEF Phase, Creating
<1>3. new.pc = pc /\ new.from = req[r].from /\ new.to = req[r].to /\ new.service = req[r].service
  BY <1>1 DEF RequestState
<1>4. req[r].from < req[r].to /\ req[r].service \in Service
  BY DEF ReqInv, Timed, Creating
<1> HIDE DEF new
<1> QED
  BY <1>1, <1>2, <1>3, <1>4, OnlyRequest DEF Timed, Creating, Moving

\* Every await of createBooking preserves the types.
LEMMA CreateTypes ==
  ASSUME TypeOK, ReqInv, NEW r \in Request, CreateStep(r)
  PROVE  TypeOK' /\ ReqInv'
<1>0. req[r] \in RequestState
  BY DEF TypeOK
<1>1. ASSUME NEW sv \in Service, NEW p \in Worker, NEW s \in Start, NEW len \in Length,
             NEW k \in Key \cup {NoKey}, CreateStart(r, sv, p, s, len, k)
      PROVE  TypeOK' /\ ReqInv'
  <2> DEFINE new == [Idle EXCEPT !.pc = IF k = NoKey THEN "readTeam" ELSE "replay",
                       !.staff = p, !.service = sv, !.from = s, !.to = s + len, !.key = k]
  <2>1. s \in Int /\ s + len \in Int /\ s < s + len
    BY <1>1, TimesAreMinutes DEF CreateStart, PositiveLength
  <2>2. new \in RequestState
    BY <2>1, IdleType DEF RequestState, Phase
  <2>3. /\ new.pc \in {"readTeam", "replay"} /\ new.service \in Service
        /\ new.from < new.to
    BY <2>1 DEF Idle
  <2>4. req' = [req EXCEPT ![r] = new] /\ UNCHANGED <<now, team, services, bookings, locks>>
    BY <1>1 DEF CreateStart
  <2> HIDE DEF new
  <2> QED
    BY <2>2, <2>3, <2>4, OnlyRequest DEF Timed, Creating, Moving
<1>2. CASE CreateReplay(r)
  <2>1. CASE Answer(r)
    BY <1>2, <2>1, AnswerTypes DEF CreateReplay
  <2>2. CASE Goto(r, "readTeam")
    BY <1>2, <2>2, GotoTypes DEF CreateReplay, Creating, Phase
  <2>3. ASSUME NEW b \in BookingId, Holds(b, req[r].key),
               req' = [req EXCEPT ![r].pc = "release", ![r].booking = b]
        PROVE  TypeOK' /\ ReqInv'
    <3> DEFINE new == [req[r] EXCEPT !.pc = "release", !.booking = b]
    <3>1. new \in RequestState
      BY <1>0, NextPhase DEF Phase
    <3>2. /\ new.pc = "release" /\ new.booking = b /\ new.from = req[r].from
          /\ new.to = req[r].to /\ new.service = req[r].service
      BY <1>0 DEF RequestState
    <3>3. req[r].from < req[r].to /\ req[r].service \in Service
      BY <1>2 DEF CreateReplay, ReqInv, Timed, Creating
    <3>4. req' = [req EXCEPT ![r] = new] /\ bookings[b] # NoBooking
          /\ UNCHANGED <<now, team, services, bookings, locks>>
      BY <1>2, <2>3 DEF CreateReplay, Holds, TypeOK
    <3> HIDE DEF new
    <3> QED
      BY <3>1, <3>2, <3>3, <3>4, OnlyRequest DEF Timed, Creating, Moving
  <2> QED BY <1>2, <2>1, <2>2, <2>3 DEF CreateReplay
<1>3. CASE CreateReleaseKey(r)
  <2> DEFINE b == req[r].booking
             doc == [bookings[b] EXCEPT !.key = NoKey]
             new == [req[r] EXCEPT !.pc = "readTeam", !.booking = NoBooking]
  <2>1. b \in BookingId /\ bookings[b] \in BookingDoc /\ bookings[b].from < bookings[b].to
    BY <1>3 DEF CreateReleaseKey, ReqInv, TypeOK
  <2>2. /\ doc \in BookingDoc /\ doc.from = bookings[b].from /\ doc.to = bookings[b].to
        /\ doc.staff = bookings[b].staff
    BY <2>1 DEF BookingDoc
  <2>3. doc # NoBooking
    BY <2>2, NullIsNoDocument
  <2>4. bookings' = bookings \/ bookings' = [bookings EXCEPT ![b] = doc]
    BY <1>3 DEF CreateReleaseKey, Released
  <2>5. req' = [req EXCEPT ![r] = new] /\ UNCHANGED <<now, team, services, locks>>
    BY <1>0, <1>3 DEF CreateReleaseKey, TypeOK, RequestState
  <2>6. new \in RequestState
    BY <1>0, NextPhase DEF Phase
  <2>7. /\ new.pc = "readTeam" /\ new.from = req[r].from /\ new.to = req[r].to
        /\ new.service = req[r].service
    BY <1>0 DEF RequestState
  <2>8. req[r].from < req[r].to /\ req[r].service \in Service
    BY <1>3 DEF CreateReleaseKey, ReqInv, Timed, Creating
  <2> HIDE DEF new, doc
  <2>9. TypeOK'
    BY <2>1, <2>2, <2>3, <2>4, <2>5, <2>6 DEF TypeOK
  <2>10. ReqInv'
    BY <2>1, <2>2, <2>3, <2>4, <2>5, <2>7, <2>8 DEF ReqInv, TypeOK, Timed, Creating, Moving
  <2> QED BY <2>9, <2>10
<1>4. CASE CreateReadTeam(r)
  <2> DEFINE new == [req[r] EXCEPT !.pc = "commit", !.covers = StaffIdsFor(req[r].staff)]
  <2>0. StaffIdsFor(req[r].staff) \in SUBSET Person
    BY <1>0, StaffIdsType DEF RequestState
  <2>1. new \in RequestState
    BY <1>0, <2>0, NextPhase DEF Phase
  <2>2. /\ new.pc = "commit" /\ new.from = req[r].from /\ new.to = req[r].to
        /\ new.service = req[r].service
    BY <1>0 DEF RequestState
  <2>3. req[r].from < req[r].to /\ req[r].service \in Service
    BY <1>4 DEF CreateReadTeam, ReqInv, Timed, Creating
  <2>4. req' = [req EXCEPT ![r] = new] /\ UNCHANGED <<now, team, services, bookings, locks>>
    BY <1>0, <1>4 DEF CreateReadTeam, TypeOK, RequestState
  <2> HIDE DEF new
  <2> QED
    BY <2>1, <2>2, <2>3, <2>4, OnlyRequest DEF Timed, Creating, Moving
<1>5. ASSUME NEW b \in BookingId, CreateCommit(r, b)
      PROVE  TypeOK' /\ ReqInv'
  <2> DEFINE doc == [status |-> "confirmed", staff |-> req[r].staff,
                     service |-> req[r].service, from |-> req[r].from, to |-> req[r].to,
                     key |-> req[r].key, covers |-> req[r].covers, intent |-> req[r].key]
  <2>1. NewDocs(r, b) \subseteq LockDoc
    BY <1>0, LockDocsType DEF NewDocs, RequestState
  <2>2. req[r].from < req[r].to /\ req[r].service \in Service
    BY <1>5 DEF CreateCommit, ReqInv, Timed, Creating
  <2>3. doc \in BookingDoc
    BY <1>0, <2>2 DEF RequestState, BookingDoc
  <2>4. doc # NoBooking /\ doc.from < doc.to
    BY <2>2, <2>3, NullIsNoDocument
  <2>5. /\ bookings' = [bookings EXCEPT ![b] = doc] /\ bookings[b] = NoBooking
        /\ locks' = locks \cup NewDocs(r, b) /\ req' = [req EXCEPT ![r] = Idle]
        /\ UNCHANGED <<now, team, services>>
    BY <1>5 DEF CreateCommit, Answer
  <2> HIDE DEF doc
  <2>6. TypeOK'
    BY <2>1, <2>3, <2>4, <2>5, IdleType DEF TypeOK
  <2> QED
    BY <2>5, <2>6, OnlyDocuments DEF TypeOK
<1>6. ASSUME NEW b \in BookingId, CreateCollide(r, b)
      PROVE  TypeOK' /\ ReqInv'
  <2>1. CASE Answer(r)
    BY <1>6, <2>1, AnswerTypes DEF CreateCollide
  <2>2. CASE Goto(r, "collided")
    BY <1>6, <2>2, GotoTypes DEF CreateCollide, Creating
  <2> QED BY <1>6, <2>1, <2>2 DEF CreateCollide
<1>7. CASE CreateAfterCollision(r)
  BY <1>7, AnswerTypes DEF CreateAfterCollision
<1> QED BY <1>1, <1>2, <1>3, <1>4, <1>5, <1>6, <1>7 DEF CreateStep

\* Every await of rescheduleBooking preserves the types.
LEMMA MoveTypes ==
  ASSUME TypeOK, ReqInv, NEW r \in Request, MoveStep(r)
  PROVE  TypeOK' /\ ReqInv'
<1>0. req[r] \in RequestState
  BY DEF TypeOK
<1>1. ASSUME NEW b \in BookingId, NEW s \in Start, NEW len \in Length, MoveStart(r, b, s, len)
      PROVE  TypeOK' /\ ReqInv'
  <2> DEFINE new == [Idle EXCEPT !.pc = "readMoveTeam", !.booking = b, !.from = s,
                       !.to = s + len, !.staff = bookings[b].staff]
  <2>1. s \in Int /\ s + len \in Int /\ s < s + len
    BY <1>1, TimesAreMinutes DEF MoveStart, PositiveLength
  <2>2. bookings[b] # NoBooking /\ bookings[b].staff \in Worker
    BY <1>1 DEF MoveStart, Confirmed, BookingDoc, TypeOK
  <2>3. new \in RequestState
    BY <2>1, <2>2, IdleType DEF RequestState, Phase
  <2>4. /\ new.pc = "readMoveTeam" /\ new.booking = b
        /\ new.from < new.to /\ new.staff = bookings[b].staff
    BY <2>1 DEF Idle
  <2>5. req' = [req EXCEPT ![r] = new] /\ UNCHANGED <<now, team, services, bookings, locks>>
    BY <1>1 DEF MoveStart
  <2> HIDE DEF new
  <2> QED
    BY <2>2, <2>3, <2>4, <2>5, OnlyRequest DEF Timed, Creating, Moving
<1>2. CASE MoveReadTeam(r)
  <2> DEFINE new == [req[r] EXCEPT !.pc = "move", !.covers = StaffIdsFor(req[r].staff)]
  <2>0. StaffIdsFor(req[r].staff) \in SUBSET Person
    BY <1>0, StaffIdsType DEF RequestState
  <2>1. new \in RequestState
    BY <1>0, <2>0, NextPhase DEF Phase
  <2>2. /\ new.pc = "move" /\ new.from = req[r].from /\ new.to = req[r].to
        /\ new.booking = req[r].booking /\ new.staff = req[r].staff
    BY <1>0 DEF RequestState
  <2>3. /\ req[r].from < req[r].to /\ req[r].booking \in BookingId
        /\ bookings[req[r].booking] # NoBooking
        /\ req[r].staff = bookings[req[r].booking].staff
    BY <1>2 DEF MoveReadTeam, ReqInv, Timed, Moving
  <2>4. req' = [req EXCEPT ![r] = new] /\ UNCHANGED <<now, team, services, bookings, locks>>
    BY <1>0, <1>2 DEF MoveReadTeam, TypeOK, RequestState
  <2> HIDE DEF new
  <2> QED
    BY <2>1, <2>2, <2>3, <2>4, OnlyRequest DEF Timed, Creating, Moving
<1>3. CASE MoveCommit(r)
  <2> DEFINE b == req[r].booking
             doc == [bookings[b] EXCEPT !.from = req[r].from, !.to = req[r].to,
                                        !.covers = req[r].covers]
  <2>1. b \in BookingId /\ bookings[b] \in BookingDoc /\ req[r].from < req[r].to
    BY <1>3 DEF MoveCommit, ReqInv, TypeOK, Timed, Moving
  <2>2. doc \in BookingDoc /\ doc.from < doc.to /\ doc.staff = bookings[b].staff
    BY <1>0, <2>1 DEF BookingDoc, RequestState
  <2>3. doc # NoBooking
    BY <2>2, NullIsNoDocument
  <2>4. /\ bookings' = [bookings EXCEPT ![b] = doc] /\ req' = [req EXCEPT ![r] = Idle]
        /\ UNCHANGED <<now, team, services>>
    BY <1>3 DEF MoveCommit, Answer
  <2>5. NewDocs(r, b) \subseteq LockDoc
    BY <1>0, <2>1, LockDocsType DEF NewDocs, RequestState
  <2>6. locks' \subseteq locks \cup NewDocs(r, b)
    BY <1>3 DEF MoveCommit, WithoutLocksOf
  <2> HIDE DEF doc
  <2>7. TypeOK'
    BY <2>1, <2>2, <2>3, <2>4, <2>5, <2>6, IdleType DEF TypeOK
  <2> QED
    BY <2>1, <2>2, <2>3, <2>4, <2>7, OnlyDocuments DEF TypeOK
<1>4. CASE MoveAbort(r)
  BY <1>4, AnswerTypes DEF MoveAbort
<1> QED BY <1>1, <1>2, <1>3, <1>4 DEF MoveStep

\* Both halves of the two deletions preserve the types.
LEMMA DropTypes ==
  ASSUME TypeOK, ReqInv, NEW r \in Request, DropStep(r)
  PROVE  TypeOK' /\ ReqInv'
<1>0. req[r] \in RequestState
  BY DEF TypeOK
<1>1. ASSUME NEW p \in Person, DropStaffCheck(r, p)
      PROVE  TypeOK' /\ ReqInv'
  <2> DEFINE new == [Idle EXCEPT !.pc = "dropStaff", !.staff = p]
  <2>1. new \in RequestState /\ new.pc = "dropStaff" /\ new.staff = p
    BY IdleType DEF RequestState, Phase, Worker
  <2>2. req' = [req EXCEPT ![r] = new] /\ UNCHANGED <<now, team, services, bookings, locks>>
    BY <1>1 DEF DropStaffCheck
  <2> HIDE DEF new
  <2> QED
    BY <2>1, <2>2, OnlyRequest DEF Timed, Creating, Moving
<1>2. CASE DropStaff(r)
  <2>1. req[r].staff \in Person
    BY <1>2 DEF DropStaff, ReqInv
  <2>2. TypeOK'
    BY <1>2, <2>1, IdleType DEF DropStaff, Answer, TypeOK
  <2> QED
    BY <1>2, <2>2, OnlyDocuments DEF DropStaff, Answer, TypeOK
<1>3. ASSUME NEW sv \in Service, DropServiceCheck(r, sv)
      PROVE  TypeOK' /\ ReqInv'
  <2> DEFINE new == [Idle EXCEPT !.pc = "dropService", !.service = sv]
  <2>1. new \in RequestState /\ new.pc = "dropService" /\ new.service = sv
    BY IdleType DEF RequestState, Phase
  <2>2. req' = [req EXCEPT ![r] = new] /\ UNCHANGED <<now, team, services, bookings, locks>>
    BY <1>3 DEF DropServiceCheck
  <2> HIDE DEF new
  <2> QED
    BY <2>1, <2>2, OnlyRequest DEF Timed, Creating, Moving
<1>4. CASE DropService(r)
  <2>1. TypeOK'
    BY <1>4, IdleType DEF DropService, Answer, TypeOK
  <2> QED
    BY <1>4, <2>1, OnlyDocuments DEF DropService, Answer, TypeOK
<1> QED BY <1>1, <1>2, <1>3, <1>4 DEF DropStep

\* Cancellations, new staff, the clock and the TTL monitor preserve the types.
LEMMA OtherTypes ==
  ASSUME TypeOK, ReqInv,
         \/ \E b \in BookingId : Cancel(b)
         \/ \E p \in Person : AddStaff(p)
         \/ Tick
         \/ \E l \in locks : ExpireLock(l)
         \/ UNCHANGED vars
  PROVE  TypeOK' /\ ReqInv'
<1>1. ASSUME NEW b \in BookingId, Cancel(b)
      PROVE  TypeOK' /\ ReqInv'
  <2> DEFINE doc == [bookings[b] EXCEPT !.status = "cancelled"]
  <2>1. bookings[b] \in BookingDoc /\ bookings[b].from < bookings[b].to
    BY <1>1 DEF Cancel, Confirmed, TypeOK
  <2>2. doc \in BookingDoc /\ doc.from < doc.to /\ doc.staff = bookings[b].staff
    BY <2>1 DEF BookingDoc
  <2>3. doc # NoBooking
    BY <2>2, NullIsNoDocument
  <2>4. /\ bookings' = [bookings EXCEPT ![b] = doc] /\ locks' \subseteq locks
        /\ UNCHANGED <<now, team, services, req>>
    BY <1>1 DEF Cancel, WithoutLocksOf
  <2> HIDE DEF doc
  <2>5. TypeOK'
    BY <2>1, <2>2, <2>3, <2>4 DEF TypeOK
  <2> QED
    BY <2>1, <2>2, <2>3, <2>4, <2>5, OnlyDocuments DEF TypeOK
<1>2. CASE \E p \in Person : AddStaff(p)
  BY <1>2 DEF AddStaff, TypeOK, ReqInv
<1>3. CASE Tick
  BY <1>3, TimesAreMinutes DEF Tick, TypeOK, ReqInv
<1>4. CASE \E l \in locks : ExpireLock(l)
  BY <1>4 DEF ExpireLock, TypeOK, ReqInv
<1>5. CASE UNCHANGED vars
  BY <1>5 DEF vars, TypeOK, ReqInv
<1> QED BY <1>1, <1>2, <1>3, <1>4, <1>5

\* TypeOK is inductive together with what the requests in flight know.
LEMMA NextTypes == TypeOK /\ ReqInv /\ [Next]_vars => TypeOK' /\ ReqInv'
BY CreateTypes, MoveTypes, DropTypes, OtherTypes DEF Next

\* Documents, requests and bookings keep their types, and every booking has a
\* positive length, in every reachable state.
THEOREM TypeCorrect == Spec => []TypeOK
<1>1. TypeOK /\ ReqInv /\ [Next]_vars => (TypeOK /\ ReqInv)'
  BY NextTypes
<1> QED BY InitTypes, <1>1, PTL DEF Spec

-----------------------------------------------------------------------------
(* The lock collection and the bookings.  NoStrayLock says that a slot is  *)
(* held only by the booking that occupies it, LocksHeld that a live booking*)
(* holds all of its slots; each needs the other and the unique index.      *)

LockInv == OneLockPerSlot /\ NoStrayLock /\ LocksHeld

\* What is known of a lock document from the booking it was made for.
LEMMA LockDocsFacts ==
  ASSUME NEW b, NEW p, NEW c, NEW s, NEW e, NEW l \in LockDocs(b, p, c, s, e)
  PROVE  /\ l.booking = b /\ l.expires = e + Grace
         /\ l.staff \in LockKeys(p, c) /\ l.slot \in SlotTimes(s, e)
BY DEF LockDocs

\* Two lock documents of one booking with the same id are the same document.
LEMMA OneDocPerSlot ==
  ASSUME NEW b, NEW p, NEW c, NEW s, NEW e,
         NEW l \in LockDocs(b, p, c, s, e), NEW m \in LockDocs(b, p, c, s, e),
         l.staff = m.staff, l.slot = m.slot
  PROVE  l = m
BY DEF LockDocs

\* There is nothing to lock in an empty database.
LEMMA InitLocks == Init => LockInv
BY DEF Init, LockInv, OneLockPerSlot, NoStrayLock, LocksHeld, Live, Confirmed

\* The two transactions that take slots for booking b: the locks b held before
\* are gone, the new ones fit in, and b's document is the one they are for.
LEMMA TakeSlots ==
  ASSUME TypeOK, LockInv, NEW b \in BookingId, NEW doc \in BookingDoc,
         doc.status = "confirmed",
         bookings' = [bookings EXCEPT ![b] = doc],
         now' = now,
         NEW docs, docs = LockDocs(b, doc.staff, doc.covers, doc.from, doc.to),
         Insertable(docs, locks \ LocksOf(b)),
         locks' = (locks \ LocksOf(b)) \cup docs
  PROVE  LockInv'
<1>1. /\ bookings'[b] = doc /\ LockDocsFor(b)' = docs
      /\ \A o \in BookingId \ {b} : bookings'[o] = bookings[o] /\ LockDocsFor(o)' = LockDocsFor(o)
  BY DEF TypeOK, LockDocsFor
<1>2. \A l \in docs : l.booking = b
  BY LockDocsFacts
<1>3. \A l \in locks \ LocksOf(b) : l \in locks /\ l.booking \in BookingId \ {b}
  BY DEF LocksOf, TypeOK, LockDoc
<1>4. OneLockPerSlot'
  <2>1. ASSUME NEW l \in docs, NEW m \in docs, l.staff = m.staff, l.slot = m.slot
        PROVE  l = m
    BY <2>1, OneDocPerSlot
  <2> QED
    BY <1>3, <2>1 DEF OneLockPerSlot, Insertable, LockInv
<1>5. NoStrayLock'
  <2>1. ASSUME NEW l \in docs
        PROVE  Confirmed(l.booking)' /\ l \in LockDocsFor(l.booking)'
    BY <1>1, <1>2, NullIsNoDocument DEF Confirmed
  <2>2. ASSUME NEW l \in locks \ LocksOf(b)
        PROVE  Confirmed(l.booking)' /\ l \in LockDocsFor(l.booking)'
    BY <1>1, <1>3 DEF Confirmed, LockInv, NoStrayLock
  <2> QED
    BY <2>1, <2>2 DEF NoStrayLock
<1>6. LocksHeld'
  <2>1. ASSUME NEW o \in BookingId \ {b}, Live(o)'
        PROVE  LockDocsFor(o)' \subseteq locks'
    <3>1. Live(o)
      BY <1>1, <2>1 DEF Live, Confirmed
    <3>2. LockDocsFor(o) \subseteq locks
      BY <3>1 DEF LockInv, LocksHeld
    <3>3. \A l \in LockDocsFor(o) : l.booking = o
      BY LockDocsFacts DEF LockDocsFor
    <3> QED
      BY <1>1, <3>2, <3>3 DEF LocksOf
  <2> QED
    BY <1>1, <2>1 DEF LocksHeld
<1> QED BY <1>4, <1>5, <1>6 DEF LockInv

\* A cancellation gives back every slot of its booking, and only those.
LEMMA CancelLocks ==
  ASSUME TypeOK, LockInv, NEW b \in BookingId, Cancel(b)
  PROVE  LockInv'
<1>1. /\ locks' = locks \ LocksOf(b) /\ now' = now
      /\ bookings'[b].status = "cancelled"
      /\ \A o \in BookingId \ {b} : bookings'[o] = bookings[o] /\ LockDocsFor(o)' = LockDocsFor(o)
  BY DEF Cancel, WithoutLocksOf, TypeOK, LockDocsFor, Confirmed, BookingDoc
<1>2. \A l \in locks' : l \in locks /\ l.booking \in BookingId \ {b}
  BY <1>1 DEF LocksOf, TypeOK, LockDoc
<1>3. OneLockPerSlot'
  BY <1>2 DEF OneLockPerSlot, LockInv
<1>4. NoStrayLock'
  BY <1>1, <1>2 DEF NoStrayLock, LockInv, Confirmed
<1>5. LocksHeld'
  <2>1. ASSUME NEW o \in BookingId, Live(o)'
        PROVE  LockDocsFor(o)' \subseteq locks'
    <3>1. o # b /\ Live(o)
      BY <1>1, <2>1 DEF Live, Confirmed
    <3>2. LockDocsFor(o) \subseteq locks /\ \A l \in LockDocsFor(o) : l.booking = o
      BY <3>1, LockDocsFacts DEF LockInv, LocksHeld, LockDocsFor
    <3> QED
      BY <1>1, <3>1, <3>2 DEF LocksOf
  <2> QED BY <2>1 DEF LocksHeld
<1> QED BY <1>3, <1>4, <1>5 DEF LockInv

\* The TTL index takes a lock only from a booking that is not live any more.
LEMMA ExpireLocks ==
  ASSUME TypeOK, LockInv, NEW l \in locks, ExpireLock(l)
  PROVE  LockInv'
<1>1. /\ locks' = locks \ {l} /\ l.expires <= now
      /\ UNCHANGED <<now, bookings>>
  BY DEF ExpireLock, Expired
<1>2. OneLockPerSlot' /\ NoStrayLock'
  BY <1>1 DEF LockInv, OneLockPerSlot, NoStrayLock, Confirmed, LockDocsFor
<1>3. ASSUME NEW o \in BookingId, Live(o)
      PROVE  l \notin LockDocsFor(o)
  <2>1. SUFFICES ASSUME l \in LockDocsFor(o) PROVE FALSE
    OBVIOUS
  <2>2. l.expires = bookings[o].to + Grace
    BY <2>1, LockDocsFacts DEF LockDocsFor
  <2>3. bookings[o].to \in Int /\ now \in Int /\ Grace \in Int
    BY <1>3, TimesAreMinutes DEF TypeOK, Live, Confirmed, BookingDoc
  <2> QED
    BY <1>1, <1>3, <2>2, <2>3 DEF Live
<1>4. LocksHeld'
  BY <1>1, <1>3 DEF LockInv, LocksHeld, Live, Confirmed, LockDocsFor
<1> QED BY <1>2, <1>4 DEF LockInv

\* The locks stay, the bookings keep what the locks depend on, and time passes.
LEMMA SameLocks ==
  ASSUME TypeOK, LockInv, TypeOK',
         UNCHANGED locks, now <= now',
         \A b \in BookingId :
           /\ Confirmed(b)' <=> Confirmed(b)
           /\ Confirmed(b) => /\ LockDocsFor(b)' = LockDocsFor(b)
                              /\ bookings'[b].to = bookings[b].to
  PROVE  LockInv'
<1>1. \A l \in locks : l.booking \in BookingId
  BY DEF TypeOK, LockDoc
<1>2. OneLockPerSlot' /\ NoStrayLock'
  BY <1>1 DEF LockInv, OneLockPerSlot, NoStrayLock
<1>3. ASSUME NEW b \in BookingId, Live(b)'
      PROVE  Live(b)
  <2>1. Confirmed(b) /\ bookings'[b].to = bookings[b].to /\ now' < bookings'[b].to + Grace
    BY <1>3 DEF Live
  <2>2. bookings[b].to \in Int /\ now \in Int /\ now' \in Int /\ Grace \in Int
    BY <2>1, TimesAreMinutes DEF TypeOK, Confirmed, BookingDoc
  <2> QED BY <2>1, <2>2 DEF Live
<1>4. LocksHeld'
  BY <1>3 DEF LockInv, LocksHeld, Live
<1> QED BY <1>2, <1>4 DEF LockInv

\* The transaction of createBooking preserves the lock invariant.
LEMMA CommitLocks ==
  ASSUME TypeOK, ReqInv, LockInv, NEW r \in Request, NEW b \in BookingId, CreateCommit(r, b)
  PROVE  LockInv'
<1> DEFINE doc == [status |-> "confirmed", staff |-> req[r].staff,
                   service |-> req[r].service, from |-> req[r].from, to |-> req[r].to,
                   key |-> req[r].key, covers |-> req[r].covers, intent |-> req[r].key]
<1>1. req[r] \in RequestState /\ req[r].service \in Service
  BY DEF TypeOK, CreateCommit, ReqInv, Creating
<1>2. doc \in BookingDoc
  BY <1>1 DEF RequestState, BookingDoc
<1>3. LocksOf(b) = {}
  BY DEF CreateCommit, LocksOf, LockInv, NoStrayLock, Confirmed
<1>4. /\ bookings' = [bookings EXCEPT ![b] = doc] /\ now' = now
      /\ Insertable(NewDocs(r, b), locks \ LocksOf(b))
      /\ locks' = (locks \ LocksOf(b)) \cup NewDocs(r, b)
  BY <1>3 DEF CreateCommit
<1>5. /\ doc.status = "confirmed"
      /\ NewDocs(r, b) = LockDocs(b, doc.staff, doc.covers, doc.from, doc.to)
  BY DEF NewDocs
<1> HIDE DEF doc
<1> QED BY <1>2, <1>4, <1>5, TakeSlots

\* The transaction of rescheduleBooking preserves the lock invariant.
LEMMA MoveLocks ==
  ASSUME TypeOK, ReqInv, LockInv, NEW r \in Request, MoveCommit(r)
  PROVE  LockInv'
<1> DEFINE b == req[r].booking
           doc == [bookings[b] EXCEPT !.from = req[r].from, !.to = req[r].to,
                                      !.covers = req[r].covers]
<1>1. /\ req[r] \in RequestState /\ b \in BookingId /\ bookings[b] \in BookingDoc
      /\ req[r].staff = bookings[b].staff /\ bookings[b].status = "confirmed"
  BY DEF TypeOK, MoveCommit, ReqInv, Moving, StillMovable, Confirmed
<1>2. /\ doc \in BookingDoc /\ doc.status = "confirmed" /\ doc.staff = req[r].staff
      /\ doc.covers = req[r].covers /\ doc.from = req[r].from /\ doc.to = req[r].to
  BY <1>1 DEF BookingDoc, RequestState
<1>3. /\ bookings' = [bookings EXCEPT ![b] = doc] /\ now' = now
      /\ Insertable(NewDocs(r, b), locks \ LocksOf(b))
      /\ locks' = (locks \ LocksOf(b)) \cup NewDocs(r, b)
  BY DEF MoveCommit, WithoutLocksOf
<1> HIDE DEF doc
<1>4. NewDocs(r, b) = LockDocs(b, doc.staff, doc.covers, doc.from, doc.to)
  BY <1>2 DEF NewDocs
<1> QED BY <1>1, <1>2, <1>3, <1>4, TakeSlots

\* Releasing the key of a cancelled booking leaves its (absent) locks right.
LEMMA ReleaseLocks ==
  ASSUME TypeOK, TypeOK', LockInv, NEW r \in Request, CreateReleaseKey(r)
  PROVE  LockInv'
<1>1. UNCHANGED <<locks, now>> /\ now \in Int
  BY DEF CreateReleaseKey, TypeOK
<1>2. ASSUME NEW b \in BookingId
      PROVE  /\ Confirmed(b)' <=> Confirmed(b)
             /\ Confirmed(b) => bookings'[b] = bookings[b]
  <2>1. CASE bookings' = bookings
    BY <2>1 DEF Confirmed
  <2>2. CASE /\ bookings[req[r].booking].status # "confirmed"
             /\ bookings' = [bookings EXCEPT ![req[r].booking].key = NoKey]
    <3>1. CASE b # req[r].booking
      BY <2>2, <3>1 DEF Confirmed, TypeOK
    <3>2. CASE b = req[r].booking /\ bookings[b] # NoBooking
      BY <2>2, <3>2 DEF Confirmed, TypeOK, BookingDoc
    <3>3. CASE b = req[r].booking /\ bookings[b] = NoBooking
      <4>1. bookings'[b].status # "confirmed" \/ bookings'[b] = NoBooking
        BY <2>2, <3>3, NullIsNoDocument DEF TypeOK, BookingDoc
      <4> QED BY <3>3, <4>1 DEF Confirmed
    <3> QED BY <3>1, <3>2, <3>3
  <2> QED BY <2>1, <2>2 DEF CreateReleaseKey, Released
<1> QED
  BY <1>1, <1>2, SameLocks DEF LockDocsFor

\* The lock invariant is inductive, given the types.
LEMMA NextLocks == TypeOK /\ ReqInv /\ LockInv /\ [Next]_vars => LockInv'
<1> SUFFICES ASSUME TypeOK, ReqInv, LockInv, [Next]_vars PROVE LockInv'
  OBVIOUS
<1>1. TypeOK'
  BY NextTypes
<1>2. ASSUME UNCHANGED <<locks, bookings, now>>
      PROVE  LockInv'
  BY <1>1, <1>2, SameLocks DEF Confirmed, LockDocsFor, TypeOK
<1>3. ASSUME NEW r \in Request, CreateStep(r)
      PROVE  LockInv'
  <2>1. CASE \E b \in BookingId : CreateCommit(r, b)
    BY <2>1, CommitLocks
  <2>2. CASE CreateReleaseKey(r)
    BY <1>1, <2>2, ReleaseLocks
  <2> QED
    BY <1>2, <1>3, <2>1, <2>2
       DEF CreateStep, CreateStart, CreateReplay, CreateReadTeam, CreateCollide,
           CreateAfterCollision
<1>4. ASSUME NEW r \in Request, MoveStep(r)
      PROVE  LockInv'
  BY <1>2, <1>4, MoveLocks DEF MoveStep, MoveStart, MoveReadTeam, MoveAbort
<1>5. ASSUME NEW r \in Request, DropStep(r)
      PROVE  LockInv'
  BY <1>2, <1>5 DEF DropStep, DropStaffCheck, DropStaff, DropServiceCheck, DropService
<1>6. CASE Tick
  BY <1>1, <1>6, SameLocks, TimesAreMinutes DEF Tick, Confirmed, LockDocsFor, TypeOK
<1> QED
  BY <1>2, <1>3, <1>4, <1>5, <1>6, CancelLocks, ExpireLocks DEF Next, AddStaff, vars

\* In every reachable state the lock collection holds the slots of the live
\* bookings, all of them, once each, and no other booking's.
THEOREM LocksCorrect == Spec => [](OneLockPerSlot /\ NoStrayLock /\ LocksHeld)
<1>1. TypeOK /\ ReqInv /\ LockInv /\ [Next]_vars => (TypeOK /\ ReqInv /\ LockInv)'
  BY NextTypes, NextLocks
<1>2. Init => TypeOK /\ ReqInv /\ LockInv
  BY InitTypes, InitLocks
<1>3. LockInv => OneLockPerSlot /\ NoStrayLock /\ LocksHeld
  BY DEF LockInv
<1> QED BY <1>1, <1>2, <1>3, PTL DEF Spec

\* Through every cancellation, move, abort and replay, no slot stays locked for a
\* booking that is not confirmed or does not occupy it (slotLocks.js).
THEOREM NothingHeldForNobody == Spec => []NoStrayLock
BY LocksCorrect, PTL

-----------------------------------------------------------------------------
(* What the locks are for.                                                 *)

\* A live booking's slots under each of its lock keys are held in its name.
LEMMA HeldSlot ==
  ASSUME LockInv, NEW b \in BookingId, Live(b),
         NEW k \in LockKeys(bookings[b].staff, bookings[b].covers),
         NEW t \in SlotTimes(bookings[b].from, bookings[b].to)
  PROVE  \E l \in locks : l.staff = k /\ l.slot = t /\ l.booking = b
<1> DEFINE l == [staff |-> k, slot |-> t, booking |-> b,
                 expires |-> bookings[b].to + Grace]
<1>1. l \in LockDocsFor(b)
  BY DEF LockDocsFor, LockDocs
<1>2. l \in locks
  BY <1>1 DEF LockInv, LocksHeld
<1> QED BY <1>2

\* Two live bookings that overlap in time have no lock key in common.
LEMMA OverlapNeedsOtherKey ==
  ASSUME TypeOK, LockInv, NEW a \in BookingId, NEW b \in BookingId, a # b,
         Live(a), Live(b), Overlap(a, b),
         NEW k \in LockKeys(bookings[a].staff, bookings[a].covers),
         k \in LockKeys(bookings[b].staff, bookings[b].covers)
  PROVE  FALSE
<1>1. /\ bookings[a].from \in Int /\ bookings[a].to \in Int
      /\ bookings[b].from \in Int /\ bookings[b].to \in Int
      /\ bookings[a].from < bookings[a].to /\ bookings[b].from < bookings[b].to
  BY DEF TypeOK, Live, Confirmed, BookingDoc
<1>2. PICK t \in Int : /\ t \in SlotTimes(bookings[a].from, bookings[a].to)
                       /\ t \in SlotTimes(bookings[b].from, bookings[b].to)
  BY <1>1, OverlapSharesSlot DEF Overlap
<1>3. PICK l \in locks : l.staff = k /\ l.slot = t /\ l.booking = a
  BY <1>2, HeldSlot
<1>4. PICK m \in locks : m.staff = k /\ m.slot = t /\ m.booking = b
  BY <1>2, HeldSlot
<1> QED BY <1>3, <1>4 DEF LockInv, OneLockPerSlot

\* No staff member is ever given two customers at overlapping times, whatever
\* the starts and lengths, on the grid or off it, while requests, moves,
\* cancellations and lock expiry interleave freely.
THEOREM NeverDoubleBooked == Spec => []NoDoubleBooking
<1>1. TypeOK /\ LockInv => NoDoubleBooking
  <2>1. ASSUME NEW p, NEW c
        PROVE  p \in LockKeys(p, c)
    BY DEF LockKeys
  <2> QED BY <2>1, OverlapNeedsOtherKey DEF NoDoubleBooking
<1> QED BY <1>1, TypeCorrect, LocksCorrect, PTL DEF LockInv

\* A booking with nobody assigned keeps its time free of bookings for anyone
\* on the staff list that its locks were taken for.
THEOREM AnyoneBlocksWholeTeam == Spec => []AnyoneBlocksTeam
<1>1. TypeOK /\ LockInv => AnyoneBlocksTeam
  <2> SUFFICES ASSUME TypeOK, LockInv, NEW a \in BookingId, NEW b \in BookingId,
                      Live(a), Live(b), bookings[a].staff = Anyone,
                      bookings[b].staff \in bookings[a].covers, Overlap(a, b)
               PROVE  FALSE
    BY DEF AnyoneBlocksTeam
  <2>1. bookings[b].staff \in Person
    BY DEF TypeOK, Live, Confirmed, BookingDoc
  <2>2. bookings[b].staff # Anyone /\ a # b
    BY <2>1, NullsAreNotValues
  <2>3. /\ bookings[b].staff \in LockKeys(bookings[a].staff, bookings[a].covers)
        /\ bookings[b].staff \in LockKeys(bookings[b].staff, bookings[b].covers)
    BY <2>2 DEF LockKeys
  <2> QED BY <2>2, <2>3, OverlapNeedsOtherKey
<1> QED BY <1>1, TypeCorrect, LocksCorrect, PTL DEF LockInv

-----------------------------------------------------------------------------
(* Idempotency keys.                                                       *)

\* A confirmed booking still carries the key it was made with, and no key is
\* carried twice.
KeyInv ==
  /\ \A b \in BookingId : Confirmed(b) => bookings[b].key = bookings[b].intent
  /\ \A a, b \in BookingId, k \in Key : Holds(a, k) /\ Holds(b, k) => a = b

\* Keys are only ever dropped, and only by bookings that are not confirmed.
LEMMA DropKeys ==
  ASSUME KeyInv,
         \A b \in BookingId :
           /\ Confirmed(b)' => /\ Confirmed(b)
                               /\ bookings'[b].key = bookings[b].key
                               /\ bookings'[b].intent = bookings[b].intent
           /\ \A k \in Key : Holds(b, k)' => Holds(b, k)
  PROVE  KeyInv'
BY DEF KeyInv

\* The key invariant is inductive, given the types.
LEMMA NextKeys == TypeOK /\ ReqInv /\ KeyInv /\ [Next]_vars => KeyInv'
<1> SUFFICES ASSUME TypeOK, ReqInv, KeyInv, [Next]_vars PROVE KeyInv'
  OBVIOUS
<1>1. ASSUME UNCHANGED bookings
      PROVE  KeyInv'
  BY <1>1, DropKeys DEF Confirmed, Holds
<1>2. ASSUME NEW r \in Request, CreateReleaseKey(r)
      PROVE  KeyInv'
  <2> DEFINE o == req[r].booking
             doc == [bookings[o] EXCEPT !.key = NoKey]
  <2>1. CASE bookings' = bookings
    BY <1>1, <2>1
  <2>2. CASE /\ bookings[o].status # "confirmed"
             /\ bookings' = [bookings EXCEPT ![o] = doc]
    <3>1. o \in BookingId /\ bookings[o] \in BookingDoc
      BY <1>2 DEF CreateReleaseKey, ReqInv, TypeOK
    <3>2. doc.key = NoKey /\ doc.status # "confirmed"
      BY <2>2, <3>1 DEF BookingDoc
    <3> HIDE DEF doc
    <3> QED
      BY <2>2, <3>1, <3>2, DropKeys, NullsAreNotValues DEF Confirmed, Holds, TypeOK
  <2> QED BY <1>2, <2>1, <2>2 DEF CreateReleaseKey, Released
<1>3. ASSUME NEW r \in Request, NEW b \in BookingId, CreateCommit(r, b)
      PROVE  KeyInv'
  <2> DEFINE doc == [status |-> "confirmed", staff |-> req[r].staff,
                     service |-> req[r].service, from |-> req[r].from, to |-> req[r].to,
                     key |-> req[r].key, covers |-> req[r].covers, intent |-> req[r].key]
  <2>1. doc.key = doc.intent /\ doc.key = req[r].key
    OBVIOUS
  <2>2. bookings' = [bookings EXCEPT ![b] = doc] /\ bookings[b] = NoBooking /\ KeyFree(doc.key)
    BY <1>3 DEF CreateCommit
  <2> HIDE DEF doc
  <2>3. \A o \in BookingId \ {b} : bookings'[o] = bookings[o]
    BY <2>2 DEF TypeOK
  <2>4. bookings'[b] = doc
    BY <2>2 DEF TypeOK
  <2>5. \A k \in Key, o \in BookingId \ {b} : Holds(o, k) => doc.key # k
    BY <2>2, NullsAreNotValues DEF KeyFree, Holds
  <2> QED
    BY <2>1, <2>3, <2>4, <2>5 DEF KeyInv, Confirmed, Holds
<1>4. ASSUME NEW r \in Request, MoveCommit(r)
      PROVE  KeyInv'
  <2> DEFINE b == req[r].booking
             doc == [bookings[b] EXCEPT !.from = req[r].from, !.to = req[r].to,
                                        !.covers = req[r].covers]
  <2>1. b \in BookingId /\ Confirmed(b) /\ bookings[b] \in BookingDoc
    BY <1>4 DEF MoveCommit, ReqInv, Moving, StillMovable, Confirmed, TypeOK
  <2>2. doc.key = bookings[b].key /\ doc.intent = bookings[b].intent
    BY <2>1 DEF BookingDoc
  <2>3. bookings' = [bookings EXCEPT ![b] = doc]
    BY <1>4 DEF MoveCommit
  <2> HIDE DEF doc
  <2> QED
    BY <2>1, <2>2, <2>3, DropKeys DEF Confirmed, Holds, TypeOK
<1>5. ASSUME NEW b \in BookingId, Cancel(b)
      PROVE  KeyInv'
  <2> DEFINE doc == [bookings[b] EXCEPT !.status = "cancelled"]
  <2>1. bookings[b] # NoBooking /\ bookings[b] \in BookingDoc
    BY <1>5 DEF Cancel, Confirmed, TypeOK
  <2>2. doc.key = bookings[b].key /\ doc.status = "cancelled"
    BY <2>1 DEF BookingDoc
  <2>3. bookings' = [bookings EXCEPT ![b] = doc]
    BY <1>5 DEF Cancel
  <2> HIDE DEF doc
  <2> QED
    BY <2>1, <2>2, <2>3, DropKeys DEF Confirmed, Holds, TypeOK
<1> QED
  BY <1>1, <1>2, <1>3, <1>4, <1>5
     DEF Next, CreateStep, CreateStart, CreateReplay, CreateReadTeam, CreateCollide,
         CreateAfterCollision, MoveStep, MoveStart, MoveReadTeam, MoveAbort,
         DropStep, DropStaffCheck, DropStaff, DropServiceCheck, DropService,
         AddStaff, Tick, ExpireLock, vars

\* A caller's intent never ends in two confirmed bookings, however its retries
\* race with each other and with the release of its key after a cancellation.
THEOREM OneIntentOneBooking == Spec => []OneBookingPerIntent
<1>1. Init => TypeOK /\ ReqInv /\ KeyInv
  BY InitTypes DEF Init, KeyInv, Confirmed, Holds
<1>2. TypeOK /\ ReqInv /\ KeyInv /\ [Next]_vars => (TypeOK /\ ReqInv /\ KeyInv)'
  BY NextTypes, NextKeys
<1>3. TypeOK /\ KeyInv => OneBookingPerIntent
  BY DEF TypeOK, KeyInv, OneBookingPerIntent, Confirmed, Holds, BookingDoc
<1> QED BY <1>1, <1>2, <1>3, PTL DEF Spec

-----------------------------------------------------------------------------
(* Booking implements Diary.                                               *)

\* The refinement mapping: what the diary reads at each id.
Mapped == [b \in BookingId |-> Entry(b)]

\* The entry of a written booking is an appointment, never the blank.
LEMMA EntryFacts ==
  ASSUME TypeOK, NEW b \in BookingId, bookings[b] # NoBooking
  PROVE  /\ Entry(b) # NoBooking
         /\ Entry(b).kept = (bookings[b].status = "confirmed")
         /\ Entry(b).who = bookings[b].staff
         /\ Entry(b).from = bookings[b].from /\ Entry(b).to = bookings[b].to
<1>1. bookings[b] \in BookingDoc
  BY DEF TypeOK
<1>2. Entry(b) \in [kept : BOOLEAN, who : Worker, from : Int, to : Int]
  BY <1>1 DEF Entry, BookingDoc
<1> QED BY <1>2, NullIsNoEntry DEF Entry

\* An entry that binds is the entry of a live booking.
LEMMA BindingIsLive ==
  ASSUME TypeOK, NEW b \in BookingId, Promise!Binding(Entry(b))
  PROVE  Live(b)
<1>1. bookings[b] # NoBooking
  BY DEF Promise!Binding, Entry
<1> QED BY <1>1, EntryFacts DEF Promise!Binding, Live, Confirmed

\* Slots that fit into the lock collection once b's own are out of it leave room
\* in the diary: no other entry that binds clashes with the time they are for.
LEMMA FreeSlotsFit ==
  ASSUME TypeOK, LockInv, NEW b \in BookingId, NEW o \in BookingId \ {b}, Live(o),
         NEW p, NEW c, NEW s \in Int, NEW e \in Int, s < e,
         Insertable(LockDocs(b, p, c, s, e), WithoutLocksOf(b)),
         bookings[o].staff = p
  PROVE  ~(bookings[o].from < e /\ s < bookings[o].to)
<1> SUFFICES ASSUME bookings[o].from < e, s < bookings[o].to PROVE FALSE
  OBVIOUS
<1>1. /\ bookings[o].from \in Int /\ bookings[o].to \in Int
      /\ bookings[o].from < bookings[o].to
  BY DEF TypeOK, Live, Confirmed, BookingDoc
<1>2. PICK t \in Int : /\ t \in SlotTimes(bookings[o].from, bookings[o].to)
                       /\ t \in SlotTimes(s, e)
  BY <1>1, OverlapSharesSlot
<1>3. p \in LockKeys(p, c) /\ p \in LockKeys(bookings[o].staff, bookings[o].covers)
  BY DEF LockKeys
<1>4. PICK l \in locks : l.staff = p /\ l.slot = t /\ l.booking = o
  <2>1. o \in BookingId
    OBVIOUS
  <2> QED BY <1>2, <1>3, <2>1, HeldSlot
<1> DEFINE d == [staff |-> p, slot |-> t, booking |-> b, expires |-> e + Grace]
<1>5. d \in LockDocs(b, p, c, s, e) /\ d.staff = p /\ d.slot = t
  BY <1>2, <1>3 DEF LockDocs
<1>6. l \in WithoutLocksOf(b)
  BY <1>4 DEF WithoutLocksOf, LocksOf
<1> QED BY <1>4, <1>5, <1>6 DEF Insertable

\* A new document for b that takes its slots reads, in the diary, as an
\* appointment that fits.
LEMMA TakeFits ==
  ASSUME TypeOK, TypeOK', LockInv, NEW b \in BookingId, NEW doc \in BookingDoc,
         doc.status = "confirmed", doc.from < doc.to,
         bookings' = [bookings EXCEPT ![b] = doc],
         Insertable(LockDocs(b, doc.staff, doc.covers, doc.from, doc.to), WithoutLocksOf(b))
  PROVE  /\ Entry(b)' # NoBooking /\ Entry(b)'.kept
         /\ Entry(b)'.who = doc.staff
         /\ Mapped' = [Mapped EXCEPT ![b] = Entry(b)']
         /\ \A o \in BookingId \ {b} :
              Promise!Binding(Entry(o)) => ~Promise!Clash(Entry(o), Entry(b)')
<1>1. bookings'[b] = doc /\ doc # NoBooking
  BY NullIsNoDocument DEF TypeOK
<1>2. /\ Entry(b)' # NoBooking /\ Entry(b)'.kept = (doc.status = "confirmed")
      /\ Entry(b)'.who = doc.staff
      /\ Entry(b)'.from = doc.from /\ Entry(b)'.to = doc.to
  <2>1. Entry(b)' = [kept |-> doc.status = "confirmed", who |-> doc.staff,
                     from |-> doc.from, to |-> doc.to]
    BY <1>1 DEF Entry
  <2>2. Entry(b)' \in [kept : BOOLEAN, who : Worker, from : Int, to : Int]
    BY <2>1 DEF BookingDoc
  <2>3. Entry(b)' # NoBooking
    BY <2>2, NullIsNoEntry
  <2> QED BY <2>1, <2>3
<1>3. \A o \in BookingId \ {b} : Entry(o)' = Entry(o)
  BY DEF Entry, TypeOK
<1>4. Mapped' = [Mapped EXCEPT ![b] = Entry(b)']
  BY <1>3 DEF Mapped
<1>5. ASSUME NEW o \in BookingId \ {b}, Promise!Binding(Entry(o)),
             Promise!Clash(Entry(o), Entry(b)')
      PROVE  FALSE
  <2>1. Live(o) /\ bookings[o] # NoBooking
    BY <1>5, BindingIsLive DEF Live, Confirmed
  <2>2. bookings[o].staff = doc.staff /\ bookings[o].from < doc.to /\ doc.from < bookings[o].to
    BY <1>2, <1>5, <2>1, EntryFacts DEF Promise!Clash
  <2>3. doc.from \in Int /\ doc.to \in Int
    BY DEF BookingDoc
  <2> QED BY <2>1, <2>2, <2>3, FreeSlotsFit
<1> QED BY <1>2, <1>4, <1>5

\* The transaction of createBooking writes a new appointment.
LEMMA CommitWrites ==
  ASSUME TypeOK, TypeOK', ReqInv, LockInv, NEW r \in Request, NEW b \in BookingId,
         CreateCommit(r, b)
  PROVE  Promise!Write(b, Mapped'[b])
<1> DEFINE doc == [status |-> "confirmed", staff |-> req[r].staff,
                   service |-> req[r].service, from |-> req[r].from, to |-> req[r].to,
                   key |-> req[r].key, covers |-> req[r].covers, intent |-> req[r].key]
<1>1. req[r] \in RequestState /\ req[r].service \in Service /\ req[r].from < req[r].to
  BY DEF TypeOK, CreateCommit, ReqInv, Creating, Timed
<1>2. doc \in BookingDoc /\ doc.status = "confirmed" /\ doc.from < doc.to
  BY <1>1 DEF RequestState, BookingDoc
<1>3. WithoutLocksOf(b) = locks
  BY DEF CreateCommit, WithoutLocksOf, LocksOf, LockInv, NoStrayLock, Confirmed
<1>4. /\ bookings' = [bookings EXCEPT ![b] = doc] /\ now' = now
      /\ bookings[b] = NoBooking
      /\ Insertable(LockDocs(b, doc.staff, doc.covers, doc.from, doc.to), WithoutLocksOf(b))
  BY <1>3 DEF CreateCommit, NewDocs
<1> HIDE DEF doc
<1>5. /\ Entry(b)' # NoBooking /\ Entry(b)'.kept
      /\ Mapped' = [Mapped EXCEPT ![b] = Entry(b)']
      /\ \A o \in BookingId \ {b} :
           Promise!Binding(Entry(o)) => ~Promise!Clash(Entry(o), Entry(b)')
  BY <1>2, <1>4, TakeFits
<1>6. Mapped[b] = NoBooking /\ Mapped'[b] = Entry(b)'
  BY <1>4 DEF Mapped, Entry
<1> QED
  BY <1>4, <1>5, <1>6 DEF Promise!Write, Promise!Fits, Mapped

\* The transaction of rescheduleBooking moves a kept appointment.
LEMMA MoveMoves ==
  ASSUME TypeOK, TypeOK', ReqInv, LockInv, NEW r \in Request, MoveCommit(r),
         NEW b, b = req[r].booking
  PROVE  b \in BookingId /\ Promise!Move(b, Mapped'[b])
<1> DEFINE doc == [bookings[b] EXCEPT !.from = req[r].from, !.to = req[r].to,
                                      !.covers = req[r].covers]
<1>1. /\ req[r] \in RequestState /\ b \in BookingId /\ bookings[b] \in BookingDoc
      /\ req[r].staff = bookings[b].staff /\ bookings[b].status = "confirmed"
      /\ req[r].from < req[r].to /\ bookings[b] # NoBooking
  BY DEF TypeOK, MoveCommit, ReqInv, Moving, Timed, StillMovable, Confirmed
<1>2. /\ doc \in BookingDoc /\ doc.status = "confirmed" /\ doc.staff = req[r].staff
      /\ doc.covers = req[r].covers /\ doc.from = req[r].from /\ doc.to = req[r].to
  BY <1>1 DEF BookingDoc, RequestState
<1>3. /\ bookings' = [bookings EXCEPT ![b] = doc] /\ now' = now
      /\ Insertable(NewDocs(r, b), WithoutLocksOf(b))
  BY DEF MoveCommit
<1> HIDE DEF doc
<1>4. Insertable(LockDocs(b, doc.staff, doc.covers, doc.from, doc.to), WithoutLocksOf(b))
  BY <1>2, <1>3 DEF NewDocs
<1>5. /\ Entry(b)' # NoBooking /\ Entry(b)'.kept /\ Entry(b)'.who = doc.staff
      /\ Mapped' = [Mapped EXCEPT ![b] = Entry(b)']
      /\ \A o \in BookingId \ {b} :
           Promise!Binding(Entry(o)) => ~Promise!Clash(Entry(o), Entry(b)')
  BY <1>1, <1>2, <1>3, <1>4, TakeFits
<1>6. Mapped[b] = Entry(b) /\ Mapped'[b] = Entry(b)'
  BY <1>1 DEF Mapped
<1>7. Entry(b) # NoBooking /\ Entry(b).kept /\ Entry(b).who = doc.staff
  BY <1>1, <1>2, EntryFacts
<1>8. Promise!Move(b, Mapped'[b])
  BY <1>3, <1>5, <1>6, <1>7 DEF Promise!Move, Promise!Fits, Mapped
<1> QED BY <1>1, <1>8

\* cancelBooking strikes an appointment out.
LEMMA CancelStrikes ==
  ASSUME TypeOK, NEW b \in BookingId, Cancel(b)
  PROVE  Promise!StrikeOut(b)
<1> DEFINE doc == [bookings[b] EXCEPT !.status = "cancelled"]
<1>1. /\ bookings[b] # NoBooking /\ bookings[b] \in BookingDoc
      /\ bookings[b].status = "confirmed"
  BY DEF Cancel, Confirmed, TypeOK
<1>2. /\ doc.status = "cancelled" /\ doc.staff = bookings[b].staff
      /\ doc.from = bookings[b].from /\ doc.to = bookings[b].to /\ doc \in BookingDoc
  BY <1>1 DEF BookingDoc
<1>3. bookings' = [bookings EXCEPT ![b] = doc] /\ now' = now
  BY DEF Cancel
<1> HIDE DEF doc
<1>4. bookings'[b] = doc /\ doc # NoBooking
  BY <1>2, <1>3, NullIsNoDocument DEF TypeOK
<1>5. Entry(b)' = [Entry(b) EXCEPT !.kept = FALSE]
  <2> DEFINE Entries == [kept : BOOLEAN, who : Worker, from : Int, to : Int]
  <2>1. Entry(b) \in Entries
    BY <1>1 DEF Entry, BookingDoc
  <2>2. Entry(b)' \in Entries
    BY <1>2, <1>4 DEF Entry, BookingDoc
  <2>3. /\ Entry(b)'.kept = FALSE /\ Entry(b)'.who = Entry(b).who
        /\ Entry(b)'.from = Entry(b).from /\ Entry(b)'.to = Entry(b).to
    BY <1>1, <1>2, <1>4 DEF Entry
  <2> QED BY <2>1, <2>2, <2>3
<1>6. \A o \in BookingId \ {b} : Entry(o)' = Entry(o)
  BY <1>3 DEF Entry, TypeOK
<1>7. Mapped' = [Mapped EXCEPT ![b].kept = FALSE]
  BY <1>5, <1>6 DEF Mapped
<1>8. Entry(b) # NoBooking /\ Entry(b).kept
  BY <1>1, EntryFacts
<1> QED
  BY <1>3, <1>7, <1>8 DEF Promise!StrikeOut, Mapped

\* Releasing an idempotency key does not show in the diary.
LEMMA ReleaseStutters ==
  ASSUME TypeOK, ReqInv, NEW r \in Request, CreateReleaseKey(r),
         NEW o, o = req[r].booking
  PROVE  Mapped' = Mapped
<1> DEFINE doc == [bookings[o] EXCEPT !.key = NoKey]
<1>1. CASE bookings' = bookings
  BY <1>1 DEF Mapped, Entry
<1>2. CASE bookings' = [bookings EXCEPT ![o] = doc]
  <2>1. o \in BookingId /\ bookings[o] # NoBooking /\ bookings[o] \in BookingDoc
    BY DEF CreateReleaseKey, ReqInv, TypeOK
  <2>2. /\ doc.status = bookings[o].status /\ doc.staff = bookings[o].staff
        /\ doc.from = bookings[o].from /\ doc.to = bookings[o].to /\ doc \in BookingDoc
    BY <2>1 DEF BookingDoc
  <2> HIDE DEF doc
  <2>3. bookings'[o] = doc /\ doc # NoBooking
    BY <1>2, <2>1, <2>2, NullIsNoDocument DEF TypeOK
  <2>4. Entry(o)' = Entry(o)
    <3>1. Entry(o)' = [kept |-> doc.status = "confirmed", who |-> doc.staff,
                       from |-> doc.from, to |-> doc.to]
      BY <2>3 DEF Entry
    <3>2. Entry(o) = [kept |-> doc.status = "confirmed", who |-> doc.staff,
                      from |-> doc.from, to |-> doc.to]
      BY <2>1, <2>2 DEF Entry
    <3> QED BY <3>1, <3>2
  <2>5. \A b \in BookingId \ {o} : Entry(b)' = Entry(b)
    BY <1>2 DEF Entry, TypeOK
  <2>6. \A b \in BookingId : Entry(b)' = Entry(b)
    BY <2>4, <2>5
  <2> QED BY <2>6 DEF Mapped
<1> QED BY <1>1, <1>2 DEF CreateReleaseKey, Released

\* Every step of the service is a step of the diary or leaves it alone.
LEMMA NextKeepsPromise ==
  TypeOK /\ ReqInv /\ LockInv /\ [Next]_vars => [Promise!DiaryNext]_(Promise!diaryVars)
<1> SUFFICES ASSUME TypeOK, ReqInv, LockInv, [Next]_vars
             PROVE  \/ Promise!DiaryNext
                    \/ Mapped' = Mapped /\ now' = now
  BY DEF Promise!diaryVars, Mapped
<1>1. TypeOK'
  BY NextTypes
<1>2. ASSUME NEW r \in Request, NEW b \in BookingId, CreateCommit(r, b)
      PROVE  Promise!DiaryNext
  <2>1. Promise!Write(b, Mapped'[b])
    BY <1>1, <1>2, CommitWrites
  <2> QED BY <2>1 DEF Promise!DiaryNext, Mapped
<1>3. ASSUME NEW r \in Request, MoveCommit(r)
      PROVE  Promise!DiaryNext
  <2> DEFINE b == req[r].booking
  <2>1. b \in BookingId /\ Promise!Move(b, Mapped'[b])
    BY <1>1, <1>3, MoveMoves
  <2> QED BY <2>1 DEF Promise!DiaryNext, Mapped
<1>4. ASSUME NEW b \in BookingId, Cancel(b)
      PROVE  Promise!DiaryNext
  BY <1>4, CancelStrikes DEF Promise!DiaryNext
<1>5. ASSUME NEW r \in Request, CreateReleaseKey(r)
      PROVE  Mapped' = Mapped /\ now' = now
  BY <1>5, ReleaseStutters DEF CreateReleaseKey
<1>6. ASSUME UNCHANGED <<bookings, now>>
      PROVE  Mapped' = Mapped /\ now' = now
  BY <1>6 DEF Mapped, Entry
<1>7. CASE Tick
  <2>1. now' > now /\ Mapped' = Mapped
    BY <1>7, TimesAreMinutes DEF Tick, Mapped, Entry, TypeOK
  <2> QED BY <2>1 DEF Promise!DiaryNext, Promise!Pass, Mapped
<1> QED
  BY <1>2, <1>3, <1>4, <1>5, <1>6, <1>7
     DEF Next, CreateStep, CreateStart, CreateReplay, CreateReadTeam, CreateCollide,
         CreateAfterCollision, MoveStep, MoveStart, MoveReadTeam, MoveAbort,
         DropStep, DropStaffCheck, DropStaff, DropServiceCheck, DropService,
         AddStaff, ExpireLock, vars

\* The booking service implements the diary: seen through its bookings alone,
\* every handler writes, moves or strikes out an appointment in one step, never
\* over another that binds, and nothing revives a cancelled one.
THEOREM ServiceKeepsPromise == Spec => KeepsPromise
<1>1. Init => Promise!DiaryInit
  BY TimesAreMinutes DEF Init, Promise!DiaryInit, Entry
<1>2. Spec => [](TypeOK /\ ReqInv /\ LockInv)
  <2>1. Init => TypeOK /\ ReqInv /\ LockInv
    BY InitTypes, InitLocks
  <2>2. TypeOK /\ ReqInv /\ LockInv /\ [Next]_vars => (TypeOK /\ ReqInv /\ LockInv)'
    BY NextTypes, NextLocks
  <2> QED BY <2>1, <2>2, PTL DEF Spec
<1> QED
  BY <1>1, <1>2, NextKeepsPromise, PTL DEF Spec, KeepsPromise, Promise!DiarySpec
=============================================================================
