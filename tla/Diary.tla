------------------------------- MODULE Diary -------------------------------
(***************************************************************************)
(* What the booking service promises, without its database: one diary in   *)
(* which each booking id is written once, may be moved, and may be struck  *)
(* out for good, and in which no two appointments still on the books give  *)
(* one person two customers at a time.  Booking.tla implements it with     *)
(* request handlers, transactions and five-minute slot locks.              *)
(***************************************************************************)
EXTENDS Integers

CONSTANTS
  BookingId,  \* ids of bookings
  Worker,     \* whom an appointment can be with (a staff member, or anyone)
  Blank,      \* the entry of an id that was never written
  Grace       \* how long after its end an appointment still keeps its time

VARIABLES
  now,        \* the clock
  diary       \* what is written under each id

diaryVars == <<now, diary>>

Appointment == [kept : BOOLEAN, who : Worker, from : Int, to : Int]

\* An appointment that still keeps its time from being given away.
Binding(a) == a # Blank /\ a.kept /\ now < a.to + Grace

Clash(a, b) == a.who = b.who /\ a.from < b.to /\ b.from < a.to

Fits(b, a) ==
  \A o \in BookingId \ {b} : Binding(diary[o]) => ~Clash(diary[o], a)

DiaryInit == diary = [b \in BookingId |-> Blank] /\ now \in Int

\* Write a new appointment where nothing binding is in its way.
Write(b, a) ==
  /\ diary[b] = Blank
  /\ a # Blank /\ a.kept /\ Fits(b, a)
  /\ diary' = [diary EXCEPT ![b] = a]
  /\ UNCHANGED now

\* Give a kept appointment another time with the same person.
Move(b, a) ==
  /\ diary[b] # Blank /\ diary[b].kept
  /\ a # Blank /\ a.kept /\ a.who = diary[b].who /\ Fits(b, a)
  /\ diary' = [diary EXCEPT ![b] = a]
  /\ UNCHANGED now

\* Strike an appointment out; nothing ever brings it back.
StrikeOut(b) ==
  /\ diary[b] # Blank /\ diary[b].kept
  /\ diary' = [diary EXCEPT ![b].kept = FALSE]
  /\ UNCHANGED now

Pass == now' > now /\ UNCHANGED diary

\* The entry an id changes to is read from diary', which keeps TLC from
\* enumerating every appointment there could be.
DiaryNext ==
  \/ \E b \in BookingId :
       \/ Write(b, diary'[b])
       \/ Move(b, diary'[b])
       \/ StrikeOut(b)
  \/ Pass

DiarySpec == DiaryInit /\ [][DiaryNext]_diaryVars
=============================================================================
