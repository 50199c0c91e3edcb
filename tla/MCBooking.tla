----------------------------- MODULE MCBooking -----------------------------
(***************************************************************************)
(* Booking.tla on a small business: one service, two requests in flight.   *)
(* Booking.cfg takes no idempotency keys, a staff member who joins and     *)
(* leaves, and a clock that passes the end of the bookings and the expiry  *)
(* of some of their locks.  BookingRetries.cfg takes a key, three bookings *)
(* and a business without staff.                                           *)
(***************************************************************************)
EXTENDS Booking, TLC

\* One start on the slot grid, one off it, one where the first booking ends.
MCStart == {0, 3, 5}

\* A sane service, and one whose times cancel out (refused with 400).
MCLength == {0, 5}

\* Before every start, and when some of the locks have expired.
MCInstant == {-1, 6, 11}

\* Two starts that do not collide, and a clock at which only one has notice.
MCRetryStart == {0, 5}
MCRetryInstant == {-1, 1}

Symmetric == Permutations(BookingId) \cup Permutations(Request) \cup Permutations(Person)
=============================================================================
