SPECIFICATION Spec
CONSTANTS
  Request = {r1, r2}
  BookingId = {b1, b2, b3}
  Person = {}
  Anyone = anyone
  Service = {cut}
  Key = {k}
  NoKey = nokey
  NoBooking = nobooking
  Start <- MCRetryStart
  Length <- MCLength
  Instant <- MCRetryInstant
  Notice = 1
  Grace = 6
SYMMETRY Symmetric
INVARIANTS OneBookingPerIntent
CHECK_DEADLOCK FALSE
