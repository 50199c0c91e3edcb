SPECIFICATION Spec
CONSTANTS
  Request = {r1, r2}
  BookingId = {b1, b2}
  Person = {ana}
  Anyone = anyone
  Service = {cut}
  Key = {}
  NoKey = nokey
  NoBooking = nobooking
  Start <- MCStart
  Length <- MCLength
  Instant <- MCInstant
  Notice = 0
  Grace = 6
SYMMETRY Symmetric
INVARIANTS TypeOK NoStrayLock LocksHeld NoDoubleBooking AnyoneBlocksTeam
PROPERTY KeepsPromise
CHECK_DEADLOCK FALSE
