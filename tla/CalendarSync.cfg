SPECIFICATION Spec
CONSTANTS
  Booking = {b1}
  Instance = {i1, i2}
  Event = {e1, e2, e3}
  NoEvent = noevent
  Nobody = nobody
  Dead = dead
  Unused = unused
  Deleted = deleted
  NoDoc = nodoc
  MaxAttempts = 2
  MaxEdits = 2
  MaxMishaps = 1
INVARIANTS TypeOK SomebodyLooks OneEventPerBooking SyncedUnlessDisturbed
PROPERTY QueueDrains
CHECK_DEADLOCK FALSE
