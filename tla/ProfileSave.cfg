SPECIFICATION Spec
CONSTANTS
  Actor = {a1, a2}
  Attempt = {n1, n2, n3}
  Thing = {t1, t2}
  Anyone = Anyone
  Unseen = Unseen
  None = None
  MaxPasswords = 2
  MaxSecrets = 2
  MaxTime = 1
  MaxSlug = 4
  Owned = {"admins", "bookings"}
  MaxNumbers = 2
  Service = {"cut"}
  Staff = {"sue"}
  Time = {2, 4}
  Instant = {1, 3}
  Booking = {"visit"}
  MaxEdits = 2
  MaxVersions = 2
  MaxPerEmail = 2
  MaxPerIp = 2
  MaxCodes = 1
  Threshold = 2
  MaxAttempts = 3
  MaxRuns = 3
  Number = {1, 2}
  Undialable = 2
  Window = {"window"}
  MaxSessions = 2
  MaxLoads = 2
  MaxRequests = 3
  Channel = {"phone"}
  MaxTestCalls = 1
  MaxCalls = 2
  Slot = {11, 21}
  Day = {1, 2}
  DayLength = 10
INVARIANTS BlankMeansNoLimit
CHECK_DEADLOCK FALSE
SYMMETRY Symmetric
