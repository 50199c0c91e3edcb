SPECIFICATION Spec
CONSTANTS
  Actor = {a1, a2}
  Other = {o1, o2}
  Anyone = Anyone
  Rival = Rival
  None = None
  MaxCodes = 2
  MAX_ATTEMPTS = 2
  Slot = {31, 45}
  Day = {1, 2}
  DayLength = 20
  Instant = {20, 31}
  CUTOFF = 11
  MaxCalls = 2
  MaxMoves = 1
  MaxAsks = 2
INVARIANTS Types DoneByWhoDoesIt BookedOnceUnlessGivenUp ConsentedBeforeBooking
INVARIANTS CodesHold ChangesAreAllowed DirectoryHolds
CHECK_DEADLOCK FALSE
VIEW Matters
SYMMETRY Symmetric
