SPECIFICATION Spec
CONSTANTS
  Thing = {t1, t2}
  Actor = {a1, a2}
  Anyone = Anyone
  None = None
  Person = {"sue"}
  Visit = {"cut"}
  BookingId = {1, 2, 3}
  Hour = {1, 2, 3}
  MaxMoves = 1
  MaxMishaps = 1
  MaxWords = 1
  MaxEntries = 3
  MaxTexts = 2
  MaxRecords = 3
  MaxTime = 1
  MaxMessages = 3
  MaxMonth = 3
  MaxEvents = 2
INVARIANTS Types NobodyIsPestered WaitersServedInTurn
INVARIANTS RecordsHold NothingIsForgotten AgentHolds
CHECK_DEADLOCK FALSE
SYMMETRY Symmetric
VIEW Matters
