SPECIFICATION Spec
CONSTANTS
  Process = {q1, q2}
  MaxPeriod = 2
  MaxTry = 1
  MaxMishaps = 1
  Verdict = {"active"}
  FreePeriod <- MCFree
  NoIntent = nointent
  Never = never
SYMMETRY Symmetric
INVARIANTS TypeOK PaidOnceUnlessRisky ClosedOnce NoPeriodSkipped
CHECK_DEADLOCK FALSE
