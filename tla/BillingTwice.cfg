SPECIFICATION Spec
CONSTANTS
  Process = {q1}
  MaxPeriod = 1
  MaxTry = 1
  MaxMishaps = 1
  Verdict = {}
  FreePeriod = {}
  NoIntent = nointent
  Never = never
INVARIANT NeverTakenTwice
CHECK_DEADLOCK FALSE
