SPECIFICATION Spec
CONSTANTS
  Call = {c1, c2}
  Business = {shop}
  NoLog = nolog
  MaxCalls = 1
  MaxPerTenant = 1
  MaxRestarts = 1
  MaxAsks = 1
SYMMETRY Symmetric
INVARIANTS TypeOK LinesMatchCalls OutcomeStands CallbackAsLogged
CHECK_DEADLOCK FALSE
