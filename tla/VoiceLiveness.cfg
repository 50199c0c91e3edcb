SPECIFICATION Spec
CONSTANTS
  Call = {c1}
  Business = {shop}
  NoLog = nolog
  MaxCalls = 1
  MaxPerTenant = 1
  MaxRestarts = 2
  MaxAsks = 1
PROPERTIES LogsClose SessionsEnd
CHECK_DEADLOCK FALSE
