SPECIFICATION ServiceFairSpec
CONSTANTS
  Sessions = {s1}
  Enders = {e1}
  RequestIds = {}
  NoRequest = NoRequest
  NoSession = NoSession
  MaxSessions = 1
  Unreliable = {s1}
  Unkillable = {s1}
  MaxRestarts = 1
INVARIANTS
  ServiceTypeOK
  ShutdownLeavesOnlyLate
  AgreementAcrossRestarts
PROPERTIES
  ImplementsOutagePool
  CallsReturn
  ExpiryFreesSlot
  ExpiredRowsEnd
CHECK_DEADLOCK FALSE
