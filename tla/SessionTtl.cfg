SPECIFICATION PolledSpec
CONSTANTS
  Sessions = {s1}
  Enders = {e1}
  RequestIds = {}
  NoRequest = NoRequest
  NoSession = NoSession
  MaxSessions = 1
  Unreliable = {}
  Unkillable = {}
PROPERTY
  TtlFreesSlot
CHECK_DEADLOCK FALSE
