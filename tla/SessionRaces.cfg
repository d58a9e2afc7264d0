SPECIFICATION Spec
CONSTANTS
  Sessions = {s1, s2}
  Enders = {e1, e2}
  RequestIds = {r1}
  NoRequest = NoRequest
  NoSession = NoSession
  MaxSessions = 1
  Unreliable = {}
  Unkillable = {}
SYMMETRY Symmetry
CONSTRAINT SameRequest
INVARIANTS
  ProcessesBounded
  NoOrphanProcess
  OneBrowserPerRequest
  QuietAgreement
PROPERTY
  ImplementsPool
CHECK_DEADLOCK FALSE
