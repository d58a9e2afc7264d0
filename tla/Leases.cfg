SPECIFICATION FairSpec
CONSTANTS
  Sessions = {s1}
  Releases = {r1, r2}
  MaxAttempts = 3
  NoSession = NoSession
  NoProxy = NoProxy
  Manual = Manual
INVARIANTS
  TypeOK
  LeaseAccounted
  OneReturn
  RouteAsProfile
PROPERTIES
  CallsReturn
  ImplementsBook
CHECK_DEADLOCK FALSE
