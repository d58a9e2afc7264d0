SPECIFICATION FairSpec
CONSTANTS
  Links = {l1, l2}
  NoLink = NoLink
  RtcTries = 1
  SocketTries = 1
  MaxUpsets = 1
INVARIANTS
  OneConnection
  ConnectedIsServed
PROPERTIES
  ConnectionsEnd
  ViewerTold
CHECK_DEADLOCK FALSE
