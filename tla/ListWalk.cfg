SPECIFICATION Spec
CONSTANTS
  Rows = {1, 2, 3}
  NoRow = 0
  Writers = {w1}
  Lister = Lister
  RequestedSize = 1
  DefaultPageSize = 2
  MaxPageSize = 3
  Resolution = 2
  MaxTime = 3
INVARIANTS
  UntouchedListed
  StoresAgree
CHECK_DEADLOCK FALSE
