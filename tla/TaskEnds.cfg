SPECIFICATION FairSpec
CONSTANTS
  ExecuteCalls = {t1}
  QueueCalls = {q1}
  FrameCalls = {}
  InputCalls = {}
  RequestIds = {r1}
  NoRequest = NoRequest
  NoTask = NoTask
  Unreliable = {t1}
  StopLine = StopLine
  PipeRoom = 1
  AnswerRoom = 1
INVARIANTS
  SameAnswer
PROPERTIES
  RowsEnd
  ImplementsLedger
CHECK_DEADLOCK FALSE
