SPECIFICATION Spec
CONSTANTS
  ExecuteCalls = {t1, t2}
  QueueCalls = {}
  FrameCalls = {}
  InputCalls = {}
  RequestIds = {r1}
  NoRequest = NoRequest
  NoTask = NoTask
  Unreliable = {t1}
  StopLine = StopLine
  PipeRoom = 3
  AnswerRoom = 3
INVARIANTS
  TypeOK
  ExecutedOnce
  ToldIsTrue
  OwnResults
PROPERTIES
  EndedStays
  ImplementsChannel
CHECK_DEADLOCK FALSE
