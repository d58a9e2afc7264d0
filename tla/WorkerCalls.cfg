SPECIFICATION FairSpec
CONSTANTS
  TaskCalls = {t1, t2}
  FrameCalls = {f1}
  InputCalls = {}
  StopLine = StopLine
  PipeRoom = 1
  AnswerRoom = 1
INVARIANTS
  LinesAccounted
  LagLaw
  StopVerdict
PROPERTIES
  CallsReturn
  StopReturnsOnceTold
CHECK_DEADLOCK FALSE
