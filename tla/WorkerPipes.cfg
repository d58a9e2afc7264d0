SPECIFICATION HealthySpec
CONSTANTS
  TaskCalls = {t1, t2}
  FrameCalls = {f1}
  InputCalls = {}
  StopLine = StopLine
  PipeRoom = 1
  AnswerRoom = 1
PROPERTY StopReturns
CHECK_DEADLOCK FALSE
