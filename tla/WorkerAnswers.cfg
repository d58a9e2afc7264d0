SPECIFICATION Spec
CONSTANTS
  TaskCalls = {t1, t2}
  FrameCalls = {f1}
  InputCalls = {}
  StopLine = StopLine
  PipeRoom = 4
  AnswerRoom = 4
INVARIANT AnswerMatches
CHECK_DEADLOCK FALSE
