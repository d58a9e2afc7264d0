SPECIFICATION Spec
CONSTANTS
  Submissions <- MCSubmissions
INVARIANTS
  AcceptedRuns
  EndsAsCommands
CHECK_DEADLOCK FALSE
