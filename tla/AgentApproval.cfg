SPECIFICATION Spec
CONSTANTS
  Schedules = {s1, s2}
  MaxToolCalls = 2
  MaxCalls = 2
  MaxDeletes = 2
  MaxTurns = 2
  Threshold = 3
  KeepRecent = 2
  AnswersFirst = TRUE
  AwaitsTools = TRUE
INVARIANT DeletesAreApproved
CHECK_DEADLOCK FALSE
