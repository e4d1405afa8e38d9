SPECIFICATION Spec
CONSTANTS
  s1 = s1
  s2 = s2
  w1 = w1
  None = None
  Submission = {s1, s2}
  AgentSubmission = {s1}
  Worker = {w1}
  MaxRecoveries = 0
  MaxVersion = 2
  MaxGeneration = 2
  MaxFaults = 0
INVARIANTS RunHasExecutor
CHECK_DEADLOCK FALSE
