SPECIFICATION PatientSpec
CONSTANTS
  s1 = s1
  s2 = s2
  w1 = w1
  None = None
  Submission = {s1, s2}
  AgentSubmission = {s1}
  Worker = {w1}
  MaxRecoveries = 1
  MaxVersion = 1
  MaxGeneration = 2
  MaxFaults = 1
  MaxCalls = 9
PROPERTIES PendingIsLeft RunEnds
CHECK_DEADLOCK FALSE
