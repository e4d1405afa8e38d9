SPECIFICATION Spec
CONSTANTS
  s1 = s1
  s2 = s2
  s3 = s3
  w1 = w1
  None = None
  Submission = {s1, s2, s3}
  AgentSubmission = {}
  Worker = {w1}
  MaxRecoveries = 0
  MaxVersion = 2
  MaxGeneration = 2
  MaxFaults = 0
  MaxCalls = 1
SYMMETRY SubmissionSymmetry
CONSTRAINT FewCalls
PROPERTIES FifoAdmission HoldBlocksAdmission InterruptIsDurable ImplementsSlot
CHECK_DEADLOCK FALSE
