SPECIFICATION Spec
CONSTANTS
  s1 = s1
  s2 = s2
  w1 = w1
  w2 = w2
  None = None
  Submission = {s1, s2}
  AgentSubmission = {s1}
  Worker = {w1, w2}
  MaxRecoveries = 1
  MaxVersion = 1
  MaxGeneration = 3
  MaxFaults = 1
  MaxCalls = 1
SYMMETRY WorkerSymmetry
CONSTRAINT FewCalls
INVARIANTS TypeOK SingleLiveTurn GenerationFence UninterruptedRunHasExecutor FreshTurnIsDispatched
PROPERTIES TerminalIsFinal ImplementsLife
CHECK_DEADLOCK FALSE
