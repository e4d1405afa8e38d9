SPECIFICATION Spec
CONSTANTS
  Assets <- MCAssets
  Jobs <- MCJobs
  Workers = {w1, w2}
  MaxAttempts = 3
  NoJob = NoJob
  NoWorker = NoWorker
INVARIANTS DeletionGraduates
CHECK_DEADLOCK FALSE
