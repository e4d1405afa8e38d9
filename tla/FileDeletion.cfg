SPECIFICATION FairSpec
CONSTANTS
  Assets <- MCAssets
  Jobs <- MCJobs
  Workers = {w1, w2}
  MaxAttempts = 3
  NoJob = NoJob
  NoWorker = NoWorker
INVARIANTS TypeOK StartsAreCounted ReadableHasBytes NoLingeringBytes
PROPERTIES SettledByItsHolder FinishedIsFinal EveryJobEnds
CHECK_DEADLOCK FALSE
