SPECIFICATION OneWorkerSpec
CONSTANTS
  Jobs <- MCJobs
  Workers = {w1}
  MaxAttempts = 2
  NoJob = NoJob
  NoWorker = NoWorker
  Upserts = {upsert1}
  DeleteJob = delete
  Passes = {p1, p2}
  Tasks = {t1, t2}
  NoTask = NoTask
  Titles <- MCTitles
  NoTitle = 0
  MaxFaults = 1
SYMMETRY ProcessSymmetry
INVARIANTS TypeOK DeletedStaysEmpty
PROPERTIES ReplacedPassIsSilent PublishesCurrentTitle
CHECK_DEADLOCK FALSE
