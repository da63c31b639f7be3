SPECIFICATION FairSpec
CONSTANTS
  TaskIds = {t1, t2}
  Workers = {w1, w2}
  NoWorker = NoWorker
  NoTask = NoTask
  Archived = Archived
  Requests <- ClaimRequests
  Modes = {"shadow", "active"}
  Delays = {0, 1}
  LeaseFor = 2
  StaleAfter = 1
  AgeAfter = 1
  NotifyLimit = 2
  PurgeEnabled = FALSE
  MaxOverdue = 1
  MaxAttempts = 2
  MaxRestarts = 1
  MaxLate = 1
INVARIANTS
  HandledInOwnEpoch
PROPERTIES
  SuccessIsTheClaimants
  EveryTaskSettles
