SPECIFICATION Spec
CONSTANTS
  TaskIds = {t1, t2, t3}
  Workers = {w1}
  NoWorker = NoWorker
  NoTask = NoTask
  Archived = Archived
  Requests <- IdentityRequests
  Modes = {"active"}
  Delays = {0, 1}
  LeaseFor = 1
  StaleAfter = 1
  AgeAfter = 1
  NotifyLimit = 1
  PurgeEnabled = TRUE
  MaxOverdue = 1
  MaxAttempts = 1
  MaxRestarts = 0
  MaxLate = 0
SYMMETRY Symmetric
INVARIANTS
  KeysUnique
  OneUnfinishedPerIdentity
PROPERTIES
  RearmKeepsTime
