SPECIFICATION FairSpec
CONSTANTS
  TaskIds = {t1, t2, t3}
  EventIds = {e1, e2}
  NoTask = NoTask
  NoEvent = NoEvent
  VerifyAfter = 3
  RecoveryAfter = 2
  StaleAfter = 2
  Delays = {0, 1}
INVARIANTS
  EventMatchesState
  TimersMatchWindow
PROPERTIES
  KeepsPromise
  SilenceNeverAlarms
  ViolationIsDecided
