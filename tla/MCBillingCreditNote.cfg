SPECIFICATION FairSpec
CONSTANTS
  t1 = t1  t2 = t2
  Threads = {t1, t2}
  DocStatuses = {"RECEIVED", "ACCEPTED", "REJECTED"}
  MaxAttempts = 1
  AttemptCap = 2
  MaxClock = 4
  MaxFaults = 1
  OperatorRequeues = TRUE
  NoThread = NoThread
CHECK_DEADLOCK FALSE
PROPERTIES
  ImplementsReversal
  OnlyFaultsLoseEffects
