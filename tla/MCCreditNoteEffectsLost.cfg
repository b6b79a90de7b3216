SPECIFICATION InsistentSpec
CONSTANTS
  t1 = t1  t2 = t2
  Threads = {t1}
  DocStatuses = {"RECEIVED", "ACCEPTED"}
  MaxAttempts = 2
  AttemptCap = 2
  MaxClock = 4
  MaxFaults = 1
  OperatorRequeues = FALSE
  NoThread = NoThread

CHECK_DEADLOCK FALSE
PROPERTIES
  AcceptedTakesEffect
