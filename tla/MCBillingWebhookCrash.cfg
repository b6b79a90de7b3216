SPECIFICATION Spec
CONSTANTS
  s1 = s1  s2 = s2  t1 = t1  t2 = t2
  Sales = {s1}
  Threads = {t1}
  DocStatuses = {"RECEIVED", "ACCEPTED"}
  MaxAttempts = 1
  AttemptCap = 1
  MaxClock = 4
  MaxFaults = 1
  OperatorRetries = FALSE
  NoDoc = NoDoc
  NoSale = NoSale
CHECK_DEADLOCK FALSE
INVARIANTS
  ConsumedEventsApplied
