\* A database that does not answer.
SPECIFICATION TimerSpec
CONSTANTS
  r1 = r1
  r2 = r2
  m1 = m1
  m2 = m2
  Requests = {r1}
  Messages = {m1}
  MaxSignals = 1
  MaxRetries = 2
  MaxFails = 0
CHECK_DEADLOCK FALSE
PROPERTIES
  ShutdownIsForced
