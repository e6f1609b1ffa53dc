\* Three signals, with requests and messages under way.
SPECIFICATION FairSpec
CONSTANTS
  r1 = r1
  r2 = r2
  m1 = m1
  m2 = m2
  Requests = {r1, r2}
  Messages = {m1, m2}
  MaxSignals = 3
  MaxRetries = 2
  MaxFails = 2
CHECK_DEADLOCK FALSE
INVARIANTS
  ShutdownInvariant
  OneSignalIsGraceful
  LossIsFatal
PROPERTIES
  ImplementsWorkerLife
  ShutdownEnds
