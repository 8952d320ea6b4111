SPECIFICATION FairSpec
CONSTANTS
  Warning = 3
  Timeout = 5
  InitialTimeout = 3
  Heartbeat = 1
  MinRto = 2
  MaxRto = 3
  InitRto = 1
  Rtos = {2}
  Data = {d1, d2}
  MaxExp = 2
INVARIANTS SilenceIsWarned ResentInTime NeverQuiet
PROPERTIES OnlySilenceTimesOut SilenceEnds
CHECK_DEADLOCK FALSE
