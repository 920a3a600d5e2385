SPECIFICATION FairSpec
CONSTANTS
  Stt = {"s1", "s2", "s3"}
  Watchdog = "watchdog"
  Timeout = 1
CHECK_DEADLOCK FALSE
INVARIANTS BotsAreKnown
PROPERTIES OnlySilentAreSwept SilentIsStopped
