SPECIFICATION FairSpec
CONSTANTS
  MAX_HARTS = 1
  THREAD_MAX = 4
  BootHart = 0
  SCHED_SLICE_TICKS = 2
  CONSOLE_RBUF_SIZE = 3
  ExitCodes = {"zero"}
  Zero = "zero"
  Syscalls = {"SLEEP", "YIELD", "CREATE", "EXIT", "JOIN", "KILL", "DETACH"}
  SleepTicks = {1}
  ReadLens = {1}
  Readers <- MCReaders
PROPERTIES
  RunnableRuns
  SleepersWake
