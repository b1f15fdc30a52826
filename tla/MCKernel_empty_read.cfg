SPECIFICATION Spec
CONSTANTS
  MAX_HARTS = 1
  THREAD_MAX = 3
  BootHart = 0
  SCHED_SLICE_TICKS = 2
  CONSOLE_RBUF_SIZE = 3
  ExitCodes = {"zero"}
  Zero = "zero"
  Syscalls = {"YIELD", "CREATE", "EXIT", "READ"}
  SleepTicks = {1}
  ReadLens = {0, 1}
  Readers <- MCReaders
INVARIANTS
  ResultsDelivered
