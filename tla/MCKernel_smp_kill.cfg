SPECIFICATION FairSpec
CONSTANTS
  MAX_HARTS = 2
  THREAD_MAX = 6
  BootHart = 0
  SCHED_SLICE_TICKS = 2
  CONSOLE_RBUF_SIZE = 3
  ExitCodes = {"zero"}
  Zero = "zero"
  Syscalls = {"YIELD", "CREATE", "EXIT", "KILL"}
  SleepTicks = {1}
  ReadLens = {1}
  Readers <- MCReaders
INVARIANTS
  SlotHeldWhileRunning
PROPERTIES
  DeadStayDead
  KilledLeavesCpu
  QueuesServed
