SPECIFICATION Spec
CONSTANTS
  MAX_HARTS = 2
  THREAD_MAX = 5
  BootHart = 0
  SCHED_SLICE_TICKS = 2
  CONSOLE_RBUF_SIZE = 3
  ExitCodes = {"zero"}
  Zero = "zero"
  Syscalls = {"SLEEP", "YIELD", "CREATE", "EXIT", "JOIN", "DETACH", "READ"}
  SleepTicks = {0, 2}
  ReadLens = {1, 2}
  Readers <- MCReaders
INVARIANTS
  TypeOK
  ThreadStatesConsistent
  QueuesConsistent
  JoinsConsistent
  NoLostKick
  NoOverdueSleeper
  ReaderNotStranded
  ResultsDelivered
PROPERTIES
  JoinReturnsAtDeath
  NotWokenEarly
