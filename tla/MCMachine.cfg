SPECIFICATION MachineSpec
CONSTANTS
  Boot = h0
  Secondary = {h1}
  MAX_IRQ = 3
  plic_num_sources = 2
  UartIrqs = {0, 1, 3}
  CONSOLE_RBUF_SIZE = 3
  FifoSize = 2
  ReadLens = {1, 2}
  MaxTyped = 4
  MaxTime = 2
  HartId = {0, 1}
  Illegal = {{}, {"sfence.vm"}, {"csrr satp", "csrw satp", "fence.i"}}
  Logger = {h1, h2}
  NONE = NONE
  LOG_RING_BUFFER_SIZE = 2
  LOG_BUFFER_SIZE = 4
  Levels = {1, 2}
  Bodies <- MCBodies
  NL = "n"
  ReadSizes = {1}
  x = "a"
  y = "b"
  MAX_HARTS = 1
  THREAD_MAX = 6
  SHELL_MAX_PROCS = 1
  SHELL_THREAD_LIST_MAX = 4
  SPAWN_MAX = 2
  MON_MAX = 1
  Counts <- MCCounts
  KillTargets = {"shell", "spawn", "monitor"}
  StopTargets = {"monitor"}
INVARIANTS
  InputAccounted
  BootSafe
  SpawnTargetsOwn
  ReportsTrue
  MonitorsAccounted
  ProcSlotsReturned
  OneShell
PROPERTIES
  InputServed
  BootCompletes
  KickTaken
  ImplementsLog
  LockReleased
  SpawnKillReclaims
  ProgramsEnd
CHECK_DEADLOCK FALSE
