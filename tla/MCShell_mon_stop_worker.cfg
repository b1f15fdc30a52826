SPECIFICATION ShellSpec
CONSTANTS
  MAX_HARTS = 1
  THREAD_MAX = 6
  SHELL_MAX_PROCS = 1
  SHELL_THREAD_LIST_MAX = 4
  SPAWN_MAX = 1
  MON_MAX = 1
  Counts <- MCCounts
  KillTargets = {}
  StopTargets = {"spawn"}
INVARIANT SpawnTargetsOwn
