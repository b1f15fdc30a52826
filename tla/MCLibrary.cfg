SPECIFICATION LibrarySpec
CONSTANTS
  MAX_HARTS = 2
  THREAD_MAX = 5
  SnapshotSizes = {2}
  Epochs <- MCEpochs
  Formats <- MCFormats
  Sizes = {0, 1, 4, 9}
  INT_MAX = 127
  Values <- MCValues
  Strings <- MCStrings
  M = 6
  Char = {1, 2}
  SHELL_MAX_ARGS = 2
  Visible = {"a", " "}
  buf_size = 3
  MaxKeys = 4
  NSEC_PER_SEC = 10
  MSEC_PER_SEC = 4
  FdtHz = {0, 3, 14}
  DEFAULT_HZ = 8
  MaxTicks = 8
  Harts = {0, 1}
  Users = {2, 3}
INVARIANTS
  FramesApart
  ListsWellFormed
  DateIsRight
  TextExact
  StringsExact
PROPERTIES
  ImplementsQueues
  InputExact
  TimeRight
  ImplementsContexts
  PanicFreezes
CHECK_DEADLOCK FALSE
