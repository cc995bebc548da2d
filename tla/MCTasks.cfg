SPECIFICATION RunSpec
CONSTANTS
  MAX_TASKS = 4
  MaxPid = 2
  BootTasks = 1
  MAX_FDS = 2
  ConsoleFds = 0
  p1 = p1
  NoPipe = NoPipe
  Pipes <- OnePipe
  PIPE_BUF = 1
  MaxCount = 1
  Signals = {15}
  WaitArgs <- AnyChildOnly
  Syscalls = {"pipe", "fork", "dup", "dup2", "close", "read", "write",
              "exit", "kill", "signal"}
INVARIANTS
  WaitersJustified
  DeadNeverRuns
  PipeCounts
  NoDanglingPipe
  PipeSleepersJustified
  SignalsAbortSleep
PROPERTY ImplementsSched
