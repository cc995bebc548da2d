SPECIFICATION Spec
CONSTANTS
  MAX_TASKS = 4
  MaxPid = 3
  BootTasks = 1
  MAX_FDS = 1
  ConsoleFds = 0
  p1 = p1
  NoPipe = NoPipe
  Pipes <- NoPipes
  PIPE_BUF = 1
  MaxCount = 1
  Signals = {17}
  WaitArgs <- AnyChildOnly
  Syscalls = {"fork", "exit", "waitpid"}
INVARIANTS
  OrphansReparented
