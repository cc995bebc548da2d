SPECIFICATION Spec
CONSTANTS
  MAX_TASKS = 3
  MaxPid = 2
  BootTasks = 1
  MAX_FDS = 2
  ConsoleFds = 0
  p1 = p1
  NoPipe = NoPipe
  Pipes <- OnePipe
  PIPE_BUF = 1
  MaxCount = 1
  Signals = {2}
  WaitArgs <- AnyChildOnly
  Syscalls = {"pipe", "fork", "read", "sigint"}
INVARIANTS
  SignalsAbortSleep
