SPECIFICATION PipelineSpec
CONSTANTS
  MAX_TASKS = 4
  MaxPid = 3
  BootTasks = 1
  MAX_FDS = 4
  ConsoleFds = 2
  p1 = p1
  NoPipe = NoPipe
  Pipes <- OnePipe
  PIPE_BUF = 2
  MaxCount = 3
  Signals = {}
  WaitArgs = {}
  Syscalls = {"pipe", "fork", "exit"}
  Filter = "pwd"
  CatWrites = 2
  CatCount = 3
PROPERTY PipelineFinishes
