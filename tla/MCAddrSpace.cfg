SPECIFICATION AddrSpec
CONSTANTS
  total_pages = 14
  Reserved = {0}
  Procs = {1, 2}
  FirstProc = 1
  PER_TABLE = 3
  ImagePages = 1
  BrkPages = 1
  MmapPages = 2
  GrowPages = 0
  USER_STACK_PAGES = 1
  MaxUnmap = 1
VIEW UpToRenaming
CONSTRAINT BreakNotLowered
INVARIANTS
  AddrTypeOK
  
  
  FreeFramesUncounted
