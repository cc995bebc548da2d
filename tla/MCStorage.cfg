SPECIFICATION Spec
CONSTANTS
  total_pages = 6
  max_page = 4
  Usable <- UsablePages
  bm_page = 1
  bm_count = 1
  MaxRun = 2
  PAGE_SIZE = 6
  HDR = 2
  ALIGN = 2
  HEAP_MIN_SPLIT = 1
  HEAP_INITIAL_PAGES = 1
  MIN_PAGES = 1
  MaxSize = 5
  Names <- AllNames
  PROCFS_POOL = 5
  Pids = {"p1"}
  Archive <- InitrdArchive
  Devices <- EarlyDevices
  LateDevices <- NoDevices
  Paths <- Openable
  NewPaths <- Creatable
  Fds = {1, 2}
  MaxNodes = 8
  MaxFile = 2
  Disks <- TwoDisks
  BLOCKDEV_MAX = 4
  PART_MAX = 3
  B = 2
  DIRECT = 1
  Calls <- LookedUp
  Faults <- OneBlock
  Presents <- PresentBlocks
  Sizes = {3, 14}
INVARIANTS
  HeldDisjoint
  FreeCount
  HeapTiles
  
  FilesDense
  ProcFilesStable
  PartitionsAgree
  MountConsistent
  
CHECK_DEADLOCK FALSE
