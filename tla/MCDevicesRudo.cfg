SPECIFICATION Spec
CONSTANTS
  KB_BUFFER_SIZE = 3
  MaxRead = 2
  AUDIO_DMA_SIZE = 2
  MaxWrite = 5
  MaxWaits = 3
  KBD_ADDR = 1
  MaxResets = 1
  Tasks = {t1, t2}
  NoTask = NoTask
  Ports = {0, 2}
  Pages = {1, 2, 3, 4, 5}
  NoPage = 0
  MAX_XFER = 1
  Sectors = {1, 2}
  MaxCount = 2
INVARIANT DenialIsReal
CHECK_DEADLOCK FALSE
