SPECIFICATION Spec
CONSTANTS
  RX_RING = 3
  TX_RING = 2
  Frames <- AllFrames
  Probes <- Strays
  NoFrame = NoFrame
  Pids = {1, 2}
  Ips = {h1, h2}
  Hosts = {h1}
  PING_TX_RETRY_MAX = 2
  WAIT_POLLS = 1
  NET_RX_EXTRA_LIMIT = 1
  MaxSeq = 2
  MaxBacklog = 1
INVARIANTS RingsOwned ResultsGenuine
PROPERTIES NicImplementsFifo CommandEnds
CHECK_DEADLOCK FALSE
