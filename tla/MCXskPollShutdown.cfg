\* NUM_FRAMES, RING_SIZE and RX_BATCH_SIZE scale 4096, 2048 and 64 down.
CONSTANTS
  NUM_FRAMES = 4
  RING_SIZE = 2
  RX_BATCH_SIZE = 2
  ReplyEnabled = FALSE
  PollMode = TRUE
  HwDepth = 0
  TX_BATCH = 1
  TX_MOD = 3
SPECIFICATION FairSpec
PROPERTIES
  ShutdownCompletes
\* The program ends once it is told to.
CHECK_DEADLOCK FALSE
