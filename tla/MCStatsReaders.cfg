SPECIFICATION FairSpec
CONSTANTS
  Maps = {"xdp_stats1", "xdp_stats_map", "redirect_err_cnt", "exception_cnt", "cpumap_enqueue_cnt", "cpumap_kthread_cnt", "devmap_xmit_cnt", "xsk_stats", "exceptions"}
  FailingMaps = {"xdp_stats1", "xdp_stats_map", "redirect_err_cnt", "cpumap_enqueue_cnt", "exceptions"}
  NrCpus = 2
  PktLen = 2
  Word = 64
  Word32 = 2
  Garbage = {11}
  HashEntries = 1
  MaxEvents = 2
INVARIANTS
  TypeOK
  PollsWhatItKnows
  ReportsRecover
PROPERTIES
  ReportedOnce
  CatchesUp
CHECK_DEADLOCK FALSE
