\* The default fcollect, its puts reading dest as late as they may.
CONSTANTS
  RING_DIFF = 1
  alltoall_rounds_sync = 1
  Cases <- RotatedCalls
SPECIFICATION ExchangeSpec
CHECK_DEADLOCK FALSE
INVARIANT ReturnsWithResult
