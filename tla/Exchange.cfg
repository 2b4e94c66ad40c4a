\* Every algorithm, its puts landing late; RING_DIFF and alltoall_rounds_sync as small
\* as the code has them work.  When all have returned there is nothing to do.
CONSTANTS
  RING_DIFF = 1
  alltoall_rounds_sync = 1
  Cases <- MCCalls
SPECIFICATION ExchangeSpec
CHECK_DEADLOCK FALSE
INVARIANTS
  ReturnsWithResult
  StaysInBuffers
  PSyncGivenBack
  NobodyStuck
