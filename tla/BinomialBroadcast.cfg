\* The default broadcast, from PE 2 of 4, twice on one pSync with a barrier between.
CONSTANTS
  Size = 4
  RootIndex = 2
  PEStart = 0
  PE <- MCPE
  Root = 2
  Parent <- BinomialUp
  Batches <- BinomialBatches
  ActsAsRoot <- ByIndex
  SignalByPut = FALSE
  MaxEpoch = 2
SPECIFICATION Spec
INVARIANTS
  BufferReusable
  PSyncGivenBack
PROPERTIES
  ReturnsWithData
  ImplementsBroadcast
