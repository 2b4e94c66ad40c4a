SPECIFICATION Spec
CONSTANTS
  SHMEM_CTX_DEFAULT = "default"
  SHMEM_CTX_INVALID = "invalid"
  TypeBits = {32, 64}
  PE <- MCPE
  Base <- MCBase
  Length <- MCLength
  NoStore = {"nostore"}
  Programs <- MCPrograms
  Native = {TRUE, FALSE}
  InitialCell <- MCInitialCell
  Narrow = FALSE
INVARIANTS
  TypeOK
  OrderedAsPromised
  SignalAfterData
PROPERTIES
  ImplementsMemory
  CallsReturn
CHECK_DEADLOCK FALSE
