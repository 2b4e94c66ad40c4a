\* shcoll_sync_linear or shcoll_sync_dissemination on four PEs, three times in a row,
\* without the quiet that would hide late deliveries.
CONSTANTS
  N = 4
  WithQuiet = FALSE
  MaxEpoch = 3
SPECIFICATION Spec
INVARIANTS
  NoSignalDuringReset
PROPERTIES
  ImplementsBarrier
