\* One thread, two variables of two bits, which are stored to at any time; every
\* comparison; no variable excluded, or the first.  SHMEM_THREAD_MULTIPLE, so that
\* the calls on several variables go through the mutex.
CONSTANTS
  Thread = {t1}
  NoThread = NoThread
  Multiple = TRUE
  N = 2
  Width = 2
  Values = {0, 3}
  Cmps = {"eq", "ne", "gt", "le", "lt", "ge"}
  Statuses = {{}, {0}}
SPECIFICATION Spec
INVARIANTS
  WaitsExplained
  NoneMissed
  TestsAnswer
PROPERTIES
  PollingEnds
