\* SHMEM_THREAD_MULTIPLE and two threads.
CONSTANTS
  Thread = {t1, t2}
  NoThread = NoThread
  Multiple = TRUE
  N = 2
  Width = 2
  Values = {0, 1}
  Cmps = {"eq"}
  Statuses = {{}}
SPECIFICATION Spec
INVARIANTS
  MutexGivenBack
