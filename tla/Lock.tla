-------------------------------- MODULE Lock ---------------------------------
(***************************************************************************)
(* What shmem_set_lock, shmem_test_lock and shmem_clear_lock promise: at   *)
(* most one caller holds the lock, and while somebody waits in set_lock    *)
(* the free lock is eventually granted, to whom is left open.              *)
(***************************************************************************)
EXTENDS FiniteSets

CONSTANTS Thread, NoThread

VARIABLES
  holder,    \* the thread that holds the lock, or NoThread
  waiting    \* the threads that have called shmem_set_lock

vars == <<holder, waiting>>

Init == holder = NoThread /\ waiting = {}

Ask(t) ==
  /\ t \notin waiting /\ t # holder
  /\ waiting' = waiting \cup {t}
  /\ UNCHANGED holder

\* a waiting thread is granted the lock
Grant(t) ==
  /\ t \in waiting /\ holder = NoThread
  /\ holder' = t
  /\ waiting' = waiting \ {t}

\* shmem_test_lock finds the lock free
Try(t) ==
  /\ t \notin waiting /\ holder = NoThread
  /\ holder' = t
  /\ UNCHANGED waiting

Free(t) ==
  /\ holder = t
  /\ holder' = NoThread
  /\ UNCHANGED waiting

Next == \E t \in Thread : Ask(t) \/ Grant(t) \/ Try(t) \/ Free(t)

SafeSpec == Init /\ [][Next]_vars
Spec == SafeSpec /\ WF_vars(\E t \in Thread : Grant(t))

==============================================================================
