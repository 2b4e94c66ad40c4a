----------------------------- MODULE FlatBarrier -----------------------------
(***************************************************************************)
(* What the two barriers of shcoll/src/barrier.c that use no tree share:   *)
(* the active set, the calls, and what they promise.  FlatBarriers puts    *)
(* the two behind the one entry point the program calls.                   *)
(***************************************************************************)
EXTENDS Naturals

CONSTANTS
  N,           \* PE_size
  WithQuiet,   \* TRUE: shcoll_barrier_..., FALSE: shcoll_sync_...
  MaxEpoch     \* bound: barriers each PE calls

ASSUME ParameterAssumption ==
  /\ N \in Nat \ {0}
  /\ WithQuiet \in BOOLEAN
  /\ MaxEpoch \in Nat

PE == 0..(N - 1)    \* the active set, by index

VARIABLES
  entered,   \* history: barriers each PE has called
  left       \* history: barriers that have returned

\* The barrier is a barrier, and returns to everybody once everybody has called
\* it (barrier_sync_helper_linear, barrier.c:25-58, and
\* barrier_sync_helper_dissemination, barrier.c:202-232).
Abstract == INSTANCE Barrier
ImplementsBarrier == Abstract!Spec

==============================================================================
