------------------------------- MODULE Barrier -------------------------------
(***************************************************************************)
(* What a barrier (or a sync) over an active set promises to its callers,  *)
(* whatever algorithm shcoll/src/barrier.c runs underneath: a PE leaves    *)
(* its k-th barrier only once every PE of the set has entered its k-th.    *)
(***************************************************************************)
EXTENDS Naturals

CONSTANTS
  PE,         \* the active set
  MaxEpoch    \* bound: how many barriers each PE calls

VARIABLES
  entered,    \* entered[p]: how many barriers p has called
  left        \* left[p]: how many of them have returned to p

vars == <<entered, left>>

TypeOK ==
  /\ entered \in [PE -> 0..MaxEpoch]
  /\ left \in [PE -> 0..MaxEpoch]

Init ==
  /\ entered = [p \in PE |-> 0]
  /\ left = [p \in PE |-> 0]

Enter(p) ==
  /\ entered[p] = left[p]
  /\ entered[p] < MaxEpoch
  /\ entered' = [entered EXCEPT ![p] = @ + 1]
  /\ UNCHANGED left

Leave(p) ==
  /\ left[p] < entered[p]
  /\ \A q \in PE : entered[q] >= entered[p]
  /\ left' = [left EXCEPT ![p] = @ + 1]
  /\ UNCHANGED entered

Next == \E p \in PE : Enter(p) \/ Leave(p)

SafeSpec == Init /\ [][Next]_vars

\* Once everybody is there, nobody is kept: each Leave is weakly fair.
Spec == SafeSpec /\ \A p \in PE : WF_vars(Leave(p))

==============================================================================
