------------------------------ MODULE Broadcast ------------------------------
(***************************************************************************)
(* What a broadcast promises to its callers, whatever algorithm of         *)
(* shcoll/src/broadcast.c runs underneath.  Data are named by the number   *)
(* of the broadcast that carries them; Other is what the program leaves in *)
(* its buffers between two broadcasts.                                     *)
(***************************************************************************)
EXTENDS Naturals

CONSTANTS PE, Root, MaxEpoch

VARIABLES
  entered,   \* broadcasts each PE has called
  left,      \* broadcasts that have returned
  buf        \* source at the root, target everywhere else

vars == <<entered, left, buf>>

Other == 0

Init ==
  /\ entered = [p \in PE |-> 0]
  /\ left = [p \in PE |-> 0]
  /\ buf = [p \in PE |-> Other]

\* the root calls with its data in source
Enter(p) ==
  /\ entered[p] = left[p] /\ entered[p] < MaxEpoch
  /\ entered' = [entered EXCEPT ![p] = @ + 1]
  /\ buf' = [buf EXCEPT ![p] = IF p = Root THEN entered'[p] ELSE @]
  /\ UNCHANGED left

\* the root's data land in a target, which nobody has returned with yet
Land(p) ==
  /\ p # Root /\ left[p] < entered[Root]
  /\ buf' = [buf EXCEPT ![p] = entered[Root]]
  /\ UNCHANGED <<entered, left>>

\* a PE returns with the data of its own broadcast in its buffer
Leave(p) ==
  /\ left[p] < entered[p]
  /\ buf[p] = entered[p]
  /\ left' = [left EXCEPT ![p] = @ + 1]
  /\ UNCHANGED <<entered, buf>>

\* ... and the buffer is the program's again, the source too
Overwrite(p) ==
  /\ entered[p] = left[p]
  /\ buf' = [buf EXCEPT ![p] = Other]
  /\ UNCHANGED <<entered, left>>

Next == \E p \in PE : Enter(p) \/ Land(p) \/ Leave(p) \/ Overwrite(p)

SafeSpec == Init /\ [][Next]_vars

\* A PE may be kept until everybody has called, and no longer.
Everybody(p) == \A q \in PE : entered[q] >= entered[p]
Spec ==
  SafeSpec /\ \A p \in PE :
    WF_vars(left[p] < entered[p] /\ Everybody(p) /\ (Land(p) \/ Leave(p)))

==============================================================================
