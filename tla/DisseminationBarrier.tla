------------------------ MODULE DisseminationBarrier -------------------------
(***************************************************************************)
(* The dissemination barrier of shcoll/src/barrier.c: in round r each PE   *)
(* pokes the PE 2^r places further and waits to be poked by the one 2^r    *)
(* places behind, each round on its own element of pSync.                  *)
(***************************************************************************)
EXTENDS FlatBarrier

\* The rounds of the loop: distance = 2^round while distance < PE_size.  Each has an
\* element of pSync to itself, whether or not the caller's pSync has as many.
Rounds == {r \in 0..N : 2^r < N}
Target(p, r) == (p + 2^r) % N

VARIABLES
  pc,        \* "out", or the step of the round: "poke", "wait", "reset"
  round,     \* the loop's round
  pSync,     \* pSync[p][r]
  poke       \* poke[p][r]: increments p posted in round r, in flight

vars == <<pc, round, pSync, poke, entered, left>>

TypeOK ==
  /\ pc \in [PE -> {"out", "poke", "wait", "reset"}]
  /\ round \in [PE -> 0..N]
  /\ pSync \in [PE -> [Rounds -> Nat]]
  /\ poke \in [PE -> [Rounds -> Nat]]
  /\ entered \in [PE -> 0..MaxEpoch]
  /\ left \in [PE -> 0..MaxEpoch]

Init ==
  /\ pc = [p \in PE |-> "out"]
  /\ round = [p \in PE |-> 0]
  /\ pSync = [p \in PE |-> [r \in Rounds |-> 0]]
  /\ poke = [p \in PE |-> [r \in Rounds |-> 0]]
  /\ entered = [p \in PE |-> 0]
  /\ left = [p \in PE |-> 0]

\* the fabric delivers increments in any order
DeliverPoke(p, r) ==
  /\ poke[p][r] > 0
  /\ poke' = [poke EXCEPT ![p][r] = @ - 1]
  /\ pSync' = [pSync EXCEPT ![Target(p, r)][r] = @ + 1]
  /\ UNCHANGED <<pc, round, entered, left>>

Quiesced(p) == \A r \in Rounds : poke[p][r] = 0

Enter(p) ==
  /\ pc[p] = "out"
  /\ entered[p] < MaxEpoch
  /\ WithQuiet => Quiesced(p)
  /\ pc' = [pc EXCEPT ![p] = "poke"]
  /\ round' = [round EXCEPT ![p] = 0]
  /\ entered' = [entered EXCEPT ![p] = @ + 1]
  /\ UNCHANGED <<pSync, poke, left>>

\* "Poke the target for the current round"
Poke(p) ==
  /\ pc[p] = "poke"
  /\ round[p] \in Rounds
  /\ poke' = [poke EXCEPT ![p][round[p]] = @ + 1]
  /\ pc' = [pc EXCEPT ![p] = "wait"]
  /\ UNCHANGED <<round, pSync, entered, left>>

\* "Wait until poked in this round"
Poked(p) == pSync[p][round[p]] # 0

Wait(p) ==
  /\ pc[p] = "wait"
  /\ Poked(p)
  /\ pc' = [pc EXCEPT ![p] = "reset"]
  /\ UNCHANGED <<round, pSync, poke, entered, left>>

\* The blocking fetch-and-add of -1: it has happened when the call returns.
Taken(value) == value - 1

Reset(p) ==
  /\ pc[p] = "reset"
  /\ pSync' = [pSync EXCEPT ![p][round[p]] = Taken(@)]
  /\ round' = [round EXCEPT ![p] = @ + 1]
  /\ pc' = [pc EXCEPT ![p] = "poke"]
  /\ UNCHANGED <<poke, entered, left>>

\* the loop ends when the distance reaches the size of the set
Leave(p) ==
  /\ pc[p] = "poke"
  /\ round[p] \notin Rounds
  /\ pc' = [pc EXCEPT ![p] = "out"]
  /\ left' = [left EXCEPT ![p] = @ + 1]
  /\ UNCHANGED <<round, pSync, poke, entered>>

Advance(p) == Poke(p) \/ Wait(p) \/ Reset(p) \/ Leave(p)

Finished ==
  /\ \A p \in PE : pc[p] = "out" /\ entered[p] = MaxEpoch /\ Quiesced(p)
  /\ UNCHANGED vars

Next ==
  \/ \E p \in PE : Enter(p) \/ Advance(p)
  \/ \E p \in PE, r \in Rounds : DeliverPoke(p, r)
  \/ Finished

Fairness ==
  \A p \in PE :
    /\ WF_vars(Advance(p))
    /\ \A r \in Rounds : WF_vars(DeliverPoke(p, r))

Spec == Init /\ [][Next]_vars /\ Fairness

------------------------------------------------------------------------------
\* The inductive invariant.

\* how many places p is ahead of q
Ahead(p, q) == IF q <= p THEN p - q ELSE (p + N) - q

\* how far back p has heard of the others in this call
reach(p) == 2^(IF pc[p] = "reset" THEN round[p] + 1 ELSE round[p])

\* the pokes p has sent, and those it has taken, on element r
poked(p, r) ==
  left[p] + (IF pc[p] # "out" /\ (r < round[p] \/ (r = round[p] /\ pc[p] # "poke"))
               THEN 1 ELSE 0)
taken(p, r) == left[p] + (IF pc[p] # "out" /\ r < round[p] THEN 1 ELSE 0)

Phases ==
  \A p \in PE :
    /\ entered[p] = left[p] + (IF pc[p] = "out" THEN 0 ELSE 1)
    /\ pc[p] \in {"wait", "reset"} => round[p] \in Rounds
    /\ pc[p] = "reset" => pSync[p][round[p]] > 0

\* what was sent is in flight, in the word, or taken
Balance ==
  \A p \in PE : \A r \in Rounds :
    poked(p, r) = taken(Target(p, r), r) + poke[p][r] + pSync[Target(p, r)][r]

Heard ==
  \A p, q \in PE : pc[p] # "out" /\ Ahead(p, q) < reach(p) => entered[q] >= entered[p]

BarrierSafety == \A p, q \in PE : left[p] <= entered[q]

IInv == TypeOK /\ Phases /\ Balance /\ Heard /\ BarrierSafety

==============================================================================
