---------------------------- MODULE FlatBarriers -----------------------------
(***************************************************************************)
(* The entry point of a barrier: at initialisation the library looks the   *)
(* algorithm up by name, and from then on every call goes to that one, on  *)
(* the same pSync.                                                         *)
(***************************************************************************)
EXTENDS FlatBarrier

VARIABLES
  algorithm,                       \* colls.barrier_all.f, or sync_all.f
  pc, pSync, poke, ack, clear, round

L == INSTANCE LinearBarrier
D == INSTANCE DisseminationBarrier

vars == <<algorithm, pc, pSync, poke, ack, clear, round, entered, left>>

TypeOK ==
  \/ algorithm = "linear" /\ L!TypeOK
  \/ algorithm = "dissemination" /\ D!TypeOK

NotUsed == [p \in PE |-> 0]

Init ==
  \/ algorithm = "linear" /\ L!Init /\ round = NotUsed
  \/ algorithm = "dissemination" /\ D!Init /\ ack = NotUsed /\ clear = NotUsed

Linear == algorithm = "linear" /\ UNCHANGED <<algorithm, round>>
Dissemination == algorithm = "dissemination" /\ UNCHANGED <<algorithm, ack, clear>>

Next ==
  \/ Linear /\ L!Next
  \/ Dissemination /\ D!Next

\* A PE in a barrier runs, and what is posted arrives.
Fairness ==
  \A p \in PE :
    /\ WF_vars(Linear /\ L!Advance(p))
    /\ WF_vars(Linear /\ L!DeliverPoke(p))
    /\ WF_vars(Linear /\ L!DeliverAck(p))
    /\ WF_vars(Linear /\ L!DeliverClear(p))
    /\ WF_vars(Dissemination /\ D!Advance(p))
    /\ \A r \in D!Rounds : WF_vars(Dissemination /\ D!DeliverPoke(p, r))

Spec == Init /\ [][Next]_vars /\ Fairness

------------------------------------------------------------------------------
\* Properties: those of the algorithm that was chosen, and ImplementsBarrier.

\* The put that resets a word meets no signal (barrier.c:40-41,55-56).
NoSignalDuringReset == algorithm = "linear" => L!NoSignalDuringReset

------------------------------------------------------------------------------
\* The inductive invariant: that of the algorithm that was chosen.
IInv ==
  \/ algorithm = "linear" /\ IF N = 1 THEN L!Alone ELSE L!IInv
  \/ algorithm = "dissemination" /\ D!IInv

==============================================================================
