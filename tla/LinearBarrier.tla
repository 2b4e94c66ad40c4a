---------------------------- MODULE LinearBarrier ----------------------------
(***************************************************************************)
(* The linear barrier of shcoll/src/barrier.c: everybody pokes the first   *)
(* PE of the active set, which counts them and answers each with a put.    *)
(* A put to oneself is not assumed to be immediate here: the code waits    *)
(* for its own reset to show before it goes on.                            *)
(***************************************************************************)
EXTENDS FlatBarrier, FiniteSets

Root == 0      \* the PE whose rank is PE_start

VARIABLES
  pc,        \* where each PE is in barrier_sync_helper_linear
  pSync,     \* the synchronisation word of each PE
  poke,      \* poke[p]: increments p posted to the root, in flight
  ack,       \* ack[p]: puts of 1 the root posted to p, in flight
  clear      \* clear[p]: puts of 0 p posted to itself, in flight

vars == <<pc, pSync, poke, ack, clear, entered, left>>

\* At most one operation of each kind is in flight for a PE, and a word never
\* counts beyond what one barrier brings.
TypeOK ==
  /\ pc \in [PE -> {"out", "count", "poke", "await", "reset", "clearing", "acks"}]
  /\ pSync \in [PE -> Nat]
  /\ \A p \in PE : pSync[p] <= IF p = Root THEN Cardinality(PE) - 1 ELSE 1
  /\ poke \in [PE -> {0, 1}] /\ ack \in [PE -> {0, 1}] /\ clear \in [PE -> {0, 1}]
  /\ entered \in [PE -> 0..MaxEpoch]
  /\ left \in [PE -> 0..MaxEpoch]

Init ==
  /\ pc = [p \in PE |-> "out"]
  /\ pSync = [p \in PE |-> 0]
  /\ poke = [p \in PE |-> 0]
  /\ ack = [p \in PE |-> 0]
  /\ clear = [p \in PE |-> 0]
  /\ entered = [p \in PE |-> 0]
  /\ left = [p \in PE |-> 0]

------------------------------------------------------------------------------
\* The fabric.

DeliverPoke(p) ==
  /\ poke[p] > 0
  /\ poke' = [poke EXCEPT ![p] = @ - 1]
  /\ pSync' = [pSync EXCEPT ![Root] = @ + 1]
  /\ UNCHANGED <<pc, ack, clear, entered, left>>

DeliverAck(p) ==
  /\ ack[p] > 0
  /\ ack' = [ack EXCEPT ![p] = @ - 1]
  /\ pSync' = [pSync EXCEPT ![p] = 1]
  /\ UNCHANGED <<pc, poke, clear, entered, left>>

DeliverClear(p) ==
  /\ clear[p] > 0
  /\ clear' = [clear EXCEPT ![p] = @ - 1]
  /\ pSync' = [pSync EXCEPT ![p] = 0]
  /\ UNCHANGED <<pc, poke, ack, entered, left>>

\* shmem_quiet: nothing the caller posted is still in flight.
Quiesced(p) ==
  /\ poke[p] = 0
  /\ clear[p] = 0
  /\ p = Root => \A q \in PE : ack[q] = 0

------------------------------------------------------------------------------
\* The barrier.

Goto(p, from, to) == pc[p] = from /\ pc' = [pc EXCEPT ![p] = to]

Enter(p) ==
  /\ Goto(p, "out", IF p = Root THEN "count" ELSE "poke")
  /\ entered[p] < MaxEpoch
  /\ WithQuiet => Quiesced(p)
  /\ entered' = [entered EXCEPT ![p] = @ + 1]
  /\ UNCHANGED <<pSync, poke, ack, clear, left>>

Return(p, from) ==
  /\ Goto(p, from, "out")
  /\ left' = [left EXCEPT ![p] = @ + 1]

\* root: "wait for the rest of the AS to poke me"
CountedOne(p) == pSync[p] # 0                      \* slip: one poke is enough
Counted(p) == pSync[p] = Cardinality(PE) - 1

Count(p) ==
  /\ Goto(p, "count", "reset")
  /\ Counted(p)
  /\ UNCHANGED <<pSync, poke, ack, clear, entered, left>>

\* the others: "poke root"
Poke(p) ==
  /\ Goto(p, "poke", "await")
  /\ poke' = [poke EXCEPT ![p] = @ + 1]
  /\ UNCHANGED <<pSync, ack, clear, entered, left>>

\* the others: "get ack"
AnswerNotAwaited(p) == TRUE                        \* slip: no wait
Answered(p) == pSync[p] # 0

Await(p) ==
  /\ Goto(p, "await", "reset")
  /\ Answered(p)
  /\ UNCHANGED <<pSync, poke, ack, clear, entered, left>>

\* shmem_long_p of the reset value to oneself
Reset(p) ==
  /\ Goto(p, "reset", "clearing")
  /\ clear' = [clear EXCEPT ![p] = @ + 1]
  /\ UNCHANGED <<pSync, poke, ack, entered, left>>

\* wait for the reset to show; the root then has acks to send
ResetNotAwaited(p) == TRUE                         \* slip: the put is trusted
ResetShows(p) == pSync[p] = 0

Cleared(p) ==
  /\ ResetShows(p)
  /\ \/ p = Root /\ Goto(p, "clearing", "acks") /\ UNCHANGED left
     \/ p # Root /\ Return(p, "clearing")
  /\ UNCHANGED <<pSync, poke, ack, clear, entered>>

\* root: "send acks out"
Acks(p) ==
  /\ Return(p, "acks")
  /\ ack' = [q \in PE |-> IF q = Root THEN ack[q] ELSE ack[q] + 1]
  /\ UNCHANGED <<pSync, poke, clear, entered>>

Fabric(p) == DeliverPoke(p) \/ DeliverAck(p) \/ DeliverClear(p)

Advance(p) ==
  Count(p) \/ Poke(p) \/ Await(p) \/ Reset(p) \/ Cleared(p) \/ Acks(p)

Finished ==
  /\ \A p \in PE : pc[p] = "out" /\ entered[p] = MaxEpoch /\ Quiesced(p)
  /\ UNCHANGED vars

Next ==
  \/ \E p \in PE : Enter(p) \/ Advance(p) \/ Fabric(p)
  \/ Finished

Fairness ==
  \A p \in PE :
    /\ WF_vars(Advance(p))
    /\ WF_vars(DeliverPoke(p)) /\ WF_vars(DeliverAck(p)) /\ WF_vars(DeliverClear(p))

Spec == Init /\ [][Next]_vars /\ Fairness

------------------------------------------------------------------------------
\* Properties.

\* A reset destroys no signal: while a PE's put of the reset value is in
\* flight to itself, the word still holds exactly what the PE has consumed,
\* and no poke and no ack is on its way (barrier.c:40-41,55-56).
NoSignalDuringReset ==
  \A p \in PE : clear[p] > 0 =>
    /\ p = Root => \A q \in PE : poke[q] = 0
    /\ p # Root => ack[p] = 0
    /\ pSync[p] = IF p = Root THEN Cardinality(PE) - 1 ELSE 1

------------------------------------------------------------------------------
\* The inductive invariant, for two PEs or more: a root alone does not wait for
\* its resets (SHCOLL_SYNC_VALUE + PE_size - 1 is SHCOLL_SYNC_VALUE).

\* the pokes p has sent; those whose reset has landed at the root; the acks
\* whose reset has landed at p
poked(p) == left[p] + (IF pc[p] \in {"await", "reset", "clearing"} THEN 1 ELSE 0)
rootDone ==
  left[Root] + (IF pc[Root] = "acks" \/ (pc[Root] = "clearing" /\ clear[Root] = 0)
                  THEN 1 ELSE 0)
done(p) == left[p] + (IF pc[p] = "clearing" /\ clear[p] = 0 THEN 1 ELSE 0)

\* the root's word holds p's poke
PokeIn(p) == poked(p) = rootDone + poke[p] + 1

Phases ==
  /\ \A p \in PE : entered[p] = left[p] + (IF pc[p] = "out" THEN 0 ELSE 1)
  /\ pc[Root] \notin {"poke", "await"}
  /\ \A p \in PE \ {Root} : pc[p] \notin {"count", "acks"}
  /\ poke[Root] = 0 /\ ack[Root] = 0

\* what was sent is in flight, in the word, or done with
Balance ==
  \A p \in PE \ {Root} :
    /\ PokeIn(p) \/ poked(p) = rootDone + poke[p]
    /\ left[Root] = done(p) + ack[p] + pSync[p]
Counting == pSync[Root] = Cardinality({p \in PE \ {Root} : PokeIn(p)})

\* a PE resets its word when all it waits for is in it
Resetting(p) == pc[p] = "reset" \/ clear[p] # 0
AllIn ==
  /\ Resetting(Root) => \A p \in PE \ {Root} : PokeIn(p)
  /\ \A p \in PE \ {Root} : Resetting(p) => pSync[p] # 0
ClearsLand == \A p \in PE : clear[p] # 0 => pc[p] = "clearing"

IInv == TypeOK /\ Phases /\ Balance /\ Counting /\ AllIn /\ ClearsLand

\* ... and what is left of it for a root alone, whose word never changes
Alone ==
  /\ Phases /\ entered \in [PE -> Nat] /\ left \in [PE -> Nat]
  /\ pSync = [p \in PE |-> 0] /\ DOMAIN pc = PE
  /\ DOMAIN poke = PE /\ DOMAIN ack = PE

==============================================================================
