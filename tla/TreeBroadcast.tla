---------------------------- MODULE TreeBroadcast ----------------------------
(***************************************************************************)
(* The tree broadcasts of shcoll/src/broadcast.c (complete, binomial,      *)
(* knomial, knomial_signal): data and a signal go down the tree, an ack    *)
(* goes up as soon as a PE has its data.  The four run the same steps and  *)
(* differ in the tree, in how many children one fence covers (Batches), in *)
(* how the signal is sent, and in how a PE tells it is the root.           *)
(*                                                                         *)
(* A non-blocking put is read from the sender's buffer when it lands, not  *)
(* when it is posted.  The program calls a barrier of the active set       *)
(* between two broadcasts on the same pSync, and leaves the buffers alone  *)
(* once some PE has called the next one: what OpenSHMEM asks of it, except *)
(* that a sync, which has no quiet, would not be enough here.              *)
(***************************************************************************)
EXTENDS Naturals, Sequences, FiniteSets

CONSTANTS
  PE,            \* the active set, by index
  Root,          \* PE_root
  Parent,        \* node.parent of every PE but the root
  Batches,       \* Batches[p]: sequence of the sets of children served by one fence
  ActsAsRoot,    \* the PEs whose test for being the root succeeds
  SignalByPut,   \* TRUE: the signal stores SHCOLL_SYNC_VALUE + 1 (knomial_signal)
  MaxEpoch       \* bound: broadcasts each PE calls

Children(p) == UNION {Batches[p][i] : i \in DOMAIN Batches[p]}

ASSUME TreeAssumption ==
  /\ IsFiniteSet(PE) /\ Root \in PE
  /\ Parent \in [PE \ {Root} -> PE]
  /\ Batches \in [PE -> Seq(SUBSET PE)]
  /\ \A p, c \in PE : c \in Children(p) <=> (c # Root /\ Parent[c] = p)
  /\ \A p \in PE : \A i, j \in DOMAIN Batches[p] :
       i # j => Batches[p][i] \cap Batches[p][j] = {}
  /\ \A S \in SUBSET PE :
       (Root \in S /\ \A c \in PE \ {Root} : Parent[c] \in S => c \in S) => S = PE
ASSUME ParameterAssumption ==
  /\ ActsAsRoot \subseteq PE
  /\ SignalByPut \in BOOLEAN
  /\ MaxEpoch \in Nat

VARIABLES
  pc,        \* where each PE is in broadcast_helper_*_tree
  sent,      \* how many batches it has posted in this call
  pSync,     \* the synchronisation word of each PE, as an offset to SHCOLL_SYNC_VALUE
  poke,      \* poke[s][d]: signals and acks posted by s to d's pSync, in flight
  put,       \* put[s]: the PEs s has a data put in flight to
  clear,     \* clear[p]: resets p posted to its own pSync, still in flight
  buf,       \* source at the root, target elsewhere: the epoch of the data in it
  met,       \* met[p]: the broadcasts after which p has called the barrier
  entered,   \* history: broadcasts each PE has called
  left       \* history: broadcasts that have returned

vars == <<pc, sent, pSync, poke, put, clear, buf, met, entered, left>>

Other == 0

\* No edge of the tree carries two signals or two acks at a time, and no word
\* counts more than one of each neighbour.
TypeOK ==
  /\ pc \in [PE -> {"out", "receive", "send", "restore"}]
  /\ sent \in [PE -> Nat] /\ \A p \in PE : sent[p] <= Len(Batches[p])
  /\ pSync \in [PE -> Nat]
  /\ \A p \in PE : pSync[p] <= Cardinality(Children(p)) + (IF p = Root THEN 0 ELSE 1)
  /\ poke \in [PE -> [PE -> {0, 1}]]
  /\ put \in [PE -> SUBSET PE] /\ \A p \in PE : put[p] \subseteq Children(p)
  /\ clear \in [PE -> Nat]
  /\ buf \in [PE -> 0..MaxEpoch]
  /\ met \in [PE -> 0..MaxEpoch]
  /\ entered \in [PE -> 0..MaxEpoch]
  /\ left \in [PE -> 0..MaxEpoch]

Init ==
  /\ pc = [p \in PE |-> "out"]
  /\ sent = [p \in PE |-> 0]
  /\ pSync = [p \in PE |-> 0]
  /\ poke = [s \in PE |-> [d \in PE |-> 0]]
  /\ put = [p \in PE |-> {}]
  /\ clear = [p \in PE |-> 0]
  /\ buf = [p \in PE |-> Other]
  /\ met = [p \in PE |-> 0]
  /\ entered = [p \in PE |-> 0]
  /\ left = [p \in PE |-> 0]

Goto(p, from, to) == pc[p] = from /\ pc' = [pc EXCEPT ![p] = to]

------------------------------------------------------------------------------
\* The fabric and the program around the broadcast.

Land(s, d) ==
  /\ d \in put[s]
  /\ put' = [put EXCEPT ![s] = @ \ {d}]
  /\ buf' = [buf EXCEPT ![d] = buf[s]]
  /\ UNCHANGED <<pc, sent, pSync, poke, clear, met, entered, left>>

\* shmem_fence: what s posts to d after it does not overtake what it posted before
Unfenced(s, d) == TRUE                             \* slip: no fence
Fenced(s, d) == d \notin put[s]

\* an atomic increment, or the store of shmem_putmem_signal_nb
Poked(s, d) == IF SignalByPut /\ d \in Children(s) THEN 1 ELSE pSync[d] + 1

DeliverPoke(s, d) ==
  /\ poke[s][d] > 0
  /\ Fenced(s, d)
  /\ poke' = [poke EXCEPT ![s][d] = @ - 1]
  /\ pSync' = [pSync EXCEPT ![d] = Poked(s, d)]
  /\ UNCHANGED <<pc, sent, put, clear, buf, met, entered, left>>

\* the reset lands, on whatever has come since it was posted
DeliverClear(p) ==
  /\ clear[p] > 0
  /\ clear' = [clear EXCEPT ![p] = @ - 1]
  /\ pSync' = [pSync EXCEPT ![p] = 0]
  /\ UNCHANGED <<pc, sent, poke, put, buf, met, entered, left>>

\* The barrier between two broadcasts begins with a quiet: nothing the caller
\* posted is still in flight.
QuietPast(p) == put[p] = {} /\ \A d \in PE : poke[p][d] = 0   \* slip: not one's own put
Quiesced(p) == put[p] = {} /\ clear[p] = 0 /\ \A d \in PE : poke[p][d] = 0

Meet(p) ==
  /\ pc[p] = "out" /\ met[p] < left[p]
  /\ Quiesced(p)
  /\ met' = [met EXCEPT ![p] = left[p]]
  /\ UNCHANGED <<pc, sent, pSync, poke, put, clear, buf, entered, left>>

\* Between two broadcasts a PE does what it likes with its buffer, its
\* source or its target of the last call.
Scribble(p) ==
  /\ pc[p] = "out"
  /\ \A q \in PE : entered[q] <= left[p]
  /\ buf' = [buf EXCEPT ![p] = Other]
  /\ UNCHANGED <<pc, sent, pSync, poke, put, clear, met, entered, left>>

------------------------------------------------------------------------------
\* The broadcast.

\* The call, after the barrier; the root has filled its source.
Enter(p) ==
  /\ pc[p] = "out"
  /\ entered[p] < MaxEpoch
  /\ \A q \in PE : met[q] >= left[p]
  /\ pc' = [pc EXCEPT ![p] = IF p \in ActsAsRoot THEN "send" ELSE "receive"]
  /\ sent' = [sent EXCEPT ![p] = 0]
  /\ entered' = [entered EXCEPT ![p] = @ + 1]
  /\ buf' = [buf EXCEPT ![p] = IF p = Root THEN entered'[p] ELSE @]
  /\ UNCHANGED <<pSync, poke, put, clear, met, left>>

\* "Wait for the data form the parent", then "Send ack".  The parent of the
\* root is -1: its ack goes to no PE of the active set.
SignalNotAwaited(p) == TRUE                        \* slip: no wait
Signalled(p) == pSync[p] # 0

Receive(p) ==
  /\ Goto(p, "receive", "send")
  /\ Signalled(p)
  /\ poke' = IF p = Root THEN poke
             ELSE [poke EXCEPT ![p][Parent[p]] = @ + 1]
  /\ UNCHANGED <<sent, pSync, put, clear, buf, met, entered, left>>

\* "Send data to children": the puts of the next batch, a fence, their signals
Send(p) ==
  /\ pc[p] = "send" /\ sent[p] < Len(Batches[p])
  /\ LET batch == Batches[p][sent[p] + 1]
     IN  /\ put' = [put EXCEPT ![p] = @ \cup batch]
         /\ poke' = [poke EXCEPT ![p] =
                       [d \in PE |-> IF d \in batch THEN @[d] + 1 ELSE @[d]]]
  /\ sent' = [sent EXCEPT ![p] = @ + 1]
  /\ UNCHANGED <<pc, pSync, clear, buf, met, entered, left>>

\* the acks of all the children, on top of the parent's signal; a leaf does
\* not wait
AckedSome(p) == Children(p) # {} => pSync[p] > (IF p \in ActsAsRoot THEN 0 ELSE 1)  \* slip
Acked(p) ==
  Children(p) # {} =>
    pSync[p] = Cardinality(Children(p)) + (IF p \in ActsAsRoot THEN 0 ELSE 1)

AwaitAcks(p) ==
  /\ Goto(p, "send", "restore")
  /\ sent[p] = Len(Batches[p])
  /\ Acked(p)
  /\ UNCHANGED <<sent, pSync, poke, put, clear, buf, met, entered, left>>

\* SHCOLL_SYNC_VALUE is put back to pSync and the call returns: the put to
\* oneself is waited for until its source may be reused, and may land later.
Restore(p) ==
  /\ Goto(p, "restore", "out")
  /\ clear' = [clear EXCEPT ![p] = @ + 1]
  /\ left' = [left EXCEPT ![p] = @ + 1]
  /\ UNCHANGED <<sent, pSync, poke, put, buf, met, entered>>

Advance(p) == Receive(p) \/ Send(p) \/ AwaitAcks(p) \/ Restore(p)

\* Every PE has made all its calls and nothing is in flight: the program ends.
Finished ==
  /\ \A p \in PE : left[p] = MaxEpoch /\ put[p] = {} /\ clear[p] = 0
  /\ \A s, d \in PE : poke[s][d] = 0
  /\ UNCHANGED vars

Next ==
  \/ \E p \in PE : Enter(p) \/ Advance(p) \/ Scribble(p) \/ Meet(p) \/ DeliverClear(p)
  \/ \E s, d \in PE : Land(s, d) \/ DeliverPoke(s, d)
  \/ Finished

\* A PE inside the broadcast polls and makes progress, and UCX goes on
\* delivering what was posted.
Fairness ==
  /\ \A p \in PE : WF_vars(Advance(p))
  /\ WF_vars(\E s, d \in PE : Land(s, d))
  /\ WF_vars(\E s, d \in PE : DeliverPoke(s, d))
  /\ WF_vars(\E p \in PE : DeliverClear(p))

SafeSpec == Init /\ [][Next]_vars
Spec == SafeSpec /\ Fairness

------------------------------------------------------------------------------
\* Properties.

\* A PE returns from its k-th broadcast with the root's k-th data in its
\* buffer (the fence between the data and the signal, broadcast.c:82,132,185).
ReturnsWithData ==
  [][\A p \in PE : left'[p] # left[p] => buf[p] = left'[p]]_vars

\* When a PE returns, nothing it posted still reads its buffer: source, or
\* the target it forwarded from, may be reused at once (the wait for the
\* acks, broadcast.c:91,136,195,250; the puts themselves are never waited for).
BufferReusable == \A p \in PE : pc[p] \in {"restore", "out"} => put[p] = {}

\* Once everybody has returned, all that can still change a pSync is the PE's own
\* reset (broadcast.c:94,139,198,253).  No signal or ack of the next broadcast comes
\* while that one is on its way, and after the barrier the pSync is as it was found:
\* the next collective may use it, as OpenSHMEM promises.
PSyncGivenBack ==
  /\ (\A p \in PE : pc[p] = "out") =>
       \A p, q \in PE :
         /\ entered[p] = entered[q] /\ poke[p][q] = 0
         /\ pSync[p] = 0 \/ clear[p] = 1
         /\ met[p] = left[p] => pSync[p] = 0 /\ clear[p] = 0
  /\ \A p, q \in PE : clear[p] # 0 => poke[q][p] = 0

------------------------------------------------------------------------------
\* The inductive invariant, for the trees whose PEs all tell the root right.

TestsRight == ActsAsRoot = {Root}

\* the PEs p has posted this call's data and signal to
Posted(p) == UNION {Batches[p][i] : i \in 1..sent[p]}

\* the signals sent to c, and the acks c has sent, since the beginning
signalled(c) ==
  left[Parent[c]] + (IF pc[Parent[c]] \in {"send", "restore"} /\ c \in Posted(Parent[c])
                       THEN 1 ELSE 0)
acked(c) == left[c] + (IF pc[c] \in {"send", "restore"} THEN 1 ELSE 0)

\* c's word holds the signal of the call c is in; its parent's word holds
\* c's ack
SignalIn(c) == signalled(c) = left[c] + poke[Parent[c]][c] + 1
AckIn(c) == acked(c) = left[Parent[c]] + poke[c][Parent[c]] + 1

Phases ==
  \A p \in PE :
    /\ entered[p] = left[p] + (IF pc[p] = "out" THEN 0 ELSE 1)
    /\ pc[p] = "receive" => p # Root /\ sent[p] = 0
    /\ pc[p] = "restore" => sent[p] = Len(Batches[p])

\* the barrier between two broadcasts
Aligned ==
  /\ \A q \in PE : met[q] <= left[q]
  /\ \A p, q \in PE : entered[p] <= met[q] + 1

\* a reset in flight is that of a PE before its barrier, whose quiet waits for it
LateResets == \A p \in PE : clear[p] # 0 => clear[p] = 1 /\ pc[p] = "out" /\ met[p] < left[p]

\* what was sent is in flight, in the word, or of a call that has returned
EdgeBalance ==
  \A c \in PE \ {Root} :
    /\ SignalIn(c) \/ signalled(c) = left[c] + poke[Parent[c]][c]
    /\ AckIn(c) \/ acked(c) = left[Parent[c]] + poke[c][Parent[c]]

OnlyOnEdges ==
  \A s, d \in PE : poke[s][d] # 0 => d \in Children(s) \/ s \in Children(d)

Counting ==
  \A p \in PE : clear[p] = 0 =>
    pSync[p] = Cardinality({c \in Children(p) : AckIn(c)})
                 + (IF p # Root /\ SignalIn(p) THEN 1 ELSE 0)

Received ==
  \A p \in PE : p # Root /\ pc[p] \in {"send", "restore"} => SignalIn(p)
AllAcked == \A p \in PE : pc[p] = "restore" => \A c \in Children(p) : AckIn(c)

\* data are ahead of their signal
SignalBehind ==
  \A s \in PE : \A d \in put[s] : poke[s][d] = 1 /\ pc[s] = "send"

HasData ==
  /\ \A p \in PE : pc[p] \in {"send", "restore"} => buf[p] = left[p] + 1
  /\ \A c \in PE \ {Root} :
       signalled(c) = left[c] + 1 /\ c \notin put[Parent[c]] => buf[c] = left[c] + 1

RootFirst == \A p \in PE : acked(p) <= entered[Root]

IInv ==
  /\ TypeOK /\ Phases /\ Aligned /\ LateResets /\ EdgeBalance /\ OnlyOnEdges /\ Counting
  /\ Received /\ AllAcked /\ SignalBehind /\ HasData /\ RootFirst

------------------------------------------------------------------------------
\* The tree broadcasts implement Broadcast, progress included: a broadcast that
\* everybody has called returns to everybody (broadcast.c:41-254).
Abstract == INSTANCE Broadcast
ImplementsBroadcast == Abstract!Spec

==============================================================================
