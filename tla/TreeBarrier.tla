----------------------------- MODULE TreeBarrier -----------------------------
(***************************************************************************)
(* The three tree barriers of shcoll/src/barrier.c (complete, binomial,    *)
(* knomial).  They run the same code over a different tree, so the tree is *)
(* a parameter; module Trees computes the ones the runs use.  A PE is its  *)
(* index in the active set: PE_start and the stride only rename PEs here.  *)
(*                                                                         *)
(* The fabric (UCX, external) is the set of operations a PE has posted and *)
(* that have not reached their target: atomic increments, plain puts of    *)
(* the reset value to the PE itself, and the program's own puts.  None of  *)
(* them is ordered with another; a quiet waits for all of the caller's.    *)
(***************************************************************************)
EXTENDS Naturals, FiniteSets

CONSTANTS
  PE,              \* the active set, by index
  Root,            \* index 0
  Parent,          \* node.parent of every PE but the root
  Children,        \* node.children of every PE
  Below,           \* Below[p]: p and everything under it in the tree
  WithQuiet,       \* TRUE: shcoll_barrier_*, FALSE: shcoll_sync_*
  MaxEpoch         \* bound: barriers each PE calls

\* What a tree is over a set of PEs, as each of them sees it.
TreeOver(pe, root, parent, children, below) ==
  /\ IsFiniteSet(pe)
  /\ root \in pe
  /\ parent \in [pe \ {root} -> pe]
  /\ children \in [pe -> SUBSET pe]
  /\ \A p, c \in pe : c \in children[p] <=> (c # root /\ parent[c] = p)
  /\ \A p, c \in pe : c \in children[p] => p # c /\ p \notin children[c]
  /\ below \in [pe -> SUBSET pe]
  /\ \A p \in pe : below[p] = {p} \cup UNION {below[c] : c \in children[p]}
  /\ below[root] = pe

ASSUME TreeAssumption == TreeOver(PE, Root, Parent, Children, Below)

ASSUME ParameterAssumption ==
  /\ WithQuiet \in BOOLEAN
  /\ MaxEpoch \in Nat

VARIABLES
  pc,        \* where each PE is in barrier_sync_helper_*_tree
  pSync,     \* the synchronisation word of each PE
  poke,      \* poke[s][d]: increments s posted to d's pSync, still in flight
  clear,     \* clear[p]: resets p posted to its own pSync, still in flight
  unacked,   \* unacked[p]: epochs in which p posted a data put not yet complete
  entered,   \* history: barriers each PE has called
  left,      \* history: barriers that have returned
  from,      \* history: whose increments reached pSync[p] since p last posted its reset
             \* or saw it land
  lost       \* history: those of them that a reset of p overwrote when it landed

vars == <<pc, pSync, poke, clear, unacked, entered, left, from, lost>>

npokes(p) == Cardinality(Children[p])

\* the parent of p as a set: the root has none
Up(p) == IF p = Root THEN {} ELSE {Parent[p]}

TypeOK ==
  /\ pc \in [PE -> {"out", "gather", "await", "release"}]
  /\ pSync \in [PE -> Nat]
  /\ poke \in [PE -> [PE -> Nat]]
  /\ clear \in [PE -> Nat]
  /\ unacked \in [PE -> SUBSET (0..MaxEpoch)]
  /\ entered \in [PE -> 0..MaxEpoch]
  /\ left \in [PE -> 0..MaxEpoch]
  /\ from \in [PE -> SUBSET PE]
  /\ lost \in [PE -> SUBSET PE]

Init ==
  /\ pc = [p \in PE |-> "out"]
  /\ pSync = [p \in PE |-> 0]
  /\ poke = [s \in PE |-> [d \in PE |-> 0]]
  /\ clear = [p \in PE |-> 0]
  /\ unacked = [p \in PE |-> {}]
  /\ entered = [p \in PE |-> 0]
  /\ left = [p \in PE |-> 0]
  /\ from = [p \in PE |-> {}]
  /\ lost = [p \in PE |-> {}]

------------------------------------------------------------------------------
\* The fabric and the program around the barrier.

\* The program stores into another PE's memory between two barriers.
Put(p) ==
  /\ pc[p] = "out"
  /\ unacked' = [unacked EXCEPT ![p] = @ \cup {entered[p]}]
  /\ UNCHANGED <<pc, pSync, poke, clear, entered, left, from, lost>>

\* All the puts p issued in epoch e have reached their targets.
CompletePut(p, e) ==
  /\ e \in unacked[p]
  /\ unacked' = [unacked EXCEPT ![p] = @ \ {e}]
  /\ UNCHANGED <<pc, pSync, poke, clear, entered, left, from, lost>>

DeliverPoke(s, d) ==
  /\ poke[s][d] > 0
  /\ poke' = [poke EXCEPT ![s][d] = @ - 1]
  /\ pSync' = [pSync EXCEPT ![d] = @ + 1]
  /\ from' = [from EXCEPT ![d] = @ \cup {s}]
  /\ UNCHANGED <<pc, clear, unacked, entered, left, lost>>

\* The reset lands, on whatever has come since it was posted.
DeliverClear(p) ==
  /\ clear[p] > 0
  /\ clear' = [clear EXCEPT ![p] = @ - 1]
  /\ pSync' = [pSync EXCEPT ![p] = 0]
  /\ from' = [from EXCEPT ![p] = {}]
  /\ lost' = [lost EXCEPT ![p] = @ \cup from[p]]
  /\ UNCHANGED <<pc, poke, unacked, entered, left>>

\* shmem_quiet: nothing the caller posted is still in flight.
QuiescedSync(p) == clear[p] = 0 /\ \A d \in PE : poke[p][d] = 0   \* slip: not the puts
QuiescedPast(p) == unacked[p] = {} /\ \A d \in PE : poke[p][d] = 0   \* slip: not one's own put
Quiesced(p) ==
  /\ unacked[p] = {}
  /\ clear[p] = 0
  /\ \A d \in PE : poke[p][d] = 0

------------------------------------------------------------------------------
\* The barrier.

\* The call: the barrier flavour begins with shmem_quiet, the sync one does not.
Enter(p) ==
  /\ pc[p] = "out"
  /\ entered[p] < MaxEpoch
  /\ WithQuiet => Quiesced(p)
  /\ pc' = [pc EXCEPT ![p] = "gather"]
  /\ entered' = [entered EXCEPT ![p] = @ + 1]
  /\ UNCHANGED <<pSync, poke, clear, unacked, left, from, lost>>

\* "Wait for pokes from the children" (a leaf does not wait)
GatheredSome(p) == npokes(p) # 0 => pSync[p] # 0   \* slip: one child is enough
Gathered(p) == npokes(p) # 0 => pSync[p] = npokes(p)

\* ... then poke the parent and go to wait for its answer
Climb(p) ==
  /\ pc[p] = "gather"
  /\ p # Root
  /\ Gathered(p)
  /\ poke' = [poke EXCEPT ![p][Parent[p]] = @ + 1]
  /\ pc' = [pc EXCEPT ![p] = "await"]
  /\ UNCHANGED <<pSync, clear, unacked, entered, left, from, lost>>

\* ... and the root, which has no parent, turns the barrier round
Turn(p) ==
  /\ pc[p] = "gather"
  /\ p = Root
  /\ Gathered(p)
  /\ pc' = [pc EXCEPT ![p] = "release"]
  /\ UNCHANGED <<pSync, poke, clear, unacked, entered, left, from, lost>>

\* "Wait for the poke from parent"
AnsweredBefore(p) == pSync[p] >= npokes(p)         \* slip: off by one
Answered(p) == pSync[p] = npokes(p) + 1

Await(p) ==
  /\ pc[p] = "await"
  /\ Answered(p)
  /\ pc' = [pc EXCEPT ![p] = "release"]
  /\ UNCHANGED <<pSync, poke, clear, unacked, entered, left, from, lost>>

\* The reset is a put to oneself like any other: the call waits until its source
\* may be reused, and it lands when it lands.
ResetForgotten(p) == UNCHANGED clear               \* slip: pSync is left as it is
Reset(p) == clear' = [clear EXCEPT ![p] = @ + 1]

\* "Clear pSync and poke the children", then return.  The posts to distinct
\* targets do not depend on each other, so one step issues them all.  The
\* pokes of this barrier are used up.
Release(p) ==
  /\ pc[p] = "release"
  /\ Reset(p)
  /\ from' = [from EXCEPT ![p] = {}]
  /\ poke' = [poke EXCEPT ![p] =
                [d \in PE |-> IF d \in Children[p] THEN @[d] + 1 ELSE @[d]]]
  /\ pc' = [pc EXCEPT ![p] = "out"]
  /\ left' = [left EXCEPT ![p] = @ + 1]
  /\ UNCHANGED <<pSync, unacked, entered, lost>>

Fabric(p) ==
  \/ \E d \in PE : DeliverPoke(p, d)
  \/ DeliverClear(p)
  \/ \E e \in unacked[p] : CompletePut(p, e)

Advance(p) == Climb(p) \/ Turn(p) \/ Await(p) \/ Release(p)

\* Every PE has made all its calls and the program ends, or a barrier has lost
\* a poke and hangs.
Finished ==
  /\ \/ \A p \in PE : pc[p] = "out" /\ entered[p] = MaxEpoch /\ Quiesced(p)
     \/ \E p \in PE : lost[p] # {}
  /\ UNCHANGED vars

Next ==
  \/ \E p \in PE : Put(p) \/ Enter(p) \/ Advance(p) \/ Fabric(p)
  \/ Finished

\* A PE inside the barrier polls and makes progress; UCX delivers what was
\* posted, which is finite but for the program's puts.  Nothing obliges the
\* program to call the barrier or to put.
Fairness ==
  /\ \A p \in PE : WF_vars(Advance(p))
  /\ WF_vars(\E p, d \in PE : DeliverPoke(p, d))
  /\ WF_vars(\E p \in PE : DeliverClear(p))
  /\ WF_vars(\E p \in PE : \E e \in unacked[p] : CompletePut(p, e))

SafeSpec == Init /\ [][Next]_vars
Spec == SafeSpec /\ Fairness

------------------------------------------------------------------------------
\* Properties.

\* No PE returns from its k-th barrier before every PE has called its k-th
\* (barrier_sync_helper_*_tree, barrier.c:64-196).
BarrierSafety == \A p, q \in PE : left[p] <= entered[q]

\* When a PE returns from a barrier, every put any PE issued before calling
\* that barrier has completed (the shmem_quiet of shcoll_barrier_*,
\* barrier.c:239,246).
BarrierCompletesPuts ==
  \A p, q \in PE : \A e \in unacked[q] : left[p] <= e

\* A reset that lands late may overwrite a poke of the next barrier: the put to
\* oneself is not ordered with the increments of others (barrier.c:99,145,191;
\* comms.c:874-910).  The barrier then stops everybody rather than let somebody
\* through: nobody leaves a barrier that the PE with the lost poke has not left, and
\* no word that lost one is counted as complete.
DroppedPokeStops ==
  \A p \in PE : lost[p] # {} =>
    /\ pc[p] \in {"out", "gather"}
    /\ \A q \in PE : left[q] <= left[p]

\* The tree barriers implement Barrier: nobody leaves early, and nobody leaves a
\* barrier it has not called (barrier.c:64-196).
Abstract == INSTANCE Barrier
ImplementsBarrier == Abstract!SafeSpec

\* A barrier that everybody has called returns to everybody, unless a reset has
\* overwritten a poke (barrier.c:64-196).
BarrierEnds ==
  \A k \in 1..MaxEpoch :
    (\A p \in PE : entered[p] >= k)
      ~> ((\A p \in PE : left[p] >= k) \/ \E p \in PE : lost[p] # {})

------------------------------------------------------------------------------
\* The inductive strengthening of BarrierSafety.

\* How many times p has told its parent (or, for the root, itself) that its
\* whole subtree is in.
climbed(p) == IF pc[p] \in {"await", "release"} THEN entered[p] ELSE left[p]

Landed(s, d) == IF s \in from[d] THEN 1 ELSE 0
Lost(s, d) == IF s \in lost[d] THEN 1 ELSE 0

\* A PE is inside exactly when it has called once more than it has returned;
\* the root waits for no parent.
Phases ==
  /\ \A p \in PE : entered[p] = IF pc[p] = "out" THEN left[p] ELSE left[p] + 1
  /\ pc[Root] # "await"

\* The quiet waits for one's own reset: one in flight is that of a PE outside.
LateResets == \A p \in PE : clear[p] # 0 => clear[p] = 1 /\ pc[p] = "out"

\* A pSync word counts the PEs whose poke it holds, tree neighbours only; while
\* its reset is in flight it holds those of the last barrier too.  A reset can
\* hit the pokes of children only.
Counting ==
  \A p \in PE :
    /\ clear[p] = 0 => pSync[p] = Cardinality(from[p])
    /\ from[p] \subseteq Children[p] \cup Up(p)
    /\ clear[p] # 0 => from[p] \subseteq Children[p]
    /\ lost[p] \subseteq Children[p]

\* No poke is made twice: on each edge, what is in flight, held or overwritten is
\* what one side has sent and the other has not yet consumed by leaving.
EdgeBalance ==
  \A p \in PE : \A c \in Children[p] :
    /\ climbed(c) = left[p] + poke[c][p] + Landed(c, p) + Lost(c, p)
    /\ left[p] = left[c] + poke[p][c] + Landed(p, c)

OnlyOnEdges ==
  \A s, d \in PE : poke[s][d] > 0 => d \in Children[s] \/ s \in Children[d]

\* A PE that has climbed speaks for everything below it, ...
SubtreeIn == \A p \in PE : \A q \in Below[p] : climbed(p) <= climbed(q)

\* ... and has had the pokes of this barrier: all of them, and its word shows it.
Heard ==
  \A p \in PE :
    /\ pc[p] \in {"await", "release"} => Children[p] \subseteq from[p] /\ lost[p] = {}
    /\ pc[p] = "release" => from[p] = Children[p] \cup Up(p)

\* Nobody leaves before all have climbed.
LeftBehind == \A p, q \in PE : left[p] <= climbed(q)

\* A barrier flavour leaves no data put behind when it starts.
QuietOnEntry ==
  WithQuiet =>
    \A q \in PE : \A e \in unacked[q] : pc[q] = "out" /\ e = entered[q]

\* Inductive for the barrier flavour, whose quiet makes LateResets true.
IInv ==
  /\ TypeOK
  /\ LateResets
  /\ Phases
  /\ Counting
  /\ EdgeBalance
  /\ OnlyOnEdges
  /\ SubtreeIn
  /\ Heard
  /\ LeftBehind
  /\ QuietOnEntry

==============================================================================
