----------------------------- MODULE SymmetricHeap -----------------------------
(***************************************************************************)
(* shmem_partition_malloc and shmem_partition_free (api/shmalloc.c): each  *)
(* PE runs its own allocator, without a word to the others, and a barrier  *)
(* after an allocation or before a release makes the heap symmetric.  The  *)
(* barrier is the abstract one; the allocator is module Buddy.             *)
(*                                                                         *)
(* The calls are collective: every PE makes the same ones in the same      *)
(* order.  "calls" is the program's list of them, written by whoever comes *)
(* first.  Addresses are byte offsets from the heap's base; the arithmetic *)
(* on units is that of uint32_t, of Width bits here.                       *)
(***************************************************************************)
EXTENDS Integers, Sequences, FiniteSets, Buddy

CONSTANTS
  PE,
  Sizes,       \* what the program asks for, in bytes
  GrainLog,    \* BUDDY_GRAIN_LOG
  Width,       \* bits of uint32_t
  MaxCalls     \* bound: collective calls of the program

\* A partition is smaller than what uint32_t can address, and so is a request.
ASSUME ParameterAssumption ==
  /\ IsFiniteSet(PE) /\ PE # {}
  /\ Sizes \subseteq 0..(2^Width - 1)
  /\ GrainLog \in Nat /\ Width \in Nat /\ MaxCalls \in Nat
  /\ Height + GrainLog < Width

VARIABLES
  calls,       \* the program: <<op, arg>>, arg a size or the index of a malloc
  tree,        \* tree[p]: the allocator of p
  pc,          \* where each PE is in its call
  at,          \* at[p]: how many calls p has begun
  got,         \* got[p][k]: what the k-th call returned to p, NULL for a free
  mine,        \* history: the mallocs whose block p's allocator has handed out
  entered,     \* barriers each PE has called
  left         \* barriers that have returned

vars == <<calls, tree, pc, at, got, mine, entered, left>>

NULL == -1
AllBarriers == INSTANCE Barrier WITH MaxEpoch <- MaxCalls

HeapBytes == 2^(Height + GrainLog)
Grain == 2^GrainLog

\* shmema_buddy_malloc: bytes to units, rounding up, and units to an address
Units(size) ==
  LET units == (size \div Grain) % 2^Width
  IN  IF (units * Grain) % 2^Width < size THEN units + 1 ELSE units
Address(offset) == (offset * Grain) % 2^Width

\* offset (uint32_t) -1, which is what buddy_alloc answers when it has no block
Failure == Address(2^Width - 1)

TypeOK ==
  /\ calls \in Seq({"malloc", "free"} \X Nat) /\ Len(calls) <= MaxCalls
  /\ tree \in [PE -> [Node -> -1..Height]]
  /\ pc \in [PE -> {"out", "allocate", "arrive", "wait", "release"}]
  /\ at \in [PE -> 0..MaxCalls] /\ \A p \in PE : at[p] <= Len(calls)
  /\ got \in [PE -> Seq({NULL} \cup 0..(2^Width - 1))]
  /\ mine \in [PE -> SUBSET (1..MaxCalls)]
  /\ AllBarriers!TypeOK

Init ==
  /\ calls = <<>>
  /\ tree = [p \in PE |-> New]
  /\ pc = [p \in PE |-> "out"]
  /\ at = [p \in PE |-> 0]
  /\ got = [p \in PE |-> <<>>]
  /\ mine = [p \in PE |-> {}]
  /\ AllBarriers!Init

Op(p) == calls[at[p]][1]
Arg(p) == calls[at[p]][2]
Goto(p, from, to) == pc[p] = from /\ pc' = [pc EXCEPT ![p] = to]

\* The calls the program may make next at p: any malloc, and the free of a
\* block that it got and has not freed.  (What it got may be no block: see
\* FailureIsNull.  The program modelled here frees what is one.)
Possible(p) ==
  {<<"malloc", s>> : s \in Sizes}
  \cup {<<"free", k>> : k \in mine[p]}

\* the steps of a call, the barrier last in one and first in the other
AfterAllocating == "arrive"
NoBarrierBefore == "release"                       \* slip: released at once
BeforeReleasing == "arrive"


\* A call begins; the first PE to come decides which.  A malloc of nothing
\* returns NULL at once, without a barrier.
Begin(p) ==
  /\ pc[p] = "out" /\ at[p] < MaxCalls
  /\ \E call \in Possible(p) :
       /\ calls' = IF at[p] = Len(calls) THEN Append(calls, call) ELSE calls
       /\ calls'[at[p] + 1] = call
       /\ pc' = [pc EXCEPT ![p] = IF call[1] = "free" THEN BeforeReleasing
                                  ELSE IF call[2] = 0 THEN "out" ELSE "allocate"]
       /\ got' = IF call[1] = "malloc" /\ call[2] # 0 THEN got
                 ELSE [got EXCEPT ![p] = Append(@, NULL)]
  /\ at' = [at EXCEPT ![p] = @ + 1]
  /\ UNCHANGED <<tree, mine, entered, left>>

\* shmema_buddy_malloc, under the library's mutex
Allocate(p) ==
  /\ Goto(p, "allocate", AfterAllocating)
  /\ LET units == Units(Arg(p))
     IN  \/ /\ Fits(tree[p], units)
            /\ LET idx == Place(tree[p], Exponent(units))
               IN  /\ tree' = [tree EXCEPT ![p] = Taken(@, idx)]
                   /\ got' = [got EXCEPT ![p] = Append(@, Address(Offset(idx)))]
            /\ mine' = [mine EXCEPT ![p] = @ \cup {at[p]}]
         \/ /\ ~ Fits(tree[p], units)
            /\ got' = [got EXCEPT ![p] = Append(@, Failure)]
            /\ UNCHANGED <<tree, mine>>
  /\ UNCHANGED <<calls, at, entered, left>>

\* shmem_barrier_all
Arrive(p) ==
  /\ Goto(p, "arrive", "wait")
  /\ AllBarriers!Enter(p)
  /\ UNCHANGED <<calls, tree, at, got, mine>>

Pass(p) ==
  /\ Goto(p, "wait", IF Op(p) = "malloc" THEN "out" ELSE "release")
  /\ AllBarriers!Leave(p)
  /\ UNCHANGED <<calls, tree, at, got, mine>>

\* shmema_buddy_free, under the library's mutex
Release(p) ==
  /\ Goto(p, "release", "out")
  /\ tree' = [tree EXCEPT ![p] = Freed(@, got[p][Arg(p)] \div Grain)]
  /\ mine' = [mine EXCEPT ![p] = @ \ {Arg(p)}]
  /\ UNCHANGED <<calls, at, got, entered, left>>

Finished ==
  /\ \A p \in PE : pc[p] = "out" /\ at[p] = MaxCalls
  /\ UNCHANGED vars

Next ==
  \/ \E p \in PE : Begin(p) \/ Allocate(p) \/ Arrive(p) \/ Pass(p) \/ Release(p)
  \/ Finished

Spec == Init /\ [][Next]_vars

------------------------------------------------------------------------------
\* Properties.

Mallocs == {k \in 1..Len(calls) : calls[k][1] = "malloc"}
IsBlock(address) == address \notin {NULL, Failure}

\* p may read and write the k-th call's block, at any PE: the call returned it
\* and p has not called free.
MayUse(p, k) ==
  /\ k \in Mallocs /\ (k < at[p] \/ (k = at[p] /\ pc[p] = "out"))
  /\ IsBlock(got[p][k])
  /\ \A j \in 1..at[p] : calls[j] # <<"free", k>>

\* While a PE may use a block, every PE's allocator has handed it out, at the
\* same address, and none has taken it back: nobody's put lands in memory that
\* its owner uses for something else (the barriers of shmalloc.c:188,198).
AccessIsSafe ==
  \A p \in PE : \A k \in Mallocs : MayUse(p, k) =>
    \A q \in PE : k \in mine[q] /\ got[q][k] = got[p][k]

\* Blocks in use are inside the heap, as long as was asked for, and apart
\* (buddy_alloc, memalloc.c:155-189).
Bytes(p, k) == got[p][k] .. (got[p][k] + calls[k][2] - 1)
BlocksApart ==
  \A p \in PE : \A j, k \in mine[p] :
    /\ Bytes(p, k) \subseteq 0..(HeapBytes - 1)
    /\ j # k => Bytes(p, j) \cap Bytes(p, k) = {}

\* The reference: what is free under a node, from the list of blocks alone.
UnitsOf(idx) == Offset(idx)..(Offset(idx) + 2^Level(idx) - 1)
Block(p, k) ==
  LET first == got[p][k] \div Grain
  IN  first..(first + 2^Exponent(Units(calls[k][2])) - 1)
FreeNodes(p) == {idx \in Node : \A k \in mine[p] : UnitsOf(idx) \cap Block(p, k) = {}}
Within(p, idx) ==
  \E k \in mine[p] : UnitsOf(idx) \subseteq Block(p, k) /\ UnitsOf(idx) # Block(p, k)

\* The tree knows, at every node, the largest free aligned block below: no free
\* block is forgotten, whatever the order of releases, so an allocation fails
\* only when no such block exists, and all of the heap is one block again when
\* everything is released (buddy_alloc and buddy_free, memalloc.c:155-219).
TreeExact ==
  \A p \in PE : \A idx \in {i \in Node : ~ Within(p, i)} :
    LET below == {Level(d) : d \in {f \in FreeNodes(p) : UnitsOf(f) \subseteq UnitsOf(idx)}}
    IN  \/ tree[p][idx] \in below /\ \A l \in below : l <= tree[p][idx]
        \/ tree[p][idx] = NoBlock /\ below = {}

\* An allocation that fails answers NULL: what the check for it in
\* shmem_partition_malloc tests (SHMEMU_CHECK_ALLOC, shmalloc.c:190).
FailureIsNull ==
  \A p \in PE : \A k \in Mallocs :
    k <= Len(got[p]) /\ got[p][k] # NULL => got[p][k] < HeapBytes

==============================================================================
