------------------------------- MODULE Contexts --------------------------------
(***************************************************************************)
(* Contexts (shmemc/contexts.c): the table of the world team, the list of  *)
(* slots that are free again, and the worker each slot keeps.  The threads *)
(* of a PE create and destroy contexts under the one mutex of the library  *)
(* (SHMEM_THREAD_MULTIPLE, shmemt/shmem_mutex.c), and put on them.  Where  *)
(* the life of the library comes in, see module Library.                   *)
(***************************************************************************)
EXTENDS Integers, Sequences, SequencesExt

CONSTANTS
  PE,
  Thread,          \* pairs of a PE and a number
  SpillBlock,      \* SHMEM_PREALLOC_CONTEXTS: slots the table grows by
  MaxCreates,      \* bound: contexts a PE creates
  MaxPuts          \* bound: puts a PE makes

ASSUME ThreadAssumption == PE # {} /\ Thread \subseteq PE \X Nat
ASSUME BlockAssumption == SpillBlock \in Nat \ {0}   \* 0 would never grow the table

VARIABLES
  table,     \* the world team's nctxts, the capacity of its ctxts, spill_ctxt; the free list
  nostore,   \* nostore[p][idx]: the options of a context
  workers,   \* contexts of p that have a worker
  mutex,     \* comms_mutex: who holds it
  call,      \* where a thread is in a context call
  handles,   \* contexts a thread has been given
  flight,    \* puts that have not landed
  puts, creates

ctxVars == <<table, nostore, workers, mutex, call, handles, flight, puts, creates>>

Default == -1            \* shmemc_default_context has no slot
NoThread == <<>>
NoCall == [at |-> "none"]
of(t) == t[1]

ContextsInit ==
  /\ table = [p \in PE |-> [nctxts |-> 0, capacity |-> 0, spill |-> 0, free |-> <<>>]]
  /\ nostore = [p \in PE |-> <<>>]
  /\ workers = [p \in PE |-> {}]
  /\ mutex = [p \in PE |-> NoThread]
  /\ call = [t \in Thread |-> NoCall]
  /\ handles = [t \in Thread |-> {}]
  /\ flight = {}
  /\ puts = [p \in PE |-> 0]
  /\ creates = [p \in PE |-> 0]

At(t, place) == call[t].at = place
Goto(t, place) == call' = [call EXCEPT ![t].at = place]

Unlocked(t) == TRUE                              \* slip: no SHMEMT_MUTEX_PROTECT
Lockable(t) == mutex[of(t)] = NoThread
Lock(t) == Lockable(t) /\ mutex' = [mutex EXCEPT ![of(t)] = t]
Unlock(t) == mutex' = [mutex EXCEPT ![of(t)] = NoThread]

------------------------------------------------------------------------------
\* shmem_ctx_create

\* get_usable_context looks at the free list and at nctxts, ..
Create(t, options) ==
  /\ At(t, "none")
  /\ creates[of(t)] < MaxCreates[of(t)]
  /\ Lock(t)
  /\ creates' = [creates EXCEPT ![of(t)] = @ + 1]
  /\ call' = [call EXCEPT ![t] =
       LET free == table[of(t)].free
       IN  [at |-> "take", options |-> options, reused |-> free # <<>>,
            idx |-> IF free # <<>> THEN Head(free) ELSE table[of(t)].nctxts]]
  /\ UNCHANGED <<table, nostore, workers, handles, flight, puts>>

\* .. grows the table where it is full, and takes the slot
AsItIs(tab) == tab                               \* slip: never grows
resize_spill_block(tab) ==
  IF tab.nctxts = tab.spill
  THEN [tab EXCEPT !.spill = @ + SpillBlock, !.capacity = tab.spill + SpillBlock]
  ELSE tab
SlotTaken(tab, reused) ==
  IF reused THEN [tab EXCEPT !.free = Tail(@)]
  ELSE [resize_spill_block(tab) EXCEPT !.nctxts = @ + 1]
get_usable_context(t) ==
  /\ At(t, "take")
  /\ table' = [table EXCEPT ![of(t)] = SlotTaken(@, call[t].reused)]
  /\ nostore' = [nostore EXCEPT ![of(t)] =
       [i \in DOMAIN @ \cup {call[t].idx} |-> IF i = call[t].idx THEN call[t].options ELSE @[i]]]
  /\ Goto(t, "worker")
  /\ UNCHANGED <<workers, mutex, handles, flight, puts, creates>>

\* a new slot gets a worker and its endpoints; one that is taken again keeps what it has
CreateReturns(t) ==
  /\ At(t, "worker")
  /\ workers' = [workers EXCEPT ![of(t)] = IF call[t].reused THEN @ ELSE @ \cup {call[t].idx}]
  /\ handles' = [handles EXCEPT ![t] = @ \cup {call[t].idx}]
  /\ call' = [call EXCEPT ![t] = NoCall]
  /\ Unlock(t)
  /\ UNCHANGED <<table, nostore, flight, puts, creates>>

------------------------------------------------------------------------------
\* shmem_ctx_destroy: an implicit quiet, and the slot is free again.  The worker stays.

Destroy(t, idx) ==
  /\ At(t, "none")
  /\ idx \in handles[t]
  /\ Lock(t)
  /\ handles' = [handles EXCEPT ![t] = @ \ {idx}]
  /\ call' = [call EXCEPT ![t] = [at |-> "quiet", idx |-> idx]]
  /\ UNCHANGED <<table, nostore, workers, flight, puts, creates>>

\* nothing of this context is on its way; what a quiet of a nostore context skips
Flushed(p, idx) == \A o \in flight : ~(o.from = p /\ o.ctx = idx)
Quieted(p, idx) == nostore[p][idx] \/ Flushed(p, idx)

context_deregister(t) ==
  /\ At(t, "quiet")
  /\ Quieted(of(t), call[t].idx)
  /\ table' = [table EXCEPT ![of(t)].free = Append(@, call[t].idx)]
  /\ call' = [call EXCEPT ![t] = NoCall]
  /\ Unlock(t)
  /\ UNCHANGED <<nostore, workers, handles, flight, puts, creates>>

------------------------------------------------------------------------------
\* The program puts, and UCX lands what was put.

Put(t, idx, q) ==
  /\ At(t, "none")
  /\ idx \in handles[t] \cup {Default}
  /\ puts[of(t)] < MaxPuts[of(t)]
  /\ puts' = [puts EXCEPT ![of(t)] = @ + 1]
  /\ flight' = flight \cup {[from |-> of(t), ctx |-> idx, to |-> q, n |-> puts[of(t)]]}
  /\ UNCHANGED <<table, nostore, workers, mutex, call, handles, creates>>

Land(o) ==
  /\ flight' = flight \ {o}
  /\ UNCHANGED <<table, nostore, workers, mutex, call, handles, puts, creates>>

InContextCall(t) == get_usable_context(t) \/ CreateReturns(t) \/ context_deregister(t)

Idle(p) == \A t \in Thread : of(t) = p => At(t, "none")

------------------------------------------------------------------------------
\* A context is in one pair of hands: threads that create and destroy at once are
\* never given the same slot, nor one that is free, has no worker or is outside of the
\* table (contexts.c:82-133; the table grows by blocks, the free list is shared).
OneOwner ==
  /\ \A t \in Thread : \A idx \in handles[t] :
       /\ idx \in workers[of(t)]
       /\ \A i \in DOMAIN table[of(t)].free : table[of(t)].free[i] # idx
       /\ \A u \in Thread : of(u) = of(t) /\ u # t => idx \notin handles[u]
  /\ \A p \in PE :
       /\ \A i, j \in DOMAIN table[p].free : table[p].free[i] = table[p].free[j] => i = j
       /\ workers[p] \ {Default} \subseteq 0..(table[p].nctxts - 1)
       /\ table[p].nctxts <= table[p].capacity

==============================================================================
