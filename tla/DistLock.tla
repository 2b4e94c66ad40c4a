------------------------------ MODULE DistLock -------------------------------
(***************************************************************************)
(* The distributed lock of api/lock.c.  A lock is two words at every PE:   *)
(* "lock", used at the one PE every caller computes as its owner, and      *)
(* "node", used locally.  Claims are compare-and-swaps on the owner's      *)
(* word; the AMO blocks its caller, so one step stands for it.             *)
(*                                                                         *)
(* Threads of one PE share its number, its node word and the default       *)
(* context (the API does not serialise them: SHMEMT_MUTEX_NOPROTECT).      *)
(***************************************************************************)
EXTENDS Integers, FiniteSets

CONSTANTS
  PE,         \* the PEs, by number
  Thread,     \* the threads that use the lock
  PEOf,       \* the PE each thread belongs to
  NoThread

\* A claim carries the PE in an int16_t (lock.c:26,37-38): larger numbers
\* would not compare equal to the caller's own.
ASSUME ShortPEAssumption == PE \subseteq 0..32767
ASSUME ThreadAssumption == PEOf \in [Thread -> PE] /\ NoThread \notin Thread

SHMEM_LOCK_FREE  == -1
SHMEM_LOCK_RESET == 0

\* The blob of a lock word: 0, or a claim {ACQUIRED, pe}.
Reset == [locked |-> 0, next |-> 0]
Claim(p) == [locked |-> 1, next |-> p]
Blob == {Reset} \cup {Claim(p) : p \in PE}

VARIABLES
  pc,        \* where each thread is
  lock,      \* the owner's word
  nodeNext,  \* node->d.next of each PE
  cmp,       \* each thread's cmp: the word its last compare-and-swap found
  puts,      \* puts[p]: writes to the protected datum PE p has in flight
  data,      \* the protected datum, as everybody can read it
  written    \* history: the last write made by a thread that held the lock

vars == <<pc, lock, nodeNext, cmp, puts, data, written>>

TypeOK ==
  /\ pc \in [Thread -> {"out", "set", "took", "held", "clear", "cleared"}]
  /\ lock \in Blob
  /\ nodeNext \in [PE -> {SHMEM_LOCK_RESET, SHMEM_LOCK_FREE}]
  /\ cmp \in [Thread -> Blob]
  /\ puts \in [PE -> SUBSET Thread]
  /\ data \in Thread \cup {NoThread}
  /\ written \in Thread \cup {NoThread}

Init ==
  /\ pc = [t \in Thread |-> "out"]
  /\ lock = Reset
  /\ nodeNext = [p \in PE |-> SHMEM_LOCK_RESET]
  /\ cmp = [t \in Thread |-> Reset]
  /\ puts = [p \in PE |-> {}]
  /\ data = NoThread
  /\ written = NoThread

me(t) == PEOf[t]
Goto(t, from, to) == pc[t] = from /\ pc' = [pc EXCEPT ![t] = to]

\* try_lock_action: the owner's word becomes value if it is cond; the caller
\* gets what it was.
try_lock_action(t, cond, value) ==
  /\ cmp' = [cmp EXCEPT ![t] = lock]
  /\ lock' = IF lock = cond THEN value ELSE lock

try_request_lock(t) == try_lock_action(t, Reset, Claim(me(t)))
try_clear_lock(t) == try_lock_action(t, Claim(me(t)), Reset)

\* What makes the request loop of shmem_set_lock, and shmem_test_lock, take
\* the lock: the word was unset.
UnsetHalf(blob) == blob.next = 0     \* slip: half the word, where PE 0 is no claim
Unset(blob) == blob = Reset

------------------------------------------------------------------------------
\* shmem_set_lock

CallSet(t) ==
  /\ Goto(t, "out", "set")
  /\ UNCHANGED <<lock, nodeNext, cmp, puts, data, written>>

\* set_lock_request: one turn of the loop, which only ends on an unset word
Request(t) ==
  /\ pc[t] = "set"
  /\ try_request_lock(t)
  /\ pc' = [pc EXCEPT ![t] = IF Unset(lock) THEN "took" ELSE "set"]
  /\ UNCHANGED <<nodeNext, puts, data, written>>

\* set_lock_execute: node->d.next = FREE, and the call returns with the lock.
\* Its other branch, for a claim found in the word, never runs: NeverChained.
Execute(t) ==
  /\ Goto(t, "took", "held")
  /\ nodeNext' = [nodeNext EXCEPT ![me(t)] = SHMEM_LOCK_FREE]
  /\ UNCHANGED <<lock, cmp, puts, data, written>>

\* shmem_test_lock: one attempt.  A caller that takes the word goes on to
\* set_lock_execute and returns 0; one that does not returns 1.
Test(t) ==
  /\ pc[t] = "out"
  /\ try_request_lock(t)
  /\ pc' = [pc EXCEPT ![t] = IF Unset(lock) THEN "took" ELSE "out"]
  /\ UNCHANGED <<nodeNext, puts, data, written>>

\* The program writes the protected datum while it holds the lock.
Write(t) ==
  /\ pc[t] = "held"
  /\ puts' = [puts EXCEPT ![me(t)] = @ \cup {t}]
  /\ written' = t
  /\ UNCHANGED <<pc, lock, nodeNext, cmp, data>>

Deliver(p, t) ==
  /\ t \in puts[p]
  /\ puts' = [puts EXCEPT ![p] = @ \ {t}]
  /\ data' = t
  /\ UNCHANGED <<pc, lock, nodeNext, cmp, written>>

\* shmemc_quiet: nothing of this PE's default context is in flight
Unflushed(p) == TRUE                 \* slip: no quiet
Quiesced(p) == puts[p] = {}

\* shmem_clear_lock, called by a holder: "flush comms before clearing lock"
CallClear(t) ==
  /\ Goto(t, "held", "clear")
  /\ Quiesced(me(t))
  /\ UNCHANGED <<lock, nodeNext, cmp, puts, data, written>>

\* clear_lock_request, when the node says there is no chain
ClearRequest(t) ==
  /\ Goto(t, "clear", "cleared")
  /\ nodeNext[me(t)] = SHMEM_LOCK_FREE
  /\ try_clear_lock(t)
  /\ UNCHANGED <<nodeNext, puts, data, written>>

\* clear_lock_execute: returns if the word held the caller's claim; if not it
\* waits for a chainer, which never comes
ClearExecute(t) ==
  /\ Goto(t, "cleared", "out")
  /\ cmp[t].next = me(t)
  /\ UNCHANGED <<lock, nodeNext, cmp, puts, data, written>>

Next ==
  \/ \E t \in Thread :
       \/ CallSet(t) \/ Request(t) \/ Execute(t) \/ Test(t)
       \/ Write(t) \/ CallClear(t) \/ ClearRequest(t) \/ ClearExecute(t)
  \/ \E p \in PE, t \in Thread : Deliver(p, t)

\* The library runs, the fabric delivers, and a program that holds the lock
\* calls shmem_clear_lock in the end.  The compare-and-swap of a spinning
\* caller is only weakly fair: it may find the lock taken every time.
Fairness ==
  /\ \A t \in Thread :
       /\ WF_vars(Request(t)) /\ WF_vars(Execute(t))
       /\ WF_vars(CallClear(t)) /\ WF_vars(ClearRequest(t)) /\ WF_vars(ClearExecute(t))
  /\ \A p \in PE, t \in Thread : WF_vars(Deliver(p, t))

SafeSpec == Init /\ [][Next]_vars
Spec == SafeSpec /\ Fairness

------------------------------------------------------------------------------
\* Properties.

\* Between the compare-and-swap that takes the word and the one that gives it
\* back.
Holds(t) == pc[t] \in {"took", "held", "clear"}

\* At most one thread holds the lock, of whichever PE (lock.c:273-316).
MutualExclusion ==
  \A t, u \in Thread : Holds(t) /\ Holds(u) => t = u

\* A thread that holds the lock reads what the last holder wrote, whatever
\* PE that was: only its own writes can be in flight (the quiet at
\* lock.c:234-235).
HolderSeesLastWrite ==
  \A t \in Thread : Holds(t) =>
    /\ \A p \in PE : puts[p] \subseteq {t}
    /\ (\A p \in PE : puts[p] = {}) => data = written

\* The remains of the queue never come into play: a claim is granted on an
\* unset word only, the holder's node says it has no successor, and a clear
\* finds the caller's claim.  So the waits of lock.c:177-180 and 207-210,
\* which nobody would end, and the uninitialised cmp of lock.c:151-159 and
\* 202, are out of reach.
NeverChained ==
  \A t \in Thread :
    /\ pc[t] = "took" => cmp[t] = Reset
    /\ pc[t] \in {"held", "clear"} => nodeNext[me(t)] = SHMEM_LOCK_FREE
    /\ pc[t] = "cleared" => cmp[t] = Claim(me(t))

\* The lock implements its abstract specification, progress included.
holder == IF \E t \in Thread : Holds(t) THEN CHOOSE t \in Thread : Holds(t)
          ELSE NoThread
waiting == {t \in Thread : pc[t] = "set"}
Abstract == INSTANCE Lock
ImplementsLock == Abstract!Spec

------------------------------------------------------------------------------
\* The inductive invariant.

\* The word is a claim exactly while somebody holds the lock, and names the
\* PE of the one who does.
WordMatches ==
  /\ \A t \in Thread : Holds(t) => lock = Claim(me(t))
  /\ lock # Reset => \E t \in Thread : Holds(t)

\* Nothing is in flight when the lock is not in anybody's hands, nor once the
\* holder has begun to clear it; and what is in flight is the last write.
Flushed ==
  /\ \A p \in PE : \A t \in puts[p] : p = me(t) /\ pc[t] = "held" /\ written = t
  /\ (\A p \in PE : puts[p] = {}) => data = written

IInv ==
  /\ TypeOK
  /\ MutualExclusion
  /\ WordMatches
  /\ NeverChained
  /\ Flushed

==============================================================================
