--------------------------- MODULE DistLock_proof ----------------------------
(***************************************************************************)
(* For any PEs and any threads: mutual exclusion, the hand-over of the     *)
(* protected data, the absence of chaining, and the safety part of the     *)
(* refinement of module Lock.                                              *)
(***************************************************************************)
EXTENDS DistLock, TLAPS

LEMMA Claims ==
  /\ \A p \in PE : Claim(p) # Reset /\ Claim(p) \in Blob
  /\ \A p, q \in PE : Claim(p) = Claim(q) => p = q
  /\ Reset \in Blob
<1>1. \A p \in PE : Claim(p).locked = 1 /\ Claim(p).next = p
  BY DEF Claim
<1>2. Reset.locked = 0
  BY DEF Reset
<1> QED
  BY <1>1, <1>2 DEF Blob

LEMMA InitIInv == Init => IInv
<1> SUFFICES ASSUME Init PROVE IInv
  OBVIOUS
<1>1. TypeOK
  BY Claims DEF Init, TypeOK
<1> QED
  BY <1>1
  DEF Init, IInv, MutualExclusion, WordMatches, NeverChained, Flushed, Holds

\* A step that changes only the position of one thread, between two positions
\* that both hold the lock or both do not.
LEMMA MoveHolds ==
  ASSUME IInv, NEW t \in Thread, NEW s, pc' = [pc EXCEPT ![t] = s]
  PROVE  /\ pc'[t] = s
         /\ \A u \in Thread : u # t => pc'[u] = pc[u]
         /\ \A u \in Thread : u # t => (Holds(u)' <=> Holds(u))
         /\ Holds(t)' <=> s \in {"took", "held", "clear"}
BY DEF IInv, TypeOK, Holds

LEMMA CallSetStep ==
  ASSUME IInv, NEW t \in Thread, CallSet(t)
  PROVE  IInv'
<1> USE DEF CallSet, Goto
<1>1. TypeOK'
  BY DEF IInv, TypeOK
<1>2. /\ pc'[t] = "set" /\ ~Holds(t)'
      /\ \A u \in Thread : u # t => pc'[u] = pc[u] /\ (Holds(u)' <=> Holds(u))
  BY MoveHolds
<1>3. ~Holds(t)
  BY DEF Holds
<1>4. \A u \in Thread : Holds(u)' <=> Holds(u)
  BY <1>2, <1>3
<1> QED
  BY <1>1, <1>2, <1>4
  DEF IInv, MutualExclusion, WordMatches, NeverChained, Flushed

\* One compare-and-swap of shmem_set_lock or shmem_test_lock.
LEMMA AttemptStep ==
  ASSUME IInv, NEW t \in Thread, Request(t) \/ Test(t)
  PROVE  IInv'
<1>1. /\ pc[t] \in {"set", "out"} /\ pc' = [pc EXCEPT ![t] =
            IF lock = Reset THEN "took" ELSE pc[t]]
      /\ cmp' = [cmp EXCEPT ![t] = lock]
      /\ lock' = IF lock = Reset THEN Claim(me(t)) ELSE lock
      /\ UNCHANGED <<nodeNext, puts, data, written>>
  BY DEF Request, Test, try_request_lock, try_lock_action, Unset
<1>2. me(t) \in PE
  BY ThreadAssumption DEF me
<1>3. /\ \A u \in Thread : u # t => pc'[u] = pc[u] /\ (Holds(u)' <=> Holds(u))
      /\ pc'[t] = IF lock = Reset THEN "took" ELSE pc[t]
      /\ Holds(t)' <=> lock = Reset
      /\ ~Holds(t)
  BY <1>1, MoveHolds DEF Holds
<1>4. TypeOK'
  BY <1>1, <1>2, Claims DEF IInv, TypeOK
<1>5. MutualExclusion' /\ WordMatches'
  <2>1. CASE lock = Reset
    <3>1. \A u \in Thread : ~Holds(u)
      BY <2>1, Claims, ThreadAssumption DEF IInv, WordMatches, me
    <3> QED
      BY <1>1, <1>3, <2>1, <3>1 DEF MutualExclusion, WordMatches, me
  <2>2. CASE lock # Reset
    <3>1. lock' = lock /\ \A u \in Thread : Holds(u)' <=> Holds(u)
      BY <1>1, <1>3, <2>2
    <3> QED
      BY <3>1 DEF IInv, MutualExclusion, WordMatches, me
  <2> QED
    BY <2>1, <2>2
<1>6. NeverChained'
  <2> SUFFICES ASSUME NEW u \in Thread
               PROVE  /\ pc'[u] = "took" => cmp'[u] = Reset
                      /\ pc'[u] \in {"held", "clear"} => nodeNext[me(u)] = SHMEM_LOCK_FREE
                      /\ pc'[u] = "cleared" => cmp'[u] = Claim(me(u))
    BY <1>1 DEF NeverChained, me
  <2>1. CASE u = t
    BY <1>1, <1>3, <2>1 DEF IInv, TypeOK
  <2>2. CASE u # t
    BY <1>1, <1>3, <2>2 DEF IInv, TypeOK, NeverChained
  <2> QED
    BY <2>1, <2>2
<1>7. Flushed'
  BY <1>1, <1>3 DEF IInv, Flushed, me
<1> QED
  BY <1>4, <1>5, <1>6, <1>7 DEF IInv

LEMMA ExecuteStep ==
  ASSUME IInv, NEW t \in Thread, Execute(t)
  PROVE  IInv'
<1>1. /\ pc[t] = "took" /\ pc' = [pc EXCEPT ![t] = "held"]
      /\ nodeNext' = [nodeNext EXCEPT ![me(t)] = SHMEM_LOCK_FREE]
      /\ UNCHANGED <<lock, cmp, puts, data, written>>
  BY DEF Execute, Goto
<1>2. me(t) \in PE
  BY ThreadAssumption DEF me
<1>3. /\ pc'[t] = "held" /\ \A u \in Thread : u # t => pc'[u] = pc[u]
      /\ \A u \in Thread : Holds(u)' <=> Holds(u)
  BY <1>1, MoveHolds DEF Holds
<1>4. TypeOK'
  BY <1>1, <1>2 DEF IInv, TypeOK
<1>5. MutualExclusion' /\ WordMatches'
  BY <1>1, <1>3 DEF IInv, MutualExclusion, WordMatches, me
<1>6. NeverChained'
  <2>1. \A p \in PE : nodeNext'[p] = IF p = me(t) THEN SHMEM_LOCK_FREE ELSE nodeNext[p]
    BY <1>1 DEF IInv, TypeOK
  <2>2. \A u \in Thread : me(u) \in PE
    BY ThreadAssumption DEF me
  <2> QED
    BY <1>1, <1>3, <2>1, <2>2 DEF IInv, NeverChained, me
<1>7. Flushed'
  BY <1>1, <1>3 DEF IInv, Flushed, me
<1> QED
  BY <1>4, <1>5, <1>6, <1>7 DEF IInv

LEMMA WriteStep ==
  ASSUME IInv, NEW t \in Thread, Write(t)
  PROVE  IInv'
<1>1. me(t) \in PE
  BY ThreadAssumption DEF me
<1>2. TypeOK'
  BY <1>1 DEF Write, IInv, TypeOK
<1>3. MutualExclusion' /\ WordMatches' /\ NeverChained'
  BY DEF Write, IInv, MutualExclusion, WordMatches, NeverChained, Holds, me
<1>4. Flushed'
  <2>1. puts'[me(t)] = puts[me(t)] \cup {t}
    BY <1>1 DEF Write, IInv, TypeOK
  <2>2. \A p \in PE : p # me(t) => puts'[p] = puts[p]
    BY DEF Write, IInv, TypeOK
  <2>3. ASSUME NEW p \in PE, NEW u \in puts'[p]
        PROVE  p = me(u) /\ pc'[u] = "held" /\ written' = u
    <3>1. CASE u \in puts[p]
      <4>1. u \in Thread /\ p = me(u) /\ pc[u] = "held"
        BY <3>1 DEF IInv, TypeOK, Flushed
      <4>2. u = t
        BY <4>1 DEF Write, IInv, MutualExclusion, Holds
      <4> QED
        BY <4>1, <4>2 DEF Write
    <3>2. CASE u \notin puts[p]
      BY <3>2, <2>1, <2>2 DEF Write
    <3> QED
      BY <3>1, <3>2
  <2>4. \E p \in PE : puts'[p] # {}
    BY <1>1, <2>1
  <2> QED
    BY <2>3, <2>4 DEF Flushed, me
<1> QED
  BY <1>2, <1>3, <1>4 DEF IInv

\* The only writes in flight are those of the one thread that holds the lock,
\* so whichever lands last is the last one made.
LEMMA DeliverStep ==
  ASSUME IInv, NEW p \in PE, NEW t \in Thread, Deliver(p, t)
  PROVE  IInv'
<1>1. TypeOK'
  BY DEF Deliver, IInv, TypeOK
<1>2. MutualExclusion' /\ WordMatches' /\ NeverChained'
  BY DEF Deliver, IInv, MutualExclusion, WordMatches, NeverChained, Holds, me
<1>3. Flushed'
  <2>1. data' = t /\ written' = written /\ pc' = pc /\ written = t
    BY DEF Deliver, IInv, Flushed
  <2>2. \A q \in PE : puts'[q] \subseteq puts[q]
    BY DEF Deliver, IInv, TypeOK
  <2> QED
    BY <2>1, <2>2 DEF IInv, Flushed, me
<1> QED
  BY <1>1, <1>2, <1>3 DEF IInv

LEMMA CallClearStep ==
  ASSUME IInv, NEW t \in Thread, CallClear(t)
  PROVE  IInv'
<1>1. /\ pc[t] = "held" /\ pc' = [pc EXCEPT ![t] = "clear"] /\ puts[me(t)] = {}
      /\ UNCHANGED <<lock, nodeNext, cmp, puts, data, written>>
  BY DEF CallClear, Goto, Quiesced
<1>2. /\ pc'[t] = "clear" /\ \A u \in Thread : u # t => pc'[u] = pc[u]
      /\ \A u \in Thread : Holds(u)' <=> Holds(u)
  BY <1>1, MoveHolds DEF Holds
<1>3. TypeOK'
  BY <1>1 DEF IInv, TypeOK
<1>4. MutualExclusion' /\ WordMatches' /\ NeverChained'
  BY <1>1, <1>2 DEF IInv, MutualExclusion, WordMatches, NeverChained, me
<1>5. Flushed'
  <2>1. \A p \in PE : \A u \in puts[p] : u \in Thread /\ u # t
    BY <1>1 DEF IInv, TypeOK, Flushed
  <2> QED
    BY <1>1, <1>2, <2>1 DEF IInv, Flushed, me
<1> QED
  BY <1>3, <1>4, <1>5 DEF IInv

\* What the clear finds is the caller's own claim, so the word is unset.
LEMMA ClearRequestStep ==
  ASSUME IInv, NEW t \in Thread, ClearRequest(t)
  PROVE  IInv'
<1>1. /\ pc[t] = "clear" /\ pc' = [pc EXCEPT ![t] = "cleared"]
      /\ cmp' = [cmp EXCEPT ![t] = lock]
      /\ lock' = IF lock = Claim(me(t)) THEN Reset ELSE lock
      /\ UNCHANGED <<nodeNext, puts, data, written>>
  BY DEF ClearRequest, Goto, try_clear_lock, try_lock_action
<1>2. Holds(t) /\ lock = Claim(me(t)) /\ lock' = Reset
  BY <1>1 DEF Holds, IInv, WordMatches
<1>3. /\ pc'[t] = "cleared" /\ \A u \in Thread : u # t => pc'[u] = pc[u]
      /\ \A u \in Thread : ~Holds(u)'
  BY <1>1, <1>2, MoveHolds DEF Holds, IInv, MutualExclusion
<1>4. TypeOK'
  BY <1>1, <1>2, Claims DEF IInv, TypeOK
<1>5. MutualExclusion' /\ WordMatches'
  BY <1>2, <1>3 DEF MutualExclusion, WordMatches
<1>6. NeverChained'
  <2>1. cmp'[t] = Claim(me(t)) /\ \A u \in Thread : u # t => cmp'[u] = cmp[u]
    BY <1>1, <1>2 DEF IInv, TypeOK
  <2> QED
    BY <1>1, <1>3, <2>1 DEF IInv, NeverChained, me
<1>7. Flushed'
  <2>1. \A p \in PE : \A u \in puts[p] : u \in Thread /\ u # t
    BY <1>1 DEF IInv, TypeOK, Flushed
  <2> QED
    BY <1>1, <1>3, <2>1 DEF IInv, Flushed, me
<1> QED
  BY <1>4, <1>5, <1>6, <1>7 DEF IInv

LEMMA ClearExecuteStep ==
  ASSUME IInv, NEW t \in Thread, ClearExecute(t)
  PROVE  IInv'
<1>1. /\ pc[t] = "cleared" /\ pc' = [pc EXCEPT ![t] = "out"]
      /\ UNCHANGED <<lock, nodeNext, cmp, puts, data, written>>
  BY DEF ClearExecute, Goto
<1>2. /\ pc'[t] = "out" /\ \A u \in Thread : u # t => pc'[u] = pc[u]
      /\ \A u \in Thread : Holds(u)' <=> Holds(u)
  <2>1. /\ pc'[t] = "out" /\ ~Holds(t)'
        /\ \A u \in Thread : u # t => pc'[u] = pc[u] /\ (Holds(u)' <=> Holds(u))
    BY <1>1, MoveHolds
  <2>2. ~Holds(t)
    BY <1>1 DEF Holds
  <2> QED
    BY <2>1, <2>2
<1>3. TypeOK'
  BY <1>1 DEF IInv, TypeOK
<1>4. MutualExclusion' /\ WordMatches' /\ NeverChained'
  BY <1>1, <1>2 DEF IInv, MutualExclusion, WordMatches, NeverChained, me
<1>5. Flushed'
  <2>1. \A p \in PE : \A u \in puts[p] : u \in Thread /\ u # t
    BY <1>1 DEF IInv, TypeOK, Flushed
  <2> QED
    BY <1>1, <1>2, <2>1 DEF IInv, Flushed, me
<1> QED
  BY <1>3, <1>4, <1>5 DEF IInv

LEMMA NextIInv == IInv /\ [Next]_vars => IInv'
<1> SUFFICES ASSUME IInv, [Next]_vars PROVE IInv'
  OBVIOUS
<1>1. CASE UNCHANGED vars
  BY <1>1 DEF vars, IInv, TypeOK, MutualExclusion, WordMatches, NeverChained,
              Flushed, Holds, me
<1>2. CASE \E t \in Thread : CallSet(t)
  BY <1>2, CallSetStep
<1>3. CASE \E t \in Thread : Request(t) \/ Test(t)
  BY <1>3, AttemptStep
<1>4. CASE \E t \in Thread : Execute(t)
  BY <1>4, ExecuteStep
<1>5. CASE \E t \in Thread : Write(t)
  BY <1>5, WriteStep
<1>6. CASE \E t \in Thread : CallClear(t)
  BY <1>6, CallClearStep
<1>7. CASE \E t \in Thread : ClearRequest(t)
  BY <1>7, ClearRequestStep
<1>8. CASE \E t \in Thread : ClearExecute(t)
  BY <1>8, ClearExecuteStep
<1>9. CASE \E p \in PE, t \in Thread : Deliver(p, t)
  BY <1>9, DeliverStep
<1> QED
  BY <1>1, <1>2, <1>3, <1>4, <1>5, <1>6, <1>7, <1>8, <1>9 DEF Next

------------------------------------------------------------------------------

\* The inductive invariant holds in every reachable state, for any number of
\* PEs and threads (all of lock.c).
THEOREM Invariance == SafeSpec => []IInv
<1> QED
  BY InitIInv, NextIInv, PTL DEF SafeSpec

\* Of all the threads of all the PEs, at most one is between the claim and
\* the release of the owner's word (lock.c:135-142, 241-248).
THEOREM Exclusion == SafeSpec => []MutualExclusion
<1>1. IInv => MutualExclusion
  BY DEF IInv
<1> QED
  BY <1>1, Invariance, PTL

\* The quiet of clear_lock makes the lock carry the data with it: the next
\* holder reads the last holder's writes (lock.c:234-235).
THEOREM HandOver == SafeSpec => []HolderSeesLastWrite
<1>1. IInv => HolderSeesLastWrite
  BY DEF IInv, TypeOK, HolderSeesLastWrite, MutualExclusion, Flushed, Holds
<1> QED
  BY <1>1, Invariance, PTL

\* The chaining branches of set_lock_execute and clear_lock_execute are never
\* entered (lock.c:171-181, 207-213).
THEOREM Unchained == SafeSpec => []NeverChained
<1>1. IInv => NeverChained
  BY DEF IInv
<1> QED
  BY <1>1, Invariance, PTL

------------------------------------------------------------------------------
\* The refinement.

LEMMA HolderIs ==
  ASSUME IInv
  PROVE  /\ \A t \in Thread : Holds(t) => holder = t
         /\ (\A t \in Thread : ~Holds(t)) => holder = NoThread
BY ThreadAssumption DEF holder, IInv, MutualExclusion

LEMMA HolderIsNext ==
  ASSUME IInv'
  PROVE  /\ \A t \in Thread : Holds(t)' => holder' = t
         /\ (\A t \in Thread : ~Holds(t)') => holder' = NoThread
BY ThreadAssumption DEF holder, IInv, MutualExclusion

\* Every step of the lock is a step of the abstract lock or none.
LEMMA StepRefines ==
  ASSUME IInv, IInv', [Next]_vars
  PROVE  [Abstract!Next]_(Abstract!vars)
<1>1. CASE UNCHANGED vars
  BY <1>1 DEF vars, Abstract!vars, holder, waiting, Holds
<1>2. ASSUME NEW t \in Thread, CallSet(t) PROVE Abstract!Ask(t)
  <2>1. pc[t] = "out" /\ pc' = [pc EXCEPT ![t] = "set"]
    BY <1>2 DEF CallSet, Goto
  <2>2. \A u \in Thread : Holds(u)' <=> Holds(u)
    BY <2>1, MoveHolds DEF Holds
  <2>3. holder' = holder /\ holder # t
    BY <2>1, <2>2, HolderIs, HolderIsNext, ThreadAssumption DEF Holds
  <2>4. waiting' = waiting \cup {t} /\ t \notin waiting
    BY <2>1 DEF waiting, IInv, TypeOK
  <2> QED
    BY <2>3, <2>4 DEF Abstract!Ask
<1>3. ASSUME NEW t \in Thread, Request(t)
      PROVE  Abstract!Grant(t) \/ UNCHANGED <<holder, waiting>>
  <2>1. /\ pc[t] = "set" /\ pc' = [pc EXCEPT ![t] = IF Unset(lock) THEN "took" ELSE "set"]
    BY <1>3 DEF Request
  <2>2. CASE lock = Reset
    <3>1. \A u \in Thread : ~Holds(u)
      BY <2>2, Claims, ThreadAssumption DEF IInv, WordMatches, me
    <3>2. Holds(t)'
      BY <2>1, <2>2, MoveHolds DEF Unset
    <3>3. holder = NoThread /\ holder' = t
      BY <3>1, <3>2, HolderIs, HolderIsNext
    <3>4. t \in waiting /\ waiting' = waiting \ {t}
      BY <2>1, <2>2 DEF waiting, Unset, IInv, TypeOK
    <3> QED
      BY <3>3, <3>4 DEF Abstract!Grant
  <2>3. CASE lock # Reset
    <3>1. pc' = pc
      BY <2>1, <2>3 DEF Unset, IInv, TypeOK
    <3> QED
      BY <3>1 DEF holder, waiting, Holds
  <2> QED
    BY <2>2, <2>3
<1>4. ASSUME NEW t \in Thread, Test(t)
      PROVE  Abstract!Try(t) \/ UNCHANGED <<holder, waiting>>
  <2>1. /\ pc[t] = "out" /\ pc' = [pc EXCEPT ![t] = IF Unset(lock) THEN "took" ELSE "out"]
    BY <1>4 DEF Test
  <2>2. CASE lock = Reset
    <3>1. \A u \in Thread : ~Holds(u)
      BY <2>2, Claims, ThreadAssumption DEF IInv, WordMatches, me
    <3>2. Holds(t)'
      BY <2>1, <2>2, MoveHolds DEF Unset
    <3>3. holder = NoThread /\ holder' = t
      BY <3>1, <3>2, HolderIs, HolderIsNext
    <3>4. t \notin waiting /\ waiting' = waiting
      BY <2>1, <2>2 DEF waiting, Unset, IInv, TypeOK
    <3> QED
      BY <3>3, <3>4 DEF Abstract!Try
  <2>3. CASE lock # Reset
    <3>1. pc' = pc
      BY <2>1, <2>3 DEF Unset, IInv, TypeOK
    <3> QED
      BY <3>1 DEF holder, waiting, Holds
  <2> QED
    BY <2>2, <2>3
<1>5. ASSUME NEW t \in Thread, ClearRequest(t) PROVE Abstract!Free(t)
  <2>1. pc[t] = "clear" /\ pc' = [pc EXCEPT ![t] = "cleared"]
    BY <1>5 DEF ClearRequest, Goto
  <2>2. Holds(t) /\ \A u \in Thread : ~Holds(u)'
    <3>1. Holds(t)
      BY <2>1 DEF Holds
    <3>2. ~("cleared" \in {"took", "held", "clear"})
      OBVIOUS
    <3>3. /\ ~Holds(t)'
          /\ \A u \in Thread : u # t => (Holds(u)' <=> Holds(u))
      BY <2>1, <3>2, MoveHolds
    <3> QED
      BY <3>1, <3>3 DEF IInv, MutualExclusion
  <2>3. holder = t /\ holder' = NoThread
    BY <2>2, HolderIs, HolderIsNext
  <2>4. waiting' = waiting
    BY <2>1 DEF waiting, IInv, TypeOK
  <2> QED
    BY <2>3, <2>4 DEF Abstract!Free
<1>6. ASSUME NEW t \in Thread,
             NEW s \in {"held", "clear"}, Holds(t), pc' = [pc EXCEPT ![t] = s]
      PROVE  UNCHANGED <<holder, waiting>>
  <2>1. \A u \in Thread : Holds(u)' <=> Holds(u)
    BY <1>6, MoveHolds
  <2>2. holder' = holder
    BY <1>6, <2>1, HolderIs, HolderIsNext
  <2>3. waiting' = waiting
    BY <1>6 DEF waiting, Holds, IInv, TypeOK
  <2> QED
    BY <2>2, <2>3
<1>7. ASSUME NEW t \in Thread, ClearExecute(t) PROVE UNCHANGED <<holder, waiting>>
  <2>1. pc[t] = "cleared" /\ pc' = [pc EXCEPT ![t] = "out"]
    BY <1>7 DEF ClearExecute, Goto
  <2>2. \A u \in Thread : Holds(u)' <=> Holds(u)
    BY <2>1, MoveHolds DEF Holds
  <2>3. holder' = holder
    BY <2>2 DEF holder
  <2>4. waiting' = waiting
    BY <2>1 DEF waiting, IInv, TypeOK
  <2> QED
    BY <2>3, <2>4
<1>8. ASSUME pc' = pc PROVE UNCHANGED <<holder, waiting>>
  BY <1>8 DEF holder, waiting, Holds
<1>9. ASSUME NEW t \in Thread, Execute(t) \/ CallClear(t)
      PROVE  UNCHANGED <<holder, waiting>>
  BY <1>6, <1>9 DEF Execute, CallClear, Goto, Holds
<1>10. ASSUME NEW t \in Thread, Write(t) \/ \E p \in PE : Deliver(p, t)
       PROVE  UNCHANGED <<holder, waiting>>
  BY <1>8, <1>10 DEF Write, Deliver
<1>11. CASE Next
  <2>1. Abstract!Next \/ UNCHANGED <<holder, waiting>>
    BY <1>11, <1>2, <1>3, <1>4, <1>5, <1>7, <1>9, <1>10 DEF Next, Abstract!Next
  <2> QED
    BY <2>1 DEF Abstract!vars
<1> QED
  BY <1>1, <1>11

\* The lock implements its abstract specification, fairness aside: the word
\* passes from one thread to no other until it was cleared (lock.c:273-316).
THEOREM Refinement == SafeSpec => Abstract!SafeSpec
<1>1. Init => Abstract!Init
  BY DEF Init, Abstract!Init, holder, waiting, Holds
<1>2. IInv /\ IInv' /\ [Next]_vars => [Abstract!Next]_(Abstract!vars)
  BY StepRefines
<1> QED
  BY <1>1, <1>2, Invariance, PTL DEF SafeSpec, Abstract!SafeSpec

==============================================================================
