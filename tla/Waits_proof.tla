------------------------------ MODULE Waits_proof ------------------------------
(***************************************************************************)
(* What waits and tests answer is true, for any number of threads and of   *)
(* variables of any width, and whatever is stored to them meanwhile.       *)
(***************************************************************************)
EXTENDS Waits, TLAPS

Domains ==
  /\ DOMAIN pc = Thread /\ DOMAIN call = Thread /\ DOMAIN i = Thread /\ DOMAIN n = Thread
  /\ DOMAIN hits = Thread /\ DOMAIN result = Thread /\ DOMAIN seen = Thread
  /\ DOMAIN steady = Thread /\ DOMAIN mem = Index

\* what the loop's index and the count can be, and where
Loops(t) ==
  /\ pc[t] \in {"out", "lock", "poll", "collect", "reread"}
  /\ i[t] \in 0..N /\ n[t] \in Nat
  /\ pc[t] \in {"out", "lock"} => i[t] = 0 /\ n[t] = 0
  /\ In(t, "poll", {"wait_any", "wait_some"}) => i[t] < N
  /\ pc[t] \in {"lock", "poll"} => hits[t] = {}
  /\ pc[t] = "collect" => call[t].kind \in {"wait_some", "test_some"}
  /\ pc[t] = "reread" => call[t].kind = "signal"

\* a call on one variable looks at no other
Single(c) ==
  c.kind \in {"wait", "signal", "test"} => \E var \in Index : Index \ c.status \subseteq {var}

\* what holds now has been seen, and what has held all along holds now
History(t) ==
  pc[t] # "out" => \A k \in Index :
    /\ k \in steady[t] => Holds(t, k)
    /\ Holds(t, k) => k \in seen[t]

\* what a scan knows of the variables it has looked at
Scanned(t) ==
  /\ pc[t] = "collect" => \A k \in Index :
       /\ k < i[t] /\ Unmasked(t, k) /\ k \in steady[t] => k \in hits[t]
       /\ k \in hits[t] => Unmasked(t, k) /\ k \in seen[t]
  /\ In(t, "poll", {"test_any"}) =>
       \A k \in Index : k < i[t] /\ Unmasked(t, k) => k \notin steady[t]
  /\ In(t, "poll", {"test_all"}) =>
       /\ n[t] <= i[t]
       /\ n[t] = i[t] => \A k \in Index : k < i[t] => k \in seen[t]
       /\ n[t] < i[t] => \E k \in Index : ~ (Unmasked(t, k) /\ k \in steady[t])

\* what may be answered: the properties, of one thread
Truthful(t, answer) ==
  /\ call[t].kind \in {"wait", "wait_any"} => answer \in Looked(t) \cap seen[t]
  /\ call[t].kind = "signal" =>
       \A k \in Looked(t) \cap steady[t] : Compare(call[t].cmp, answer, call[t].values[k])
  /\ call[t].kind \in {"wait_some", "test_some"} =>
       /\ Looked(t) \cap steady[t] \subseteq hits[t]
       /\ hits[t] \subseteq Looked(t) \cap seen[t]
  /\ call[t].kind = "test" =>
       /\ answer = 1 => Looked(t) \subseteq seen[t]
       /\ answer = 0 => Looked(t) \cap steady[t] = {}
  /\ call[t].kind = "test_any" =>
       answer \in Looked(t) \cap seen[t] \/ Looked(t) \cap steady[t] = {}
  /\ call[t].kind = "test_all" =>
       /\ answer = 1 => Index \subseteq seen[t]
       /\ answer = 0 /\ Looked(t) = Index => ~ (Index \subseteq steady[t])
Answered(t) == pc[t] = "out" => Truthful(t, result[t])

Good(t) ==
  /\ Loops(t) /\ Single(call[t]) /\ hits[t] \cup steady[t] \subseteq Index
  /\ History(t) /\ Scanned(t) /\ Answered(t)

IInv == Domains /\ \A t \in Thread : Good(t)

------------------------------------------------------------------------------
\* The properties are part of the invariant.
LEMMA Implied == IInv => WaitsExplained /\ NoneMissed /\ TestsAnswer
BY DEF IInv, Good, WaitsExplained, NoneMissed, TestsAnswer, Answered, Truthful, Returned, In

\* At first nobody has made a call.
LEMMA InitIInv == Init => IInv
<1> SUFFICES ASSUME Init PROVE IInv
  OBVIOUS
<1>1. Domains
  BY DEF Init, Domains
<1>2. ASSUME NEW t \in Thread PROVE Good(t)
  <2>1. /\ pc[t] = "out" /\ call[t].kind = "none" /\ i[t] = 0 /\ n[t] = 0 /\ hits[t] = {}
        /\ steady[t] = {}
    BY DEF Init, NoCall
  <2> QED
    BY <2>1, ParameterAssumption
    DEF Good, Loops, Single, History, Scanned, Answered, Truthful, In
<1> QED
  BY <1>1, <1>2 DEF IInv

\* The calls on one variable
LEMMA SingleCalls == \A c \in Calls : Single(c)
<1>1. ASSUME NEW kind, NEW var \in Index, NEW cmp, NEW value PROVE Single(One(kind, var, cmp, value))
  BY DEF Single, One, Call
<1>2. ASSUME NEW kind, NEW status, NEW cmp, NEW values, kind \notin {"wait", "signal", "test"}
      PROVE  Single(Call(kind, status, cmp, values))
  BY <1>2 DEF Single, Call
<1>3. ASSUME NEW kind, NEW status, NEW cmp, NEW value, kind \notin {"wait", "signal", "test"}
      PROVE  Single(Same(kind, status, cmp, value))
  BY <1>2, <1>3 DEF Same
<1>4. ASSUME NEW s, NEW c, NEW v
      PROVE  /\ Single(shmem_wait_until_all(s, c, v)) /\ Single(shmem_wait_until_any(s, c, v))
             /\ Single(shmem_wait_until_some(s, c, v)) /\ Single(shmem_test_all(s, c, v))
             /\ Single(shmem_test_any(s, c, v)) /\ Single(shmem_test_some(s, c, v))
             /\ Single(shmem_wait_until_all_vector(s, c, v)) /\ Single(shmem_wait_until_any_vector(s, c, v))
             /\ Single(shmem_wait_until_some_vector(s, c, v)) /\ Single(shmem_test_all_vector(s, c, v))
             /\ Single(shmem_test_any_vector(s, c, v)) /\ Single(shmem_test_some_vector(s, c, v))
  BY <1>2, <1>3
  DEF shmem_wait_until_all, shmem_wait_until_any, shmem_wait_until_some, shmem_test_all,
      shmem_test_any, shmem_test_some, shmem_wait_until_all_vector,
      shmem_wait_until_any_vector, shmem_wait_until_some_vector, shmem_test_all_vector,
      shmem_test_any_vector, shmem_test_some_vector
<1>5. ASSUME NEW k \in Index, NEW c, NEW v
      PROVE  /\ Single(shmem_wait_until(k, c, v)) /\ Single(shmem_signal_wait_until(k, c, v))
             /\ Single(shmem_test(k, c, v)) /\ Single(shmem_wait(k, v))
  BY <1>1 DEF shmem_wait_until, shmem_signal_wait_until, shmem_test, shmem_wait
<1> SUFFICES ASSUME NEW c \in Calls PROVE Single(c)
  OBVIOUS
<1>6. CASE c \in CallsOnOne
  <2>1. PICK k \in Index, m \in Cmps, v \in Values :
          c \in {shmem_wait_until(k, m, v), shmem_signal_wait_until(k, m, v), shmem_test(k, m, v),
                shmem_wait(k, v)}
    BY <1>6 DEF CallsOnOne
  <2> QED
    BY <1>5, <2>1
<1>7. CASE c \in CallsOnMany
  BY <1>4, <1>7 DEF CallsOnMany
<1>8. CASE c \in CallsWithVector
  BY <1>4, <1>8 DEF CallsWithVector
<1> QED
  BY <1>6, <1>7, <1>8 DEF Calls

------------------------------------------------------------------------------
\* A step of one thread does nothing to another.
LEMMA Others ==
  ASSUME IInv, NEW t \in Thread, mem' = mem, pc'[t] = pc[t], call'[t] = call[t], i'[t] = i[t],
         n'[t] = n[t], hits'[t] = hits[t], result'[t] = result[t], seen'[t] = seen[t],
         steady'[t] = steady[t]
  PROVE  Good(t)'
<1>1. Good(t)
  BY DEF IInv
<1>2. \A k : (Holds(t, k)' <=> Holds(t, k)) /\ (Unmasked(t, k)' <=> Unmasked(t, k))
  BY DEF Holds, HoldsIn, Unmasked
<1>3. Loops(t)' /\ Single(call[t])' /\ (hits[t] \cup steady[t] \subseteq Index)'
  BY <1>1 DEF Good, Loops, Single, In
<1>4. History(t)' /\ Scanned(t)'
  BY <1>1, <1>2 DEF Good, History, Scanned, In
<1>5. Looked(t)' = Looked(t)
  BY <1>2 DEF Looked
<1>6. Answered(t)'
  BY <1>1, <1>5 DEF Good, Answered, Truthful
<1> QED
  BY <1>3, <1>4, <1>6 DEF Good

\* Another PE stores to a variable: what threads in a call have seen grows, what has held
\* all along shrinks, and answers that were given stay.
LEMMA StoreStep ==
  ASSUME IInv, NEW var \in Index, NEW value \in Values, Store(var, value)
  PROVE  IInv'
<1>1. UNCHANGED <<pc, call, i, n, hits, result, mutex>>
  BY DEF Store
<1>2. \A t \in Thread : \A k \in Index : Holds(t, k)' <=> HoldsIn(mem', call[t], k)
  BY <1>1 DEF Holds
<1>3. ASSUME NEW t \in Thread
      PROVE  /\ pc[t] = "out" => seen'[t] = seen[t] /\ steady'[t] = steady[t]
             /\ pc[t] # "out" => /\ seen'[t] = seen[t] \cup {k \in Index : HoldsIn(mem', call[t], k)}
                                 /\ steady'[t] = steady[t] \cap {k \in Index : HoldsIn(mem', call[t], k)}
  BY DEF Store
<1>4. Domains'
  BY <1>1 DEF IInv, Domains, Store
<1>5. ASSUME NEW t \in Thread PROVE Good(t)'
  <2>1. Good(t)
    BY DEF IInv
  <2>2. Loops(t)' /\ Single(call[t])' /\ (hits[t] \cup steady[t] \subseteq Index)'
    BY <1>1, <1>3, <2>1 DEF Good, Loops, Single, In
  <2>3. \A k : (Unmasked(t, k)' <=> Unmasked(t, k))
    BY <1>1 DEF Unmasked
  <2>4. Looked(t)' = Looked(t)
    BY <2>3 DEF Looked
  <2>5. CASE pc[t] = "out"
    <3>1. History(t)' /\ Scanned(t)'
      BY <1>1, <2>5 DEF History, Scanned, In
    <3>2. Answered(t)'
      BY <1>1, <1>3, <2>1, <2>4, <2>5 DEF Good, Answered, Truthful
    <3> QED
      BY <2>2, <3>1, <3>2 DEF Good
  <2>6. CASE pc[t] # "out"
    <3>1. \A k \in Index : /\ k \in steady'[t] <=> k \in steady[t] /\ HoldsIn(mem', call[t], k)
                           /\ k \in seen'[t] <=> k \in seen[t] \/ HoldsIn(mem', call[t], k)
      BY <1>3, <2>6
    <3>2. History(t)'
      <4>1. \A k \in Index : (k \in steady'[t] => Holds(t, k)') /\ (Holds(t, k)' => k \in seen'[t])
        <5>1. ASSUME NEW k \in Index PROVE k \in steady'[t] => HoldsIn(mem', call[t], k)
           BY <3>1
        <5>2. ASSUME NEW k \in Index PROVE HoldsIn(mem', call[t], k) => k \in seen'[t]
           BY <3>1
        <5>3. ASSUME NEW k \in Index PROVE Holds(t, k)' <=> HoldsIn(mem', call[t], k)
           BY <1>2
        <5> QED
           BY <5>1, <5>2, <5>3
      <4> QED
        BY <4>1 DEF History
    <3>3. Scanned(t)'
      <4>1. Scanned(t)
        BY <2>1 DEF Good
      <4>2. \A k \in Index : /\ k \in steady'[t] => k \in steady[t]
                             /\ k \in seen[t] => k \in seen'[t]
        BY <3>1
      <4> QED
        BY <1>1, <2>3, <4>1, <4>2 DEF Scanned, In
    <3>4. Answered(t)'
      BY <1>1, <2>6 DEF Answered, Truthful
    <3> QED
      BY <2>2, <3>2, <3>3, <3>4 DEF Good
  <2> QED
    BY <2>5, <2>6
<1> QED
  BY <1>4, <1>5 DEF IInv

\* A thread makes a call.
LEMMA BeginStep ==
  ASSUME IInv, NEW t \in Thread, Begin(t)
  PROVE  IInv'
<1>1. PICK c \in Calls :
        /\ call' = [call EXCEPT ![t] = c]
        /\ seen' = [seen EXCEPT ![t] = {k \in Index : HoldsIn(mem, c, k)}]
        /\ steady' = [steady EXCEPT ![t] = {k \in Index : HoldsIn(mem, c, k)}]
  BY DEF Begin
<1>2. /\ pc[t] = "out" /\ pc' = [pc EXCEPT ![t] = "lock"] /\ hits' = [hits EXCEPT ![t] = {}]
      /\ result' = [result EXCEPT ![t] = 0] /\ UNCHANGED <<mem, i, n, mutex>>
  BY DEF Begin
<1>3. Domains'
  BY <1>1, <1>2 DEF IInv, Domains
<1>4. ASSUME NEW u \in Thread, u # t PROVE Good(u)'
  BY <1>1, <1>2, <1>4, Others DEF IInv, Domains
<1>5. Good(t)'
  <2>1. /\ pc'[t] = "lock" /\ hits'[t] = {} /\ call'[t] = c /\ i'[t] = i[t] /\ n'[t] = n[t]
        /\ seen'[t] = {k \in Index : HoldsIn(mem, c, k)} /\ steady'[t] = seen'[t]
    BY <1>1, <1>2 DEF IInv, Domains
  <2>2. Loops(t)' /\ Single(call[t])' /\ (hits[t] \cup steady[t] \subseteq Index)'
    BY <1>2, <2>1, SingleCalls DEF IInv, Good, Loops, In
  <2>3. History(t)'
    BY <1>2, <2>1 DEF History, Holds
  <2>4. Scanned(t)' /\ Answered(t)'
    BY <2>1 DEF Scanned, Answered, In
  <2> QED
    BY <2>2, <2>3, <2>4 DEF Good
<1> QED
  BY <1>3, <1>4, <1>5 DEF IInv

------------------------------------------------------------------------------
\* A thread goes on inside of its call: what it has to show
LEMMA Inside ==
  ASSUME IInv, NEW t \in Thread, pc[t] # "out", pc'[t] # "out", Domains',
         UNCHANGED <<mem, call, result, seen>>, steady'[t] \subseteq {k \in Index : Holds(t, k)},
         \A u \in Thread : u # t =>
           /\ pc'[u] = pc[u] /\ i'[u] = i[u] /\ n'[u] = n[u] /\ hits'[u] = hits[u]
           /\ steady'[u] = steady[u],
         Loops(t)', hits'[t] \subseteq Index, Scanned(t)'
  PROVE  IInv'
<1>1. ASSUME NEW u \in Thread, u # t PROVE Good(u)'
  BY <1>1, Others
<1>2. Good(t)'
  <2>1. Single(call[t])'
    BY DEF IInv, Good, Single
  <2>2. \A k \in Index : (k \in steady'[t] => Holds(t, k)') /\ (Holds(t, k)' => k \in seen'[t])
    BY DEF IInv, Good, History, Holds, HoldsIn
  <2>3. History(t)'
    BY <2>2 DEF History
  <2>4. Answered(t)'
    BY DEF Answered
  <2> QED
    BY <2>1, <2>3, <2>4 DEF Good
<1> QED
  BY <1>1, <1>2 DEF IInv

\* The call returns, and answers nothing but the truth.
LEMMA ReturnStep ==
  ASSUME IInv, NEW t \in Thread, NEW value, Return(t, value), Truthful(t, value)
  PROVE  IInv'
<1>1. /\ pc' = [pc EXCEPT ![t] = "out"] /\ result' = [result EXCEPT ![t] = value]
      /\ i' = [i EXCEPT ![t] = 0] /\ n' = [n EXCEPT ![t] = 0]
      /\ UNCHANGED <<mem, call, hits, seen, steady>>
  BY DEF Return
<1>2. Domains'
  BY <1>1 DEF IInv, Domains
<1>3. ASSUME NEW u \in Thread, u # t PROVE Good(u)'
  BY <1>1, <1>3, Others DEF IInv, Domains
<1>4. Good(t)'
  <2>1. pc'[t] = "out" /\ result'[t] = value /\ i'[t] = 0 /\ n'[t] = 0
    BY <1>1 DEF IInv, Domains
  <2>2. Loops(t)' /\ Single(call[t])' /\ (hits[t] \cup steady[t] \subseteq Index)' /\ History(t)' /\ Scanned(t)'
    BY <1>1, <2>1, ParameterAssumption DEF IInv, Good, Loops, Single, History, Scanned, In
  <2>3. \A k : Unmasked(t, k)' <=> Unmasked(t, k)
    BY <1>1 DEF Unmasked
  <2>4. Looked(t)' = Looked(t)
    BY <2>3 DEF Looked
  <2>5. Truthful(t, value)'
    BY <1>1, <2>4 DEF Truthful
  <2>6. Answered(t)'
    BY <2>1, <2>5 DEF Answered
  <2> QED
    BY <2>2, <2>6 DEF Good
<1> QED
  BY <1>2, <1>3, <1>4 DEF IInv

\* Lock: where a scan starts nothing has been looked at.
LEMMA LockStep ==
  ASSUME IInv, NEW t \in Thread, Lock(t)
  PROVE  IInv'
<1> DEFINE next == IF call[t].kind = "test_some" THEN "collect" ELSE "poll"
<1>1. /\ pc[t] = "lock" /\ pc' = [pc EXCEPT ![t] = next]
      /\ UNCHANGED <<mem, call, i, n, hits, result, seen, steady>>
  BY DEF Lock
<1>2. /\ pc'[t] = next /\ \A u \in Thread : u # t => pc'[u] = pc[u]
  BY <1>1 DEF IInv, Domains
<1>3. i[t] = 0 /\ n[t] = 0 /\ hits[t] = {} /\ N \in Nat \ {0}
  BY <1>1, ParameterAssumption DEF IInv, Good, Loops
<1>4. Domains'
  BY <1>1 DEF IInv, Domains
<1>5. Loops(t)'
  BY <1>1, <1>2, <1>3 DEF Loops, In
<1>6. Scanned(t)'
  BY <1>1, <1>2, <1>3 DEF Scanned, In, Index
<1>7. steady'[t] \subseteq {k \in Index : Holds(t, k)}
  BY <1>1 DEF IInv, Good, History, Domains
<1> QED
  BY <1>1, <1>2, <1>3, <1>4, <1>5, <1>6, <1>7, Inside

\* Found: what holds at that moment is what must not be missed.
LEMMA FoundStep ==
  ASSUME IInv, NEW t \in Thread, pc[t] = "poll", NEW next, Found(t, next),
         (next = "reread" /\ call[t].kind = "signal")
         \/ (next = "collect" /\ call[t].kind = "wait_some")
  PROVE  IInv'
<1>1. /\ pc' = [pc EXCEPT ![t] = next] /\ i' = [i EXCEPT ![t] = 0]
      /\ steady' = [steady EXCEPT ![t] = {k \in Index : Holds(t, k)}]
      /\ UNCHANGED <<mem, call, n, hits, result, mutex, seen>>
  BY DEF Found, FirstToCollect
<1>2. /\ pc'[t] = next /\ i'[t] = 0 /\ steady'[t] = {k \in Index : Holds(t, k)}
      /\ \A u \in Thread : u # t => pc'[u] = pc[u] /\ i'[u] = i[u] /\ steady'[u] = steady[u]
  BY <1>1 DEF IInv, Domains
<1>3. hits[t] = {} /\ n[t] \in Nat /\ N \in Nat \ {0}
  BY ParameterAssumption DEF IInv, Good, Loops
<1>4. Domains'
  BY <1>1 DEF IInv, Domains
<1>5. Loops(t)'
  BY <1>1, <1>2, <1>3 DEF Loops, In
<1>6. Scanned(t)'
  BY <1>1, <1>2, <1>3 DEF Scanned, In, Index
<1> QED
  BY <1>1, <1>2, <1>3, <1>4, <1>5, <1>6, Inside

\* A look that succeeds: the condition has been seen to hold
LEMMA HitSeen ==
  ASSUME IInv, NEW t \in Thread, pc[t] # "out", NEW k \in Index, Hit(t, k)
  PROVE  k \in Looked(t) \cap seen[t]
BY DEF IInv, Good, History, Hit, Looked

\* wait_until, and the first half of signal_wait_until
LEMMA WaitStep ==
  ASSUME IInv, NEW t \in Thread, wait_until(t)
  PROVE  IInv'
<1>1. PICK k \in Index : /\ Hit(t, k)
                         /\ \/ call[t].kind = "wait" /\ Return(t, k)
                            \/ call[t].kind = "signal" /\ Found(t, "reread")
  BY DEF wait_until
<1>2. pc[t] = "poll"
  BY DEF wait_until, In
<1>3. CASE call[t].kind = "wait" /\ Return(t, k)
  <2>1. Truthful(t, k)
    BY <1>1, <1>2, <1>3, HitSeen DEF Truthful
  <2> QED
    BY <1>3, <2>1, ReturnStep
<1>4. CASE call[t].kind = "signal" /\ Found(t, "reread")
  BY <1>2, <1>4, FoundStep
<1> QED
  BY <1>1, <1>3, <1>4

\* signal_wait_until reads the signal again: what holds all along still holds.
LEMMA RereadStep ==
  ASSUME IInv, NEW t \in Thread, reread(t)
  PROVE  IInv'
<1>1. PICK k \in Index : Unmasked(t, k) /\ Return(t, mem[k])
  BY DEF reread
<1>2. pc[t] = "reread" /\ call[t].kind = "signal"
  BY DEF reread, In
<1>3. Truthful(t, mem[k])
  <2>1. ASSUME NEW j \in Looked(t) \cap steady[t]
        PROVE  Compare(call[t].cmp, mem[k], call[t].values[j])
    <3>1. j = k
      BY <1>1, <1>2 DEF IInv, Good, Single, Looked, Unmasked
    <3>2. Holds(t, j)
      BY <1>2 DEF IInv, Good, History, Looked
    <3> QED
      BY <3>1, <3>2 DEF Holds, HoldsIn
  <2> QED
    BY <1>2, <2>1 DEF Truthful
<1> QED
  BY <1>1, <1>3, ReturnStep

\* test, of the one variable it looks at
LEMMA TestStep ==
  ASSUME IInv, NEW t \in Thread, test(t)
  PROVE  IInv'
<1> DEFINE answer == IF \E k \in Index : Hit(t, k) THEN 1 ELSE 0
<1>1. pc[t] = "poll" /\ call[t].kind = "test" /\ Return(t, answer)
  BY DEF test, In
<1>2. ASSUME answer = 1 PROVE Looked(t) \subseteq seen[t]
  <2>1. PICK k \in Index : Hit(t, k)
    BY <1>2
  <2>2. k \in Looked(t) \cap seen[t]
    BY <1>1, <2>1, HitSeen
  <2>3. Looked(t) \subseteq {k}
    BY <1>1, <2>2 DEF IInv, Good, Single, Looked, Unmasked
  <2> QED
    BY <2>2, <2>3
<1>3. ASSUME answer = 0 PROVE Looked(t) \cap steady[t] = {}
  <2>1. \A k \in Index : ~Hit(t, k)
    BY <1>3
  <2>2. ASSUME NEW k \in Looked(t) \cap steady[t] PROVE FALSE
    BY <1>1, <2>1 DEF IInv, Good, History, Hit, Looked
  <2> QED
    BY <2>2
<1>4. Truthful(t, answer)
  BY <1>1, <1>2, <1>3 DEF Truthful
<1> QED
  BY <1>1, <1>4, ReturnStep

\* The loop goes on with element k.
LEMMA Continued ==
  ASSUME IInv, NEW t \in Thread, pc[t] \in {"poll", "collect"}, NEW k \in 0..N, Continue(t, k),
         DOMAIN n' = Thread, DOMAIN hits' = Thread, n'[t] \in Nat, hits'[t] \subseteq Index,
         \A u \in Thread : u # t => n'[u] = n[u] /\ hits'[u] = hits[u],
         pc[t] = "poll" => hits'[t] = {},
         In(t, "poll", {"wait_any", "wait_some"}) => k < N,
         i'[t] = k => Scanned(t)'
  PROVE  IInv'
<1>1. i' = [i EXCEPT ![t] = k] /\ UNCHANGED <<mem, pc, call, result, mutex, seen, steady>>
  BY DEF Continue
<1>2. i'[t] = k /\ \A u \in Thread : u # t => i'[u] = i[u]
  BY <1>1 DEF IInv, Domains
<1>3. Domains'
  BY <1>1 DEF IInv, Domains
<1>4. Loops(t)'
  BY <1>1, <1>2, ParameterAssumption DEF IInv, Good, Loops, In
<1>5. steady'[t] \subseteq {j \in Index : Holds(t, j)}
  BY <1>1 DEF IInv, Good, History, Domains
<1> QED
  BY <1>1, <1>2, <1>3, <1>4, <1>5, Inside

\* wait_until_any, and the first loop of wait_until_some
LEMMA AnyStep ==
  ASSUME IInv, NEW t \in Thread, wait_until_any(t)
  PROVE  IInv'
<1>1. pc[t] = "poll" /\ call[t].kind \in {"wait_any", "wait_some"} /\ i[t] \in Index
  BY ParameterAssumption DEF wait_until_any, In, IInv, Good, Loops, Index
<1>2. CASE Hit(t, i[t]) /\ call[t].kind = "wait_any" /\ Return(t, i[t])
  <2>1. Truthful(t, i[t])
    BY <1>1, <1>2, HitSeen DEF Truthful
  <2> QED
    BY <1>2, <2>1, ReturnStep
<1>3. CASE Hit(t, i[t]) /\ call[t].kind = "wait_some" /\ Found(t, "collect")
  BY <1>1, <1>3, FoundStep
<1>4. CASE Continue(t, Around(i[t] + 1)) /\ UNCHANGED <<n, hits>>
  <2>1. Around(i[t] + 1) \in 0..N /\ Around(i[t] + 1) < N
    BY <1>1, ParameterAssumption DEF Around, Index
  <2>2. Scanned(t)'
    BY <1>1, <1>4 DEF Continue, Scanned, In
  <2>3. n[t] \in Nat /\ hits[t] = {}
    BY <1>1 DEF IInv, Good, Loops
  <2> QED
    BY <1>1, <1>4, <2>1, <2>2, <2>3, Continued DEF IInv, Domains
<1> QED
  BY <1>2, <1>3, <1>4 DEF wait_until_any

\* test_some, and the second loop of wait_until_some: one more element has been looked at
LEMMA CollectStep ==
  ASSUME IInv, NEW t \in Thread, test_some(t)
  PROVE  IInv'
<1>1. pc[t] = "collect" /\ call[t].kind \in {"wait_some", "test_some"} /\ i[t] \in 0..N /\ N \in Nat
  BY ParameterAssumption DEF test_some, In, IInv, Good, Loops
<1>2. /\ \A k \in Index : /\ k < i[t] /\ Unmasked(t, k) /\ k \in steady[t] => k \in hits[t]
                          /\ k \in hits[t] => Unmasked(t, k) /\ k \in seen[t]
      /\ hits[t] \subseteq Index /\ n[t] \in Nat
  BY <1>1 DEF IInv, Good, Scanned, Loops
<1>3. CASE /\ i[t] < N
           /\ hits' = [hits EXCEPT ![t] = IF Hit(t, i[t]) THEN @ \cup {i[t]} ELSE @]
           /\ Continue(t, i[t] + 1) /\ UNCHANGED n
  <2>1. i[t] \in Index
    BY <1>1, <1>3 DEF Index
  <2>2. /\ hits'[t] = IF Hit(t, i[t]) THEN hits[t] \cup {i[t]} ELSE hits[t]
        /\ \A u \in Thread : u # t => hits'[u] = hits[u]
    BY <1>3 DEF IInv, Domains
  <2>3. i[t] \in steady[t] /\ Unmasked(t, i[t]) => Hit(t, i[t])
    BY <1>1, <2>1 DEF IInv, Good, History, Hit
  <2>4. Hit(t, i[t]) => Unmasked(t, i[t]) /\ i[t] \in seen[t]
    BY <1>1, <2>1, HitSeen DEF Hit, Looked
  <2>5. ASSUME i'[t] = i[t] + 1 PROVE Scanned(t)'
    <3>1. /\ UNCHANGED <<pc, call, seen, steady>> /\ \A k : Unmasked(t, k)' <=> Unmasked(t, k)
      BY <1>3 DEF Continue, Unmasked
    <3>2. ASSUME NEW k \in Index
          PROVE  /\ k < i[t] + 1 /\ Unmasked(t, k) /\ k \in steady[t] => k \in hits'[t]
                 /\ k \in hits'[t] => Unmasked(t, k) /\ k \in seen[t]
      <4>1. k < i[t] + 1 => k < i[t] \/ k = i[t]
        BY <1>1 DEF Index
      <4> QED
        BY <1>2, <2>2, <2>3, <2>4, <4>1
    <3> QED
      BY <1>1, <2>5, <3>1, <3>2 DEF Scanned, In
  <2> QED
    BY <1>1, <1>2, <1>3, <2>1, <2>2, <2>5, Continued DEF IInv, Domains, In
<1>4. CASE i[t] = N /\ Return(t, Cardinality(hits[t]))
  <2>1. \A k \in Index : k < i[t]
    BY <1>1, <1>4 DEF Index
  <2>2. Truthful(t, Cardinality(hits[t]))
    BY <1>1, <1>2, <2>1 DEF Truthful, Looked
  <2> QED
    BY <1>4, <2>2, ReturnStep
<1> QED
  BY <1>3, <1>4 DEF test_some

\* wait_until_all, of which nothing is claimed: see AllWaitedFor
LEMMA AllStep ==
  ASSUME IInv, NEW t \in Thread, wait_until_all(t)
  PROVE  IInv'
<1>1. /\ pc[t] = "poll" /\ call[t].kind = "wait_all" /\ i[t] \in 0..N /\ N \in Nat
      /\ n[t] \in Nat /\ hits[t] = {}
  BY ParameterAssumption DEF wait_until_all, In, IInv, Good, Loops
<1>2. ASSUME UNCHANGED <<pc, call>> PROVE Scanned(t)'
  BY <1>1, <1>2 DEF Scanned, In
<1>3. CASE Count(t)
  <2>1. n'[t] \in Nat /\ \A u \in Thread : u # t => n'[u] = n[u]
    BY <1>1, <1>3 DEF Count, IInv, Domains
  <2>2. Scanned(t)'
    BY <1>2, <1>3 DEF Count, Continue
  <2>3. i[t] + 1 \in 0..N
    BY <1>1, <1>3 DEF Count
  <2> QED
    BY <1>1, <1>3, <2>1, <2>2, <2>3, Continued DEF Count, IInv, Domains, In
<1>4. CASE Continue(t, 0) /\ UNCHANGED <<n, hits>>
  <2>1. Scanned(t)'
    BY <1>2, <1>4 DEF Continue
  <2> QED
    BY <1>1, <1>4, <2>1, Continued DEF IInv, Domains, In
<1>5. CASE Return(t, 0)
  <2>1. Truthful(t, 0)
    BY <1>1 DEF Truthful
  <2> QED
    BY <1>5, <2>1, ReturnStep
<1> QED
  BY <1>3, <1>4, <1>5 DEF wait_until_all

\* test_any: up to the index, nothing has held all along
LEMMA TestAnyStep ==
  ASSUME IInv, NEW t \in Thread, test_any(t)
  PROVE  IInv'
<1>1. /\ pc[t] = "poll" /\ call[t].kind = "test_any" /\ i[t] \in 0..N /\ N \in Nat
      /\ n[t] \in Nat /\ hits[t] = {}
  BY ParameterAssumption DEF test_any, In, IInv, Good, Loops
<1>2. \A k \in Index : k < i[t] /\ Unmasked(t, k) => k \notin steady[t]
  BY <1>1 DEF IInv, Good, Scanned, In
<1>3. CASE i[t] < N /\ Hit(t, i[t]) /\ Return(t, i[t])
  <2>1. i[t] \in Looked(t) \cap seen[t]
    BY <1>1, <1>3, HitSeen DEF Index
  <2>2. Truthful(t, i[t])
    BY <1>1, <2>1 DEF Truthful
  <2> QED
    BY <1>3, <2>2, ReturnStep
<1>4. CASE i[t] < N /\ ~Hit(t, i[t]) /\ Continue(t, i[t] + 1) /\ UNCHANGED <<n, hits>>
  <2>1. i[t] \in Index /\ i[t] + 1 \in 0..N
    BY <1>1, <1>4 DEF Index
  <2>2. Unmasked(t, i[t]) => i[t] \notin steady[t]
    BY <1>1, <1>4, <2>1 DEF IInv, Good, History, Hit
  <2>3. ASSUME i'[t] = i[t] + 1 PROVE Scanned(t)'
    <3>1. /\ UNCHANGED <<pc, call, seen, steady>> /\ \A k : Unmasked(t, k)' <=> Unmasked(t, k)
      BY <1>4 DEF Continue, Unmasked
    <3>2. \A k \in Index : k < i[t] + 1 => k < i[t] \/ k = i[t]
      BY <1>1 DEF Index
    <3>3. \A k \in Index : k < i[t] + 1 /\ Unmasked(t, k) => k \notin steady[t]
      BY <1>2, <2>2, <3>2
    <3> QED
      BY <1>1, <2>3, <3>1, <3>3 DEF Scanned, In
  <2> QED
    BY <1>1, <1>4, <2>1, <2>3, Continued DEF IInv, Domains, In
<1>5. CASE i[t] = N /\ Return(t, 0)
  <2>1. \A k \in Index : k < i[t]
    BY <1>1, <1>5 DEF Index
  <2>2. Looked(t) \cap steady[t] = {}
    BY <1>2, <2>1 DEF Looked
  <2>3. Truthful(t, 0)
    BY <1>1, <2>2 DEF Truthful
  <2> QED
    BY <1>5, <2>3, ReturnStep
<1> QED
  BY <1>3, <1>4, <1>5 DEF test_any

\* test_all: the count is behind the index exactly if a look has failed
LEMMA TestAllStep ==
  ASSUME IInv, NEW t \in Thread, test_all(t)
  PROVE  IInv'
<1>1. /\ pc[t] = "poll" /\ call[t].kind = "test_all" /\ i[t] \in 0..N /\ N \in Nat
      /\ n[t] \in Nat /\ hits[t] = {}
  BY ParameterAssumption DEF test_all, In, IInv, Good, Loops
<1>2. /\ n[t] <= i[t]
      /\ n[t] = i[t] => \A k \in Index : k < i[t] => k \in seen[t]
      /\ n[t] < i[t] => \E k \in Index : ~ (Unmasked(t, k) /\ k \in steady[t])
  BY <1>1 DEF IInv, Good, Scanned, In
<1>3. CASE Count(t)
  <2>1. i[t] \in Index /\ i[t] + 1 \in 0..N
    BY <1>1, <1>3 DEF Count, Index
  <2>2. /\ n'[t] = IF Hit(t, i[t]) THEN n[t] + 1 ELSE n[t]
        /\ \A u \in Thread : u # t => n'[u] = n[u]
    BY <1>3 DEF Count, IInv, Domains
  <2>3. i[t] \in steady[t] /\ Unmasked(t, i[t]) => Hit(t, i[t])
    BY <1>1, <2>1 DEF IInv, Good, History, Hit
  <2>4. Hit(t, i[t]) => i[t] \in seen[t]
    BY <1>1, <2>1, HitSeen
  <2>5. ASSUME i'[t] = i[t] + 1 PROVE Scanned(t)'
    <3>1. /\ UNCHANGED <<pc, call, seen, steady>> /\ \A k : Unmasked(t, k)' <=> Unmasked(t, k)
      BY <1>3 DEF Count, Continue, Unmasked
    <3>2. \A k \in Index : k < i[t] + 1 => k < i[t] \/ k = i[t]
      BY <1>1 DEF Index
    <3>3. /\ n'[t] <= i[t] + 1
          /\ n'[t] = i[t] + 1 => \A k \in Index : k < i[t] + 1 => k \in seen[t]
          /\ n'[t] < i[t] + 1 => \E k \in Index : ~ (Unmasked(t, k) /\ k \in steady[t])
      <4>1. CASE Hit(t, i[t])
        BY <1>1, <1>2, <2>2, <2>4, <3>2, <4>1
      <4>2. CASE ~Hit(t, i[t])
        BY <1>1, <1>2, <2>1, <2>2, <2>3, <3>2, <4>2
      <4> QED
        BY <4>1, <4>2
    <3> QED
      BY <1>1, <2>5, <3>1, <3>3 DEF Scanned, In
  <2>6. n'[t] \in Nat
    BY <1>1, <2>2
  <2> QED
    BY <1>1, <1>3, <2>1, <2>2, <2>5, <2>6, Continued DEF Count, IInv, Domains, In
<1>4. CASE i[t] = N /\ Return(t, AllOf(n[t]))
  <2>1. \A k \in Index : k < i[t]
    BY <1>1, <1>4 DEF Index
  <2>2. AllOf(n[t]) = 1 => Index \subseteq seen[t]
    BY <1>1, <1>2, <1>4, <2>1 DEF AllOf
  <2>3. AllOf(n[t]) = 0 /\ Looked(t) = Index => ~ (Index \subseteq steady[t])
    BY <1>1, <1>2, <1>4 DEF AllOf, Looked
  <2>4. Truthful(t, AllOf(n[t]))
    BY <1>1, <2>2, <2>3 DEF Truthful
  <2> QED
    BY <1>4, <2>4, ReturnStep
<1> QED
  BY <1>3, <1>4 DEF test_all

------------------------------------------------------------------------------
\* Every step keeps the invariant.
LEMMA NextIInv == IInv /\ [Next]_vars => IInv'
<1> SUFFICES ASSUME IInv, [Next]_vars PROVE IInv'
  OBVIOUS
<1>1. CASE \E t \in Thread : Begin(t)
  BY <1>1, BeginStep
<1>2. CASE \E t \in Thread : Advance(t)
  BY <1>2, LockStep, WaitStep, RereadStep, AnyStep, AllStep, CollectStep, TestAllStep,
     TestAnyStep, TestStep DEF Advance
<1>3. CASE \E k \in Index, value \in Values : Store(k, value)
  BY <1>3, StoreStep
<1>4. CASE UNCHANGED vars
  <2>1. Domains'
    BY <1>4 DEF vars, IInv, Domains
  <2>2. \A t \in Thread : Good(t)'
    BY <1>4, Others DEF vars
  <2> QED
    BY <2>1, <2>2 DEF IInv
<1> QED
  BY <1>1, <1>2, <1>3, <1>4 DEF Next

\* The invariant holds, of any number of threads and variables, whatever their width and
\* whatever is stored to them meanwhile.
THEOREM Invariance == Spec => []IInv
BY InitIInv, NextIInv, PTL DEF Spec

\* What wait_until and wait_until_any return has held during the call, and a signal that
\* does not change any more is returned with a value that satisfies the condition
\* (shmemc/ucx/waituntil.c, api/waituntil.c).
THEOREM Explained == Spec => []WaitsExplained
<1>1. IInv => WaitsExplained
  BY Implied
<1> QED
  BY <1>1, Invariance, PTL

\* The scans of wait_until_some and test_some miss nothing that goes on to hold, and invent
\* nothing (waituntil.c:162-195, test.c:111-135).
THEOREM Complete == Spec => []NoneMissed
<1>1. IInv => NoneMissed
  BY Implied
<1> QED
  BY <1>1, Invariance, PTL

\* A yes of the tests was true of each variable they name at some time in the call, and a
\* no was not false all along (test.c).
THEOREM Answers == Spec => []TestsAnswer
<1>1. IInv => TestsAnswer
  BY Implied
<1> QED
  BY <1>1, Invariance, PTL

=============================================================================
