-------------------------------- MODULE Waits --------------------------------
(***************************************************************************)
(* Waiting for and testing symmetric variables: shmemc/ucx/waituntil.c and *)
(* test.c, and the calls of api/ that reach them.  One PE; its variables   *)
(* are stored to by others at any time, between any two looks of a scan.   *)
(*                                                                         *)
(* The calls on several variables run inside SHMEMT_MUTEX_PROTECT, which   *)
(* with SHMEM_THREAD_MULTIPLE takes the library's one mutex.               *)
(***************************************************************************)
EXTENDS Integers, FiniteSets

CONSTANTS
  Thread, NoThread,
  Multiple,    \* the thread level is SHMEM_THREAD_MULTIPLE
  N,           \* nelems
  Width,       \* the width of the variables, in bits
  Values,      \* the words the variables and the comparison values may be
  Cmps,        \* the SHMEM_CMP_* the program uses
  Statuses     \* the status arrays it passes, as the set of what they exclude

Index == 0..(N - 1)

ASSUME ParameterAssumption ==
  /\ NoThread \notin Thread
  /\ Multiple \in BOOLEAN
  /\ N \in Nat \ {0} /\ Width \in Nat \ {0}
  /\ Values \subseteq 0..(2^Width - 1)
  /\ Cmps \subseteq {"eq", "ne", "gt", "le", "lt", "ge"}
  /\ Statuses \subseteq SUBSET Index

\* int##_size##_t: the API casts to it whatever the type of the variable is
Signed(word) == IF word < 2^(Width - 1) THEN word ELSE word - 2^Width

\* COMMS_CTX_TEST_SIZE
Compare(cmp, word, value) ==
  LET a == Signed(word)  b == Signed(value)
  IN  [eq |-> a = b, ne |-> a # b, gt |-> a > b,
       le |-> a <= b, lt |-> a < b, ge |-> a >= b][cmp]

------------------------------------------------------------------------------
\* The calls: what a program passes, one operator per entry point.  The call on
\* a single variable is seen as one on the array that excludes all the others.

Call(kind, status, cmp, values) ==
  [kind |-> kind, status |-> status, cmp |-> cmp, values |-> values]
One(kind, var, cmp, value) ==
  Call(kind, Index \ {var}, cmp, [k \in Index |-> value])
Same(kind, status, cmp, value) ==
  Call(kind, status, cmp, [k \in Index |-> value])

shmem_wait_until(var, cmp, value) == One("wait", var, cmp, value)
shmem_wait(var, value) == shmem_wait_until(var, "ne", value)
shmem_signal_wait_until(var, cmp, value) == One("signal", var, cmp, value)
shmem_test(var, cmp, value) == One("test", var, cmp, value)

shmem_wait_until_all(status, cmp, value) == Same("wait_all", status, cmp, value)
shmem_wait_until_any(status, cmp, value) == Same("wait_any", status, cmp, value)
shmem_wait_until_some(status, cmp, value) == Same("wait_some", status, cmp, value)
shmem_test_all(status, cmp, value) == Same("test_all", status, cmp, value)
shmem_test_any(status, cmp, value) == Same("test_any", status, cmp, value)
shmem_test_some(status, cmp, value) == Same("test_some", status, cmp, value)

shmem_wait_until_all_vector(status, cmp, vs) == Call("wait_all", status, cmp, vs)
shmem_wait_until_any_vector(status, cmp, vs) == Call("wait_any", status, cmp, vs)
shmem_wait_until_some_vector(status, cmp, vs) == Call("wait_some", status, cmp, vs)
shmem_test_all_vector(status, cmp, vs) == Call("test_all", status, cmp, vs)
shmem_test_any_vector(status, cmp, vs) == Call("test_any", status, cmp, vs)
shmem_test_some_vector(status, cmp, vs) == Call("test_some", status, cmp, vs)

CallsOnOne ==
  UNION
    {{shmem_wait_until(k, c, v), shmem_signal_wait_until(k, c, v), shmem_test(k, c, v),
      shmem_wait(k, v)} :
       k \in Index, c \in Cmps, v \in Values}
CallsOnMany ==
  UNION
    {{shmem_wait_until_all(s, c, v), shmem_wait_until_any(s, c, v),
      shmem_wait_until_some(s, c, v), shmem_test_all(s, c, v),
      shmem_test_any(s, c, v), shmem_test_some(s, c, v)} :
       s \in Statuses, c \in Cmps, v \in Values}
CallsWithVector ==
  UNION
    {{shmem_wait_until_all_vector(s, c, vs), shmem_wait_until_any_vector(s, c, vs),
      shmem_wait_until_some_vector(s, c, vs), shmem_test_all_vector(s, c, vs),
      shmem_test_any_vector(s, c, vs), shmem_test_some_vector(s, c, vs)} :
       s \in Statuses, c \in Cmps, vs \in [Index -> Values]}
Calls == CallsOnOne \cup CallsOnMany \cup CallsWithVector

NoCall == [kind |-> "none"]     \* before the first

\* what runs inside SHMEMT_MUTEX_PROTECT, not SHMEMT_MUTEX_NOPROTECT
Protected(kind) == kind \notin {"wait", "signal", "test"}

\* ... and comes to the unlock at its end: of the functions of that macro, the
\* ones that return nothing.  The others return from inside it.
Unlocks(kind) == kind = "wait_all"

------------------------------------------------------------------------------
VARIABLES
  mem,      \* the variables
  pc,       \* where each thread is
  call,     \* the call it is in, or made last
  i,        \* the loop's index
  n,        \* how many looks of wait_until_all and test_all have succeeded
  hits,     \* idxs[], as a set
  result,   \* what its last call returned
  mutex,    \* the thread that has comms_mutex
  seen,     \* history: the variables whose condition held at some time in the call
  steady    \* history: those whose condition has held all the time since it
            \* began, or since its first loop found one

vars == <<mem, pc, call, i, n, hits, result, mutex, seen, steady>>

\* A count never goes past the looks of two passes.
TypeOK ==
  /\ mem \in [Index -> Values]
  /\ pc \in [Thread -> {"out", "lock", "poll", "collect", "reread"}]
  /\ call \in [Thread -> Calls \cup {NoCall}]
  /\ i \in [Thread -> 0..N]
  /\ n \in [Thread -> 0..(2 * N - 1)]
  /\ hits \in [Thread -> SUBSET Index]
  /\ result \in [Thread -> 0..N \cup Values]
  /\ mutex \in Thread \cup {NoThread}
  /\ seen \in [Thread -> SUBSET Index]
  /\ steady \in [Thread -> SUBSET Index]

HoldsIn(m, c, k) == Compare(c.cmp, m[k], c.values[k])
Holds(t, k) == HoldsIn(mem, call[t], k)

\* status[k] == 0, or no status at all
MaskIgnored(t, k) == TRUE                         \* slip: status is not looked at
Unmasked(t, k) == k \notin call[t].status

\* what a look at element k finds
Hit(t, k) == Unmasked(t, k) /\ Holds(t, k)

Init ==
  /\ mem \in [Index -> Values]
  /\ pc = [t \in Thread |-> "out"]
  /\ call = [t \in Thread |-> NoCall]
  /\ i = [t \in Thread |-> 0]
  /\ n = [t \in Thread |-> 0]
  /\ hits = [t \in Thread |-> {}]
  /\ result = [t \in Thread |-> 0]
  /\ mutex = NoThread
  /\ seen = [t \in Thread |-> {}]
  /\ steady = [t \in Thread |-> {}]

\* Another PE stores to a variable.
Store(k, value) ==
  /\ mem[k] # value
  /\ mem' = [mem EXCEPT ![k] = value]
  /\ LET now(t) == {j \in Index : HoldsIn(mem', call[t], j)}
     IN  /\ seen' = [t \in Thread |-> IF pc[t] = "out" THEN seen[t] ELSE seen[t] \cup now(t)]
         /\ steady' = [t \in Thread |-> IF pc[t] = "out" THEN steady[t] ELSE steady[t] \cap now(t)]
  /\ UNCHANGED <<pc, call, i, n, hits, result, mutex>>

\* A thread of the program makes a call.
Begin(t) ==
  /\ pc[t] = "out"
  /\ pc' = [pc EXCEPT ![t] = "lock"]
  /\ \E c \in Calls :
       /\ call' = [call EXCEPT ![t] = c]
       /\ LET now == {k \in Index : HoldsIn(mem, c, k)}
          IN  seen' = [seen EXCEPT ![t] = now] /\ steady' = [steady EXCEPT ![t] = now]
  /\ hits' = [hits EXCEPT ![t] = {}]
  /\ result' = [result EXCEPT ![t] = 0]
  /\ UNCHANGED <<mem, i, n, mutex>>

\* SHMEMT_MUTEX_PROTECT and NOPROTECT, up to the call inside
Lock(t) ==
  /\ pc[t] = "lock"
  /\ \/ /\ Multiple /\ Protected(call[t].kind)
        /\ mutex = NoThread /\ mutex' = t
     \/ /\ ~ (Multiple /\ Protected(call[t].kind))
        /\ UNCHANGED mutex
  /\ pc' = [pc EXCEPT ![t] = IF call[t].kind = "test_some" THEN "collect" ELSE "poll"]
  /\ UNCHANGED <<mem, call, i, n, hits, result, seen, steady>>

\* The call returns, and the mutex is given back if its unlock is reached.
Return(t, value) ==
  /\ pc' = [pc EXCEPT ![t] = "out"]
  /\ result' = [result EXCEPT ![t] = value]
  /\ mutex' = IF mutex = t /\ Unlocks(call[t].kind) THEN NoThread ELSE mutex
  /\ i' = [i EXCEPT ![t] = 0]
  /\ n' = [n EXCEPT ![t] = 0]
  /\ UNCHANGED <<mem, call, hits, seen, steady>>

\* where wait_until_some looks for all of them, after the first
AfterFound(k) == k + 1                            \* slip: past what was found
FirstToCollect(k) == 0

\* a scan that starts again
OnceOnly(k) == IF k = N THEN N - 1 ELSE k         \* slip: stays with the last
Around(k) == IF k = N THEN 0 ELSE k

In(t, at, kinds) == pc[t] = at /\ call[t].kind \in kinds

\* The first loop of a call has found one: on to what the call does with it.
Found(t, next) ==
  /\ pc' = [pc EXCEPT ![t] = next]
  /\ i' = [i EXCEPT ![t] = FirstToCollect(@)]
  /\ steady' = [steady EXCEPT ![t] = {k \in Index : Holds(t, k)}]
  /\ UNCHANGED <<mem, call, n, hits, result, mutex, seen>>

\* The loop goes on with element k.
Continue(t, k) ==
  /\ i' = [i EXCEPT ![t] = k]
  /\ UNCHANGED <<mem, pc, call, result, mutex, seen, steady>>

\* a look that succeeds; one that does not changes nothing
wait_until(t) ==
  /\ In(t, "poll", {"wait", "signal"})
  /\ \E k \in Index :
       /\ Hit(t, k)
       /\ \/ call[t].kind = "wait" /\ Return(t, k)
          \/ call[t].kind = "signal" /\ Found(t, "reread")

\* shmem_signal_wait_until reads the signal again
reread(t) ==
  /\ In(t, "reread", {"signal"})
  /\ \E k \in Index : Unmasked(t, k) /\ Return(t, mem[k])

\* one look of a scan that starts again until one succeeds; wait_until_some
\* begins with it too
wait_until_any(t) ==
  /\ In(t, "poll", {"wait_any", "wait_some"})
  /\ \/ /\ Hit(t, i[t])
        /\ \/ call[t].kind = "wait_any" /\ Return(t, i[t])
           \/ call[t].kind = "wait_some" /\ Found(t, "collect")
     \/ /\ ~ Hit(t, i[t])
        /\ Continue(t, Around(i[t] + 1)) /\ UNCHANGED <<n, hits>>

\* test_some, and "see which ones match" of wait_until_some
test_some(t) ==
  /\ In(t, "collect", {"wait_some", "test_some"})
  /\ \/ /\ i[t] < N
        /\ hits' = [hits EXCEPT ![t] = IF Hit(t, i[t]) THEN @ \cup {i[t]} ELSE @]
        /\ Continue(t, i[t] + 1) /\ UNCHANGED n
     \/ i[t] = N /\ Return(t, Cardinality(hits[t]))

\* the loop that wait_until_all repeats and test_all runs once
Count(t) ==
  /\ i[t] < N
  /\ n' = [n EXCEPT ![t] = IF Hit(t, i[t]) THEN @ + 1 ELSE @]
  /\ Continue(t, i[t] + 1) /\ UNCHANGED hits

Enough(count) == count >= N

wait_until_all(t) ==
  /\ In(t, "poll", {"wait_all"})
  /\ \/ Count(t)
     \/ i[t] = N /\ ~ Enough(n[t]) /\ Continue(t, 0) /\ UNCHANGED <<n, hits>>
     \/ i[t] = N /\ Enough(n[t]) /\ Return(t, 0)

AnyIsAll(count) == IF count > 0 THEN 1 ELSE 0     \* slip: one is enough
AllOf(count) == IF count = N THEN 1 ELSE 0

test_all(t) ==
  /\ In(t, "poll", {"test_all"})
  /\ \/ Count(t)
     \/ i[t] = N /\ Return(t, AllOf(n[t]))

test_any(t) ==
  /\ In(t, "poll", {"test_any"})
  /\ \/ i[t] < N /\ Hit(t, i[t]) /\ Return(t, i[t])
     \/ i[t] < N /\ ~ Hit(t, i[t]) /\ Continue(t, i[t] + 1) /\ UNCHANGED <<n, hits>>
     \/ i[t] = N /\ Return(t, 0)

test(t) ==
  /\ In(t, "poll", {"test"})
  /\ Return(t, IF \E k \in Index : Hit(t, k) THEN 1 ELSE 0)

Advance(t) ==
  \/ Lock(t) \/ wait_until(t) \/ reread(t) \/ wait_until_any(t) \/ wait_until_all(t)
  \/ test_some(t) \/ test_all(t) \/ test_any(t) \/ test(t)

Next ==
  \/ \E t \in Thread : Begin(t) \/ Advance(t)
  \/ \E k \in Index, value \in Values : Store(k, value)

\* A thread in a call runs.
Spec == Init /\ [][Next]_vars /\ \A t \in Thread : WF_vars(Advance(t))

------------------------------------------------------------------------------
\* Properties, of calls that have returned.  Variables may change at any time:
\* an answer can only be about what held at some time in the call, and about
\* what held all the time.

Returned(t, kinds) == In(t, "out", kinds)
Looked(t) == {k \in Index : Unmasked(t, k)}

\* A wait for one of several variables returns one it was asked to look at and
\* whose condition has held; a wait for a signal that does not change any more
\* returns a value that satisfies the condition (waituntil.c:22-31,106-136,
\* api/waituntil.c:111-119).
WaitsExplained ==
  \A t \in Thread :
    /\ Returned(t, {"wait", "wait_any"}) => result[t] \in Looked(t) \cap seen[t]
    /\ Returned(t, {"signal"}) =>
         \A k \in Looked(t) \cap steady[t] :
           Compare(call[t].cmp, result[t], call[t].values[k])

\* The indices that wait_until_some and test_some hand out miss none whose
\* condition goes on to hold, the one the wait has found among them, and
\* invent none (waituntil.c:162-195, test.c:111-135).
NoneMissed ==
  \A t \in Thread : Returned(t, {"wait_some", "test_some"}) =>
    /\ Looked(t) \cap steady[t] \subseteq hits[t]
    /\ hits[t] \subseteq Looked(t) \cap seen[t]

\* What the tests answer of variables that change under them: a yes was true
\* of each one they name, and a no was not false all along.  (test_any answers
\* 0 for "none", and test_all never answers 1 to a program that excludes a
\* variable, because it compares with nelems all the same: test.c:71-80,176-187.)
TestsAnswer ==
  \A t \in Thread :
    /\ Returned(t, {"test"}) /\ result[t] = 1 => Looked(t) \subseteq seen[t]
    /\ Returned(t, {"test"}) /\ result[t] = 0 => Looked(t) \cap steady[t] = {}
    /\ Returned(t, {"test_any"}) =>
         result[t] \in Looked(t) \cap seen[t] \/ Looked(t) \cap steady[t] = {}
    /\ Returned(t, {"test_all"}) /\ result[t] = 1 => Index \subseteq seen[t]
    /\ Returned(t, {"test_all"}) /\ result[t] = 0 /\ Looked(t) = Index =>
         ~ (Index \subseteq steady[t])

\* A call that is polling does not miss a condition that stays true, whatever
\* the other variables do: it returns (waituntil.c:22-31,56-80,106-136).
PollingEnds ==
  \A t \in Thread :
    /\ \A k \in Index :
         []<>~ (In(t, "poll", {"wait", "signal", "wait_any", "wait_some"}) /\ Hit(t, k))
    /\ []<>~ (In(t, "poll", {"wait_all"}) /\ Looked(t) # {} /\ \A k \in Looked(t) : Hit(t, k))

\* wait_until_all returns once every variable has satisfied the condition:
\* "ivar updated by another PE, wait for that to happen" (api.h:1428).
AllWaitedFor ==
  \A t \in Thread : Returned(t, {"wait_all"}) => Looked(t) \subseteq seen[t]

\* The mutex of the library is free when nobody is in it: "requesting thread
\* support level" MULTIPLE, which shmem_init_thread says it provides (api.h:94).
MutexGivenBack == (\A t \in Thread : pc[t] = "out") => mutex = NoThread

==============================================================================
