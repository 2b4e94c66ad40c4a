-------------------------- MODULE Collectives_proof --------------------------
(***************************************************************************)
(* The collectives that go straight from every member to every other.      *)
(*                                                                         *)
(* Barriers, for every size of the active set, with and without the quiet, *)
(* and every number of barriers: the linear and the dissemination barrier  *)
(* are barriers (each step of either is a step of module Barrier or none), *)
(* and no reset of the linear one meets a signal.                          *)
(*                                                                         *)
(* Exchanges, for every active set, every size of the blocks and every     *)
(* order in which what is put may land: the algorithms of alltoall, those  *)
(* of fcollect where a member puts its block to all the others, and those  *)
(* of alltoalls on the first PEs leave every block in its place, stay in   *)
(* their buffers, leave the pSync as they found it, and nobody waits for   *)
(* what will not come.                                                     *)
(***************************************************************************)
EXTENDS FlatBarriers, Exchange, FiniteSetTheorems, SequenceTheorems, WellFoundedInduction, TLAPS


------------------------------------------------------------------------------
\* Powers of two.

\* 2^n counts the subsets of 1..n.
LEMMA Subsets ==
  ASSUME NEW n \in Nat
  PROVE  /\ IsFiniteSet(SUBSET (1..n)) /\ Cardinality(SUBSET (1..n)) = 2^n
         /\ 2^n \in Nat
<1>1. IsFiniteSet(1..n) /\ Cardinality(1..n) = n
  BY FS_Interval
<1>2. IsFiniteSet(SUBSET (1..n)) /\ Cardinality(SUBSET (1..n)) = 2^n
  BY <1>1, FS_SUBSET
<1>3. Cardinality(SUBSET (1..n)) \in Nat
  BY <1>2, FS_CardinalityType
<1> QED
  BY <1>2, <1>3

\* The distance of the loop doubles.
LEMMA Doubling ==
  ASSUME NEW n \in Nat
  PROVE  2^n \in Nat /\ 2^(n + 1) = 2^n + 2^n
<1> DEFINE A == SUBSET (1..n)
           With(a) == a \cup {n + 1}
           B == {With(a) : a \in A}
<1>1. /\ IsFiniteSet(A) /\ Cardinality(A) = 2^n /\ 2^n \in Nat
      /\ Cardinality(SUBSET (1..(n + 1))) = 2^(n + 1)
  BY Subsets, n + 1 \in Nat
<1>2. 1..(n + 1) = (1..n) \cup {n + 1} /\ n + 1 \notin 1..n
  OBVIOUS
<1>3. \A a \in A : n + 1 \notin a
  BY <1>2
<1>4. A \cap B = {}
  BY <1>3
<1>5. SUBSET (1..(n + 1)) = A \cup B
  <2>1. A \cup B \subseteq SUBSET (1..(n + 1))
    BY <1>2
  <2>2. ASSUME NEW s \in SUBSET (1..(n + 1)) PROVE s \in A \cup B
    <3>1. s \ {n + 1} \in A
      BY <1>2
    <3>2. CASE n + 1 \in s
      <4>1. s = With(s \ {n + 1})
        BY <3>2
      <4> QED
        BY <3>1, <4>1
    <3>3. CASE n + 1 \notin s
      BY <3>3, <1>2
    <3> QED
      BY <3>2, <3>3
  <2> QED
    BY <2>1, <2>2
<1>6. ExistsBijection(A, B)
  <2> DEFINE f == [a \in A |-> With(a)]
  <2>1. f \in [A -> B]
    OBVIOUS
  <2>2. \A a, b \in A : f[a] = f[b] => a = b
    <3> SUFFICES ASSUME NEW a \in A, NEW b \in A, With(a) = With(b) PROVE a = b
      OBVIOUS
    <3>1. a = With(a) \ {n + 1} /\ b = With(b) \ {n + 1}
      BY <1>3
    <3> QED
      BY <3>1
  <2>3. \A t \in B : \E a \in A : f[a] = t
    OBVIOUS
  <2>4. f \in Bijection(A, B)
    BY <2>1, <2>2, <2>3 DEF Bijection, Injection, Surjection, IsInjective
  <2> QED
    BY <2>4 DEF ExistsBijection
<1>7. IsFiniteSet(B) /\ Cardinality(B) = 2^n
  BY <1>1, <1>6, FS_Bijection
<1> DEFINE Many == 2^n
           Twice == 2^(n + 1)
<1>8. Cardinality({}) = 0
  BY FS_EmptySet
<1>9. /\ Many \in Nat /\ Cardinality(A) = Many /\ Cardinality(B) = Many
      /\ Cardinality(A \cup B) = Twice
  BY <1>1, <1>5, <1>7
<1> HIDE DEF A, B, With, Many, Twice
<1>10. Cardinality(A \cup B) = Cardinality(A) + Cardinality(B) - Cardinality(A \cap B)
  BY <1>1, <1>7, FS_Union
<1>11. Cardinality(A \cap B) = 0
  BY <1>4, <1>8
<1>12. Many \in Nat /\ Twice = Many + Many
  BY <1>9, <1>10, <1>11
<1> QED
  BY <1>12 DEF Many, Twice

\* There are at least as many subsets as singletons.
LEMMA Exceeds ==
  ASSUME NEW n \in Nat
  PROVE  n <= 2^n
<1> DEFINE f == [i \in 1..n |-> {i}]
<1>1. f \in Injection(1..n, SUBSET (1..n))
  BY DEF Injection, IsInjective
<1>2. Cardinality(1..n) <= Cardinality(SUBSET (1..n))
  <2>1. PICK S, T : S = 1..n /\ T = SUBSET (1..n)
    OBVIOUS
  <2>2. f \in Injection(S, T) /\ IsFiniteSet(T)
    BY <1>1, <2>1, Subsets
  <2> HIDE DEF f
  <2>3. Cardinality(S) <= Cardinality(T)
    BY <2>2, FS_Injection
  <2> QED
    BY <2>1, <2>3
<1>3. Cardinality(1..n) = n
  BY FS_Interval
<1> QED
  BY <1>2, <1>3, Subsets

\* Longer distances belong to later rounds.
LEMMA Monotonic ==
  ASSUME NEW m \in Nat, NEW n \in Nat, m <= n
  PROVE  2^m <= 2^n
<1>1. SUBSET (1..m) \subseteq SUBSET (1..n)
  <2>1. 1..m \subseteq 1..n
    OBVIOUS
  <2> QED
    BY <2>1
<1>2. Cardinality(SUBSET (1..m)) <= Cardinality(SUBSET (1..n))
  BY <1>1, Subsets, FS_Subset
<1> QED
  BY <1>2, Subsets

------------------------------------------------------------------------------
\* The rounds and the targets of the dissemination barrier.

LEMMA RoundFacts ==
  /\ \A r \in D!Rounds : r \in Nat /\ r < N /\ 2^r < N /\ 2^r \in Nat
  /\ \A r \in 0..N : r \notin D!Rounds => N <= 2^r
  /\ \A r \in D!Rounds, k \in 0..N : k \notin D!Rounds => r < k
<1>0. N \in Nat
  BY ParameterAssumption
<1>1. ASSUME NEW r \in D!Rounds
      PROVE  r \in Nat /\ r < N /\ 2^r < N /\ 2^r \in Nat
  <2>1. r \in Nat /\ 2^r < N
    BY <1>0 DEF D!Rounds
  <2>2. 2^r \in Nat /\ r <= 2^r
    BY <2>1, Subsets, Exceeds
  <2> QED
    BY <1>0, <2>1, <2>2
<1>2. ASSUME NEW r \in 0..N, r \notin D!Rounds
      PROVE  N <= 2^r
  <2>1. r \in Nat /\ ~(2^r < N)
    BY <1>0, <1>2 DEF D!Rounds
  <2>2. 2^r \in Nat
    BY <2>1, Subsets
  <2> QED
    BY <1>0, <2>1, <2>2
<1>3. ASSUME NEW r \in D!Rounds, NEW k \in 0..N, k \notin D!Rounds
      PROVE  r < k
  <2> SUFFICES ASSUME k <= r PROVE FALSE
    BY <1>0, <1>1
  <2>1. 2^k <= 2^r
    BY <1>0, <1>1, Monotonic
  <2>2. 2^k \in Nat /\ N <= 2^k /\ 2^r < N /\ 2^r \in Nat
    BY <1>0, <1>1, <1>2, <1>3, Subsets
  <2> QED
    BY <1>0, <2>1, <2>2
<1> QED
  BY <1>1, <1>2, <1>3

\* The remainder of a sum of less than twice the divisor.
LEMMA Remainder ==
  ASSUME NEW x \in Nat, x < N + N
  PROVE  x % N = IF x < N THEN x ELSE x - N
<1>1. N \in Nat \ {0}
  BY ParameterAssumption
<1>2. CASE x < N
  BY <1>1, <1>2
<1>3. CASE x >= N
  BY <1>1, <1>3
<1> QED
  BY <1>1, <1>2, <1>3

LEMMA TargetIs ==
  ASSUME NEW p \in D!PE, NEW r \in D!Rounds
  PROVE  /\ D!Target(p, r) \in D!PE
         /\ D!Target(p, r) = IF p + 2^r < N THEN p + 2^r ELSE (p + 2^r) - N
<1>1. N \in Nat \ {0} /\ p \in 0..(N - 1) /\ 2^r \in Nat /\ 2^r < N
  BY ParameterAssumption, RoundFacts DEF D!PE
<1> DEFINE x == p + 2^r
<1>2. x \in Nat /\ x < N + N
  BY <1>1
<1>3. D!Target(p, r) = x % N
  BY DEF D!Target
<1> HIDE DEF x
<1>4. x % N = IF x < N THEN x ELSE x - N
  BY <1>2, Remainder
<1>5. x % N \in 0..(N - 1)
  BY <1>1, <1>2, <1>4
<1> QED
  BY <1>1, <1>3, <1>4, <1>5 DEF D!PE, x

\* Each PE is poked by one PE in a round, and somebody does.
LEMMA SourceIs ==
  ASSUME NEW p \in D!PE, NEW r \in D!Rounds
  PROVE  /\ \E s \in D!PE : D!Target(s, r) = p
         /\ \A s, t \in D!PE : D!Target(s, r) = p /\ D!Target(t, r) = p => s = t
<1>1. N \in Nat \ {0} /\ 2^r \in Nat /\ 2^r < N /\ D!PE = 0..(N - 1)
  BY ParameterAssumption, RoundFacts DEF D!PE
<1> DEFINE d == 2^r
<1>2. d \in Nat /\ d < N
  BY <1>1
<1>3. \A s \in D!PE : D!Target(s, r) = IF s + d < N THEN s + d ELSE (s + d) - N
  BY TargetIs
<1> HIDE DEF d
<1>4. \E s \in D!PE : D!Target(s, r) = p
  <2>1. CASE d <= p
    <3>1. p - d \in D!PE /\ (p - d) + d = p
      BY <1>1, <1>2, <2>1
    <3>2. (p - d) + d < N
      BY <1>1, <3>1
    <3>3. D!Target(p - d, r) = p
      BY <1>3, <3>1, <3>2
    <3> QED
      BY <3>1, <3>3
  <2>2. CASE p < d
    <3>1. (p + N) - d \in D!PE /\ ((p + N) - d) + d = p + N
      BY <1>1, <1>2, <2>2
    <3>2. ~(((p + N) - d) + d < N) /\ (((p + N) - d) + d) - N = p
      BY <1>1, <1>2, <3>1
    <3>3. D!Target((p + N) - d, r) = p
      BY <1>3, <3>1, <3>2
    <3> QED
      BY <3>1, <3>3
  <2> QED
    BY <1>1, <1>2, <2>1, <2>2
<1>5. \A s, t \in D!PE : D!Target(s, r) = p /\ D!Target(t, r) = p => s = t
  <2> SUFFICES ASSUME NEW s \in D!PE, NEW t \in D!PE,
                      D!Target(s, r) = D!Target(t, r)
               PROVE s = t
    OBVIOUS
  <2>1. (IF s + d < N THEN s + d ELSE (s + d) - N) = (IF t + d < N THEN t + d ELSE (t + d) - N)
    BY <1>3
  <2>2. s \in 0..(N - 1) /\ t \in 0..(N - 1)
    BY <1>1
  <2> QED
    BY <1>1, <1>2, <2>1, <2>2
<1> QED
  BY <1>4, <1>5

\* What is less than 2^(r+1) places behind p is less than 2^r behind p or less
\* than 2^r behind the PE that pokes p in round r.
LEMMA FurtherBack ==
  ASSUME NEW r \in D!Rounds, NEW p \in D!PE, NEW s \in D!PE, NEW q \in D!PE,
         D!Target(s, r) = p, D!Ahead(p, q) < 2^(r + 1)
  PROVE  D!Ahead(p, q) < 2^r \/ D!Ahead(s, q) < 2^r
<1> DEFINE d == 2^r
           e == 2^(r + 1)
<1>1. N \in Nat \ {0} /\ d \in Nat /\ d < N /\ e = d + d
      /\ p \in 0..(N - 1) /\ s \in 0..(N - 1) /\ q \in 0..(N - 1)
  BY ParameterAssumption, RoundFacts, Doubling DEF D!PE
<1>2. p = IF s + d < N THEN s + d ELSE (s + d) - N
  BY TargetIs
<1>3. (IF q <= p THEN p - q ELSE (p + N) - q) < e
  BY DEF D!Ahead
<1> HIDE DEF d, e
<1>4. (IF q <= p THEN p - q ELSE (p + N) - q) < d
      \/ (IF q <= s THEN s - q ELSE (s + N) - q) < d
  BY <1>1, <1>2, <1>3
<1> QED
  BY <1>4 DEF D!Ahead, d

LEMMA AheadFacts ==
  ASSUME NEW p \in D!PE, NEW q \in D!PE
  PROVE  /\ D!Ahead(p, q) \in Nat /\ D!Ahead(p, q) < N
         /\ D!Ahead(p, q) < 1 => q = p
<1>1. N \in Nat \ {0} /\ p \in 0..(N - 1) /\ q \in 0..(N - 1)
  BY ParameterAssumption DEF D!PE
<1> QED
  BY <1>1 DEF D!Ahead

------------------------------------------------------------------------------
\* The dissemination barrier: the inductive invariant, one lemma per action.

LEMMA DTypes ==
  ASSUME D!TypeOK, NEW p \in D!PE
  PROVE  /\ entered[p] \in Nat /\ left[p] \in Nat /\ round[p] \in 0..N /\ round[p] \in Nat
         /\ pc[p] \in {"out", "poke", "wait", "reset"}
         /\ \A r \in D!Rounds : pSync[p][r] \in Nat /\ poke[p][r] \in Nat
BY ParameterAssumption DEF D!TypeOK

LEMMA ReachType ==
  ASSUME D!TypeOK, NEW p \in D!PE
  PROVE  D!reach(p) \in Nat
<1>1. round[p] \in Nat /\ round[p] + 1 \in Nat
  BY DTypes
<1>2. 2^(round[p]) \in Nat /\ 2^(round[p] + 1) \in Nat
  BY <1>1, Subsets
<1> QED
  BY <1>2 DEF D!reach

LEMMA DInit == D!Init => D!IInv
<1> SUFFICES ASSUME D!Init PROVE D!IInv
  OBVIOUS
<1>1. D!TypeOK
  BY ParameterAssumption DEF D!Init, D!TypeOK
<1>2. D!Phases /\ D!Heard /\ D!BarrierSafety
  BY DEF D!Init, D!Phases, D!Heard, D!BarrierSafety
<1>3. D!Balance
  BY TargetIs DEF D!Init, D!Balance, D!poked, D!taken
<1> QED
  BY <1>1, <1>2, <1>3 DEF D!IInv

LEMMA DEnter ==
  ASSUME D!IInv, NEW p \in D!PE, D!Enter(p)
  PROVE  D!IInv'
<1> USE DEF D!Enter
<1>1. /\ pc[p] = "out" /\ pc'[p] = "poke" /\ round'[p] = 0 /\ left[p] \in Nat
      /\ entered[p] = left[p] /\ entered'[p] = left[p] + 1
      /\ entered'[p] \in 0..MaxEpoch /\ UNCHANGED <<pSync, poke, left>>
      /\ \A q \in D!PE : q # p => /\ pc'[q] = pc[q] /\ round'[q] = round[q]
                                 /\ entered'[q] = entered[q]
  BY DTypes, ParameterAssumption DEF D!IInv, D!TypeOK, D!Phases
<1>2. D!TypeOK'
  BY <1>1, ParameterAssumption DEF D!IInv, D!TypeOK
<1>3. \A q \in D!PE : entered'[q] >= entered[q] /\ entered[q] \in Nat /\ left[q] \in Nat
                      /\ entered'[q] \in Nat
  BY <1>1, DTypes DEF D!IInv
<1>4. D!Phases'
  BY <1>1 DEF D!IInv, D!Phases
<1>5. D!BarrierSafety'
  BY <1>1, <1>3 DEF D!IInv, D!BarrierSafety
<1>6. ASSUME NEW q \in D!PE, NEW r \in D!Rounds
      PROVE  D!poked(q, r)' = D!poked(q, r) /\ D!taken(q, r)' = D!taken(q, r)
  <2>1. r \in Nat
    BY RoundFacts
  <2> QED
    BY <1>1, <2>1 DEF D!poked, D!taken
<1>7. D!Balance'
  BY <1>1, <1>6, TargetIs DEF D!IInv, D!Balance
<1>8. D!Heard'
  <2> SUFFICES ASSUME NEW s \in D!PE, NEW q \in D!PE, pc'[s] # "out",
                      D!Ahead(s, q) < D!reach(s)'
               PROVE entered'[q] >= entered'[s]
    BY DEF D!Heard, D!Ahead
  <2>1. CASE s = p
    <3>1. D!reach(s)' = 1
      <4>1. 2^0 = 1
        OBVIOUS
      <4>2. D!reach(s)' = 2^0
        BY <2>1, <1>1 DEF D!reach
      <4> QED
        BY <4>1, <4>2
    <3>2. q = p
      BY <2>1, <3>1, AheadFacts
    <3> QED
      BY <2>1, <3>2, <1>3
  <2>2. CASE s # p
    <3>1. D!reach(s)' = D!reach(s)
      BY <2>2, <1>1 DEF D!reach
    <3>2. entered[q] >= entered[s]
      BY <2>2, <3>1, <1>1 DEF D!IInv, D!Heard
    <3> QED
      BY <2>2, <3>2, <1>1, <1>3
  <2> QED
    BY <2>1, <2>2
<1> QED
  BY <1>2, <1>4, <1>5, <1>7, <1>8 DEF D!IInv

LEMMA DPoke ==
  ASSUME D!IInv, NEW p \in D!PE, D!Poke(p)
  PROVE  D!IInv'
<1> DEFINE k == round[p]
<1> USE DEF D!Poke
<1>1. /\ pc[p] = "poke" /\ pc'[p] = "wait" /\ k \in D!Rounds /\ k \in Nat
      /\ UNCHANGED <<round, pSync, entered, left>>
      /\ \A q \in D!PE : q # p => pc'[q] = pc[q]
      /\ pc' \in [D!PE -> {"out", "poke", "wait", "reset"}]
  BY RoundFacts DEF D!IInv, D!TypeOK
<1>2. /\ poke'[p][k] = poke[p][k] + 1
      /\ \A q \in D!PE, r \in D!Rounds : q # p \/ r # k => poke'[q][r] = poke[q][r]
      /\ poke' \in [D!PE -> [D!Rounds -> Nat]]
  BY <1>1 DEF D!IInv, D!TypeOK
<1>3. D!TypeOK'
  BY <1>1, <1>2 DEF D!IInv, D!TypeOK
<1>4. D!Phases'
  BY <1>1 DEF D!IInv, D!Phases
<1>5. \A q \in D!PE : D!reach(q)' = D!reach(q)
  BY <1>1 DEF D!reach
<1>6. D!Heard'
  BY <1>1, <1>5 DEF D!IInv, D!Heard, D!Ahead
<1>7. ASSUME NEW q \in D!PE, NEW r \in D!Rounds
      PROVE  /\ D!taken(q, r)' = D!taken(q, r)
             /\ q # p \/ r # k => D!poked(q, r)' = D!poked(q, r)
  BY <1>1 DEF D!poked, D!taken
<1>8. D!poked(p, k)' = left[p] + 1 /\ D!poked(p, k) = left[p] /\ left[p] \in Nat
  BY <1>1, DTypes DEF D!poked, D!IInv
<1>9. ASSUME NEW q \in D!PE, NEW r \in D!Rounds
      PROVE  D!poked(q, r)' = D!taken(D!Target(q, r), r)' + poke'[q][r]
                                + pSync[D!Target(q, r)][r]
  <2>1. D!Target(q, r) \in D!PE
    BY TargetIs
  <2>2. /\ D!poked(q, r) = D!taken(D!Target(q, r), r) + poke[q][r] + pSync[D!Target(q, r)][r]
        /\ poke[q][r] \in Nat /\ pSync[D!Target(q, r)][r] \in Nat
        /\ left[D!Target(q, r)] \in Nat
    BY <2>1, DTypes DEF D!IInv, D!Balance
  <2>3. D!taken(D!Target(q, r), r) \in Nat
    BY <2>2 DEF D!taken
  <2>4. CASE q = p /\ r = k
    BY <2>1, <2>2, <2>3, <2>4, <1>2, <1>7, <1>8
  <2>5. CASE q # p \/ r # k
    BY <2>1, <2>2, <2>5, <1>2, <1>7
  <2> QED
    BY <2>4, <2>5
<1>10. D!Balance'
  BY <1>1, <1>9 DEF D!Balance, D!Target
<1>11. D!BarrierSafety'
  BY <1>1 DEF D!IInv, D!BarrierSafety
<1> QED
  BY <1>3, <1>4, <1>6, <1>10, <1>11 DEF D!IInv

\* What a PE hears from its source of the round is what the source had heard.
LEMMA DWait ==
  ASSUME D!IInv, NEW p \in D!PE, D!Wait(p)
  PROVE  D!IInv'
<1> DEFINE k == round[p]
<1> USE DEF D!Wait
<1>1. /\ pc[p] = "wait" /\ pc'[p] = "reset" /\ k \in D!Rounds /\ k \in Nat
      /\ UNCHANGED <<round, pSync, poke, entered, left>>
      /\ \A q \in D!PE : q # p => pc'[q] = pc[q]
      /\ pc' \in [D!PE -> {"out", "poke", "wait", "reset"}]
  BY RoundFacts DEF D!IInv, D!TypeOK, D!Phases
<1>2. pSync[p][k] > 0
  BY <1>1, DTypes DEF D!IInv, D!Poked
<1>3. D!TypeOK'
  BY <1>1 DEF D!IInv, D!TypeOK
<1>4. D!Phases'
  BY <1>1, <1>2 DEF D!IInv, D!Phases
<1>5. ASSUME NEW q \in D!PE, NEW r \in D!Rounds
      PROVE  D!taken(q, r)' = D!taken(q, r) /\ D!poked(q, r)' = D!poked(q, r)
  BY <1>1 DEF D!poked, D!taken
<1>6. D!Balance'
  BY <1>1, <1>5, TargetIs DEF D!IInv, D!Balance
<1>7. D!BarrierSafety'
  BY <1>1 DEF D!IInv, D!BarrierSafety
<1>8. PICK s \in D!PE : D!Target(s, k) = p
  BY <1>1, SourceIs
<1>9. /\ left[s] \in Nat /\ left[p] \in Nat /\ round[s] \in Nat
      /\ entered[p] = left[p] + 1
      /\ entered[s] = left[s] + (IF pc[s] = "out" THEN 0 ELSE 1)
  BY <1>1, DTypes DEF D!IInv, D!Phases
<1>10. D!poked(s, k) >= left[p] + 1
  <2>1. D!poked(s, k) = D!taken(p, k) + poke[s][k] + pSync[p][k]
    BY <1>1, <1>8 DEF D!IInv, D!Balance
  <2>2. D!taken(p, k) = left[p]
    BY <1>1, <1>9 DEF D!taken
  <2>3. poke[s][k] \in Nat /\ pSync[p][k] \in Nat
    BY <1>1, DTypes DEF D!IInv
  <2> QED
    BY <2>1, <2>2, <2>3, <1>2, <1>9
<1>11. ASSUME NEW q \in D!PE, D!Ahead(s, q) < 2^k
       PROVE  entered[q] >= entered[p]
  <2>1. entered[q] \in Nat
    BY DTypes DEF D!IInv
  <2>2. CASE left[s] >= left[p] + 1
    <3>1. left[s] <= entered[q]
      BY DEF D!IInv, D!BarrierSafety
    <3> QED
      BY <2>1, <2>2, <3>1, <1>9
  <2>3. CASE ~(left[s] >= left[p] + 1)
    <3>1. /\ pc[s] # "out" /\ left[s] = left[p]
          /\ k < round[s] \/ (k = round[s] /\ pc[s] # "poke")
      BY <2>3, <1>1, <1>9, <1>10 DEF D!poked
    <3>2. 2^k <= D!reach(s)
      <4>1. k <= round[s] /\ k <= round[s] + 1
        BY <3>1, <1>1, <1>9
      <4> QED
        BY <4>1, <1>1, <1>9, Monotonic DEF D!reach
    <3>3. D!Ahead(s, q) < D!reach(s)
      <4>1. D!reach(s) \in Nat /\ 2^k \in Nat /\ D!Ahead(s, q) \in Nat
        BY <1>1, <1>9, ReachType, Subsets, AheadFacts DEF D!IInv
      <4> QED
        BY <4>1, <3>2, <1>11
    <3>4. entered[q] >= entered[s]
      BY <3>1, <3>3 DEF D!IInv, D!Heard
    <3> QED
      BY <3>1, <3>4, <2>1, <1>9
  <2> QED
    BY <2>2, <2>3
<1>12. D!Heard'
  <2> SUFFICES ASSUME NEW t \in D!PE, NEW q \in D!PE, pc'[t] # "out",
                      D!Ahead(t, q) < D!reach(t)'
               PROVE entered[q] >= entered[t]
    BY <1>1 DEF D!Heard, D!Ahead
  <2>1. CASE t = p
    <3>1. D!reach(p) = 2^k /\ D!reach(p)' = 2^(k + 1)
      BY <1>1 DEF D!reach
    <3>2. D!Ahead(p, q) < 2^k \/ D!Ahead(s, q) < 2^k
      BY <2>1, <3>1, <1>1, <1>8, FurtherBack
    <3>3. CASE D!Ahead(p, q) < 2^k
      BY <3>1, <3>3, <2>1, <1>1 DEF D!IInv, D!Heard
    <3>4. CASE D!Ahead(s, q) < 2^k
      BY <3>4, <2>1, <1>11
    <3> QED
      BY <3>2, <3>3, <3>4
  <2>2. CASE t # p
    <3>1. D!reach(t)' = D!reach(t)
      BY <2>2, <1>1 DEF D!reach
    <3> QED
      BY <3>1, <2>2, <1>1 DEF D!IInv, D!Heard
  <2> QED
    BY <2>1, <2>2
<1> QED
  BY <1>3, <1>4, <1>6, <1>7, <1>12 DEF D!IInv

LEMMA DReset ==
  ASSUME D!IInv, NEW p \in D!PE, D!Reset(p)
  PROVE  D!IInv'
<1> DEFINE k == round[p]
<1> USE DEF D!Reset
<1>1. /\ pc[p] = "reset" /\ pc'[p] = "poke" /\ k \in D!Rounds /\ k \in Nat
      /\ round'[p] = k + 1 /\ k + 1 \in 0..N
      /\ UNCHANGED <<poke, entered, left>>
      /\ \A q \in D!PE : q # p => pc'[q] = pc[q] /\ round'[q] = round[q]
      /\ pc' \in [D!PE -> {"out", "poke", "wait", "reset"}]
  BY RoundFacts, ParameterAssumption DEF D!IInv, D!TypeOK, D!Phases
<1>2. pSync[p][k] \in Nat /\ pSync[p][k] > 0
  BY <1>1, DTypes DEF D!IInv, D!Phases
<1>3. /\ pSync'[p][k] = pSync[p][k] - 1 /\ pSync[p][k] - 1 \in Nat
      /\ \A q \in D!PE, r \in D!Rounds : q # p \/ r # k => pSync'[q][r] = pSync[q][r]
      /\ pSync' \in [D!PE -> [D!Rounds -> Nat]]
  <2>1. pSync[p][k] - 1 \in Nat
    BY <1>2
  <2> QED
    BY <1>1, <2>1 DEF D!IInv, D!TypeOK, D!Taken
<1>4. D!TypeOK'
  BY <1>1, <1>3 DEF D!IInv, D!TypeOK
<1>5. D!Phases'
  BY <1>1, <1>3 DEF D!IInv, D!Phases
<1>6. \A q \in D!PE : D!reach(q)' = D!reach(q)
  BY <1>1 DEF D!reach
<1>7. D!Heard'
  BY <1>1, <1>6 DEF D!IInv, D!Heard, D!Ahead
<1>8. ASSUME NEW q \in D!PE, NEW r \in D!Rounds
      PROVE  /\ D!poked(q, r)' = D!poked(q, r)
             /\ D!taken(q, r)' = D!taken(q, r) + (IF q = p /\ r = k THEN 1 ELSE 0)
             /\ D!taken(q, r) \in Nat
  <2>1. r \in Nat /\ left[q] \in Nat /\ round[q] \in Nat
    BY RoundFacts, DTypes DEF D!IInv
  <2>2. CASE q = p
    <3>1. (r < k + 1 <=> r < k \/ r = k) /\ ~(k < k)
      BY <2>1, <1>1
    <3> QED
      BY <2>1, <2>2, <3>1, <1>1 DEF D!poked, D!taken
  <2>3. CASE q # p
    BY <2>1, <2>3, <1>1 DEF D!poked, D!taken
  <2> QED
    BY <2>2, <2>3
<1>9. \A q \in D!PE, r \in D!Rounds :
        pSync'[q][r] = pSync[q][r] - (IF q = p /\ r = k THEN 1 ELSE 0)
  <2> SUFFICES ASSUME NEW q \in D!PE, NEW r \in D!Rounds
               PROVE  pSync'[q][r] = pSync[q][r] - (IF q = p /\ r = k THEN 1 ELSE 0)
    OBVIOUS
  <2>1. pSync[q][r] \in Nat
    BY DTypes DEF D!IInv
  <2> QED
    BY <2>1, <1>3
<1>10. ASSUME NEW q \in D!PE, NEW r \in D!Rounds
       PROVE  D!poked(q, r)' = D!taken(D!Target(q, r), r)' + poke[q][r]
                                 + pSync'[D!Target(q, r)][r]
  <2>1. D!Target(q, r) \in D!PE
    BY TargetIs
  <2>2. /\ D!poked(q, r) = D!taken(D!Target(q, r), r) + poke[q][r] + pSync[D!Target(q, r)][r]
        /\ poke[q][r] \in Nat /\ pSync[D!Target(q, r)][r] \in Nat
        /\ D!taken(D!Target(q, r), r) \in Nat
    BY <2>1, <1>8, DTypes DEF D!IInv, D!Balance
  <2>3. /\ D!poked(q, r)' = D!poked(q, r)
        /\ D!taken(D!Target(q, r), r)' = D!taken(D!Target(q, r), r)
                                           + (IF D!Target(q, r) = p /\ r = k THEN 1 ELSE 0)
        /\ pSync'[D!Target(q, r)][r] = pSync[D!Target(q, r)][r]
                                         - (IF D!Target(q, r) = p /\ r = k THEN 1 ELSE 0)
    BY <2>1, <1>8, <1>9
  <2> QED
    BY <2>2, <2>3
<1>11. D!Balance'
  BY <1>1, <1>10 DEF D!Balance, D!Target
<1>12. D!BarrierSafety'
  BY <1>1 DEF D!IInv, D!BarrierSafety
<1> QED
  BY <1>4, <1>5, <1>7, <1>11, <1>12 DEF D!IInv

\* A PE whose distance has reached the size of the set has heard of everybody.
LEMMA DHeardAll ==
  ASSUME D!IInv, NEW p \in D!PE, pc[p] = "poke", round[p] \notin D!Rounds, NEW q \in D!PE
  PROVE  entered[p] <= entered[q]
<1>1. D!reach(p) = 2^(round[p]) /\ round[p] \in 0..N /\ round[p] \in Nat /\ N \in Nat
  BY DTypes, ParameterAssumption DEF D!IInv, D!reach
<1>2. N <= 2^(round[p]) /\ 2^(round[p]) \in Nat
  BY <1>1, RoundFacts, Subsets
<1>3. D!Ahead(p, q) < D!reach(p)
  BY <1>1, <1>2, AheadFacts
<1>4. entered[p] \in Nat /\ entered[q] \in Nat
  BY DTypes DEF D!IInv
<1> QED
  BY <1>3, <1>4 DEF D!IInv, D!Heard

LEMMA DLeave ==
  ASSUME D!IInv, NEW p \in D!PE, D!Leave(p)
  PROVE  D!IInv'
<1> USE DEF D!Leave
<1>1. /\ pc[p] = "poke" /\ pc'[p] = "out" /\ round[p] \notin D!Rounds
      /\ left[p] \in Nat /\ entered[p] = left[p] + 1 /\ left'[p] = left[p] + 1
      /\ left'[p] \in 0..MaxEpoch
      /\ UNCHANGED <<round, pSync, poke, entered>>
      /\ \A q \in D!PE : q # p => pc'[q] = pc[q] /\ left'[q] = left[q]
      /\ pc' \in [D!PE -> {"out", "poke", "wait", "reset"}]
  BY DTypes, ParameterAssumption DEF D!IInv, D!TypeOK, D!Phases
<1>2. D!TypeOK'
  BY <1>1 DEF D!IInv, D!TypeOK
<1>3. D!Phases'
  BY <1>1 DEF D!IInv, D!Phases
<1>4. D!BarrierSafety'
  BY <1>1, DHeardAll DEF D!IInv, D!BarrierSafety
<1>5. ASSUME NEW q \in D!PE, NEW r \in D!Rounds
      PROVE  D!poked(q, r)' = D!poked(q, r) /\ D!taken(q, r)' = D!taken(q, r)
  <2>1. r < round[p]
    BY <1>1, DTypes, RoundFacts DEF D!IInv
  <2> QED
    BY <1>1, <2>1 DEF D!poked, D!taken
<1>6. D!Balance'
  BY <1>1, <1>5, TargetIs DEF D!IInv, D!Balance
<1>7. \A q \in D!PE : q # p => D!reach(q)' = D!reach(q)
  BY <1>1 DEF D!reach
<1>8. D!Heard'
  BY <1>1, <1>7 DEF D!IInv, D!Heard, D!Ahead
<1> QED
  BY <1>2, <1>3, <1>4, <1>6, <1>8 DEF D!IInv

LEMMA DDeliver ==
  ASSUME D!IInv, NEW p \in D!PE, NEW k \in D!Rounds, D!DeliverPoke(p, k)
  PROVE  D!IInv'
<1> DEFINE t == D!Target(p, k)
<1> USE DEF D!DeliverPoke
<1>1. t \in D!PE /\ poke[p][k] \in Nat /\ poke[p][k] > 0 /\ pSync[t][k] \in Nat
      /\ UNCHANGED <<pc, round, entered, left>>
  BY TargetIs, DTypes DEF D!IInv
<1>2. /\ poke'[p][k] = poke[p][k] - 1
      /\ \A q \in D!PE, r \in D!Rounds : q # p \/ r # k => poke'[q][r] = poke[q][r]
      /\ poke' \in [D!PE -> [D!Rounds -> Nat]]
  <2>1. poke[p][k] - 1 \in Nat
    BY <1>1
  <2> QED
    BY <2>1 DEF D!IInv, D!TypeOK
<1> HIDE DEF t
<1>3. /\ pSync'[t][k] = pSync[t][k] + 1
      /\ \A q \in D!PE, r \in D!Rounds : q # t \/ r # k => pSync'[q][r] = pSync[q][r]
      /\ pSync' \in [D!PE -> [D!Rounds -> Nat]]
  <2>1. pSync' = [pSync EXCEPT ![t][k] = @ + 1]
    BY DEF t
  <2> QED
    BY <1>1, <2>1 DEF D!IInv, D!TypeOK
<1>4. D!TypeOK'
  BY <1>1, <1>2, <1>3 DEF D!IInv, D!TypeOK
<1>5. D!Phases'
  <2> SUFFICES ASSUME NEW q \in D!PE, pc[q] = "reset"
               PROVE  pSync'[q][round[q]] > 0
    BY <1>1 DEF D!IInv, D!Phases
  <2>1. round[q] \in D!Rounds /\ pSync[q][round[q]] > 0 /\ pSync[q][round[q]] \in Nat
    BY DTypes DEF D!IInv, D!Phases
  <2> QED
    BY <2>1, <1>1, <1>3
<1>6. \A q \in D!PE, r \in D!Rounds :
        D!poked(q, r)' = D!poked(q, r) /\ D!taken(q, r)' = D!taken(q, r)
  BY <1>1 DEF D!poked, D!taken
<1>7. ASSUME NEW q \in D!PE, NEW r \in D!Rounds
      PROVE  D!poked(q, r) = D!taken(D!Target(q, r), r) + poke'[q][r]
                               + pSync'[D!Target(q, r)][r]
  <2>1. D!Target(q, r) \in D!PE /\ (r = k => (D!Target(q, r) = t <=> q = p))
    BY TargetIs, SourceIs, <1>1 DEF t
  <2>2. /\ D!poked(q, r) = D!taken(D!Target(q, r), r) + poke[q][r] + pSync[D!Target(q, r)][r]
        /\ poke[q][r] \in Nat /\ pSync[D!Target(q, r)][r] \in Nat
        /\ left[D!Target(q, r)] \in Nat
    BY <2>1, DTypes DEF D!IInv, D!Balance
  <2>3. D!taken(D!Target(q, r), r) \in Nat
    BY <2>2 DEF D!taken
  <2>4. CASE q = p /\ r = k
    BY <2>1, <2>2, <2>3, <2>4, <1>1, <1>2, <1>3
  <2>5. CASE q # p \/ r # k
    <3>1. D!Target(q, r) # t \/ r # k
      BY <2>1, <2>5
    <3> QED
      BY <2>1, <2>2, <2>5, <3>1, <1>2, <1>3
  <2> QED
    BY <2>4, <2>5
<1>8. D!Balance'
  BY <1>6, <1>7, TargetIs DEF D!Balance, D!Target
<1>9. \A q \in D!PE : D!reach(q)' = D!reach(q)
  BY <1>1 DEF D!reach
<1>10. D!Heard' /\ D!BarrierSafety'
  BY <1>1, <1>9 DEF D!IInv, D!Heard, D!Ahead, D!BarrierSafety
<1> QED
  BY <1>4, <1>5, <1>8, <1>10 DEF D!IInv

LEMMA DNext ==
  ASSUME D!IInv, [D!Next]_(D!vars)
  PROVE  D!IInv'
<1>1. CASE UNCHANGED D!vars
  <2>1. UNCHANGED <<pc, round, pSync, poke, entered, left>>
    BY <1>1 DEF D!vars
  <2>2. \A q \in D!PE, r \in D!Rounds :
          D!poked(q, r)' = D!poked(q, r) /\ D!taken(q, r)' = D!taken(q, r)
    BY <2>1 DEF D!poked, D!taken
  <2>3. D!Balance'
    BY <2>1, <2>2, TargetIs DEF D!IInv, D!Balance
  <2>4. \A q \in D!PE : D!reach(q)' = D!reach(q)
    BY <2>1 DEF D!reach
  <2> QED
    BY <2>1, <2>3, <2>4 DEF D!IInv, D!TypeOK, D!Phases, D!Heard, D!Ahead, D!BarrierSafety
<1>2. ASSUME NEW p \in D!PE, D!Enter(p) \/ D!Advance(p) PROVE D!IInv'
  BY <1>2, DEnter, DPoke, DWait, DReset, DLeave DEF D!Advance
<1>3. ASSUME NEW p \in D!PE, NEW r \in D!Rounds, D!DeliverPoke(p, r) PROVE D!IInv'
  BY <1>3, DDeliver
<1> QED
  BY <1>1, <1>2, <1>3 DEF D!Next, D!Finished

------------------------------------------------------------------------------
\* The linear barrier on two PEs or more.

\* Module LinearBarrier counts with the operator of its own FiniteSets.
LEMMA SameCardinality == \A S : L!Cardinality(S) = Cardinality(S)
BY DEF L!Cardinality, Cardinality

LEMMA LSize ==
  ASSUME N # 1
  PROVE  /\ L!Root \in L!PE /\ IsFiniteSet(L!PE \ {L!Root})
         /\ Cardinality(L!PE) - 1 = Cardinality(L!PE \ {L!Root})
         /\ Cardinality(L!PE \ {L!Root}) \in Nat /\ Cardinality(L!PE \ {L!Root}) > 0
         /\ Cardinality(L!PE) \in Nat
<1>1. N \in Nat /\ N > 1 /\ L!PE = 0..(N - 1) /\ L!Root = 0
  BY ParameterAssumption DEF L!PE, L!Root
<1>2. IsFiniteSet(L!PE) /\ Cardinality(L!PE) = N
  BY <1>1, FS_Interval
<1>3. L!Root \in L!PE
  BY <1>1
<1>4. IsFiniteSet(L!PE \ {L!Root}) /\ Cardinality(L!PE \ {L!Root}) = Cardinality(L!PE) - 1
  BY <1>2, <1>3, FS_RemoveElement
<1> QED
  BY <1>1, <1>2, <1>3, <1>4

LEMMA LTypes ==
  ASSUME L!TypeOK, NEW p \in L!PE
  PROVE  /\ entered[p] \in Nat /\ left[p] \in Nat /\ pSync[p] \in Nat
         /\ poke[p] \in {0, 1} /\ ack[p] \in {0, 1} /\ clear[p] \in {0, 1}
         /\ pc[p] \in {"out", "count", "poke", "await", "reset", "clearing", "acks"}
         /\ L!poked(p) \in Nat /\ L!done(p) \in Nat
BY ParameterAssumption DEF L!TypeOK, L!poked, L!done

\* The root and another PE are never more than one barrier apart.
LEMMA LBounds ==
  ASSUME L!IInv, N # 1, NEW p \in L!PE \ {L!Root}
  PROVE  /\ L!rootDone \in Nat /\ left[L!Root] \in Nat
         /\ left[L!Root] <= L!rootDone /\ L!rootDone <= left[L!Root] + 1
         /\ L!rootDone <= L!poked(p)
         /\ left[p] <= L!poked(p) /\ L!poked(p) <= left[p] + 1
         /\ left[p] <= L!done(p) /\ L!done(p) <= left[L!Root]
         /\ L!PokeIn(p) => /\ poke[p] = 0 /\ L!poked(p) = left[p] + 1
                           /\ L!rootDone = left[p] /\ left[L!Root] = left[p]
<1>1. /\ left[p] \in Nat /\ poke[p] \in {0, 1} /\ ack[p] \in {0, 1} /\ pSync[p] \in Nat
      /\ left[L!Root] \in Nat /\ L!poked(p) \in Nat /\ L!done(p) \in Nat
  BY LTypes, LSize DEF L!IInv
<1>2. /\ L!rootDone \in Nat /\ left[L!Root] <= L!rootDone
      /\ L!rootDone <= left[L!Root] + 1
  BY <1>1 DEF L!rootDone
<1>3. /\ left[p] <= L!poked(p) /\ L!poked(p) <= left[p] + 1 /\ left[p] <= L!done(p)
  BY <1>1 DEF L!poked, L!done
<1>4. L!rootDone <= L!poked(p) /\ L!done(p) <= left[L!Root]
  BY <1>1, <1>2 DEF L!IInv, L!Balance, L!PokeIn
<1>5. L!PokeIn(p) => L!poked(p) = L!rootDone + poke[p] + 1
  BY DEF L!PokeIn
<1> QED
  BY <1>1, <1>2, <1>3, <1>4, <1>5

\* A word is bounded by what it holds.
LEMMA LWord ==
  ASSUME L!IInv, N # 1, NEW p \in L!PE \ {L!Root}
  PROVE  pSync[p] + ack[p] <= 1
<1>1. /\ left[p] \in Nat /\ ack[p] \in {0, 1} /\ pSync[p] \in Nat /\ L!done(p) \in Nat
      /\ left[L!Root] \in Nat
  BY LTypes, LSize DEF L!IInv
<1>2. left[L!Root] <= left[p] + 1 /\ left[p] <= L!done(p)
  BY <1>1, LBounds, LTypes DEF L!IInv
<1>3. left[L!Root] = L!done(p) + ack[p] + pSync[p]
  BY DEF L!IInv, L!Balance
<1> QED
  BY <1>1, <1>2, <1>3

LEMMA LCount ==
  ASSUME N # 1
  PROVE  /\ IsFiniteSet({p \in L!PE \ {L!Root} : L!PokeIn(p)})
         /\ Cardinality({p \in L!PE \ {L!Root} : L!PokeIn(p)}) \in Nat
         /\ Cardinality({p \in L!PE \ {L!Root} : L!PokeIn(p)}) <= Cardinality(L!PE) - 1
         /\ Cardinality({p \in L!PE \ {L!Root} : L!PokeIn(p)}) = Cardinality(L!PE) - 1
              <=> \A p \in L!PE \ {L!Root} : L!PokeIn(p)
<1> DEFINE T == L!PE \ {L!Root}
           S == {p \in T : L!PokeIn(p)}
<1>1. S \subseteq T /\ IsFiniteSet(T) /\ Cardinality(T) = Cardinality(L!PE) - 1
  BY LSize
<1>2. /\ IsFiniteSet(S) /\ Cardinality(S) <= Cardinality(T)
      /\ Cardinality(S) = Cardinality(T) => S = T
  BY <1>1, FS_Subset
<1>3. Cardinality(S) \in Nat
  BY <1>2, FS_CardinalityType
<1>4. (\A p \in T : L!PokeIn(p)) => S = T
  OBVIOUS
<1> QED
  BY <1>1, <1>2, <1>3, <1>4

\* A step that moves no mark and delivers nothing keeps balance and count.
LEMMA LSame ==
  ASSUME L!IInv, N # 1, UNCHANGED <<pSync, poke, ack>>, left'[L!Root] = left[L!Root],
         L!rootDone' = L!rootDone,
         \A p \in L!PE \ {L!Root} : L!poked(p)' = L!poked(p) /\ L!done(p)' = L!done(p)
  PROVE  /\ L!Balance' /\ L!Counting'
         /\ \A p \in L!PE \ {L!Root} : L!PokeIn(p)' <=> L!PokeIn(p)
<1>1. \A p \in L!PE \ {L!Root} : L!PokeIn(p)' <=> L!PokeIn(p)
  BY DEF L!PokeIn
<1>2. L!Balance'
  BY <1>1 DEF L!IInv, L!Balance, L!Root
<1>3. {p \in L!PE \ {L!Root} : L!PokeIn(p)'} = {p \in L!PE \ {L!Root} : L!PokeIn(p)}
  BY <1>1
<1>4. L!Counting'
  BY <1>3, SameCardinality DEF L!IInv, L!Counting, L!Root
<1> QED
  BY <1>1, <1>2, <1>4

LEMMA LInit ==
  ASSUME N # 1, L!Init
  PROVE  L!IInv
<1>1. L!Root \in L!PE
  BY LSize
<1>2. \A p \in L!PE : L!poked(p) = 0 /\ L!done(p) = 0 /\ ~L!PokeIn(p)
  BY <1>1 DEF L!Init, L!poked, L!done, L!PokeIn, L!rootDone
<1>3. L!rootDone = 0
  BY <1>1 DEF L!Init, L!rootDone
<1>4. L!Counting
  <2>1. {p \in L!PE \ {L!Root} : L!PokeIn(p)} = {}
    BY <1>2
  <2> QED
    BY <1>1, <2>1, FS_EmptySet, SameCardinality DEF L!Init, L!Counting
<1>5. L!TypeOK
  BY LSize, SameCardinality, ParameterAssumption DEF L!Init, L!TypeOK
<1>6. L!Balance
  BY <1>1, <1>2, <1>3 DEF L!Init, L!Balance
<1>7. L!Phases /\ L!AllIn /\ L!ClearsLand
  BY <1>1 DEF L!Init, L!Phases, L!AllIn, L!ClearsLand, L!Resetting
<1> QED
  BY <1>4, <1>5, <1>6, <1>7 DEF L!IInv

LEMMA LEnter ==
  ASSUME L!IInv, N # 1, NEW p \in L!PE, L!Enter(p)
  PROVE  L!IInv'
<1> USE DEF L!Enter, L!Goto
<1>0. L!Root \in L!PE
  BY LSize
<1>1. /\ pc[p] = "out" /\ pc'[p] = (IF p = L!Root THEN "count" ELSE "poke")
      /\ left[p] \in Nat /\ entered[p] = left[p] /\ entered'[p] = left[p] + 1
      /\ entered'[p] \in 0..MaxEpoch /\ clear[p] = 0
      /\ UNCHANGED <<pSync, poke, ack, clear, left>>
      /\ \A q \in L!PE : q # p => pc'[q] = pc[q] /\ entered'[q] = entered[q]
  BY LTypes, ParameterAssumption DEF L!IInv, L!TypeOK, L!Phases, L!ClearsLand
<1>2. L!TypeOK'
  BY <1>1 DEF L!IInv, L!TypeOK
<1>3. L!rootDone' = L!rootDone
  BY <1>0, <1>1 DEF L!rootDone
<1>4. \A q \in L!PE : L!poked(q)' = L!poked(q) /\ L!done(q)' = L!done(q)
  BY <1>1 DEF L!poked, L!done
<1>5. /\ L!Balance' /\ L!Counting'
      /\ \A q \in L!PE \ {L!Root} : L!PokeIn(q)' <=> L!PokeIn(q)
  BY <1>1, <1>3, <1>4, LSame
<1>6. \A q \in L!PE : L!Resetting(q)' => L!Resetting(q)
  BY <1>1 DEF L!Resetting
<1>7. L!AllIn'
  BY <1>0, <1>1, <1>5, <1>6 DEF L!IInv, L!AllIn
<1>8. L!Phases' /\ L!ClearsLand'
  BY <1>0, <1>1 DEF L!IInv, L!Phases, L!ClearsLand
<1> QED
  BY <1>2, <1>5, <1>7, <1>8 DEF L!IInv

\* Count and Await move pc along and leave the balance alone.
LEMMA LCountStep ==
  ASSUME L!IInv, N # 1, NEW p \in L!PE, L!Count(p) \/ L!Await(p)
  PROVE  L!IInv'
<1> USE DEF L!Count, L!Await, L!Goto
<1>0. L!Root \in L!PE
  BY LSize
<1>1. /\ pc[p] \in {"count", "await"} /\ pc'[p] = "reset" /\ clear[p] = 0
      /\ (pc[p] = "count" <=> p = L!Root)
      /\ UNCHANGED <<pSync, poke, ack, clear, entered, left>>
      /\ \A q \in L!PE : q # p => pc'[q] = pc[q]
      /\ pc' \in [L!PE -> {"out", "count", "poke", "await", "reset", "clearing", "acks"}]
  BY LTypes DEF L!IInv, L!TypeOK, L!Phases, L!ClearsLand
<1>2. L!TypeOK'
  BY <1>1 DEF L!IInv, L!TypeOK
<1>3. L!rootDone' = L!rootDone
  BY <1>0, <1>1 DEF L!rootDone
<1>4. \A q \in L!PE \ {L!Root} : L!poked(q)' = L!poked(q) /\ L!done(q)' = L!done(q)
  BY <1>1 DEF L!poked, L!done
<1>5. /\ L!Balance' /\ L!Counting'
      /\ \A q \in L!PE \ {L!Root} : L!PokeIn(q)' <=> L!PokeIn(q)
  BY <1>1, <1>3, <1>4, LSame
<1>6. p = L!Root => \A q \in L!PE \ {L!Root} : L!PokeIn(q)
  <2> SUFFICES ASSUME p = L!Root PROVE \A q \in L!PE \ {L!Root} : L!PokeIn(q)
    OBVIOUS
  <2>1. pSync[L!Root] = Cardinality(L!PE) - 1
    BY <1>1, SameCardinality DEF L!Counted
  <2> QED
    BY <2>1, LCount, SameCardinality DEF L!IInv, L!Counting
<1>7. p # L!Root => pSync[p] # 0
  BY <1>1 DEF L!Answered
<1>8. L!AllIn'
  BY <1>0, <1>1, <1>5, <1>6, <1>7 DEF L!IInv, L!AllIn, L!Resetting
<1>9. L!Phases' /\ L!ClearsLand'
  BY <1>0, <1>1 DEF L!IInv, L!Phases, L!ClearsLand
<1> QED
  BY <1>2, <1>5, <1>8, <1>9 DEF L!IInv

LEMMA LPoke ==
  ASSUME L!IInv, N # 1, NEW p \in L!PE, L!Poke(p)
  PROVE  L!IInv'
<1> USE DEF L!Poke, L!Goto
<1>0. L!Root \in L!PE
  BY LSize
<1>1. /\ pc[p] = "poke" /\ pc'[p] = "await" /\ p # L!Root /\ clear[p] = 0
      /\ UNCHANGED <<pSync, ack, clear, entered, left>>
      /\ \A q \in L!PE : q # p => pc'[q] = pc[q]
      /\ pc' \in [L!PE -> {"out", "count", "poke", "await", "reset", "clearing", "acks"}]
  BY LTypes DEF L!IInv, L!TypeOK, L!Phases, L!ClearsLand
<1>2. /\ left[p] \in Nat /\ L!poked(p) = left[p] /\ L!poked(p)' = left[p] + 1
      /\ L!rootDone \in Nat /\ left[p] <= L!rootDone /\ poke[p] \in {0, 1}
  <2>1. left[p] \in Nat /\ L!poked(p) = left[p] /\ L!poked(p)' = left[p] + 1
        /\ left[L!Root] \in Nat /\ L!done(p) \in Nat /\ poke[p] \in {0, 1}
    BY <1>0, <1>1, LTypes DEF L!IInv, L!poked
  <2>2. /\ L!rootDone \in Nat /\ left[p] <= L!done(p) /\ L!done(p) <= left[L!Root]
        /\ left[L!Root] <= L!rootDone
    BY <1>1, LBounds
  <2> QED
    BY <2>1, <2>2
<1>3. ~L!PokeIn(p) /\ poke[p] = 0 /\ left[p] = L!rootDone
  BY <1>1, <1>2 DEF L!IInv, L!Balance, L!PokeIn
<1>4. /\ poke'[p] = 1 /\ poke' \in [L!PE -> {0, 1}]
      /\ \A q \in L!PE : q # p => poke'[q] = poke[q]
  BY <1>3 DEF L!IInv, L!TypeOK
<1>5. L!TypeOK'
  BY <1>1, <1>4 DEF L!IInv, L!TypeOK
<1>6. L!rootDone' = L!rootDone
  BY <1>0, <1>1 DEF L!rootDone
<1>7. \A q \in L!PE : L!done(q)' = L!done(q) /\ (q # p => L!poked(q)' = L!poked(q))
  BY <1>1 DEF L!poked, L!done
<1>8. ~L!PokeIn(p)' /\ L!poked(p)' = L!rootDone' + poke'[p]
  BY <1>2, <1>3, <1>4, <1>6 DEF L!PokeIn
<1>9. \A q \in L!PE \ {L!Root} : L!PokeIn(q)' <=> L!PokeIn(q)
  BY <1>3, <1>4, <1>6, <1>7, <1>8 DEF L!PokeIn
<1>10. L!Balance'
  BY <1>1, <1>4, <1>6, <1>7, <1>8, <1>9 DEF L!IInv, L!Balance
<1>11. {q \in L!PE \ {L!Root} : L!PokeIn(q)'} = {q \in L!PE \ {L!Root} : L!PokeIn(q)}
  BY <1>9
<1>12. L!Counting'
  BY <1>1, <1>11, SameCardinality DEF L!IInv, L!Counting
<1>13. L!AllIn' /\ L!ClearsLand'
  BY <1>0, <1>1, <1>9 DEF L!IInv, L!AllIn, L!Resetting, L!ClearsLand
<1>14. L!Phases'
  BY <1>0, <1>1, <1>4 DEF L!IInv, L!Phases
<1> QED
  BY <1>5, <1>10, <1>12, <1>13, <1>14 DEF L!IInv

LEMMA LReset ==
  ASSUME L!IInv, N # 1, NEW p \in L!PE, L!Reset(p)
  PROVE  L!IInv'
<1> USE DEF L!Reset, L!Goto
<1>0. L!Root \in L!PE
  BY LSize
<1>1. /\ pc[p] = "reset" /\ pc'[p] = "clearing" /\ clear[p] = 0 /\ clear'[p] = 1
      /\ UNCHANGED <<pSync, poke, ack, entered, left>>
      /\ \A q \in L!PE : q # p => pc'[q] = pc[q] /\ clear'[q] = clear[q]
      /\ pc' \in [L!PE -> {"out", "count", "poke", "await", "reset", "clearing", "acks"}]
      /\ clear' \in [L!PE -> {0, 1}]
  <2>1. clear[p] = 0
    BY DEF L!IInv, L!ClearsLand
  <2> QED
    BY <2>1 DEF L!IInv, L!TypeOK
<1>2. L!TypeOK'
  BY <1>1 DEF L!IInv, L!TypeOK
<1>3. L!rootDone' = L!rootDone
  BY <1>0, <1>1 DEF L!rootDone
<1>4. \A q \in L!PE : L!poked(q)' = L!poked(q) /\ L!done(q)' = L!done(q)
  BY <1>1 DEF L!poked, L!done
<1>5. /\ L!Balance' /\ L!Counting'
      /\ \A q \in L!PE \ {L!Root} : L!PokeIn(q)' <=> L!PokeIn(q)
  BY <1>0, <1>1, <1>3, <1>4, LSame
<1>6. \A q \in L!PE : L!Resetting(q)' => L!Resetting(q)
  BY <1>1 DEF L!Resetting
<1>7. L!AllIn'
  BY <1>0, <1>1, <1>5, <1>6 DEF L!IInv, L!AllIn
<1>8. L!Phases' /\ L!ClearsLand'
  BY <1>0, <1>1 DEF L!IInv, L!Phases, L!ClearsLand
<1> QED
  BY <1>2, <1>5, <1>7, <1>8 DEF L!IInv

\* The reset that shows has landed: until it does, the word is not empty.
LEMMA LShows ==
  ASSUME L!IInv, N # 1, NEW p \in L!PE, pc[p] = "clearing", L!ResetShows(p)
  PROVE  clear[p] = 0
<1> SUFFICES ASSUME clear[p] # 0 PROVE FALSE
  OBVIOUS
<1>1. L!Resetting(p) /\ pSync[p] = 0
  BY DEF L!Resetting, L!ResetShows
<1>2. CASE p = L!Root
  <2>1. \A q \in L!PE \ {L!Root} : L!PokeIn(q)
    BY <1>1, <1>2 DEF L!IInv, L!AllIn
  <2>2. pSync[L!Root] = Cardinality(L!PE) - 1
    BY <2>1, LCount, SameCardinality DEF L!IInv, L!Counting
  <2> QED
    BY <2>2, <1>1, <1>2, LSize
<1>3. CASE p # L!Root
  BY <1>1, <1>3 DEF L!IInv, L!AllIn
<1> QED
  BY <1>2, <1>3

LEMMA LCleared ==
  ASSUME L!IInv, N # 1, NEW p \in L!PE, L!Cleared(p)
  PROVE  L!IInv'
<1> USE DEF L!Cleared, L!Goto, L!Return
<1>0. L!Root \in L!PE
  BY LSize
<1>1. /\ pc[p] = "clearing" /\ UNCHANGED <<pSync, poke, ack, clear, entered>>
      /\ clear[p] = 0 /\ left[p] \in Nat /\ entered[p] = left[p] + 1 /\ entered[p] \in 0..MaxEpoch
      /\ \A q \in L!PE : q # p => pc'[q] = pc[q] /\ left'[q] = left[q]
      /\ pc'[p] = (IF p = L!Root THEN "acks" ELSE "out")
      /\ left'[p] = (IF p = L!Root THEN left[p] ELSE left[p] + 1)
  <2>1. pc[p] = "clearing" /\ clear[p] = 0
    BY LShows
  <2>2. left[p] \in Nat /\ entered[p] = left[p] + 1 /\ entered[p] \in 0..MaxEpoch
    BY <2>1, LTypes DEF L!IInv, L!TypeOK, L!Phases
  <2> QED
    BY <2>1, <2>2 DEF L!IInv, L!TypeOK
<1>2. L!TypeOK'
  <2>1. pc' \in [L!PE -> {"out", "count", "poke", "await", "reset", "clearing", "acks"}]
    BY DEF L!IInv, L!TypeOK
  <2>2. left' \in [L!PE -> 0..MaxEpoch]
    <3>1. left' = left \/ left' = [left EXCEPT ![p] = @ + 1]
      OBVIOUS
    <3>2. left[p] + 1 \in 0..MaxEpoch
      BY <1>1
    <3> QED
      BY <3>1, <3>2 DEF L!IInv, L!TypeOK
  <2> QED
    BY <2>1, <2>2, <1>1 DEF L!IInv, L!TypeOK
<1>3. L!rootDone' = L!rootDone /\ left'[L!Root] = left[L!Root]
  BY <1>0, <1>1 DEF L!rootDone
<1>4. \A q \in L!PE \ {L!Root} : L!poked(q)' = L!poked(q) /\ L!done(q)' = L!done(q)
  BY <1>1 DEF L!poked, L!done
<1>5. /\ L!Balance' /\ L!Counting'
      /\ \A q \in L!PE \ {L!Root} : L!PokeIn(q)' <=> L!PokeIn(q)
  BY <1>1, <1>3, <1>4, LSame
<1>6. \A q \in L!PE : L!Resetting(q)' => L!Resetting(q)
  BY <1>1 DEF L!Resetting
<1>7. L!AllIn'
  BY <1>0, <1>1, <1>5, <1>6 DEF L!IInv, L!AllIn
<1>8. L!Phases' /\ L!ClearsLand'
  BY <1>0, <1>1 DEF L!IInv, L!Phases, L!ClearsLand
<1> QED
  BY <1>2, <1>5, <1>7, <1>8 DEF L!IInv

LEMMA LAcks ==
  ASSUME L!IInv, N # 1, NEW p \in L!PE, L!Acks(p)
  PROVE  L!IInv'
<1> DEFINE r == L!Root
<1> USE DEF L!Acks, L!Goto, L!Return
<1>0. r \in L!PE
  BY LSize
<1>1. /\ p = r /\ pc[r] = "acks" /\ pc'[r] = "out" /\ clear[r] = 0
      /\ left[r] \in Nat /\ entered[r] = left[r] + 1 /\ entered[r] \in 0..MaxEpoch
      /\ left'[r] = left[r] + 1
      /\ UNCHANGED <<pSync, poke, clear, entered>>
      /\ \A q \in L!PE \ {r} : pc'[q] = pc[q] /\ left'[q] = left[q] /\ ack'[q] = ack[q] + 1
      /\ ack'[r] = ack[r]
      /\ pc' \in [L!PE -> {"out", "count", "poke", "await", "reset", "clearing", "acks"}]
  <2>1. p = r /\ pc[r] = "acks" /\ clear[r] = 0
    BY DEF L!IInv, L!Phases, L!ClearsLand
  <2>2. left[r] \in Nat /\ entered[r] = left[r] + 1 /\ entered[r] \in 0..MaxEpoch
    BY <2>1, LTypes DEF L!IInv, L!TypeOK, L!Phases
  <2> QED
    BY <2>1, <2>2 DEF L!IInv, L!TypeOK
<1>2. L!rootDone = left[r] + 1 /\ L!rootDone' = L!rootDone
  BY <1>1 DEF L!rootDone
<1>3. ASSUME NEW q \in L!PE \ {r}
      PROVE  /\ ack[q] = 0 /\ pSync[q] = 0 /\ L!done(q) = left[r]
             /\ L!done(q)' = L!done(q) /\ L!poked(q)' = L!poked(q)
             /\ left[q] \in Nat
  <2>1. left[q] \in Nat /\ ack[q] \in {0, 1} /\ pSync[q] \in Nat /\ L!done(q) \in Nat
        /\ L!poked(q) \in Nat
    BY LTypes DEF L!IInv
  <2>2. left[r] + 1 <= L!poked(q) /\ L!poked(q) <= left[q] + 1 /\ left[q] <= L!done(q)
    BY <1>2, LBounds
  <2>3. left[r] = L!done(q) + ack[q] + pSync[q]
    BY DEF L!IInv, L!Balance
  <2>4. ack[q] = 0 /\ pSync[q] = 0 /\ L!done(q) = left[r]
    BY <1>1, <2>1, <2>2, <2>3
  <2>5. L!done(q)' = L!done(q) /\ L!poked(q)' = L!poked(q)
    BY <1>1 DEF L!done, L!poked
  <2> QED
    BY <2>1, <2>4, <2>5
<1>4. ack' \in [L!PE -> {0, 1}]
  <2>1. \A q \in L!PE : ack'[q] \in {0, 1}
    BY <1>1, <1>3, LTypes DEF L!IInv
  <2> QED
    BY <2>1
<1>5. L!TypeOK'
  <2>1. left' \in [L!PE -> 0..MaxEpoch]
    BY <1>1 DEF L!IInv, L!TypeOK
  <2> QED
    BY <2>1, <1>1, <1>4 DEF L!IInv, L!TypeOK
<1>6. \A q \in L!PE \ {r} : L!PokeIn(q)' <=> L!PokeIn(q)
  BY <1>1, <1>2, <1>3 DEF L!PokeIn
<1>7. L!Balance'
  <2> SUFFICES ASSUME NEW q \in L!PE \ {r}
               PROVE  /\ L!PokeIn(q)' \/ L!poked(q)' = L!rootDone' + poke'[q]
                      /\ left'[r] = L!done(q)' + ack'[q] + pSync'[q]
    BY DEF L!Balance, L!Root
  <2>1. L!PokeIn(q)' \/ L!poked(q)' = L!rootDone' + poke'[q]
    BY <1>1, <1>2, <1>3, <1>6 DEF L!IInv, L!Balance
  <2>2. left'[r] = L!done(q)' + ack'[q] + pSync'[q]
    BY <1>1, <1>3
  <2> QED
    BY <2>1, <2>2
<1>8. {q \in L!PE \ {L!Root} : L!PokeIn(q)'} = {q \in L!PE \ {L!Root} : L!PokeIn(q)}
  BY <1>6
<1>9. L!Counting'
  BY <1>1, <1>8 DEF L!IInv, L!Counting, L!Root
<1>10. L!AllIn'
  BY <1>0, <1>1, <1>6 DEF L!IInv, L!AllIn, L!Resetting
<1>11. L!Phases' /\ L!ClearsLand'
  BY <1>0, <1>1 DEF L!IInv, L!Phases, L!ClearsLand
<1> QED
  BY <1>5, <1>7, <1>9, <1>10, <1>11 DEF L!IInv

LEMMA LDeliverPoke ==
  ASSUME L!IInv, N # 1, NEW p \in L!PE, L!DeliverPoke(p)
  PROVE  L!IInv'
<1> DEFINE r == L!Root
<1> USE DEF L!DeliverPoke
<1>0. r \in L!PE
  BY LSize
<1>1. p # r /\ poke[p] = 1
  BY LTypes DEF L!IInv, L!Phases
<1>2. /\ poke'[p] = 0 /\ poke' \in [L!PE -> {0, 1}]
      /\ \A q \in L!PE : q # p => poke'[q] = poke[q]
      /\ pSync'[r] = pSync[r] + 1 /\ pSync' \in [L!PE -> Nat]
      /\ \A q \in L!PE \ {r} : pSync'[q] = pSync[q]
      /\ UNCHANGED <<pc, ack, clear, entered, left>>
  <2>1. poke[p] - 1 = 0
    BY <1>1
  <2>2. pSync[r] + 1 \in Nat
    BY <1>0, LTypes DEF L!IInv
  <2> QED
    BY <1>0, <1>1, <2>1, <2>2 DEF L!IInv, L!TypeOK
<1>3. ~L!PokeIn(p) /\ L!poked(p) = L!rootDone + 1 /\ L!rootDone \in Nat
  BY <1>1, LBounds DEF L!IInv, L!Balance
<1>4. /\ L!rootDone' = L!rootDone
      /\ \A q \in L!PE : L!poked(q)' = L!poked(q) /\ L!done(q)' = L!done(q)
  BY <1>2 DEF L!rootDone, L!poked, L!done
<1>5. L!PokeIn(p)'
  BY <1>2, <1>3, <1>4 DEF L!PokeIn
<1>6. \A q \in L!PE \ {r} : q # p => (L!PokeIn(q)' <=> L!PokeIn(q))
  BY <1>2, <1>4 DEF L!PokeIn
<1>7. L!Balance'
  BY <1>2, <1>4, <1>5, <1>6 DEF L!IInv, L!Balance, L!Root
<1> DEFINE S == {q \in L!PE \ {L!Root} : L!PokeIn(q)}
<1>8. {q \in L!PE \ {L!Root} : L!PokeIn(q)'} = S \cup {p} /\ p \notin S
  BY <1>1, <1>3, <1>5, <1>6
<1>9. Cardinality(S \cup {p}) = Cardinality(S) + 1
  BY <1>8, LCount, FS_AddElement
<1>10. L!Counting'
  <2>1. pSync[r] = Cardinality(S)
    BY SameCardinality DEF L!IInv, L!Counting
  <2> HIDE DEF S
  <2>2. pSync'[r] = Cardinality({q \in L!PE \ {L!Root} : L!PokeIn(q)'})
    BY <2>1, <1>2, <1>8, <1>9
  <2> QED
    BY <2>2, SameCardinality DEF L!Counting, L!Root
<1>11. L!AllIn' /\ L!ClearsLand' /\ L!Phases'
  BY <1>0, <1>1, <1>2, <1>5, <1>6 DEF L!IInv, L!AllIn, L!ClearsLand, L!Phases, L!Resetting
<1>12. L!TypeOK'
  <2>1. pSync[r] # Cardinality(L!PE) - 1
    BY <1>1, <1>3, LCount, SameCardinality DEF L!IInv, L!Counting
  <2>2. pSync'[r] <= Cardinality(L!PE) - 1
    <3>1. pSync[r] <= Cardinality(L!PE) - 1 /\ pSync[r] \in Nat
      BY <1>0, SameCardinality DEF L!IInv, L!TypeOK
    <3> QED
      BY <3>1, <2>1, <1>2, LSize
  <2> QED
    BY <2>2, <1>2, SameCardinality DEF L!IInv, L!TypeOK
<1> QED
  BY <1>7, <1>10, <1>11, <1>12 DEF L!IInv

LEMMA LDeliverAck ==
  ASSUME L!IInv, N # 1, NEW p \in L!PE, L!DeliverAck(p)
  PROVE  L!IInv'
<1> DEFINE r == L!Root
<1> USE DEF L!DeliverAck
<1>0. r \in L!PE
  BY LSize
<1>1. p # r /\ ack[p] = 1
  BY LTypes DEF L!IInv, L!Phases
<1>2. pSync[p] = 0
  BY <1>1, LWord, LTypes DEF L!IInv
<1>3. /\ ack'[p] = 0 /\ ack' \in [L!PE -> {0, 1}]
      /\ \A q \in L!PE : q # p => ack'[q] = ack[q] /\ pSync'[q] = pSync[q]
      /\ pSync'[p] = 1 /\ pSync' \in [L!PE -> Nat]
      /\ UNCHANGED <<pc, poke, clear, entered, left>>
  <2>1. ack[p] - 1 = 0
    BY <1>1
  <2> QED
    BY <2>1 DEF L!IInv, L!TypeOK
<1>4. /\ L!rootDone' = L!rootDone
      /\ \A q \in L!PE : L!poked(q)' = L!poked(q) /\ L!done(q)' = L!done(q)
      /\ \A q \in L!PE \ {r} : L!PokeIn(q)' <=> L!PokeIn(q)
  BY <1>3 DEF L!rootDone, L!poked, L!done, L!PokeIn
<1>5. L!Balance'
  <2> SUFFICES ASSUME NEW q \in L!PE \ {r}
               PROVE  /\ L!PokeIn(q)' \/ L!poked(q)' = L!rootDone' + poke'[q]
                      /\ left'[r] = L!done(q)' + ack'[q] + pSync'[q]
    BY DEF L!Balance, L!Root
  <2>1. L!PokeIn(q)' \/ L!poked(q)' = L!rootDone' + poke'[q]
    BY <1>3, <1>4 DEF L!IInv, L!Balance
  <2>2. left[r] = L!done(q) + ack[q] + pSync[q] /\ L!done(q) \in Nat
    BY LTypes DEF L!IInv, L!Balance
  <2>3. left'[r] = L!done(q)' + ack'[q] + pSync'[q]
    BY <2>2, <1>1, <1>2, <1>3, <1>4
  <2> QED
    BY <2>1, <2>3
<1>6. L!Counting'
  <2>1. {q \in L!PE \ {L!Root} : L!PokeIn(q)'} = {q \in L!PE \ {L!Root} : L!PokeIn(q)}
    BY <1>4
  <2>2. pSync'[r] = pSync[r]
    BY <1>0, <1>1, <1>3
  <2> QED
    BY <2>1, <2>2 DEF L!IInv, L!Counting, L!Root
<1>7. L!AllIn' /\ L!ClearsLand' /\ L!Phases'
  BY <1>0, <1>1, <1>3, <1>4 DEF L!IInv, L!AllIn, L!ClearsLand, L!Phases, L!Resetting
<1>8. L!TypeOK'
  BY <1>1, <1>3 DEF L!IInv, L!TypeOK
<1> QED
  BY <1>5, <1>6, <1>7, <1>8 DEF L!IInv

\* The reset lands on a word that holds what its owner waited for and no more.
LEMMA LDeliverClear ==
  ASSUME L!IInv, N # 1, NEW p \in L!PE, L!DeliverClear(p)
  PROVE  L!IInv'
<1> DEFINE r == L!Root
<1> USE DEF L!DeliverClear
<1>0. r \in L!PE
  BY LSize
<1>1. clear[p] = 1 /\ pc[p] = "clearing" /\ L!Resetting(p)
  BY LTypes DEF L!IInv, L!ClearsLand, L!Resetting
<1>2. /\ clear'[p] = 0 /\ clear' \in [L!PE -> {0, 1}]
      /\ \A q \in L!PE : q # p => clear'[q] = clear[q] /\ pSync'[q] = pSync[q]
      /\ pSync'[p] = 0 /\ pSync' \in [L!PE -> Nat]
      /\ UNCHANGED <<pc, poke, ack, entered, left>>
  <2>1. clear[p] - 1 = 0
    BY <1>1
  <2> QED
    BY <2>1 DEF L!IInv, L!TypeOK
<1>3. \A q \in L!PE : L!poked(q)' = L!poked(q) /\ (q # p => L!done(q)' = L!done(q))
  BY <1>2 DEF L!poked, L!done
<1>4. L!TypeOK'
  <2>1. \A q \in L!PE : pSync'[q] <= (IF q = r THEN Cardinality(L!PE) - 1 ELSE 1)
    BY <1>2, LSize, SameCardinality DEF L!IInv, L!TypeOK
  <2> QED
    BY <2>1, <1>2, SameCardinality DEF L!IInv, L!TypeOK
<1>5. L!Phases' /\ L!ClearsLand'
  BY <1>0, <1>2 DEF L!IInv, L!Phases, L!ClearsLand
<1>6. CASE p = r
  <2>1. \A q \in L!PE \ {r} : L!PokeIn(q)
    BY <1>1, <1>6 DEF L!IInv, L!AllIn
  <2>2. L!rootDone = left[r] /\ L!rootDone' = left[r] + 1 /\ left[r] \in Nat
    BY <1>0, <1>1, <1>2, <1>6, LTypes DEF L!rootDone, L!IInv
  <2>3. ASSUME NEW q \in L!PE \ {r}
        PROVE  ~L!PokeIn(q)' /\ L!poked(q)' = L!rootDone' + poke'[q]
    <3>1. L!poked(q) = left[r] + poke[q] + 1 /\ poke[q] = 0
      BY <2>1, <2>2, LBounds DEF L!PokeIn
    <3> QED
      BY <3>1, <2>2, <1>2, <1>3 DEF L!PokeIn
  <2>4. L!Balance'
    BY <2>3, <1>2, <1>3, <1>6 DEF L!IInv, L!Balance, L!Root
  <2>5. L!Counting'
    <3>1. {q \in L!PE \ {L!Root} : L!PokeIn(q)'} = {}
      BY <2>3
    <3>2. Cardinality({q \in L!PE \ {L!Root} : L!PokeIn(q)'}) = 0
      BY <3>1, FS_EmptySet
    <3> QED
      BY <3>2, <1>2, <1>6, SameCardinality DEF L!Counting, L!Root
  <2>6. L!AllIn'
    BY <1>0, <1>1, <1>2, <1>6 DEF L!IInv, L!AllIn, L!Resetting, L!Root
  <2> QED
    BY <2>4, <2>5, <2>6, <1>4, <1>5 DEF L!IInv
<1>7. CASE p # r
  <2>1. L!rootDone' = L!rootDone
    BY <1>0, <1>2, <1>7 DEF L!rootDone
  <2>2. \A q \in L!PE \ {r} : L!PokeIn(q)' <=> L!PokeIn(q)
    BY <2>1, <1>2, <1>3 DEF L!PokeIn
  <2>3. pSync[p] = 1
    <3>1. pSync[p] # 0 /\ pSync[p] \in Nat /\ ack[p] \in {0, 1}
      BY <1>1, <1>7, LTypes DEF L!IInv, L!AllIn
    <3> QED
      BY <3>1, <1>7, LWord
  <2>4. L!done(p)' = L!done(p) + 1 /\ L!done(p) \in Nat
    BY <1>1, <1>2, LTypes DEF L!done, L!IInv
  <2>5. L!Balance'
    <3> SUFFICES ASSUME NEW q \in L!PE \ {r}
                 PROVE  /\ L!PokeIn(q)' \/ L!poked(q)' = L!rootDone' + poke'[q]
                        /\ left'[r] = L!done(q)' + ack'[q] + pSync'[q]
      BY DEF L!Balance, L!Root
    <3>1. L!PokeIn(q)' \/ L!poked(q)' = L!rootDone' + poke'[q]
      BY <2>1, <2>2, <1>2, <1>3 DEF L!IInv, L!Balance
    <3>2. left[r] = L!done(q) + ack[q] + pSync[q] /\ ack[q] \in {0, 1}
      BY LTypes DEF L!IInv, L!Balance
    <3>3. L!done(q)' = L!done(q) + (IF q = p THEN 1 ELSE 0) /\ L!done(q) \in Nat
      BY <2>4, <1>3, LTypes DEF L!IInv
    <3>4. pSync'[q] = pSync[q] - (IF q = p THEN 1 ELSE 0) /\ pSync[q] \in Nat
      BY <2>3, <1>2, LTypes DEF L!IInv
    <3> QED
      BY <3>1, <3>2, <3>3, <3>4, <1>2
  <2>6. L!Counting'
    <3>1. {q \in L!PE \ {L!Root} : L!PokeIn(q)'} = {q \in L!PE \ {L!Root} : L!PokeIn(q)}
      BY <2>2
    <3>2. pSync'[r] = pSync[r]
      BY <1>0, <1>2, <1>7
    <3> QED
      BY <3>1, <3>2 DEF L!IInv, L!Counting, L!Root
  <2>7. L!AllIn'
    BY <1>0, <1>1, <1>2, <1>7, <2>2 DEF L!IInv, L!AllIn, L!Resetting
  <2> QED
    BY <2>5, <2>6, <2>7, <1>4, <1>5 DEF L!IInv
<1> QED
  BY <1>6, <1>7

LEMMA LNext ==
  ASSUME L!IInv, N # 1, [L!Next]_(L!vars)
  PROVE  L!IInv'
<1>1. CASE UNCHANGED L!vars
  <2>1. UNCHANGED <<pc, pSync, poke, ack, clear, entered, left>>
    BY <1>1 DEF L!vars
  <2>2. L!rootDone' = L!rootDone
        /\ \A q \in L!PE : L!poked(q)' = L!poked(q) /\ L!done(q)' = L!done(q)
    BY <2>1 DEF L!rootDone, L!poked, L!done
  <2>3. /\ L!Balance' /\ L!Counting'
        /\ \A q \in L!PE \ {L!Root} : L!PokeIn(q)' <=> L!PokeIn(q)
    BY <2>1, <2>2, LSame
  <2> QED
    BY <2>1, <2>3
    DEF L!IInv, L!TypeOK, L!Phases, L!AllIn, L!ClearsLand, L!Resetting
<1>2. ASSUME NEW p \in L!PE, L!Enter(p) \/ L!Advance(p) PROVE L!IInv'
  BY <1>2, LEnter, LCountStep, LPoke, LReset, LCleared, LAcks DEF L!Advance
<1>3. ASSUME NEW p \in L!PE, L!Fabric(p) PROVE L!IInv'
  BY <1>3, LDeliverPoke, LDeliverAck, LDeliverClear DEF L!Fabric
<1> QED
  BY <1>1, <1>2, <1>3 DEF L!Next, L!Finished

LEMMA LNoSignal ==
  ASSUME L!IInv, N # 1
  PROVE  L!NoSignalDuringReset
<1> DEFINE r == L!Root
<1> SUFFICES ASSUME NEW p \in L!PE, clear[p] > 0
             PROVE  /\ p = r => \A q \in L!PE : poke[q] = 0
                    /\ p # r => ack[p] = 0
                    /\ pSync[p] = IF p = r THEN Cardinality(L!PE) - 1 ELSE 1
  BY SameCardinality DEF L!NoSignalDuringReset
<1>1. clear[p] # 0 /\ L!Resetting(p) /\ r \in L!PE
  BY LTypes, LSize DEF L!IInv, L!Resetting
<1>2. CASE p = r
  <2>1. \A q \in L!PE \ {r} : L!PokeIn(q)
    BY <1>1, <1>2 DEF L!IInv, L!AllIn
  <2>2. \A q \in L!PE : poke[q] = 0
    BY <2>1, LBounds DEF L!IInv, L!Phases
  <2>3. pSync[r] = Cardinality(L!PE) - 1
    BY <2>1, LCount, SameCardinality DEF L!IInv, L!Counting
  <2> QED
    BY <1>2, <2>2, <2>3
<1>3. CASE p # r
  <2>1. pSync[p] # 0 /\ pSync[p] \in Nat /\ ack[p] \in {0, 1}
    BY <1>1, <1>3, LTypes DEF L!IInv, L!AllIn
  <2> QED
    BY <2>1, <1>3, LWord
<1> QED
  BY <1>2, <1>3

------------------------------------------------------------------------------
\* The linear barrier on one PE, whose resets may be late and change nothing.

LEMMA AloneFacts ==
  ASSUME N = 1
  PROVE  L!PE = {L!Root} /\ Cardinality(L!PE) = 1 /\ PE = {L!Root}
<1>1. L!PE = {0} /\ L!Root = 0 /\ PE = {0}
  BY DEF L!PE, L!Root, PE
<1> QED
  BY <1>1, FS_Singleton

LEMMA AloneInit ==
  ASSUME N = 1, L!Init
  PROVE  L!Alone
BY AloneFacts, ParameterAssumption DEF L!Init, L!Alone, L!Phases

LEMMA AloneNext ==
  ASSUME N = 1, L!Alone, [L!Next]_(L!vars)
  PROVE  L!Alone'
<1> DEFINE r == L!Root
<1>0. L!PE = {r} /\ PE = {r}
  BY AloneFacts
<1>1. /\ pc[r] \notin {"poke", "await"} /\ poke[r] = 0 /\ ack[r] = 0 /\ pSync[r] = 0
      /\ entered[r] = left[r] + (IF pc[r] = "out" THEN 0 ELSE 1)
      /\ entered[r] \in Nat /\ left[r] \in Nat
  BY <1>0 DEF L!Alone, L!Phases
<1>2. CASE UNCHANGED L!vars
  BY <1>2 DEF L!vars, L!Alone, L!Phases, L!Root
<1>3. CASE L!Enter(r)
  BY <1>0, <1>1, <1>3 DEF L!Enter, L!Goto, L!Alone, L!Phases, L!Root
<1>4. CASE L!Count(r) \/ L!Reset(r)
  BY <1>0, <1>1, <1>4 DEF L!Count, L!Reset, L!Goto, L!Alone, L!Phases, L!Root
<1>5. CASE L!Cleared(r) \/ L!Acks(r)
  <2>1. pSync' = pSync /\ poke' = poke /\ entered' = entered
        /\ DOMAIN pc' = L!PE /\ DOMAIN ack' = L!PE /\ ack'[r] = ack[r]
    BY <1>0, <1>5 DEF L!Cleared, L!Acks, L!Return, L!Goto, L!Alone
  <2>2. CASE L!Cleared(r)
    BY <2>1, <2>2, <1>0, <1>1 DEF L!Cleared, L!Goto, L!Alone, L!Phases, L!Root
  <2>3. CASE L!Acks(r)
    BY <2>1, <2>3, <1>0, <1>1 DEF L!Acks, L!Return, L!Goto, L!Alone, L!Phases, L!Root
  <2> QED
    BY <1>5, <2>2, <2>3
<1>6. ~L!Poke(r) /\ ~L!Await(r) /\ ~L!DeliverPoke(r) /\ ~L!DeliverAck(r)
  BY <1>1 DEF L!Poke, L!Await, L!Goto, L!DeliverPoke, L!DeliverAck
<1>7. CASE L!DeliverClear(r)
  BY <1>0, <1>1, <1>7 DEF L!DeliverClear, L!Alone, L!Phases, L!Root
<1> QED
  BY <1>0, <1>2, <1>3, <1>4, <1>5, <1>6, <1>7
  DEF L!Next, L!Advance, L!Fabric, L!Finished

------------------------------------------------------------------------------
\* The steps of either algorithm are steps of a barrier.

LEMMA SamePE == L!PE = PE /\ D!PE = PE
BY DEF L!PE, D!PE, PE

LEMMA LRefines ==
  ASSUME L!IInv, N # 1, L!Next
  PROVE  Abstract!Next \/ UNCHANGED <<entered, left>>
<1> DEFINE r == L!Root
<1>0. r \in L!PE /\ L!PE = PE
  BY LSize, SamePE
<1>1. ASSUME NEW p \in L!PE, L!Enter(p) PROVE Abstract!Enter(p)
  BY <1>1, LTypes DEF L!Enter, L!Goto, L!IInv, L!Phases, Abstract!Enter
<1>2. \A q \in L!PE \ {r} : L!poked(q) <= entered[q]
  <2> SUFFICES ASSUME NEW q \in L!PE \ {r} PROVE L!poked(q) <= entered[q]
    OBVIOUS
  <2>1. left[q] \in Nat /\ entered[q] = left[q] + (IF pc[q] = "out" THEN 0 ELSE 1)
    BY LTypes DEF L!IInv, L!Phases
  <2> QED
    BY <2>1 DEF L!poked
<1>3. \A q \in L!PE : entered[q] \in Nat /\ left[q] \in Nat /\ left[q] <= entered[q]
  BY LTypes DEF L!IInv, L!Phases
<1>4. ASSUME L!Acks(r) PROVE Abstract!Leave(r)
  <2>1. /\ pc[r] = "acks" /\ left[r] \in Nat /\ entered[r] = left[r] + 1
        /\ L!rootDone = left[r] + 1
    BY <1>0, <1>3, <1>4 DEF L!Acks, L!Return, L!Goto, L!IInv, L!Phases, L!rootDone
  <2>2. \A q \in L!PE : entered[q] >= entered[r]
    <3> SUFFICES ASSUME NEW q \in L!PE \ {r} PROVE entered[q] >= entered[r]
      BY <2>1
    <3>1. L!rootDone <= L!poked(q) /\ L!poked(q) <= entered[q] /\ L!poked(q) \in Nat
      BY <1>2, LBounds, LTypes DEF L!IInv
    <3> QED
      BY <3>1, <2>1, <1>3
  <2> QED
    BY <2>1, <2>2, <1>0, <1>4 DEF L!Acks, L!Return, Abstract!Leave
<1>5. ASSUME NEW p \in L!PE \ {r}, L!Cleared(p) PROVE Abstract!Leave(p)
  <2>1. pc[p] = "clearing" /\ clear[p] = 0
    BY <1>5, LShows DEF L!Cleared, L!Return, L!Goto
  <2>2. left[p] \in Nat /\ entered[p] = left[p] + 1 /\ L!done(p) = left[p] + 1
    BY <2>1, LTypes DEF L!IInv, L!Phases, L!done
  <2>3. entered[r] >= entered[p] /\ left[r] >= entered[p]
    <3>1. L!done(p) <= left[r]
      BY LBounds
    <3> QED
      BY <3>1, <2>2, <1>0, <1>3
  <2>4. \A q \in L!PE : entered[q] >= entered[p]
    <3> SUFFICES ASSUME NEW q \in L!PE \ {r} PROVE entered[q] >= entered[p]
      BY <2>3
    <3>1. left[r] <= L!rootDone /\ L!rootDone <= L!poked(q) /\ L!rootDone \in Nat
          /\ L!poked(q) <= entered[q] /\ L!poked(q) \in Nat
      BY <1>2, LBounds, LTypes DEF L!IInv
    <3> QED
      BY <3>1, <2>2, <2>3, <1>0, <1>3
  <2> QED
    BY <2>2, <2>4, <1>0, <1>5 DEF L!Cleared, L!Return, Abstract!Leave
<1>6. ASSUME NEW p \in L!PE, ~L!Enter(p), L!Enter(p) \/ L!Advance(p) \/ L!Fabric(p),
             p = r => ~L!Acks(r), p # r => ~L!Cleared(p)
      PROVE  UNCHANGED <<entered, left>>
  <2>1. CASE L!Acks(p)
    BY <2>1, <1>6 DEF L!Acks, L!Return, L!Goto, L!IInv, L!Phases
  <2>2. CASE ~L!Acks(p)
    BY <2>2, <1>6 DEF L!Advance, L!Fabric, L!Count, L!Poke, L!Await, L!Reset, L!Cleared,
       L!DeliverPoke, L!DeliverAck, L!DeliverClear
  <2> QED
    BY <2>1, <2>2
<1>7. CASE L!Finished
  BY <1>7 DEF L!Finished, L!vars
<1>8. ASSUME NEW p \in L!PE, L!Enter(p) \/ L!Advance(p) \/ L!Fabric(p)
      PROVE  Abstract!Next \/ UNCHANGED <<entered, left>>
  BY <1>0, <1>1, <1>4, <1>5, <1>6, <1>8 DEF Abstract!Next
<1> QED
  BY <1>7, <1>8 DEF L!Next

LEMMA AloneRefines ==
  ASSUME L!Alone, N = 1, L!Next
  PROVE  Abstract!Next \/ UNCHANGED <<entered, left>>
<1> DEFINE r == L!Root
<1>0. L!PE = {r} /\ PE = {r}
  BY AloneFacts
<1>1. /\ entered[r] = left[r] + (IF pc[r] = "out" THEN 0 ELSE 1)
      /\ entered[r] \in Nat /\ left[r] \in Nat
  BY <1>0 DEF L!Alone, L!Phases
<1>2. ASSUME L!Enter(r) PROVE Abstract!Enter(r)
  <2>1. pc[r] = "out" /\ entered[r] = left[r]
    <3>1. pc[r] = "out"
      BY <1>2 DEF L!Enter, L!Goto
    <3> QED
      BY <3>1, <1>1
  <2> QED
    BY <1>2, <2>1 DEF L!Enter, Abstract!Enter
<1>3. ASSUME L!Acks(r) PROVE Abstract!Leave(r)
  <2>1. pc[r] = "acks" /\ left' = [left EXCEPT ![r] = @ + 1] /\ entered' = entered
    BY <1>3 DEF L!Acks, L!Return, L!Goto
  <2>2. left[r] < entered[r]
    BY <1>1, <2>1
  <2> QED
    BY <1>0, <1>1, <2>1, <2>2 DEF Abstract!Leave
<1>4. CASE ~L!Enter(r) /\ ~L!Acks(r)
  BY <1>0, <1>4
  DEF L!Next, L!Advance, L!Fabric, L!Count, L!Poke, L!Await, L!Reset, L!Cleared,
      L!DeliverPoke, L!DeliverAck, L!DeliverClear, L!Finished, L!vars
<1> QED
  BY <1>0, <1>2, <1>3, <1>4 DEF Abstract!Next

LEMMA DRefines ==
  ASSUME D!IInv, D!Next
  PROVE  Abstract!Next \/ UNCHANGED <<entered, left>>
<1>0. D!PE = PE
  BY SamePE
<1>1. ASSUME NEW p \in D!PE, D!Enter(p) PROVE Abstract!Enter(p)
  BY <1>1, DTypes DEF D!Enter, D!IInv, D!Phases, Abstract!Enter
<1>2. ASSUME NEW p \in D!PE, D!Leave(p) PROVE Abstract!Leave(p)
  <2>1. left[p] \in Nat /\ entered[p] = left[p] + 1
    BY <1>2, DTypes DEF D!Leave, D!IInv, D!Phases
  <2>2. \A q \in D!PE : entered[p] <= entered[q] /\ entered[q] \in Nat
    BY <1>2, DHeardAll, DTypes DEF D!Leave, D!IInv
  <2> QED
    BY <2>1, <2>2, <1>0, <1>2 DEF D!Leave, Abstract!Leave
<1>3. ASSUME NEW p \in D!PE, D!Poke(p) \/ D!Wait(p) \/ D!Reset(p)
      PROVE  UNCHANGED <<entered, left>>
  BY <1>3 DEF D!Poke, D!Wait, D!Reset
<1>4. ASSUME NEW p \in D!PE, NEW k \in D!Rounds, D!DeliverPoke(p, k)
      PROVE  UNCHANGED <<entered, left>>
  BY <1>4 DEF D!DeliverPoke
<1>5. CASE D!Finished
  BY <1>5 DEF D!Finished, D!vars
<1> QED
  BY <1>0, <1>1, <1>2, <1>3, <1>4, <1>5 DEF D!Next, D!Advance, Abstract!Next

------------------------------------------------------------------------------
\* The theorems.

LEMMA InitIInv == Init => IInv
BY LInit, AloneInit, DInit DEF Init, IInv

LEMMA NextIInv ==
  ASSUME IInv, [Next]_vars
  PROVE  IInv'
<1>1. CASE UNCHANGED vars
  <2>1. UNCHANGED L!vars /\ UNCHANGED D!vars /\ algorithm' = algorithm
    BY <1>1 DEF vars, L!vars, D!vars
  <2> QED
    BY <2>1, LNext, AloneNext, DNext DEF IInv
<1>2. CASE Linear /\ L!Next
  BY <1>2, LNext, AloneNext DEF IInv, Linear
<1>3. CASE Dissemination /\ D!Next
  BY <1>3, DNext DEF IInv, Dissemination
<1> QED
  BY <1>1, <1>2, <1>3 DEF Next

\* The invariant of the algorithm that was chosen holds throughout: what was
\* poked and acked is in flight, in a word or used up, on every pair of PEs that
\* signal each other (barrier.c:25-58,202-232).
THEOREM Invariance == Spec => []IInv
<1>1. IInv /\ [Next]_vars => IInv'
  BY NextIInv
<1> QED
  BY InitIInv, <1>1, PTL DEF Spec

\* No reset of the linear barrier overwrites a poke or an ack, whenever the put
\* of the reset lands.
THEOREM ResetSafe == Spec => []NoSignalDuringReset
<1>1. IInv => NoSignalDuringReset
  <2> SUFFICES ASSUME IInv, algorithm = "linear" PROVE L!NoSignalDuringReset
    BY DEF NoSignalDuringReset
  <2>1. CASE N = 1
    BY <2>1, AloneFacts, SameCardinality
    DEF IInv, L!Alone, L!Phases, L!NoSignalDuringReset
  <2>2. CASE N # 1
    BY <2>2, LNoSignal DEF IInv
  <2> QED
    BY <2>1, <2>2
<1> QED
  BY Invariance, <1>1, PTL

\* Either algorithm is a barrier: each of its steps enters or leaves as module
\* Barrier says, or changes neither count.
THEOREM Refinement == Spec => Abstract!SafeSpec
<1>1. Init => Abstract!Init
  BY SamePE DEF Init, L!Init, D!Init, Abstract!Init
<1>2. IInv /\ [Next]_vars => [Abstract!Next]_(Abstract!vars)
  <2> SUFFICES ASSUME IInv, [Next]_vars
               PROVE  Abstract!Next \/ UNCHANGED <<entered, left>>
    BY DEF Abstract!vars
  <2>1. CASE UNCHANGED vars
    BY <2>1 DEF vars
  <2>2. CASE Linear /\ L!Next
    BY <2>2, LRefines, AloneRefines DEF IInv, Linear
  <2>3. CASE Dissemination /\ D!Next
    BY <2>3, DRefines DEF IInv, Dissemination
  <2> QED
    BY <2>1, <2>2, <2>3 DEF Next
<1> QED
  BY <1>1, <1>2, Invariance, PTL DEF Spec, Abstract!SafeSpec

------------------------------------------------------------------------------
\* A program: the statements of a PE that reads nothing from its pSync.

\* s is a sequence of whatever it has
IsList(s) == Len(s) \in Nat /\ s = [k \in 1..Len(s) |-> s[k]]

Program(c, p) == Statements(c, p, <<>>)
Size(c, p) == Len(Program(c, p))
Stm(c, p, k) == Program(c, p)[k]
AllPEs(c) == 0..(c.npes - 1)
Sent == {"put", "p", "add"}
Moved == {"put", "copy"}

\* who gets what statement k of p puts or copies
Target(c, p, k) == IF Stm(c, p, k).do = "copy" THEN p ELSE Stm(c, p, k).pe

\* The call: an active set of the job's PEs.
Called(c) ==
  /\ c.npes \in Nat /\ c.n \in Nat \ {0} /\ c.late \in BOOLEAN
  /\ c.coll \in {"collect", "fcollect", "alltoall", "alltoalls", "broadcast"}
  /\ ActiveSet(c) \subseteq AllPEs(c)
  /\ DestLength(c) \in Nat
  /\ \A p \in ActiveSet(c) : SourceLength(c, p) \in Nat

\* A program of puts from source, flags, fences, copies, waits and barriers that stays
\* in the buffers.
Straight(c) ==
  \A p \in ActiveSet(c) :
    /\ IsList(Program(c, p))
    /\ \A k \in 1..Size(c, p) :
         /\ Stm(c, p, k).do \in {"put", "p", "add", "fence", "copy", "wait", "barrier"}
         /\ Stm(c, p, k).do \in Sent => Stm(c, p, k).pe \in ActiveSet(c)
         /\ Stm(c, p, k).do = "copy" => Stm(c, p, k).to = "dest"
         /\ Stm(c, p, k).do \in Moved =>
              /\ Stm(c, p, k).from = "source"
              /\ Stm(c, p, k).at \in Nat /\ Stm(c, p, k).src \in Nat /\ Stm(c, p, k).len \in Nat
              /\ Stm(c, p, k).at + Stm(c, p, k).len <= DestLength(c)
              /\ Stm(c, p, k).src + Stm(c, p, k).len <= SourceLength(c, p)

\* What it moves is what belongs there, and what nobody moves to is left alone.
Carries(c) ==
  /\ \A p \in ActiveSet(c) : \A k \in 1..Size(c, p) : \A x \in Nat :
       Stm(c, p, k).do \in Moved /\ x < Stm(c, p, k).len =>
         Element(c, p, Stm(c, p, k).src + x)
           = Result(c, Target(c, p, k))[Stm(c, p, k).at + x]
  /\ \A q \in ActiveSet(c) : \A j \in 0..(DestLength(c) - 1) :
       \/ Result(c, q)[j] = 0
       \/ \E p \in ActiveSet(c) : \E k \in 1..Size(c, p) :
            /\ Stm(c, p, k).do \in Moved /\ Target(c, p, k) = q
            /\ Stm(c, p, k).at <= j /\ j < Stm(c, p, k).at + Stm(c, p, k).len

------------------------------------------------------------------------------
\* The invariant of every such program.

Source(c, p) == [k \in 0..(SourceLength(c, p) - 1) |-> Element(c, p, k)]

Typed(c) ==
  /\ case = c
  /\ at \in [AllPEs(c) -> Nat]
  /\ known = [p \in AllPEs(c) |-> <<>>]
  /\ DOMAIN doing = AllPEs(c)
  /\ fences \in [AllPEs(c) -> Nat]
  /\ arrived \in [AllPEs(c) -> Nat]
  /\ DOMAIN mem = AllPEs(c)
  /\ \A p \in AllPEs(c) : DOMAIN mem[p] = {"source", "dest", "tmp"}
  /\ \A p \in AllPEs(c) : mem[p].source = Source(c, p)
  /\ \A p \in AllPEs(c) : mem[p].dest = [j \in 0..(DestLength(c) - 1) |-> mem[p].dest[j]]

SlotsKept(c) ==
  /\ DOMAIN psync = AllPEs(c)
  /\ \A p \in AllPEs(c) : /\ psync[p] = [s \in DOMAIN psync[p] |-> psync[p][s]]
                          /\ \A s \in DOMAIN psync[p] : psync[p][s] # SHCOLL_SYNC_VALUE

\* where a PE is
Positioned(c, p) ==
  /\ at[p] <= Size(c, p) + 1
  /\ at[p] = 0 => doing[p] = [do |-> "enter"]
  /\ at[p] = Size(c, p) + 1 => doing[p] = Return
  /\ at[p] \in 1..Size(c, p) =>
       /\ Stm(c, p, at[p]).do \notin Asking
       /\ \/ doing[p] = Stm(c, p, at[p])
          \/ Stm(c, p, at[p]).do = "barrier" /\ doing[p] = [do |-> "leave"]
Position(c) ==
  /\ \A p \in ActiveSet(c) : Positioned(c, p)
  /\ \A p \in AllPEs(c) \ ActiveSet(c) : at[p] = 0 /\ doing[p] = Return

\* what is in flight
SentBy(c, o) ==
  /\ o.from \in ActiveSet(c)
  /\ o.k \in 1..Size(c, o.from) /\ o.k < at[o.from]
  /\ Stm(c, o.from, o.k).do \in Sent
  /\ o.asked = Stm(c, o.from, o.k)
  /\ o.to = Stm(c, o.from, o.k).pe
  /\ o.cells = <<>> \/
       /\ o.asked.do = "put"
       /\ o.cells = [x \in 0..(o.asked.len - 1) |-> Element(c, o.from, o.asked.src + x)]
  /\ o.fence \in Nat /\ o.fence <= fences[o.from]
InFlight(c) ==
  /\ \A o \in flight : SentBy(c, o)
  /\ \A o \in flight : \A e \in flight : o.from = e.from /\ o.k = e.k => o = e

\* the fences between two statements
Fenced(c, p, k, l) == \E j \in (k + 1)..(l - 1) : Stm(c, p, j).do = "fence"
Done(p, k) == k < at[p] /\ \A o \in flight : o.from = p => o.k # k
FenceOrder(c) ==
  /\ \A o \in flight : Fenced(c, o.from, o.k, at[o.from]) => o.fence < fences[o.from]
  /\ \A o \in flight : \A e \in flight :
       o.from = e.from /\ Fenced(c, o.from, o.k, e.k) => o.fence < e.fence
  /\ \A o \in flight : \A l \in 1..Size(c, o.from) :
       /\ Fenced(c, o.from, o.k, l)
       /\ Stm(c, o.from, l).do \in Sent /\ Stm(c, o.from, l).pe = o.to
       => ~Done(o.from, l)

\* what has come is what belongs there
Delivered(c) ==
  /\ \A p \in ActiveSet(c) : \A k \in 1..Size(c, p) : \A x \in Nat :
       /\ Stm(c, p, k).do \in Moved /\ x < Stm(c, p, k).len
       /\ Done(p, k)
       => mem[Target(c, p, k)].dest[Stm(c, p, k).at + x]
            = Result(c, Target(c, p, k))[Stm(c, p, k).at + x]
  /\ \A q \in ActiveSet(c) : \A j \in 0..(DestLength(c) - 1) :
       mem[q].dest[j] \in {0, Result(c, q)[j]}

FlowInv(c) ==
  Typed(c) /\ SlotsKept(c) /\ Position(c) /\ InFlight(c) /\ FenceOrder(c) /\ Delivered(c)

------------------------------------------------------------------------------
\* Lists.

LEMMA EveryListHasASet ==
  ASSUME NEW s, IsList(s)
  PROVE  s \in Seq({s[k] : k \in 1..Len(s)})
<1> DEFINE S == {s[k] : k \in 1..Len(s)}
<1>1. [k \in 1..Len(s) |-> s[k]] \in [1..Len(s) -> S]
  OBVIOUS
<1>2. s \in [1..Len(s) -> S] /\ Len(s) \in Nat
  BY <1>1 DEF IsList
<1> QED
  BY <1>2, SeqDef

LEMMA SeqIsList ==
  ASSUME NEW S, NEW s \in Seq(S)
  PROVE  IsList(s)
<1>1. Len(s) \in Nat /\ s \in [1..Len(s) -> S]
  BY LenProperties
<1> QED
  BY <1>1 DEF IsList

\* A list that is written as a function.
LEMMA WrittenList ==
  ASSUME NEW n \in Nat, NEW s, s = [k \in 1..n |-> s[k]]
  PROVE  IsList(s) /\ Len(s) = n
<1> DEFINE S == {s[k] : k \in 1..n}
<1>1. s \in [1..n -> S]
  OBVIOUS
<1>2. s \in Seq(S)
  BY <1>1, SeqDef
<1>3. DOMAIN s = 1..n /\ DOMAIN s = 1..Len(s) /\ Len(s) \in Nat
  BY <1>1, <1>2, LenProperties
<1>4. Len(s) = n
  BY <1>3
<1> QED
  BY <1>4 DEF IsList

LEMMA Concatenated ==
  ASSUME NEW s, NEW t, IsList(s), IsList(t)
  PROVE  /\ IsList(s \o t)
         /\ Len(s \o t) = Len(s) + Len(t)
         /\ \A i \in 1..Len(s) : (s \o t)[i] = s[i]
         /\ \A i \in 1..Len(t) : (s \o t)[Len(s) + i] = t[i]
<1> DEFINE A == {s[k] : k \in 1..Len(s)}
           B == {t[k] : k \in 1..Len(t)}
           S == A \cup B
<1>1. s \in Seq(A) /\ t \in Seq(B)
  BY EveryListHasASet
<1>2. Len(s) \in Nat /\ Len(t) \in Nat /\ s \in [1..Len(s) -> A] /\ t \in [1..Len(t) -> B]
  BY <1>1, LenProperties
<1>3. s \in [1..Len(s) -> S] /\ t \in [1..Len(t) -> S]
  BY <1>2
<1>4. s \in Seq(S) /\ t \in Seq(S)
  BY <1>2, <1>3, SeqDef
<1> HIDE DEF S
<1>5. /\ s \o t \in Seq(S)
      /\ Len(s \o t) = Len(s) + Len(t)
      /\ \A i \in 1..Len(s) + Len(t) :
           (s \o t)[i] = IF i <= Len(s) THEN s[i] ELSE t[i - Len(s)]
  BY <1>4, ConcatProperties
<1>6. IsList(s \o t)
  BY <1>5, SeqIsList
<1>7. ASSUME NEW i \in 1..Len(s)
      PROVE  (s \o t)[i] = s[i]
  <2>1. i \in 1..Len(s) + Len(t) /\ i <= Len(s)
    BY <1>2
  <2> QED
    BY <1>5, <2>1
<1>8. ASSUME NEW i \in 1..Len(t)
      PROVE  (s \o t)[Len(s) + i] = t[i]
  <2>1. Len(s) + i \in 1..Len(s) + Len(t) /\ ~(Len(s) + i <= Len(s)) /\ (Len(s) + i) - Len(s) = i
    BY <1>2
  <2> QED
    BY <1>5, <2>1
<1> QED
  BY <1>5, <1>6, <1>7, <1>8

LEMMA LeastIn ==
  ASSUME NEW T \in SUBSET Nat, T # {}
  PROVE  \E x \in T : \A y \in T : x <= y
<1>1. IsWellFoundedOn(OpToRel(<, Nat), Nat)
  BY NatLessThanWellFounded
<1>2. PICK x \in T : \A y \in T : ~ (<<y, x>> \in OpToRel(<, Nat))
  BY <1>1, WFMin
<1>3. \A y \in T : ~(y < x)
  BY <1>2 DEF OpToRel
<1> QED
  BY <1>3

\* What is asked of a list from one statement on.
Asked(s, first, next) ==
  /\ next = Len(s) + 1 \/ s[next].do \notin Asking
  /\ \A j \in first..(next - 1) : s[j].do \in Asking
  /\ Len(AskedFrom(s, first)) = next - first
  /\ DOMAIN AskedFrom(s, first) = 1..(next - first)
  /\ \A i \in 1..(next - first) : AskedFrom(s, first)[i] = s[first + i - 1]

LEMMA AskedOnes ==
  ASSUME NEW s, NEW first, IsList(s), first \in 1..(Len(s) + 1)
  PROVE  \E next \in first..(Len(s) + 1) : Asked(s, first, next)
<1> DEFINE Stop(k) == /\ k = Len(s) + 1 \/ s[k].do \notin Asking
                      /\ \A j \in first..(k - 1) : s[j].do \in Asking
           T == {k \in first..(Len(s) + 1) : k = Len(s) + 1 \/ s[k].do \notin Asking}
           upTo == CHOOSE k \in first..(Len(s) + 1) : Stop(k)
<1>1. Len(s) \in Nat
  BY DEF IsList
<1>2. T \in SUBSET Nat /\ Len(s) + 1 \in T
  BY <1>1
<1>3. PICK x \in T : \A y \in T : x <= y
  <2> HIDE DEF T
  <2> QED
    BY <1>2, LeastIn
<1>4. Stop(x)
  <2>1. SUFFICES ASSUME NEW j \in first..(x - 1) PROVE s[j].do \in Asking
    BY DEF T
  <2>2. j \notin T
    BY <1>1, <1>3
  <2> QED
    BY <1>1, <2>2
<1>5. upTo \in first..(Len(s) + 1) /\ Stop(upTo)
  <2> HIDE DEF Stop
  <2> QED
    BY <1>4
<1>6. AskedFrom(s, first) = SubSeq(s, first, upTo - 1)
  BY DEF AskedFrom
<1> HIDE DEF upTo
<1> DEFINE S == {s[k] : k \in 1..Len(s)}
<1>7. first \in Int /\ upTo - 1 \in Int /\ \A i \in first..(upTo - 1) : s[i] \in S
  BY <1>1, <1>5
<1> HIDE DEF S
<1>8. /\ AskedFrom(s, first) \in Seq(S)
      /\ Len(AskedFrom(s, first)) = IF first <= upTo - 1 THEN upTo - 1 - first + 1 ELSE 0
      /\ \A i \in 1..(upTo - 1 - first + 1) : AskedFrom(s, first)[i] = s[first + i - 1]
  BY <1>6, <1>7, SubSeqProperties
<1>9. Len(AskedFrom(s, first)) = upTo - first
  BY <1>5, <1>8
<1>10. DOMAIN AskedFrom(s, first) = 1..(upTo - first)
  BY <1>8, <1>9, LenProperties
<1>11. upTo - 1 - first + 1 = upTo - first
  BY <1>5
<1> QED
  BY <1>5, <1>8, <1>9, <1>10, <1>11 DEF Asked

------------------------------------------------------------------------------
\* The flags.

LEMMA SlotWritten ==
  ASSUME NEW c, SlotsKept(c), NEW q \in AllPEs(c), NEW s, NEW v, psync' = WithSlot(q, s, v)
  PROVE  /\ SlotsKept(c)'
         /\ \A r \in AllPEs(c) : \A t :
              Slot(r, t)' = IF r = q /\ t = s THEN v ELSE Slot(r, t)
<1> DEFINE used == (DOMAIN psync[q] \ {s}) \cup (IF v = SHCOLL_SYNC_VALUE THEN {} ELSE {s})
           new == [t \in used |-> IF t = s THEN v ELSE psync[q][t]]
<1>1. DOMAIN psync = AllPEs(c)
  BY DEF SlotsKept
<1>2. psync' = [psync EXCEPT ![q] = new]
  BY DEF WithSlot
<1>3. DOMAIN psync' = AllPEs(c) /\ psync'[q] = new
      /\ \A r \in AllPEs(c) \ {q} : psync'[r] = psync[r]
  <2> HIDE DEF new
  <2> QED
    BY <1>1, <1>2
<1>4. DOMAIN new = used /\ new = [t \in DOMAIN new |-> new[t]]
  OBVIOUS
<1>5. \A t \in used : new[t] # SHCOLL_SYNC_VALUE
  BY DEF SlotsKept
<1>6. SlotsKept(c)'
  <2>1. \A r \in AllPEs(c) : /\ psync'[r] = [t \in DOMAIN psync'[r] |-> psync'[r][t]]
                             /\ \A t \in DOMAIN psync'[r] : psync'[r][t] # SHCOLL_SYNC_VALUE
    <3> TAKE r \in AllPEs(c)
    <3>1. CASE r = q
      <4> HIDE DEF new, used
      <4> QED
        BY <1>3, <1>4, <1>5, <3>1
    <3>2. CASE r # q
      BY <1>3, <3>2 DEF SlotsKept
    <3> QED
      BY <3>1, <3>2
  <2> QED
    BY <1>3, <2>1 DEF SlotsKept, AllPEs
<1>7. ASSUME NEW r \in AllPEs(c), NEW t
      PROVE  Slot(r, t)' = IF r = q /\ t = s THEN v ELSE Slot(r, t)
  <2>1. CASE r = q
    <3>1. psync'[r] = new
      BY <1>3, <2>1
    <3>2. t \in used <=> (t # s /\ t \in DOMAIN psync[q]) \/ (t = s /\ v # SHCOLL_SYNC_VALUE)
      OBVIOUS
    <3>3. t \in used => new[t] = IF t = s THEN v ELSE psync[q][t]
      OBVIOUS
    <3> HIDE DEF new, used
    <3>4. Slot(r, t)' = IF t \in used THEN new[t] ELSE SHCOLL_SYNC_VALUE
      BY <1>4, <3>1 DEF Slot
    <3> QED
      BY <2>1, <3>2, <3>3, <3>4 DEF Slot
  <2>2. CASE r # q
    BY <1>3, <2>2 DEF Slot
  <2> QED
    BY <2>1, <2>2
<1> QED
  BY <1>6, <1>7

\* A pSync whose slots have all the value that is expected is an empty function.
LEMMA AllSlotsClean ==
  ASSUME NEW c, SlotsKept(c), NEW q \in AllPEs(c), \A s : Slot(q, s) = SHCOLL_SYNC_VALUE
  PROVE  psync[q] = <<>>
<1>1. DOMAIN psync[q] = {}
  BY DEF Slot, SlotsKept
<1>2. psync[q] = [s \in DOMAIN psync[q] |-> psync[q][s]]
  BY DEF SlotsKept
<1> QED
  BY <1>1, <1>2

------------------------------------------------------------------------------
\* The steps of a PE.

\* What PE p does when it goes on to statement next: it asks of the fabric what comes
\* before.
New(c, p, next, o) ==
  /\ o.from = p
  /\ o.k \in (at[p] + 1)..(next - 1)
  /\ Stm(c, p, o.k).do \in Sent
  /\ o.asked = Stm(c, p, o.k)
  /\ o.to = Stm(c, p, o.k).pe
  /\ o.cells = IF o.asked.do = "put" /\ (~o.asked.nbi \/ ~case.late)
               THEN Cells(mem'[p], o.asked.from, o.asked.src, o.asked.len) ELSE <<>>
  /\ o.fence \in Nat /\ o.fence >= fences[p] /\ o.fence <= fences'[p]
  /\ Fenced(c, p, at[p], o.k) => o.fence > fences[p]
  /\ Fenced(c, p, o.k, next) => o.fence < fences'[p]

GoesOn(c, p, next) ==
  /\ next \in (at[p] + 1)..(Size(c, p) + 1)
  /\ next = Size(c, p) + 1 \/ Stm(c, p, next).do \notin Asking
  /\ \A j \in (at[p] + 1)..(next - 1) : Stm(c, p, j).do \in Asking
  /\ at' = [at EXCEPT ![p] = next]
  /\ doing' = [doing EXCEPT ![p] = IF next = Size(c, p) + 1 THEN Return ELSE Stm(c, p, next)]
  /\ fences' \in [AllPEs(c) -> Nat] /\ fences'[p] >= fences[p]
  /\ \A q \in AllPEs(c) \ {p} : fences'[q] = fences[q]
  /\ Fenced(c, p, at[p], next) => fences'[p] > fences[p]
  /\ flight \subseteq flight'
  /\ \A o \in flight' \ flight : New(c, p, next, o)
  /\ \A o \in flight' \ flight : \A e \in flight' \ flight : o.k = e.k => o = e
  /\ \A o \in flight' \ flight : \A e \in flight' \ flight :
       Fenced(c, p, o.k, e.k) => o.fence < e.fence
  /\ \A k \in (at[p] + 1)..(next - 1) : Stm(c, p, k).do \in Sent =>
       \E o \in flight' : o.from = p /\ o.k = k
  /\ case' = case

LEMMA FencesCounted ==
  ASSUME NEW s, NEW m \in Nat
  PROVE  /\ Cardinality({j \in 1..m : s[j].do = "fence"}) \in Nat
         /\ \A n \in Nat : n <= m =>
              /\ Cardinality({j \in 1..n : s[j].do = "fence"})
                   <= Cardinality({j \in 1..m : s[j].do = "fence"})
              /\ (\E i \in (n + 1)..m : s[i].do = "fence") =>
                   Cardinality({j \in 1..n : s[j].do = "fence"})
                     < Cardinality({j \in 1..m : s[j].do = "fence"})
<1> DEFINE F(n) == {j \in 1..n : s[j].do = "fence"}
<1>1. \A n \in Nat : IsFiniteSet(F(n)) /\ Cardinality(F(n)) \in Nat
  <2> TAKE n \in Nat
  <2>1. IsFiniteSet(1..n) /\ F(n) \subseteq 1..n
    BY FS_Interval
  <2> QED
    BY <2>1, FS_Subset, FS_CardinalityType
<1>2. ASSUME NEW n \in Nat, n <= m
      PROVE  /\ Cardinality(F(n)) <= Cardinality(F(m))
             /\ (\E i \in (n + 1)..m : s[i].do = "fence") => Cardinality(F(n)) < Cardinality(F(m))
  <2>1. F(n) \subseteq F(m)
    BY <1>2
  <2>2. ASSUME NEW i \in (n + 1)..m, s[i].do = "fence" PROVE F(n) # F(m)
    <3>1. i \in F(m) /\ i \notin F(n)
      BY <2>2
    <3> QED
      BY <3>1
  <2>3. IsFiniteSet(F(m))
    BY <1>1
  <2> HIDE DEF F
  <2>4. Cardinality(F(n)) <= Cardinality(F(m))
        /\ (Cardinality(F(n)) = Cardinality(F(m)) => F(n) = F(m))
    BY <2>1, <2>3, FS_Subset
  <2>5. Cardinality(F(n)) \in Nat /\ Cardinality(F(m)) \in Nat
    BY <1>1
  <2> QED
    BY <2>2, <2>4, <2>5
<1> QED
  BY <1>1, <1>2

LEMMA GoOnGoesOn ==
  ASSUME NEW c, Called(c), Straight(c), Typed(c), NEW p \in ActiveSet(c), at[p] <= Size(c, p),
         known' = known, GoOn(p)
  PROVE  \E next \in (at[p] + 1)..(Size(c, p) + 1) : GoesOn(c, p, next)
<1> DEFINE steps == Program(c, p)
           asked == AskedFrom(steps, at[p] + 1)
           last == at[p] + Len(asked) + 1
           F(m) == Cardinality({j \in 1..m : asked[j].do = "fence"})
<1>1. p \in AllPEs(c) /\ case = c
  BY DEF Called, Typed
<1>2. Statements(case, p, known'[p]) = steps
  BY <1>1 DEF Typed, Program
<1>3. /\ at' = [at EXCEPT ![p] = last]
      /\ doing' = [doing EXCEPT ![p] = IF last > Len(steps) THEN Return ELSE steps[last]]
      /\ flight' = flight \cup
           {Message(p, at[p] + k, asked[k], fences[p] + F(k - 1)) :
              k \in {j \in DOMAIN asked : asked[j].do # "fence"}}
      /\ fences' = [fences EXCEPT ![p] = @ + F((Len(asked) + 1) - 1)]
      /\ case' = case
  <2>1. PICK st \in {Statements(case, p, known'[p])} : \E as \in {AskedFrom(st, at[p] + 1)} :
          /\ at' = [at EXCEPT ![p] = at[p] + Len(as) + 1]
          /\ doing' = [doing EXCEPT ![p] = IF at[p] + Len(as) + 1 > Len(st) THEN Return
                                          ELSE st[at[p] + Len(as) + 1]]
          /\ flight' = flight \cup
               {Message(p, at[p] + k, as[k],
                        fences[p] + Cardinality({j \in 1..(k - 1) : as[j].do = "fence"})) :
                  k \in {j \in DOMAIN as : as[j].do # "fence"}}
          /\ fences' = [fences EXCEPT ![p] =
                 @ + Cardinality({j \in 1..((Len(as) + 1) - 1) : as[j].do = "fence"})]
          /\ case' = case
    BY Zenon DEF GoOn
  <2>2. st = steps
    BY <1>2, <2>1
  <2> HIDE DEF steps
  <2>3. PICK as \in {AskedFrom(st, at[p] + 1)} :
          /\ at' = [at EXCEPT ![p] = at[p] + Len(as) + 1]
          /\ doing' = [doing EXCEPT ![p] = IF at[p] + Len(as) + 1 > Len(st) THEN Return
                                          ELSE st[at[p] + Len(as) + 1]]
          /\ flight' = flight \cup
               {Message(p, at[p] + k, as[k],
                        fences[p] + Cardinality({j \in 1..(k - 1) : as[j].do = "fence"})) :
                  k \in {j \in DOMAIN as : as[j].do # "fence"}}
          /\ fences' = [fences EXCEPT ![p] =
                 @ + Cardinality({j \in 1..((Len(as) + 1) - 1) : as[j].do = "fence"})]
          /\ case' = case
    BY Zenon, <2>1
  <2>4. as = asked
    BY <2>2, <2>3
  <2> HIDE DEF asked
  <2>5. at' = [at EXCEPT ![p] = last]
    BY <2>3, <2>4
  <2>6. doing' = [doing EXCEPT ![p] = IF last > Len(steps) THEN Return ELSE steps[last]]
    BY <2>2, <2>3, <2>4
  <2>7. flight' = flight \cup
           {Message(p, at[p] + k, asked[k], fences[p] + F(k - 1)) :
              k \in {j \in DOMAIN asked : asked[j].do # "fence"}}
    BY <2>3, <2>4
  <2>8. fences' = [fences EXCEPT ![p] = @ + F((Len(asked) + 1) - 1)]
    BY <2>3, <2>4
  <2> QED
    BY <2>3, <2>5, <2>6, <2>7, <2>8
<1>4. IsList(steps) /\ Len(steps) = Size(c, p) /\ \A k : steps[k] = Stm(c, p, k)
  BY DEF Straight, Size, Stm
<1>5. at[p] \in Nat /\ Size(c, p) \in Nat /\ fences \in [AllPEs(c) -> Nat]
      /\ at \in [AllPEs(c) -> Nat]
  BY <1>1, <1>4 DEF Typed, IsList
<1>6. at[p] + 1 \in 1..(Len(steps) + 1)
  BY <1>4, <1>5
<1> HIDE DEF steps
<1>7. PICK next \in (at[p] + 1)..(Len(steps) + 1) :
        /\ next = Len(steps) + 1 \/ steps[next].do \notin Asking
        /\ \A j \in (at[p] + 1)..(next - 1) : steps[j].do \in Asking
        /\ Len(asked) = next - (at[p] + 1)
        /\ DOMAIN asked = 1..(next - (at[p] + 1))
        /\ \A i \in 1..(next - (at[p] + 1)) : asked[i] = steps[(at[p] + 1) + i - 1]
  <2> DEFINE first == at[p] + 1
  <2>0. IsList(steps)
    BY <1>4
  <2>1. first \in 1..(Len(steps) + 1)
    BY <1>6
  <2> HIDE DEF first
  <2>2. PICK nx \in first..(Len(steps) + 1) : Asked(steps, first, nx)
    BY <2>0, <2>1, AskedOnes
  <2> QED
    BY <2>2 DEF first, Asked
<1> DEFINE n == next - (at[p] + 1)
<1> HIDE DEF asked
<1>8. next \in Nat /\ n \in Nat /\ last = next /\ (Len(asked) + 1) - 1 = n
      /\ next \in (at[p] + 1)..(Size(c, p) + 1) /\ next = at[p] + n + 1
      /\ at[p] + n <= Size(c, p)
  BY <1>4, <1>5, <1>7
<1> HIDE DEF last
<1>0. DOMAIN asked = 1..n /\ \A i \in 1..n : asked[i] = steps[(at[p] + 1) + i - 1]
  BY <1>7
<1> HIDE DEF n
<1>9. \A i \in 1..n : asked[i] = Stm(c, p, at[p] + i) /\ Stm(c, p, at[p] + i).do \in Asking
  <2> TAKE i \in 1..n
  <2>1. (at[p] + 1) + i - 1 = at[p] + i /\ at[p] + i \in (at[p] + 1)..(next - 1)
    BY <1>5, <1>8, SMTT(30)
  <2> QED
    BY <1>0, <1>4, <1>7, <2>1
<1>10. \A m \in 0..n : F(m) \in Nat
  BY <1>8, FencesCounted, SMTT(30)
<1>11. \A m \in 0..n : \A l \in 0..m :
         F(l) <= F(m) /\ ((\E i \in (l + 1)..m : asked[i].do = "fence") => F(l) < F(m))
  <2> TAKE m \in 0..n
  <2> TAKE l \in 0..m
  <2>1. m \in Nat /\ l \in Nat /\ l <= m
    BY <1>8
  <2> QED
    BY <2>1, FencesCounted
<1> HIDE DEF F
<1> DEFINE M(i) == Message(p, at[p] + i, asked[i], fences[p] + F(i - 1))
<1>12. flight' = flight \cup {M(k) : k \in {j \in 1..n : asked[j].do # "fence"}}
  BY <1>0, <1>3
<1>13. fences' = [fences EXCEPT ![p] = fences[p] + F(n)]
  BY <1>3, <1>8
<1>14. \A o \in flight' \ flight : \E i \in 1..n : asked[i].do # "fence" /\ o = M(i)
  BY <1>12
<1>15. \A i \in 1..n :
         /\ M(i).from = p
         /\ M(i).to = asked[i].pe
         /\ M(i).k = at[p] + i
         /\ M(i).fence = fences[p] + F(i - 1)
         /\ M(i).asked = asked[i]
         /\ M(i).cells = IF asked[i].do = "put" /\ (~asked[i].nbi \/ ~case.late)
                         THEN Cells(mem'[p], asked[i].from, asked[i].src, asked[i].len) ELSE <<>>
  BY DEF Message
<1>16. \A i \in 1..n : asked[i].do # "fence" => Stm(c, p, at[p] + i).do \in Sent
  <2> TAKE i \in 1..n
  <2>1. at[p] + i \in 1..Size(c, p)
    BY <1>5, <1>8, SMTT(30)
  <2> QED
    BY <1>9, <2>1 DEF Straight, Sent, Asking
<1>17. \A l \in 0..n : \A m \in l..n :
         Fenced(c, p, at[p] + l, at[p] + m + 1) => F(l) < F(m)
  <2> SUFFICES ASSUME NEW l \in 0..n, NEW m \in l..n, Fenced(c, p, at[p] + l, at[p] + m + 1)
               PROVE  F(l) < F(m)
    OBVIOUS
  <2>1. PICK j \in (at[p] + l + 1)..((at[p] + m + 1) - 1) : Stm(c, p, j).do = "fence"
    BY DEF Fenced
  <2>2. j - at[p] \in (l + 1)..m /\ j - at[p] \in 1..n /\ at[p] + (j - at[p]) = j
    <3>1. at[p] \in Nat /\ n \in Nat
      BY <1>5, <1>8
    <3>2. j \in (at[p] + l + 1)..((at[p] + m + 1) - 1)
      BY <2>1
    <3>3. l \in 0..n /\ m \in l..n
      OBVIOUS
    <3> QED
      BY <3>1, <3>2, <3>3, SMTT(30)
  <2>3. asked[j - at[p]].do = "fence"
    BY <1>9, <2>1, <2>2
  <2>4. m \in 0..n /\ l \in 0..m
    BY <1>8
  <2> QED
    BY <1>11, <2>2, <2>3, <2>4
<1>18. fences' \in [AllPEs(c) -> Nat] /\ fences'[p] = fences[p] + F(n)
       /\ \A q \in AllPEs(c) \ {p} : fences'[q] = fences[q]
  <2>1. n \in 0..n /\ F(n) \in Nat
    BY <1>8, <1>10
  <2> QED
    BY <1>1, <1>5, <1>13, <2>1
<1>19. ASSUME NEW o \in flight' \ flight
       PROVE  New(c, p, next, o)
  <2>1. PICK i \in 1..n : asked[i].do # "fence" /\ o = M(i)
    BY <1>14
  <2>2. /\ o.from = p /\ o.k = at[p] + i /\ o.to = asked[i].pe /\ o.asked = asked[i]
        /\ o.fence = fences[p] + F(i - 1)
        /\ o.cells = IF o.asked.do = "put" /\ (~o.asked.nbi \/ ~case.late)
                     THEN Cells(mem'[p], o.asked.from, o.asked.src, o.asked.len) ELSE <<>>
    BY <1>15, <2>1
  <2>3. i \in Nat /\ i - 1 \in 0..n /\ n \in (i - 1)..n /\ at[p] + i \in (at[p] + 1)..(next - 1)
        /\ n \in 0..n /\ i - 1 \in 0..n /\ i \in 0..n /\ 0 \in 0..n /\ 0 \in 0..(i - 1)
        /\ i - 1 \in 0..i /\ n \in i..n /\ i \in (i - 1)..n /\ i - 1 \in 0..n
    BY <1>5, <1>8, SMTT(30)
  <2>4. Stm(c, p, o.k).do \in Sent /\ o.asked = Stm(c, p, o.k) /\ o.to = Stm(c, p, o.k).pe
    BY <1>9, <1>16, <2>1, <2>2
  <2>5. F(0) \in Nat /\ F(i - 1) \in Nat /\ F(n) \in Nat /\ F(0) <= F(i - 1) /\ F(i - 1) <= F(n)
    BY <1>10, <1>11, <2>3
  <2>6. fences[p] \in Nat
    BY <1>1, <1>5
  <2>7. o.fence \in Nat /\ o.fence >= fences[p] /\ o.fence <= fences'[p]
    BY <1>18, <2>2, <2>5, <2>6
  <2>8. Fenced(c, p, at[p], o.k) => o.fence > fences[p]
    <3>1. at[p] + 0 = at[p] /\ o.k = at[p] + (i - 1) + 1 /\ i - 1 \in 0..n
      BY <1>5, <2>2, <2>3
    <3>2. Fenced(c, p, at[p], o.k) => F(0) < F(i - 1)
      BY <1>17, <2>3, <3>1
    <3> QED
      BY <2>2, <2>5, <2>6, <3>2
  <2>9. Fenced(c, p, o.k, next) => o.fence < fences'[p]
    <3>1. next = at[p] + n + 1 /\ n \in i..n
      BY <1>5, <1>8, <2>3
    <3>2. Fenced(c, p, o.k, next) => F(i) < F(n)
      BY <1>17, <2>2, <2>3, <3>1
    <3>3. F(i - 1) <= F(i) /\ F(i) \in Nat
      BY <1>10, <1>11, <2>3
    <3> QED
      BY <1>18, <2>2, <2>5, <2>6, <3>2, <3>3
  <2> QED
    BY <2>2, <2>3, <2>4, <2>7, <2>8, <2>9 DEF New
<1>20. ASSUME NEW o \in flight' \ flight, NEW e \in flight' \ flight
       PROVE  /\ o.k = e.k => o = e
              /\ Fenced(c, p, o.k, e.k) => o.fence < e.fence
  <2>1. PICK i \in 1..n : asked[i].do # "fence" /\ o = M(i)
    BY <1>14
  <2>2. PICK j \in 1..n : asked[j].do # "fence" /\ e = M(j)
    BY <1>14
  <2>3. /\ o.k = at[p] + i /\ e.k = at[p] + j
        /\ o.fence = fences[p] + F(i - 1) /\ e.fence = fences[p] + F(j - 1)
    BY <1>15, <2>1, <2>2
  <2>4. o.k = e.k => i = j
    BY <1>5, <2>3
  <2>5. ASSUME Fenced(c, p, o.k, e.k)
        PROVE  o.fence < e.fence
    <3>1. i < j
      BY <1>5, <2>3, <2>5, SMTT(30) DEF Fenced
    <3>2. e.k = at[p] + (j - 1) + 1 /\ j - 1 \in i..n /\ j - 1 \in 0..n /\ i \in 0..n
          /\ i - 1 \in 0..n /\ i - 1 \in 0..i
      BY <1>5, <1>8, <2>3, <3>1
    <3>3. F(i) < F(j - 1)
      BY <1>17, <2>3, <2>5, <3>2
    <3>4. F(i - 1) <= F(i) /\ F(i - 1) \in Nat /\ F(i) \in Nat /\ F(j - 1) \in Nat
      BY <1>10, <1>11, <3>2
    <3>5. fences[p] \in Nat
      BY <1>1, <1>5
    <3> QED
      BY <2>3, <3>3, <3>4, <3>5
  <2> QED
    BY <2>1, <2>2, <2>4, <2>5
<1>21. ASSUME NEW k \in (at[p] + 1)..(next - 1), Stm(c, p, k).do \in Sent
       PROVE  \E o \in flight' : o.from = p /\ o.k = k
  <2>1. k - at[p] \in 1..n /\ at[p] + (k - at[p]) = k
    <3>1. at[p] \in Nat /\ n \in Nat /\ next - 1 = at[p] + n
      BY <1>5, <1>8, SMTT(30)
    <3>2. k \in (at[p] + 1)..(at[p] + n)
      BY <1>21, <3>1
    <3> QED
      BY <3>1, <3>2
  <2>2. asked[k - at[p]].do # "fence"
    BY <1>9, <1>21, <2>1 DEF Sent
  <2>3. M(k - at[p]) \in flight'
    BY <1>12, <2>1, <2>2
  <2> QED
    BY <1>15, <2>1, <2>3
<1>22. Fenced(c, p, at[p], next) => fences'[p] > fences[p]
  <2>1. at[p] + 0 = at[p] /\ next = at[p] + n + 1 /\ 0 \in 0..n /\ n \in 0..n
    BY <1>5, <1>8
  <2>2. Fenced(c, p, at[p], next) => F(0) < F(n)
    BY <1>17, <2>1
  <2>3. F(0) \in Nat /\ F(n) \in Nat /\ fences[p] \in Nat
    BY <1>1, <1>5, <1>10, <2>1
  <2> QED
    BY <1>18, <2>2, <2>3
<1>23. doing' = [doing EXCEPT ![p] = IF next = Size(c, p) + 1 THEN Return ELSE Stm(c, p, next)]
  <2>1. last > Len(steps) <=> next = Size(c, p) + 1
    BY <1>4, <1>5, <1>8
  <2>2. steps[last] = Stm(c, p, next)
    BY <1>4, <1>8
  <2> HIDE DEF last
  <2> QED
    BY <1>3, <2>1, <2>2
<1>24. at' = [at EXCEPT ![p] = next] /\ case' = case /\ flight \subseteq flight'
  BY <1>3, <1>8, <1>12
<1>25. fences'[p] >= fences[p]
  <2>1. n \in 0..n /\ F(n) \in Nat /\ fences[p] \in Nat
    BY <1>1, <1>5, <1>8, <1>10
  <2> QED
    BY <1>18, <2>1
<1>26. \A j \in (at[p] + 1)..(next - 1) : Stm(c, p, j).do \in Asking
  BY <1>4, <1>7
<1>27. next = Size(c, p) + 1 \/ Stm(c, p, next).do \notin Asking
  BY <1>4, <1>7
<1>28. GoesOn(c, p, next)
  BY <1>8, <1>18, <1>19, <1>20, <1>21, <1>22, <1>23, <1>24, <1>25, <1>26, <1>27 DEF GoesOn
<1> QED
  BY <1>8, <1>28

\* What a PE's step is, when there are no statements but those of a straight program.
CopyOwn(c, p) ==
  /\ at[p] \in 1..Size(c, p) /\ Stm(c, p, at[p]).do = "copy"
  /\ mem' = [mem EXCEPT ![p] =
       Filled(mem[p], "dest", Stm(c, p, at[p]).at,
              Cells(mem[p], "source", Stm(c, p, at[p]).src, Stm(c, p, at[p]).len))]

Advances(c, p, next) ==
  /\ GoesOn(c, p, next)
  /\ p \in ActiveSet(c) /\ at[p] <= Size(c, p)
  /\ Ready(p) /\ UNCHANGED <<known, psync, arrived>>
  /\ \/ (at[p] \in 1..Size(c, p) => Stm(c, p, at[p]).do # "copy") /\ mem' = mem
     \/ CopyOwn(c, p)
  /\ at[p] \in 1..Size(c, p) => doing[p].do # "barrier"

Arrives(c, p) ==
  /\ p \in ActiveSet(c) /\ at[p] \in 1..Size(c, p)
  /\ Stm(c, p, at[p]).do = "barrier" /\ doing[p] = Stm(c, p, at[p])
  /\ \A o \in flight : o.from # p
  /\ arrived' = [arrived EXCEPT ![p] = @ + 1]
  /\ doing' = [doing EXCEPT ![p] = [do |-> "leave"]]
  /\ UNCHANGED <<case, at, known, mem, psync, flight, fences>>

\* What it is doing, by where it is.
LEMMA DoingThere ==
  ASSUME NEW c, Straight(c), Typed(c), Position(c), NEW p \in AllPEs(c), doing[p].do # "return"
  PROVE  /\ p \in ActiveSet(c) /\ at[p] \in 0..Size(c, p)
         /\ at[p] = 0 => doing[p].do = "enter"
         /\ at[p] \in 1..Size(c, p) =>
              \/ /\ doing[p] = Stm(c, p, at[p])
                 /\ doing[p].do \in {"copy", "wait", "barrier"}
              \/ Stm(c, p, at[p]).do = "barrier" /\ doing[p].do = "leave"
<1>1. p \in ActiveSet(c)
  BY DEF Position, Return
<1>2. Size(c, p) \in Nat /\ at[p] \in Nat
  BY <1>1 DEF Straight, Size, IsList, Typed
<1>3. Positioned(c, p)
  BY <1>1 DEF Position
<1>4. at[p] \in 0..Size(c, p)
  BY <1>2, <1>3 DEF Positioned, Return
<1>5. ASSUME at[p] \in 1..Size(c, p)
      PROVE  \/ /\ doing[p] = Stm(c, p, at[p])
                /\ doing[p].do \in {"copy", "wait", "barrier"}
             \/ Stm(c, p, at[p]).do = "barrier" /\ doing[p].do = "leave"
  <2>1. Stm(c, p, at[p]).do \in {"put", "p", "add", "fence", "copy", "wait", "barrier"}
    BY <1>1, <1>5 DEF Straight
  <2>2. Stm(c, p, at[p]).do \notin {"put", "p", "add", "set", "fence"}
    BY <1>3, <1>5 DEF Positioned, Asking
  <2> QED
    BY <1>3, <1>5, <2>1, <2>2 DEF Positioned
<1>6. at[p] = 0 => doing[p].do = "enter"
  BY <1>3 DEF Positioned
<1> QED
  BY <1>1, <1>4, <1>5, <1>6

LEMMA AdvanceAdvances ==
  ASSUME NEW c, Called(c), Straight(c), Typed(c), Position(c), NEW p \in AllPEs(c), Advance(p)
  PROVE  \E next \in (at[p] + 1)..(Size(c, p) + 1) : Advances(c, p, next)
<1>1. /\ Ready(p) /\ GoOn(p) /\ UNCHANGED arrived
      /\ Pass(p) \/ WaitedAndRead(p) \/ Get(p) \/ Local(p) \/ StoreOwn(p)
  BY DEF Advance
<1>2. doing[p].do # "return" /\ doing[p].do # "barrier"
  BY <1>1 DEF Ready, Pass, WaitedAndRead, Get, Local, StoreOwn
<1>3. /\ p \in ActiveSet(c) /\ at[p] \in 0..Size(c, p)
      /\ at[p] = 0 => doing[p].do = "enter"
      /\ at[p] \in 1..Size(c, p) =>
           \/ /\ doing[p] = Stm(c, p, at[p])
              /\ doing[p].do \in {"copy", "wait", "barrier"}
           \/ Stm(c, p, at[p]).do = "barrier" /\ doing[p].do = "leave"
  BY <1>2, DoingThere
<1>4. at[p] \in Nat /\ Size(c, p) \in Nat
  BY <1>3 DEF Typed, Straight, Size, IsList
<1>5. doing[p].do \in {"enter", "copy", "wait", "leave"}
  BY <1>2, <1>3, <1>4
<1>6. Pass(p) \/ Local(p)
  BY <1>1, <1>5 DEF WaitedAndRead, Get, StoreOwn
<1>7. known' = known /\ psync' = psync
  BY <1>6 DEF Pass, Local
<1>8. PICK next \in (at[p] + 1)..(Size(c, p) + 1) : GoesOn(c, p, next)
  BY <1>1, <1>3, <1>4, <1>7, GoOnGoesOn
<1>9. \/ (at[p] \in 1..Size(c, p) => Stm(c, p, at[p]).do # "copy") /\ mem' = mem
      \/ CopyOwn(c, p)
  <2>1. CASE Pass(p)
    <3>1. mem' = mem /\ doing[p].do \in {"enter", "wait", "answer", "leave"}
      BY <2>1 DEF Pass
    <3> QED
      BY <1>3, <3>1
  <2>2. CASE Local(p)
    <3>1. doing[p].do = "copy"
      BY <1>5, <2>2 DEF Local
    <3>2. at[p] \in 1..Size(c, p) /\ doing[p] = Stm(c, p, at[p])
      BY <1>3, <1>4, <3>1
    <3>3. Stm(c, p, at[p]).to = "dest" /\ Stm(c, p, at[p]).from = "source"
      BY <1>3, <3>1, <3>2 DEF Straight, Moved
    <3>4. mem' = [mem EXCEPT ![p] =
                    Filled(mem[p], doing[p].to, doing[p].at,
                           Cells(mem[p], doing[p].from, doing[p].src, doing[p].len))]
      BY <2>2, <3>1 DEF Local
    <3>5. CopyOwn(c, p)
      BY <3>1, <3>2, <3>3, <3>4 DEF CopyOwn
    <3> QED
      BY <3>5
  <2> QED
    BY <1>6, <2>1, <2>2
<1>10. at[p] <= Size(c, p)
  BY <1>3, <1>4
<1> QED
  BY <1>1, <1>2, <1>3, <1>7, <1>8, <1>9, <1>10 DEF Advances

LEMMA ArriveArrives ==
  ASSUME NEW c, Straight(c), Typed(c), Position(c), NEW p \in AllPEs(c), Arrive(p)
  PROVE  Arrives(c, p)
<1>1. doing[p].do = "barrier" /\ Ready(p)
  BY DEF Arrive
<1>2. /\ p \in ActiveSet(c) /\ at[p] \in 0..Size(c, p)
      /\ at[p] = 0 => doing[p].do = "enter"
      /\ at[p] \in 1..Size(c, p) =>
           \/ /\ doing[p] = Stm(c, p, at[p])
              /\ doing[p].do \in {"copy", "wait", "barrier"}
           \/ Stm(c, p, at[p]).do = "barrier" /\ doing[p].do = "leave"
  BY <1>1, DoingThere
<1>3. at[p] \in Nat /\ Size(c, p) \in Nat
  BY <1>2 DEF Typed, Straight, Size, IsList
<1>4. at[p] \in 1..Size(c, p) /\ doing[p] = Stm(c, p, at[p])
  BY <1>1, <1>2, <1>3
<1>5. \A o \in flight : o.from # p
  BY <1>1 DEF Ready
<1> QED
  BY <1>1, <1>2, <1>4, <1>5 DEF Arrive, Arrives

\* The fabric.
LandsData(o) ==
  /\ o.asked.do = "put"
  /\ mem' = [mem EXCEPT ![o.to] =
       Filled(mem[o.to], "dest", o.asked.at,
              IF o.cells = <<>> THEN Cells(mem[o.from], o.asked.from, o.asked.src, o.asked.len)
              ELSE o.cells)]
  /\ psync' = psync
LandsFlag(o) ==
  /\ o.asked.do \in {"p", "add"}
  /\ psync' = WithSlot(o.to, o.asked.slot,
                       IF o.asked.do = "p" THEN o.asked.value
                       ELSE Slot(o.to, o.asked.slot) + o.asked.value)
  /\ mem' = mem
Lands(o) ==
  /\ o \in flight /\ flight' = flight \ {o} /\ Deliverable(o)
  /\ LandsData(o) \/ LandsFlag(o)
  /\ UNCHANGED <<case, at, doing, known, fences, arrived>>

LEMMA LandingLands ==
  ASSUME NEW c, InFlight(c), Landing
  PROVE  \E o \in flight : Lands(o)
<1>1. PICK o \in flight : LandPut(o) \/ LandFlag(o) \/ LandAdd(o)
  BY DEF Landing
<1>2. o.asked.do \in Sent
  BY DEF InFlight, SentBy
<1>3. CASE LandPut(o)
  <2>1. /\ o.asked.do = "put" /\ Deliverable(o) /\ flight' = flight \ {o}
        /\ UNCHANGED <<case, at, doing, known, psync, fences, arrived>>
        /\ mem' = [mem EXCEPT ![o.to] =
             Filled(mem[o.to], "dest", o.asked.at,
                IF o.cells = <<>> THEN Cells(mem[o.from], o.asked.from, o.asked.src, o.asked.len)
                ELSE o.cells)]
    BY <1>3 DEF LandPut
  <2> QED
    BY <2>1 DEF Lands, LandsData
<1>4. CASE LandFlag(o)
  <2>1. o.asked.do = "p"
    BY <1>2, <1>4 DEF LandFlag, Sent
  <2> QED
    BY <1>4, <2>1 DEF LandFlag, Lands, LandsFlag
<1>5. CASE LandAdd(o)
  <2>1. o.asked.do = "add"
    BY <1>5 DEF LandAdd
  <2> QED
    BY <1>5, <2>1 DEF LandAdd, Lands, LandsFlag
<1> QED
  BY <1>1, <1>3, <1>4, <1>5

\* What a buffer is after some of its cells have been filled.
DestFilled(new, m, J, first, cells) ==
  /\ DOMAIN new = {"source", "dest", "tmp"}
  /\ new.source = m.source
  /\ new.dest = [j \in J |-> new.dest[j]]
  /\ \A j \in J : new.dest[j] = IF j - first \in DOMAIN cells THEN cells[j - first] ELSE m.dest[j]

LEMMA CellsFilled ==
  ASSUME NEW m, NEW J, DOMAIN m = {"source", "dest", "tmp"}, DOMAIN m.dest = J,
         NEW first, NEW cells
  PROVE  DestFilled(Filled(m, "dest", first, cells), m, J, first, cells)
<1> DEFINE new == [k \in J |-> IF k - first \in DOMAIN cells THEN cells[k - first] ELSE m.dest[k]]
<1>1. Filled(m, "dest", first, cells) = [m EXCEPT !["dest"] = new]
  BY DEF Filled
<1>2. \A j \in J : new[j] = IF j - first \in DOMAIN cells
                           THEN cells[j - first] ELSE m.dest[j]
  OBVIOUS
<1>3. new = [j \in J |-> new[j]]
  OBVIOUS
<1> HIDE DEF new
<1> DEFINE filled == Filled(m, "dest", first, cells)
<1>4. filled.dest = new /\ filled.source = m.source /\ DOMAIN filled = {"source", "dest", "tmp"}
  BY <1>1
<1> HIDE DEF filled
<1>5. filled.dest = [j \in J |-> filled.dest[j]]
  BY <1>3, <1>4
<1>6. \A j \in J : filled.dest[j] = IF j - first \in DOMAIN cells
                                   THEN cells[j - first] ELSE m.dest[j]
  BY <1>2, <1>4
<1>7. DestFilled(filled, m, J, first, cells)
  BY <1>4, <1>5, <1>6 DEF DestFilled
<1> QED
  BY <1>7 DEF filled

------------------------------------------------------------------------------
\* The data.

\* What statement k of p moves is in the buffers, and its cells are those of the source.
LEMMA MovedCells ==
  ASSUME NEW c, Called(c), Straight(c), NEW p \in ActiveSet(c), NEW k \in 1..Size(c, p),
         Stm(c, p, k).do \in Moved, NEW m, m.source = Source(c, p)
  PROVE  /\ Stm(c, p, k).from = "source"
         /\ Stm(c, p, k).at \in Nat /\ Stm(c, p, k).src \in Nat /\ Stm(c, p, k).len \in Nat
         /\ Stm(c, p, k).at + Stm(c, p, k).len <= DestLength(c)
         /\ Stm(c, p, k).src + Stm(c, p, k).len <= SourceLength(c, p)
         /\ Cells(m, "source", Stm(c, p, k).src, Stm(c, p, k).len)
              = [x \in 0..(Stm(c, p, k).len - 1) |-> Element(c, p, Stm(c, p, k).src + x)]
         /\ Target(c, p, k) \in ActiveSet(c)
<1>1. /\ Stm(c, p, k).from = "source"
      /\ Stm(c, p, k).at \in Nat /\ Stm(c, p, k).src \in Nat /\ Stm(c, p, k).len \in Nat
      /\ Stm(c, p, k).at + Stm(c, p, k).len <= DestLength(c)
      /\ Stm(c, p, k).src + Stm(c, p, k).len <= SourceLength(c, p)
  BY DEF Straight
<1>2. SourceLength(c, p) \in Nat
  BY DEF Called
<1>3. \A x \in 0..(Stm(c, p, k).len - 1) :
        m["source"][Stm(c, p, k).src + x] = Element(c, p, Stm(c, p, k).src + x)
  <2> TAKE x \in 0..(Stm(c, p, k).len - 1)
  <2>1. Stm(c, p, k).src + x \in 0..(SourceLength(c, p) - 1)
    BY <1>1, <1>2
  <2> QED
    BY <2>1 DEF Source
<1>4. Cells(m, "source", Stm(c, p, k).src, Stm(c, p, k).len)
        = [x \in 0..(Stm(c, p, k).len - 1) |-> Element(c, p, Stm(c, p, k).src + x)]
  BY <1>3 DEF Cells
<1>5. Target(c, p, k) \in ActiveSet(c)
  BY DEF Straight, Target, Moved, Sent
<1> QED
  BY <1>1, <1>4, <1>5

\* Statement k of p is carried out.
Written(c, p, k) ==
  /\ DOMAIN mem' = AllPEs(c)
  /\ \A r \in AllPEs(c) : /\ DOMAIN mem'[r] = {"source", "dest", "tmp"}
                          /\ mem'[r].source = Source(c, r)
                          /\ mem'[r].dest = [j \in 0..(DestLength(c) - 1) |-> mem'[r].dest[j]]
  /\ \A r \in ActiveSet(c) : \A j \in 0..(DestLength(c) - 1) :
       mem'[r].dest[j] =
         IF /\ r = Target(c, p, k)
            /\ Stm(c, p, k).at <= j /\ j < Stm(c, p, k).at + Stm(c, p, k).len
         THEN Result(c, r)[j] ELSE mem[r].dest[j]

LEMMA WritesResult ==
  ASSUME NEW c, Called(c), Straight(c), Carries(c), Typed(c),
         NEW p \in ActiveSet(c), NEW k \in 1..Size(c, p), Stm(c, p, k).do \in Moved,
         NEW cells,
         cells = [x \in 0..(Stm(c, p, k).len - 1) |-> Element(c, p, Stm(c, p, k).src + x)],
         mem' = [mem EXCEPT ![Target(c, p, k)] =
                   Filled(mem[Target(c, p, k)], "dest", Stm(c, p, k).at, cells)]
  PROVE  Written(c, p, k)
<1> DEFINE q == Target(c, p, k)
           s == Stm(c, p, k)
           new == Filled(mem[q], "dest", s.at, cells)
           J == 0..(DestLength(c) - 1)
<1>1. p \in AllPEs(c)
  BY DEF Called
<1>2. mem[p].source = Source(c, p)
  BY <1>1 DEF Typed
<1>3. s.at \in Nat /\ s.len \in Nat /\ s.at + s.len <= DestLength(c) /\ q \in ActiveSet(c)
  BY <1>2, MovedCells
<1>4. q \in AllPEs(c) /\ DestLength(c) \in Nat
  BY <1>3 DEF Called
<1>5. DOMAIN mem = AllPEs(c) /\ \A r \in AllPEs(c) : /\ DOMAIN mem[r] = {"source", "dest", "tmp"}
                                                    /\ mem[r].source = Source(c, r)
                                                    /\ mem[r].dest = [j \in J |-> mem[r].dest[j]]
  BY DEF Typed
<1>6. DestFilled(new, mem[q], J, s.at, cells)
  <2>1. DOMAIN mem[q] = {"source", "dest", "tmp"} /\ DOMAIN mem[q].dest = J
    BY <1>4, <1>5
  <2> HIDE DEF J, s, q
  <2> QED
    BY <2>1, CellsFilled
<1>7. \A j \in J : new.dest[j] = IF s.at <= j /\ j < s.at + s.len THEN Result(c, q)[j]
                                 ELSE mem[q].dest[j]
  <2> TAKE j \in J
  <2>1. j \in Nat
    BY <1>4
  <2>2. j - s.at \in DOMAIN cells <=> s.at <= j /\ j < s.at + s.len
    BY <1>3, <2>1
  <2>3. ASSUME s.at <= j /\ j < s.at + s.len
        PROVE  cells[j - s.at] = Result(c, q)[j]
    <3>1. j - s.at \in Nat /\ j - s.at < s.len /\ s.at + (j - s.at) = j
      BY <1>3, <2>1, <2>3
    <3>2. cells[j - s.at] = Element(c, p, s.src + (j - s.at))
      BY <1>3, <3>1
    <3>3. Element(c, p, s.src + (j - s.at)) = Result(c, q)[s.at + (j - s.at)]
      BY <3>1 DEF Carries
    <3> QED
      BY <3>1, <3>2, <3>3
  <2> HIDE DEF new
  <2> QED
    BY <1>6, <2>2, <2>3 DEF DestFilled
<1> HIDE DEF new
<1>8. mem' = [mem EXCEPT ![q] = new]
  BY DEF new
<1> HIDE DEF q
<1>9. DOMAIN mem' = AllPEs(c) /\ mem'[q] = new /\ \A r \in AllPEs(c) : r # q => mem'[r] = mem[r]
  BY <1>4, <1>5, <1>8
<1>10. \A r \in AllPEs(c) : /\ DOMAIN mem'[r] = {"source", "dest", "tmp"}
                            /\ mem'[r].source = Source(c, r)
                            /\ mem'[r].dest = [j \in J |-> mem'[r].dest[j]]
  <2> TAKE r \in AllPEs(c)
  <2>1. CASE r = q
    BY <1>5, <1>6, <1>9, <2>1 DEF DestFilled
  <2>2. CASE r # q
    <3>1. mem'[r] = mem[r]
      BY <1>9, <2>2
    <3>2. PICK m : m = mem[r]
      OBVIOUS
    <3>3. /\ DOMAIN m = {"source", "dest", "tmp"} /\ m.source = Source(c, r)
          /\ m.dest = [j \in J |-> m.dest[j]]
      <4> HIDE DEF J
      <4> QED
        BY <1>5, <3>2, ZenonT(30)
    <3>4. mem'[r] = m
      BY <3>1, <3>2
    <3> HIDE DEF J
    <3> QED
      BY <3>3, <3>4, ZenonT(30)
  <2> QED
    BY <2>1, <2>2
<1>11. ASSUME NEW r \in ActiveSet(c), NEW j \in J
       PROVE  mem'[r].dest[j] = IF r = q /\ s.at <= j /\ j < s.at + s.len
                                THEN Result(c, r)[j] ELSE mem[r].dest[j]
  <2>1. r \in AllPEs(c)
    BY DEF Called
  <2>2. CASE r = q
    BY <1>7, <1>9, <2>2
  <2>3. CASE r # q
    BY <1>9, <2>1, <2>3
  <2> QED
    BY <2>2, <2>3
<1>12. \A r \in ActiveSet(c) : \A j \in 0..(DestLength(c) - 1) :
        mem'[r].dest[j] =
          IF /\ r = Target(c, p, k)
             /\ Stm(c, p, k).at <= j /\ j < Stm(c, p, k).at + Stm(c, p, k).len
          THEN Result(c, r)[j] ELSE mem[r].dest[j]
  BY <1>11 DEF q
<1> QED
  BY <1>9, <1>10, <1>12 DEF Written

LEMMA DeliveredKept ==
  ASSUME NEW c, Called(c), Straight(c), Delivered(c),
         NEW p \in ActiveSet(c), NEW k \in 1..Size(c, p), Stm(c, p, k).do \in Moved,
         Written(c, p, k),
         \A q \in ActiveSet(c) : \A l \in 1..Size(c, q) :
           Stm(c, q, l).do \in Moved /\ Done(q, l)' => Done(q, l) \/ (q = p /\ l = k)
  PROVE  Delivered(c)'
<1>1. ASSUME NEW q \in ActiveSet(c), NEW l \in 1..Size(c, q), NEW x \in Nat,
             Stm(c, q, l).do \in Moved, x < Stm(c, q, l).len, Done(q, l)'
      PROVE  mem'[Target(c, q, l)].dest[Stm(c, q, l).at + x]
               = Result(c, Target(c, q, l))[Stm(c, q, l).at + x]
  <2> DEFINE j == Stm(c, q, l).at + x
  <2>1. Stm(c, q, l).at \in Nat /\ Stm(c, q, l).len \in Nat
        /\ Stm(c, q, l).at + Stm(c, q, l).len <= DestLength(c)
    BY <1>1 DEF Straight
  <2>2. DestLength(c) \in Nat /\ Target(c, q, l) \in ActiveSet(c)
    BY <1>1 DEF Called, Straight, Target, Moved, Sent
  <2>3. j \in 0..(DestLength(c) - 1)
    BY <1>1, <2>1, <2>2
  <2>4. CASE Done(q, l)
    <3>1. mem[Target(c, q, l)].dest[j] = Result(c, Target(c, q, l))[j]
      BY <1>1, <2>4 DEF Delivered
    <3> HIDE DEF j
    <3> QED
      BY <2>2, <2>3, <3>1 DEF Written, j
  <2>5. CASE q = p /\ l = k
    <3>1. Stm(c, p, k).at <= j /\ j < Stm(c, p, k).at + Stm(c, p, k).len
      BY <1>1, <2>1, <2>5
    <3> HIDE DEF j
    <3>2. mem'[Target(c, q, l)].dest[j] = Result(c, Target(c, q, l))[j]
      BY <2>2, <2>3, <2>5, <3>1 DEF Written
    <3> QED
      BY <3>2 DEF j
  <2> QED
    BY <1>1, <2>4, <2>5
<1>2. \A q \in ActiveSet(c) : \A j \in 0..(DestLength(c) - 1) :
        mem'[q].dest[j] \in {0, Result(c, q)[j]}
  BY DEF Delivered, Written
<1> QED
  BY <1>1, <1>2 DEF Delivered

LEMMA DeliveredStays ==
  ASSUME NEW c, Called(c), Straight(c), Delivered(c), mem' = mem,
         \A q \in ActiveSet(c) : \A l \in 1..Size(c, q) :
           Stm(c, q, l).do \in Moved /\ Done(q, l)' => Done(q, l)
  PROVE  Delivered(c)'
BY DEF Delivered

------------------------------------------------------------------------------
\* FlowInv is kept by each step.

Good(c) == Called(c) /\ Straight(c) /\ Carries(c)

LEMMA MembersArePEs ==
  ASSUME NEW c, Called(c), NEW p \in ActiveSet(c)
  PROVE  p \in AllPEs(c)
BY DEF Called

LEMMA SizeIsNat ==
  ASSUME NEW c, Straight(c), NEW p \in ActiveSet(c)
  PROVE  Size(c, p) \in Nat
BY DEF Straight, Size, IsList

\* A statement a PE has come to asks nothing.
LEMMA NotAsking ==
  ASSUME NEW c, Typed(c), Position(c), Called(c), Straight(c), NEW p \in ActiveSet(c),
         at[p] \in 1..Size(c, p)
  PROVE  Stm(c, p, at[p]).do \notin Asking
BY DEF Position, Positioned

LEMMA AdvanceWrites ==
  ASSUME NEW c, Good(c), FlowInv(c), NEW p \in ActiveSet(c),
         NEW next \in (at[p] + 1)..(Size(c, p) + 1), Advances(c, p, next)
  PROVE  \/ (at[p] \in 1..Size(c, p) => Stm(c, p, at[p]).do # "copy") /\ mem' = mem
         \/ /\ at[p] \in 1..Size(c, p) /\ Stm(c, p, at[p]).do \in Moved
            /\ Written(c, p, at[p])
<1> SUFFICES ASSUME CopyOwn(c, p)
             PROVE  /\ at[p] \in 1..Size(c, p) /\ Stm(c, p, at[p]).do \in Moved
                    /\ Written(c, p, at[p])
  BY DEF Advances
<1> DEFINE k == at[p]
<1>1. k \in 1..Size(c, p) /\ Stm(c, p, k).do = "copy" /\ Stm(c, p, k).do \in Moved
  BY DEF CopyOwn, Moved
<1>2. Target(c, p, k) = p
  BY <1>1 DEF Target
<1>3. Called(c) /\ Straight(c) /\ Carries(c) /\ Typed(c)
  BY DEF Good, FlowInv
<1>4. mem[p].source = Source(c, p)
  BY <1>3, MembersArePEs DEF Typed
<1> DEFINE cells == Cells(mem[p], "source", Stm(c, p, k).src, Stm(c, p, k).len)
<1>5. mem' = [mem EXCEPT ![Target(c, p, k)] =
                Filled(mem[Target(c, p, k)], "dest", Stm(c, p, k).at, cells)]
  BY <1>2 DEF CopyOwn
<1> HIDE DEF k
<1>6. cells = [x \in 0..(Stm(c, p, k).len - 1) |-> Element(c, p, Stm(c, p, k).src + x)]
  BY <1>1, <1>3, <1>4, MovedCells
<1> HIDE DEF cells
<1>7. Written(c, p, k)
  BY <1>1, <1>3, <1>5, <1>6, WritesResult
<1> QED
  BY <1>1, <1>7 DEF k

LEMMA AdvanceTyped ==
  ASSUME NEW c, Good(c), FlowInv(c), NEW p \in ActiveSet(c),
         NEW next \in (at[p] + 1)..(Size(c, p) + 1), Advances(c, p, next)
  PROVE  Typed(c)' /\ SlotsKept(c)' /\ Position(c)'
<1>1. Called(c) /\ Straight(c) /\ Typed(c) /\ Position(c) /\ SlotsKept(c)
  BY DEF Good, FlowInv
<1>2. p \in AllPEs(c) /\ Size(c, p) \in Nat /\ at[p] \in Nat
  BY <1>1, MembersArePEs, SizeIsNat DEF Typed
<1>3. next \in Nat /\ next # 0
  BY <1>2
<1>4. /\ at' = [at EXCEPT ![p] = next]
      /\ doing' = [doing EXCEPT ![p] = IF next = Size(c, p) + 1 THEN Return ELSE Stm(c, p, next)]
      /\ next = Size(c, p) + 1 \/ Stm(c, p, next).do \notin Asking
      /\ fences' \in [AllPEs(c) -> Nat] /\ case' = case
      /\ UNCHANGED <<known, psync, arrived>>
  BY DEF Advances, GoesOn
<1>5. /\ case' = c /\ at' \in [AllPEs(c) -> Nat] /\ known' = [q \in AllPEs(c) |-> <<>>]
      /\ DOMAIN doing' = AllPEs(c) /\ arrived' \in [AllPEs(c) -> Nat]
  BY <1>1, <1>2, <1>3, <1>4 DEF Typed
<1>6. /\ DOMAIN mem' = AllPEs(c)
      /\ \A r \in AllPEs(c) : /\ DOMAIN mem'[r] = {"source", "dest", "tmp"}
                              /\ mem'[r].source = Source(c, r)
                              /\ mem'[r].dest = [j \in 0..(DestLength(c) - 1) |-> mem'[r].dest[j]]
  BY <1>1, AdvanceWrites, ZenonT(30) DEF Written, Typed
<1>7. Typed(c)'
  BY <1>4, <1>5, <1>6 DEF Typed, AllPEs
<1>8. SlotsKept(c)'
  BY <1>1, <1>4 DEF SlotsKept
<1>9. /\ at'[p] = next
      /\ \A q \in AllPEs(c) \ {p} : at'[q] = at[q] /\ doing'[q] = doing[q]
      /\ doing'[p] = IF next = Size(c, p) + 1 THEN Return ELSE Stm(c, p, next)
  BY <1>1, <1>2, <1>4 DEF Typed
<1>10. Positioned(c, p)'
  <2>1. CASE next = Size(c, p) + 1
    <3>1. at'[p] = Size(c, p) + 1 /\ doing'[p] = Return
      BY <1>9, <2>1
    <3> QED
      BY <1>2, <3>1 DEF Positioned
  <2>2. CASE next # Size(c, p) + 1
    <3>1. /\ at'[p] = next /\ next \in 1..Size(c, p) /\ Stm(c, p, next).do \notin Asking
          /\ doing'[p] = Stm(c, p, next)
      BY <1>2, <1>3, <1>4, <1>9, <2>2
    <3> QED
      BY <1>2, <3>1 DEF Positioned
  <2> QED
    BY <2>1, <2>2
<1>11. ASSUME NEW q \in ActiveSet(c), q # p
       PROVE  Positioned(c, q)'
  <2>1. at'[q] = at[q] /\ doing'[q] = doing[q]
    BY <1>1, <1>9, <1>11, MembersArePEs
  <2> QED
    BY <1>1, <2>1 DEF Position, Positioned
<1>12. \A q \in AllPEs(c) \ ActiveSet(c) : at'[q] = 0 /\ doing'[q] = Return
  BY <1>1, <1>9 DEF Position
<1>13. Position(c)'
  BY <1>10, <1>11, <1>12 DEF Position, AllPEs
<1> QED
  BY <1>7, <1>8, <1>13

LEMMA AdvanceInFlight ==
  ASSUME NEW c, Good(c), FlowInv(c), NEW p \in ActiveSet(c),
         NEW next \in (at[p] + 1)..(Size(c, p) + 1), Advances(c, p, next)
  PROVE  InFlight(c)'
<1>1. Called(c) /\ Straight(c) /\ Typed(c) /\ InFlight(c) /\ Typed(c)'
  BY AdvanceTyped DEF Good, FlowInv
<1>2. p \in AllPEs(c) /\ Size(c, p) \in Nat /\ at[p] \in Nat
  BY <1>1, MembersArePEs, SizeIsNat DEF Typed
<1>3. next \in Nat /\ next > at[p]
  BY <1>2
<1>4. /\ at' = [at EXCEPT ![p] = next]
      /\ fences' \in [AllPEs(c) -> Nat] /\ fences'[p] >= fences[p]
      /\ \A q \in AllPEs(c) \ {p} : fences'[q] = fences[q]
      /\ \A o \in flight' \ flight : New(c, p, next, o)
      /\ \A o \in flight' \ flight : \A e \in flight' \ flight : o.k = e.k => o = e
  BY DEF Advances, GoesOn
<1>5. at'[p] = next /\ \A q \in AllPEs(c) \ {p} : at'[q] = at[q]
  BY <1>1, <1>2, <1>4 DEF Typed
<1>6. ASSUME NEW o \in flight
      PROVE  SentBy(c, o)'
  <2>1. SentBy(c, o)
    BY <1>1 DEF InFlight
  <2>2. o.from \in AllPEs(c) /\ at[o.from] \in Nat /\ Size(c, o.from) \in Nat
        /\ fences[o.from] \in Nat /\ fences'[o.from] \in Nat
    BY <1>1, <1>4, <2>1, MembersArePEs, SizeIsNat DEF SentBy, Typed
  <2>3. o.k < at'[o.from] /\ o.fence <= fences'[o.from]
    <3>1. CASE o.from = p
      BY <1>2, <1>3, <1>4, <1>5, <2>1, <2>2, <3>1 DEF SentBy
    <3>2. CASE o.from # p
      BY <1>4, <1>5, <2>1, <2>2, <3>2 DEF SentBy
    <3> QED
      BY <3>1, <3>2
  <2> QED
    BY <2>1, <2>3 DEF SentBy
<1>7. ASSUME NEW o \in flight' \ flight
      PROVE  SentBy(c, o)' /\ o.from = p /\ o.k > at[p]
  <2>1. New(c, p, next, o)
    BY <1>4
  <2>2. o.from = p /\ o.k \in (at[p] + 1)..(next - 1) /\ o.k \in 1..Size(c, p) /\ o.k < next
    BY <1>2, <1>3, <2>1 DEF New
  <2>3. ASSUME o.asked.do = "put"
        PROVE  Cells(mem'[p], o.asked.from, o.asked.src, o.asked.len)
                 = [x \in 0..(o.asked.len - 1) |-> Element(c, p, o.asked.src + x)]
    <3>1. o.asked = Stm(c, p, o.k) /\ Stm(c, p, o.k).do \in Moved
      BY <2>1, <2>3 DEF New, Moved
    <3>2. mem'[p].source = Source(c, p)
      BY <1>1, <1>2 DEF Typed, AllPEs
    <3> DEFINE m == mem'[p]
               k == o.k
    <3> HIDE DEF m, k
    <3>3. Stm(c, p, k).from = "source" /\ Cells(m, "source", Stm(c, p, k).src, Stm(c, p, k).len)
            = [x \in 0..(Stm(c, p, k).len - 1) |-> Element(c, p, Stm(c, p, k).src + x)]
      <4>1. m.source = Source(c, p) /\ Stm(c, p, k).do \in Moved /\ k \in 1..Size(c, p)
        BY <2>2, <3>1, <3>2 DEF m, k
      <4> QED
        BY <1>1, <4>1, MovedCells
    <3> QED
      BY <3>1, <3>3 DEF m, k
  <2>4. o.cells = <<>> \/
          /\ o.asked.do = "put"
          /\ o.cells = [x \in 0..(o.asked.len - 1) |-> Element(c, o.from, o.asked.src + x)]
    BY <2>1, <2>2, <2>3 DEF New
  <2>5. o.k > at[p] /\ o.k < at'[o.from]
    BY <1>2, <1>5, <2>2
  <2> QED
    BY <2>1, <2>2, <2>4, <2>5 DEF SentBy, New
<1>8. \A o \in flight' : SentBy(c, o)'
  BY <1>6, <1>7
<1>9. ASSUME NEW o \in flight', NEW e \in flight', o.from = e.from, o.k = e.k
      PROVE  o = e
  <2>1. ASSUME NEW f \in flight, f.from = p
        PROVE  f.k < at[p] /\ f.k \in Int
    <3>1. SentBy(c, f)
      BY <1>1 DEF InFlight
    <3> QED
      BY <1>2, <2>1, <3>1 DEF SentBy
  <2>2. CASE o \in flight /\ e \in flight
    BY <1>1, <1>9, <2>2 DEF InFlight
  <2>3. CASE o \notin flight /\ e \notin flight
    BY <1>4, <1>9, <2>3
  <2>4. CASE o \in flight /\ e \notin flight
    BY <1>2, <1>7, <1>9, <2>1, <2>4
  <2>5. CASE o \notin flight /\ e \in flight
    BY <1>2, <1>7, <1>9, <2>1, <2>5
  <2> QED
    BY <2>2, <2>3, <2>4, <2>5
<1> QED
  BY <1>8, <1>9 DEF InFlight

LEMMA AdvanceFences ==
  ASSUME NEW c, Good(c), FlowInv(c), NEW p \in ActiveSet(c),
         NEW next \in (at[p] + 1)..(Size(c, p) + 1), Advances(c, p, next)
  PROVE  FenceOrder(c)'
<1>1. Called(c) /\ Straight(c) /\ Typed(c) /\ Position(c) /\ InFlight(c) /\ FenceOrder(c)
  BY DEF Good, FlowInv
<1>2. p \in AllPEs(c) /\ Size(c, p) \in Nat /\ at[p] \in Nat /\ fences[p] \in Nat
  BY <1>1, MembersArePEs, SizeIsNat DEF Typed
<1>3. next \in Nat /\ next > at[p] /\ next <= Size(c, p) + 1
  BY <1>2
<1>4. /\ at' = [at EXCEPT ![p] = next]
      /\ fences' \in [AllPEs(c) -> Nat] /\ fences'[p] >= fences[p]
      /\ \A q \in AllPEs(c) \ {p} : fences'[q] = fences[q]
      /\ Fenced(c, p, at[p], next) => fences'[p] > fences[p]
      /\ flight \subseteq flight'
      /\ \A o \in flight' \ flight : New(c, p, next, o)
      /\ \A o \in flight' \ flight : \A e \in flight' \ flight :
           Fenced(c, p, o.k, e.k) => o.fence < e.fence
      /\ \A k \in (at[p] + 1)..(next - 1) : Stm(c, p, k).do \in Sent =>
           \E o \in flight' : o.from = p /\ o.k = k
  BY DEF Advances, GoesOn
<1>5. /\ at'[p] = next
      /\ \A q \in AllPEs(c) \ {p} : at'[q] = at[q]
  BY <1>1, <1>2, <1>4 DEF Typed
<1>6. fences'[p] \in Nat
  BY <1>2, <1>4
<1>7. at[p] \in 1..Size(c, p) => Stm(c, p, at[p]).do # "fence" /\ Stm(c, p, at[p]).do \notin Sent
  BY <1>1, NotAsking DEF Asking, Sent
<1>8. ASSUME NEW o \in flight
      PROVE  /\ o.from \in ActiveSet(c) /\ o.from \in AllPEs(c)
             /\ o.k \in 1..Size(c, o.from) /\ o.k < at[o.from] /\ o.k \in Nat
             /\ o.fence \in Nat /\ o.fence <= fences[o.from]
             /\ Fenced(c, o.from, o.k, at[o.from]) => o.fence < fences[o.from]
  <2>1. SentBy(c, o)
    BY <1>1 DEF InFlight
  <2> QED
    BY <1>1, <2>1, MembersArePEs DEF SentBy, FenceOrder
<1>9. ASSUME NEW o \in flight' \ flight
      PROVE  /\ o.from = p /\ o.k \in (at[p] + 1)..(next - 1) /\ o.k \in Nat /\ o.k > at[p]
             /\ o.fence \in Nat /\ o.fence >= fences[p] /\ o.fence <= fences'[p]
             /\ Fenced(c, p, at[p], o.k) => o.fence > fences[p]
             /\ Fenced(c, p, o.k, next) => o.fence < fences'[p]
  BY <1>2, <1>4 DEF New
\* a fence after what p sent before is before or after where it was
<1>10. ASSUME NEW o \in flight, o.from = p, NEW l \in 1..(Size(c, p) + 1),
              Fenced(c, p, o.k, l), l > at[p]
       PROVE  Fenced(c, p, o.k, at[p]) \/ Fenced(c, p, at[p], l)
  <2>1. PICK j \in (o.k + 1)..(l - 1) : Stm(c, p, j).do = "fence"
    BY <1>10 DEF Fenced
  <2>2. o.k \in Nat /\ o.k < at[p]
    BY <1>8, <1>10
  <2>3. j \in Int /\ l \in Int /\ j >= o.k + 1 /\ j <= l - 1
    BY <2>1, <2>2
  <2>4. j # at[p]
    BY <1>2, <1>7, <2>1, <2>2, <2>3
  <2>5. CASE j < at[p]
    <3>1. j \in (o.k + 1)..(at[p] - 1)
      BY <1>2, <2>2, <2>3, <2>5
    <3> QED
      BY <2>1, <3>1 DEF Fenced
  <2>6. CASE j > at[p]
    <3>1. j \in (at[p] + 1)..(l - 1)
      BY <1>2, <2>2, <2>3, <2>6
    <3> QED
      BY <2>1, <3>1 DEF Fenced
  <2> QED
    BY <1>2, <2>3, <2>4, <2>5, <2>6
<1>11. ASSUME NEW o \in flight', Fenced(c, o.from, o.k, at'[o.from])
       PROVE  o.fence < fences'[o.from]
  <2>1. CASE o \notin flight
    BY <1>5, <1>9, <1>11, <2>1
  <2>2. CASE o \in flight /\ o.from # p
    BY <1>4, <1>5, <1>8, <1>11, <2>2
  <2>3. CASE o \in flight /\ o.from = p
    <3>1. Fenced(c, p, o.k, at[p]) \/ Fenced(c, p, at[p], next)
      <4>1. next \in 1..(Size(c, p) + 1) /\ Fenced(c, p, o.k, next) /\ next > at[p]
        BY <1>2, <1>3, <1>5, <1>11, <2>3
      <4> QED
        BY <1>10, <2>3, <4>1
    <3>2. o.fence \in Nat /\ o.fence <= fences[p]
          /\ (Fenced(c, p, o.k, at[p]) => o.fence < fences[p])
      BY <1>8, <2>3
    <3> QED
      BY <1>2, <1>4, <1>6, <2>3, <3>1, <3>2
  <2> QED
    BY <2>1, <2>2, <2>3
<1>12. ASSUME NEW o \in flight', NEW e \in flight', o.from = e.from, Fenced(c, o.from, o.k, e.k)
       PROVE  o.fence < e.fence
  <2>1. CASE o \in flight /\ e \in flight
    BY <1>1, <1>12, <2>1 DEF FenceOrder
  <2>2. CASE o \notin flight /\ e \notin flight
    BY <1>4, <1>9, <1>12, <2>2
  <2>3. CASE o \in flight /\ e \notin flight
    <3>1. /\ e.from = p /\ e.k \in (at[p] + 1)..(next - 1) /\ e.fence \in Nat
          /\ e.fence >= fences[p] /\ (Fenced(c, p, at[p], e.k) => e.fence > fences[p])
      BY <1>9, <2>3
    <3>2. o.from = p /\ e.k \in 1..(Size(c, p) + 1) /\ e.k > at[p] /\ Fenced(c, p, o.k, e.k)
      BY <1>2, <1>3, <1>12, <3>1
    <3>3. Fenced(c, p, o.k, at[p]) \/ Fenced(c, p, at[p], e.k)
      BY <1>10, <2>3, <3>2
    <3>4. o.fence \in Nat /\ o.fence <= fences[p]
          /\ (Fenced(c, p, o.k, at[p]) => o.fence < fences[p])
      BY <1>8, <2>3, <3>2
    <3> QED
      BY <1>2, <3>1, <3>3, <3>4
  <2>4. CASE o \notin flight /\ e \in flight
    <3>1. o.from = p /\ o.k \in Nat /\ o.k > at[p] /\ e.k \in Nat /\ e.k < at[p]
      BY <1>8, <1>9, <1>12, <2>4
    <3> QED
      BY <1>2, <1>12, <3>1 DEF Fenced
  <2> QED
    BY <2>1, <2>2, <2>3, <2>4
<1>13. ASSUME NEW o \in flight', NEW l \in 1..Size(c, o.from), Fenced(c, o.from, o.k, l),
              Stm(c, o.from, l).do \in Sent, Stm(c, o.from, l).pe = o.to, Done(o.from, l)'
       PROVE  FALSE
  <2>1. l < at'[o.from] /\ \A e \in flight' : e.from = o.from => e.k # l
    BY <1>13 DEF Done
  <2>2. CASE o \in flight /\ o.from # p
    <3>1. at'[o.from] = at[o.from]
      BY <1>5, <1>8, <2>2
    <3>2. Done(o.from, l)
      BY <1>4, <2>1, <3>1 DEF Done
    <3> QED
      BY <1>1, <1>13, <2>2, <3>2 DEF FenceOrder
  <2>3. CASE o.from = p
    <3>1. l < next /\ l \in 1..Size(c, p) /\ l \notin (at[p] + 1)..(next - 1)
      BY <1>3, <1>4, <1>5, <1>13, <2>1, <2>3
    <3>2. l # at[p]
      BY <1>7, <1>13, <2>3
    <3>3. l < at[p]
      BY <1>2, <1>3, <3>1, <3>2
    <3>4. o \in flight
      <4> SUFFICES ASSUME o \notin flight PROVE FALSE
        OBVIOUS
      <4>1. o.k \in Nat /\ o.k > at[p]
        BY <1>9
      <4> QED
        BY <1>2, <1>13, <2>3, <3>1, <3>3, <4>1 DEF Fenced
    <3>5. Done(p, l)
      BY <1>4, <2>1, <2>3, <3>3 DEF Done
    <3> QED
      BY <1>1, <1>13, <2>3, <3>4, <3>5 DEF FenceOrder
  <2>4. o \in flight \/ o.from = p
    BY <1>9
  <2> QED
    BY <2>2, <2>3, <2>4
<1> QED
  BY <1>11, <1>12, <1>13 DEF FenceOrder

\* What is done after a step of p was done before it, but for the statement it was at.
LEMMA AdvanceDone ==
  ASSUME NEW c, Good(c), FlowInv(c), NEW p \in ActiveSet(c),
         NEW next \in (at[p] + 1)..(Size(c, p) + 1), Advances(c, p, next),
         NEW q \in ActiveSet(c), NEW l \in 1..Size(c, q), Done(q, l)'
  PROVE  \/ Done(q, l)
         \/ q = p /\ l = at[p]
         \/ q = p /\ l > at[p] /\ Stm(c, q, l).do \in {"set", "fence"}
<1>1. Called(c) /\ Straight(c) /\ Typed(c)
  BY DEF Good, FlowInv
<1>2. p \in AllPEs(c) /\ q \in AllPEs(c) /\ Size(c, p) \in Nat /\ at[p] \in Nat
  BY <1>1, MembersArePEs, SizeIsNat DEF Typed
<1>3. /\ at' = [at EXCEPT ![p] = next]
      /\ flight \subseteq flight'
      /\ \A k \in (at[p] + 1)..(next - 1) : Stm(c, p, k).do \in Sent =>
           \E o \in flight' : o.from = p /\ o.k = k
      /\ \A j \in (at[p] + 1)..(next - 1) : Stm(c, p, j).do \in Asking
  BY DEF Advances, GoesOn
<1>4. at' = [at EXCEPT ![p] = next] /\ at \in [AllPEs(c) -> Nat]
  BY <1>1, <1>3 DEF Typed
<1>5. l < at'[q] /\ \A e \in flight' : e.from = q => e.k # l
  BY DEF Done
<1>6. CASE q # p
  <2>1. at'[q] = at[q]
    BY <1>2, <1>4, <1>6
  <2> QED
    BY <1>3, <1>5, <2>1 DEF Done
<1>7. CASE q = p
  <2>1. l < next /\ l \in Nat
    BY <1>2, <1>4, <1>5, <1>7
  <2>2. CASE l < at[p]
    BY <1>3, <1>5, <1>7, <2>2 DEF Done
  <2>3. CASE l > at[p]
    <3>1. l \in (at[p] + 1)..(next - 1)
      BY <1>2, <2>1, <2>3
    <3>2. Stm(c, p, l).do \notin Sent /\ Stm(c, p, l).do \in Asking
      BY <1>3, <1>5, <1>7, <3>1
    <3> QED
      BY <1>7, <2>3, <3>2 DEF Sent, Asking
  <2> QED
    BY <1>2, <1>7, <2>1, <2>2, <2>3
<1> QED
  BY <1>6, <1>7

LEMMA AdvanceDelivered ==
  ASSUME NEW c, Good(c), FlowInv(c), NEW p \in ActiveSet(c),
         NEW next \in (at[p] + 1)..(Size(c, p) + 1), Advances(c, p, next)
  PROVE  Delivered(c)'
<1>1. Called(c) /\ Straight(c) /\ Delivered(c)
  BY DEF Good, FlowInv
<1>2. CASE (at[p] \in 1..Size(c, p) => Stm(c, p, at[p]).do # "copy") /\ mem' = mem
  <2>1. ASSUME NEW q \in ActiveSet(c), NEW l \in 1..Size(c, q),
               Stm(c, q, l).do \in Moved, Done(q, l)'
        PROVE  Done(q, l)
    <3>1. at[p] \in 1..Size(c, p) => Stm(c, p, at[p]).do \notin Asking
      BY <1>1, NotAsking DEF FlowInv
    <3>2. ~(q = p /\ l = at[p])
      BY <1>2, <2>1, <3>1 DEF Moved, Asking
    <3> QED
      BY <2>1, <3>2, AdvanceDone DEF Moved
  <2> QED
    BY <1>1, <1>2, <2>1, DeliveredStays
<1>3. CASE /\ at[p] \in 1..Size(c, p) /\ Stm(c, p, at[p]).do \in Moved
           /\ Written(c, p, at[p])
  <2> DEFINE k == at[p]
  <2>1. \A q \in ActiveSet(c) : \A l \in 1..Size(c, q) :
          Stm(c, q, l).do \in Moved /\ Done(q, l)' => Done(q, l) \/ (q = p /\ l = k)
    BY AdvanceDone DEF Moved
  <2>2. k \in 1..Size(c, p) /\ Stm(c, p, k).do \in Moved /\ Written(c, p, k)
    BY <1>3
  <2> HIDE DEF k
  <2> QED
    BY <1>1, <2>1, <2>2, DeliveredKept
<1> QED
  BY <1>2, <1>3, AdvanceWrites

LEMMA AdvanceFlow ==
  ASSUME NEW c, Good(c), FlowInv(c), NEW p \in ActiveSet(c),
         NEW next \in (at[p] + 1)..(Size(c, p) + 1), Advances(c, p, next)
  PROVE  FlowInv(c)'
BY AdvanceTyped, AdvanceInFlight, AdvanceFences, AdvanceDelivered DEF FlowInv

LEMMA ArriveFlow ==
  ASSUME NEW c, Good(c), FlowInv(c), NEW p \in ActiveSet(c), Arrives(c, p)
  PROVE  FlowInv(c)'
<1>1. Called(c) /\ Straight(c) /\ Typed(c) /\ Position(c)
  BY DEF Good, FlowInv
<1>2. p \in AllPEs(c) /\ Size(c, p) \in Nat /\ at[p] \in Nat
  BY <1>1, MembersArePEs, SizeIsNat DEF Typed
<1>3. /\ arrived' = [arrived EXCEPT ![p] = @ + 1]
      /\ doing' = [doing EXCEPT ![p] = [do |-> "leave"]]
      /\ UNCHANGED <<case, at, known, mem, psync, flight, fences>>
      /\ at[p] \in 1..Size(c, p) /\ Stm(c, p, at[p]).do = "barrier"
  BY DEF Arrives
<1>4. Typed(c)'
  BY <1>1, <1>2, <1>3 DEF Typed, AllPEs
<1>5. Position(c)'
  <2>1. doing'[p] = [do |-> "leave"] /\ \A q \in AllPEs(c) \ {p} : doing'[q] = doing[q]
    BY <1>1, <1>2, <1>3 DEF Typed
  <2>2. Positioned(c, p)'
    <3>1. Positioned(c, p)
      BY <1>1 DEF Position
    <3> QED
      BY <1>2, <1>3, <2>1, <3>1 DEF Positioned
  <2>3. ASSUME NEW q \in ActiveSet(c), q # p PROVE Positioned(c, q)'
    <3>1. Positioned(c, q) /\ doing'[q] = doing[q]
      BY <1>1, <2>1, <2>3, MembersArePEs DEF Position
    <3> QED
      BY <1>3, <3>1 DEF Positioned
  <2> QED
    BY <1>1, <1>3, <2>1, <2>2, <2>3 DEF Position, AllPEs
<1>6. SlotsKept(c)' /\ InFlight(c)' /\ FenceOrder(c)' /\ Delivered(c)'
  BY <1>3 DEF FlowInv, SlotsKept, InFlight, SentBy, FenceOrder, Done, Delivered
<1> QED
  BY <1>4, <1>5, <1>6 DEF FlowInv

\* A statement is done when it lands, and no other.
LEMMA LandDone ==
  ASSUME NEW c, InFlight(c), NEW o, Lands(o), NEW q, NEW l
  PROVE  Done(q, l)' <=> Done(q, l) \/ (q = o.from /\ l = o.k)
<1>1. o \in flight /\ flight' = flight \ {o} /\ at' = at
  BY DEF Lands
<1>2. o.k < at[o.from] /\ \A e \in flight : e.from = o.from /\ e.k = o.k => e = o
  BY <1>1 DEF InFlight, SentBy
<1> QED
  BY <1>1, <1>2 DEF Done

LEMMA LandFences ==
  ASSUME NEW c, InFlight(c), FenceOrder(c), NEW o, Lands(o)
  PROVE  FenceOrder(c)'
<1>1. o \in flight /\ flight' = flight \ {o} /\ Deliverable(o)
      /\ UNCHANGED <<case, at, doing, known, fences, arrived>>
  BY DEF Lands
<1>2. ASSUME NEW e \in flight', NEW l \in 1..Size(c, e.from), Fenced(c, e.from, e.k, l),
             Stm(c, e.from, l).do \in Sent, Stm(c, e.from, l).pe = e.to, Done(e.from, l)'
      PROVE  FALSE
  <2>1. e \in flight
    BY <1>1
  <2>2. ~Done(e.from, l)
    BY <1>2, <2>1 DEF FenceOrder
  <2>3. e.from = o.from /\ l = o.k
    BY <1>2, <2>2, LandDone
  <2>4. o.to = e.to
    BY <1>1, <1>2, <2>3 DEF InFlight, SentBy
  <2>5. e.fence < o.fence
    BY <1>1, <1>2, <2>1, <2>3 DEF FenceOrder
  <2>6. e.fence >= o.fence
    BY <1>1, <2>1, <2>3, <2>4 DEF Deliverable
  <2>7. e.fence \in Nat /\ o.fence \in Nat
    BY <1>1, <2>1 DEF InFlight, SentBy
  <2> QED
    BY <2>5, <2>6, <2>7
<1> QED
  BY <1>1, <1>2 DEF FenceOrder

LEMMA LandWrites ==
  ASSUME NEW c, Good(c), FlowInv(c), NEW o, Lands(o), LandsData(o)
  PROVE  /\ o.from \in ActiveSet(c) /\ o.k \in 1..Size(c, o.from)
         /\ Stm(c, o.from, o.k).do \in Moved
         /\ Written(c, o.from, o.k)
<1>1. Called(c) /\ Straight(c) /\ Carries(c) /\ Typed(c)
  BY DEF Good, FlowInv
<1> DEFINE p == o.from
           k == o.k
           cells == IF o.cells = <<>>
                    THEN Cells(mem[o.from], o.asked.from, o.asked.src, o.asked.len)
                    ELSE o.cells
<1>2. SentBy(c, o)
  BY DEF FlowInv, InFlight, Lands
<1>3. /\ p \in ActiveSet(c) /\ k \in 1..Size(c, p) /\ o.asked = Stm(c, p, k)
      /\ Stm(c, p, k).do = "put" /\ o.to = Target(c, p, k)
  BY <1>2 DEF SentBy, LandsData, Target
<1>4. Stm(c, p, k).do \in Moved
  BY <1>3 DEF Moved
<1>5. mem[p].source = Source(c, p)
  BY <1>1, <1>3, MembersArePEs DEF Typed
<1>6. o.cells = <<>> \/
        o.cells = [x \in 0..(Stm(c, p, k).len - 1) |-> Element(c, p, Stm(c, p, k).src + x)]
  BY <1>2, <1>3 DEF SentBy
<1>7. mem' = [mem EXCEPT ![Target(c, p, k)] =
                Filled(mem[Target(c, p, k)], "dest", Stm(c, p, k).at, cells)]
  BY <1>3 DEF LandsData
<1>8. cells = [x \in 0..(Stm(c, p, k).len - 1) |-> Element(c, p, Stm(c, p, k).src + x)]
  <2> HIDE DEF p, k
  <2>1. /\ Stm(c, p, k).from = "source"
        /\ Cells(mem[p], "source", Stm(c, p, k).src, Stm(c, p, k).len)
             = [x \in 0..(Stm(c, p, k).len - 1) |-> Element(c, p, Stm(c, p, k).src + x)]
    BY <1>1, <1>3, <1>4, <1>5, MovedCells
  <2> QED
    BY <1>3, <1>6, <2>1 DEF p
<1> HIDE DEF cells, p, k
<1>9. Written(c, p, k)
  BY <1>1, <1>3, <1>4, <1>7, <1>8, WritesResult
<1> QED
  BY <1>3, <1>4, <1>9 DEF p, k

LEMMA LandFlow ==
  ASSUME NEW c, Good(c), FlowInv(c), NEW o, Lands(o)
  PROVE  FlowInv(c)'
<1>1. Called(c) /\ Straight(c) /\ Typed(c) /\ Position(c) /\ InFlight(c) /\ SlotsKept(c)
      /\ FenceOrder(c) /\ Delivered(c)
  BY DEF Good, FlowInv
<1>2. /\ o \in flight /\ flight' = flight \ {o}
      /\ LandsData(o) \/ LandsFlag(o)
      /\ UNCHANGED <<case, at, doing, known, fences, arrived>>
  BY DEF Lands
<1>3. Position(c)' /\ InFlight(c)'
  <2>1. Position(c)'
    BY <1>1, <1>2 DEF Position, Positioned
  <2>2. InFlight(c)'
    BY <1>1, <1>2 DEF InFlight, SentBy
  <2> QED
    BY <2>1, <2>2
<1>4. FenceOrder(c)'
  BY <1>1, LandFences
<1>5. SentBy(c, o)
  BY <1>1, <1>2 DEF InFlight
<1>6. CASE LandsData(o)
  <2>1. /\ o.from \in ActiveSet(c) /\ o.k \in 1..Size(c, o.from)
        /\ Stm(c, o.from, o.k).do \in Moved
        /\ Written(c, o.from, o.k)
    BY <1>6, LandWrites
  <2>2. Typed(c)'
    BY <1>1, <1>2, <2>1 DEF Written, Typed, AllPEs
  <2>3. SlotsKept(c)'
    BY <1>1, <1>6 DEF LandsData, SlotsKept
  <2>4. Delivered(c)'
    <3> DEFINE p == o.from
               k == o.k
    <3>1. \A q \in ActiveSet(c) : \A l \in 1..Size(c, q) :
            Stm(c, q, l).do \in Moved /\ Done(q, l)' => Done(q, l) \/ (q = p /\ l = k)
      BY <1>1, LandDone
    <3>2. p \in ActiveSet(c) /\ k \in 1..Size(c, p) /\ Stm(c, p, k).do \in Moved /\ Written(c, p, k)
      BY <2>1
    <3> HIDE DEF p, k
    <3> QED
      BY <1>1, <3>1, <3>2, DeliveredKept
  <2> QED
    BY <1>3, <1>4, <2>2, <2>3, <2>4 DEF FlowInv
<1>7. CASE LandsFlag(o)
  <2>1. o.to \in AllPEs(c)
    BY <1>1, <1>5, MembersArePEs DEF SentBy, Straight
  <2>2. SlotsKept(c)'
    <3> DEFINE v == IF o.asked.do = "p" THEN o.asked.value
                    ELSE Slot(o.to, o.asked.slot) + o.asked.value
               q == o.to
               s == o.asked.slot
    <3>1. psync' = WithSlot(q, s, v) /\ q \in AllPEs(c)
      BY <1>7, <2>1 DEF LandsFlag
    <3> HIDE DEF v, q, s
    <3> QED
      BY <1>1, <3>1, SlotWritten
  <2>3. mem' = mem /\ o.asked.do \in {"p", "add"}
    BY <1>7 DEF LandsFlag
  <2>4. Typed(c)'
    BY <1>1, <1>2, <2>3 DEF Typed
  <2>5. Delivered(c)'
    <3>1. \A q \in ActiveSet(c) : \A l \in 1..Size(c, q) :
            Stm(c, q, l).do \in Moved /\ Done(q, l)' => Done(q, l)
      <4>1. Stm(c, o.from, o.k).do \notin Moved
        BY <1>5, <2>3 DEF SentBy, Moved
      <4> QED
        BY <1>1, <4>1, LandDone
    <3> QED
      BY <1>1, <2>3, <3>1, DeliveredStays
  <2> QED
    BY <1>3, <1>4, <2>2, <2>4, <2>5 DEF FlowInv
<1> QED
  BY <1>2, <1>6, <1>7

\* What a step of the specification is.
Stepped(c) ==
  \/ \E p \in ActiveSet(c) : \E next \in (at[p] + 1)..(Size(c, p) + 1) : Advances(c, p, next)
  \/ \E p \in ActiveSet(c) : Arrives(c, p)
  \/ \E o \in flight : Lands(o)
  \/ UNCHANGED exchangeVars

LEMMA NextSteps ==
  ASSUME NEW c, Good(c), FlowInv(c), [ExchangeNext]_exchangeVars
  PROVE  Stepped(c)
<1>1. Called(c) /\ Straight(c) /\ Typed(c) /\ Position(c) /\ InFlight(c)
  BY DEF Good, FlowInv
<1>2. PEs = AllPEs(c)
  BY <1>1 DEF PEs, AllPEs, Typed
<1>3. ASSUME NEW p \in AllPEs(c), Advance(p)
      PROVE  Stepped(c)
  <2>1. PICK next \in (at[p] + 1)..(Size(c, p) + 1) : Advances(c, p, next)
    BY <1>1, <1>3, AdvanceAdvances
  <2>2. p \in ActiveSet(c)
    BY <2>1 DEF Advances
  <2> QED
    BY <2>1, <2>2 DEF Stepped
<1>4. ASSUME NEW p \in AllPEs(c), Arrive(p)
      PROVE  Stepped(c)
  <2>1. Arrives(c, p) /\ p \in ActiveSet(c)
    BY <1>1, <1>4, ArriveArrives DEF Arrives
  <2> QED
    BY <2>1 DEF Stepped
<1>5. CASE Landing
  BY <1>1, <1>5, LandingLands DEF Stepped
<1>6. CASE UNCHANGED exchangeVars
  BY <1>6 DEF Stepped
<1> QED
  BY <1>2, <1>3, <1>4, <1>5, <1>6 DEF ExchangeNext

LEMMA FlowKept ==
  ASSUME NEW c, Good(c), FlowInv(c), [ExchangeNext]_exchangeVars
  PROVE  FlowInv(c)'
<1>1. CASE UNCHANGED exchangeVars
  BY <1>1 DEF exchangeVars, FlowInv, Typed, SlotsKept, Position, Positioned, InFlight, SentBy,
              FenceOrder, Done, Delivered
<1> QED
  BY <1>1, NextSteps, AdvanceFlow, ArriveFlow, LandFlow DEF Stepped

LEMMA FlowAtFirst ==
  ASSUME NEW c, Good(c), ExchangeInit, case = c
  PROVE  FlowInv(c)
<1>1. PEs = AllPEs(c)
  BY DEF PEs, AllPEs
<1>2. Called(c) /\ Straight(c)
  BY DEF Good
<1>3. /\ at = [p \in AllPEs(c) |-> 0]
      /\ doing = [p \in AllPEs(c) |-> IF p \in ActiveSet(c) THEN [do |-> "enter"] ELSE Return]
      /\ known = [p \in AllPEs(c) |-> <<>>]
      /\ mem = [p \in AllPEs(c) |->
           [source |-> Source(c, p), dest |-> [k \in 0..(DestLength(c) - 1) |-> 0],
            tmp |-> IF c.coll = "reduce" THEN [k \in 0..(DestLength(c) - 1) |-> 0] ELSE <<>>]]
      /\ psync = [p \in AllPEs(c) |-> <<>>] /\ flight = {}
      /\ fences = [p \in AllPEs(c) |-> 0] /\ arrived = [p \in AllPEs(c) |-> 0]
  BY <1>1 DEF ExchangeInit, Source
<1>4. Typed(c)
  BY <1>3 DEF Typed
<1>5. SlotsKept(c)
  BY <1>3 DEF SlotsKept
<1>6. Position(c)
  <2>1. \A p \in ActiveSet(c) : Positioned(c, p)
    <3> TAKE p \in ActiveSet(c)
    <3>1. p \in AllPEs(c) /\ Size(c, p) \in Nat
      BY <1>2, MembersArePEs, SizeIsNat
    <3> QED
      BY <1>3, <3>1 DEF Positioned
  <2> QED
    BY <1>3, <2>1 DEF Position
<1>7. InFlight(c) /\ FenceOrder(c)
  BY <1>3 DEF InFlight, FenceOrder
<1>8. Delivered(c)
  <2>1. \A p \in ActiveSet(c) : at[p] = 0
    BY <1>2, <1>3, MembersArePEs
  <2>2. \A p \in ActiveSet(c) : \A k \in 1..Size(c, p) : ~Done(p, k)
    BY <1>2, <2>1, SizeIsNat DEF Done
  <2>3. \A q \in ActiveSet(c) : \A j \in 0..(DestLength(c) - 1) : mem[q].dest[j] = 0
    BY <1>2, <1>3, MembersArePEs
  <2> QED
    BY <2>2, <2>3 DEF Delivered
<1> QED
  BY <1>4, <1>5, <1>6, <1>7, <1>8 DEF FlowInv

------------------------------------------------------------------------------
\* What the flow says of the properties.

LEMMA FiniteActiveSet ==
  ASSUME NEW c, Called(c)
  PROVE  IsFiniteSet(ActiveSet(c))
<1>1. IsFiniteSet(AllPEs(c))
  <2>1. 0 \in Int /\ c.npes - 1 \in Int
    BY DEF Called
  <2>2. IsFiniteSet(0..(c.npes - 1))
    BY <2>1, FS_Interval
  <2> QED
    BY <2>2 DEF AllPEs
<1> QED
  BY <1>1, FS_Subset DEF Called

LEMMA FlowInBuffers ==
  ASSUME NEW c, Good(c), FlowInv(c)
  PROVE  StaysInBuffers
<1>1. Called(c) /\ Straight(c) /\ Typed(c) /\ Position(c)
  BY DEF Good, FlowInv
<1>2. ASSUME NEW o \in flight
      PROVE  /\ o.to \in ActiveSet(case)
             /\ o.asked.do = "put" =>
                  /\ o.asked.at >= 0 /\ o.asked.at + o.asked.len <= DestLength(case)
                  /\ o.asked.src + o.asked.len <= Cardinality(DOMAIN mem[o.from][o.asked.from])
  <2>1. SentBy(c, o)
    BY DEF FlowInv, InFlight
  <2>2. /\ o.from \in ActiveSet(c) /\ o.k \in 1..Size(c, o.from)
        /\ Stm(c, o.from, o.k).do \in Sent
        /\ o.asked = Stm(c, o.from, o.k) /\ o.to = Stm(c, o.from, o.k).pe
    BY <2>1 DEF SentBy
  <2>3. o.to \in ActiveSet(c) /\ case = c
    BY <1>1, <2>2 DEF Straight, Typed
  <2>4. ASSUME o.asked.do = "put"
        PROVE  /\ o.asked.at >= 0 /\ o.asked.at + o.asked.len <= DestLength(case)
               /\ o.asked.src + o.asked.len <= Cardinality(DOMAIN mem[o.from][o.asked.from])
    <3>1. Stm(c, o.from, o.k).do \in Moved
      BY <2>2, <2>4 DEF Moved
    <3>2. mem[o.from].source = Source(c, o.from) /\ SourceLength(c, o.from) \in Nat
      BY <1>1, <2>2, MembersArePEs DEF Typed, Called
    <3>3. /\ o.asked.from = "source" /\ o.asked.at \in Nat
          /\ o.asked.at + o.asked.len <= DestLength(c)
          /\ o.asked.src + o.asked.len <= SourceLength(c, o.from)
      BY <1>1, <2>2, <3>1 DEF Straight
    <3>4. DOMAIN mem[o.from][o.asked.from] = 0..(SourceLength(c, o.from) - 1)
      BY <3>2, <3>3 DEF Source
    <3>5. Cardinality(0..(SourceLength(c, o.from) - 1)) = SourceLength(c, o.from)
      <4>1. 0 \in Int /\ SourceLength(c, o.from) - 1 \in Int
        BY <3>2
      <4>2. Cardinality(0..(SourceLength(c, o.from) - 1))
              = IF 0 > SourceLength(c, o.from) - 1 THEN 0
                ELSE (SourceLength(c, o.from) - 1) - 0 + 1
        BY <4>1, FS_Interval
      <4> QED
        BY <3>2, <4>2
    <3> QED
      BY <2>3, <3>3, <3>4, <3>5
  <2> QED
    BY <2>3, <2>4
<1>3. ASSUME NEW p \in PEs
      PROVE  doing[p].do # "get"
  <2>1. p \in AllPEs(c)
    BY <1>1 DEF PEs, AllPEs, Typed
  <2>2. CASE doing[p].do = "return"
    BY <2>2
  <2>3. CASE doing[p].do # "return"
    <3>1. /\ p \in ActiveSet(c) /\ at[p] \in 0..Size(c, p)
          /\ at[p] = 0 => doing[p].do = "enter"
          /\ at[p] \in 1..Size(c, p) =>
               \/ /\ doing[p] = Stm(c, p, at[p])
                  /\ doing[p].do \in {"copy", "wait", "barrier"}
               \/ Stm(c, p, at[p]).do = "barrier" /\ doing[p].do = "leave"
      BY <1>1, <2>1, <2>3, DoingThere
    <3>2. at[p] = 0 \/ at[p] \in 1..Size(c, p)
      BY <1>1, <3>1, SizeIsNat
    <3> QED
      BY <3>1, <3>2
  <2> QED
    BY <2>2, <2>3
<1> QED
  BY <1>2, <1>3 DEF StaysInBuffers

\* A PE that everything has come to has its result.
LEMMA ReturnedRight ==
  ASSUME NEW c, Good(c), FlowInv(c), NEW p \in ActiveSet(c),
         \A q \in ActiveSet(c) : \A k \in 1..Size(c, q) :
           Stm(c, q, k).do \in Moved /\ Target(c, q, k) = p => Done(q, k)
  PROVE  mem[p].dest = Result(c, p)
<1> DEFINE J == 0..(DestLength(c) - 1)
<1>1. Called(c) /\ Straight(c) /\ Carries(c) /\ Delivered(c) /\ Typed(c)
  BY DEF Good, FlowInv
<1>2. DestLength(c) \in Nat
  BY <1>1 DEF Called
<1>3. ASSUME NEW j \in J
      PROVE  mem[p].dest[j] = Result(c, p)[j]
  <2>1. CASE Result(c, p)[j] = 0
    BY <1>1, <1>3, <2>1 DEF Delivered
  <2>2. CASE Result(c, p)[j] # 0
    <3>1. PICK q \in ActiveSet(c) : \E k \in 1..Size(c, q) :
            /\ Stm(c, q, k).do \in Moved /\ Target(c, q, k) = p
            /\ Stm(c, q, k).at <= j /\ j < Stm(c, q, k).at + Stm(c, q, k).len
      BY <1>1, <2>2 DEF Carries
    <3>2. PICK k \in 1..Size(c, q) :
            /\ Stm(c, q, k).do \in Moved /\ Target(c, q, k) = p
            /\ Stm(c, q, k).at <= j /\ j < Stm(c, q, k).at + Stm(c, q, k).len
      BY <3>1
    <3>3. Done(q, k)
      BY <3>2
    <3>4. Stm(c, q, k).at \in Nat /\ Stm(c, q, k).len \in Nat
      BY <1>1, <3>2 DEF Straight
    <3> DEFINE x == j - Stm(c, q, k).at
    <3>5. j \in Nat
      BY <1>2
    <3>6. x \in Nat /\ x < Stm(c, q, k).len /\ Stm(c, q, k).at + x = j
      BY <3>2, <3>4, <3>5
    <3> HIDE DEF x
    <3>7. mem[Target(c, q, k)].dest[Stm(c, q, k).at + x]
            = Result(c, Target(c, q, k))[Stm(c, q, k).at + x]
      BY <1>1, <3>2, <3>3, <3>6 DEF Delivered
    <3> QED
      BY <3>2, <3>6, <3>7
  <2> QED
    BY <2>1, <2>2
<1>4. mem[p].dest = [j \in J |-> mem[p].dest[j]]
  BY <1>1, MembersArePEs DEF Typed
<1>5. Result(c, p) = [j \in J |-> Result(c, p)[j]]
  <2> DEFINE value(k) ==
        CASE c.coll \in {"collect", "fcollect"} ->
               Element(c, PEof(c, Owner(c, k)), k - SizeUpTo(c, Owner(c, k)))
          [] c.coll = "alltoall" ->
               Element(c, PEof(c, k \div c.size[0]), Me(c, p) * c.size[0] + (k % c.size[0]))
          [] c.coll = "alltoalls" ->
               LET block == c.dst * c.size[0]
                   element == (k % block) \div c.dst
               IN  IF k % c.dst # 0 THEN 0
                   ELSE Element(c, PEof(c, k \div block), (Me(c, p) * c.size[0] + element) * c.sst)
          [] c.coll = "broadcast" ->
               IF p = PEof(c, c.root) THEN 0 ELSE Element(c, PEof(c, c.root), k)
          [] c.coll = "reduce" -> Combined(c, k)
  <2>1. Result(c, p) = [k \in J |-> value(k)]
    BY DEF Result
  <2> HIDE DEF value
  <2> QED
    BY <2>1
<1> QED
  BY <1>3, <1>4, <1>5

\* What has been done stays done.
LEMMA AdvanceKeepsDone ==
  ASSUME NEW c, Good(c), FlowInv(c), NEW p \in ActiveSet(c),
         NEW next \in (at[p] + 1)..(Size(c, p) + 1), Advances(c, p, next),
         NEW q \in ActiveSet(c), NEW l \in 1..Size(c, q), Done(q, l)
  PROVE  Done(q, l)'
<1>1. Called(c) /\ Straight(c) /\ Typed(c)
  BY DEF Good, FlowInv
<1>2. p \in AllPEs(c) /\ q \in AllPEs(c) /\ Size(c, p) \in Nat /\ at[p] \in Nat
  BY <1>1, MembersArePEs, SizeIsNat DEF Typed
<1>3. /\ at' = [at EXCEPT ![p] = next] /\ at \in [AllPEs(c) -> Nat]
      /\ \A o \in flight' \ flight : New(c, p, next, o)
  BY <1>1 DEF Advances, GoesOn, Typed
<1>4. at'[q] >= at[q] /\ at[q] \in Nat
  <2>1. CASE q = p
    BY <1>2, <1>3, <2>1
  <2>2. CASE q # p
    BY <1>2, <1>3, <2>2
  <2> QED
    BY <2>1, <2>2
<1>5. at'[q] \in Nat
  <2>1. CASE q = p
    BY <1>2, <1>3, <2>1
  <2>2. CASE q # p
    BY <1>2, <1>3, <2>2
  <2> QED
    BY <2>1, <2>2
<1>6. l < at[q] /\ \A o \in flight : o.from = q => o.k # l
  BY DEF Done
<1>7. l < at'[q]
  <2>1. l \in Int
    OBVIOUS
  <2> QED
    BY <1>4, <1>5, <1>6, <2>1
<1>8. ASSUME NEW o \in flight', o.from = q
      PROVE  o.k # l
  <2>1. CASE o \in flight
    BY <1>6, <1>8, <2>1
  <2>2. CASE o \notin flight
    <3>1. o.from = p /\ o.k \in (at[p] + 1)..(next - 1)
      BY <1>3, <2>2 DEF New
    <3>2. o.k > at[p]
      BY <1>2, <3>1
    <3> QED
      BY <1>2, <1>6, <1>8, <3>1, <3>2
  <2> QED
    BY <2>1, <2>2
<1> QED
  BY <1>7, <1>8 DEF Done

\* A member that returns has gone through its statements.
LEMMA ReturnedAtEnd ==
  ASSUME NEW c, Good(c), FlowInv(c), NEW p \in ActiveSet(c)
  PROVE  /\ Returned(p) <=> at[p] = Size(c, p) + 1
         /\ at[p] \in 0..(Size(c, p) + 1) /\ Size(c, p) \in Nat
<1>1. Called(c) /\ Straight(c) /\ Typed(c) /\ Position(c)
  BY DEF Good, FlowInv
<1>2. Size(c, p) \in Nat /\ at[p] \in Nat /\ p \in AllPEs(c)
  BY <1>1, MembersArePEs, SizeIsNat DEF Typed
<1>3. at[p] \in 0..(Size(c, p) + 1) /\ (at[p] = Size(c, p) + 1 => Returned(p))
  BY <1>1, <1>2 DEF Position, Positioned, Returned, Return
<1>4. ASSUME Returned(p)
      PROVE  at[p] = Size(c, p) + 1
  <2>1. CASE at[p] = 0
    BY <1>1, <1>4, <2>1 DEF Position, Positioned, Returned
  <2>2. CASE at[p] \in 1..Size(c, p)
    <3>1. Stm(c, p, at[p]).do \in {"put", "p", "add", "fence", "copy", "wait", "barrier"}
      BY <1>1, <2>2 DEF Straight
    <3> QED
      BY <1>1, <1>4, <2>2, <3>1 DEF Position, Positioned, Returned
  <2> QED
    BY <1>2, <1>3, <2>1, <2>2
<1> QED
  BY <1>2, <1>3, <1>4

------------------------------------------------------------------------------
\* Programs whose members count the signals of the others: a signal adds 1 to a slot of
\* its peer or sets it to 1, a member waits for all the signals of a slot and then gives
\* the slot back.

Flag == {"p", "add"}
Signal(c, p, k, q, s) ==
  Stm(c, p, k).do \in Flag /\ Stm(c, p, k).value = 1 /\ Stm(c, p, k).pe = q /\ Stm(c, p, k).slot = s
Reset(c, p, k, s) ==
  /\ Stm(c, p, k).do = "p" /\ Stm(c, p, k).value = SHCOLL_SYNC_VALUE
  /\ Stm(c, p, k).pe = p /\ Stm(c, p, k).slot = s
Waits(c, p, k, s) == Stm(c, p, k).do = "wait" /\ Stm(c, p, k).slot = s
Senders(c, q, s) == {p \in ActiveSet(c) : \E k \in 1..Size(c, p) : Signal(c, p, k, q, s)}

\* the signals of a member
SignalsWell(c, p) ==
  /\ \A k \in 1..Size(c, p) : Stm(c, p, k).do \in Flag =>
       \/ Signal(c, p, k, Stm(c, p, k).pe, Stm(c, p, k).slot)
       \/ Reset(c, p, k, Stm(c, p, k).slot)
  /\ \A q \in ActiveSet(c) : \A s : \A k \in 1..Size(c, p) : \A l \in 1..Size(c, p) :
       Signal(c, p, k, q, s) /\ Signal(c, p, l, q, s) => k = l
  /\ \A q \in ActiveSet(c) : \A s : \A k \in 1..Size(c, p) :
       Signal(c, p, k, q, s) /\ Stm(c, p, k).do = "p" => Senders(c, q, s) = {p}
\* what a member waits for
WaitsWell(c, p) ==
  /\ \A s : \A w \in 1..Size(c, p) : Waits(c, p, w, s) =>
       /\ \A v \in 0..Cardinality(Senders(c, p, s)) :
            Compare(Stm(c, p, w).cmp, v, Stm(c, p, w).value) <=> v = Cardinality(Senders(c, p, s))
       /\ \A k \in 1..Size(c, p) : Reset(c, p, k, s) => w < k
       /\ \A k \in 1..Size(c, p) : \A q \in ActiveSet(c) : \A t : Signal(c, p, k, q, t) => k < w
  /\ \A s : \A k \in 1..Size(c, p) : Reset(c, p, k, s) =>
       \E w \in 1..Size(c, p) : w < k /\ Waits(c, p, w, s)
  /\ \A s : Senders(c, p, s) # {} => \E k \in 1..Size(c, p) : Reset(c, p, k, s)
\* what it puts is there when its signal is
PutsFenced(c, p) ==
  \A k \in 1..Size(c, p) : Stm(c, p, k).do = "put" =>
    \E j \in 1..Size(c, p) : \E s :
      Signal(c, p, j, Stm(c, p, k).pe, s) /\ k < j /\ Fenced(c, p, k, j)

Signalled(c) ==
  \A p \in ActiveSet(c) :
    /\ SignalsWell(c, p) /\ WaitsWell(c, p) /\ PutsFenced(c, p)
    /\ \A k \in 1..Size(c, p) : Stm(c, p, k).do # "barrier"

------------------------------------------------------------------------------
\* The signals that have come, and what a slot holds.

Come(c, q, s) ==
  {p \in Senders(c, q, s) : \E k \in 1..Size(c, p) : Signal(c, p, k, q, s) /\ Done(p, k)}
Cleared(c, q, s) == \E k \in 1..Size(c, q) : Reset(c, q, k, s) /\ Done(q, k)

Counted(c) ==
  /\ \A q \in ActiveSet(c) : \A s :
       Slot(q, s) = IF Cleared(c, q, s) THEN SHCOLL_SYNC_VALUE ELSE Cardinality(Come(c, q, s))
  /\ \A q \in AllPEs(c) \ ActiveSet(c) : \A s : Slot(q, s) = SHCOLL_SYNC_VALUE
WaitedFor(c) ==
  \A q \in ActiveSet(c) : \A s : \A w \in 1..Size(c, q) :
    Waits(c, q, w, s) /\ w < at[q] => Come(c, q, s) = Senders(c, q, s)
SignalInv(c) == Counted(c) /\ WaitedFor(c)

LEMMA FiniteSenders ==
  ASSUME NEW c, Called(c), NEW q, NEW s
  PROVE  /\ IsFiniteSet(Senders(c, q, s)) /\ IsFiniteSet(Come(c, q, s))
         /\ Cardinality(Senders(c, q, s)) \in Nat /\ Cardinality(Come(c, q, s)) \in Nat
         /\ Cardinality(Come(c, q, s)) <= Cardinality(Senders(c, q, s))
         /\ Cardinality(Come(c, q, s)) = Cardinality(Senders(c, q, s)) =>
              Come(c, q, s) = Senders(c, q, s)
<1>1. IsFiniteSet(ActiveSet(c))
  BY FiniteActiveSet
<1>2. Senders(c, q, s) \in SUBSET ActiveSet(c)
  BY DEF Senders
<1>3. IsFiniteSet(Senders(c, q, s))
  BY <1>1, <1>2, FS_Subset
<1>4. Come(c, q, s) \in SUBSET Senders(c, q, s)
  BY DEF Come
<1> QED
  BY <1>3, <1>4, FS_Subset, FS_CardinalityType

\* A slot that is given back has had all its signals.
LEMMA ClearedAfterAll ==
  ASSUME NEW c, Good(c), Signalled(c), FlowInv(c), SignalInv(c), NEW q \in ActiveSet(c), NEW s,
         Cleared(c, q, s)
  PROVE  Come(c, q, s) = Senders(c, q, s)
<1>1. PICK k \in 1..Size(c, q) : Reset(c, q, k, s) /\ Done(q, k)
  BY DEF Cleared
<1>2. PICK w \in 1..Size(c, q) : w < k /\ Waits(c, q, w, s)
  BY <1>1 DEF Signalled, WaitsWell
<1>3. k < at[q] /\ at[q] \in Nat
  BY <1>1, ReturnedAtEnd DEF Done, FlowInv, Typed, Good, Called
<1>4. w < at[q]
  BY <1>2, <1>3
<1> QED
  BY <1>2, <1>4 DEF SignalInv, WaitedFor

\* Nor is it given back while its member has still to wait.
LEMMA NotClearedBefore ==
  ASSUME NEW c, Good(c), Signalled(c), FlowInv(c), NEW q \in ActiveSet(c), NEW s,
         NEW w \in 1..Size(c, q), Waits(c, q, w, s), at[q] <= w
  PROVE  ~Cleared(c, q, s)
<1>1. at[q] \in Nat
  BY ReturnedAtEnd DEF FlowInv, Typed, Good, Called
<1> SUFFICES ASSUME NEW k \in 1..Size(c, q), Reset(c, q, k, s), Done(q, k)
             PROVE  FALSE
  BY DEF Cleared
<1>2. w < k
  BY DEF Signalled, WaitsWell
<1>3. k < at[q]
  BY DEF Done
<1> QED
  BY <1>1, <1>2, <1>3

LEMMA SameSignals ==
  ASSUME NEW c,
         \A q \in ActiveSet(c) : \A l \in 1..Size(c, q) :
           Stm(c, q, l).do \in Flag => (Done(q, l)' <=> Done(q, l))
  PROVE  \A q \in ActiveSet(c) : \A s : /\ Come(c, q, s)' = Come(c, q, s)
                                        /\ Cleared(c, q, s)' <=> Cleared(c, q, s)
<1> TAKE q \in ActiveSet(c)
<1> TAKE s
<1>1. \A p \in ActiveSet(c) : \A k \in 1..Size(c, p) :
        Signal(c, p, k, q, s) => (Done(p, k)' <=> Done(p, k))
  BY DEF Signal
<1>2. \A k \in 1..Size(c, q) : Reset(c, q, k, s) => (Done(q, k)' <=> Done(q, k))
  BY DEF Reset, Flag
<1>3. Senders(c, q, s) \subseteq ActiveSet(c)
  BY DEF Senders
<1>4. Come(c, q, s)' = {p \in Senders(c, q, s) : \E k \in 1..Size(c, p) :
                          Signal(c, p, k, q, s) /\ Done(p, k)'}
  BY DEF Come
<1>5. Come(c, q, s)' = Come(c, q, s)
  BY <1>1, <1>3, <1>4 DEF Come
<1>6. Cleared(c, q, s)' <=> Cleared(c, q, s)
  BY <1>2 DEF Cleared
<1> QED
  BY <1>5, <1>6

LEMMA SlotsSame ==
  ASSUME NEW q, NEW s, psync' = psync
  PROVE  Slot(q, s)' = Slot(q, s)
BY DEF Slot

LEMMA CountedStays ==
  ASSUME NEW c, Counted(c), psync' = psync,
         \A q \in ActiveSet(c) : \A l \in 1..Size(c, q) :
           Stm(c, q, l).do \in Flag => (Done(q, l)' <=> Done(q, l))
  PROVE  Counted(c)'
<1>1. \A q \in ActiveSet(c) : \A s : /\ Come(c, q, s)' = Come(c, q, s)
                                     /\ Cleared(c, q, s)' <=> Cleared(c, q, s)
  BY SameSignals
<1>2. \A q, s : Slot(q, s)' = Slot(q, s)
  BY SlotsSame
<1> QED
  BY <1>1, <1>2 DEF Counted

\* A member goes on from a wait when all it waits for has come.
LEMMA AdvanceWaited ==
  ASSUME NEW c, Good(c), Signalled(c), FlowInv(c), SignalInv(c), NEW p \in ActiveSet(c),
         Ready(p), NEW s, at[p] \in 1..Size(c, p), Waits(c, p, at[p], s)
  PROVE  Come(c, p, s) = Senders(c, p, s)
<1>1. Called(c) /\ Straight(c) /\ Typed(c) /\ Position(c)
  BY DEF Good, FlowInv
<1>2. doing[p] = Stm(c, p, at[p]) /\ doing[p].do = "wait" /\ doing[p].slot = s
  BY <1>1 DEF Position, Positioned, Waits
<1>3. Compare(doing[p].cmp, Slot(p, s), doing[p].value)
  BY <1>2 DEF Ready
<1>4. ~Cleared(c, p, s)
  <2>1. at[p] <= at[p]
    OBVIOUS
  <2> DEFINE w == at[p]
  <2>2. w \in 1..Size(c, p) /\ Waits(c, p, w, s) /\ at[p] <= w
    BY <2>1
  <2> HIDE DEF w
  <2> QED
    BY <2>2, NotClearedBefore
<1>5. Slot(p, s) = Cardinality(Come(c, p, s))
  BY <1>4 DEF SignalInv, Counted
<1> DEFINE come == Cardinality(Come(c, p, s))
           all == Cardinality(Senders(c, p, s))
<1>6. come \in Nat /\ all \in Nat /\ come <= all
  BY <1>1, FiniteSenders
<1>7. come \in 0..all
  <2> HIDE DEF come, all
  <2> QED
    BY <1>6
<1>8. WaitsWell(c, p)
  BY DEF Signalled
<1>9. Compare(Stm(c, p, at[p]).cmp, come, Stm(c, p, at[p]).value) <=> come = all
  BY <1>7, <1>8 DEF WaitsWell
<1>10. come = all
  BY <1>2, <1>3, <1>5, <1>9
<1> QED
  BY <1>1, <1>10, FiniteSenders

LEMMA AdvanceSignals ==
  ASSUME NEW c, Good(c), Signalled(c), FlowInv(c), SignalInv(c), NEW p \in ActiveSet(c),
         NEW next \in (at[p] + 1)..(Size(c, p) + 1), Advances(c, p, next)
  PROVE  SignalInv(c)'
<1>1. Called(c) /\ Straight(c) /\ Typed(c) /\ Position(c)
  BY DEF Good, FlowInv
<1>2. /\ Ready(p) /\ psync' = psync /\ at' = [at EXCEPT ![p] = next] /\ at \in [AllPEs(c) -> Nat]
      /\ \A j \in (at[p] + 1)..(next - 1) : Stm(c, p, j).do \in Asking
  BY <1>1 DEF Advances, GoesOn, Typed
<1>3. p \in AllPEs(c) /\ at[p] \in Nat /\ Size(c, p) \in Nat
  BY <1>1, <1>2, MembersArePEs, SizeIsNat
<1>4. at[p] \in 1..Size(c, p) => Stm(c, p, at[p]).do \notin Asking
  BY <1>1, NotAsking
<1>5. \A q \in ActiveSet(c) : \A l \in 1..Size(c, q) :
        Stm(c, q, l).do \in Flag => (Done(q, l)' <=> Done(q, l))
  <2> SUFFICES ASSUME NEW q \in ActiveSet(c), NEW l \in 1..Size(c, q), Stm(c, q, l).do \in Flag,
                      Done(q, l)'
               PROVE  Done(q, l)
    BY AdvanceKeepsDone
  <2>1. \/ Done(q, l)
        \/ q = p /\ l = at[p]
        \/ q = p /\ l > at[p] /\ Stm(c, q, l).do \in {"set", "fence"}
    BY AdvanceDone
  <2> QED
    BY <1>4, <2>1 DEF Flag, Asking
<1>6. Counted(c)'
  BY <1>2, <1>5, CountedStays DEF SignalInv
<1>7. \A q \in ActiveSet(c) : \A s : Come(c, q, s)' = Come(c, q, s)
  BY <1>5, SameSignals
<1>8. WaitedFor(c)'
  <2> SUFFICES ASSUME NEW q \in ActiveSet(c), NEW s, NEW w \in 1..Size(c, q),
                      Waits(c, q, w, s), w < at'[q]
               PROVE  Come(c, q, s) = Senders(c, q, s)
    BY <1>7 DEF WaitedFor
  <2>1. q \in AllPEs(c)
    BY <1>1, MembersArePEs
  <2>2. CASE w < at[q]
    BY <2>2 DEF SignalInv, WaitedFor
  <2>3. CASE q = p /\ w = at[p]
    BY <1>2, <2>3, AdvanceWaited
  <2>4. CASE ~(w < at[q]) /\ ~(q = p /\ w = at[p])
    <3>1. q = p
      BY <1>2, <2>1, <2>4
    <3>2. w < next
      BY <1>2, <1>3, <3>1
    <3>3. w \in (at[p] + 1)..(next - 1)
      BY <1>3, <2>4, <3>1, <3>2
    <3> QED
      BY <1>2, <3>1, <3>3 DEF Waits, Asking
  <2> QED
    BY <2>2, <2>3, <2>4
<1> QED
  BY <1>6, <1>8 DEF SignalInv

LEMMA ArriveSignals ==
  ASSUME NEW c, Good(c), Signalled(c), FlowInv(c), SignalInv(c), NEW p \in ActiveSet(c),
         Arrives(c, p)
  PROVE  SignalInv(c)'
<1>1. Stm(c, p, at[p]).do # "barrier"
  BY DEF Signalled, Arrives
<1> QED
  BY <1>1 DEF Arrives

\* A signal is added, once, to those of its slot.
LEMMA SignalLands ==
  ASSUME NEW c, Good(c), Signalled(c), FlowInv(c), SignalInv(c), NEW o, Lands(o), LandsFlag(o),
         NEW s, Signal(c, o.from, o.k, o.to, s)
  PROVE  /\ \A q \in ActiveSet(c) : \A t :
              Come(c, q, t)' = IF q = o.to /\ t = s THEN Come(c, q, t) \cup {o.from}
                               ELSE Come(c, q, t)
         /\ o.from \in Senders(c, o.to, s) /\ o.from \notin Come(c, o.to, s)
<1> DEFINE p == o.from
<1>1. InFlight(c) /\ SentBy(c, o) /\ o \in flight
  BY DEF FlowInv, InFlight, Lands
<1>2. p \in ActiveSet(c) /\ o.k \in 1..Size(c, p) /\ o.to = Stm(c, p, o.k).pe
  BY <1>1 DEF SentBy
<1>3. o.to \in ActiveSet(c)
  <2>1. Stm(c, p, o.k).do \in Sent
    BY <1>1 DEF SentBy
  <2> QED
    BY <1>2, <2>1 DEF Good, Straight
<1>4. SignalsWell(c, p)
  BY <1>2 DEF Signalled
<1>5. p \in Senders(c, o.to, s)
  BY <1>2 DEF Senders
<1>6. ~Done(p, o.k)
  BY <1>1 DEF Done
<1>7. p \notin Come(c, o.to, s)
  <2> SUFFICES ASSUME NEW k \in 1..Size(c, p), Signal(c, p, k, o.to, s), Done(p, k)
               PROVE  FALSE
    BY DEF Come
  <2>1. k = o.k
    BY <1>2, <1>3, <1>4 DEF SignalsWell
  <2> QED
    BY <1>6, <2>1
<1>8. \A q, l : Done(q, l)' <=> Done(q, l) \/ (q = p /\ l = o.k)
  BY <1>1, LandDone
<1>9. ASSUME NEW q \in ActiveSet(c), NEW t
      PROVE  Come(c, q, t)' = IF q = o.to /\ t = s THEN Come(c, q, t) \cup {p} ELSE Come(c, q, t)
  <2>1. Come(c, q, t)' = {r \in Senders(c, q, t) : \E k \in 1..Size(c, r) :
                            Signal(c, r, k, q, t) /\ Done(r, k)'}
    BY DEF Come
  <2>2. Come(c, q, t)' = {r \in Senders(c, q, t) : \E k \in 1..Size(c, r) :
                 Signal(c, r, k, q, t) /\ (Done(r, k) \/ (r = p /\ k = o.k))}
    BY <1>8, <2>1
  <2>3. Signal(c, p, o.k, q, t) <=> q = o.to /\ t = s
    BY <1>2 DEF Signal
  <2> HIDE DEF p
  <2>4. CASE q = o.to /\ t = s
    BY <1>2, <1>5, <2>2, <2>3, <2>4 DEF Come
  <2>5. CASE ~(q = o.to /\ t = s)
    BY <2>2, <2>3, <2>5 DEF Come
  <2> QED
    BY <2>4, <2>5
<1> QED
  BY <1>5, <1>7, <1>9

LEMMA SignalCounted ==
  ASSUME NEW c, Good(c), Signalled(c), FlowInv(c), SignalInv(c), NEW o, Lands(o), LandsFlag(o),
         NEW s, Signal(c, o.from, o.k, o.to, s)
  PROVE  Counted(c)'
<1> DEFINE p == o.from
           q == o.to
<1>1. /\ o \in flight /\ SentBy(c, o) /\ InFlight(c) /\ Called(c) /\ SlotsKept(c)
  BY DEF FlowInv, InFlight, Lands, Good
<1>2. /\ p \in ActiveSet(c) /\ o.k \in 1..Size(c, p) /\ o.asked = Stm(c, p, o.k)
      /\ q = Stm(c, p, o.k).pe /\ Stm(c, p, o.k).do \in Sent
  BY <1>1 DEF SentBy
<1>3. q \in ActiveSet(c) /\ q \in AllPEs(c)
  BY <1>1, <1>2, MembersArePEs DEF Good, Straight
<1>4. /\ \A r \in ActiveSet(c) : \A t :
           Come(c, r, t)' = IF r = q /\ t = s THEN Come(c, r, t) \cup {p} ELSE Come(c, r, t)
      /\ p \in Senders(c, q, s) /\ p \notin Come(c, q, s)
  BY SignalLands
<1>5. ~Cleared(c, q, s)
  BY <1>3, <1>4, ClearedAfterAll
<1>6. \A r \in ActiveSet(c) : \A t : Cleared(c, r, t)' <=> Cleared(c, r, t)
  <2> TAKE r \in ActiveSet(c)
  <2> TAKE t
  <2>1. \A l : Done(r, l)' <=> Done(r, l) \/ (r = p /\ l = o.k)
    BY <1>1, LandDone
  <2>2. ~Reset(c, p, o.k, t)
    BY DEF Signal, Reset, SHCOLL_SYNC_VALUE
  <2>3. Cleared(c, r, t)' <=> \E k \in 1..Size(c, r) : Reset(c, r, k, t) /\ Done(r, k)'
    BY DEF Cleared
  <2> HIDE DEF p
  <2> QED
    BY <2>1, <2>2, <2>3 DEF Cleared
<1> DEFINE v == IF o.asked.do = "p" THEN 1 ELSE Slot(q, s) + 1
<1>7. psync' = WithSlot(q, s, v)
  <2>1. o.asked.slot = s /\ o.asked.value = 1
    BY <1>2 DEF Signal
  <2> QED
    BY <2>1 DEF LandsFlag
<1>8. v = Cardinality(Come(c, q, s)) + 1
  <2>1. Slot(q, s) = Cardinality(Come(c, q, s))
    BY <1>3, <1>5 DEF SignalInv, Counted
  <2>2. CASE o.asked.do = "p"
    <3>1. Senders(c, q, s) = {p}
      BY <1>2, <1>3, <2>2 DEF Signalled, SignalsWell
    <3>2. Come(c, q, s) = {}
      BY <1>4, <3>1 DEF Come
    <3>3. Cardinality({}) = 0
      BY FS_EmptySet
    <3> QED
      BY <2>2, <3>2, <3>3
  <2>3. CASE o.asked.do # "p"
    BY <2>1, <2>3
  <2> QED
    BY <2>2, <2>3
<1>9. Cardinality(Come(c, q, s) \cup {p}) = Cardinality(Come(c, q, s)) + 1
  <2>1. IsFiniteSet(Come(c, q, s))
    BY <1>1, FiniteSenders
  <2> HIDE DEF p, q
  <2> QED
    BY <1>4, <2>1, FS_AddElement
<1> HIDE DEF v, p, q
<1>10. \A r \in AllPEs(c) : \A t : Slot(r, t)' = IF r = q /\ t = s THEN v ELSE Slot(r, t)
  BY <1>1, <1>3, <1>7, SlotWritten
<1>11. ASSUME NEW r \in ActiveSet(c), NEW t
       PROVE  Slot(r, t)' = IF Cleared(c, r, t)' THEN SHCOLL_SYNC_VALUE
                            ELSE Cardinality(Come(c, r, t)')
  <2>1. r \in AllPEs(c)
    BY <1>1, MembersArePEs
  <2>2. Slot(r, t) = IF Cleared(c, r, t) THEN SHCOLL_SYNC_VALUE ELSE Cardinality(Come(c, r, t))
    BY DEF SignalInv, Counted
  <2>3. CASE r = q /\ t = s
    BY <1>4, <1>5, <1>6, <1>8, <1>9, <1>10, <2>1, <2>3
  <2>4. CASE ~(r = q /\ t = s)
    BY <1>4, <1>6, <1>10, <2>1, <2>2, <2>4
  <2> QED
    BY <2>3, <2>4
<1>12. ASSUME NEW r \in AllPEs(c) \ ActiveSet(c), NEW t
       PROVE  Slot(r, t)' = SHCOLL_SYNC_VALUE
  BY <1>3, <1>10 DEF SignalInv, Counted
<1> QED
  BY <1>11, <1>12 DEF Counted

LEMMA ResetLands ==
  ASSUME NEW c, Good(c), Signalled(c), FlowInv(c), SignalInv(c), NEW o, Lands(o), LandsFlag(o),
         NEW s, Reset(c, o.from, o.k, s)
  PROVE  /\ Counted(c)'
         /\ \A q \in ActiveSet(c) : \A t : Come(c, q, t)' = Come(c, q, t)
<1> DEFINE p == o.from
<1>1. /\ o \in flight /\ SentBy(c, o) /\ InFlight(c) /\ Called(c) /\ SlotsKept(c)
  BY DEF FlowInv, InFlight, Lands, Good
<1>2. /\ p \in ActiveSet(c) /\ o.k \in 1..Size(c, p) /\ o.asked = Stm(c, p, o.k)
      /\ o.to = Stm(c, p, o.k).pe /\ o.to = p
  BY <1>1 DEF SentBy, Reset
<1>3. p \in AllPEs(c)
  BY <1>1, <1>2, MembersArePEs
<1>4. psync' = WithSlot(p, s, SHCOLL_SYNC_VALUE)
  BY <1>2 DEF LandsFlag, Reset
<1>5. \A q, l : Done(q, l)' <=> Done(q, l) \/ (q = p /\ l = o.k)
  BY <1>1, LandDone
<1>6. \A q, t : ~Signal(c, p, o.k, q, t)
  BY DEF Signal, Reset, SHCOLL_SYNC_VALUE
<1>7. \A t : Reset(c, p, o.k, t) <=> t = s
  BY DEF Reset
<1>8. \A q \in ActiveSet(c) : \A t : Come(c, q, t)' = Come(c, q, t)
  <2> TAKE q \in ActiveSet(c)
  <2> TAKE t
  <2>1. Come(c, q, t)' = {r \in Senders(c, q, t) : \E k \in 1..Size(c, r) :
                            Signal(c, r, k, q, t) /\ Done(r, k)'}
    BY DEF Come
  <2> HIDE DEF p
  <2> QED
    BY <1>5, <1>6, <2>1 DEF Come
<1>9. \A q \in ActiveSet(c) : \A t : Cleared(c, q, t)' <=> Cleared(c, q, t) \/ (q = p /\ t = s)
  <2> TAKE q \in ActiveSet(c)
  <2> TAKE t
  <2>1. Cleared(c, q, t)' <=> \E k \in 1..Size(c, q) : Reset(c, q, k, t) /\ Done(q, k)'
    BY DEF Cleared
  <2> HIDE DEF p
  <2> QED
    BY <1>2, <1>5, <1>7, <2>1 DEF Cleared
<1> HIDE DEF p
<1>10. \A r \in AllPEs(c) : \A t :
         Slot(r, t)' = IF r = p /\ t = s THEN SHCOLL_SYNC_VALUE ELSE Slot(r, t)
  BY <1>1, <1>3, <1>4, SlotWritten
<1>11. ASSUME NEW r \in ActiveSet(c), NEW t
       PROVE  Slot(r, t)' = IF Cleared(c, r, t)' THEN SHCOLL_SYNC_VALUE
                            ELSE Cardinality(Come(c, r, t)')
  <2>1. r \in AllPEs(c)
    BY <1>1, MembersArePEs
  <2>2. Slot(r, t) = IF Cleared(c, r, t) THEN SHCOLL_SYNC_VALUE ELSE Cardinality(Come(c, r, t))
    BY DEF SignalInv, Counted
  <2> QED
    BY <1>8, <1>9, <1>10, <2>1, <2>2
<1>12. ASSUME NEW r \in AllPEs(c) \ ActiveSet(c), NEW t
       PROVE  Slot(r, t)' = SHCOLL_SYNC_VALUE
  BY <1>2, <1>10 DEF SignalInv, Counted
<1>13. Counted(c)'
  BY <1>11, <1>12 DEF Counted
<1> QED
  BY <1>8, <1>13

LEMMA WaitedStays ==
  ASSUME NEW c, WaitedFor(c), at' = at,
         \A q \in ActiveSet(c) : \A s : /\ Come(c, q, s) \subseteq Come(c, q, s)'
                                        /\ Come(c, q, s)' \subseteq Senders(c, q, s)
  PROVE  WaitedFor(c)'
<1> SUFFICES ASSUME NEW q \in ActiveSet(c), NEW s, NEW w \in 1..Size(c, q),
                    Waits(c, q, w, s), w < at'[q]
             PROVE  Come(c, q, s)' = Senders(c, q, s)
  BY DEF WaitedFor
<1>1. Come(c, q, s) = Senders(c, q, s)
  BY DEF WaitedFor
<1> QED
  BY <1>1

LEMMA LandSignals ==
  ASSUME NEW c, Good(c), Signalled(c), FlowInv(c), SignalInv(c), NEW o, Lands(o)
  PROVE  SignalInv(c)'
<1>1. o \in flight /\ SentBy(c, o) /\ InFlight(c) /\ at' = at /\ WaitedFor(c) /\ Counted(c)
  BY DEF FlowInv, InFlight, Lands, SignalInv
<1>2. /\ o.from \in ActiveSet(c) /\ o.k \in 1..Size(c, o.from) /\ o.asked = Stm(c, o.from, o.k)
      /\ o.to = Stm(c, o.from, o.k).pe
  BY <1>1 DEF SentBy
<1>3. \A q \in ActiveSet(c) : \A s : Come(c, q, s) \subseteq Senders(c, q, s)
  BY DEF Come
<1>4. CASE LandsData(o)
  <2>1. psync' = psync /\ o.asked.do = "put"
    BY <1>4 DEF LandsData
  <2>2. \A q \in ActiveSet(c) : \A l \in 1..Size(c, q) :
          Stm(c, q, l).do \in Flag => (Done(q, l)' <=> Done(q, l))
    BY <1>1, <1>2, <2>1, LandDone DEF Flag
  <2>3. Counted(c)' /\ \A q \in ActiveSet(c) : \A s : Come(c, q, s)' = Come(c, q, s)
    BY <1>1, <2>1, <2>2, CountedStays, SameSignals
  <2> QED
    BY <1>1, <1>3, <2>3, WaitedStays DEF SignalInv
<1>5. CASE LandsFlag(o)
  <2>1. Stm(c, o.from, o.k).do \in Flag
    BY <1>2, <1>5 DEF LandsFlag, Flag
  <2>2. \/ Signal(c, o.from, o.k, o.to, o.asked.slot)
        \/ Reset(c, o.from, o.k, o.asked.slot)
    BY <1>2, <2>1 DEF Signalled, SignalsWell
  <2>3. CASE Signal(c, o.from, o.k, o.to, o.asked.slot)
    <3>1. Counted(c)'
      BY <1>5, <2>3, SignalCounted
    <3>2. /\ \A q \in ActiveSet(c) : \A t :
               Come(c, q, t)' = IF q = o.to /\ t = o.asked.slot THEN Come(c, q, t) \cup {o.from}
                                ELSE Come(c, q, t)
          /\ o.from \in Senders(c, o.to, o.asked.slot)
      BY <1>5, <2>3, SignalLands
    <3>3. WaitedFor(c)'
      BY <1>1, <1>3, <3>2, WaitedStays
    <3> QED
      BY <3>1, <3>3 DEF SignalInv
  <2>4. CASE Reset(c, o.from, o.k, o.asked.slot)
    <3>1. Counted(c)' /\ \A q \in ActiveSet(c) : \A t : Come(c, q, t)' = Come(c, q, t)
      BY <1>5, <2>4, ResetLands
    <3> QED
      BY <1>1, <1>3, <3>1, WaitedStays DEF SignalInv
  <2> QED
    BY <2>2, <2>3, <2>4
<1> QED
  BY <1>4, <1>5 DEF Lands

LEMMA SignalsKept ==
  ASSUME NEW c, Good(c), Signalled(c), FlowInv(c), SignalInv(c), [ExchangeNext]_exchangeVars
  PROVE  SignalInv(c)'
<1>1. CASE UNCHANGED exchangeVars
  <2>1. psync' = psync /\ at' = at /\ flight' = flight
    BY <1>1 DEF exchangeVars
  <2>2. \A q, l : Done(q, l)' <=> Done(q, l)
    BY <2>1 DEF Done
  <2>3. Counted(c)' /\ \A q \in ActiveSet(c) : \A s : Come(c, q, s)' = Come(c, q, s)
    BY <2>1, <2>2, CountedStays, SameSignals DEF SignalInv
  <2>4. \A q \in ActiveSet(c) : \A s : Come(c, q, s) \subseteq Senders(c, q, s)
    BY DEF Come
  <2> QED
    BY <2>1, <2>3, <2>4, WaitedStays DEF SignalInv
<1> QED
  BY <1>1, NextSteps, AdvanceSignals, ArriveSignals, LandSignals DEF Stepped

LEMMA SignalsAtFirst ==
  ASSUME NEW c, Good(c), Signalled(c), ExchangeInit, case = c
  PROVE  SignalInv(c)
<1>1. PEs = AllPEs(c) /\ Called(c) /\ Straight(c)
  BY DEF PEs, AllPEs, Good
<1>2. at = [p \in AllPEs(c) |-> 0] /\ psync = [p \in AllPEs(c) |-> <<>>]
  BY <1>1 DEF ExchangeInit
<1>3. \A p \in ActiveSet(c) : at[p] = 0
  BY <1>1, <1>2, MembersArePEs
<1>4. \A p \in ActiveSet(c) : \A k \in 1..Size(c, p) : ~Done(p, k)
  BY <1>1, <1>3, SizeIsNat DEF Done
<1>5. \A q \in AllPEs(c) : \A s : Slot(q, s) = SHCOLL_SYNC_VALUE
  <2> TAKE q \in AllPEs(c)
  <2> TAKE s
  <2>1. psync[q] = <<>>
    BY <1>2
  <2>2. s \notin DOMAIN psync[q]
    BY <2>1
  <2> QED
    BY <2>2 DEF Slot
<1>6. \A q \in ActiveSet(c) : \A s : Come(c, q, s) = {} /\ ~Cleared(c, q, s)
  BY <1>4 DEF Come, Cleared, Senders
<1>7. Cardinality({}) = SHCOLL_SYNC_VALUE
  BY FS_EmptySet DEF SHCOLL_SYNC_VALUE
<1>8. Counted(c)
  BY <1>1, <1>5, <1>6, <1>7, MembersArePEs DEF Counted
<1>9. WaitedFor(c)
  <2> SUFFICES ASSUME NEW q \in ActiveSet(c), NEW s, NEW w \in 1..Size(c, q), w < at[q]
               PROVE  FALSE
    BY DEF WaitedFor
  <2>1. at[q] = 0
    BY <1>3
  <2> QED
    BY <1>1, <2>1, SizeIsNat
<1> QED
  BY <1>8, <1>9 DEF SignalInv

LEMMA SignalledReturn ==
  ASSUME NEW c, Good(c), Signalled(c), FlowInv(c), SignalInv(c)
  PROVE  ReturnsWithResult
<1>1. case = c
  BY DEF FlowInv, Typed
<1> SUFFICES ASSUME NEW p \in ActiveSet(c), Returned(p)
             PROVE  mem[p].dest = Result(c, p)
  BY <1>1 DEF ReturnsWithResult
<1>2. at[p] = Size(c, p) + 1 /\ Size(c, p) \in Nat
  BY ReturnedAtEnd
<1>3. ASSUME NEW q \in ActiveSet(c), NEW k \in 1..Size(c, q),
             Stm(c, q, k).do \in Moved, Target(c, q, k) = p
      PROVE  Done(q, k)
  <2>1. Size(c, q) \in Nat /\ at[q] \in 0..(Size(c, q) + 1)
    BY ReturnedAtEnd
  <2>2. CASE Stm(c, q, k).do = "copy"
    <3>1. q = p
      BY <1>3, <2>2 DEF Target
    <3>2. \A o \in flight : o.from = q => o.k # k
      BY <2>2 DEF FlowInv, InFlight, SentBy, Sent
    <3> QED
      BY <1>2, <3>1, <3>2 DEF Done
  <2>3. CASE Stm(c, q, k).do = "put"
    <3>1. Stm(c, q, k).pe = p
      BY <1>3, <2>3 DEF Target
    <3>2. PICK j \in 1..Size(c, q) : \E s : Signal(c, q, j, p, s) /\ k < j /\ Fenced(c, q, k, j)
      BY <2>3, <3>1 DEF Signalled, PutsFenced
    <3>3. PICK s : Signal(c, q, j, p, s) /\ k < j /\ Fenced(c, q, k, j)
      BY <3>2
    <3>4. q \in Senders(c, p, s)
      BY <3>3 DEF Senders
    <3>5. PICK r \in 1..Size(c, p) : Reset(c, p, r, s)
      BY <3>4 DEF Signalled, WaitsWell
    <3>6. PICK w \in 1..Size(c, p) : w < r /\ Waits(c, p, w, s)
      BY <3>5 DEF Signalled, WaitsWell
    <3>7. w < at[p]
      BY <1>2
    <3>8. q \in Come(c, p, s)
      BY <3>4, <3>6, <3>7 DEF SignalInv, WaitedFor
    <3>9. PICK l \in 1..Size(c, q) : Signal(c, q, l, p, s) /\ Done(q, l)
      BY <3>8 DEF Come
    <3>10. l = j
      BY <3>3, <3>9 DEF Signalled, SignalsWell
    <3>11. Done(q, j)
      BY <3>9, <3>10
    <3>12. k < at[q]
      BY <2>1, <3>3, <3>11 DEF Done
    <3>13. ASSUME NEW o \in flight, o.from = q, o.k = k
           PROVE  FALSE
      <4>1. o.to = p
        BY <3>1, <3>13 DEF FlowInv, InFlight, SentBy
      <4>2. Stm(c, q, j).do \in Sent /\ Stm(c, q, j).pe = p
        BY <3>3 DEF Signal, Flag, Sent
      <4>3. FenceOrder(c)
        BY DEF FlowInv
      <4> QED
        BY <3>3, <3>11, <3>13, <4>1, <4>2, <4>3 DEF FenceOrder
    <3> QED
      BY <3>12, <3>13 DEF Done
  <2> QED
    BY <1>3, <2>2, <2>3 DEF Moved
<1> QED
  BY <1>3, ReturnedRight

LEMMA SignalledGiveBack ==
  ASSUME NEW c, Good(c), Signalled(c), FlowInv(c), SignalInv(c)
  PROVE  PSyncGivenBack
<1>1. PEs = AllPEs(c) /\ Called(c) /\ SlotsKept(c) /\ Counted(c)
  BY DEF FlowInv, Typed, PEs, AllPEs, Good, SignalInv
<1> SUFFICES ASSUME flight = {}, \A p \in AllPEs(c) : Returned(p), NEW q \in AllPEs(c)
             PROVE  psync[q] = <<>>
  BY <1>1 DEF PSyncGivenBack
<1>2. ASSUME NEW s
      PROVE  Slot(q, s) = SHCOLL_SYNC_VALUE
  <2>1. CASE q \notin ActiveSet(c)
    BY <1>1, <2>1 DEF Counted
  <2>2. CASE q \in ActiveSet(c) /\ Senders(c, q, s) = {}
    <3>1. Come(c, q, s) = {}
      BY <2>2 DEF Come
    <3> QED
      BY <1>1, <2>2, <3>1, FS_EmptySet DEF Counted, SHCOLL_SYNC_VALUE
  <2>3. CASE q \in ActiveSet(c) /\ Senders(c, q, s) # {}
    <3>1. PICK k \in 1..Size(c, q) : Reset(c, q, k, s)
      BY <2>3 DEF Signalled, WaitsWell
    <3>2. at[q] = Size(c, q) + 1 /\ Size(c, q) \in Nat
      BY <2>3, ReturnedAtEnd
    <3>3. Done(q, k)
      BY <3>2 DEF Done
    <3>4. Cleared(c, q, s)
      BY <3>1, <3>3 DEF Cleared
    <3> QED
      BY <1>1, <2>3, <3>4 DEF Counted
  <2> QED
    BY <2>1, <2>2, <2>3
<1> QED
  BY <1>1, <1>2, AllSlotsClean

LEMMA SignalledGoOn ==
  ASSUME NEW c, Good(c), Signalled(c), FlowInv(c), SignalInv(c)
  PROVE  NobodyStuck
<1>1. /\ PEs = AllPEs(c) /\ Called(c) /\ Straight(c) /\ Typed(c) /\ Position(c) /\ Counted(c)
  BY DEF FlowInv, Typed, PEs, AllPEs, Good, SignalInv
<1> SUFFICES ASSUME flight = {}, \A p \in AllPEs(c) : ~Ready(p)
             PROVE  \A p \in AllPEs(c) : Returned(p)
  BY <1>1 DEF NobodyStuck
<1>2. ASSUME NEW p \in AllPEs(c), ~Returned(p)
      PROVE  /\ p \in ActiveSet(c) /\ at[p] \in 1..Size(c, p)
             /\ doing[p] = Stm(c, p, at[p]) /\ doing[p].do = "wait"
  <2>1. doing[p].do # "return"
    BY <1>2 DEF Returned
  <2>2. /\ p \in ActiveSet(c) /\ at[p] \in 0..Size(c, p)
        /\ at[p] = 0 => doing[p].do = "enter"
        /\ at[p] \in 1..Size(c, p) =>
             \/ /\ doing[p] = Stm(c, p, at[p])
                /\ doing[p].do \in {"copy", "wait", "barrier"}
             \/ Stm(c, p, at[p]).do = "barrier" /\ doing[p].do = "leave"
    BY <1>1, <2>1, DoingThere
  <2>3. at[p] # 0 /\ doing[p].do # "copy"
    BY <2>2 DEF Ready
  <2>4. at[p] \in 1..Size(c, p)
    BY <1>1, <2>2, <2>3, SizeIsNat
  <2>5. Stm(c, p, at[p]).do # "barrier"
    BY <2>2, <2>4 DEF Signalled
  <2> QED
    BY <2>2, <2>3, <2>4, <2>5
<1>3. ASSUME NEW p \in ActiveSet(c), NEW k \in 1..Size(c, p), NEW q \in ActiveSet(c), NEW s,
             Signal(c, p, k, q, s)
      PROVE  Done(p, k)
  <2>1. p \in AllPEs(c) /\ Size(c, p) \in Nat /\ at[p] \in Nat
    BY <1>1, MembersArePEs, SizeIsNat DEF Typed
  <2>2. CASE Returned(p)
    BY <2>1, <2>2, ReturnedAtEnd DEF Done
  <2>3. CASE ~Returned(p)
    <3> DEFINE w == at[p]
    <3>1. w \in 1..Size(c, p) /\ Waits(c, p, w, Stm(c, p, w).slot)
      BY <1>2, <2>1, <2>3 DEF Waits
    <3> HIDE DEF w
    <3>2. k < w
      BY <1>3, <3>1 DEF Signalled, WaitsWell
    <3> QED
      BY <3>2 DEF w, Done
  <2> QED
    BY <2>2, <2>3
<1>4. ASSUME NEW q \in ActiveSet(c), NEW s
      PROVE  Come(c, q, s) = Senders(c, q, s)
  BY <1>3 DEF Come, Senders
<1>5. ASSUME NEW p \in AllPEs(c), ~Returned(p)
      PROVE  FALSE
  <2> DEFINE w == at[p]
             s == Stm(c, p, w).slot
  <2>1. /\ p \in ActiveSet(c) /\ w \in 1..Size(c, p)
        /\ doing[p] = Stm(c, p, w) /\ doing[p].do = "wait"
    BY <1>2, <1>5
  <2>2. Waits(c, p, w, s)
    BY <2>1 DEF Waits
  <2>3. at[p] <= w
    BY <1>1 DEF Typed
  <2> HIDE DEF w
  <2>4. ~Cleared(c, p, s)
    BY <2>1, <2>2, <2>3, NotClearedBefore
  <2>5. Slot(p, s) = Cardinality(Senders(c, p, s))
    BY <1>1, <1>4, <2>1, <2>4 DEF Counted
  <2>6. Cardinality(Senders(c, p, s)) \in Nat
    BY <1>1, FiniteSenders
  <2>7. Cardinality(Senders(c, p, s)) \in 0..Cardinality(Senders(c, p, s))
    BY <2>6
  <2>8. WaitsWell(c, p)
    BY <2>1 DEF Signalled
  <2>9. Compare(Stm(c, p, w).cmp, Slot(p, s), Stm(c, p, w).value)
    BY <2>1, <2>2, <2>5, <2>7, <2>8 DEF WaitsWell
  <2>10. Ready(p)
    BY <2>1, <2>9 DEF Ready
  <2> QED
    BY <2>10
<1> QED
  BY <1>5

------------------------------------------------------------------------------
\* Programs whose members meet at barriers, the last of them at the end.

IsBarrier(c, p, k) == Stm(c, p, k).do = "barrier"
Barriered(c) ==
  \A p \in ActiveSet(c) :
    /\ \A k \in 1..Size(c, p) : Stm(c, p, k).do \in {"put", "copy", "barrier"}
    /\ Size(c, p) > 0 /\ IsBarrier(c, p, Size(c, p))
    /\ \A q \in ActiveSet(c) :
         /\ Size(c, q) = Size(c, p)
         /\ \A k \in 1..Size(c, p) : IsBarrier(c, p, k) => IsBarrier(c, q, k)

\* the barriers a member has come to
Came(p, k) == k < at[p] \/ (k = at[p] /\ doing[p].do = "leave")
Passed(c, p) == {k \in 1..Size(c, p) : IsBarrier(c, p, k) /\ Came(p, k)}

BarrierInv(c) ==
  /\ psync = [p \in AllPEs(c) |-> <<>>]
  /\ \A p \in ActiveSet(c) : arrived[p] = Cardinality(Passed(c, p))
  /\ \A p \in ActiveSet(c) : \A k \in Passed(c, p) : \A j \in 1..(k - 1) :
       Stm(c, p, j).do = "put" => Done(p, j)
  /\ \A p \in ActiveSet(c) : \A q \in ActiveSet(c) : \A k \in Passed(c, p) :
       k < at[p] => k \in Passed(c, q)

LEMMA FinitePassed ==
  ASSUME NEW c, Straight(c), NEW p \in ActiveSet(c)
  PROVE  IsFiniteSet(Passed(c, p)) /\ Cardinality(Passed(c, p)) \in Nat
<1>1. 1 \in Int /\ Size(c, p) \in Int
  BY SizeIsNat
<1>2. IsFiniteSet(1..Size(c, p))
  BY <1>1, FS_Interval
<1>3. Passed(c, p) \in SUBSET (1..Size(c, p))
  BY DEF Passed
<1>4. IsFiniteSet(Passed(c, p))
  BY <1>2, <1>3, FS_Subset
<1> QED
  BY <1>4, FS_CardinalityType

\* A member with as many barriers behind it has the same behind it, and more.
LEMMA AsMany ==
  ASSUME NEW c, Good(c), Barriered(c), FlowInv(c), NEW p \in ActiveSet(c), NEW q \in ActiveSet(c),
         Cardinality(Passed(c, q)) >= Cardinality(Passed(c, p)), NEW k \in Passed(c, p)
  PROVE  k \in Passed(c, q)
<1>1. Straight(c) /\ at[p] \in Nat /\ at[q] \in Nat
  BY MembersArePEs DEF Good, FlowInv, Typed
<1>2. Size(c, p) \in Nat /\ Size(c, q) = Size(c, p)
  BY <1>1, SizeIsNat DEF Barriered
<1>3. \A j \in 1..Size(c, p) : IsBarrier(c, p, j) <=> IsBarrier(c, q, j)
  BY <1>2 DEF Barriered
<1> SUFFICES ASSUME k \notin Passed(c, q)
             PROVE  FALSE
  OBVIOUS
<1>4. k \in 1..Size(c, p) /\ IsBarrier(c, p, k) /\ Came(p, k) /\ ~Came(q, k)
  BY <1>2, <1>3 DEF Passed
<1>5. ASSUME NEW j \in Passed(c, q)
      PROVE  j \in Passed(c, p)
  <2>1. j \in 1..Size(c, p) /\ IsBarrier(c, p, j) /\ Came(q, j)
    BY <1>2, <1>3 DEF Passed
  <2>2. j < k
    BY <1>1, <1>4, <2>1 DEF Came
  <2>3. Came(p, j)
    BY <1>1, <1>4, <2>1, <2>2 DEF Came
  <2> QED
    BY <2>1, <2>3 DEF Passed
<1>6. Passed(c, q) \in SUBSET Passed(c, p)
  BY <1>5
<1>7. IsFiniteSet(Passed(c, p)) /\ Cardinality(Passed(c, p)) \in Nat
      /\ Cardinality(Passed(c, q)) \in Nat
  BY <1>1, FinitePassed
<1>8. /\ Cardinality(Passed(c, q)) <= Cardinality(Passed(c, p))
      /\ Cardinality(Passed(c, p)) = Cardinality(Passed(c, q)) => Passed(c, p) = Passed(c, q)
  BY <1>6, <1>7, FS_Subset
<1> QED
  BY <1>7, <1>8

LEMMA AdvancePassed ==
  ASSUME NEW c, Good(c), Barriered(c), FlowInv(c), NEW p \in ActiveSet(c),
         NEW next \in (at[p] + 1)..(Size(c, p) + 1), Advances(c, p, next)
  PROVE  \A q \in ActiveSet(c) : Passed(c, q)' = Passed(c, q)
<1>1. Straight(c) /\ Typed(c) /\ Called(c) /\ Position(c)
  BY DEF Good, FlowInv
<1>2. /\ at' = [at EXCEPT ![p] = next] /\ at \in [AllPEs(c) -> Nat]
      /\ doing' = [doing EXCEPT ![p] = IF next = Size(c, p) + 1 THEN Return ELSE Stm(c, p, next)]
      /\ \A j \in (at[p] + 1)..(next - 1) : Stm(c, p, j).do \in Asking
      /\ DOMAIN doing = AllPEs(c)
      /\ at[p] \in 1..Size(c, p) => doing[p].do # "barrier"
  BY <1>1 DEF Advances, GoesOn, Typed
<1>3. p \in AllPEs(c) /\ Size(c, p) \in Nat /\ at[p] \in Nat
  BY <1>1, <1>2, MembersArePEs, SizeIsNat
<1> TAKE q \in ActiveSet(c)
<1>4. q \in AllPEs(c)
  BY <1>1, MembersArePEs
<1>5. CASE q # p
  <2>1. at'[q] = at[q] /\ doing'[q] = doing[q]
    BY <1>2, <1>4, <1>5
  <2> QED
    BY <2>1 DEF Passed, Came
<1>6. CASE q = p
  <2>1. at'[p] = next /\ doing'[p] = IF next = Size(c, p) + 1 THEN Return ELSE Stm(c, p, next)
    BY <1>2, <1>3
  <2>2. ASSUME NEW k \in 1..Size(c, p), IsBarrier(c, p, k)
        PROVE  Came(p, k)' <=> Came(p, k)
    <3>1. k \in Nat
      OBVIOUS
    <3>2. doing'[p].do # "leave"
      <4>1. CASE next = Size(c, p) + 1
        BY <2>1, <4>1 DEF Return
      <4>2. CASE next # Size(c, p) + 1
        <5>1. next \in 1..Size(c, p)
          BY <1>3, <4>2
        <5> QED
          BY <2>1, <4>2, <5>1 DEF Barriered
      <4> QED
        BY <4>1, <4>2
    <3>3. Came(p, k)' <=> k < next
      BY <2>1, <3>2 DEF Came
    <3>4. k \notin (at[p] + 1)..(next - 1)
      BY <1>2, <2>2 DEF IsBarrier, Asking
    <3>5. k < next <=> k <= at[p]
      BY <1>3, <3>1, <3>4
    <3>6. ASSUME k = at[p]
          PROVE  doing[p].do = "leave"
      BY <1>1, <1>2, <2>2, <3>6 DEF Position, Positioned, IsBarrier
    <3>7. k <= at[p] <=> k < at[p] \/ k = at[p]
      BY <1>3, <3>1
    <3> QED
      BY <3>3, <3>5, <3>6, <3>7 DEF Came
  <2>3. Passed(c, p)' = {k \in 1..Size(c, p) : IsBarrier(c, p, k) /\ Came(p, k)'}
    BY DEF Passed
  <2> QED
    BY <1>6, <2>2, <2>3 DEF Passed
<1> QED
  BY <1>5, <1>6

LEMMA AdvanceBarriers ==
  ASSUME NEW c, Good(c), Barriered(c), FlowInv(c), BarrierInv(c), NEW p \in ActiveSet(c),
         NEW next \in (at[p] + 1)..(Size(c, p) + 1), Advances(c, p, next)
  PROVE  BarrierInv(c)'
<1>1. Straight(c) /\ Typed(c) /\ Called(c) /\ Position(c)
  BY DEF Good, FlowInv
<1>2. /\ at' = [at EXCEPT ![p] = next] /\ at \in [AllPEs(c) -> Nat]
      /\ psync' = psync /\ arrived' = arrived /\ Ready(p) /\ case = c
      /\ \A j \in (at[p] + 1)..(next - 1) : Stm(c, p, j).do \in Asking
  BY <1>1 DEF Advances, GoesOn, Typed
<1>3. p \in AllPEs(c) /\ Size(c, p) \in Nat /\ at[p] \in Nat
  BY <1>1, <1>2, MembersArePEs, SizeIsNat
<1>4. \A q \in ActiveSet(c) : Passed(c, q)' = Passed(c, q)
  BY AdvancePassed
<1>5. ASSUME NEW q \in ActiveSet(c), NEW k \in Passed(c, q), NEW j \in 1..(k - 1),
             Stm(c, q, j).do = "put"
      PROVE  Done(q, j)'
  <2>1. Done(q, j)
    BY <1>5 DEF BarrierInv
  <2>2. j \in 1..Size(c, q)
    <3>1. Size(c, q) \in Nat /\ k \in 1..Size(c, q)
      BY <1>1, SizeIsNat DEF Passed
    <3> QED
      BY <3>1
  <2> QED
    BY <2>1, <2>2, AdvanceKeepsDone
<1>6. ASSUME NEW r \in ActiveSet(c), NEW q \in ActiveSet(c), NEW k \in Passed(c, r), k < at'[r]
      PROVE  k \in Passed(c, q)
  <2>1. k \in 1..Size(c, r) /\ k \in Nat /\ r \in AllPEs(c) /\ IsBarrier(c, r, k) /\ Came(r, k)
    BY <1>1, MembersArePEs DEF Passed
  <2>2. CASE k < at[r]
    BY <2>2 DEF BarrierInv
  <2>3. CASE ~(k < at[r])
    <3>1. r = p
      BY <1>2, <1>6, <2>1, <2>3
    <3>2. k = at[p] /\ doing[p].do = "leave"
      BY <2>1, <2>3, <3>1 DEF Came
    <3>3. arrived[q] >= arrived[p]
      BY <1>2, <3>2 DEF Ready
    <3>4. arrived[q] = Cardinality(Passed(c, q)) /\ arrived[p] = Cardinality(Passed(c, p))
      BY DEF BarrierInv
    <3> QED
      BY <3>1, <3>3, <3>4, AsMany
  <2> QED
    BY <2>2, <2>3
<1>7. /\ psync' = [q \in AllPEs(c) |-> <<>>]
      /\ \A q \in ActiveSet(c) : arrived'[q] = Cardinality(Passed(c, q)')
  BY <1>2, <1>4 DEF BarrierInv
<1> QED
  BY <1>4, <1>5, <1>6, <1>7 DEF BarrierInv

LEMMA ArriveBarriers ==
  ASSUME NEW c, Good(c), Barriered(c), FlowInv(c), BarrierInv(c), NEW p \in ActiveSet(c),
         Arrives(c, p)
  PROVE  BarrierInv(c)'
<1>1. Straight(c) /\ Typed(c) /\ Called(c) /\ Position(c) /\ InFlight(c)
  BY DEF Good, FlowInv
<1> DEFINE b == at[p]
<1>2. /\ b \in 1..Size(c, p) /\ IsBarrier(c, p, b) /\ doing[p].do = "barrier"
      /\ \A o \in flight : o.from # p
      /\ arrived' = [arrived EXCEPT ![p] = @ + 1]
      /\ doing' = [doing EXCEPT ![p] = [do |-> "leave"]] /\ DOMAIN doing = AllPEs(c)
      /\ at' = at /\ psync' = psync /\ flight' = flight /\ arrived \in [AllPEs(c) -> Nat]
  BY <1>1 DEF Arrives, IsBarrier, Typed
<1>3. p \in AllPEs(c) /\ Size(c, p) \in Nat /\ at[p] \in Nat
  BY <1>1, MembersArePEs, SizeIsNat DEF Typed
<1>4. \A q \in AllPEs(c) : doing'[q] = IF q = p THEN [do |-> "leave"] ELSE doing[q]
  BY <1>2
<1>5. ASSUME NEW q \in ActiveSet(c)
      PROVE  Passed(c, q)' = IF q = p THEN Passed(c, p) \cup {b} ELSE Passed(c, q)
  <2>1. q \in AllPEs(c)
    BY <1>1, MembersArePEs
  <2>2. Passed(c, q)' = {k \in 1..Size(c, q) : IsBarrier(c, q, k) /\ Came(q, k)'}
    BY DEF Passed
  <2>3. CASE q = p
    <3>1. \A k : Came(p, k)' <=> k < at[p] \/ k = at[p]
      BY <1>2, <1>3, <1>4 DEF Came
    <3>2. \A k : Came(p, k) <=> k < at[p]
      BY <1>2 DEF Came
    <3> QED
      BY <1>2, <2>2, <2>3, <3>1, <3>2 DEF Passed
  <2>4. CASE q # p
    <3>1. \A k : Came(q, k)' <=> Came(q, k)
      BY <1>2, <1>4, <2>1, <2>4 DEF Came
    <3> QED
      BY <2>2, <2>4, <3>1 DEF Passed
  <2> QED
    BY <2>3, <2>4
<1>6. b \notin Passed(c, p)
  BY <1>2, <1>3 DEF Passed, Came
<1>7. Cardinality(Passed(c, p) \cup {b}) = Cardinality(Passed(c, p)) + 1
  <2>1. IsFiniteSet(Passed(c, p))
    BY <1>1, FinitePassed
  <2> HIDE DEF b
  <2> QED
    BY <1>6, <2>1, FS_AddElement
<1>8. ASSUME NEW q \in ActiveSet(c)
      PROVE  arrived'[q] = Cardinality(Passed(c, q)')
  <2>1. q \in AllPEs(c) /\ arrived[q] = Cardinality(Passed(c, q))
    BY <1>1, MembersArePEs DEF BarrierInv
  <2> HIDE DEF b
  <2> QED
    BY <1>2, <1>5, <1>7, <2>1
<1>9. \A q, j : Done(q, j)' <=> Done(q, j)
  BY <1>2 DEF Done
<1>10. ASSUME NEW q \in ActiveSet(c), NEW k \in Passed(c, q)', NEW j \in 1..(k - 1),
              Stm(c, q, j).do = "put"
       PROVE  Done(q, j)'
  <2>1. CASE k \in Passed(c, q)
    BY <1>9, <1>10, <2>1 DEF BarrierInv
  <2>2. CASE k \notin Passed(c, q)
    <3>1. q = p /\ k = b
      BY <1>5, <2>2
    <3>2. j < at[p]
      BY <1>3, <3>1
    <3> QED
      BY <1>2, <1>9, <3>1, <3>2 DEF Done
  <2> QED
    BY <2>1, <2>2
<1>11. ASSUME NEW r \in ActiveSet(c), NEW q \in ActiveSet(c), NEW k \in Passed(c, r)', k < at'[r]
       PROVE  k \in Passed(c, q)'
  <2>1. k \in Passed(c, r)
    BY <1>2, <1>3, <1>5, <1>11
  <2>2. k \in Passed(c, q)
    BY <1>2, <1>11, <2>1 DEF BarrierInv
  <2> QED
    BY <1>5, <2>2
<1>12. psync' = [q \in AllPEs(c) |-> <<>>]
  BY <1>2 DEF BarrierInv
<1> QED
  BY <1>8, <1>10, <1>11, <1>12 DEF BarrierInv

LEMMA LandBarriers ==
  ASSUME NEW c, Good(c), Barriered(c), FlowInv(c), BarrierInv(c), NEW o, Lands(o)
  PROVE  BarrierInv(c)'
<1>1. o \in flight /\ SentBy(c, o) /\ InFlight(c)
      /\ UNCHANGED <<case, at, doing, known, fences, arrived>>
  BY DEF FlowInv, InFlight, Lands
<1>2. o.from \in ActiveSet(c) /\ o.k \in 1..Size(c, o.from) /\ o.asked = Stm(c, o.from, o.k)
  BY <1>1 DEF SentBy
<1>3. ~LandsFlag(o)
  BY <1>2 DEF LandsFlag, Barriered
<1>4. psync' = psync
  BY <1>3 DEF Lands, LandsData
<1>5. \A q \in ActiveSet(c) : Passed(c, q)' = Passed(c, q)
  BY <1>1 DEF Passed, Came
<1>6. \A q, j : Done(q, j) => Done(q, j)'
  BY <1>1, LandDone
<1>7. psync' = [q \in AllPEs(c) |-> <<>>]
  BY <1>4 DEF BarrierInv
<1>8. \A q \in ActiveSet(c) : arrived'[q] = Cardinality(Passed(c, q))
  BY <1>1 DEF BarrierInv
<1>9. \A r \in ActiveSet(c) : \A q \in ActiveSet(c) : \A k \in Passed(c, r) :
        k < at'[r] => k \in Passed(c, q)
  BY <1>1 DEF BarrierInv
<1>10. \A q \in ActiveSet(c) : \A k \in Passed(c, q) : \A j \in 1..(k - 1) :
         Stm(c, q, j).do = "put" => Done(q, j)'
  BY <1>6 DEF BarrierInv
<1> QED
  BY <1>5, <1>7, <1>8, <1>9, <1>10 DEF BarrierInv

LEMMA BarriersKept ==
  ASSUME NEW c, Good(c), Barriered(c), FlowInv(c), BarrierInv(c), [ExchangeNext]_exchangeVars
  PROVE  BarrierInv(c)'
<1>1. CASE UNCHANGED exchangeVars
  BY <1>1, ZenonT(30) DEF exchangeVars, BarrierInv, Passed, Came, Done
<1> QED
  BY <1>1, NextSteps, AdvanceBarriers, ArriveBarriers, LandBarriers DEF Stepped

LEMMA BarriersAtFirst ==
  ASSUME NEW c, Good(c), Barriered(c), ExchangeInit, case = c
  PROVE  BarrierInv(c)
<1>1. PEs = AllPEs(c) /\ Called(c) /\ Straight(c)
  BY DEF PEs, AllPEs, Good
<1>2. /\ at = [p \in AllPEs(c) |-> 0] /\ psync = [p \in AllPEs(c) |-> <<>>]
      /\ arrived = [p \in AllPEs(c) |-> 0]
      /\ doing = [p \in AllPEs(c) |-> IF p \in ActiveSet(c) THEN [do |-> "enter"] ELSE Return]
  BY <1>1 DEF ExchangeInit
<1>3. \A p \in ActiveSet(c) : at[p] = 0 /\ arrived[p] = 0 /\ doing[p].do = "enter"
  BY <1>1, <1>2, MembersArePEs
<1>4. ASSUME NEW p \in ActiveSet(c)
      PROVE  Passed(c, p) = {}
  <2>1. Size(c, p) \in Nat
    BY <1>1, SizeIsNat
  <2> QED
    BY <1>3, <2>1 DEF Passed, Came
<1>5. Cardinality({}) = 0
  BY FS_EmptySet
<1> QED
  BY <1>2, <1>3, <1>4, <1>5 DEF BarrierInv

LEMMA BarrieredReturn ==
  ASSUME NEW c, Good(c), Barriered(c), FlowInv(c), BarrierInv(c)
  PROVE  ReturnsWithResult
<1>1. case = c
  BY DEF FlowInv, Typed
<1> SUFFICES ASSUME NEW p \in ActiveSet(c), Returned(p)
             PROVE  mem[p].dest = Result(c, p)
  BY <1>1 DEF ReturnsWithResult
<1> DEFINE last == Size(c, p)
<1>2. at[p] = last + 1 /\ last \in Nat
  BY ReturnedAtEnd
<1>3. last > 0 /\ IsBarrier(c, p, last)
  BY DEF Barriered
<1>4. last \in Passed(c, p)
  BY <1>2, <1>3 DEF Passed, Came
<1>5. last < at[p]
  BY <1>2
<1>6. ASSUME NEW q \in ActiveSet(c), NEW k \in 1..Size(c, q),
             Stm(c, q, k).do \in Moved, Target(c, q, k) = p
      PROVE  Done(q, k)
  <2>1. CASE Stm(c, q, k).do = "copy"
    <3>1. q = p
      BY <1>6, <2>1 DEF Target
    <3>2. \A o \in flight : o.from = q => o.k # k
      BY <2>1 DEF FlowInv, InFlight, SentBy, Sent
    <3> QED
      BY <1>2, <3>1, <3>2 DEF Done
  <2>2. CASE Stm(c, q, k).do = "put"
    <3>1. last \in Passed(c, q)
      BY <1>4, <1>5 DEF BarrierInv
    <3>2. Size(c, q) = last /\ IsBarrier(c, q, last)
      BY <1>3 DEF Barriered, Passed
    <3>3. k # last
      BY <2>2, <3>2 DEF IsBarrier
    <3>4. k \in 1..(last - 1)
      BY <1>2, <3>2, <3>3
    <3> HIDE DEF last
    <3> QED
      BY <2>2, <3>1, <3>4 DEF BarrierInv
  <2> QED
    BY <1>6, <2>1, <2>2 DEF Moved
<1> QED
  BY <1>6, ReturnedRight

LEMMA BarrieredGiveBack ==
  ASSUME NEW c, FlowInv(c), BarrierInv(c)
  PROVE  PSyncGivenBack
<1>1. PEs = AllPEs(c)
  BY DEF FlowInv, Typed, PEs, AllPEs
<1>2. \A p \in AllPEs(c) : psync[p] = <<>>
  BY DEF BarrierInv
<1> QED
  BY <1>1, <1>2 DEF PSyncGivenBack

LEMMA BarrieredGoOn ==
  ASSUME NEW c, Good(c), Barriered(c), FlowInv(c), BarrierInv(c)
  PROVE  NobodyStuck
<1>1. /\ PEs = AllPEs(c) /\ Called(c) /\ Straight(c) /\ Typed(c) /\ Position(c) /\ case = c
  BY DEF FlowInv, Typed, PEs, AllPEs, Good
<1> DEFINE Held == {p \in AllPEs(c) : ~Returned(p)}
<1> SUFFICES ASSUME flight = {}, \A p \in AllPEs(c) : ~Ready(p), Held # {}
             PROVE  FALSE
  BY <1>1 DEF NobodyStuck
<1>2. ASSUME NEW p \in Held
      PROVE  p \in ActiveSet(c) /\ at[p] \in 1..Size(c, p) /\ doing[p].do = "leave"
  <2>1. doing[p].do # "return" /\ p \in AllPEs(c)
    BY <1>2 DEF Returned
  <2>2. /\ p \in ActiveSet(c) /\ at[p] \in 0..Size(c, p)
        /\ at[p] = 0 => doing[p].do = "enter"
        /\ at[p] \in 1..Size(c, p) =>
             \/ /\ doing[p] = Stm(c, p, at[p])
                /\ doing[p].do \in {"copy", "wait", "barrier"}
             \/ Stm(c, p, at[p]).do = "barrier" /\ doing[p].do = "leave"
    BY <1>1, <2>1, DoingThere
  <2>3. at[p] # 0 /\ doing[p].do # "copy" /\ doing[p].do # "barrier"
    BY <2>1, <2>2 DEF Ready
  <2>4. at[p] \in 1..Size(c, p)
    BY <1>1, <2>2, <2>3, SizeIsNat
  <2>5. Stm(c, p, at[p]).do # "wait"
    BY <2>2, <2>4 DEF Barriered
  <2> QED
    BY <2>2, <2>3, <2>4, <2>5
<1>3. \A p \in Held : at[p] \in Nat
  BY <1>1 DEF Typed
<1>4. PICK p \in Held : \A q \in Held : at[p] <= at[q]
  <2> DEFINE T == {at[q] : q \in Held}
  <2>1. T \in SUBSET Nat /\ T # {}
    BY <1>3
  <2>2. \E x \in T : \A y \in T : x <= y
    <3> HIDE DEF T
    <3> QED
      BY <2>1, LeastIn
  <2> QED
    BY <2>2
<1>5. p \in ActiveSet(c) /\ at[p] \in 1..Size(c, p) /\ doing[p].do = "leave" /\ p \in AllPEs(c)
  BY <1>2
<1>6. ASSUME NEW q \in ActiveSet(c)
      PROVE  arrived[q] >= arrived[p]
  <2>1. /\ q \in AllPEs(c) /\ at[q] \in Nat /\ at[p] \in Nat /\ Size(c, p) \in Nat
        /\ Size(c, q) = Size(c, p)
    BY <1>1, <1>5, MembersArePEs, SizeIsNat DEF Typed, Barriered
  <2>2. at[p] < at[q] \/ (at[q] = at[p] /\ doing[q].do = "leave")
    <3>1. CASE q \in Held
      BY <1>2, <1>4, <2>1, <3>1
    <3>2. CASE q \notin Held
      <4>1. at[q] = Size(c, q) + 1
        BY <2>1, <3>2, ReturnedAtEnd
      <4> QED
        BY <1>5, <2>1, <4>1
    <3> QED
      BY <3>1, <3>2
  <2>3. ASSUME NEW k \in Passed(c, p)
        PROVE  k \in Passed(c, q)
    <3>1. k \in 1..Size(c, p) /\ IsBarrier(c, p, k) /\ Came(p, k)
      BY DEF Passed
    <3>2. IsBarrier(c, q, k)
      BY <1>5, <3>1 DEF Barriered
    <3>3. Came(q, k)
      BY <2>1, <2>2, <3>1 DEF Came
    <3> QED
      BY <2>1, <3>1, <3>2, <3>3 DEF Passed
  <2>4. Passed(c, p) \in SUBSET Passed(c, q)
    BY <2>3
  <2>5. Cardinality(Passed(c, p)) <= Cardinality(Passed(c, q))
        /\ Cardinality(Passed(c, p)) \in Nat /\ Cardinality(Passed(c, q)) \in Nat
    BY <1>1, <1>5, <2>4, FinitePassed, FS_Subset
  <2>6. arrived[q] = Cardinality(Passed(c, q)) /\ arrived[p] = Cardinality(Passed(c, p))
    BY <1>5 DEF BarrierInv
  <2> QED
    BY <2>5, <2>6
<1>7. Ready(p)
  BY <1>1, <1>5, <1>6 DEF Ready
<1> QED
  BY <1>5, <1>7

------------------------------------------------------------------------------
\* Counting by blocks.

LEMMA Induction ==
  ASSUME NEW T, 0 \in T, \A n \in Nat : n \in T => n + 1 \in T
  PROVE  \A n \in Nat : n \in T
<1> DEFINE S == {n \in Nat : n \notin T}
<1> SUFFICES ASSUME S # {} PROVE FALSE
  OBVIOUS
<1>1. PICK x \in S : \A y \in S : x <= y
  <2>1. S \in SUBSET Nat
    OBVIOUS
  <2> HIDE DEF S
  <2> QED
    BY <2>1, LeastIn
<1>2. x - 1 \in Nat /\ x - 1 \notin S
  BY <1>1
<1>3. x - 1 \in T
  BY <1>2
<1>4. (x - 1) + 1 \in T
  BY <1>2, <1>3
<1> QED
  BY <1>4

LEMMA Multiplied ==
  ASSUME NEW a \in Nat, NEW b \in Nat, NEW g \in Nat, a <= b
  PROVE  a * g <= b * g /\ a * g \in Nat /\ b * g \in Nat
<1>1. PICK d \in Nat : b = a + d
  BY b - a \in Nat
<1>2. b * g = a * g + d * g /\ d * g \in Nat /\ a * g \in Nat /\ b * g \in Nat
  BY <1>1
<1> QED
  BY <1>2

\* Element x of block a, of blocks of g.
LEMMA InBlock ==
  ASSUME NEW a \in Nat, NEW n \in Nat, a < n, NEW g \in Nat, NEW x \in Nat, x < g
  PROVE  /\ a * g \in Nat /\ n * g \in Nat /\ a * g + g <= n * g /\ a * g + x < n * g
         /\ (a * g + x) \div g = a /\ (a * g + x) % g = x
<1>1. PICK d \in Nat : n = a + 1 + d
  BY n - a - 1 \in Nat
<1>2. n * g = a * g + g + d * g /\ d * g \in Nat /\ a * g \in Nat /\ n * g \in Nat
  BY <1>1
<1>3. a * g \in Nat /\ n * g \in Nat /\ a * g + g <= n * g /\ a * g + x < n * g
  BY <1>2
<1> DEFINE m == a * g + x
<1>4. m \in Nat /\ g >= 1 /\ a * g <= m /\ m < a * g + g
  BY <1>3
<1>5. m \div g = a
  <2>1. PICK b \in Nat : b = m \div g
    BY <1>4
  <2>2. g * b <= m /\ m < g * b + g
    BY <1>4, <2>1
  <2>3. g * b = b * g /\ b * g \in Nat
    OBVIOUS
  <2>4. ASSUME b < a PROVE FALSE
    <3>1. PICK e \in Nat : a = b + 1 + e
      BY <2>4, a - b - 1 \in Nat
    <3>2. a * g = b * g + g + e * g /\ e * g \in Nat
      BY <3>1
    <3> QED
      BY <1>4, <2>2, <2>3, <3>2
  <2>5. ASSUME a < b PROVE FALSE
    <3>1. PICK e \in Nat : b = a + 1 + e
      BY <2>5, b - a - 1 \in Nat
    <3>2. b * g = a * g + g + e * g /\ e * g \in Nat
      BY <3>1
    <3> QED
      BY <1>3, <1>4, <2>2, <2>3, <3>2
  <2> QED
    BY <2>1, <2>4, <2>5
<1>6. m % g = x
  <2>1. m = g * (m \div g) + (m % g) /\ m % g \in Nat
    BY <1>4
  <2>2. m = g * a + (m % g)
    BY <1>5, <2>1
  <2>3. g * a = a * g
    OBVIOUS
  <2> QED
    BY <1>3, <2>1, <2>2, <2>3
<1> QED
  BY <1>3, <1>5, <1>6

\* Each element is in a block.
LEMMA BlockOf ==
  ASSUME NEW n \in Nat, NEW g \in Nat, NEW j \in 0..(n * g - 1)
  PROVE  \E a \in 0..(n - 1) : \E x \in 0..(g - 1) : j = a * g + x
<1>1. n * g \in Nat
  OBVIOUS
<1>2. j \in Nat /\ j < n * g
  BY <1>1
<1>3. g >= 1
  <2>1. ASSUME g = 0 PROVE FALSE
    <3>1. n * g = 0
      BY <2>1
    <3> QED
      BY <1>2, <3>1
  <2> QED
    BY <2>1
<1>4. PICK a \in Nat : a = j \div g
  BY <1>2, <1>3
<1>5. PICK x \in Nat : x = j % g
  BY <1>2, <1>3
<1>6. j = g * a + x /\ x < g
  BY <1>2, <1>3, <1>4, <1>5
<1>7. g * a = a * g
  OBVIOUS
<1>8. a < n
  <2>1. ASSUME n <= a PROVE FALSE
    <3>1. n * g <= a * g /\ a * g \in Nat
      BY <2>1, Multiplied
    <3> QED
      BY <1>1, <1>2, <1>6, <1>7, <3>1
  <2> QED
    BY <2>1
<1> QED
  BY <1>6, <1>7, <1>8, SMTT(30)

------------------------------------------------------------------------------
\* The active set.

Team(c) ==
  /\ c.n \in Nat \ {0} /\ c.npes \in Nat /\ c.start \in Nat /\ c.stride \in Nat \ {0}
  /\ PEof(c, c.n - 1) < c.npes
  /\ c.late \in BOOLEAN
  /\ c.size \in [0..(c.n - 1) -> Nat] /\ \A i \in 0..(c.n - 1) : c.size[i] = c.size[0]
Index(c) == 0..(c.n - 1)

LEMMA MembersIndexed ==
  ASSUME NEW c, Team(c)
  PROVE  /\ ActiveSet(c) \subseteq AllPEs(c)
         /\ \A i \in Index(c) : PEof(c, i) \in ActiveSet(c) /\ Me(c, PEof(c, i)) = i
         /\ \A p \in ActiveSet(c) : Me(c, p) \in Index(c) /\ PEof(c, Me(c, p)) = p
         /\ \A i \in Index(c) : \A j \in Index(c) : PEof(c, i) = PEof(c, j) => i = j
<1>1. /\ c.n \in Nat /\ c.n >= 1 /\ c.npes \in Nat /\ c.start \in Nat
      /\ c.stride \in Nat /\ c.stride >= 1
      /\ c.start + (c.n - 1) * c.stride < c.npes
  BY DEF Team, PEof
<1>2. ASSUME NEW i \in Index(c)
      PROVE  /\ PEof(c, i) \in ActiveSet(c) /\ Me(c, PEof(c, i)) = i
             /\ PEof(c, i) \in AllPEs(c)
  <2>1. PEof(c, i) \in ActiveSet(c)
    BY DEF ActiveSet, Index
  <2>2. i \in Nat /\ i <= c.n - 1 /\ c.n - 1 \in Nat
    BY <1>1 DEF Index
  <2>3. i * c.stride <= (c.n - 1) * c.stride /\ i * c.stride \in Nat
        /\ (c.n - 1) * c.stride \in Nat
    BY <1>1, <2>2, Multiplied
  <2>4. PEof(c, i) \in AllPEs(c)
    BY <1>1, <2>3 DEF PEof, AllPEs
  <2>5. PEof(c, i) - c.start = i * c.stride + 0
    BY <1>1, <2>3 DEF PEof
  <2>6. i < c.n /\ 0 < c.stride /\ 0 \in Nat
    BY <1>1, <2>2
  <2>7. (i * c.stride + 0) \div c.stride = i
    BY <1>1, <2>2, <2>6, InBlock
  <2> QED
    BY <2>1, <2>4, <2>5, <2>7 DEF Me
<1>3. ASSUME NEW p \in ActiveSet(c)
      PROVE  p \in AllPEs(c) /\ Me(c, p) \in Index(c) /\ PEof(c, Me(c, p)) = p
  <2>1. PICK i \in Index(c) : p = PEof(c, i)
    BY DEF ActiveSet, Index
  <2> QED
    BY <1>2, <2>1
<1>4. ASSUME NEW i \in Index(c), NEW j \in Index(c), PEof(c, i) = PEof(c, j)
      PROVE  i = j
  <2>1. Me(c, PEof(c, i)) = i /\ Me(c, PEof(c, j)) = j
    BY <1>2
  <2> QED
    BY <1>4, <2>1
<1> QED
  BY <1>2, <1>3, <1>4

------------------------------------------------------------------------------
\* A list made of lists, one after the other.

\* where each of the lists is in s
Laid(s, lists, n, start) ==
  /\ IsList(s) /\ start \in [0..n -> Nat] /\ start[0] = 0 /\ start[n] = Len(s)
  /\ \A i \in 1..n : start[i] = start[i - 1] + Len(lists[i])
  /\ \A i \in 1..n : \A j \in 1..Len(lists[i]) :
       /\ start[i - 1] + j \in 1..Len(s)
       /\ s[start[i - 1] + j] = lists[i][j]
  /\ \A k \in 1..Len(s) : \E i \in 1..n : \E j \in 1..Len(lists[i]) : k = start[i - 1] + j

LEMMA EmptyLaid ==
  ASSUME NEW lists
  PROVE  \E start : Laid(<<>>, lists, 0, start)
<1> DEFINE start == [i \in 0..0 |-> 0]
<1>1. start \in [0..0 -> Nat] /\ start[0] = 0
  OBVIOUS
<1>2. Len(<<>>) = 0 /\ <<>> = [k \in 1..0 |-> <<>>[k]]
  <2>1. <<>> \in Seq({})
    OBVIOUS
  <2>2. IsList(<<>>)
    BY <2>1, SeqIsList
  <2> QED
    BY <2>2 DEF IsList
<1> HIDE DEF start
<1>3. Laid(<<>>, lists, 0, start)
  BY <1>1, <1>2 DEF Laid, IsList
<1> QED
  BY <1>3

Appended(whole, s, t) ==
  /\ IsList(whole) /\ Len(whole) = Len(s) + Len(t)
  /\ \A i \in 1..Len(s) : whole[i] = s[i]
  /\ \A i \in 1..Len(t) : whole[Len(s) + i] = t[i]

LEMMA ListsAppended ==
  ASSUME NEW s, NEW t, IsList(s), IsList(t)
  PROVE  Appended(s \o t, s, t)
BY Concatenated DEF Appended

LEMMA OneMoreLaid ==
  ASSUME NEW s, NEW lists, NEW n \in Nat, NEW start, Laid(s, lists, n, start),
         IsList(lists[n + 1])
  PROVE  \E next : Laid(s \o lists[n + 1], lists, n + 1, next)
<1> DEFINE t == lists[n + 1]
           whole == s \o t
           next == [i \in 0..(n + 1) |-> IF i = n + 1 THEN Len(whole) ELSE start[i]]
<1>1. /\ IsList(s) /\ start \in [0..n -> Nat] /\ start[0] = 0 /\ start[n] = Len(s)
      /\ Len(s) \in Nat /\ Len(t) \in Nat
  BY DEF Laid, IsList
<1>2. /\ IsList(whole) /\ Len(whole) = Len(s) + Len(t)
      /\ \A i \in 1..Len(s) : whole[i] = s[i]
      /\ \A i \in 1..Len(t) : whole[Len(s) + i] = t[i]
  <2>1. IsList(s) /\ IsList(t)
    BY <1>1
  <2>2. Appended(whole, s, t)
    BY <2>1, ListsAppended
  <2> HIDE DEF whole, t
  <2> QED
    BY <2>2 DEF Appended
<1> HIDE DEF whole
<1>3. Len(whole) \in Nat
  BY <1>1, <1>2
<1>4. next \in [0..(n + 1) -> Nat]
  BY <1>1, <1>3
<1>5. /\ \A i \in 0..n : next[i] = start[i]
      /\ next[n + 1] = Len(whole)
  OBVIOUS
<1> HIDE DEF next
<1>6. \A i \in 1..(n + 1) : i = n + 1 \/ i \in 1..n
  OBVIOUS
<1>7. \A i \in 1..(n + 1) : i - 1 \in 0..n
  OBVIOUS
<1>8. n \in 0..n /\ 0 \in 0..n /\ (n + 1) - 1 = n
  OBVIOUS
<1>9. \A i \in 1..(n + 1) : next[i] = next[i - 1] + Len(lists[i])
  <2> TAKE i \in 1..(n + 1)
  <2>1. CASE i = n + 1
    BY <1>1, <1>2, <1>5, <1>8, <2>1
  <2>2. CASE i \in 1..n
    <3>1. start[i] = start[i - 1] + Len(lists[i])
      BY <2>2 DEF Laid
    <3>2. i \in 0..n /\ i - 1 \in 0..n
      BY <2>2
    <3> QED
      BY <1>5, <3>1, <3>2
  <2> QED
    BY <1>6, <2>1, <2>2
<1>10. ASSUME NEW i \in 1..(n + 1), NEW j \in 1..Len(lists[i])
       PROVE  /\ next[i - 1] + j \in 1..Len(whole)
              /\ whole[next[i - 1] + j] = lists[i][j]
  <2>1. CASE i = n + 1
    <3>1. next[i - 1] = Len(s) /\ lists[i] = t
      BY <1>1, <1>5, <1>8, <2>1
    <3>2. j \in 1..Len(t)
      BY <3>1
    <3>3. Len(s) + j \in 1..Len(whole)
      BY <1>1, <1>2, <3>2
    <3> QED
      BY <1>2, <3>1, <3>2, <3>3
  <2>2. CASE i \in 1..n
    <3>1. start[i - 1] + j \in 1..Len(s) /\ s[start[i - 1] + j] = lists[i][j]
      BY <2>2 DEF Laid
    <3>2. next[i - 1] = start[i - 1]
      BY <1>5, <1>7
    <3>3. start[i - 1] + j \in 1..Len(whole)
      <4>1. Len(whole) = Len(s) + Len(t) /\ Len(s) \in Nat /\ Len(t) \in Nat
        BY <1>1, <1>2
      <4>2. PICK k : k = start[i - 1] + j
        OBVIOUS
      <4>3. k \in 1..Len(s)
        BY <3>1, <4>2
      <4>4. k \in 1..Len(whole)
        BY <4>1, <4>3
      <4> QED
        BY <4>2, <4>4
    <3> QED
      BY <1>2, <3>1, <3>2, <3>3
  <2> QED
    BY <1>6, <2>1, <2>2
<1>11. ASSUME NEW k \in 1..Len(whole)
       PROVE  \E i \in 1..(n + 1) : \E j \in 1..Len(lists[i]) : k = next[i - 1] + j
  <2>1. CASE k \in 1..Len(s)
    <3>1. PICK i \in 1..n : \E j \in 1..Len(lists[i]) : k = start[i - 1] + j
      BY <2>1 DEF Laid
    <3>2. i \in 1..(n + 1)
      OBVIOUS
    <3>3. next[i - 1] = start[i - 1]
      BY <1>5, <1>7, <3>2
    <3> QED
      BY <3>1, <3>2, <3>3
  <2>2. CASE k \notin 1..Len(s)
    <3>1. k - Len(s) \in 1..Len(t) /\ k = Len(s) + (k - Len(s))
      BY <1>1, <1>2, <2>2
    <3>2. n + 1 \in 1..(n + 1) /\ next[(n + 1) - 1] = Len(s)
      BY <1>1, <1>5, <1>8
    <3> QED
      BY <3>1, <3>2
  <2> QED
    BY <2>1, <2>2
<1>12. next[0] = 0
  BY <1>1, <1>5, <1>8
<1>13. Laid(whole, lists, n + 1, next)
  BY <1>2, <1>4, <1>5, <1>9, <1>10, <1>11, <1>12 DEF Laid
<1> QED
  BY <1>13 DEF whole

\* FlattenSeq's turns
Flattens(f, lists, m) ==
  f = [i \in 1..m |-> IF i = 1 THEN lists[i] ELSE f[i - 1] \o lists[i]]

LEMMA Flattened ==
  ASSUME NEW lists, NEW n \in Nat, n > 0
  PROVE  \E f : Flattens(f, lists, n)
<1> DEFINE Turns(f, m) == \A i \in 1..m : f[i] = IF i = 1 THEN lists[1] ELSE f[i - 1] \o lists[i]
           T == {m \in Nat : \E f : Turns(f, m)}
<1>1. 0 \in T
  <2>1. Turns(<<>>, 0)
    OBVIOUS
  <2> QED
    BY <2>1
<1>2. ASSUME NEW m \in Nat, m \in T PROVE m + 1 \in T
  <2>1. PICK f : Turns(f, m)
    BY <1>2
  <2> DEFINE last == IF m = 0 THEN lists[1] ELSE f[m] \o lists[m + 1]
             g == [i \in 1..(m + 1) |-> IF i = m + 1 THEN last ELSE f[i]]
  <2>2. \A i \in 1..(m + 1) : g[i] = IF i = m + 1 THEN last ELSE f[i]
    OBVIOUS
  <2> HIDE DEF g
  <2>3. ASSUME NEW i \in 1..(m + 1)
        PROVE  g[i] = IF i = 1 THEN lists[1] ELSE g[i - 1] \o lists[i]
    <3>1. CASE i = m + 1
      <4>1. CASE m = 0
        BY <2>2, <3>1, <4>1
      <4>2. CASE m # 0
        <5>1. m \in 1..(m + 1) /\ m # m + 1 /\ i # 1 /\ i - 1 = m
          BY <3>1, <4>2
        <5>2. g[i - 1] = f[m]
          BY <2>2, <5>1
        <5> QED
          BY <2>2, <3>1, <4>2, <5>1, <5>2
      <4> QED
        BY <4>1, <4>2
    <3>2. CASE i # m + 1
      <4>1. i \in 1..m
        BY <3>2
      <4>2. g[i] = f[i]
        BY <2>2, <3>2
      <4>3. CASE i = 1
        BY <2>1, <4>1, <4>2, <4>3
      <4>4. CASE i # 1
        <5>1. i - 1 \in 1..(m + 1) /\ i - 1 # m + 1
          BY <4>1, <4>4
        <5>2. g[i - 1] = f[i - 1]
          BY <2>2, <5>1
        <5> QED
          BY <2>1, <4>1, <4>2, <4>4, <5>2
      <4> QED
        BY <4>3, <4>4
    <3> QED
      BY <3>1, <3>2
  <2>4. Turns(g, m + 1)
    BY <2>3
  <2> QED
    BY <2>4
<1>3. n \in T
  <2> HIDE DEF T
  <2> QED
    BY <1>1, <1>2, Induction
<1>4. PICK g : Turns(g, n)
  BY <1>3
<1> DEFINE f == [i \in 1..n |-> g[i]]
<1>5. \A i \in 1..n : f[i] = g[i]
  OBVIOUS
<1>6. f = [i \in 1..n |-> f[i]]
  OBVIOUS
<1> HIDE DEF f
<1>7. \A i \in 1..n : f[i] = IF i = 1 THEN lists[1] ELSE f[i - 1] \o lists[i]
  <2> TAKE i \in 1..n
  <2>1. CASE i = 1
    BY <1>4, <1>5, <2>1
  <2>2. CASE i # 1
    <3>1. i - 1 \in 1..n
      BY <2>2
    <3>2. f[i - 1] = g[i - 1]
      BY <1>5, <3>1
    <3> QED
      BY <1>4, <1>5, <2>2, <3>2
  <2> QED
    BY <2>1, <2>2
<1>8. Flattens(f, lists, n)
  BY <1>6, <1>7 DEF Flattens
<1> QED
  BY <1>8

\* so far
LaidUpTo(f, lists, m) == \E start : Laid(f[m], lists, m, start)

\* The lists of a loop are laid one after the other.
LEMMA LoopLaid ==
  ASSUME NEW n \in Nat, NEW lists, lists = [i \in 1..n |-> lists[i]],
         \A i \in 1..n : IsList(lists[i])
  PROVE  \E start : Laid(FlattenSeq(lists), lists, n, start)
<1>1. Len(lists) = n
  BY WrittenList
<1>2. CASE n = 0
  <2>1. FlattenSeq(lists) = lists
    BY <1>1, <1>2 DEF FlattenSeq
  <2>2. lists = <<>>
    BY <1>2
  <2> QED
    BY <1>2, <2>1, <2>2, EmptyLaid
<1>3. CASE n > 0
  <2> DEFINE flatten == CHOOSE f : Flattens(f, lists, Len(lists))
  <2>1. FlattenSeq(lists) = flatten[n]
    <3>1. Len(lists) # 0
      BY <1>1, <1>3
    <3>2. FlattenSeq(lists) = flatten[Len(lists)]
      BY <3>1, Zenon DEF FlattenSeq, Flattens
    <3> QED
      BY <1>1, <3>2
  <2>2. Flattens(flatten, lists, n)
    BY <1>1, <1>3, Flattened
  <2> HIDE DEF flatten
  <2>3. \A i \in 1..n : flatten[i] = IF i = 1 THEN lists[1] ELSE flatten[i - 1] \o lists[i]
    BY <2>2 DEF Flattens
  <2> DEFINE T == {m \in Nat : m \in 1..n => LaidUpTo(flatten, lists, m)}
  <2>4. 0 \in T
    OBVIOUS
  <2>5. ASSUME NEW m \in Nat, m \in T PROVE m + 1 \in T
    <3> SUFFICES ASSUME m + 1 \in 1..n
                 PROVE  LaidUpTo(flatten, lists, m + 1)
      OBVIOUS
    <3>1. IsList(lists[m + 1])
      OBVIOUS
    <3>2. CASE m = 0
      <4>1. PICK start : Laid(<<>>, lists, 0, start)
        BY EmptyLaid
      <4>2. \E next : Laid(<<>> \o lists[m + 1], lists, m + 1, next)
        BY <3>1, <3>2, <4>1, OneMoreLaid
      <4>3. <<>> \o lists[m + 1] = lists[m + 1]
        <5>1. lists[m + 1] \in Seq({lists[m + 1][k] : k \in 1..Len(lists[m + 1])})
          BY <3>1, EveryListHasASet
        <5> QED
          BY <5>1
      <4>4. flatten[m + 1] = lists[m + 1]
        <5>1. m + 1 = 1
          BY <3>2
        <5> QED
          BY <2>3, <5>1
      <4> QED
        BY <4>2, <4>3, <4>4 DEF LaidUpTo
    <3>3. CASE m # 0
      <4>1. m \in 1..n /\ (m + 1) - 1 = m /\ m + 1 # 1
        BY <3>3
      <4>2. PICK start : Laid(flatten[m], lists, m, start)
        BY <2>5, <4>1 DEF LaidUpTo
      <4>3. \E next : Laid(flatten[m] \o lists[m + 1], lists, m + 1, next)
        BY <3>1, <4>2, OneMoreLaid
      <4>4. flatten[m + 1] = flatten[m] \o lists[m + 1]
        BY <2>3, <4>1
      <4> QED
        BY <4>3, <4>4 DEF LaidUpTo
    <3> QED
      BY <3>2, <3>3
  <2>6. n \in T
    <3> HIDE DEF T
    <3> QED
      BY <2>4, <2>5, Induction
  <2>7. \E start : Laid(flatten[n], lists, n, start)
    <3>1. n \in 1..n
      BY <1>3
    <3> QED
      BY <2>6, <3>1 DEF LaidUpTo
  <2> QED
    BY <2>1, <2>7
<1> QED
  BY <1>2, <1>3, SMTT(30)

------------------------------------------------------------------------------
\* Rounds of an exchange: the peer F[m][i] of each member m in each round i.

Rounds(c) == 1..(c.n - 1)
Exchanging(c, F) ==
  /\ F \in [Index(c) -> [Rounds(c) -> Index(c)]]
  /\ \A m \in Index(c) : \A i \in Rounds(c) : F[m][i] # m
  /\ \A m \in Index(c) : \A i, j \in Rounds(c) : F[m][i] = F[m][j] => i = j
  /\ \A m, q \in Index(c) : m # q => \E i \in Rounds(c) : F[m][i] = q
  /\ \A i \in Rounds(c) : \A q \in Index(c) : \E m \in Index(c) : F[m][i] = q
  /\ \A i \in Rounds(c) : \A m, l \in Index(c) : F[m][i] = F[l][i] => m = l

Reached(c, F, m, q) == \E i \in Rounds(c) : F[m][i] = q

LEMMA EachReached ==
  ASSUME NEW c, NEW F, Exchanging(c, F), NEW m \in Index(c), NEW q \in Index(c), m # q
  PROVE  Reached(c, F, m, q)
BY DEF Exchanging, Reached

\* A program that puts a block to each of the peers and takes its own.
MovesBlocks(c, F, p) ==
  /\ IsList(Program(c, p))
  /\ \A k \in 1..Size(c, p) :
       \/ \E i \in Rounds(c) : Stm(c, p, k) = PutBlock(c, p, F[Me(c, p)][i])
       \/ Stm(c, p, k) = OwnBlock(c, p)
       \/ Stm(c, p, k).do \in {"p", "add"} /\ Stm(c, p, k).pe \in ActiveSet(c)
       \/ Stm(c, p, k).do \in {"fence", "wait", "barrier"}
  /\ \A i \in Rounds(c) : \E k \in 1..Size(c, p) : Stm(c, p, k) = PutBlock(c, p, F[Me(c, p)][i])
  /\ \E k \in 1..Size(c, p) : Stm(c, p, k) = OwnBlock(c, p)

Alltoall(c) == c.coll = "alltoall" /\ Team(c)

\* What a statement that moves a block moves.
LEMMA BlockMoved ==
  ASSUME NEW c, Alltoall(c), NEW F, Exchanging(c, F), NEW p \in ActiveSet(c), MovesBlocks(c, F, p),
         NEW k \in 1..Size(c, p), Stm(c, p, k).do \in Moved
  PROVE  \E q \in Index(c) :
           /\ Target(c, p, k) = PEof(c, q)
           /\ Stm(c, p, k).from = "source"
           /\ Stm(c, p, k).do = "copy" => Stm(c, p, k).to = "dest"
           /\ Stm(c, p, k).src = q * nelems(c) /\ Stm(c, p, k).at = Me(c, p) * nelems(c)
           /\ Stm(c, p, k).len = nelems(c)
<1>1. Me(c, p) \in Index(c) /\ PEof(c, Me(c, p)) = p
  BY MembersIndexed DEF Alltoall
<1>2. CASE \E i \in Rounds(c) : Stm(c, p, k) = PutBlock(c, p, F[Me(c, p)][i])
  <2>1. PICK i \in Rounds(c) : Stm(c, p, k) = PutBlock(c, p, F[Me(c, p)][i])
    BY <1>2
  <2>2. F[Me(c, p)][i] \in Index(c)
    BY <1>1 DEF Exchanging
  <2>3. /\ Stm(c, p, k).do = "put" /\ Stm(c, p, k).pe = PEof(c, F[Me(c, p)][i])
        /\ Stm(c, p, k).from = "source"
        /\ Stm(c, p, k).src = F[Me(c, p)][i] * nelems(c)
        /\ Stm(c, p, k).at = Me(c, p) * nelems(c) /\ Stm(c, p, k).len = nelems(c)
    BY <2>1 DEF PutBlock, PutNbi
  <2> QED
    BY <2>2, <2>3 DEF Target
<1>3. CASE Stm(c, p, k) = OwnBlock(c, p)
  <2>1. /\ Stm(c, p, k).do = "copy" /\ Stm(c, p, k).to = "dest" /\ Stm(c, p, k).from = "source"
        /\ Stm(c, p, k).src = Me(c, p) * nelems(c)
        /\ Stm(c, p, k).at = Me(c, p) * nelems(c) /\ Stm(c, p, k).len = nelems(c)
    BY <1>3 DEF OwnBlock, Copy
  <2> QED
    BY <1>1, <2>1 DEF Target
<1> QED
  BY <1>2, <1>3 DEF MovesBlocks, Moved

LEMMA AlltoallSizes ==
  ASSUME NEW c, Alltoall(c)
  PROVE  /\ nelems(c) \in Nat /\ c.n \in Nat /\ c.n >= 1
         /\ DestLength(c) = c.n * nelems(c) /\ DestLength(c) \in Nat
         /\ \A p : SourceLength(c, p) = c.n * nelems(c)
<1>1. c.coll = "alltoall" /\ c.n \in Nat /\ c.n >= 1
  BY DEF Alltoall, Team
<1>2. nelems(c) \in Nat
  <2>1. 0 \in 0..(c.n - 1)
    BY <1>1
  <2>2. c.size \in [0..(c.n - 1) -> Nat]
    BY DEF Alltoall, Team
  <2> QED
    BY <2>1, <2>2 DEF nelems
<1>3. DestLength(c) = c.n * nelems(c)
  BY <1>1 DEF DestLength, nelems
<1>4. \A p : SourceLength(c, p) = c.n * nelems(c)
  BY <1>1 DEF SourceLength, nelems
<1>5. c.n * nelems(c) \in Nat
  BY <1>1, <1>2
<1> QED
  BY <1>1, <1>2, <1>3, <1>4, <1>5

LEMMA AlltoallResult ==
  ASSUME NEW c, Alltoall(c), NEW p, NEW j \in 0..(DestLength(c) - 1)
  PROVE  Result(c, p)[j]
           = Element(c, PEof(c, j \div nelems(c)), Me(c, p) * nelems(c) + (j % nelems(c)))
BY DEF Result, Alltoall, nelems

LEMMA BlockCarried ==
  ASSUME NEW c, Alltoall(c), NEW m \in Index(c), NEW q \in Index(c), NEW x \in Nat, x < nelems(c)
  PROVE  /\ m * nelems(c) + x \in 0..(DestLength(c) - 1)
         /\ Element(c, PEof(c, m), q * nelems(c) + x)
              = Result(c, PEof(c, q))[m * nelems(c) + x]
<1> DEFINE g == nelems(c)
<1>1. g \in Nat /\ c.n \in Nat /\ DestLength(c) = c.n * g /\ x < g
  BY AlltoallSizes
<1>2. m \in Nat /\ m < c.n
  BY <1>1 DEF Index
<1>3. /\ m * g \in Nat /\ c.n * g \in Nat /\ m * g + x < c.n * g
      /\ (m * g + x) \div g = m /\ (m * g + x) % g = x
  <2> HIDE DEF g
  <2> QED
    BY <1>1, <1>2, InBlock
<1>4. m * g + x \in 0..(DestLength(c) - 1)
  <2> DEFINE j == m * g + x
             total == c.n * g
  <2>1. j \in Nat /\ total \in Nat /\ j < total /\ DestLength(c) = total
    BY <1>1, <1>3
  <2> HIDE DEF j, total
  <2>2. j \in 0..(DestLength(c) - 1)
    BY <2>1
  <2> QED
    BY <2>2 DEF j
<1>5. Me(c, PEof(c, q)) = q
  BY MembersIndexed DEF Alltoall
<1> HIDE DEF g
<1>6. Result(c, PEof(c, q))[m * g + x] = Element(c, PEof(c, m), q * g + x)
  BY <1>3, <1>4, <1>5, AlltoallResult DEF g
<1> QED
  BY <1>4, <1>6 DEF g

LEMMA AlltoallStraight ==
  ASSUME NEW c, Alltoall(c), NEW F, Exchanging(c, F),
         \A p \in ActiveSet(c) : MovesBlocks(c, F, p)
  PROVE  Called(c) /\ Straight(c)
<1>1. Team(c) /\ ActiveSet(c) \subseteq AllPEs(c)
  BY MembersIndexed DEF Alltoall
<1>2. Called(c)
  BY <1>1, AlltoallSizes DEF Called, Team, Alltoall
<1>3. ASSUME NEW p \in ActiveSet(c), NEW k \in 1..Size(c, p), Stm(c, p, k).do \in Moved
      PROVE  /\ Stm(c, p, k).from = "source"
             /\ Stm(c, p, k).do = "copy" => Stm(c, p, k).to = "dest"
             /\ Stm(c, p, k).do = "put" => Stm(c, p, k).pe \in ActiveSet(c)
             /\ Stm(c, p, k).at \in Nat /\ Stm(c, p, k).src \in Nat /\ Stm(c, p, k).len \in Nat
             /\ Stm(c, p, k).at + Stm(c, p, k).len <= DestLength(c)
             /\ Stm(c, p, k).src + Stm(c, p, k).len <= SourceLength(c, p)
  <2> DEFINE g == nelems(c)
             m == Me(c, p)
  <2>1. PICK q \in Index(c) :
           /\ Target(c, p, k) = PEof(c, q)
           /\ Stm(c, p, k).from = "source"
           /\ Stm(c, p, k).do = "copy" => Stm(c, p, k).to = "dest"
           /\ Stm(c, p, k).src = q * g /\ Stm(c, p, k).at = m * g
           /\ Stm(c, p, k).len = g
    BY <1>3, BlockMoved
  <2>2. g \in Nat /\ c.n \in Nat /\ DestLength(c) = c.n * g /\ SourceLength(c, p) = c.n * g
    BY AlltoallSizes
  <2>3. m \in Index(c) /\ PEof(c, q) \in ActiveSet(c)
    BY <1>1, MembersIndexed
  <2>4. ASSUME NEW i \in Index(c)
        PROVE  i * g \in Nat /\ i * g + g <= c.n * g
    <3>1. i \in Nat /\ i + 1 \in Nat /\ i + 1 <= c.n
      BY <2>2 DEF Index
    <3> HIDE DEF g
    <3>2. (i + 1) * g <= c.n * g
      BY <2>2, <3>1, Multiplied
    <3>3. (i + 1) * g = i * g + g /\ i * g \in Nat
      BY <2>2, <3>1
    <3> QED
      BY <3>2, <3>3
  <2>5. Stm(c, p, k).do = "put" => Stm(c, p, k).pe \in ActiveSet(c)
    BY <2>1, <2>3 DEF Target
  <2> HIDE DEF g, m
  <2> QED
    BY <2>1, <2>2, <2>3, <2>4, <2>5
<1>4. ASSUME NEW p \in ActiveSet(c), NEW k \in 1..Size(c, p)
      PROVE  /\ Stm(c, p, k).do \in {"put", "p", "add", "fence", "copy", "wait", "barrier"}
             /\ Stm(c, p, k).do \in Sent => Stm(c, p, k).pe \in ActiveSet(c)
  <2>1. \/ \E i \in Rounds(c) : Stm(c, p, k) = PutBlock(c, p, F[Me(c, p)][i])
        \/ Stm(c, p, k) = OwnBlock(c, p)
        \/ Stm(c, p, k).do \in {"p", "add"} /\ Stm(c, p, k).pe \in ActiveSet(c)
        \/ Stm(c, p, k).do \in {"fence", "wait", "barrier"}
    BY DEF MovesBlocks
  <2>2. Stm(c, p, k).do \in {"put", "p", "add", "fence", "copy", "wait", "barrier"}
    BY <2>1 DEF PutBlock, PutNbi, OwnBlock, Copy
  <2>3. Stm(c, p, k).do = "put" => Stm(c, p, k).pe \in ActiveSet(c)
    BY <1>3 DEF Moved
  <2>4. Stm(c, p, k).do \in {"p", "add"} => Stm(c, p, k).pe \in ActiveSet(c)
    BY <2>1 DEF PutBlock, PutNbi, OwnBlock, Copy
  <2> QED
    BY <2>2, <2>3, <2>4 DEF Sent
<1>5. Straight(c)
  <2> DEFINE Fits(p, k) ==
        /\ Stm(c, p, k).do \in {"put", "p", "add", "fence", "copy", "wait", "barrier"}
        /\ Stm(c, p, k).do \in Sent => Stm(c, p, k).pe \in ActiveSet(c)
        /\ Stm(c, p, k).do = "copy" => Stm(c, p, k).to = "dest"
        /\ Stm(c, p, k).do \in Moved =>
             /\ Stm(c, p, k).from = "source"
             /\ Stm(c, p, k).at \in Nat /\ Stm(c, p, k).src \in Nat /\ Stm(c, p, k).len \in Nat
             /\ Stm(c, p, k).at + Stm(c, p, k).len <= DestLength(c)
             /\ Stm(c, p, k).src + Stm(c, p, k).len <= SourceLength(c, p)
  <2> SUFFICES ASSUME NEW p \in ActiveSet(c)
               PROVE  IsList(Program(c, p)) /\ \A k \in 1..Size(c, p) : Fits(p, k)
    BY DEF Straight
  <2>1. IsList(Program(c, p))
    BY DEF MovesBlocks
  <2>2. \A k \in 1..Size(c, p) : Stm(c, p, k).do = "copy" => Stm(c, p, k).do \in Moved
    BY DEF Moved
  <2> QED
    BY <1>3, <1>4, <2>1, <2>2
<1> QED
  BY <1>2, <1>5

LEMMA AlltoallGood ==
  ASSUME NEW c, Alltoall(c), NEW F, Exchanging(c, F),
         \A p \in ActiveSet(c) : MovesBlocks(c, F, p)
  PROVE  Good(c)
<1> DEFINE g == nelems(c)
<1>1. Called(c) /\ Straight(c) /\ Team(c)
  BY AlltoallStraight DEF Alltoall
<1>2. g \in Nat /\ c.n \in Nat /\ DestLength(c) = c.n * g
  BY AlltoallSizes
<1>3. ASSUME NEW p \in ActiveSet(c), NEW k \in 1..Size(c, p), NEW x \in Nat,
             Stm(c, p, k).do \in Moved, x < Stm(c, p, k).len
      PROVE  Element(c, p, Stm(c, p, k).src + x)
               = Result(c, Target(c, p, k))[Stm(c, p, k).at + x]
  <2>1. PICK q \in Index(c) :
           /\ Target(c, p, k) = PEof(c, q)
           /\ Stm(c, p, k).src = q * nelems(c) /\ Stm(c, p, k).at = Me(c, p) * nelems(c)
           /\ Stm(c, p, k).len = nelems(c)
    BY <1>3, BlockMoved
  <2>2. Me(c, p) \in Index(c) /\ PEof(c, Me(c, p)) = p
    BY <1>1, MembersIndexed
  <2>3. Element(c, PEof(c, Me(c, p)), q * nelems(c) + x)
              = Result(c, PEof(c, q))[Me(c, p) * nelems(c) + x]
    BY <1>3, <2>1, <2>2, BlockCarried
  <2> QED
    BY <2>1, <2>2, <2>3
<1>4. ASSUME NEW q \in ActiveSet(c), NEW j \in 0..(DestLength(c) - 1)
      PROVE  \E p \in ActiveSet(c) : \E k \in 1..Size(c, p) :
               /\ Stm(c, p, k).do \in Moved /\ Target(c, p, k) = q
               /\ Stm(c, p, k).at <= j /\ j < Stm(c, p, k).at + Stm(c, p, k).len
  <2>0. j \in 0..(c.n * g - 1)
    BY <1>2
  <2>1. PICK m \in 0..(c.n - 1), x \in 0..(g - 1) : j = m * g + x
    <3> HIDE DEF g
    <3> QED
      BY <1>2, <2>0, BlockOf
  <2>2. m \in Index(c) /\ m \in Nat /\ x \in Nat /\ x < g
    BY <1>2, <2>1 DEF Index
  <2> DEFINE p == PEof(c, m)
  <2>3. p \in ActiveSet(c) /\ Me(c, p) = m
    BY <1>1, <2>2, MembersIndexed
  <2>4. Me(c, q) \in Index(c) /\ PEof(c, Me(c, q)) = q
    BY <1>1, MembersIndexed
  <2>5. m * g \in Nat /\ m * g <= j /\ j < m * g + g
    BY <1>2, <2>1, <2>2
  <2> HIDE DEF p
  <2>6. \E k \in 1..Size(c, p) :
           /\ Stm(c, p, k).do \in Moved /\ Target(c, p, k) = q
           /\ Stm(c, p, k).at = m * nelems(c) /\ Stm(c, p, k).len = nelems(c)
    <3>1. CASE m = Me(c, q)
      <4>1. p = q
        BY <2>4, <3>1 DEF p
      <4>2. PICK k \in 1..Size(c, p) : Stm(c, p, k) = OwnBlock(c, p)
        BY <2>3 DEF MovesBlocks
      <4> QED
        BY <2>3, <4>1, <4>2 DEF OwnBlock, Copy, Moved, Target
    <3>2. CASE m # Me(c, q)
      <4>1. PICK i \in Rounds(c) : F[m][i] = Me(c, q)
        <5>1. Reached(c, F, m, Me(c, q))
          BY <2>2, <2>4, <3>2, EachReached
        <5> QED
          BY <5>1 DEF Reached
      <4>2. PICK k \in 1..Size(c, p) : Stm(c, p, k) = PutBlock(c, p, F[Me(c, p)][i])
        BY <2>3 DEF MovesBlocks
      <4>3. Stm(c, p, k) = PutBlock(c, p, Me(c, q))
        BY <2>3, <4>1, <4>2
      <4> QED
        BY <2>3, <2>4, <4>3 DEF PutBlock, PutNbi, Moved, Target
    <3> QED
      BY <3>1, <3>2
  <2> QED
    BY <2>3, <2>5, <2>6
<1>5. Carries(c)
  BY <1>3, <1>4 DEF Carries
<1> QED
  BY <1>1, <1>5 DEF Good

------------------------------------------------------------------------------
\* Programs that count: a fence after what is put, an increment at each peer, and a wait
\* for those of all the others.

CountsFrom(c, F, p, a) ==
  /\ a \in Nat /\ Size(c, p) = a + c.n + 2
  /\ \A k \in 1..a : /\ Stm(c, p, k).do \in {"put", "copy"}
                     /\ Stm(c, p, k).do = "put" =>
                          \E i \in Rounds(c) : Stm(c, p, k).pe = PEof(c, F[Me(c, p)][i])
  /\ Stm(c, p, a + 1).do = "fence"
  /\ \A i \in Rounds(c) : Stm(c, p, a + 1 + i) = AtomicInc(0, PEof(c, F[Me(c, p)][i]))
  /\ Stm(c, p, a + c.n + 1) = Wait(0, "EQ", SHCOLL_SYNC_VALUE + c.n - 1)
  /\ Stm(c, p, a + c.n + 2) = P(0, SHCOLL_SYNC_VALUE, p)
Counts(c, F, p) == \E a : CountsFrom(c, F, p, a)

\* which of its statements are which
LEMMA CountStatements ==
  ASSUME NEW c, Team(c), NEW F, NEW p, NEW a, CountsFrom(c, F, p, a), NEW k \in 1..Size(c, p)
  PROVE  /\ \A q, s : Signal(c, p, k, q, s) <=>
              \E i \in Rounds(c) : k = a + 1 + i /\ q = PEof(c, F[Me(c, p)][i]) /\ s = 0
         /\ \A s : Reset(c, p, k, s) <=> k = a + c.n + 2 /\ s = 0
         /\ \A s : Waits(c, p, k, s) <=> k = a + c.n + 1 /\ s = 0
         /\ Stm(c, p, k).do = "put" => k \in 1..a
         /\ Stm(c, p, k).do # "barrier"
         /\ Stm(c, p, k).do \in Flag => (\E i \in Rounds(c) : k = a + 1 + i) \/ k = a + c.n + 2
<1>1. c.n \in Nat /\ c.n >= 1 /\ a \in Nat /\ Size(c, p) = a + c.n + 2
  BY DEF Team, CountsFrom
<1>2. CASE k \in 1..a
  <2>1. Stm(c, p, k).do \in {"put", "copy"}
    BY <1>2 DEF CountsFrom
  <2>2. /\ k # a + c.n + 2 /\ k # a + c.n + 1 /\ \A i \in Rounds(c) : k # a + 1 + i
    BY <1>1, <1>2 DEF Rounds
  <2> QED
    BY <1>2, <2>1, <2>2 DEF Signal, Reset, Waits, Flag
<1>3. CASE k = a + 1
  <2>1. Stm(c, p, k).do = "fence"
    BY <1>3 DEF CountsFrom
  <2>2. /\ k # a + c.n + 2 /\ k # a + c.n + 1 /\ \A i \in Rounds(c) : k # a + 1 + i
    BY <1>1, <1>3 DEF Rounds
  <2> QED
    BY <2>1, <2>2 DEF Signal, Reset, Waits, Flag
<1>4. CASE \E i \in Rounds(c) : k = a + 1 + i
  <2>1. PICK i \in Rounds(c) : k = a + 1 + i
    BY <1>4
  <2>2. Stm(c, p, k) = AtomicInc(0, PEof(c, F[Me(c, p)][i]))
    BY <2>1 DEF CountsFrom
  <2>3. /\ k # a + c.n + 2 /\ k # a + c.n + 1 /\ \A j \in Rounds(c) : k = a + 1 + j <=> j = i
    BY <1>1, <2>1 DEF Rounds
  <2>4. /\ Stm(c, p, k).do = "add" /\ Stm(c, p, k).slot = 0 /\ Stm(c, p, k).value = 1
        /\ Stm(c, p, k).pe = PEof(c, F[Me(c, p)][i])
    BY <2>2 DEF AtomicInc, AtomicAdd
  <2> QED
    BY <2>1, <2>3, <2>4 DEF Signal, Reset, Waits, Flag
<1>5. CASE k = a + c.n + 1
  <2>1. Stm(c, p, k).do = "wait" /\ Stm(c, p, k).slot = 0
    BY <1>5 DEF CountsFrom, Wait
  <2>2. k # a + c.n + 2 /\ \A i \in Rounds(c) : k # a + 1 + i
    BY <1>1, <1>5 DEF Rounds
  <2> QED
    BY <1>5, <2>1, <2>2 DEF Signal, Reset, Waits, Flag
<1>6. CASE k = a + c.n + 2
  <2>1. /\ Stm(c, p, k).do = "p" /\ Stm(c, p, k).slot = 0 /\ Stm(c, p, k).pe = p
        /\ Stm(c, p, k).value = SHCOLL_SYNC_VALUE
    BY <1>6 DEF CountsFrom, P
  <2>2. k # a + c.n + 1 /\ \A i \in Rounds(c) : k # a + 1 + i
    BY <1>1, <1>6 DEF Rounds
  <2>3. Stm(c, p, k).value # 1
    BY <2>1 DEF SHCOLL_SYNC_VALUE
  <2> QED
    BY <1>6, <2>1, <2>2, <2>3 DEF Signal, Reset, Waits, Flag
<1>7. k \in 1..a \/ k = a + 1 \/ (\E i \in Rounds(c) : k = a + 1 + i)
      \/ k = a + c.n + 1 \/ k = a + c.n + 2
  <2>1. CASE k > a + 1 /\ k < a + c.n + 1
    <3>1. k - a - 1 \in Rounds(c) /\ k = a + 1 + (k - a - 1)
      BY <1>1, <2>1 DEF Rounds
    <3> QED
      BY <3>1
  <2>2. CASE ~(k > a + 1 /\ k < a + c.n + 1)
    BY <1>1, <2>2
  <2> QED
    BY <2>1, <2>2
<1> QED
  BY <1>2, <1>3, <1>4, <1>5, <1>6, <1>7

\* Everybody else signals to a member, in its only slot.
LEMMA CountSenders ==
  ASSUME NEW c, Team(c), NEW F, Exchanging(c, F), \A p \in ActiveSet(c) : Counts(c, F, p),
         NEW q \in ActiveSet(c), NEW s
  PROVE  /\ s # 0 => Senders(c, q, s) = {}
         /\ Cardinality(Senders(c, q, 0)) = c.n - 1
<1>1. /\ \A i \in Index(c) : PEof(c, i) \in ActiveSet(c) /\ Me(c, PEof(c, i)) = i
      /\ \A p \in ActiveSet(c) : Me(c, p) \in Index(c) /\ PEof(c, Me(c, p)) = p
      /\ \A i \in Index(c) : \A j \in Index(c) : PEof(c, i) = PEof(c, j) => i = j
  BY MembersIndexed
<1>2. c.n \in Nat /\ c.n >= 1
  BY DEF Team
<1>3. ASSUME NEW p \in ActiveSet(c), NEW t
      PROVE  p \in Senders(c, q, t) <=> p # q /\ t = 0
  <2>1. PICK a : CountsFrom(c, F, p, a)
    BY DEF Counts
  <2>2. \A k \in 1..Size(c, p) : Signal(c, p, k, q, t) <=>
          \E i \in Rounds(c) : k = a + 1 + i /\ q = PEof(c, F[Me(c, p)][i]) /\ t = 0
    BY <2>1, CountStatements
  <2>3. \A i \in Rounds(c) : a + 1 + i \in 1..Size(c, p)
    BY <1>2, <2>1 DEF CountsFrom, Rounds
  <2>4. p \in Senders(c, q, t) <=> t = 0 /\ \E i \in Rounds(c) : q = PEof(c, F[Me(c, p)][i])
    BY <2>2, <2>3 DEF Senders
  <2>5. \A i \in Rounds(c) : F[Me(c, p)][i] \in Index(c) /\ F[Me(c, p)][i] # Me(c, p)
    BY <1>1 DEF Exchanging
  <2>6. (\E i \in Rounds(c) : q = PEof(c, F[Me(c, p)][i])) <=> p # q
    <3>1. ASSUME NEW i \in Rounds(c), q = PEof(c, F[Me(c, p)][i])
          PROVE  p # q
      BY <1>1, <2>5, <3>1
    <3>2. ASSUME p # q
          PROVE  \E i \in Rounds(c) : q = PEof(c, F[Me(c, p)][i])
      <4>1. Me(c, p) # Me(c, q)
        BY <1>1, <3>2
      <4>2. PICK i \in Rounds(c) : F[Me(c, p)][i] = Me(c, q)
        BY <1>1, <4>1 DEF Exchanging
      <4> QED
        BY <1>1, <4>2
    <3> QED
      BY <3>1, <3>2
  <2> QED
    BY <2>4, <2>6
<1>4. s # 0 => Senders(c, q, s) = {}
  BY <1>3 DEF Senders
<1> DEFINE others == Index(c) \ {Me(c, q)}
           f == [i \in others |-> PEof(c, i)]
<1>5. f \in Bijection(others, Senders(c, q, 0))
  <2>1. ASSUME NEW i \in others
        PROVE  f[i] \in Senders(c, q, 0)
    BY <1>1, <1>3
  <2>2. f \in [others -> Senders(c, q, 0)]
    BY <2>1
  <2>3. \A i, j \in others : f[i] = f[j] => i = j
    BY <1>1
  <2>4. ASSUME NEW p \in Senders(c, q, 0)
        PROVE  \E i \in others : f[i] = p
    <3>1. p \in ActiveSet(c)
      BY DEF Senders
    <3>2. p # q /\ Me(c, p) \in Index(c) /\ PEof(c, Me(c, p)) = p
      BY <1>1, <1>3, <3>1
    <3>3. Me(c, p) \in others
      BY <1>1, <3>2
    <3> QED
      BY <3>2, <3>3
  <2> HIDE DEF f, others
  <2> QED
    BY <2>2, <2>3, <2>4 DEF Bijection, Injection, Surjection, IsInjective
<1>6. ExistsBijection(others, Senders(c, q, 0))
  BY <1>5 DEF ExistsBijection
<1>7. IsFiniteSet(others) /\ Cardinality(others) = c.n - 1
  <2>1. 0 \in Int /\ c.n - 1 \in Int
    BY <1>2
  <2>2. IsFiniteSet(Index(c)) /\ Cardinality(Index(c)) = c.n
    <3>1. /\ IsFiniteSet(0..(c.n - 1))
          /\ Cardinality(0..(c.n - 1)) = IF 0 > c.n - 1 THEN 0 ELSE (c.n - 1) - 0 + 1
      BY <2>1, FS_Interval
    <3> QED
      BY <1>2, <3>1 DEF Index
  <2>3. Me(c, q) \in Index(c)
    BY <1>1
  <2> QED
    BY <1>2, <2>2, <2>3, FS_RemoveElement
<1> QED
  BY <1>4, <1>6, <1>7, FS_Bijection

LEMMA CountsSignalled ==
  ASSUME NEW c, Team(c), NEW F, Exchanging(c, F), \A p \in ActiveSet(c) : Counts(c, F, p)
  PROVE  Signalled(c)
<1> SUFFICES ASSUME NEW p \in ActiveSet(c)
             PROVE  /\ SignalsWell(c, p) /\ WaitsWell(c, p) /\ PutsFenced(c, p)
                    /\ \A k \in 1..Size(c, p) : Stm(c, p, k).do # "barrier"
  BY DEF Signalled
<1>1. PICK a : CountsFrom(c, F, p, a)
  BY DEF Counts
<1> DEFINE m == Me(c, p)
<1>2. c.n \in Nat /\ c.n >= 1 /\ a \in Nat /\ Size(c, p) = a + c.n + 2
  BY <1>1 DEF Team, CountsFrom
<1>3. /\ m \in Index(c) /\ PEof(c, m) = p
      /\ \A i \in Index(c) : \A j \in Index(c) : PEof(c, i) = PEof(c, j) => i = j
  BY MembersIndexed
<1>4. /\ \A i \in Rounds(c) : F[m][i] \in Index(c)
      /\ \A i, j \in Rounds(c) : F[m][i] = F[m][j] => i = j
  BY <1>3 DEF Exchanging
<1>5. ASSUME NEW k \in 1..Size(c, p)
      PROVE  /\ \A q, s : Signal(c, p, k, q, s) <=>
                  \E i \in Rounds(c) : k = a + 1 + i /\ q = PEof(c, F[m][i]) /\ s = 0
             /\ \A s : Reset(c, p, k, s) <=> k = a + c.n + 2 /\ s = 0
             /\ \A s : Waits(c, p, k, s) <=> k = a + c.n + 1 /\ s = 0
             /\ Stm(c, p, k).do = "put" => k \in 1..a
             /\ Stm(c, p, k).do # "barrier"
             /\ Stm(c, p, k).do \in Flag => (\E i \in Rounds(c) : k = a + 1 + i) \/ k = a + c.n + 2
  BY <1>1, CountStatements
<1> HIDE DEF m
<1>6. \A i \in Rounds(c) : a + 1 + i \in 1..Size(c, p) /\ i \in Nat /\ i < c.n /\ i >= 1
  BY <1>2 DEF Rounds
<1>7. ASSUME NEW i \in Rounds(c)
      PROVE  Stm(c, p, a + 1 + i).do = "add"
  <2>1. Stm(c, p, a + 1 + i) = AtomicInc(0, PEof(c, F[Me(c, p)][i]))
    BY <1>1 DEF CountsFrom
  <2> QED
    BY <2>1 DEF AtomicInc, AtomicAdd
<1>8. SignalsWell(c, p)
  <2>1. ASSUME NEW k \in 1..Size(c, p), Stm(c, p, k).do \in Flag
        PROVE  \/ Signal(c, p, k, Stm(c, p, k).pe, Stm(c, p, k).slot)
               \/ Reset(c, p, k, Stm(c, p, k).slot)
    <3>1. CASE \E i \in Rounds(c) : k = a + 1 + i
      <4>1. \E q, s : Signal(c, p, k, q, s)
        BY <1>5, <3>1
      <4> QED
        BY <4>1 DEF Signal
    <3>2. CASE k = a + c.n + 2
      <4>1. Reset(c, p, k, 0)
        BY <1>5, <3>2
      <4> QED
        BY <4>1 DEF Reset
    <3> QED
      BY <1>5, <2>1, <3>1, <3>2
  <2>2. ASSUME NEW q \in ActiveSet(c), NEW s, NEW k \in 1..Size(c, p), NEW l \in 1..Size(c, p),
               Signal(c, p, k, q, s), Signal(c, p, l, q, s)
        PROVE  k = l
    <3>1. PICK i \in Rounds(c) : k = a + 1 + i /\ q = PEof(c, F[m][i])
      BY <1>5, <2>2
    <3>2. PICK j \in Rounds(c) : l = a + 1 + j /\ q = PEof(c, F[m][j])
      BY <1>5, <2>2
    <3>3. i = j
      BY <1>3, <1>4, <3>1, <3>2
    <3> QED
      BY <3>1, <3>2, <3>3
  <2>3. ASSUME NEW q \in ActiveSet(c), NEW s, NEW k \in 1..Size(c, p), Signal(c, p, k, q, s),
               Stm(c, p, k).do = "p"
        PROVE  FALSE
    BY <1>5, <1>7, <2>3
  <2> QED
    BY <2>1, <2>2, <2>3 DEF SignalsWell
<1>9. WaitsWell(c, p)
  <2>1. ASSUME NEW s, NEW w \in 1..Size(c, p), Waits(c, p, w, s)
        PROVE  /\ \A v \in 0..Cardinality(Senders(c, p, s)) :
                    Compare(Stm(c, p, w).cmp, v, Stm(c, p, w).value)
                      <=> v = Cardinality(Senders(c, p, s))
               /\ \A k \in 1..Size(c, p) : Reset(c, p, k, s) => w < k
               /\ \A k \in 1..Size(c, p) : \A q \in ActiveSet(c) : \A t :
                    Signal(c, p, k, q, t) => k < w
    <3>1. w = a + c.n + 1 /\ s = 0
      BY <1>5, <2>1
    <3>2. Stm(c, p, w).cmp = "EQ" /\ Stm(c, p, w).value = c.n - 1
      <4>1. SHCOLL_SYNC_VALUE + c.n - 1 = c.n - 1
        BY <1>2 DEF SHCOLL_SYNC_VALUE
      <4> QED
        BY <1>1, <3>1, <4>1 DEF CountsFrom, Wait
    <3>3. Cardinality(Senders(c, p, s)) = c.n - 1
      BY <3>1, CountSenders
    <3>4. \A v \in 0..Cardinality(Senders(c, p, s)) :
            Compare(Stm(c, p, w).cmp, v, Stm(c, p, w).value)
              <=> v = Cardinality(Senders(c, p, s))
      BY <3>2, <3>3 DEF Compare
    <3>5. \A k \in 1..Size(c, p) : Reset(c, p, k, s) => w < k
      BY <1>2, <1>5, <3>1
    <3>6. \A k \in 1..Size(c, p) : \A q \in ActiveSet(c) : \A t :
            Signal(c, p, k, q, t) => k < w
      BY <1>2, <1>5, <1>6, <3>1
    <3> QED
      BY <3>4, <3>5, <3>6
  <2>2. ASSUME NEW s, NEW k \in 1..Size(c, p), Reset(c, p, k, s)
        PROVE  \E w \in 1..Size(c, p) : w < k /\ Waits(c, p, w, s)
    <3>1. k = a + c.n + 2 /\ s = 0
      BY <1>5, <2>2
    <3>2. a + c.n + 1 \in 1..Size(c, p) /\ a + c.n + 1 < k
      BY <1>2, <3>1
    <3> QED
      BY <1>5, <3>1, <3>2
  <2>3. ASSUME NEW s, Senders(c, p, s) # {}
        PROVE  \E k \in 1..Size(c, p) : Reset(c, p, k, s)
    <3>1. s = 0
      BY <2>3, CountSenders
    <3>2. a + c.n + 2 \in 1..Size(c, p)
      BY <1>2
    <3> QED
      BY <1>5, <3>1, <3>2
  <2> QED
    BY <2>1, <2>2, <2>3 DEF WaitsWell
<1>10. PutsFenced(c, p)
  <2> SUFFICES ASSUME NEW k \in 1..Size(c, p), Stm(c, p, k).do = "put"
               PROVE  \E j \in 1..Size(c, p) : \E s :
                        Signal(c, p, j, Stm(c, p, k).pe, s) /\ k < j /\ Fenced(c, p, k, j)
    BY DEF PutsFenced
  <2>1. k \in 1..a
    BY <1>5
  <2>2. PICK i \in Rounds(c) : Stm(c, p, k).pe = PEof(c, F[m][i])
    BY <1>1, <2>1 DEF CountsFrom, m
  <2> DEFINE j == a + 1 + i
  <2>3. j \in 1..Size(c, p) /\ k < j /\ a + 1 \in (k + 1)..(j - 1)
    BY <1>2, <1>6, <2>1
  <2>4. Stm(c, p, a + 1).do = "fence"
    BY <1>1 DEF CountsFrom
  <2>5. Fenced(c, p, k, j)
    BY <2>3, <2>4 DEF Fenced
  <2>6. Signal(c, p, j, Stm(c, p, k).pe, 0)
    BY <1>5, <2>2, <2>3
  <2> HIDE DEF j
  <2> QED
    BY <2>3, <2>5, <2>6
<1> QED
  BY <1>5, <1>8, <1>9, <1>10

------------------------------------------------------------------------------
\* The programs of alltoall.c, and their peers.

LEMMA PairList ==
  ASSUME NEW x, NEW y
  PROVE  IsList(<<x, y>>) /\ Len(<<x, y>>) = 2 /\ <<x, y>>[1] = x /\ <<x, y>>[2] = y
<1>1. <<x, y>> \in Seq({x, y})
  OBVIOUS
<1> QED
  BY <1>1, SeqIsList

LEMMA SingleList ==
  ASSUME NEW x
  PROVE  IsList(<<x>>) /\ Len(<<x>>) = 1 /\ <<x>>[1] = x
<1>1. <<x>> \in Seq({x})
  OBVIOUS
<1> QED
  BY <1>1, SeqIsList

\* w is s and then t
Joined(w, s, t) ==
  /\ IsList(w) /\ Len(w) = Len(s) + Len(t)
  /\ \A i \in 1..Len(s) : w[i] = s[i]
  /\ \A i \in 1..Len(t) : w[Len(s) + i] = t[i]

LEMMA Joining ==
  ASSUME NEW s, NEW t, IsList(s), IsList(t), NEW w, w = s \o t
  PROVE  Joined(w, s, t)
BY Concatenated DEF Joined

LEMMA CounterCounts ==
  ASSUME NEW c, Team(c), NEW F, Exchanging(c, F), NEW p \in ActiveSet(c), NEW peer,
         peer = F[Me(c, p)], Program(c, p) = ALLTOALL_HELPER_COUNTER(c, p, peer)
  PROVE  Counts(c, F, p) /\ MovesBlocks(c, F, p)
<1> DEFINE puts == [i \in 1..(c.n - 1) |-> PutBlock(c, p, peer[i])]
           own == <<OwnBlock(c, p), Fence>>
           adds == [i \in 1..(c.n - 1) |-> AtomicInc(0, PEof(c, peer[i]))]
           end == <<Wait(0, "EQ", SHCOLL_SYNC_VALUE + c.n - 1), P(0, SHCOLL_SYNC_VALUE, p)>>
           n == c.n
<1>1. n \in Nat /\ n >= 1 /\ n - 1 \in Nat
  BY DEF Team
<1>2. /\ puts = [i \in 1..(n - 1) |-> puts[i]] /\ adds = [i \in 1..(n - 1) |-> adds[i]]
      /\ \A i \in 1..(n - 1) : puts[i] = PutBlock(c, p, peer[i])
      /\ \A i \in 1..(n - 1) : adds[i] = AtomicInc(0, PEof(c, peer[i]))
  OBVIOUS
<1>3. /\ IsList(own) /\ Len(own) = 2 /\ own[1] = OwnBlock(c, p) /\ own[2] = Fence
      /\ IsList(end) /\ Len(end) = 2 /\ end[1] = Wait(0, "EQ", SHCOLL_SYNC_VALUE + c.n - 1)
      /\ end[2] = P(0, SHCOLL_SYNC_VALUE, p)
  BY PairList
<1>4. Program(c, p) = ((puts \o own) \o adds) \o end
  BY DEF ALLTOALL_HELPER_COUNTER
<1> HIDE DEF puts, own, adds, end
<1>5. IsList(puts) /\ Len(puts) = n - 1 /\ IsList(adds) /\ Len(adds) = n - 1
  BY <1>1, <1>2, WrittenList
<1> DEFINE s1 == puts \o own
           s2 == s1 \o adds
           s3 == s2 \o end
<1>5a. Joined(s1, puts, own)
  BY <1>3, <1>5, Joining
<1>5b. IsList(s1) /\ Len(s1) = n + 1
  BY <1>1, <1>3, <1>5, <1>5a DEF Joined
<1> HIDE DEF s1
<1>5c. Joined(s2, s1, adds)
  BY <1>5, <1>5b, Joining
<1>5d. IsList(s2) /\ Len(s2) = n + n
  BY <1>1, <1>5, <1>5b, <1>5c DEF Joined
<1> HIDE DEF s2
<1>5e. Joined(s3, s2, end)
  BY <1>3, <1>5d, Joining
<1>6. /\ \A i \in 1..(n - 1) : s1[i] = puts[i]
      /\ s1[n] = OwnBlock(c, p) /\ s1[n + 1] = Fence
  <2>2. 1 \in 1..Len(own) /\ 2 \in 1..Len(own)
    BY <1>3
  <2>3. s1[(n - 1) + 1] = own[1] /\ s1[(n - 1) + 2] = own[2]
    BY <1>5, <1>5a, <2>2 DEF Joined
  <2>4. (n - 1) + 1 = n /\ (n - 1) + 2 = n + 1
    BY <1>1
  <2> QED
    BY <1>3, <1>5, <1>5a, <2>3, <2>4 DEF Joined
<1>7. /\ \A i \in 1..(n + 1) : s2[i] = s1[i]
      /\ \A i \in 1..(n - 1) : s2[n + 1 + i] = adds[i]
  BY <1>5, <1>5b, <1>5c DEF Joined
<1>8. /\ IsList(s3) /\ Len(s3) = n + n + 2
      /\ \A i \in 1..(n + n) : s3[i] = s2[i]
      /\ s3[n + n + 1] = end[1] /\ s3[n + n + 2] = end[2]
  <2>2. 1 \in 1..Len(end) /\ 2 \in 1..Len(end)
    BY <1>3
  <2> QED
    BY <1>1, <1>3, <1>5d, <1>5e, <2>2 DEF Joined
<1>9. Program(c, p) = s3
  BY <1>4 DEF s1, s2
<1> HIDE DEF s3
<1>10. Size(c, p) = n + n + 2 /\ \A k : Stm(c, p, k) = s3[k]
  BY <1>8, <1>9 DEF Size, Stm
<1>11. ASSUME NEW i \in Rounds(c)
       PROVE  /\ i \in 1..Size(c, p) /\ Stm(c, p, i) = PutBlock(c, p, peer[i])
              /\ Stm(c, p, n + 1 + i) = AtomicInc(0, PEof(c, peer[i]))
  <2>1. i \in 1..(n - 1) /\ i \in 1..(n + 1) /\ i \in 1..(n + n) /\ n + 1 + i \in 1..(n + n)
        /\ i \in 1..Size(c, p)
    BY <1>1, <1>10 DEF Rounds
  <2>2. Stm(c, p, i) = s2[i] /\ s2[i] = s1[i] /\ s1[i] = puts[i]
    BY <1>6, <1>7, <1>8, <1>10, <2>1
  <2>3. Stm(c, p, n + 1 + i) = s2[n + 1 + i] /\ s2[n + 1 + i] = adds[i]
    BY <1>7, <1>8, <1>10, <2>1
  <2> QED
    BY <1>2, <2>1, <2>2, <2>3
<1>12. Stm(c, p, n) = OwnBlock(c, p) /\ Stm(c, p, n + 1) = Fence /\ n \in 1..Size(c, p)
  <2>1. n \in 1..(n + 1) /\ n + 1 \in 1..(n + 1) /\ n \in 1..(n + n) /\ n + 1 \in 1..(n + n)
        /\ n \in 1..Size(c, p)
    BY <1>1, <1>10
  <2> QED
    BY <1>6, <1>7, <1>8, <1>10, <2>1
<1>13. /\ Stm(c, p, n + n + 1) = Wait(0, "EQ", SHCOLL_SYNC_VALUE + c.n - 1)
       /\ Stm(c, p, n + n + 2) = P(0, SHCOLL_SYNC_VALUE, p)
  BY <1>3, <1>8, <1>10
<1>14. ASSUME NEW k \in 1..Size(c, p)
       PROVE  \/ k \in Rounds(c) \/ k = n \/ k = n + 1 \/ \E i \in Rounds(c) : k = n + 1 + i
              \/ k = n + n + 1 \/ k = n + n + 2
  <2>1. CASE k > n + 1 /\ k <= n + n
    <3>1. k - n - 1 \in Rounds(c) /\ k = n + 1 + (k - n - 1)
      BY <1>1, <2>1 DEF Rounds
    <3> QED
      BY <3>1
  <2>2. CASE ~(k > n + 1 /\ k <= n + n)
    BY <1>1, <1>10, <2>2 DEF Rounds
  <2> QED
    BY <2>1, <2>2
<1>15. CountsFrom(c, F, p, n)
  <2>1. ASSUME NEW k \in 1..n
        PROVE  /\ Stm(c, p, k).do \in {"put", "copy"}
               /\ Stm(c, p, k).do = "put" =>
                    \E i \in Rounds(c) : Stm(c, p, k).pe = PEof(c, F[Me(c, p)][i])
    <3>1. k = n \/ k \in Rounds(c)
      BY <1>1 DEF Rounds
    <3> QED
      BY <1>11, <1>12, <3>1 DEF PutBlock, PutNbi, OwnBlock, Copy
  <2>2. Stm(c, p, n + 1).do = "fence"
    BY <1>12 DEF Fence
  <2>3. Size(c, p) = n + c.n + 2 /\ n \in Nat
    BY <1>1, <1>10
  <2> QED
    BY <1>11, <1>13, <2>1, <2>2, <2>3 DEF CountsFrom
<1>16. MovesBlocks(c, F, p)
  <2>1. ASSUME NEW k \in 1..Size(c, p)
        PROVE  \/ \E i \in Rounds(c) : Stm(c, p, k) = PutBlock(c, p, F[Me(c, p)][i])
               \/ Stm(c, p, k) = OwnBlock(c, p)
               \/ Stm(c, p, k).do \in {"p", "add"} /\ Stm(c, p, k).pe \in ActiveSet(c)
               \/ Stm(c, p, k).do \in {"fence", "wait", "barrier"}
    <3>1. CASE k \in Rounds(c)
      BY <1>11, <3>1
    <3>2. CASE k = n \/ k = n + 1
      BY <1>12, <3>2 DEF Fence
    <3>3. CASE \E i \in Rounds(c) : k = n + 1 + i
      <4>1. PICK i \in Rounds(c) : k = n + 1 + i
        BY <3>3
      <4>2. F[Me(c, p)][i] \in Index(c)
        BY MembersIndexed DEF Exchanging
      <4>3. PEof(c, peer[i]) \in ActiveSet(c)
        BY <4>2, MembersIndexed
      <4>4. Stm(c, p, k) = AtomicInc(0, PEof(c, peer[i]))
        BY <1>11, <4>1
      <4> QED
        BY <4>3, <4>4 DEF AtomicInc, AtomicAdd
    <3>4. CASE k = n + n + 1
      BY <1>13, <3>4 DEF Wait
    <3>5. CASE k = n + n + 2
      BY <1>13, <3>5 DEF P
    <3> QED
      BY <1>14, <3>1, <3>2, <3>3, <3>4, <3>5
  <2>2. IsList(Program(c, p))
    BY <1>8, <1>9
  <2> QED
    BY <1>11, <1>12, <2>1, <2>2 DEF MovesBlocks
<1> QED
  BY <1>15, <1>16 DEF Counts

------------------------------------------------------------------------------
\* The peers of the shift exchange.

LEMMA Wraps ==
  ASSUME NEW n \in Nat \ {0}, NEW a \in Nat, a <= n + n
  PROVE  /\ a < n => a % n = a
         /\ n <= a /\ a < n + n => a % n = a - n
         /\ a = n + n => a % n = 0
<1>1. ASSUME NEW k \in Nat, NEW x \in Nat, x < n
      PROVE  (k * n + x) % n = x
  <2>1. k \in Nat /\ k + 1 \in Nat /\ k < k + 1
    OBVIOUS
  <2> QED
    BY <1>1, <2>1, InBlock
<1>2. ASSUME a < n PROVE a % n = a
  <2>1. (0 * n + a) % n = a
    BY <1>1, <1>2
  <2>2. 0 * n + a = a
    OBVIOUS
  <2> QED
    BY <2>1, <2>2
<1>3. ASSUME n <= a, a < n + n PROVE a % n = a - n
  <2>1. a - n \in Nat /\ a - n < n
    BY <1>3
  <2>2. (1 * n + (a - n)) % n = a - n
    BY <1>1, <2>1
  <2>3. 1 * n + (a - n) = a
    OBVIOUS
  <2> QED
    BY <2>2, <2>3
<1>4. ASSUME a = n + n PROVE a % n = 0
  <2>1. (2 * n + 0) % n = 0
    BY <1>1
  <2>2. 2 * n + 0 = a
    BY <1>4
  <2> QED
    BY <2>1, <2>2
<1> QED
  BY <1>2, <1>3, <1>4

Shift(c) == [m \in Index(c) |-> [i \in Rounds(c) |-> SHIFT_PEER(i, m, c.n)]]

LEMMA ShiftExchanging ==
  ASSUME NEW c, Team(c)
  PROVE  Exchanging(c, Shift(c))
<1> DEFINE F == Shift(c)
           n == c.n
<1>1. n \in Nat \ {0}
  BY DEF Team
<1>2. ASSUME NEW m \in Index(c), NEW i \in Rounds(c)
      PROVE  /\ m \in Nat /\ m < n /\ i \in Nat /\ 1 <= i /\ i < n
             /\ m + i < n => F[m][i] = m + i
             /\ n <= m + i => F[m][i] = m + i - n
  <2>1. m \in Nat /\ m < n /\ i \in Nat /\ 1 <= i /\ i < n
    BY <1>1 DEF Index, Rounds
  <2>2. m + i \in Nat /\ m + i <= n + n /\ m + i < n + n
    BY <1>1, <2>1
  <2>3. F[m][i] = (m + i) % n
    BY DEF Shift, SHIFT_PEER
  <2> HIDE DEF F, n
  <2>4. PICK a \in Nat : a = m + i
    BY <2>2
  <2>5. /\ a < n => a % n = a
        /\ n <= a => a % n = a - n
    BY <1>1, <2>2, <2>4, Wraps
  <2> QED
    BY <1>1, <2>1, <2>3, <2>4, <2>5
<1>3. F = [m \in Index(c) |-> [i \in Rounds(c) |-> F[m][i]]]
  BY DEF Shift
<1>4. \A x : /\ x \in Index(c) <=> x \in Nat /\ x < n
             /\ x \in Rounds(c) <=> x \in Nat /\ 1 <= x /\ x < n
  BY <1>1 DEF Index, Rounds
<1> HIDE DEF F, n
<1>5. ASSUME NEW m \in Index(c), NEW i \in Rounds(c)
      PROVE  F[m][i] \in Index(c) /\ F[m][i] # m
  BY <1>1, <1>2, <1>4
<1>6. F \in [Index(c) -> [Rounds(c) -> Index(c)]]
  BY <1>3, <1>5
<1>7. ASSUME NEW m \in Index(c), NEW i \in Rounds(c), NEW j \in Rounds(c), F[m][i] = F[m][j]
      PROVE  i = j
  BY <1>1, <1>2, <1>7
<1>8. ASSUME NEW m \in Index(c), NEW q \in Index(c), m # q
      PROVE  \E i \in Rounds(c) : F[m][i] = q
  <2>1. m \in Nat /\ q \in Nat /\ m < n /\ q < n
    BY <1>4
  <2>2. CASE m < q
    <3>1. q - m \in Rounds(c) /\ m + (q - m) = q
      BY <1>1, <1>4, <2>1, <2>2
    <3> QED
      BY <1>2, <2>1, <3>1
  <2>3. CASE q < m
    <3>1. q + n - m \in Rounds(c) /\ m + (q + n - m) = q + n /\ q + n - n = q /\ n <= q + n
      BY <1>1, <1>4, <2>1, <2>3
    <3>2. F[m][q + n - m] = m + (q + n - m) - n
      BY <1>2, <3>1
    <3> QED
      BY <1>1, <2>1, <3>1, <3>2
  <2> QED
    BY <1>8, <2>1, <2>2, <2>3
<1>9. ASSUME NEW i \in Rounds(c), NEW q \in Index(c)
      PROVE  \E m \in Index(c) : F[m][i] = q
  <2>1. i \in Nat /\ 1 <= i /\ i < n /\ q \in Nat /\ q < n
    BY <1>4
  <2>2. CASE i <= q
    <3>1. q - i \in Index(c) /\ (q - i) + i = q
      BY <1>1, <1>4, <2>1, <2>2
    <3> QED
      BY <1>2, <2>1, <3>1
  <2>3. CASE q < i
    <3>1. q + n - i \in Index(c) /\ (q + n - i) + i = q + n /\ q + n - n = q /\ n <= q + n
      BY <1>1, <1>4, <2>1, <2>3
    <3>2. F[q + n - i][i] = (q + n - i) + i - n
      BY <1>2, <3>1
    <3> QED
      BY <1>1, <2>1, <3>1, <3>2
  <2> QED
    BY <2>1, <2>2, <2>3
<1>10. ASSUME NEW i \in Rounds(c), NEW m \in Index(c), NEW l \in Index(c), F[m][i] = F[l][i]
       PROVE  m = l
  BY <1>1, <1>2, <1>10
<1>11. Exchanging(c, F)
  BY <1>5, <1>6, <1>7, <1>8, <1>9, <1>10 DEF Exchanging
<1> QED
  BY <1>11 DEF F

------------------------------------------------------------------------------
\* The peers of the pairwise exchange by color: the rounds color the edges between the
\* members, the ends of an edge of color i being apart from i modulo n - 1.

Apart(chr, a, i) == a = i \/ a = i + chr \/ a = i - chr
Paired(n, m, q, i) ==
  LET chr == n - 1
  IN  /\ q # m
      /\ \/ m < chr /\ q < chr /\ Apart(chr, m + q, i)
         \/ m < chr /\ q = chr /\ Apart(chr, m + m, i)
         \/ m = chr /\ q < chr /\ Apart(chr, q + q, i)

LEMMA EdgeColor ==
  ASSUME NEW n \in Nat, n % 2 = 0, n >= 2, NEW m \in 0..(n - 1), NEW i \in 1..(n - 1)
  PROVE  edge_color(i, m, n) \in 0..(n - 1) /\ Paired(n, m, edge_color(i, m, n), i)
<1> DEFINE chr == n - 1
           v == IF m < chr THEN (i + chr - m) % chr
                ELSE IF i % 2 = 1 THEN ((i + chr) \div 2) % chr ELSE i \div 2
<1>1. edge_color(i, m, n) = IF v # m THEN v ELSE chr
  BY DEF edge_color
<1>2. PICK h \in Nat : chr = h + h + 1
  <2>1. n = 2 * (n \div 2) /\ n \div 2 \in Nat
    OBVIOUS
  <2>2. n \div 2 - 1 \in Nat /\ chr = (n \div 2 - 1) + (n \div 2 - 1) + 1
    BY <2>1
  <2> QED
    BY <2>2
<1>3. chr \in Nat \ {0} /\ i \in Nat /\ 1 <= i /\ i <= chr /\ m \in Nat /\ m <= chr /\ n = chr + 1
  OBVIOUS
<1> HIDE DEF chr
<1>4. CASE m < chr
  <2>1. v = (i + chr - m) % chr
    BY <1>4
  <2>2. PICK a \in Nat : a = i + chr - m
    BY <1>3, <1>4
  <2>3. a <= chr + chr
    BY <1>3, <2>2
  <2>4. /\ a < chr => a % chr = a
        /\ chr <= a /\ a < chr + chr => a % chr = a - chr
        /\ a = chr + chr => a % chr = 0
    BY <1>3, <2>3, Wraps
  <2>5. v \in Nat /\ v < chr /\ Apart(chr, m + v, i)
    BY <1>3, <1>4, <2>1, <2>2, <2>3, <2>4 DEF Apart
  <2> HIDE DEF v
  <2>6. CASE v # m
    <3>1. edge_color(i, m, n) = v
      BY <1>1, <2>6
    <3> QED
      BY <1>3, <1>4, <2>5, <2>6, <3>1 DEF Paired, chr
  <2>7. CASE v = m
    <3>1. edge_color(i, m, n) = chr
      BY <1>1, <2>7
    <3>2. Apart(chr, m + m, i)
      BY <2>5, <2>7
    <3> QED
      BY <1>3, <1>4, <3>1, <3>2 DEF Paired, chr
  <2> QED
    BY <2>6, <2>7
<1>5. CASE m = chr
  <2>1. v \in Nat /\ v < chr /\ Apart(chr, v + v, i)
    <3>1. CASE i % 2 = 1
      <4>1. v = ((i + chr) \div 2) % chr
        BY <1>3, <1>5, <3>1
      <4>2. PICK b \in Nat : i = b + b + 1
        BY <1>3, <3>1, i \div 2 \in Nat
      <4>3. PICK a \in Nat : a = b + h + 1
        BY <1>2
      <4>4. (i + chr) \div 2 = a
        BY <1>2, <4>2, <4>3
      <4>5. a <= chr + chr /\ a <= chr
        BY <1>2, <1>3, <4>2, <4>3
      <4>6. /\ a < chr => a % chr = a
            /\ chr <= a /\ a < chr + chr => a % chr = a - chr
        BY <1>3, <4>5, Wraps
      <4>7. v = a % chr
        BY <4>1, <4>4
      <4> HIDE DEF v
      <4>8. CASE a < chr
        BY <1>2, <1>3, <4>2, <4>3, <4>6, <4>7, <4>8 DEF Apart
      <4>9. CASE a = chr
        BY <1>2, <1>3, <4>2, <4>3, <4>6, <4>7, <4>9 DEF Apart
      <4> QED
        BY <1>2, <4>3, <4>5, <4>8, <4>9
    <3>2. CASE i % 2 # 1
      <4>1. v = i \div 2
        BY <1>3, <1>5, <3>2
      <4>2. i = (i \div 2) + (i \div 2) /\ i \div 2 \in Nat
        BY <1>3, <3>2
      <4> HIDE DEF v
      <4>3. i = v + v /\ v \in Nat
        BY <4>1, <4>2
      <4> QED
        BY <1>3, <4>3 DEF Apart
    <3> QED
      BY <3>1, <3>2
  <2> HIDE DEF v
  <2>2. edge_color(i, m, n) = v
    BY <1>1, <1>3, <1>5, <2>1
  <2> QED
    BY <1>3, <1>5, <2>1, <2>2 DEF Paired, chr
<1> QED
  BY <1>3, <1>4, <1>5

\* In a round a member has one peer, and a pair meets in one round.
LEMMA PairedOnce ==
  ASSUME NEW n \in Nat, n % 2 = 0, n >= 2, NEW m \in 0..(n - 1), NEW q \in 0..(n - 1),
         NEW i \in 1..(n - 1), Paired(n, m, q, i)
  PROVE  /\ Paired(n, q, m, i)
         /\ \A l \in 0..(n - 1) : Paired(n, m, l, i) => l = q
         /\ \A j \in 1..(n - 1) : Paired(n, m, q, j) => j = i
<1> DEFINE chr == n - 1
<1>2. PICK h \in Nat : chr = h + h + 1
  <2>1. n = 2 * (n \div 2) /\ n \div 2 \in Nat
    OBVIOUS
  <2>2. n \div 2 - 1 \in Nat /\ chr = (n \div 2 - 1) + (n \div 2 - 1) + 1
    BY <2>1
  <2> QED
    BY <2>2
<1>3. /\ chr \in Nat \ {0} /\ i \in Nat /\ 1 <= i /\ i <= chr /\ m \in Nat /\ m <= chr
      /\ q \in Nat /\ q <= chr
  OBVIOUS
<1>4. Paired(n, q, m, i)
  BY <1>3 DEF Paired, Apart
<1>5. ASSUME NEW l \in 0..(n - 1), Paired(n, m, l, i)
      PROVE  l = q
  <2>1. l \in Nat /\ l <= chr
    OBVIOUS
  <2> HIDE DEF chr
  <2>2. CASE m = chr
    <3>1. l < chr /\ Apart(chr, l + l, i) /\ q < chr /\ Apart(chr, q + q, i)
      BY <1>3, <1>5, <2>1, <2>2 DEF Paired, chr
    <3> QED
      BY <1>2, <1>3, <2>1, <3>1 DEF Apart
  <2>3. CASE m < chr
    <3>1. /\ \/ l < chr /\ Apart(chr, m + l, i)
             \/ l = chr /\ Apart(chr, m + m, i)
          /\ \/ q < chr /\ Apart(chr, m + q, i)
             \/ q = chr /\ Apart(chr, m + m, i)
          /\ l # m /\ q # m
      BY <1>3, <1>5, <2>1, <2>3 DEF Paired, chr
    <3> QED
      BY <1>3, <2>1, <2>3, <3>1 DEF Apart
  <2> QED
    BY <1>3, <2>2, <2>3
<1>6. ASSUME NEW j \in 1..(n - 1), Paired(n, m, q, j)
      PROVE  j = i
  <2>1. j \in Nat /\ 1 <= j /\ j <= chr
    OBVIOUS
  <2>2. \E a \in Nat : Apart(chr, a, i) /\ Apart(chr, a, j)
    BY <1>3, <1>6, <2>1 DEF Paired
  <2> HIDE DEF chr
  <2> QED
    BY <1>3, <2>1, <2>2 DEF Apart
<1> QED
  BY <1>4, <1>5, <1>6

LEMMA PairMeets ==
  ASSUME NEW n \in Nat, n >= 2, NEW m \in 0..(n - 1), NEW q \in 0..(n - 1), m # q
  PROVE  \E i \in 1..(n - 1) : Paired(n, m, q, i)
<1> DEFINE chr == n - 1
           a == IF m < chr /\ q < chr THEN m + q ELSE IF q = chr THEN m + m ELSE q + q
           i == IF a = 0 THEN chr ELSE IF a <= chr THEN a ELSE a - chr
<1>1. chr \in Nat /\ m \in Nat /\ q \in Nat /\ m <= chr /\ q <= chr /\ 1 <= chr
  OBVIOUS
<1>2. a \in Nat /\ a <= chr + chr
  BY <1>1
<1>3. i \in 1..chr /\ Apart(chr, a, i)
  <2> HIDE DEF a, chr
  <2> QED
    BY <1>1, <1>2 DEF Apart
<1> HIDE DEF i
<1>4. Paired(n, m, q, i)
  BY <1>1, <1>3 DEF Paired
<1> QED
  BY <1>3, <1>4

Color(c) == [m \in Index(c) |-> [i \in Rounds(c) |-> COLOR_PEER(i, m, c.n)]]

LEMMA ColorExchanging ==
  ASSUME NEW c, Team(c), c.n % 2 = 0
  PROVE  Exchanging(c, Color(c))
<1> DEFINE F == Color(c)
           n == c.n
<1>1. n \in Nat /\ n >= 2 /\ n % 2 = 0
  <2>1. n \in Nat /\ n # 0 /\ n % 2 = 0
    BY DEF Team
  <2>2. n # 1
    BY <2>1
  <2> QED
    BY <2>1, <2>2
<1>2. Index(c) = 0..(n - 1) /\ Rounds(c) = 1..(n - 1)
  BY DEF Index, Rounds
<1>3. ASSUME NEW m \in Index(c), NEW i \in Rounds(c)
      PROVE  F[m][i] \in Index(c) /\ Paired(n, m, F[m][i], i)
  <2>1. F[m][i] = edge_color(i, m, n)
    BY DEF Color, COLOR_PEER
  <2> HIDE DEF n, F
  <2> QED
    BY <1>1, <1>2, <2>1, EdgeColor
<1>4. F = [m \in Index(c) |-> [i \in Rounds(c) |-> F[m][i]]]
  BY DEF Color
<1> HIDE DEF F, n
<1>5. ASSUME NEW m \in Index(c), NEW i \in Rounds(c)
      PROVE  F[m][i] \in Index(c) /\ F[m][i] # m
  BY <1>3 DEF Paired
<1>6. F \in [Index(c) -> [Rounds(c) -> Index(c)]]
  BY <1>4, <1>5
<1>7. ASSUME NEW m \in Index(c), NEW i \in Rounds(c), NEW j \in Rounds(c), F[m][i] = F[m][j]
      PROVE  i = j
  <2>1. Paired(n, m, F[m][i], i) /\ Paired(n, m, F[m][i], j) /\ F[m][i] \in Index(c)
    BY <1>3, <1>7
  <2> QED
    BY <1>1, <1>2, <2>1, PairedOnce
<1>8. ASSUME NEW m \in Index(c), NEW i \in Rounds(c), NEW q \in Index(c), Paired(n, m, q, i)
      PROVE  F[m][i] = q
  <2>1. Paired(n, m, F[m][i], i) /\ F[m][i] \in Index(c)
    BY <1>3
  <2> QED
    BY <1>1, <1>2, <1>8, <2>1, PairedOnce
<1>9. ASSUME NEW m \in Index(c), NEW q \in Index(c), m # q
      PROVE  \E i \in Rounds(c) : F[m][i] = q
  <2>1. PICK i \in Rounds(c) : Paired(n, m, q, i)
    BY <1>1, <1>2, <1>9, PairMeets
  <2> QED
    BY <1>8, <2>1
<1>10. ASSUME NEW i \in Rounds(c), NEW m \in Index(c)
       PROVE  F[F[m][i]][i] = m
  <2>1. Paired(n, m, F[m][i], i) /\ F[m][i] \in Index(c)
    BY <1>3
  <2>2. Paired(n, F[m][i], m, i)
    BY <1>1, <1>2, <2>1, PairedOnce
  <2> QED
    BY <1>8, <2>1, <2>2
<1>11. ASSUME NEW i \in Rounds(c), NEW q \in Index(c)
       PROVE  \E m \in Index(c) : F[m][i] = q
  BY <1>5, <1>10
<1>12. ASSUME NEW i \in Rounds(c), NEW m \in Index(c), NEW l \in Index(c), F[m][i] = F[l][i]
       PROVE  m = l
  BY <1>10, <1>12
<1>13. Exchanging(c, F)
  BY <1>5, <1>6, <1>7, <1>9, <1>11, <1>12 DEF Exchanging
<1> QED
  BY <1>13 DEF F

------------------------------------------------------------------------------
\* A list made of lists of the same length.

Evenly(s, lists, n, g) ==
  /\ IsList(s) /\ Len(s) = n * g
  /\ \A i \in 1..n : \A j \in 1..g : s[(i - 1) * g + j] = lists[i][j]

LEMMA LaidEvenly ==
  ASSUME NEW n \in Nat, NEW g \in Nat, NEW s, NEW lists, NEW start, Laid(s, lists, n, start),
         \A i \in 1..n : Len(lists[i]) = g
  PROVE  Evenly(s, lists, n, g)
<1> DEFINE T == {i \in Nat : i \in 0..n => start[i] = i * g}
<1>1. 0 \in T
  BY DEF Laid
<1>2. ASSUME NEW i \in Nat, i \in T PROVE i + 1 \in T
  <2> SUFFICES ASSUME i + 1 \in 0..n PROVE start[i + 1] = (i + 1) * g
    OBVIOUS
  <2>1. i + 1 \in 1..n /\ i \in 0..n /\ (i + 1) - 1 = i
    OBVIOUS
  <2>2. start[i] = i * g
    BY <1>2, <2>1
  <2>3. start[i + 1] = start[i] + g
    BY <2>1 DEF Laid
  <2>4. (i + 1) * g = i * g + g
    OBVIOUS
  <2> QED
    BY <2>2, <2>3, <2>4
<1> HIDE DEF T
<1>3. \A i \in Nat : i \in T
  BY <1>1, <1>2, Induction
<1>4. \A i \in 0..n : start[i] = i * g
  BY <1>3 DEF T
<1>5. Len(s) = n * g
  BY <1>4 DEF Laid
<1>6. ASSUME NEW i \in 1..n, NEW j \in 1..g
      PROVE  s[(i - 1) * g + j] = lists[i][j]
  <2>1. i - 1 \in 0..n
    OBVIOUS
  <2>2. start[i - 1] = (i - 1) * g
    BY <1>4, <2>1
  <2>3. s[start[i - 1] + j] = lists[i][j]
    BY DEF Laid
  <2> QED
    BY <2>2, <2>3
<1> QED
  BY <1>5, <1>6 DEF Evenly, Laid

LEMMA LoopEvenly ==
  ASSUME NEW n \in Nat, NEW g \in Nat, NEW lists, lists = [i \in 1..n |-> lists[i]],
         \A i \in 1..n : IsList(lists[i]) /\ Len(lists[i]) = g
  PROVE  Evenly(FlattenSeq(lists), lists, n, g)
<1>1. PICK start : Laid(FlattenSeq(lists), lists, n, start)
  BY LoopLaid
<1> QED
  BY <1>1, LaidEvenly

LEMMA TripleList ==
  ASSUME NEW x, NEW y, NEW z
  PROVE  /\ IsList(<<x, y, z>>) /\ Len(<<x, y, z>>) = 3
         /\ <<x, y, z>>[1] = x /\ <<x, y, z>>[2] = y /\ <<x, y, z>>[3] = z
<1>1. <<x, y, z>> \in Seq({x, y, z})
  OBVIOUS
<1> QED
  BY <1>1, SeqIsList

------------------------------------------------------------------------------
\* Programs that signal: what is put to a peer is followed by a fence and a flag in the
\* slot of the round; then each flag is waited for and its slot given back.

Signals(c, F, p) ==
  /\ Size(c, p) = 5 * (c.n - 1) + 1
  /\ \A i \in Rounds(c) :
       /\ Stm(c, p, 3 * i - 2) = PutBlock(c, p, F[Me(c, p)][i])
       /\ Stm(c, p, 3 * i - 1) = Fence
       /\ Stm(c, p, 3 * i) = P(i - 1, SHCOLL_SYNC_VALUE + 1, PEof(c, F[Me(c, p)][i]))
  /\ Stm(c, p, 3 * (c.n - 1) + 1) = OwnBlock(c, p)
  /\ \A i \in Rounds(c) :
       /\ Stm(c, p, 3 * (c.n - 1) + 2 * i) = Wait(i - 1, "GT", SHCOLL_SYNC_VALUE)
       /\ Stm(c, p, 3 * (c.n - 1) + 2 * i + 1) = P(i - 1, SHCOLL_SYNC_VALUE, p)

LEMMA SignalProgram ==
  ASSUME NEW c, Team(c), NEW F, NEW p \in ActiveSet(c), NEW peer,
         peer = F[Me(c, p)], Program(c, p) = ALLTOALL_HELPER_SIGNAL(c, p, peer)
  PROVE  IsList(Program(c, p)) /\ Signals(c, F, p)
<1> DEFINE puts == [i \in 1..(c.n - 1) |->
                      <<PutBlock(c, p, peer[i]), Fence,
                        P(i - 1, SHCOLL_SYNC_VALUE + 1, PEof(c, peer[i]))>>]
           takes == [i \in 1..(c.n - 1) |->
                      <<Wait(i - 1, "GT", SHCOLL_SYNC_VALUE), P(i - 1, SHCOLL_SYNC_VALUE, p)>>]
           own == <<OwnBlock(c, p)>>
<1>0. PICK r \in Nat : r = c.n - 1
  BY c.n - 1 \in Nat DEF Team
<1>1. Program(c, p) = (FlattenSeq(puts) \o own) \o FlattenSeq(takes)
  <2> DEFINE put(i) ==
        shmem_putmem_signal_nb("source", peer[i] * nelems(c), Me(c, p) * nelems(c), nelems(c),
                               i - 1, SHCOLL_SYNC_VALUE + 1, PEof(c, peer[i]))
             take(i) == <<Wait(i - 1, "GT", SHCOLL_SYNC_VALUE), P(i - 1, SHCOLL_SYNC_VALUE, p)>>
             count == IF c.n - 1 < 1 THEN 0 ELSE c.n - 1 - 1 + 1
  <2>1. Program(c, p) = (FlattenSeq([k \in 1..count |-> put(1 + k - 1)]) \o own)
                        \o FlattenSeq([k \in 1..count |-> take(1 + k - 1)])
    BY DEF ALLTOALL_HELPER_SIGNAL, Loop
  <2>2. count = c.n - 1
    BY <1>0
  <2>3. [k \in 1..count |-> put(1 + k - 1)] = puts
    <3>1. \A k \in 1..(c.n - 1) : 1 + k - 1 = k
      OBVIOUS
    <3>2. \A k \in 1..(c.n - 1) : put(1 + k - 1) = puts[k]
      BY <3>1 DEF shmem_putmem_signal_nb, PutBlock
    <3> HIDE DEF put
    <3> QED
      BY <2>2, <3>2
  <2>4. [k \in 1..count |-> take(1 + k - 1)] = takes
    <3>1. \A k \in 1..(c.n - 1) : 1 + k - 1 = k
      OBVIOUS
    <3>2. \A k \in 1..(c.n - 1) : take(1 + k - 1) = takes[k]
      BY <3>1
    <3> HIDE DEF take
    <3> QED
      BY <2>2, <3>2
  <2> QED
    BY <2>1, <2>3, <2>4
<1>2. /\ puts = [i \in 1..r |-> puts[i]] /\ takes = [i \in 1..r |-> takes[i]]
      /\ \A i \in 1..r : /\ IsList(puts[i]) /\ Len(puts[i]) = 3
                         /\ puts[i][1] = PutBlock(c, p, peer[i]) /\ puts[i][2] = Fence
                         /\ puts[i][3] = P(i - 1, SHCOLL_SYNC_VALUE + 1, PEof(c, peer[i]))
      /\ \A i \in 1..r : /\ IsList(takes[i]) /\ Len(takes[i]) = 2
                         /\ takes[i][1] = Wait(i - 1, "GT", SHCOLL_SYNC_VALUE)
                         /\ takes[i][2] = P(i - 1, SHCOLL_SYNC_VALUE, p)
  BY <1>0, TripleList, PairList
<1>3. IsList(own) /\ Len(own) = 1 /\ own[1] = OwnBlock(c, p)
  BY SingleList
<1> DEFINE s == FlattenSeq(puts)
           t == FlattenSeq(takes)
           u == s \o own
           w == u \o t
<1>4. Program(c, p) = w
  BY <1>1
<1> HIDE DEF puts, takes, own
<1>5. Evenly(s, puts, r, 3) /\ Evenly(t, takes, r, 2)
  BY <1>2, LoopEvenly
<1> HIDE DEF s, t
<1>6. /\ IsList(s) /\ Len(s) = 3 * r /\ IsList(t) /\ Len(t) = 2 * r
      /\ \A i \in 1..r : /\ s[3 * i - 2] = puts[i][1] /\ s[3 * i - 1] = puts[i][2]
                         /\ s[3 * i] = puts[i][3]
      /\ \A i \in 1..r : t[2 * i - 1] = takes[i][1] /\ t[2 * i] = takes[i][2]
  <2>1. ASSUME NEW i \in 1..r
        PROVE  /\ s[3 * i - 2] = puts[i][1] /\ s[3 * i - 1] = puts[i][2]
               /\ s[3 * i] = puts[i][3]
               /\ t[2 * i - 1] = takes[i][1] /\ t[2 * i] = takes[i][2]
    <3>1. /\ (i - 1) * 3 + 1 = 3 * i - 2 /\ (i - 1) * 3 + 2 = 3 * i - 1 /\ (i - 1) * 3 + 3 = 3 * i
          /\ (i - 1) * 2 + 1 = 2 * i - 1 /\ (i - 1) * 2 + 2 = 2 * i
      OBVIOUS
    <3>2. /\ s[(i - 1) * 3 + 1] = puts[i][1] /\ s[(i - 1) * 3 + 2] = puts[i][2]
          /\ s[(i - 1) * 3 + 3] = puts[i][3]
          /\ t[(i - 1) * 2 + 1] = takes[i][1] /\ t[(i - 1) * 2 + 2] = takes[i][2]
      <4>1. 1 \in 1..3 /\ 2 \in 1..3 /\ 3 \in 1..3 /\ 1 \in 1..2 /\ 2 \in 1..2
        OBVIOUS
      <4> QED
        BY <1>5, <4>1 DEF Evenly
    <3> QED
      BY <3>1, <3>2
  <2>2. IsList(s) /\ Len(s) = r * 3 /\ IsList(t) /\ Len(t) = r * 2
    BY <1>5 DEF Evenly
  <2> QED
    BY <2>1, <2>2
<1>7. Joined(u, s, own)
  BY <1>3, <1>6, Joining
<1>8. IsList(u) /\ Len(u) = 3 * r + 1
  BY <1>3, <1>6, <1>7 DEF Joined
<1> HIDE DEF u
<1>9. Joined(w, u, t)
  BY <1>6, <1>8, Joining
<1> HIDE DEF w
<1>10. Len(w) = 5 * r + 1 /\ IsList(w)
  BY <1>6, <1>8, <1>9 DEF Joined
<1>11. ASSUME NEW i \in 1..r
       PROVE  /\ w[3 * i - 2] = puts[i][1] /\ w[3 * i - 1] = puts[i][2] /\ w[3 * i] = puts[i][3]
              /\ w[3 * r + 2 * i] = takes[i][1] /\ w[3 * r + 2 * i + 1] = takes[i][2]
  <2>1. ASSUME NEW k \in 1..(3 * r)
        PROVE  w[k] = s[k]
    <3>1. k \in 1..Len(s) /\ k \in 1..Len(u)
      BY <1>6, <1>8
    <3> QED
      BY <1>7, <1>9, <3>1 DEF Joined
  <2>2. 3 * i - 2 \in 1..(3 * r) /\ 3 * i - 1 \in 1..(3 * r) /\ 3 * i \in 1..(3 * r)
    OBVIOUS
  <2>3. /\ 2 * i - 1 \in 1..Len(t) /\ 2 * i \in 1..Len(t)
        /\ Len(u) + (2 * i - 1) = 3 * r + 2 * i /\ Len(u) + 2 * i = 3 * r + 2 * i + 1
    BY <1>6, <1>8
  <2>4. w[Len(u) + (2 * i - 1)] = t[2 * i - 1] /\ w[Len(u) + 2 * i] = t[2 * i]
    BY <1>9, <2>3 DEF Joined
  <2> QED
    BY <1>6, <2>1, <2>2, <2>3, <2>4
<1>12. w[3 * r + 1] = OwnBlock(c, p)
  <2>1. 1 \in 1..Len(own) /\ Len(s) + 1 = 3 * r + 1 /\ 3 * r + 1 \in 1..Len(u)
    BY <1>3, <1>6, <1>8
  <2> QED
    BY <1>3, <1>7, <1>9, <2>1 DEF Joined
<1>13. Rounds(c) = 1..r
  BY <1>0 DEF Rounds
<1>14. Size(c, p) = 5 * r + 1 /\ \A k : Stm(c, p, k) = w[k]
  BY <1>4, <1>10 DEF Size, Stm
<1>15. Signals(c, F, p)
  <2>1. ASSUME NEW i \in Rounds(c)
        PROVE  /\ Stm(c, p, 3 * i - 2) = PutBlock(c, p, F[Me(c, p)][i])
               /\ Stm(c, p, 3 * i - 1) = Fence
               /\ Stm(c, p, 3 * i) = P(i - 1, SHCOLL_SYNC_VALUE + 1, PEof(c, F[Me(c, p)][i]))
               /\ Stm(c, p, 3 * r + 2 * i) = Wait(i - 1, "GT", SHCOLL_SYNC_VALUE)
               /\ Stm(c, p, 3 * r + 2 * i + 1) = P(i - 1, SHCOLL_SYNC_VALUE, p)
    <3>1. i \in 1..r
      BY <1>13
    <3>2. /\ Stm(c, p, 3 * i - 2) = puts[i][1] /\ Stm(c, p, 3 * i - 1) = puts[i][2]
          /\ Stm(c, p, 3 * i) = puts[i][3]
          /\ Stm(c, p, 3 * r + 2 * i) = takes[i][1] /\ Stm(c, p, 3 * r + 2 * i + 1) = takes[i][2]
      BY <1>11, <1>14, <3>1
    <3> QED
      BY <1>2, <3>1, <3>2
  <2>2. Stm(c, p, 3 * r + 1) = OwnBlock(c, p)
    BY <1>12, <1>14
  <2>3. Size(c, p) = 5 * (c.n - 1) + 1
    BY <1>0, <1>14
  <2> QED
    BY <1>0, <2>1, <2>2, <2>3 DEF Signals
<1> QED
  BY <1>4, <1>10, <1>15

\* which of its statements are which
PutOf(c, F, p, k, i) == k = 3 * i - 2 /\ Stm(c, p, k) = PutBlock(c, p, F[Me(c, p)][i])
FlagOf(c, F, p, k, i) ==
  k = 3 * i /\ Stm(c, p, k) = P(i - 1, SHCOLL_SYNC_VALUE + 1, PEof(c, F[Me(c, p)][i]))
WaitOf(c, p, k, i) ==
  k = 3 * (c.n - 1) + 2 * i /\ Stm(c, p, k) = Wait(i - 1, "GT", SHCOLL_SYNC_VALUE)
ResetOf(c, p, k, i) ==
  k = 3 * (c.n - 1) + 2 * i + 1 /\ Stm(c, p, k) = P(i - 1, SHCOLL_SYNC_VALUE, p)

LEMMA SignalKinds ==
  ASSUME NEW c, Team(c), NEW F, NEW p, Signals(c, F, p), NEW k \in 1..Size(c, p)
  PROVE  \/ \E i \in Rounds(c) : PutOf(c, F, p, k, i)
         \/ \E i \in Rounds(c) : k = 3 * i - 1 /\ Stm(c, p, k) = Fence
         \/ \E i \in Rounds(c) : FlagOf(c, F, p, k, i)
         \/ k = 3 * (c.n - 1) + 1 /\ Stm(c, p, k) = OwnBlock(c, p)
         \/ \E i \in Rounds(c) : WaitOf(c, p, k, i)
         \/ \E i \in Rounds(c) : ResetOf(c, p, k, i)
<1>1. PICK r \in Nat : r = c.n - 1
  BY c.n - 1 \in Nat DEF Team
<1>2. Rounds(c) = 1..r /\ Size(c, p) = 5 * r + 1
  BY <1>1 DEF Rounds, Signals
<1>3. CASE k <= 3 * r
  <2>1. \E i \in 1..r : k = 3 * i - 2 \/ k = 3 * i - 1 \/ k = 3 * i
    <3>1. PICK i \in Nat : i = (k + 2) \div 3
      BY <1>2
    <3>2. i \in 1..r /\ (k = 3 * i - 2 \/ k = 3 * i - 1 \/ k = 3 * i)
      BY <1>2, <1>3, <3>1
    <3> QED
      BY <3>2
  <2> QED
    BY <1>2, <2>1 DEF Signals, PutOf, FlagOf
<1>4. CASE k = 3 * r + 1
  BY <1>1, <1>4 DEF Signals
<1>5. CASE k > 3 * r + 1
  <2>1. \E i \in 1..r : k = 3 * r + 2 * i \/ k = 3 * r + 2 * i + 1
    <3>1. PICK i \in Nat : i = (k - 3 * r) \div 2
      BY <1>2, <1>5
    <3>2. i \in 1..r /\ (k = 3 * r + 2 * i \/ k = 3 * r + 2 * i + 1)
      BY <1>2, <1>5, <3>1
    <3> QED
      BY <3>2
  <2> QED
    BY <1>1, <1>2, <2>1 DEF Signals, WaitOf, ResetOf
<1> QED
  BY <1>2, <1>3, <1>4, <1>5

LEMMA SignalStatements ==
  ASSUME NEW c, Team(c), NEW F, NEW p, Signals(c, F, p), NEW k \in 1..Size(c, p)
  PROVE  /\ \A q, s : Signal(c, p, k, q, s) <=>
              \E i \in Rounds(c) : k = 3 * i /\ q = PEof(c, F[Me(c, p)][i]) /\ s = i - 1
         /\ \A s : Reset(c, p, k, s) <=>
              \E i \in Rounds(c) : k = 3 * (c.n - 1) + 2 * i + 1 /\ s = i - 1
         /\ \A s : Waits(c, p, k, s) <=>
              \E i \in Rounds(c) : k = 3 * (c.n - 1) + 2 * i /\ s = i - 1
         /\ Stm(c, p, k).do = "put" => \E i \in Rounds(c) : PutOf(c, F, p, k, i)
         /\ Stm(c, p, k).do # "barrier"
         /\ Stm(c, p, k).do \in Flag =>
              \E i \in Rounds(c) : k = 3 * i \/ k = 3 * (c.n - 1) + 2 * i + 1
<1>1. PICK r \in Nat : r = c.n - 1
  BY c.n - 1 \in Nat DEF Team
<1>2. Rounds(c) = 1..r
  BY <1>1 DEF Rounds
<1>3. CASE \E i \in Rounds(c) : PutOf(c, F, p, k, i)
  <2>1. PICK i \in Rounds(c) : PutOf(c, F, p, k, i)
    BY <1>3
  <2>2. Stm(c, p, k).do = "put"
    BY <2>1 DEF PutOf, PutBlock, PutNbi
  <2>3. \A j \in Rounds(c) : k # 3 * j /\ k # 3 * r + 2 * j + 1 /\ k # 3 * r + 2 * j
    BY <1>2, <2>1 DEF PutOf
  <2> QED
    BY <1>1, <2>1, <2>2, <2>3 DEF Signal, Reset, Waits, Flag
<1>4. CASE \E i \in Rounds(c) : k = 3 * i - 1 /\ Stm(c, p, k) = Fence
  <2>1. PICK i \in Rounds(c) : k = 3 * i - 1 /\ Stm(c, p, k) = Fence
    BY <1>4
  <2>2. Stm(c, p, k).do = "fence"
    BY <2>1 DEF Fence
  <2>3. \A j \in Rounds(c) : k # 3 * j /\ k # 3 * r + 2 * j + 1 /\ k # 3 * r + 2 * j
    BY <1>2, <2>1
  <2> QED
    BY <1>1, <2>2, <2>3 DEF Signal, Reset, Waits, Flag
<1>5. CASE \E i \in Rounds(c) : FlagOf(c, F, p, k, i)
  <2>1. PICK i \in Rounds(c) : FlagOf(c, F, p, k, i)
    BY <1>5
  <2>2. /\ Stm(c, p, k).do = "p" /\ Stm(c, p, k).slot = i - 1 /\ Stm(c, p, k).value = 1
        /\ Stm(c, p, k).pe = PEof(c, F[Me(c, p)][i])
    BY <2>1 DEF FlagOf, P, SHCOLL_SYNC_VALUE
  <2>3. /\ \A j \in Rounds(c) : k # 3 * r + 2 * j + 1 /\ k # 3 * r + 2 * j
        /\ \A j \in Rounds(c) : k = 3 * j <=> j = i
    BY <1>2, <2>1 DEF FlagOf
  <2> QED
    BY <1>1, <2>1, <2>2, <2>3 DEF Signal, Reset, Waits, Flag, SHCOLL_SYNC_VALUE, FlagOf
<1>6. CASE k = 3 * (c.n - 1) + 1 /\ Stm(c, p, k) = OwnBlock(c, p)
  <2>1. Stm(c, p, k).do = "copy"
    BY <1>6 DEF OwnBlock, Copy
  <2>2. \A j \in Rounds(c) : k # 3 * j /\ k # 3 * r + 2 * j + 1 /\ k # 3 * r + 2 * j
    BY <1>1, <1>2, <1>6, SMTT(30)
  <2> QED
    BY <1>1, <2>1, <2>2 DEF Signal, Reset, Waits, Flag
<1>7. CASE \E i \in Rounds(c) : WaitOf(c, p, k, i)
  <2>1. PICK i \in Rounds(c) : WaitOf(c, p, k, i)
    BY <1>7
  <2>2. Stm(c, p, k).do = "wait" /\ Stm(c, p, k).slot = i - 1
    BY <2>1 DEF WaitOf, Wait
  <2>3. /\ \A j \in Rounds(c) : k # 3 * r + 2 * j + 1 /\ k # 3 * j
        /\ \A j \in Rounds(c) : k = 3 * r + 2 * j <=> j = i
    <3>1. k = 3 * r + 2 * i
      BY <1>1, <2>1 DEF WaitOf
    <3> QED
      BY <1>2, <3>1
  <2> QED
    BY <1>1, <2>1, <2>2, <2>3 DEF Signal, Reset, Waits, Flag
<1>8. CASE \E i \in Rounds(c) : ResetOf(c, p, k, i)
  <2>1. PICK i \in Rounds(c) : ResetOf(c, p, k, i)
    BY <1>8
  <2>2. /\ Stm(c, p, k).do = "p" /\ Stm(c, p, k).slot = i - 1 /\ Stm(c, p, k).pe = p
        /\ Stm(c, p, k).value = SHCOLL_SYNC_VALUE /\ Stm(c, p, k).value # 1
    BY <2>1 DEF ResetOf, P, SHCOLL_SYNC_VALUE
  <2>3. /\ \A j \in Rounds(c) : k # 3 * r + 2 * j /\ k # 3 * j
        /\ \A j \in Rounds(c) : k = 3 * r + 2 * j + 1 <=> j = i
    <3>1. k = 3 * r + 2 * i + 1
      BY <1>1, <2>1 DEF ResetOf
    <3> QED
      BY <1>2, <3>1
  <2> QED
    BY <1>1, <2>1, <2>2, <2>3 DEF Signal, Reset, Waits, Flag
<1> QED
  BY <1>3, <1>4, <1>5, <1>6, <1>7, <1>8, SignalKinds

\* One member signals in a slot.
LEMMA SignalSenders ==
  ASSUME NEW c, Team(c), NEW F, Exchanging(c, F), \A p \in ActiveSet(c) : Signals(c, F, p),
         NEW q \in ActiveSet(c), NEW s
  PROVE  /\ Senders(c, q, s) # {} => \E i \in Rounds(c) : s = i - 1
         /\ \A p \in Senders(c, q, s) : Senders(c, q, s) = {p}
         /\ \A i \in Rounds(c) : s = i - 1 => \E p \in ActiveSet(c) : Senders(c, q, s) = {p}
<1>1. /\ \A i \in Index(c) : PEof(c, i) \in ActiveSet(c) /\ Me(c, PEof(c, i)) = i
      /\ \A p \in ActiveSet(c) : Me(c, p) \in Index(c) /\ PEof(c, Me(c, p)) = p
      /\ \A i \in Index(c) : \A j \in Index(c) : PEof(c, i) = PEof(c, j) => i = j
  BY MembersIndexed
<1>2. PICK r \in Nat : r = c.n - 1
  BY c.n - 1 \in Nat DEF Team
<1>3. Rounds(c) = 1..r
  BY <1>2 DEF Rounds
<1>4. ASSUME NEW p
      PROVE  p \in Senders(c, q, s) <=>
               p \in ActiveSet(c) /\ \E i \in Rounds(c) : s = i - 1 /\ F[Me(c, p)][i] = Me(c, q)
  <2> SUFFICES ASSUME p \in ActiveSet(c)
               PROVE  p \in Senders(c, q, s) <=>
                        \E i \in Rounds(c) : s = i - 1 /\ F[Me(c, p)][i] = Me(c, q)
    BY DEF Senders
  <2>1. Signals(c, F, p)
    OBVIOUS
  <2>2. \A k \in 1..Size(c, p) : Signal(c, p, k, q, s) <=>
          \E i \in Rounds(c) : k = 3 * i /\ q = PEof(c, F[Me(c, p)][i]) /\ s = i - 1
    BY <2>1, SignalStatements
  <2>3. \A i \in Rounds(c) : 3 * i \in 1..Size(c, p)
    <3>1. Size(c, p) = 5 * r + 1
      BY <1>2, <2>1 DEF Signals
    <3>2. \A i \in 1..r : 3 * i \in 1..(5 * r + 1)
      OBVIOUS
    <3> QED
      BY <1>3, <3>1, <3>2
  <2>4. \A i \in Rounds(c) : F[Me(c, p)][i] \in Index(c)
    BY <1>1 DEF Exchanging
  <2>5. \A i \in Rounds(c) : q = PEof(c, F[Me(c, p)][i]) <=> F[Me(c, p)][i] = Me(c, q)
    BY <1>1, <2>4
  <2>6. p \in Senders(c, q, s) <=> \E k \in 1..Size(c, p) : Signal(c, p, k, q, s)
    BY DEF Senders
  <2> QED
    BY <2>2, <2>3, <2>5, <2>6
<1>5. ASSUME NEW p \in Senders(c, q, s), NEW l \in Senders(c, q, s)
      PROVE  p = l
  <2>1. PICK i \in Rounds(c) : s = i - 1 /\ F[Me(c, p)][i] = Me(c, q)
    BY <1>4
  <2>2. PICK j \in Rounds(c) : s = j - 1 /\ F[Me(c, l)][j] = Me(c, q)
    BY <1>4
  <2>3. i = j
    BY <1>3, <2>1, <2>2
  <2>4. p \in ActiveSet(c) /\ l \in ActiveSet(c)
    BY <1>4
  <2>5. Me(c, p) = Me(c, l)
    BY <1>1, <2>1, <2>2, <2>3, <2>4 DEF Exchanging
  <2> QED
    BY <1>1, <2>4, <2>5
<1>6. ASSUME NEW i \in Rounds(c), s = i - 1
      PROVE  \E p \in ActiveSet(c) : p \in Senders(c, q, s)
  <2>1. PICK m \in Index(c) : F[m][i] = Me(c, q)
    BY <1>1 DEF Exchanging
  <2>2. PEof(c, m) \in ActiveSet(c) /\ Me(c, PEof(c, m)) = m
    BY <1>1
  <2> QED
    BY <1>4, <1>6, <2>1, <2>2
<1>7. Senders(c, q, s) # {} => \E i \in Rounds(c) : s = i - 1
  BY <1>4
<1>8. \A p \in Senders(c, q, s) : Senders(c, q, s) = {p}
  BY <1>5
<1> QED
  BY <1>6, <1>7, <1>8

LEMMA SignalsSignalled ==
  ASSUME NEW c, Team(c), NEW F, Exchanging(c, F), \A p \in ActiveSet(c) : Signals(c, F, p)
  PROVE  Signalled(c)
<1> SUFFICES ASSUME NEW p \in ActiveSet(c)
             PROVE  /\ SignalsWell(c, p) /\ WaitsWell(c, p) /\ PutsFenced(c, p)
                    /\ \A k \in 1..Size(c, p) : Stm(c, p, k).do # "barrier"
  BY DEF Signalled
<1> DEFINE m == Me(c, p)
<1>1. /\ m \in Index(c) /\ PEof(c, m) = p
      /\ \A i \in Index(c) : \A j \in Index(c) : PEof(c, i) = PEof(c, j) => i = j
  BY MembersIndexed
<1>2. /\ \A i \in Rounds(c) : F[m][i] \in Index(c)
      /\ \A i, j \in Rounds(c) : F[m][i] = F[m][j] => i = j
  BY <1>1 DEF Exchanging
<1>3. PICK r \in Nat : r = c.n - 1
  BY c.n - 1 \in Nat DEF Team
<1>4. Signals(c, F, p)
  OBVIOUS
<1>5. Rounds(c) = 1..r /\ Size(c, p) = 5 * r + 1
  BY <1>3, <1>4 DEF Rounds, Signals
<1>6. ASSUME NEW k \in 1..Size(c, p)
      PROVE  /\ \A q, s : Signal(c, p, k, q, s) <=>
                  \E i \in Rounds(c) : k = 3 * i /\ q = PEof(c, F[m][i]) /\ s = i - 1
             /\ \A s : Reset(c, p, k, s) <=>
                  \E i \in Rounds(c) : k = 3 * r + 2 * i + 1 /\ s = i - 1
             /\ \A s : Waits(c, p, k, s) <=>
                  \E i \in Rounds(c) : k = 3 * r + 2 * i /\ s = i - 1
             /\ Stm(c, p, k).do = "put" => \E i \in Rounds(c) : PutOf(c, F, p, k, i)
             /\ Stm(c, p, k).do # "barrier"
             /\ Stm(c, p, k).do \in Flag =>
                  \E i \in Rounds(c) : k = 3 * i \/ k = 3 * r + 2 * i + 1
  BY <1>3, <1>4, SignalStatements
<1> HIDE DEF m
<1>7. \A i \in Rounds(c) :
        /\ 3 * i - 2 \in 1..Size(c, p) /\ 3 * i - 1 \in 1..Size(c, p) /\ 3 * i \in 1..Size(c, p)
        /\ 3 * r + 2 * i \in 1..Size(c, p) /\ 3 * r + 2 * i + 1 \in 1..Size(c, p)
  BY <1>5
<1>8. SignalsWell(c, p)
  <2>1. ASSUME NEW k \in 1..Size(c, p), Stm(c, p, k).do \in Flag
        PROVE  \/ Signal(c, p, k, Stm(c, p, k).pe, Stm(c, p, k).slot)
               \/ Reset(c, p, k, Stm(c, p, k).slot)
    <3>1. PICK i \in Rounds(c) : k = 3 * i \/ k = 3 * r + 2 * i + 1
      BY <1>6, <2>1
    <3>2. CASE k = 3 * i
      <4>1. Signal(c, p, k, PEof(c, F[m][i]), i - 1)
        BY <1>6, <3>2
      <4> QED
        BY <4>1 DEF Signal
    <3>3. CASE k = 3 * r + 2 * i + 1
      <4>1. Reset(c, p, k, i - 1)
        BY <1>6, <3>3
      <4> QED
        BY <4>1 DEF Reset
    <3> QED
      BY <3>1, <3>2, <3>3
  <2>2. ASSUME NEW q \in ActiveSet(c), NEW s, NEW k \in 1..Size(c, p), NEW l \in 1..Size(c, p),
               Signal(c, p, k, q, s), Signal(c, p, l, q, s)
        PROVE  k = l
    <3>1. PICK i \in Rounds(c) : k = 3 * i /\ q = PEof(c, F[m][i])
      BY <1>6, <2>2
    <3>2. PICK j \in Rounds(c) : l = 3 * j /\ q = PEof(c, F[m][j])
      BY <1>6, <2>2
    <3>3. i = j
      BY <1>1, <1>2, <3>1, <3>2
    <3> QED
      BY <3>1, <3>2, <3>3
  <2>3. ASSUME NEW q \in ActiveSet(c), NEW s, NEW k \in 1..Size(c, p), Signal(c, p, k, q, s)
        PROVE  Senders(c, q, s) = {p}
    <3>1. p \in Senders(c, q, s)
      BY <2>3 DEF Senders
    <3> QED
      BY <3>1, SignalSenders
  <2> QED
    BY <2>1, <2>2, <2>3 DEF SignalsWell
<1>9. WaitsWell(c, p)
  <2>1. ASSUME NEW s, NEW w \in 1..Size(c, p), Waits(c, p, w, s)
        PROVE  /\ \A v \in 0..Cardinality(Senders(c, p, s)) :
                    Compare(Stm(c, p, w).cmp, v, Stm(c, p, w).value)
                      <=> v = Cardinality(Senders(c, p, s))
               /\ \A k \in 1..Size(c, p) : Reset(c, p, k, s) => w < k
               /\ \A k \in 1..Size(c, p) : \A q \in ActiveSet(c) : \A t :
                    Signal(c, p, k, q, t) => k < w
    <3>1. PICK i \in Rounds(c) : w = 3 * r + 2 * i /\ s = i - 1
      BY <1>6, <2>1
    <3>2. Stm(c, p, w).cmp = "GT" /\ Stm(c, p, w).value = 0
      <4>1. Stm(c, p, 3 * (c.n - 1) + 2 * i) = Wait(i - 1, "GT", SHCOLL_SYNC_VALUE)
        BY <1>4 DEF Signals
      <4>2. 3 * (c.n - 1) + 2 * i = w
        BY <1>3, <3>1
      <4> QED
        BY <4>1, <4>2 DEF Wait, SHCOLL_SYNC_VALUE
    <3>3. Cardinality(Senders(c, p, s)) = 1
      <4>1. \A j \in Rounds(c) : s = j - 1 => \E l \in ActiveSet(c) : Senders(c, p, s) = {l}
        BY SignalSenders
      <4>2. PICK l \in ActiveSet(c) : Senders(c, p, s) = {l}
        BY <3>1, <4>1
      <4> QED
        BY <4>2, FS_Singleton
    <3>4. \A v \in 0..Cardinality(Senders(c, p, s)) :
            Compare(Stm(c, p, w).cmp, v, Stm(c, p, w).value)
              <=> v = Cardinality(Senders(c, p, s))
      BY <3>2, <3>3 DEF Compare
    <3>5. \A k \in 1..Size(c, p) : Reset(c, p, k, s) => w < k
      <4> TAKE k \in 1..Size(c, p)
      <4> HAVE Reset(c, p, k, s)
      <4>1. PICK j \in Rounds(c) : k = 3 * r + 2 * j + 1 /\ s = j - 1
        BY <1>6
      <4>2. i = j
        BY <1>5, <3>1, <4>1
      <4> QED
        BY <1>5, <3>1, <4>1, <4>2
    <3>6. \A k \in 1..Size(c, p) : \A q \in ActiveSet(c) : \A t :
            Signal(c, p, k, q, t) => k < w
      <4>1. ASSUME NEW k \in 1..Size(c, p), NEW q \in ActiveSet(c), NEW t, Signal(c, p, k, q, t)
            PROVE  k < w
        <5>1. PICK j \in Rounds(c) : k = 3 * j
          BY <1>6, <4>1
        <5> QED
          BY <1>5, <3>1, <5>1
      <4> QED
        BY <4>1
    <3> QED
      BY <3>4, <3>5, <3>6
  <2>2. ASSUME NEW s, NEW k \in 1..Size(c, p), Reset(c, p, k, s)
        PROVE  \E w \in 1..Size(c, p) : w < k /\ Waits(c, p, w, s)
    <3>1. PICK i \in Rounds(c) : k = 3 * r + 2 * i + 1 /\ s = i - 1
      BY <1>6, <2>2
    <3>2. 3 * r + 2 * i \in 1..Size(c, p) /\ 3 * r + 2 * i < k
      <4>1. i \in Nat /\ 1 <= i /\ i <= r
        BY <1>5
      <4> QED
        BY <1>5, <3>1, <4>1
    <3> QED
      BY <1>6, <3>1, <3>2
  <2>3. ASSUME NEW s, Senders(c, p, s) # {}
        PROVE  \E k \in 1..Size(c, p) : Reset(c, p, k, s)
    <3>1. PICK i \in Rounds(c) : s = i - 1
      BY <2>3, SignalSenders
    <3> QED
      BY <1>6, <1>7, <3>1
  <2> QED
    BY <2>1, <2>2, <2>3 DEF WaitsWell
<1>10. PutsFenced(c, p)
  <2> SUFFICES ASSUME NEW k \in 1..Size(c, p), Stm(c, p, k).do = "put"
               PROVE  \E j \in 1..Size(c, p) : \E s :
                        Signal(c, p, j, Stm(c, p, k).pe, s) /\ k < j /\ Fenced(c, p, k, j)
    BY DEF PutsFenced
  <2>1. PICK i \in Rounds(c) : PutOf(c, F, p, k, i)
    BY <1>6
  <2>2. k = 3 * i - 2 /\ Stm(c, p, k).pe = PEof(c, F[m][i])
    BY <2>1 DEF PutOf, PutBlock, PutNbi, m
  <2> DEFINE j == 3 * i
  <2>3. j \in 1..Size(c, p) /\ k < j /\ 3 * i - 1 \in (k + 1)..(j - 1)
    <3>1. i \in Nat /\ 1 <= i /\ i <= r
      BY <1>5
    <3> QED
      BY <1>5, <2>2, <3>1
  <2>4. Stm(c, p, 3 * i - 1).do = "fence"
    BY <1>4 DEF Signals, Fence
  <2>5. Fenced(c, p, k, j)
    BY <2>3, <2>4 DEF Fenced
  <2>6. Signal(c, p, j, Stm(c, p, k).pe, i - 1)
    BY <1>6, <2>2, <2>3
  <2> HIDE DEF j
  <2> QED
    BY <2>3, <2>5, <2>6
<1> QED
  BY <1>6, <1>8, <1>9, <1>10

LEMMA SignalsMove ==
  ASSUME NEW c, Team(c), NEW F, Exchanging(c, F), NEW p \in ActiveSet(c),
         Signals(c, F, p), IsList(Program(c, p))
  PROVE  MovesBlocks(c, F, p)
<1>1. PICK r \in Nat : r = c.n - 1
  BY c.n - 1 \in Nat DEF Team
<1>2. Rounds(c) = 1..r /\ Size(c, p) = 5 * r + 1
  BY <1>1 DEF Rounds, Signals
<1>3. ASSUME NEW k \in 1..Size(c, p)
      PROVE  \/ \E i \in Rounds(c) : Stm(c, p, k) = PutBlock(c, p, F[Me(c, p)][i])
             \/ Stm(c, p, k) = OwnBlock(c, p)
             \/ Stm(c, p, k).do \in {"p", "add"} /\ Stm(c, p, k).pe \in ActiveSet(c)
             \/ Stm(c, p, k).do \in {"fence", "wait", "barrier"}
  <2>1. CASE \E i \in Rounds(c) : PutOf(c, F, p, k, i)
    BY <2>1 DEF PutOf
  <2>2. CASE \E i \in Rounds(c) : k = 3 * i - 1 /\ Stm(c, p, k) = Fence
    BY <2>2 DEF Fence
  <2>3. CASE \E i \in Rounds(c) : FlagOf(c, F, p, k, i)
    <3>1. PICK i \in Rounds(c) : FlagOf(c, F, p, k, i)
      BY <2>3
    <3>2. Me(c, p) \in Index(c)
      BY MembersIndexed
    <3>3. PEof(c, F[Me(c, p)][i]) \in ActiveSet(c)
      BY <3>2, MembersIndexed DEF Exchanging
    <3>4. Stm(c, p, k).do = "p" /\ Stm(c, p, k).pe = PEof(c, F[Me(c, p)][i])
      BY <3>1 DEF FlagOf, P
    <3> QED
      BY <3>3, <3>4
  <2>4. CASE \E i \in Rounds(c) : WaitOf(c, p, k, i)
    BY <2>4 DEF WaitOf, Wait
  <2>5. CASE \E i \in Rounds(c) : ResetOf(c, p, k, i)
    BY <2>5 DEF ResetOf, P
  <2> QED
    BY <2>1, <2>2, <2>3, <2>4, <2>5, SignalKinds
<1>4. ASSUME NEW i \in Rounds(c)
      PROVE  \E k \in 1..Size(c, p) : Stm(c, p, k) = PutBlock(c, p, F[Me(c, p)][i])
  <2>1. 3 * i - 2 \in 1..Size(c, p)
    BY <1>2
  <2> QED
    BY <2>1 DEF Signals
<1>5. \E k \in 1..Size(c, p) : Stm(c, p, k) = OwnBlock(c, p)
  <2>1. 3 * (c.n - 1) + 1 \in 1..Size(c, p)
    BY <1>1, <1>2
  <2> QED
    BY <2>1 DEF Signals
<1> QED
  BY <1>3, <1>4, <1>5 DEF MovesBlocks

------------------------------------------------------------------------------
\* Programs that meet: a block to each peer, a barrier after some of the rounds, the same
\* for everybody, and one at the end.

Synced(i) == i % alltoall_rounds_sync = 0
RoundSize(i) == IF Synced(i) THEN 2 ELSE 1

\* where the rounds begin
Turns(c, start) ==
  /\ start \in [0..(c.n - 1) -> Nat] /\ start[0] = 0
  /\ \A i \in Rounds(c) : start[i] = start[i - 1] + RoundSize(i)
MeetsFrom(c, F, p, start) ==
  /\ Turns(c, start)
  /\ Size(c, p) = start[c.n - 1] + 2
  /\ Stm(c, p, 1) = OwnBlock(c, p) /\ Stm(c, p, Size(c, p)) = Barrier
  /\ \A i \in Rounds(c) :
       /\ start[i - 1] + 2 \in 1..Size(c, p)
       /\ Stm(c, p, start[i - 1] + 2) = PutBlock(c, p, F[Me(c, p)][i])
       /\ Synced(i) => Stm(c, p, start[i - 1] + 3) = Barrier
  /\ \A k \in 1..Size(c, p) :
       \/ k = 1 \/ k = Size(c, p)
       \/ \E i \in Rounds(c) : k = start[i - 1] + 2 \/ (Synced(i) /\ k = start[i - 1] + 3)

LEMMA SameTurns ==
  ASSUME NEW c, Team(c), NEW start, NEW begin, Turns(c, start), Turns(c, begin)
  PROVE  start = begin
<1>1. PICK r \in Nat : r = c.n - 1
  BY c.n - 1 \in Nat DEF Team
<1> DEFINE T == {i \in Nat : i \in 0..r => start[i] = begin[i]}
<1>2. 0 \in T
  BY DEF Turns
<1>3. ASSUME NEW i \in Nat, i \in T PROVE i + 1 \in T
  <2> SUFFICES ASSUME i + 1 \in 0..r PROVE start[i + 1] = begin[i + 1]
    OBVIOUS
  <2>1. i + 1 \in Rounds(c) /\ (i + 1) - 1 = i /\ i \in 0..r
    BY <1>1 DEF Rounds
  <2>2. start[i] = begin[i]
    BY <1>3, <2>1
  <2>3. start[i + 1] = start[i] + RoundSize(i + 1) /\ begin[i + 1] = begin[i] + RoundSize(i + 1)
    BY <2>1 DEF Turns
  <2> QED
    BY <2>2, <2>3
<1> HIDE DEF T
<1>4. \A i \in Nat : i \in T
  BY <1>2, <1>3, Induction
<1>5. \A i \in 0..r : start[i] = begin[i]
  BY <1>4 DEF T
<1>6. start \in [0..r -> Nat] /\ begin \in [0..r -> Nat]
  BY <1>1 DEF Turns
<1> QED
  BY <1>5, <1>6

LEMMA RoundList ==
  ASSUME NEW put, NEW i
  PROVE  LET list == <<put>> \o Only(Synced(i), <<Barrier>>)
         IN  IsList(list) /\ Len(list) = RoundSize(i) /\ list[1] = put
             /\ (Synced(i) => list[2] = Barrier)
<1> DEFINE one == <<put>>
           more == Only(Synced(i), <<Barrier>>)
           list == one \o more
<1>1. IsList(one) /\ Len(one) = 1 /\ one[1] = put
  BY SingleList
<1>2. /\ IsList(more) /\ Len(more) = IF Synced(i) THEN 1 ELSE 0
      /\ Synced(i) => more[1] = Barrier
  <2>1. CASE Synced(i)
    <3>1. more = <<Barrier>>
      BY <2>1 DEF Only
    <3> HIDE DEF more
    <3> QED
      BY <2>1, <3>1, SingleList
  <2>2. CASE ~Synced(i)
    <3>1. more = <<>>
      BY <2>2 DEF Only
    <3>2. <<>> \in Seq({}) /\ Len(<<>>) = 0
      OBVIOUS
    <3>3. IsList(<<>>)
      BY <3>2, SeqIsList
    <3> HIDE DEF more
    <3> QED
      BY <2>2, <3>1, <3>2, <3>3
  <2> QED
    BY <2>1, <2>2
<1> HIDE DEF one, more
<1>3. Joined(list, one, more)
  BY <1>1, <1>2, Joining
<1> HIDE DEF list
<1>4. IsList(list) /\ Len(list) = RoundSize(i) /\ list[1] = put
  BY <1>1, <1>2, <1>3 DEF Joined, RoundSize
<1>5. Synced(i) => list[2] = Barrier
  <2> SUFFICES ASSUME Synced(i) PROVE list[2] = Barrier
    OBVIOUS
  <2>1. 1 \in 1..Len(more) /\ Len(one) + 1 = 2
    BY <1>1, <1>2
  <2> QED
    BY <1>2, <1>3, <2>1 DEF Joined
<1> QED
  BY <1>4, <1>5 DEF list, one, more

LEMMA BarrierProgram ==
  ASSUME NEW c, Team(c), NEW F, NEW p \in ActiveSet(c), NEW peer,
         peer = F[Me(c, p)], Program(c, p) = ALLTOALL_HELPER_BARRIER(c, p, peer)
  PROVE  IsList(Program(c, p)) /\ \E start : MeetsFrom(c, F, p, start)
<1> DEFINE list(i) == <<PutBlock(c, p, peer[i])>> \o Only(Synced(i), <<Barrier>>)
           lists == [i \in 1..(c.n - 1) |-> list(i)]
           own == <<OwnBlock(c, p)>>
           end == <<Barrier>>
<1>0. PICK r \in Nat : r = c.n - 1
  BY c.n - 1 \in Nat DEF Team
<1>1. Program(c, p) = (own \o FlattenSeq(lists)) \o end
  <2> DEFINE count == IF c.n - 1 < 1 THEN 0 ELSE c.n - 1 - 1 + 1
  <2>1. Program(c, p) = (own \o FlattenSeq([k \in 1..count |-> list(1 + k - 1)])) \o end
    BY DEF ALLTOALL_HELPER_BARRIER, Loop, Synced
  <2>2. count = c.n - 1
    BY <1>0
  <2>3. [k \in 1..count |-> list(1 + k - 1)] = lists
    <3>1. \A k \in 1..(c.n - 1) : 1 + k - 1 = k
      OBVIOUS
    <3>2. \A k \in 1..(c.n - 1) : list(1 + k - 1) = lists[k]
      BY <3>1
    <3> HIDE DEF list
    <3> QED
      BY <2>2, <3>2
  <2> QED
    BY <2>1, <2>3
<1>2. /\ lists = [i \in 1..r |-> lists[i]]
      /\ \A i \in 1..r : /\ IsList(lists[i]) /\ Len(lists[i]) = RoundSize(i)
                         /\ lists[i][1] = PutBlock(c, p, peer[i])
                         /\ Synced(i) => lists[i][2] = Barrier
  <2>1. lists = [i \in 1..r |-> lists[i]]
    BY <1>0
  <2>2. \A i \in 1..r : lists[i] = list(i)
    BY <1>0
  <2>3. \A i \in 1..r : /\ IsList(list(i)) /\ Len(list(i)) = RoundSize(i)
                        /\ list(i)[1] = PutBlock(c, p, peer[i])
                        /\ Synced(i) => list(i)[2] = Barrier
    BY RoundList
  <2> HIDE DEF lists, list
  <2> QED
    BY <2>1, <2>2, <2>3
<1>3. /\ IsList(own) /\ Len(own) = 1 /\ own[1] = OwnBlock(c, p)
      /\ IsList(end) /\ Len(end) = 1 /\ end[1] = Barrier
  BY SingleList
<1> DEFINE s == FlattenSeq(lists)
           u == own \o s
           w == u \o end
<1>4. Program(c, p) = w
  BY <1>1
<1> HIDE DEF lists, own, end
<1>5. PICK start : Laid(s, lists, r, start)
  BY <1>2, LoopLaid
<1> HIDE DEF s
<1>6. /\ IsList(s) /\ Len(s) = start[r] /\ Len(s) \in Nat /\ start \in [0..r -> Nat]
      /\ start[0] = 0
      /\ \A i \in 1..r : start[i] = start[i - 1] + RoundSize(i)
  BY <1>2, <1>5 DEF Laid, IsList
<1>7. Joined(u, own, s)
  BY <1>3, <1>6, Joining
<1>8. IsList(u) /\ Len(u) = 1 + Len(s)
  BY <1>3, <1>7 DEF Joined
<1> HIDE DEF u
<1>9. Joined(w, u, end)
  BY <1>3, <1>8, Joining
<1> HIDE DEF w
<1>10. Len(w) = start[r] + 2 /\ IsList(w)
  BY <1>3, <1>6, <1>8, <1>9 DEF Joined
<1>11. w[1] = OwnBlock(c, p) /\ w[Len(w)] = Barrier
  <2>1. 1 \in 1..Len(own) /\ 1 \in 1..Len(u) /\ 1 \in 1..Len(end) /\ Len(u) + 1 = Len(w)
    BY <1>3, <1>6, <1>8, <1>10
  <2> QED
    BY <1>3, <1>7, <1>9, <2>1 DEF Joined
<1>12. ASSUME NEW j \in 1..Len(s)
       PROVE  w[1 + j] = s[j]
  <2>1. 1 + j \in 1..Len(u) /\ Len(own) + j = 1 + j
    BY <1>3, <1>6, <1>8
  <2> QED
    BY <1>7, <1>9, <2>1 DEF Joined
<1>13. ASSUME NEW i \in 1..r
       PROVE  /\ start[i - 1] + 2 \in 1..Len(w)
              /\ w[start[i - 1] + 2] = PutBlock(c, p, peer[i])
              /\ Synced(i) => w[start[i - 1] + 3] = Barrier
  <2>1. start[i - 1] \in Nat
    BY <1>6, i - 1 \in 0..r
  <2>2. ASSUME NEW j \in Nat, j \in 1..Len(lists[i])
        PROVE  start[i - 1] + j \in 1..Len(s) /\ w[1 + (start[i - 1] + j)] = lists[i][j]
    <3>1. start[i - 1] + j \in 1..Len(s) /\ s[start[i - 1] + j] = lists[i][j]
      BY <1>5, <2>2 DEF Laid
    <3> QED
      BY <1>12, <3>1
  <2>3. 1 \in 1..Len(lists[i]) /\ (Synced(i) => 2 \in 1..Len(lists[i]))
    BY <1>2 DEF RoundSize
  <2>4. 1 + (start[i - 1] + 1) = start[i - 1] + 2 /\ 1 + (start[i - 1] + 2) = start[i - 1] + 3
    BY <2>1
  <2>5. start[i - 1] + 2 \in 1..Len(w)
    <3>1. start[i - 1] + 1 \in 1..Len(s)
      BY <2>2, <2>3
    <3> QED
      BY <1>6, <1>10, <2>1, <3>1
  <2> QED
    BY <1>2, <2>2, <2>3, <2>4, <2>5
<1>14. ASSUME NEW k \in 1..Len(w)
       PROVE  \/ k = 1 \/ k = Len(w)
              \/ \E i \in 1..r : k = start[i - 1] + 2 \/ (Synced(i) /\ k = start[i - 1] + 3)
  <2> SUFFICES ASSUME k # 1, k # Len(w)
               PROVE  \E i \in 1..r : k = start[i - 1] + 2 \/ (Synced(i) /\ k = start[i - 1] + 3)
    OBVIOUS
  <2>1. k - 1 \in 1..Len(s)
    BY <1>6, <1>10
  <2>2. PICK i \in 1..r : \E j \in 1..Len(lists[i]) : k - 1 = start[i - 1] + j
    BY <1>5, <2>1 DEF Laid
  <2>3. PICK j \in 1..Len(lists[i]) : k - 1 = start[i - 1] + j
    BY <2>2
  <2>4. start[i - 1] \in Nat
    BY <1>6, i - 1 \in 0..r
  <2>5. j = 1 \/ (j = 2 /\ Synced(i))
    <3>1. Len(lists[i]) = RoundSize(i) /\ j \in Nat /\ 1 <= j /\ j <= Len(lists[i])
      BY <1>2 DEF IsList
    <3> QED
      BY <3>1 DEF RoundSize
  <2>6. k = start[i - 1] + 2 \/ (Synced(i) /\ k = start[i - 1] + 3)
    BY <1>10, <2>3, <2>4, <2>5, SMTT(30)
  <2> QED
    BY <2>6
<1>15. Rounds(c) = 1..r
  BY <1>0 DEF Rounds
<1>16. Size(c, p) = Len(w) /\ \A k : Stm(c, p, k) = w[k]
  BY <1>4 DEF Size, Stm
<1>17. Turns(c, start)
  BY <1>0, <1>6, <1>15 DEF Turns
<1>18. MeetsFrom(c, F, p, start)
  <2>1. Size(c, p) = start[c.n - 1] + 2
    BY <1>0, <1>10, <1>16
  <2>2. Stm(c, p, 1) = OwnBlock(c, p) /\ Stm(c, p, Size(c, p)) = Barrier
    BY <1>11, <1>16
  <2>3. ASSUME NEW i \in Rounds(c)
        PROVE  /\ start[i - 1] + 2 \in 1..Size(c, p)
               /\ Stm(c, p, start[i - 1] + 2) = PutBlock(c, p, F[Me(c, p)][i])
               /\ Synced(i) => Stm(c, p, start[i - 1] + 3) = Barrier
    BY <1>13, <1>15, <1>16
  <2>4. \A k \in 1..Size(c, p) :
           \/ k = 1 \/ k = Size(c, p)
           \/ \E i \in Rounds(c) : k = start[i - 1] + 2 \/ (Synced(i) /\ k = start[i - 1] + 3)
    BY <1>14, <1>15, <1>16
  <2> QED
    BY <1>17, <2>1, <2>2, <2>3, <2>4 DEF MeetsFrom
<1> QED
  BY <1>4, <1>10, <1>18, SMTT(30)

Meets(c, F, p) == IsList(Program(c, p)) /\ \E start : MeetsFrom(c, F, p, start)

\* which of its statements are which
LEMMA MeetKinds ==
  ASSUME NEW c, NEW F, NEW p, NEW start, MeetsFrom(c, F, p, start), NEW k \in 1..Size(c, p)
  PROVE  \/ Stm(c, p, k) = OwnBlock(c, p)
         \/ Stm(c, p, k) = Barrier
         \/ \E i \in Rounds(c) : Stm(c, p, k) = PutBlock(c, p, F[Me(c, p)][i])
BY DEF MeetsFrom

\* where its barriers are
LEMMA MeetBarriers ==
  ASSUME NEW c, Team(c), NEW F, NEW p, NEW start, MeetsFrom(c, F, p, start),
         NEW k \in 1..Size(c, p)
  PROVE  IsBarrier(c, p, k) <=>
           k = start[c.n - 1] + 2 \/ \E i \in Rounds(c) : Synced(i) /\ k = start[i - 1] + 3
<1>1. PICK r \in Nat : r = c.n - 1
  BY c.n - 1 \in Nat DEF Team
<1>2. /\ Rounds(c) = 1..r /\ Size(c, p) = start[r] + 2
      /\ start \in [0..r -> Nat] /\ \A i \in 1..r : start[i] = start[i - 1] + RoundSize(i)
  BY <1>1 DEF Rounds, MeetsFrom, Turns
<1>3. Barrier.do = "barrier" /\ OwnBlock(c, p).do = "copy"
      /\ \A x : PutBlock(c, p, x).do = "put"
  BY DEF Barrier, OwnBlock, Copy, PutBlock, PutNbi
<1>4. ASSUME IsBarrier(c, p, k)
      PROVE  k = start[c.n - 1] + 2 \/ \E i \in Rounds(c) : Synced(i) /\ k = start[i - 1] + 3
  <2>1. k # 1
    BY <1>3, <1>4 DEF IsBarrier, MeetsFrom
  <2>2. \A i \in Rounds(c) : k # start[i - 1] + 2
    BY <1>3, <1>4 DEF IsBarrier, MeetsFrom
  <2>3. k = Size(c, p) \/ \E i \in Rounds(c) : Synced(i) /\ k = start[i - 1] + 3
    BY <2>1, <2>2 DEF MeetsFrom
  <2> QED
    BY <1>1, <1>2, <2>3
<1>5. ASSUME k = start[c.n - 1] + 2 PROVE IsBarrier(c, p, k)
  <2>1. k = Size(c, p)
    BY <1>1, <1>2, <1>5
  <2> QED
    BY <1>3, <2>1 DEF IsBarrier, MeetsFrom
<1>6. ASSUME NEW i \in Rounds(c), Synced(i), k = start[i - 1] + 3 PROVE IsBarrier(c, p, k)
  BY <1>3, <1>6 DEF IsBarrier, MeetsFrom
<1> QED
  BY <1>4, <1>5, <1>6

LEMMA MeetsBarriered ==
  ASSUME NEW c, Team(c), NEW F, \A p \in ActiveSet(c) : Meets(c, F, p)
  PROVE  Barriered(c)
<1> DEFINE Fits(p) ==
      /\ \A k \in 1..Size(c, p) : Stm(c, p, k).do \in {"put", "copy", "barrier"}
      /\ Size(c, p) > 0 /\ IsBarrier(c, p, Size(c, p))
      /\ \A q \in ActiveSet(c) :
           /\ Size(c, q) = Size(c, p)
           /\ \A k \in 1..Size(c, p) : IsBarrier(c, p, k) => IsBarrier(c, q, k)
<1> SUFFICES ASSUME NEW p \in ActiveSet(c)
             PROVE  Fits(p)
  BY DEF Barriered
<1>1. PICK start : MeetsFrom(c, F, p, start)
  BY DEF Meets
<1>2. c.n - 1 \in 0..(c.n - 1)
  BY DEF Team
<1>3. Size(c, p) = start[c.n - 1] + 2 /\ start[c.n - 1] \in Nat
  BY <1>1, <1>2 DEF MeetsFrom, Turns
<1>4. Barrier.do = "barrier" /\ OwnBlock(c, p).do = "copy"
      /\ \A x : PutBlock(c, p, x).do = "put"
  BY DEF Barrier, OwnBlock, Copy, PutBlock, PutNbi
<1>5. \A k \in 1..Size(c, p) : Stm(c, p, k).do \in {"put", "copy", "barrier"}
  BY <1>1, <1>4, MeetKinds
<1>6. Size(c, p) > 0 /\ IsBarrier(c, p, Size(c, p))
  BY <1>1, <1>3, <1>4 DEF MeetsFrom, IsBarrier
<1>7. ASSUME NEW q \in ActiveSet(c)
      PROVE  /\ Size(c, q) = Size(c, p)
             /\ \A k \in 1..Size(c, p) : IsBarrier(c, p, k) => IsBarrier(c, q, k)
  <2>1. PICK begin : MeetsFrom(c, F, q, begin)
    BY DEF Meets
  <2>2. begin = start
    BY <1>1, <2>1, SameTurns DEF MeetsFrom
  <2>3. MeetsFrom(c, F, q, start)
    BY <2>1, <2>2
  <2>4. Size(c, q) = Size(c, p)
    BY <1>3, <2>3 DEF MeetsFrom
  <2>5. \A k \in 1..Size(c, p) : IsBarrier(c, p, k) <=>
           k = start[c.n - 1] + 2 \/ \E i \in Rounds(c) : Synced(i) /\ k = start[i - 1] + 3
    BY <1>1, MeetBarriers
  <2>6. \A k \in 1..Size(c, q) : IsBarrier(c, q, k) <=>
           k = start[c.n - 1] + 2 \/ \E i \in Rounds(c) : Synced(i) /\ k = start[i - 1] + 3
    BY <2>3, MeetBarriers
  <2> QED
    BY <2>4, <2>5, <2>6
<1> QED
  BY <1>5, <1>6, <1>7

LEMMA MeetsMove ==
  ASSUME NEW c, Team(c), NEW F, NEW p \in ActiveSet(c), Meets(c, F, p)
  PROVE  MovesBlocks(c, F, p)
<1>1. PICK start : MeetsFrom(c, F, p, start)
  BY DEF Meets
<1>2. c.n - 1 \in 0..(c.n - 1)
  BY DEF Team
<1>3. Size(c, p) = start[c.n - 1] + 2 /\ start[c.n - 1] \in Nat
  BY <1>1, <1>2 DEF MeetsFrom, Turns
<1>4. 1 \in 1..Size(c, p)
  BY <1>3
<1>5. \A k \in 1..Size(c, p) :
         \/ \E i \in Rounds(c) : Stm(c, p, k) = PutBlock(c, p, F[Me(c, p)][i])
         \/ Stm(c, p, k) = OwnBlock(c, p)
         \/ Stm(c, p, k).do \in {"fence", "wait", "barrier"}
  BY <1>1, MeetKinds DEF Barrier
<1>6. \A i \in Rounds(c) : \E k \in 1..Size(c, p) : Stm(c, p, k) = PutBlock(c, p, F[Me(c, p)][i])
  BY <1>1 DEF MeetsFrom
<1>7. \E k \in 1..Size(c, p) : Stm(c, p, k) = OwnBlock(c, p)
  BY <1>1, <1>4 DEF MeetsFrom
<1> QED
  BY <1>5, <1>6, <1>7 DEF MovesBlocks, Meets

------------------------------------------------------------------------------
\* The peers of the pairwise exchange by xor, asserted to be among a power of 2 of members.

XorTable(f) ==
  f = [k \in 0..31 |-> [x \in Nat |-> [y \in Nat |->
         IF k = 0 THEN 0 ELSE ((x + y) % 2) + 2 * f[k - 1][x \div 2][y \div 2]]]]
Xors == CHOOSE f : XorTable(f)

LEMMA XorIsTabled ==
  ASSUME NEW a, NEW b
  PROVE  a ^^ b = Xors[31][a][b]
BY Zenon DEF ^^, XorTable, Xors

LEMMA XorsTable == XorTable(Xors)
<1> DEFINE Zero == [x \in Nat |-> [y \in Nat |-> 0]]
           Longer(r) == [x \in Nat |-> [y \in Nat |-> ((x + y) % 2) + 2 * r[x \div 2][y \div 2]]]
           Row(f, k) == IF k = 0 THEN Zero ELSE Longer(f[k - 1])
           Rows(f, m) == \A k \in 0..m : f[k] = Row(f, k)
           T == {m \in Nat : \E f : Rows(f, m)}
<1> HIDE DEF Zero, Longer
<1>1. 0 \in T
  <2> DEFINE f == [k \in 0..0 |-> Zero]
  <2>1. Rows(f, 0)
    OBVIOUS
  <2> QED
    BY <2>1
<1>2. ASSUME NEW m \in Nat, m \in T PROVE m + 1 \in T
  <2>1. PICK f : Rows(f, m)
    BY <1>2
  <2> DEFINE g == [k \in 0..(m + 1) |-> IF k = m + 1 THEN Longer(f[m]) ELSE f[k]]
  <2>2. g[m + 1] = Longer(f[m]) /\ \A k \in 0..m : g[k] = f[k]
    OBVIOUS
  <2> HIDE DEF g
  <2>3. ASSUME NEW k \in 0..(m + 1)
        PROVE  g[k] = Row(g, k)
    <3>1. CASE k = m + 1
      <4>1. k # 0 /\ k - 1 = m /\ m \in 0..m
        BY <3>1
      <4> QED
        BY <2>2, <3>1, <4>1
    <3>2. CASE k # m + 1
      <4>1. k \in 0..m /\ (k = 0 \/ k - 1 \in 0..m)
        BY <3>2
      <4>2. g[k] = Row(f, k)
        BY <2>1, <2>2, <4>1
      <4>3. k = 0 \/ g[k - 1] = f[k - 1]
        BY <2>2, <4>1
      <4> QED
        BY <4>2, <4>3
    <3> QED
      BY <3>1, <3>2
  <2>4. Rows(g, m + 1)
    BY <2>3
  <2> QED
    BY <2>4
<1>3. 31 \in T
  <2> HIDE DEF T
  <2>1. \A m \in Nat : m \in T
    BY <1>1, <1>2, Induction
  <2> QED
    BY <2>1
<1>4. PICK g : Rows(g, 31)
  BY <1>3
<1> DEFINE f == [k \in 0..31 |-> g[k]]
<1>5. f = [k \in 0..31 |-> f[k]] /\ \A k \in 0..31 : f[k] = g[k]
  OBVIOUS
<1> HIDE DEF f
<1>6. ASSUME NEW k \in 0..31
      PROVE  f[k] = [x \in Nat |-> [y \in Nat |->
                       IF k = 0 THEN 0 ELSE ((x + y) % 2) + 2 * f[k - 1][x \div 2][y \div 2]]]
  <2>1. CASE k = 0
    <3>1. f[k] = Zero
      BY <1>4, <1>5, <2>1
    <3> QED
      BY <2>1, <3>1 DEF Zero
  <2>2. CASE k # 0
    <3>1. k - 1 \in 0..31
      BY <2>2
    <3>2. f[k] = Longer(f[k - 1])
      BY <1>4, <1>5, <2>2, <3>1
    <3> QED
      BY <2>2, <3>2 DEF Longer
  <2> QED
    BY <2>1, <2>2
<1>7. XorTable(f)
  BY <1>5, <1>6, ZenonT(30) DEF XorTable
<1> QED
  BY <1>7 DEF Xors

LEMMA XorStep ==
  ASSUME NEW x \in Nat, NEW y \in Nat
  PROVE  /\ Xors[0][x][y] = 0
         /\ \A k \in 0..30 :
              Xors[k + 1][x][y] = ((x + y) % 2) + 2 * Xors[k][x \div 2][y \div 2]
<1>1. XorTable(Xors)
  BY XorsTable
<1>2. \A k \in 0..31 : Xors[k][x][y] =
         IF k = 0 THEN 0 ELSE ((x + y) % 2) + 2 * Xors[k - 1][x \div 2][y \div 2]
  <2>1. ASSUME NEW f, NEW g,
               f = [k \in 0..31 |-> [u \in Nat |-> [v \in Nat |->
                      IF k = 0 THEN 0 ELSE ((u + v) % 2) + 2 * g[k - 1][u \div 2][v \div 2]]]],
               NEW k \in 0..31
        PROVE  f[k][x][y] = IF k = 0 THEN 0 ELSE ((x + y) % 2) + 2 * g[k - 1][x \div 2][y \div 2]
    BY <2>1
  <2> QED
    BY <1>1, <2>1, ZenonT(30) DEF XorTable
<1>3. Xors[0][x][y] = 0
  BY <1>2
<1>4. ASSUME NEW k \in 0..30
      PROVE  Xors[k + 1][x][y] = ((x + y) % 2) + 2 * Xors[k][x \div 2][y \div 2]
  <2>1. k + 1 \in 0..31 /\ k + 1 # 0 /\ (k + 1) - 1 = k
    OBVIOUS
  <2> QED
    BY <1>2, <2>1
<1> QED
  BY <1>3, <1>4

LEMMA XorPlain ==
  ASSUME NEW k \in 0..31, NEW x \in Nat, NEW y \in Nat
  PROVE  Xors[k][x][y] \in Nat /\ Xors[k][x][y] = Xors[k][y][x] /\ Xors[k][x][x] = 0
<1> DEFINE X(i, a, b) == Xors[i][a][b]
           T == {i \in Nat : i \in 0..31 => \A a, b \in Nat :
                   X(i, a, b) \in Nat /\ X(i, a, b) = X(i, b, a) /\ X(i, a, a) = 0}
<1>1. \A a, b \in Nat : X(0, a, b) = 0
  BY XorStep
<1>2. \A i \in 0..30 : \A a, b \in Nat :
        X(i + 1, a, b) = ((a + b) % 2) + 2 * X(i, a \div 2, b \div 2)
  BY XorStep
<1> HIDE DEF X
<1>3. 0 \in T
  BY <1>1
<1>4. ASSUME NEW i \in Nat, i \in T PROVE i + 1 \in T
  <2> SUFFICES ASSUME i + 1 \in 0..31, NEW a \in Nat, NEW b \in Nat
               PROVE  /\ X(i + 1, a, b) \in Nat /\ X(i + 1, a, b) = X(i + 1, b, a)
                      /\ X(i + 1, a, a) = 0
    OBVIOUS
  <2>1. i \in 0..30 /\ i \in 0..31 /\ a \div 2 \in Nat /\ b \div 2 \in Nat
    OBVIOUS
  <2>2. /\ X(i, a \div 2, b \div 2) \in Nat
        /\ X(i, a \div 2, b \div 2) = X(i, b \div 2, a \div 2)
        /\ X(i, a \div 2, a \div 2) = 0
    BY <1>4, <2>1
  <2>3. /\ X(i + 1, a, b) = ((a + b) % 2) + 2 * X(i, a \div 2, b \div 2)
        /\ X(i + 1, b, a) = ((b + a) % 2) + 2 * X(i, b \div 2, a \div 2)
        /\ X(i + 1, a, a) = ((a + a) % 2) + 2 * X(i, a \div 2, a \div 2)
    BY <1>2, <2>1, ZenonT(40)
  <2>4. a + b = b + a /\ (a + b) % 2 \in Nat /\ (a + a) % 2 = 0
    OBVIOUS
  <2> QED
    BY <2>2, <2>3, <2>4
<1> HIDE DEF T
<1>5. \A i \in Nat : i \in T
  BY <1>3, <1>4, Induction
<1>6. X(k, x, y) \in Nat /\ X(k, x, y) = X(k, y, x) /\ X(k, x, x) = 0
  <2>1. k \in T /\ k \in Nat
    BY <1>5
  <2> QED
    BY <2>1 DEF T
<1> QED
  BY <1>6 DEF X

\* Where n is a power of 2, n ^ (n - 1) has all the bits of both.
BitsJoin(k, n) == Xors[k][n][n - 1] = n + n - 1
KeptAmong(k, n, x, y) ==
  Xors[k][x][y] \in 0..(n - 1) /\ Xors[k][Xors[k][x][y]][y] = x /\ Xors[k][0][y] = y

LEMMA XorAmong ==
  ASSUME NEW k \in 0..31, NEW n \in Nat \ {0}, BitsJoin(k, n),
         NEW x \in 0..(n - 1), NEW y \in 0..(n - 1)
  PROVE  KeptAmong(k, n, x, y)
<1> DEFINE X(i, a, b) == Xors[i][a][b]
           Holds(i, m) == X(i, m, m - 1) = m + m - 1 =>
             \A a, b \in 0..(m - 1) :
               X(i, a, b) \in 0..(m - 1) /\ X(i, X(i, a, b), b) = a /\ X(i, 0, b) = b
           T == {i \in Nat : i \in 0..31 => \A m \in Nat \ {0} : Holds(i, m)}
<1>1. \A a, b \in Nat : X(0, a, b) = 0
  BY XorStep
<1>2. \A i \in 0..30 : \A a, b \in Nat :
        X(i + 1, a, b) = ((a + b) % 2) + 2 * X(i, a \div 2, b \div 2)
  BY XorStep
<1>3. \A i \in 0..31 : \A a, b \in Nat : X(i, a, b) \in Nat /\ X(i, a, a) = 0
  BY XorPlain
<1> HIDE DEF X
<1>4. 0 \in T
  <2> SUFFICES ASSUME NEW m \in Nat \ {0}, X(0, m, m - 1) = m + m - 1
               PROVE  FALSE
    OBVIOUS
  <2>1. m - 1 \in Nat
    OBVIOUS
  <2>2. X(0, m, m - 1) = 0
    BY <1>1, <2>1
  <2> QED
    BY <2>2
<1>5. ASSUME NEW i \in Nat, i \in T PROVE i + 1 \in T
  <2> SUFFICES ASSUME i + 1 \in 0..31, NEW m \in Nat \ {0}, X(i + 1, m, m - 1) = m + m - 1,
                      NEW a \in 0..(m - 1), NEW b \in 0..(m - 1)
               PROVE  /\ X(i + 1, a, b) \in 0..(m - 1)
                      /\ X(i + 1, X(i + 1, a, b), b) = a /\ X(i + 1, 0, b) = b
    OBVIOUS
  <2>1. i \in 0..30 /\ i \in 0..31 /\ a \in Nat /\ b \in Nat /\ m - 1 \in Nat /\ 0 \in Nat
    OBVIOUS
  <2>2. \A l \in Nat \ {0} : Holds(i, l)
    BY <1>5, <2>1
  <2>3. PICK c \in Nat : c = X(i, a \div 2, b \div 2)
    BY <1>3, <2>1, a \div 2 \in Nat, b \div 2 \in Nat
  <2>4. X(i + 1, a, b) = ((a + b) % 2) + 2 * c
    BY <1>2, <2>1, <2>3, ZenonT(30)
  <2>5. PICK w \in Nat : w = ((a + b) % 2) + 2 * c
    BY <2>1
  <2>6. w \div 2 = c /\ (w + b) % 2 = a % 2
    BY <2>1, <2>5
  <2>7. X(i + 1, w, b) = (a % 2) + 2 * X(i, c, b \div 2)
    <3>1. X(i + 1, w, b) = ((w + b) % 2) + 2 * X(i, w \div 2, b \div 2)
      BY <1>2, <2>1, ZenonT(30)
    <3> QED
      BY <2>6, <3>1
  <2>8. X(i + 1, 0, b) = (b % 2) + 2 * X(i, 0, b \div 2)
    <3>1. X(i + 1, 0, b) = ((0 + b) % 2) + 2 * X(i, 0 \div 2, b \div 2)
      BY <1>2, <2>1, ZenonT(30)
    <3>2. 0 + b = b /\ 0 \div 2 = 0
      BY <2>1
    <3> QED
      BY <3>1, <3>2
  <2>9. PICK h \in Nat : h = m \div 2
    OBVIOUS
  <2>10. CASE m = h + h + 1
    <3>1. m \div 2 = h /\ (m - 1) \div 2 = h /\ (m + (m - 1)) % 2 = 1
      BY <2>9, <2>10
    <3>2. X(i + 1, m, m - 1) = 1 + 2 * X(i, h, h)
      <4>1. X(i + 1, m, m - 1) = ((m + (m - 1)) % 2) + 2 * X(i, m \div 2, (m - 1) \div 2)
        BY <1>2, <2>1, ZenonT(40)
      <4> QED
        BY <3>1, <4>1
    <3>3. X(i, h, h) = 0
      BY <1>3, <2>1
    <3>4. m = 1
      BY <2>10, <3>2, <3>3
    <3>5. a = 0 /\ b = 0
      BY <3>4
    <3>6. 0 \div 2 = 0 /\ 0 % 2 = 0 /\ (0 + 0) % 2 = 0
      OBVIOUS
    <3>7. X(i, 0, 0) = 0
      BY <1>3, <2>1
    <3>8. c = 0 /\ w = 0
      BY <2>3, <2>5, <3>5, <3>6, <3>7
    <3> QED
      BY <2>4, <2>5, <2>7, <2>8, <3>4, <3>5, <3>6, <3>7, <3>8
  <2>11. CASE m = h + h
    <3>1. h \in Nat \ {0} /\ m \div 2 = h /\ (m - 1) \div 2 = h - 1 /\ (m + (m - 1)) % 2 = 1
      BY <2>9, <2>11
    <3>2. X(i + 1, m, m - 1) = 1 + 2 * X(i, h, h - 1)
      <4>1. X(i + 1, m, m - 1) = ((m + (m - 1)) % 2) + 2 * X(i, m \div 2, (m - 1) \div 2)
        BY <1>2, <2>1, ZenonT(40)
      <4> QED
        BY <3>1, <4>1, SMTT(30)
    <3>3. X(i, h, h - 1) \in Nat
      BY <1>3, <2>1, <3>1, h - 1 \in Nat
    <3>4. X(i, h, h - 1) = h + h - 1
      BY <2>11, <3>2, <3>3
    <3>5. a \div 2 \in 0..(h - 1) /\ b \div 2 \in 0..(h - 1)
      BY <2>11, <3>1
    <3>6. /\ c \in 0..(h - 1) /\ X(i, c, b \div 2) = a \div 2 /\ X(i, 0, b \div 2) = b \div 2
      BY <2>2, <2>3, <3>1, <3>4, <3>5
    <3>7. w \in 0..(m - 1)
      BY <2>1, <2>5, <2>11, <3>6
    <3>8. (a % 2) + 2 * (a \div 2) = a /\ (b % 2) + 2 * (b \div 2) = b
      BY <2>1
    <3> QED
      BY <2>4, <2>5, <2>7, <2>8, <3>6, <3>7, <3>8
  <2> QED
    BY <2>9, <2>10, <2>11
<1> HIDE DEF T
<1>6. \A i \in Nat : i \in T
  BY <1>4, <1>5, Induction
<1>7. Holds(k, n)
  <2>1. k \in T /\ k \in Nat
    BY <1>6
  <2> HIDE DEF Holds
  <2> QED
    BY <2>1 DEF T
<1>8. X(k, n, n - 1) = n + n - 1
  BY DEF X, BitsJoin
<1>9. X(k, x, y) \in 0..(n - 1) /\ X(k, X(k, x, y), y) = x /\ X(k, 0, y) = y
  BY <1>7, <1>8
<1> QED
  BY <1>9 DEF X, KeptAmong

\* XOR_COND
XorCond(n) == ((n - 1) & n) = 0

LEMMA XorOfPower ==
  ASSUME NEW n \in Nat \ {0}, XorCond(n), NEW x \in 0..(n - 1), NEW y \in 0..(n - 1)
  PROVE  /\ x ^^ y \in 0..(n - 1) /\ x ^^ y = y ^^ x
         /\ (x ^^ y) ^^ y = x /\ 0 ^^ y = y /\ x ^^ x = 0
<1>1. n - 1 \in Nat /\ 31 \in 0..31 /\ x \in Nat /\ y \in Nat
  OBVIOUS
<1>2. Xors[31][n][n - 1] = n + n - 1
  <2>1. PICK v \in Nat : v = Xors[31][n - 1][n]
    BY <1>1, XorPlain
  <2>2. Xors[31][n][n - 1] = v
    BY <1>1, <2>1, XorPlain, ZenonT(30)
  <2>3. ((n - 1) + n - v) \div 2 = 0
    BY <2>1, XorIsTabled DEF XorCond, &
  <2>4. \E u \in Nat : v = 1 + 2 * u
    <3>1. Xors[30 + 1][n - 1][n]
            = (((n - 1) + n) % 2) + 2 * Xors[30][(n - 1) \div 2][n \div 2]
      BY <1>1, XorStep, 30 \in 0..30
    <3>2. Xors[30][(n - 1) \div 2][n \div 2] \in Nat
      BY <1>1, XorPlain, 30 \in 0..31, (n - 1) \div 2 \in Nat, n \div 2 \in Nat
    <3>3. ((n - 1) + n) % 2 = 1 /\ 30 + 1 = 31
      OBVIOUS
    <3> QED
      BY <2>1, <3>1, <3>2, <3>3
  <2>5. v = n + n - 1
    BY <2>3, <2>4, SMTT(30)
  <2> QED
    BY <2>2, <2>5
<1>3. KeptAmong(31, n, x, y)
  <2>1. BitsJoin(31, n)
    BY <1>2 DEF BitsJoin
  <2> QED
    BY <1>1, <2>1, XorAmong
<1>4. Xors[31][x][y] = Xors[31][y][x] /\ Xors[31][x][x] = 0
  BY <1>1, XorPlain, ZenonT(30)
<1> QED
  BY <1>3, <1>4, XorIsTabled DEF KeptAmong

Xor(c) == [m \in Index(c) |-> [i \in Rounds(c) |-> XOR_PEER(i, m, c.n)]]

LEMMA XorExchanging ==
  ASSUME NEW c, Team(c), XorCond(c.n)
  PROVE  Exchanging(c, Xor(c))
<1> DEFINE F == Xor(c)
           n == c.n
<1>1. n \in Nat \ {0} /\ Index(c) = 0..(n - 1) /\ Rounds(c) = 1..(n - 1)
  BY DEF Team, Index, Rounds
<1>2. /\ \A m \in Index(c) : \A i \in Rounds(c) : F[m][i] = i ^^ m
      /\ F = [m \in Index(c) |-> [i \in Rounds(c) |-> F[m][i]]]
  BY DEF Xor, XOR_PEER
<1>3. XorCond(n)
  OBVIOUS
<1> HIDE DEF F, n
<1>4. ASSUME NEW x \in Index(c), NEW y \in Index(c)
      PROVE  /\ x ^^ y \in Index(c) /\ x ^^ y = y ^^ x
             /\ (x ^^ y) ^^ y = x /\ 0 ^^ y = y /\ x ^^ x = 0
  BY <1>1, <1>3, XorOfPower
<1>5. \A i : i \in Rounds(c) <=> i \in Index(c) /\ i # 0
  BY <1>1
<1>6. ASSUME NEW m \in Index(c), NEW i \in Rounds(c)
      PROVE  F[m][i] \in Index(c) /\ F[m][i] # m
  <2>1. i \in Index(c) /\ i # 0
    BY <1>5
  <2> QED
    BY <1>2, <1>4, <2>1
<1>7. F \in [Index(c) -> [Rounds(c) -> Index(c)]]
  BY <1>2, <1>6
<1>8. ASSUME NEW m \in Index(c), NEW i \in Rounds(c), NEW j \in Rounds(c), F[m][i] = F[m][j]
      PROVE  i = j
  <2>1. i \in Index(c) /\ j \in Index(c)
    BY <1>5
  <2>2. (i ^^ m) ^^ m = i /\ (j ^^ m) ^^ m = j
    BY <1>4, <2>1
  <2> QED
    BY <1>2, <1>8, <2>2
<1>9. ASSUME NEW m \in Index(c), NEW q \in Index(c), m # q
      PROVE  \E i \in Rounds(c) : F[m][i] = q
  <2>1. q ^^ m \in Index(c) /\ (q ^^ m) ^^ m = q /\ 0 ^^ m = m
    BY <1>4
  <2>2. q ^^ m \in Rounds(c)
    BY <1>5, <1>9, <2>1
  <2> QED
    BY <1>2, <2>1, <2>2
<1>10. ASSUME NEW i \in Rounds(c), NEW q \in Index(c)
       PROVE  \E m \in Index(c) : F[m][i] = q
  <2>1. i \in Index(c)
    BY <1>5
  <2>2. q ^^ i \in Index(c) /\ (q ^^ i) ^^ i = q
    BY <1>4, <2>1
  <2>3. i ^^ (q ^^ i) = (q ^^ i) ^^ i
    BY <1>4, <2>1, <2>2
  <2> QED
    BY <1>2, <2>2, <2>3
<1>11. ASSUME NEW i \in Rounds(c), NEW m \in Index(c), NEW l \in Index(c), F[m][i] = F[l][i]
       PROVE  m = l
  <2>1. i \in Index(c)
    BY <1>5
  <2>2. i ^^ m = m ^^ i /\ i ^^ l = l ^^ i /\ (m ^^ i) ^^ i = m /\ (l ^^ i) ^^ i = l
    BY <1>4, <2>1
  <2> QED
    BY <1>2, <1>11, <2>2
<1>12. Exchanging(c, F)
  BY <1>6, <1>7, <1>8, <1>9, <1>10, <1>11 DEF Exchanging
<1> QED
  BY <1>12 DEF F

------------------------------------------------------------------------------
\* The calls of alltoall: each of its algorithms, where what the source asserts of the
\* number of members holds.

ShiftNames == {"shift_exchange_barrier", "shift_exchange_counter", "shift_exchange_signal"}
XorNames ==
  {"xor_pairwise_exchange_barrier", "xor_pairwise_exchange_counter", "xor_pairwise_exchange_signal"}
ColorNames ==
  {"color_pairwise_exchange_barrier", "color_pairwise_exchange_counter",
   "color_pairwise_exchange_signal"}
AlltoallCall(c) ==
  /\ c.coll = "alltoall" /\ Team(c)
  /\ \/ c.name \in ShiftNames
     \/ c.name \in XorNames /\ XorCond(c.n)
     \/ c.name \in ColorNames /\ c.n % 2 = 0

\* what an algorithm needs for the proofs
Covered(c) == Good(c) /\ (Signalled(c) \/ Barriered(c))

LEMMA AlltoallPrograms ==
  ASSUME NEW c, Alltoall(c), NEW F, Exchanging(c, F),
         \/ \A p \in ActiveSet(c) : Program(c, p) = ALLTOALL_HELPER_BARRIER(c, p, F[Me(c, p)])
         \/ \A p \in ActiveSet(c) : Program(c, p) = ALLTOALL_HELPER_COUNTER(c, p, F[Me(c, p)])
         \/ \A p \in ActiveSet(c) : Program(c, p) = ALLTOALL_HELPER_SIGNAL(c, p, F[Me(c, p)])
  PROVE  Covered(c)
<1>1. Team(c)
  BY DEF Alltoall
<1>2. CASE \A p \in ActiveSet(c) : Program(c, p) = ALLTOALL_HELPER_BARRIER(c, p, F[Me(c, p)])
  <2>1. \A p \in ActiveSet(c) : Meets(c, F, p)
    BY <1>1, <1>2, BarrierProgram DEF Meets
  <2>2. \A p \in ActiveSet(c) : MovesBlocks(c, F, p)
    BY <1>1, <2>1, MeetsMove
  <2> QED
    BY <1>1, <2>1, <2>2, MeetsBarriered, AlltoallGood DEF Covered
<1>3. CASE \A p \in ActiveSet(c) : Program(c, p) = ALLTOALL_HELPER_COUNTER(c, p, F[Me(c, p)])
  <2>1. \A p \in ActiveSet(c) : Counts(c, F, p) /\ MovesBlocks(c, F, p)
    BY <1>1, <1>3, CounterCounts
  <2> QED
    BY <1>1, <2>1, CountsSignalled, AlltoallGood DEF Covered
<1>4. CASE \A p \in ActiveSet(c) : Program(c, p) = ALLTOALL_HELPER_SIGNAL(c, p, F[Me(c, p)])
  <2>1. \A p \in ActiveSet(c) : IsList(Program(c, p)) /\ Signals(c, F, p)
    BY <1>1, <1>4, SignalProgram
  <2>2. \A p \in ActiveSet(c) : MovesBlocks(c, F, p)
    BY <1>1, <2>1, SignalsMove
  <2> QED
    BY <1>1, <2>1, <2>2, SignalsSignalled, AlltoallGood DEF Covered
<1> QED
  BY <1>2, <1>3, <1>4

LEMMA AlltoallCovered ==
  ASSUME NEW c, AlltoallCall(c)
  PROVE  Covered(c)
<1>1. Alltoall(c) /\ Team(c)
  BY DEF AlltoallCall, Alltoall
<1>2. \A p : Program(c, p) = SHCOLL_ALLTOALL_DEFINITION(c, p)
  BY <1>1 DEF Program, Statements, Alltoall
<1>3. \A p \in ActiveSet(c) : Me(c, p) \in Index(c)
  BY <1>1, MembersIndexed
<1>4. ASSUME NEW p \in ActiveSet(c)
      PROVE  /\ SHIFT_PEERS(c, p) = Shift(c)[Me(c, p)]
             /\ XOR_PEERS(c, p) = Xor(c)[Me(c, p)]
             /\ COLOR_PEERS(c, p) = Color(c)[Me(c, p)]
  BY <1>3 DEF SHIFT_PEERS, XOR_PEERS, COLOR_PEERS, Shift, Xor, Color, Rounds
<1>5. CASE c.name \in ShiftNames
  <2>1. Exchanging(c, Shift(c))
    BY <1>1, ShiftExchanging
  <2>2. \A p \in ActiveSet(c) :
          /\ c.name = "shift_exchange_barrier" =>
               Program(c, p) = ALLTOALL_HELPER_BARRIER(c, p, Shift(c)[Me(c, p)])
          /\ c.name = "shift_exchange_counter" =>
               Program(c, p) = ALLTOALL_HELPER_COUNTER(c, p, Shift(c)[Me(c, p)])
          /\ c.name = "shift_exchange_signal" =>
               Program(c, p) = ALLTOALL_HELPER_SIGNAL(c, p, Shift(c)[Me(c, p)])
    BY <1>2, <1>4 DEF SHCOLL_ALLTOALL_DEFINITION, alltoall_helper_shift_exchange_barrier,
       alltoall_helper_shift_exchange_counter, alltoall_helper_shift_exchange_signal
  <2> QED
    BY <1>1, <1>5, <2>1, <2>2, AlltoallPrograms DEF ShiftNames
<1>6. CASE c.name \in XorNames /\ XorCond(c.n)
  <2>1. Exchanging(c, Xor(c))
    BY <1>1, <1>6, XorExchanging
  <2>2. \A p \in ActiveSet(c) :
          /\ c.name = "xor_pairwise_exchange_barrier" =>
               Program(c, p) = ALLTOALL_HELPER_BARRIER(c, p, Xor(c)[Me(c, p)])
          /\ c.name = "xor_pairwise_exchange_counter" =>
               Program(c, p) = ALLTOALL_HELPER_COUNTER(c, p, Xor(c)[Me(c, p)])
          /\ c.name = "xor_pairwise_exchange_signal" =>
               Program(c, p) = ALLTOALL_HELPER_SIGNAL(c, p, Xor(c)[Me(c, p)])
    BY <1>2, <1>4 DEF SHCOLL_ALLTOALL_DEFINITION, alltoall_helper_xor_pairwise_exchange_barrier,
       alltoall_helper_xor_pairwise_exchange_counter, alltoall_helper_xor_pairwise_exchange_signal
  <2> QED
    BY <1>1, <1>6, <2>1, <2>2, AlltoallPrograms DEF XorNames
<1>7. CASE c.name \in ColorNames /\ c.n % 2 = 0
  <2>1. Exchanging(c, Color(c))
    BY <1>1, <1>7, ColorExchanging
  <2>2. \A p \in ActiveSet(c) :
          /\ c.name = "color_pairwise_exchange_barrier" =>
               Program(c, p) = ALLTOALL_HELPER_BARRIER(c, p, Color(c)[Me(c, p)])
          /\ c.name = "color_pairwise_exchange_counter" =>
               Program(c, p) = ALLTOALL_HELPER_COUNTER(c, p, Color(c)[Me(c, p)])
          /\ c.name = "color_pairwise_exchange_signal" =>
               Program(c, p) = ALLTOALL_HELPER_SIGNAL(c, p, Color(c)[Me(c, p)])
    BY <1>2, <1>4 DEF SHCOLL_ALLTOALL_DEFINITION, alltoall_helper_color_pairwise_exchange_barrier,
       alltoall_helper_color_pairwise_exchange_counter,
       alltoall_helper_color_pairwise_exchange_signal
  <2> QED
    BY <1>1, <1>7, <2>1, <2>2, AlltoallPrograms DEF ColorNames
<1> QED
  BY <1>5, <1>6, <1>7 DEF AlltoallCall

------------------------------------------------------------------------------
\* fcollect: every member's block to all the others.

Fcollect(c) == c.coll = "fcollect" /\ Team(c)
ShareBlock(c, p, q) == PutNbi("source", 0, Me(c, p) * nbytes(c), nbytes(c), PEof(c, q))
KeepBlock(c, p) == Copy("dest", Me(c, p) * nbytes(c), "source", 0, nbytes(c))

\* A program that puts its block to each of the peers and keeps it.
SharesBlock(c, F, p) ==
  /\ IsList(Program(c, p))
  /\ \A k \in 1..Size(c, p) :
       \/ \E i \in Rounds(c) : Stm(c, p, k) = ShareBlock(c, p, F[Me(c, p)][i])
       \/ Stm(c, p, k) = KeepBlock(c, p)
       \/ Stm(c, p, k).do \in {"p", "add"} /\ Stm(c, p, k).pe \in ActiveSet(c)
       \/ Stm(c, p, k).do \in {"fence", "wait", "barrier"}
  /\ \A i \in Rounds(c) : \E k \in 1..Size(c, p) : Stm(c, p, k) = ShareBlock(c, p, F[Me(c, p)][i])
  /\ \E k \in 1..Size(c, p) : Stm(c, p, k) = KeepBlock(c, p)

Sums(c, i, f) == f = [k \in 0..i |-> IF k = 0 THEN 0 ELSE f[k - 1] + c.size[k - 1]]

LEMMA SizesUpTo ==
  ASSUME NEW c, Team(c), NEW i \in 0..c.n
  PROVE  SizeUpTo(c, i) = i * nbytes(c)
<1> DEFINE g == nbytes(c)
           sum == CHOOSE f : Sums(c, i, f)
           least == [k \in 0..i |-> k * g]
<1>1. c.n \in Nat /\ i \in Nat /\ i <= c.n /\ c.n >= 1
  BY DEF Team
<1>2. g \in Nat /\ \A k \in 1..i : c.size[k - 1] = g
  <2>1. \A k \in 1..i : k - 1 \in 0..(c.n - 1)
    BY <1>1
  <2>2. 0 \in 0..(c.n - 1)
    BY <1>1
  <2> QED
    BY <2>1, <2>2 DEF Team, nbytes
<1> HIDE DEF g
<1>3. Sums(c, i, least)
  <2>1. least = [k \in 0..i |-> least[k]] /\ \A k \in 0..i : least[k] = k * g
    OBVIOUS
  <2> HIDE DEF least
  <2>2. \A k \in 0..i : least[k] = IF k = 0 THEN 0 ELSE least[k - 1] + c.size[k - 1]
    <3> TAKE k \in 0..i
    <3>1. CASE k = 0
      BY <1>2, <2>1, <3>1
    <3>2. CASE k # 0
      <4>1. k \in 1..i /\ k - 1 \in 0..i /\ k - 1 \in Nat
        BY <1>1, <3>2
      <4>2. k * g = (k - 1) * g + g
        BY <1>2, <4>1
      <4> QED
        BY <1>2, <2>1, <3>2, <4>1, <4>2
    <3> QED
      BY <3>1, <3>2
  <2> QED
    BY <2>1, <2>2, Zenon DEF Sums
<1> HIDE DEF least
<1>4. Sums(c, i, sum)
  BY <1>3
<1>5. SizeUpTo(c, i) = sum[i]
  BY Zenon DEF SizeUpTo, Sums
<1> HIDE DEF sum
<1>6. \A k \in 0..i : sum[k] = IF k = 0 THEN 0 ELSE sum[k - 1] + c.size[k - 1]
  <2>1. ASSUME NEW f, NEW h, f = [k \in 0..i |-> IF k = 0 THEN 0 ELSE h[k - 1] + c.size[k - 1]]
        PROVE  \A k \in 0..i : f[k] = IF k = 0 THEN 0 ELSE h[k - 1] + c.size[k - 1]
    BY <2>1
  <2> QED
    BY <1>4, <2>1, Zenon DEF Sums
<1> DEFINE T == {k \in Nat : k \in 0..i => sum[k] = k * g}
<1>7. 0 \in T
  BY <1>2, <1>6
<1>8. ASSUME NEW k \in Nat, k \in T PROVE k + 1 \in T
  <2> SUFFICES ASSUME k + 1 \in 0..i PROVE sum[k + 1] = (k + 1) * g
    OBVIOUS
  <2>1. k \in 0..i /\ k + 1 # 0 /\ (k + 1) - 1 = k /\ k + 1 \in 1..i
    OBVIOUS
  <2>2. sum[k + 1] = sum[k] + g
    BY <1>2, <1>6, <2>1
  <2>3. sum[k] = k * g
    BY <1>8, <2>1
  <2>4. (k + 1) * g = k * g + g
    BY <1>2
  <2> QED
    BY <2>2, <2>3, <2>4
<1> HIDE DEF T
<1>9. \A k \in Nat : k \in T
  BY <1>7, <1>8, Induction
<1>10. sum[i] = i * g
  <2>1. i \in T /\ i \in 0..i
    BY <1>1, <1>9
  <2> QED
    BY <2>1 DEF T
<1> QED
  BY <1>5, <1>10 DEF g

LEMMA FcollectSizes ==
  ASSUME NEW c, Fcollect(c)
  PROVE  /\ nbytes(c) \in Nat /\ c.n \in Nat /\ c.n >= 1
         /\ DestLength(c) = c.n * nbytes(c) /\ DestLength(c) \in Nat
         /\ \A p \in ActiveSet(c) : SourceLength(c, p) = nbytes(c)
<1>1. c.coll = "fcollect" /\ c.n \in Nat /\ c.n >= 1
  BY DEF Fcollect, Team
<1>2. nbytes(c) \in Nat
  <2>1. 0 \in 0..(c.n - 1)
    BY <1>1
  <2> QED
    BY <2>1 DEF nbytes, Fcollect, Team
<1>3. DestLength(c) = c.n * nbytes(c)
  BY <1>1 DEF DestLength, nbytes
<1>4. ASSUME NEW p \in ActiveSet(c)
      PROVE  SourceLength(c, p) = nbytes(c)
  <2>1. Me(c, p) \in Index(c)
    BY MembersIndexed DEF Fcollect
  <2>2. c.size[Me(c, p)] = nbytes(c)
    BY <2>1 DEF Index, Fcollect, Team, nbytes
  <2> QED
    BY <1>1, <2>2 DEF SourceLength
<1>5. c.n * nbytes(c) \in Nat
  BY <1>1, <1>2
<1> QED
  BY <1>1, <1>2, <1>3, <1>4, <1>5

LEMMA Owned ==
  ASSUME NEW c, Team(c), NEW m \in Index(c), NEW x \in Nat, x < nbytes(c), nbytes(c) \in Nat
  PROVE  Owner(c, m * nbytes(c) + x) = m
<1> DEFINE g == nbytes(c)
           k == m * g + x
<1>1. c.n \in Nat /\ m \in Nat /\ m < c.n /\ Index(c) = 0..(c.n - 1) /\ g \in Nat /\ x < g
  BY DEF Team, Index
<1>2. \A i \in Index(c) : SizeUpTo(c, i) = i * g /\ SizeUpTo(c, i + 1) = (i + 1) * g
  <2> TAKE i \in Index(c)
  <2>1. i \in 0..c.n /\ i + 1 \in 0..c.n
    BY <1>1
  <2> QED
    BY <2>1, SizesUpTo
<1>3. Owner(c, k) = CHOOSE i \in Index(c) : SizeUpTo(c, i) <= k /\ k < SizeUpTo(c, i + 1)
  BY DEF Owner, Index
<1> HIDE DEF g
<1>4. k \in Nat /\ m * g \in Nat /\ m * g <= k /\ k < (m + 1) * g
  <2>1. (m + 1) * g = m * g + g /\ m * g \in Nat
    BY <1>1
  <2> QED
    BY <1>1, <2>1
<1> HIDE DEF k
<1>5. ASSUME NEW i \in Index(c), SizeUpTo(c, i) <= k, k < SizeUpTo(c, i + 1)
      PROVE  i = m
  <2>1. i \in Nat /\ i < c.n
    BY <1>1
  <2>2. i * g <= k /\ k < (i + 1) * g
    BY <1>2, <1>5
  <2>3. (i + 1) * g = i * g + g /\ i * g \in Nat
    BY <1>1, <2>1
  <2>4. PICK y \in Nat : k = i * g + y /\ y < g
    <3>1. k - i * g \in Nat /\ k = i * g + (k - i * g) /\ k - i * g < g
      BY <1>1, <1>4, <2>2, <2>3
    <3> QED
      BY <3>1
  <2>5. (i * g + y) \div g = i
    BY <1>1, <2>1, <2>4, InBlock
  <2>6. (m * g + x) \div g = m
    BY <1>1, InBlock
  <2> QED
    BY <2>4, <2>5, <2>6 DEF k
<1>6. SizeUpTo(c, m) <= k /\ k < SizeUpTo(c, m + 1)
  BY <1>2, <1>4
<1> QED
  BY <1>3, <1>5, <1>6 DEF k, g

LEMMA BlockShared ==
  ASSUME NEW c, Fcollect(c), NEW m \in Index(c), NEW q, NEW x \in Nat, x < nbytes(c)
  PROVE  /\ m * nbytes(c) + x \in 0..(DestLength(c) - 1)
         /\ Element(c, PEof(c, m), x) = Result(c, q)[m * nbytes(c) + x]
<1> DEFINE g == nbytes(c)
           k == m * g + x
<1>1. g \in Nat /\ c.n \in Nat /\ DestLength(c) = c.n * g /\ x < g /\ Team(c)
  BY FcollectSizes DEF Fcollect
<1>2. m \in Nat /\ m < c.n /\ m \in 0..c.n
  BY <1>1 DEF Index
<1>3. Owner(c, k) = m
  BY <1>1, Owned
<1>4. SizeUpTo(c, m) = m * g
  BY <1>1, <1>2, SizesUpTo
<1> HIDE DEF g
<1>5. m * g \in Nat /\ c.n * g \in Nat /\ m * g + x < c.n * g
  BY <1>1, <1>2, InBlock
<1>6. k \in 0..(DestLength(c) - 1) /\ k - m * g = x
  BY <1>1, <1>5
<1> HIDE DEF k
<1>7. Result(c, q)[k] = Element(c, PEof(c, Owner(c, k)), k - SizeUpTo(c, Owner(c, k)))
  BY <1>6 DEF Result, Fcollect
<1> QED
  BY <1>3, <1>4, <1>6, <1>7 DEF k, g

LEMMA ShareMoved ==
  ASSUME NEW c, Fcollect(c), NEW F, Exchanging(c, F), NEW p \in ActiveSet(c), SharesBlock(c, F, p),
         NEW k \in 1..Size(c, p), Stm(c, p, k).do \in Moved
  PROVE  /\ Target(c, p, k) \in ActiveSet(c)
         /\ Stm(c, p, k).from = "source"
         /\ Stm(c, p, k).do = "copy" => Stm(c, p, k).to = "dest"
         /\ Stm(c, p, k).src = 0 /\ Stm(c, p, k).at = Me(c, p) * nbytes(c)
         /\ Stm(c, p, k).len = nbytes(c)
<1>1. Me(c, p) \in Index(c) /\ \A i \in Index(c) : PEof(c, i) \in ActiveSet(c)
  BY MembersIndexed DEF Fcollect
<1>2. CASE \E i \in Rounds(c) : Stm(c, p, k) = ShareBlock(c, p, F[Me(c, p)][i])
  <2>1. PICK i \in Rounds(c) : Stm(c, p, k) = ShareBlock(c, p, F[Me(c, p)][i])
    BY <1>2
  <2>2. PEof(c, F[Me(c, p)][i]) \in ActiveSet(c)
    BY <1>1 DEF Exchanging
  <2>3. /\ Stm(c, p, k).do = "put" /\ Stm(c, p, k).pe = PEof(c, F[Me(c, p)][i])
        /\ Stm(c, p, k).from = "source" /\ Stm(c, p, k).src = 0
        /\ Stm(c, p, k).at = Me(c, p) * nbytes(c) /\ Stm(c, p, k).len = nbytes(c)
    BY <2>1 DEF ShareBlock, PutNbi
  <2> QED
    BY <2>2, <2>3 DEF Target
<1>3. CASE Stm(c, p, k) = KeepBlock(c, p)
  <2>1. /\ Stm(c, p, k).do = "copy" /\ Stm(c, p, k).to = "dest" /\ Stm(c, p, k).from = "source"
        /\ Stm(c, p, k).src = 0
        /\ Stm(c, p, k).at = Me(c, p) * nbytes(c) /\ Stm(c, p, k).len = nbytes(c)
    BY <1>3 DEF KeepBlock, Copy
  <2> QED
    BY <2>1 DEF Target
<1> QED
  BY <1>2, <1>3 DEF SharesBlock, Moved

LEMMA FcollectStraight ==
  ASSUME NEW c, Fcollect(c), NEW F, Exchanging(c, F),
         \A p \in ActiveSet(c) : SharesBlock(c, F, p)
  PROVE  Called(c) /\ Straight(c)
<1>1. Team(c) /\ ActiveSet(c) \subseteq AllPEs(c)
  BY MembersIndexed DEF Fcollect
<1>2. Called(c)
  BY <1>1, FcollectSizes DEF Called, Team, Fcollect
<1>3. ASSUME NEW p \in ActiveSet(c), NEW k \in 1..Size(c, p), Stm(c, p, k).do \in Moved
      PROVE  /\ Stm(c, p, k).from = "source"
             /\ Stm(c, p, k).do = "copy" => Stm(c, p, k).to = "dest"
             /\ Stm(c, p, k).do = "put" => Stm(c, p, k).pe \in ActiveSet(c)
             /\ Stm(c, p, k).at \in Nat /\ Stm(c, p, k).src \in Nat /\ Stm(c, p, k).len \in Nat
             /\ Stm(c, p, k).at + Stm(c, p, k).len <= DestLength(c)
             /\ Stm(c, p, k).src + Stm(c, p, k).len <= SourceLength(c, p)
  <2> DEFINE g == nbytes(c)
             m == Me(c, p)
  <2>1. /\ Target(c, p, k) \in ActiveSet(c) /\ Stm(c, p, k).from = "source"
        /\ Stm(c, p, k).do = "copy" => Stm(c, p, k).to = "dest"
        /\ Stm(c, p, k).src = 0 /\ Stm(c, p, k).at = m * g /\ Stm(c, p, k).len = g
    BY <1>3, ShareMoved
  <2>2. g \in Nat /\ c.n \in Nat /\ DestLength(c) = c.n * g /\ SourceLength(c, p) = g
    BY FcollectSizes
  <2>3. m \in Index(c)
    BY <1>1, MembersIndexed
  <2>4. m * g \in Nat /\ m * g + g <= c.n * g
    <3>1. m \in Nat /\ m + 1 \in Nat /\ m + 1 <= c.n
      BY <2>2, <2>3 DEF Index
    <3> HIDE DEF g, m
    <3>2. (m + 1) * g <= c.n * g
      BY <2>2, <3>1, Multiplied
    <3>3. (m + 1) * g = m * g + g /\ m * g \in Nat
      BY <2>2, <3>1
    <3> QED
      BY <3>2, <3>3
  <2>5. Stm(c, p, k).do = "put" => Stm(c, p, k).pe \in ActiveSet(c)
    BY <2>1 DEF Target
  <2> HIDE DEF g, m
  <2> QED
    BY <2>1, <2>2, <2>4, <2>5
<1>4. ASSUME NEW p \in ActiveSet(c), NEW k \in 1..Size(c, p)
      PROVE  /\ Stm(c, p, k).do \in {"put", "p", "add", "fence", "copy", "wait", "barrier"}
             /\ Stm(c, p, k).do \in Sent => Stm(c, p, k).pe \in ActiveSet(c)
  <2>1. \/ \E i \in Rounds(c) : Stm(c, p, k) = ShareBlock(c, p, F[Me(c, p)][i])
        \/ Stm(c, p, k) = KeepBlock(c, p)
        \/ Stm(c, p, k).do \in {"p", "add"} /\ Stm(c, p, k).pe \in ActiveSet(c)
        \/ Stm(c, p, k).do \in {"fence", "wait", "barrier"}
    BY DEF SharesBlock
  <2>2. Stm(c, p, k).do \in {"put", "p", "add", "fence", "copy", "wait", "barrier"}
    BY <2>1 DEF ShareBlock, PutNbi, KeepBlock, Copy
  <2>3. Stm(c, p, k).do = "put" => Stm(c, p, k).pe \in ActiveSet(c)
    BY <1>3 DEF Moved
  <2>4. Stm(c, p, k).do \in {"p", "add"} => Stm(c, p, k).pe \in ActiveSet(c)
    BY <2>1 DEF ShareBlock, PutNbi, KeepBlock, Copy
  <2> QED
    BY <2>2, <2>3, <2>4 DEF Sent
<1>5. Straight(c)
  <2> DEFINE Fits(p, k) ==
        /\ Stm(c, p, k).do \in {"put", "p", "add", "fence", "copy", "wait", "barrier"}
        /\ Stm(c, p, k).do \in Sent => Stm(c, p, k).pe \in ActiveSet(c)
        /\ Stm(c, p, k).do = "copy" => Stm(c, p, k).to = "dest"
        /\ Stm(c, p, k).do \in Moved =>
             /\ Stm(c, p, k).from = "source"
             /\ Stm(c, p, k).at \in Nat /\ Stm(c, p, k).src \in Nat /\ Stm(c, p, k).len \in Nat
             /\ Stm(c, p, k).at + Stm(c, p, k).len <= DestLength(c)
             /\ Stm(c, p, k).src + Stm(c, p, k).len <= SourceLength(c, p)
  <2> SUFFICES ASSUME NEW p \in ActiveSet(c)
               PROVE  IsList(Program(c, p)) /\ \A k \in 1..Size(c, p) : Fits(p, k)
    BY DEF Straight
  <2>1. IsList(Program(c, p))
    BY DEF SharesBlock
  <2>2. \A k \in 1..Size(c, p) : Stm(c, p, k).do = "copy" => Stm(c, p, k).do \in Moved
    BY DEF Moved
  <2> QED
    BY <1>3, <1>4, <2>1, <2>2
<1> QED
  BY <1>2, <1>5

LEMMA FcollectGood ==
  ASSUME NEW c, Fcollect(c), NEW F, Exchanging(c, F),
         \A p \in ActiveSet(c) : SharesBlock(c, F, p)
  PROVE  Good(c)
<1> DEFINE g == nbytes(c)
<1>1. Called(c) /\ Straight(c) /\ Team(c)
  BY FcollectStraight DEF Fcollect
<1>2. g \in Nat /\ c.n \in Nat /\ DestLength(c) = c.n * g
  BY FcollectSizes
<1>3. ASSUME NEW p \in ActiveSet(c), NEW k \in 1..Size(c, p), NEW x \in Nat,
             Stm(c, p, k).do \in Moved, x < Stm(c, p, k).len
      PROVE  Element(c, p, Stm(c, p, k).src + x)
               = Result(c, Target(c, p, k))[Stm(c, p, k).at + x]
  <2>1. /\ Stm(c, p, k).src = 0 /\ Stm(c, p, k).at = Me(c, p) * nbytes(c)
        /\ Stm(c, p, k).len = nbytes(c)
    BY <1>3, ShareMoved
  <2>2. Me(c, p) \in Index(c) /\ PEof(c, Me(c, p)) = p
    BY <1>1, MembersIndexed
  <2>3. Element(c, PEof(c, Me(c, p)), x)
              = Result(c, Target(c, p, k))[Me(c, p) * nbytes(c) + x]
    BY <1>3, <2>1, <2>2, BlockShared
  <2>4. 0 + x = x
    OBVIOUS
  <2> QED
    BY <2>1, <2>2, <2>3, <2>4
<1>4. ASSUME NEW q \in ActiveSet(c), NEW j \in 0..(DestLength(c) - 1)
      PROVE  \E p \in ActiveSet(c) : \E k \in 1..Size(c, p) :
               /\ Stm(c, p, k).do \in Moved /\ Target(c, p, k) = q
               /\ Stm(c, p, k).at <= j /\ j < Stm(c, p, k).at + Stm(c, p, k).len
  <2>0. j \in 0..(c.n * g - 1)
    BY <1>2
  <2>1. PICK m \in 0..(c.n - 1), x \in 0..(g - 1) : j = m * g + x
    <3> HIDE DEF g
    <3> QED
      BY <1>2, <2>0, BlockOf
  <2>2. m \in Index(c) /\ m \in Nat /\ x \in Nat /\ x < g
    BY <1>2, <2>1 DEF Index
  <2> DEFINE p == PEof(c, m)
  <2>3. p \in ActiveSet(c) /\ Me(c, p) = m
    BY <1>1, <2>2, MembersIndexed
  <2>4. Me(c, q) \in Index(c) /\ PEof(c, Me(c, q)) = q
    BY <1>1, MembersIndexed
  <2>5. m * g \in Nat /\ m * g <= j /\ j < m * g + g
    BY <1>2, <2>1, <2>2
  <2> HIDE DEF p
  <2>6. \E k \in 1..Size(c, p) :
           /\ Stm(c, p, k).do \in Moved /\ Target(c, p, k) = q
           /\ Stm(c, p, k).at = m * nbytes(c) /\ Stm(c, p, k).len = nbytes(c)
    <3>1. CASE m = Me(c, q)
      <4>1. p = q
        BY <2>4, <3>1 DEF p
      <4>2. PICK k \in 1..Size(c, p) : Stm(c, p, k) = KeepBlock(c, p)
        BY <2>3 DEF SharesBlock
      <4> QED
        BY <2>3, <4>1, <4>2 DEF KeepBlock, Copy, Moved, Target
    <3>2. CASE m # Me(c, q)
      <4>1. PICK i \in Rounds(c) : F[m][i] = Me(c, q)
        <5>1. Reached(c, F, m, Me(c, q))
          BY <2>2, <2>4, <3>2, EachReached
        <5> QED
          BY <5>1 DEF Reached
      <4>2. PICK k \in 1..Size(c, p) : Stm(c, p, k) = ShareBlock(c, p, F[Me(c, p)][i])
        BY <2>3 DEF SharesBlock
      <4>3. Stm(c, p, k) = ShareBlock(c, p, Me(c, q))
        BY <2>3, <4>1, <4>2
      <4> QED
        BY <2>3, <2>4, <4>3 DEF ShareBlock, PutNbi, Moved, Target
    <3> QED
      BY <3>1, <3>2
  <2> QED
    BY <2>3, <2>5, <2>6
<1>5. Carries(c)
  BY <1>3, <1>4 DEF Carries
<1> QED
  BY <1>1, <1>5 DEF Good

------------------------------------------------------------------------------
\* Programs that put and copy, and then count or meet.

OnlyMoves(c, F, p, head) ==
  /\ IsList(head)
  /\ \A k \in 1..Len(head) :
       /\ head[k].do \in {"put", "copy"}
       /\ head[k].do = "put" => \E i \in Rounds(c) : head[k].pe = PEof(c, F[Me(c, p)][i])

\* A program that starts with them and then moves nothing.
HeadedBy(c, p, head) ==
  /\ IsList(Program(c, p))
  /\ \A k \in 1..Len(head) : k \in 1..Size(c, p) /\ Stm(c, p, k) = head[k]
  /\ \A k \in 1..Size(c, p) : k \notin 1..Len(head) =>
       \/ Stm(c, p, k).do \in {"p", "add"} /\ Stm(c, p, k).pe \in ActiveSet(c)
       \/ Stm(c, p, k).do \in {"fence", "wait", "barrier"}

LEMMA MovesThenCounts ==
  ASSUME NEW c, Team(c), NEW F, Exchanging(c, F), NEW p \in ActiveSet(c),
         NEW head, OnlyMoves(c, F, p, head),
         NEW adds, adds = [i \in 1..(c.n - 1) |-> AtomicInc(0, PEof(c, F[Me(c, p)][i]))],
         Program(c, p) = ((head \o <<Fence>>) \o adds)
              \o <<Wait(0, "EQ", SHCOLL_SYNC_VALUE + c.n - 1), P(0, SHCOLL_SYNC_VALUE, p)>>
  PROVE  HeadedBy(c, p, head) /\ Counts(c, F, p)
<1> DEFINE fence == <<Fence>>
           end == <<Wait(0, "EQ", SHCOLL_SYNC_VALUE + c.n - 1), P(0, SHCOLL_SYNC_VALUE, p)>>
<1>0. PICK r \in Nat : r = c.n - 1
  BY c.n - 1 \in Nat DEF Team
<1>1. PICK a \in Nat : a = Len(head)
  BY DEF OnlyMoves, IsList
<1>2. /\ IsList(fence) /\ Len(fence) = 1 /\ fence[1] = Fence
      /\ IsList(end) /\ Len(end) = 2 /\ end[1] = Wait(0, "EQ", SHCOLL_SYNC_VALUE + c.n - 1)
      /\ end[2] = P(0, SHCOLL_SYNC_VALUE, p)
  BY SingleList, PairList
<1> DEFINE s1 == head \o fence
           s2 == s1 \o adds
           s3 == s2 \o end
<1>3. Program(c, p) = s3
  OBVIOUS
<1> HIDE DEF fence, end
<1>4. /\ adds = [i \in 1..r |-> adds[i]]
      /\ \A i \in 1..r : adds[i] = AtomicInc(0, PEof(c, F[Me(c, p)][i]))
  BY <1>0
<1>5. IsList(adds) /\ Len(adds) = r
  BY <1>4, WrittenList
<1>6. IsList(head)
  BY DEF OnlyMoves
<1>7. Joined(s1, head, fence)
  BY <1>2, <1>6, Joining
<1>8. IsList(s1) /\ Len(s1) = a + 1
  BY <1>1, <1>2, <1>7 DEF Joined
<1> HIDE DEF s1
<1>9. Joined(s2, s1, adds)
  BY <1>5, <1>8, Joining
<1>10. IsList(s2) /\ Len(s2) = a + 1 + r
  BY <1>5, <1>8, <1>9 DEF Joined
<1> HIDE DEF s2
<1>11. Joined(s3, s2, end)
  BY <1>2, <1>10, Joining
<1> HIDE DEF s3
<1>12. IsList(s3) /\ Len(s3) = a + r + 3
  BY <1>2, <1>10, <1>11 DEF Joined
<1>13. ASSUME NEW k \in 1..a
       PROVE  s3[k] = head[k]
  <2>1. k \in 1..Len(head) /\ k \in 1..Len(s1) /\ k \in 1..Len(s2)
    BY <1>1, <1>8, <1>10
  <2> QED
    BY <1>7, <1>9, <1>11, <2>1 DEF Joined
<1>14. s3[a + 1] = Fence
  <2>1. 1 \in 1..Len(fence) /\ Len(head) + 1 = a + 1 /\ a + 1 \in 1..Len(s1) /\ a + 1 \in 1..Len(s2)
    BY <1>1, <1>2, <1>8, <1>10
  <2>2. s1[Len(head) + 1] = fence[1]
    BY <1>7, <2>1 DEF Joined
  <2>3. s2[a + 1] = s1[a + 1]
    BY <1>9, <2>1 DEF Joined
  <2>4. s3[a + 1] = s2[a + 1]
    BY <1>11, <2>1 DEF Joined
  <2>5. s1[a + 1] = fence[1]
    BY <2>1, <2>2
  <2>6. fence[1] = Fence
    BY <1>2
  <2> QED
    BY <2>3, <2>4, <2>5, <2>6
<1>15. ASSUME NEW i \in 1..r
       PROVE  s3[a + 1 + i] = AtomicInc(0, PEof(c, F[Me(c, p)][i]))
  <2>1. i \in 1..Len(adds)
    BY <1>5
  <2>2. a + 1 + i \in 1..(a + 1 + r)
    OBVIOUS
  <2>3. a + 1 + i \in 1..Len(s2)
    BY <1>10, <2>2
  <2>4. Len(s1) + i = a + 1 + i
    BY <1>8
  <2>5. s2[Len(s1) + i] = adds[i]
    BY <1>9, <2>1 DEF Joined
  <2>6. s3[a + 1 + i] = s2[a + 1 + i]
    BY <1>11, <2>3 DEF Joined
  <2> QED
    BY <1>4, <2>4, <2>5, <2>6
<1>16. /\ s3[a + r + 2] = Wait(0, "EQ", SHCOLL_SYNC_VALUE + c.n - 1)
       /\ s3[a + r + 3] = P(0, SHCOLL_SYNC_VALUE, p)
  <2>1. /\ 1 \in 1..Len(end) /\ 2 \in 1..Len(end)
        /\ Len(s2) + 1 = a + r + 2 /\ Len(s2) + 2 = a + r + 3
    BY <1>2, <1>10
  <2> QED
    BY <1>2, <1>11, <2>1 DEF Joined
<1>17. Rounds(c) = 1..r
  BY <1>0 DEF Rounds
<1>18. Size(c, p) = a + r + 3 /\ \A k : Stm(c, p, k) = s3[k]
  BY <1>3, <1>12 DEF Size, Stm
<1>19. \A k \in 1..Len(head) : k \in 1..Size(c, p) /\ Stm(c, p, k) = head[k]
  BY <1>1, <1>13, <1>18
<1>20. CountsFrom(c, F, p, a)
  <2>0. c.n = r + 1
    BY <1>0, c.n \in Nat DEF Team
  <2>1. a + c.n + 1 = a + r + 2 /\ a + c.n + 2 = a + r + 3
    BY <2>0
  <2>2. \A k \in 1..a : /\ Stm(c, p, k).do \in {"put", "copy"}
                        /\ Stm(c, p, k).do = "put" =>
                             \E i \in Rounds(c) : Stm(c, p, k).pe = PEof(c, F[Me(c, p)][i])
    BY <1>1, <1>19 DEF OnlyMoves
  <2>3. Stm(c, p, a + 1).do = "fence"
    BY <1>14, <1>18 DEF Fence
  <2>4. \A i \in Rounds(c) : Stm(c, p, a + 1 + i) = AtomicInc(0, PEof(c, F[Me(c, p)][i]))
    BY <1>15, <1>17, <1>18
  <2>5. /\ Stm(c, p, a + c.n + 1) = Wait(0, "EQ", SHCOLL_SYNC_VALUE + c.n - 1)
        /\ Stm(c, p, a + c.n + 2) = P(0, SHCOLL_SYNC_VALUE, p) /\ Size(c, p) = a + c.n + 2
    BY <1>16, <1>18, <2>1
  <2> QED
    BY <2>2, <2>3, <2>4, <2>5 DEF CountsFrom
<1>21. ASSUME NEW k \in 1..Size(c, p), k \notin 1..Len(head)
       PROVE  \/ Stm(c, p, k).do \in {"p", "add"} /\ Stm(c, p, k).pe \in ActiveSet(c)
              \/ Stm(c, p, k).do \in {"fence", "wait", "barrier"}
  <2>1. CASE k = a + 1
    BY <1>14, <1>18, <2>1 DEF Fence
  <2>2. CASE k > a + 1 /\ k <= a + 1 + r
    <3>1. PICK i \in 1..r : k = a + 1 + i
      BY <2>2, k - a - 1 \in 1..r
    <3>2. F[Me(c, p)][i] \in Index(c)
      BY <1>17, <3>1, MembersIndexed DEF Exchanging
    <3>3. PEof(c, F[Me(c, p)][i]) \in ActiveSet(c)
      BY <3>2, MembersIndexed
    <3>4. Stm(c, p, k) = AtomicInc(0, PEof(c, F[Me(c, p)][i]))
      BY <1>15, <1>18, <3>1
    <3> QED
      BY <3>3, <3>4 DEF AtomicInc, AtomicAdd
  <2>3. CASE k = a + r + 2
    BY <1>16, <1>18, <2>3 DEF Wait
  <2>4. CASE k = a + r + 3
    BY <1>16, <1>18, <2>4 DEF P
  <2>5. k = a + 1 \/ (k > a + 1 /\ k <= a + 1 + r) \/ k = a + r + 2 \/ k = a + r + 3
    <3>1. k \in 1..(a + r + 3) /\ k \notin 1..a
      BY <1>1, <1>18, <1>21
    <3> QED
      BY <3>1, SMTT(30)
  <2> QED
    BY <2>1, <2>2, <2>3, <2>4, <2>5
<1> QED
  BY <1>3, <1>12, <1>19, <1>20, <1>21 DEF Counts, HeadedBy

LEMMA MovesThenMeets ==
  ASSUME NEW c, NEW F, NEW p, NEW head, OnlyMoves(c, F, p, head),
         Program(c, p) = head \o <<Barrier>>
  PROVE  /\ HeadedBy(c, p, head)
         /\ Size(c, p) = Len(head) + 1 /\ Stm(c, p, Size(c, p)) = Barrier
<1> DEFINE end == <<Barrier>>
           w == head \o end
<1>1. IsList(end) /\ Len(end) = 1 /\ end[1] = Barrier
  BY SingleList
<1>2. Program(c, p) = w
  OBVIOUS
<1> HIDE DEF end
<1>3. PICK a \in Nat : a = Len(head)
  BY DEF OnlyMoves, IsList
<1>4. Joined(w, head, end)
  BY <1>1, Joining DEF OnlyMoves
<1> HIDE DEF w
<1>5. IsList(w) /\ Len(w) = a + 1
  BY <1>1, <1>3, <1>4 DEF Joined
<1>6. Size(c, p) = a + 1 /\ \A k : Stm(c, p, k) = w[k]
  BY <1>2, <1>5 DEF Size, Stm
<1>7. 1 \in 1..Len(end) /\ Len(head) + 1 = a + 1
  BY <1>1, <1>3
<1>8. Stm(c, p, a + 1) = Barrier
  BY <1>1, <1>4, <1>6, <1>7 DEF Joined
<1>9. \A k \in 1..Len(head) : k \in 1..Size(c, p) /\ Stm(c, p, k) = head[k]
  BY <1>3, <1>4, <1>6 DEF Joined
<1>10. \A k \in 1..Size(c, p) : k \notin 1..Len(head) => k = Size(c, p)
  BY <1>3, <1>6
<1>11. HeadedBy(c, p, head)
  <2>1. Stm(c, p, Size(c, p)).do = "barrier"
    BY <1>6, <1>8 DEF Barrier
  <2>2. \A k \in 1..Size(c, p) : k \notin 1..Len(head) => Stm(c, p, k).do = "barrier"
    BY <1>10, <2>1
  <2>3. IsList(Program(c, p))
    BY <1>2, <1>5
  <2> QED
    BY <1>9, <2>2, <2>3 DEF HeadedBy
<1> QED
  BY <1>3, <1>6, <1>8, <1>11

\* The barrier at the end is the only one.
LEMMA MeetsAtEnd ==
  ASSUME NEW c, NEW F, NEW a \in Nat,
         \A p \in ActiveSet(c) : \E head :
           OnlyMoves(c, F, p, head) /\ Len(head) = a /\ Program(c, p) = head \o <<Barrier>>
  PROVE  Barriered(c)
<1> DEFINE Fits(p) ==
      /\ \A k \in 1..Size(c, p) : Stm(c, p, k).do \in {"put", "copy", "barrier"}
      /\ Size(c, p) > 0 /\ IsBarrier(c, p, Size(c, p))
      /\ \A q \in ActiveSet(c) :
           /\ Size(c, q) = Size(c, p)
           /\ \A k \in 1..Size(c, p) : IsBarrier(c, p, k) => IsBarrier(c, q, k)
<1>1. ASSUME NEW p \in ActiveSet(c)
      PROVE  /\ Size(c, p) = a + 1
             /\ \A k \in 1..a : Stm(c, p, k).do \in {"put", "copy"}
             /\ IsBarrier(c, p, a + 1)
  <2>1. PICK head : OnlyMoves(c, F, p, head) /\ Len(head) = a /\ Program(c, p) = head \o <<Barrier>>
    OBVIOUS
  <2>2. /\ Size(c, p) = Len(head) + 1
        /\ \A k \in 1..Len(head) : k \in 1..Size(c, p) /\ Stm(c, p, k) = head[k]
        /\ Stm(c, p, Size(c, p)) = Barrier
    BY <2>1, MovesThenMeets, SMTT(30) DEF HeadedBy
  <2>3. \A k \in 1..Len(head) : head[k].do \in {"put", "copy"}
    BY <2>1 DEF OnlyMoves
  <2> QED
    BY <2>1, <2>2, <2>3 DEF IsBarrier, Barrier
<1> SUFFICES ASSUME NEW p \in ActiveSet(c)
             PROVE  Fits(p)
  BY DEF Barriered
<1>2. \A k \in 1..(a + 1) : k \in 1..a \/ k = a + 1
  OBVIOUS
<1>3. \A k \in 1..Size(c, p) : Stm(c, p, k).do \in {"put", "copy", "barrier"}
  BY <1>1, <1>2 DEF IsBarrier
<1>4. \A k \in 1..Size(c, p) : IsBarrier(c, p, k) => k = a + 1
  BY <1>1, <1>2 DEF IsBarrier
<1> QED
  BY <1>1, <1>3, <1>4

------------------------------------------------------------------------------
\* fcollect's algorithms that put to everybody.

\* the algorithms whose members put their block to all the others
FcollectCall(c) == Fcollect(c) /\ c.name \in {"all_linear", "all_linear1"}

LEMMA Scattered ==
  ASSUME NEW c, Team(c), NEW p \in ActiveSet(c)
  PROVE  /\ OnlyMoves(c, Shift(c), p, ScatterBlock(c, p))
         /\ Len(ScatterBlock(c, p)) = c.n
         /\ \A i \in Rounds(c) : \E k \in 1..Len(ScatterBlock(c, p)) :
              ScatterBlock(c, p)[k] = ShareBlock(c, p, Shift(c)[Me(c, p)][i])
         /\ \E k \in 1..Len(ScatterBlock(c, p)) : ScatterBlock(c, p)[k] = KeepBlock(c, p)
         /\ \A k \in 1..Len(ScatterBlock(c, p)) :
              \/ \E i \in Rounds(c) :
                   ScatterBlock(c, p)[k] = ShareBlock(c, p, Shift(c)[Me(c, p)][i])
              \/ ScatterBlock(c, p)[k] = KeepBlock(c, p)
<1> DEFINE puts == [i \in 1..(c.n - 1) |->
                      PutNbi("source", 0, Me(c, p) * nbytes(c), nbytes(c),
                             PEof(c, (i + Me(c, p)) % c.n))]
           keep == <<Copy("dest", Me(c, p) * nbytes(c), "source", 0, nbytes(c))>>
           w == ScatterBlock(c, p)
           G == Shift(c)[Me(c, p)]
<1>0. PICK r \in Nat : r = c.n - 1
  BY c.n - 1 \in Nat DEF Team
<1>1. c.n = r + 1 /\ Rounds(c) = 1..r
  BY <1>0, c.n \in Nat DEF Team, Rounds
<1>2. w = puts \o keep
  BY DEF ScatterBlock
<1>3. Me(c, p) \in Index(c)
  BY MembersIndexed
<1>4. ASSUME NEW i \in 1..r
      PROVE  puts[i] = ShareBlock(c, p, G[i])
  <2>1. G[i] = (Me(c, p) + i) % c.n
    BY <1>1, <1>3 DEF Shift, SHIFT_PEER
  <2>2. Me(c, p) + i = i + Me(c, p)
    BY <1>3, c.n \in Nat DEF Index, Team
  <2>3. puts[i] = PutNbi("source", 0, Me(c, p) * nbytes(c), nbytes(c),
                         PEof(c, (i + Me(c, p)) % c.n))
    BY <1>0
  <2> HIDE DEF puts, G
  <2> QED
    BY <2>1, <2>2, <2>3 DEF ShareBlock
<1>5. puts = [i \in 1..r |-> puts[i]]
  BY <1>0
<1>6. IsList(keep) /\ Len(keep) = 1 /\ keep[1] = KeepBlock(c, p)
  BY SingleList DEF KeepBlock
<1> HIDE DEF puts, keep, w
<1>7. IsList(puts) /\ Len(puts) = r
  BY <1>5, WrittenList
<1>8. Joined(w, puts, keep)
  BY <1>2, <1>6, <1>7, Joining
<1>9. IsList(w) /\ Len(w) = r + 1 /\ 1 \in 1..Len(keep)
  BY <1>6, <1>7, <1>8 DEF Joined
<1>10. ASSUME NEW i \in 1..r
       PROVE  i \in 1..Len(w) /\ w[i] = ShareBlock(c, p, G[i])
  <2>1. i \in 1..Len(puts) /\ i \in 1..Len(w)
    BY <1>7, <1>9
  <2> QED
    BY <1>4, <1>8, <2>1 DEF Joined
<1>11. r + 1 \in 1..Len(w) /\ w[r + 1] = KeepBlock(c, p)
  <2>1. r + 1 \in 1..Len(w) /\ Len(puts) + 1 = r + 1
    BY <1>7, <1>9
  <2>2. w[Len(puts) + 1] = keep[1]
    BY <1>8, <1>9 DEF Joined
  <2> QED
    BY <1>6, <2>1, <2>2
<1>12. \A k \in 1..Len(w) : k \in 1..r \/ k = r + 1
  BY <1>9
<1> HIDE DEF G
<1>13. \A k \in 1..Len(w) : \/ \E i \in Rounds(c) : w[k] = ShareBlock(c, p, G[i])
                            \/ w[k] = KeepBlock(c, p)
  BY <1>1, <1>10, <1>11, <1>12
<1>14. OnlyMoves(c, Shift(c), p, w)
  <2>1. \A x : ShareBlock(c, p, x).do = "put" /\ ShareBlock(c, p, x).pe = PEof(c, x)
    BY DEF ShareBlock, PutNbi
  <2>2. KeepBlock(c, p).do = "copy"
    BY DEF KeepBlock, Copy
  <2>3. ASSUME NEW k \in 1..Len(w)
        PROVE  /\ w[k].do \in {"put", "copy"}
               /\ w[k].do = "put" => \E i \in Rounds(c) : w[k].pe = PEof(c, G[i])
    BY <1>13, <2>1, <2>2
  <2> QED
    BY <1>9, <2>3 DEF OnlyMoves, G
<1> QED
  BY <1>1, <1>9, <1>10, <1>11, <1>13, <1>14 DEF w, G

\* ScatterBlock, and then statements that move nothing
LEMMA ScatterShares ==
  ASSUME NEW c, Team(c), NEW p \in ActiveSet(c), HeadedBy(c, p, ScatterBlock(c, p))
  PROVE  SharesBlock(c, Shift(c), p)
<1> DEFINE w == ScatterBlock(c, p)
           G == Shift(c)[Me(c, p)]
<1>1. /\ \A i \in Rounds(c) : \E k \in 1..Len(w) : w[k] = ShareBlock(c, p, G[i])
      /\ \E k \in 1..Len(w) : w[k] = KeepBlock(c, p)
      /\ \A k \in 1..Len(w) : \/ \E i \in Rounds(c) : w[k] = ShareBlock(c, p, G[i])
                              \/ w[k] = KeepBlock(c, p)
  BY Scattered
<1>2. IsList(Program(c, p)) /\ \A k \in 1..Len(w) : k \in 1..Size(c, p) /\ Stm(c, p, k) = w[k]
  BY DEF HeadedBy
<1>3. \A k \in 1..Size(c, p) : k \notin 1..Len(w) =>
        \/ Stm(c, p, k).do \in {"p", "add"} /\ Stm(c, p, k).pe \in ActiveSet(c)
        \/ Stm(c, p, k).do \in {"fence", "wait", "barrier"}
  BY DEF HeadedBy
<1> HIDE DEF w, G
<1>4. \A i \in Rounds(c) : \E k \in 1..Size(c, p) : Stm(c, p, k) = ShareBlock(c, p, G[i])
  BY <1>1, <1>2
<1>5. \E k \in 1..Size(c, p) : Stm(c, p, k) = KeepBlock(c, p)
  BY <1>1, <1>2
<1>6. \A k \in 1..Size(c, p) :
        \/ \E i \in Rounds(c) : Stm(c, p, k) = ShareBlock(c, p, G[i])
        \/ Stm(c, p, k) = KeepBlock(c, p)
        \/ Stm(c, p, k).do \in {"p", "add"} /\ Stm(c, p, k).pe \in ActiveSet(c)
        \/ Stm(c, p, k).do \in {"fence", "wait", "barrier"}
  BY <1>1, <1>2, <1>3
<1> QED
  BY <1>2, <1>4, <1>5, <1>6 DEF SharesBlock, G

LEMMA FcollectCovered ==
  ASSUME NEW c, FcollectCall(c)
  PROVE  Covered(c)
<1>1. Fcollect(c) /\ Team(c)
  BY DEF FcollectCall, Fcollect
<1>2. Exchanging(c, Shift(c))
  BY <1>1, ShiftExchanging
<1>3. \A p : Program(c, p) = SHCOLL_FCOLLECT_DEFINITION(c, p)
  BY <1>1 DEF Program, Statements, Fcollect
<1>4. c.n \in Nat
  BY <1>1 DEF Team
<1>5. ASSUME NEW p \in ActiveSet(c)
      PROVE  OnlyMoves(c, Shift(c), p, ScatterBlock(c, p)) /\ Len(ScatterBlock(c, p)) = c.n
  BY <1>1, Scattered
<1>6. CASE c.name = "all_linear"
  <2>1. ASSUME NEW p \in ActiveSet(c)
        PROVE  Counts(c, Shift(c), p) /\ SharesBlock(c, Shift(c), p)
    <3> DEFINE w == ScatterBlock(c, p)
               adds == [i \in 1..(c.n - 1) |-> AtomicInc(0, PEof(c, Shift(c)[Me(c, p)][i]))]
    <3>1. Program(c, p) = fcollect_helper_all_linear(c, p)
      BY <1>3, <1>6 DEF SHCOLL_FCOLLECT_DEFINITION
    <3>2. adds = [i \in 1..(c.n - 1) |-> AtomicInc(0, PEof(c, (i + Me(c, p)) % c.n))]
      <4>1. ASSUME NEW i \in 1..(c.n - 1)
            PROVE  Shift(c)[Me(c, p)][i] = (i + Me(c, p)) % c.n
        <5>1. Me(c, p) \in Index(c) /\ i \in Rounds(c)
          BY <1>1, MembersIndexed DEF Rounds
        <5>2. Shift(c)[Me(c, p)][i] = (Me(c, p) + i) % c.n
          BY <5>1 DEF Shift, SHIFT_PEER
        <5>3. Me(c, p) + i = i + Me(c, p)
          BY <1>4, <5>1 DEF Index
        <5> QED
          BY <5>2, <5>3
      <4> QED
        BY <4>1
    <3>3. Program(c, p) = ((w \o <<Fence>>) \o adds)
            \o <<Wait(0, "EQ", SHCOLL_SYNC_VALUE + c.n - 1), P(0, SHCOLL_SYNC_VALUE, p)>>
      BY <3>1, <3>2 DEF fcollect_helper_all_linear
    <3>4. OnlyMoves(c, Shift(c), p, w)
      BY <1>5
    <3>5. adds = [i \in 1..(c.n - 1) |-> AtomicInc(0, PEof(c, Shift(c)[Me(c, p)][i]))]
      OBVIOUS
    <3> HIDE DEF w, adds
    <3>6. HeadedBy(c, p, w) /\ Counts(c, Shift(c), p)
      BY <1>1, <1>2, <3>3, <3>4, <3>5, MovesThenCounts
    <3>7. SharesBlock(c, Shift(c), p)
      BY <1>1, <3>6, ScatterShares DEF w
    <3> QED
      BY <3>6, <3>7
  <2> QED
    BY <1>1, <1>2, <2>1, FcollectGood, CountsSignalled DEF Covered
<1>7. CASE c.name = "all_linear1"
  <2>1. ASSUME NEW p \in ActiveSet(c)
        PROVE  Program(c, p) = ScatterBlock(c, p) \o <<Barrier>>
    BY <1>3, <1>7 DEF SHCOLL_FCOLLECT_DEFINITION, fcollect_helper_all_linear1
  <2>2. Barriered(c)
    BY <1>4, <1>5, <2>1, MeetsAtEnd
  <2>3. ASSUME NEW p \in ActiveSet(c)
        PROVE  SharesBlock(c, Shift(c), p)
    <3> DEFINE w == ScatterBlock(c, p)
    <3>1. OnlyMoves(c, Shift(c), p, w) /\ Program(c, p) = w \o <<Barrier>>
      BY <1>5, <2>1
    <3> HIDE DEF w
    <3>2. HeadedBy(c, p, w)
      BY <3>1, MovesThenMeets
    <3> QED
      BY <1>1, <3>2, ScatterShares DEF w
  <2> QED
    BY <1>1, <1>2, <2>2, <2>3, FcollectGood DEF Covered
<1> QED
  BY <1>6, <1>7 DEF FcollectCall

------------------------------------------------------------------------------
\* alltoalls: elements that are apart.

LEMMA StridedPlace ==
  ASSUME NEW n \in Nat, NEW g \in Nat, NEW d \in Nat \ {0}, NEW m \in Nat, m < n,
         NEW x \in Nat, x < g
  PROVE  /\ m * d * g + x * d \in 0..(n * d * g - 1)
         /\ (m * d * g + x * d) % d = 0
         /\ (m * d * g + x * d) \div (d * g) = m
         /\ ((m * d * g + x * d) % (d * g)) \div d = x
         /\ m * d * g + x * d = (m * g + x) * d
<1>1. PICK t \in Nat : t = m * g + x
  BY m * g \in Nat
<1>2. PICK k \in Nat : k = n * g
  BY n * g \in Nat
<1>3. t < k
  BY <1>1, <1>2, InBlock
<1>4. m * d * g + x * d = t * d /\ n * d * g = k * d
  BY <1>1, <1>2
<1>5. t * d \in Nat /\ t * d + d <= k * d /\ (t * d + 0) % d = 0
  BY <1>3, InBlock, 0 \in Nat, 0 < d
<1>6. (t * d) % d = 0 /\ t * d \in 0..(k * d - 1)
  BY <1>5, k * d \in Int
<1>7. PICK b \in Nat : b = g * d
  BY g * d \in Nat
<1>8. PICK y \in Nat : y = x * d
  BY x * d \in Nat
<1>9. y + d <= b /\ (y + 0) \div d = x
  BY <1>7, <1>8, InBlock, 0 \in Nat, 0 < d
<1>10. y < b /\ y \div d = x
  BY <1>9
<1>11. (m * b + y) \div b = m /\ (m * b + y) % b = y
  BY <1>10, InBlock
<1>12. m * d * g + x * d = m * b + y /\ d * g = b
  BY <1>7, <1>8
<1>13. (m * d * g + x * d) % d = 0 /\ m * d * g + x * d \in 0..(n * d * g - 1)
  BY <1>4, <1>6
<1> QED
  BY <1>1, <1>4, <1>10, <1>11, <1>12, <1>13

Blocked(n, g, j) == \E a \in 0..(n - 1) : \E x \in 0..(g - 1) : j = a * g + x

LEMMA InSomeBlock ==
  ASSUME NEW n \in Nat, NEW g \in Nat, NEW j \in 0..(n * g - 1)
  PROVE  Blocked(n, g, j)
BY BlockOf DEF Blocked

InSomeStride(n, g, d, j) == \E m \in 0..(n - 1) : \E x \in 0..(g - 1) : j = m * d * g + x * d

LEMMA StridedPlaced ==
  ASSUME NEW n \in Nat, NEW g \in Nat, NEW d \in Nat \ {0}, NEW j \in 0..(n * d * g - 1),
         j % d = 0
  PROVE  InSomeStride(n, g, d, j)
<1>1. PICK k \in Nat : k = n * g
  BY n * g \in Nat
<1>2. n * d * g = k * d
  BY <1>1
<1>3. PICK t \in 0..(k - 1), r \in 0..(d - 1) : j = t * d + r
  BY <1>2, BlockOf
<1>4. t \in Nat /\ t < k /\ r \in Nat /\ r < d
  BY <1>3
<1>5. (t * d + r) % d = r
  BY <1>4, InBlock
<1>6. r = 0 /\ j = t * d
  BY <1>3, <1>4, <1>5, t * d \in Int
<1>7. PICK m \in 0..(n - 1), x \in 0..(g - 1) : t = m * g + x
  <2>1. t \in 0..(n * g - 1)
    BY <1>1, <1>3
  <2>2. Blocked(n, g, t)
    BY <2>1, InSomeBlock
  <2> QED
    BY <2>2 DEF Blocked
<1>8. (m * g + x) * d = m * d * g + x * d
  BY <1>7
<1> QED
  BY <1>6, <1>7, <1>8 DEF InSomeStride

\* An active set that is the first PEs of the job: the source numbers blocks by PE.
Strided(c) ==
  /\ c.coll = "alltoalls" /\ Team(c) /\ c.start = 0 /\ c.stride = 1
  /\ c.dst \in Nat \ {0} /\ c.sst \in Nat \ {0}

LEMMA StridedSizes ==
  ASSUME NEW c, Strided(c)
  PROVE  /\ nelems(c) \in Nat /\ c.n \in Nat /\ c.n >= 1
         /\ DestLength(c) = c.n * c.dst * nelems(c) /\ DestLength(c) \in Nat
         /\ \A p : SourceLength(c, p) = c.n * c.sst * nelems(c) /\ SourceLength(c, p) \in Nat
<1>1. c.coll = "alltoalls" /\ c.n \in Nat /\ c.n >= 1 /\ c.dst \in Nat /\ c.sst \in Nat
  BY DEF Strided, Team
<1>2. nelems(c) \in Nat
  <2>1. 0 \in 0..(c.n - 1)
    BY <1>1
  <2>2. c.size \in [0..(c.n - 1) -> Nat]
    BY DEF Strided, Team
  <2> QED
    BY <2>1, <2>2 DEF nelems
<1>3. DestLength(c) = c.n * c.dst * nelems(c)
  BY <1>1 DEF DestLength, nelems
<1>4. \A p : SourceLength(c, p) = c.n * c.sst * nelems(c)
  BY <1>1 DEF SourceLength, nelems
<1>5. c.n * c.dst * nelems(c) \in Nat /\ c.n * c.sst * nelems(c) \in Nat
  BY <1>1, <1>2
<1> QED
  BY <1>1, <1>2, <1>3, <1>4, <1>5

LEMMA StridedMembers ==
  ASSUME NEW c, Strided(c)
  PROVE  /\ \A p \in ActiveSet(c) : Me(c, p) = p /\ p \in Index(c)
         /\ \A i \in Index(c) : PEof(c, i) = i /\ i \in ActiveSet(c)
<1>1. Team(c) /\ c.start = 0 /\ c.stride = 1 /\ c.n \in Nat
  BY DEF Strided, Team
<1>2. \A i \in Index(c) : PEof(c, i) = i
  BY <1>1 DEF PEof, Index
<1> QED
  BY <1>1, <1>2, MembersIndexed

StridedAt(c, m, e) == m * c.dst * nelems(c) + (e - 1) * c.dst
StridedFrom(c, q, e) == q * c.sst * nelems(c) + (e - 1) * c.sst

LEMMA StridedElement ==
  ASSUME NEW c, Strided(c), NEW m \in Index(c), NEW q \in Index(c), NEW e \in 1..nelems(c)
  PROVE  /\ StridedAt(c, m, e) \in Nat /\ StridedAt(c, m, e) + 1 <= DestLength(c)
         /\ StridedFrom(c, q, e) \in Nat
         /\ \A p : StridedFrom(c, q, e) + 1 <= SourceLength(c, p)
         /\ Element(c, m, StridedFrom(c, q, e)) = Result(c, q)[StridedAt(c, m, e)]
<1>1. PICK g \in Nat : g = nelems(c)
  BY StridedSizes
<1>2. PICK n \in Nat : n = c.n
  BY StridedSizes
<1>3. PICK d \in Nat \ {0}, s \in Nat \ {0} : d = c.dst /\ s = c.sst
  BY DEF Strided
<1>4. m \in Nat /\ m < n /\ q \in Nat /\ q < n
  BY <1>2 DEF Index
<1>5. PICK x \in Nat : x = e - 1
  BY <1>1, e - 1 \in Nat
<1>6. x < g
  BY <1>1, <1>5
<1>7. PICK k : k = m * d * g + x * d
  OBVIOUS
<1>8. /\ k \in 0..(n * d * g - 1) /\ k % d = 0 /\ k \div (d * g) = m /\ (k % (d * g)) \div d = x
  <2>1. /\ m * d * g + x * d \in 0..(n * d * g - 1)
        /\ (m * d * g + x * d) % d = 0
        /\ (m * d * g + x * d) \div (d * g) = m
        /\ ((m * d * g + x * d) % (d * g)) \div d = x
    BY <1>4, <1>6, StridedPlace, SMTT(30)
  <2> QED
    BY <1>7, <2>1, ZenonT(30)
<1>9. PICK f : f = q * s * g + x * s
  OBVIOUS
<1>10. f \in 0..(n * s * g - 1) /\ f = (q * g + x) * s
  <2>1. /\ q * s * g + x * s \in 0..(n * s * g - 1)
        /\ q * s * g + x * s = (q * g + x) * s
    BY <1>4, <1>6, StridedPlace, SMTT(30)
  <2> QED
    BY <1>9, <2>1, ZenonT(30)
<1>11. DestLength(c) = n * d * g /\ \A p : SourceLength(c, p) = n * s * g
  BY <1>1, <1>2, <1>3, StridedSizes
<1>12. StridedAt(c, m, e) = k /\ StridedFrom(c, q, e) = f
  BY <1>1, <1>3, <1>5, <1>7, <1>9 DEF StridedAt, StridedFrom
<1>13. Result(c, q)[k] = Element(c, m, f)
  <2>1. k \in 0..(DestLength(c) - 1) /\ c.coll = "alltoalls" /\ c.size[0] = g
    BY <1>1, <1>8, <1>11 DEF Strided, nelems
  <2>2. k % c.dst = 0
    BY <1>3, <1>8
  <2>3. Result(c, q)[k]
          = Element(c, PEof(c, k \div (c.dst * c.size[0])),
                    (Me(c, q) * c.size[0] + ((k % (c.dst * c.size[0])) \div c.dst)) * c.sst)
    BY <2>1, <2>2 DEF Result
  <2>4. Result(c, q)[k]
          = Element(c, PEof(c, k \div (d * g)), (Me(c, q) * g + ((k % (d * g)) \div d)) * s)
    BY <1>3, <2>1, <2>3
  <2>5. PEof(c, m) = m /\ Me(c, q) = q
    BY StridedMembers
  <2>6. Result(c, q)[k] = Element(c, m, (q * g + x) * s)
    BY <1>8, <2>4, <2>5
  <2> QED
    BY <1>10, <2>6
<1>14. k + 1 <= n * d * g /\ f + 1 <= n * s * g /\ k \in Nat /\ f \in Nat
  BY <1>8, <1>10, n * d * g \in Int, n * s * g \in Int
<1> QED
  BY <1>11, <1>12, <1>13, <1>14

------------------------------------------------------------------------------
\* The statements of alltoalls: the own elements, and those of each peer.

StridedPut(c, p, q, e) == PutNbi("source", StridedFrom(c, q, e), StridedAt(c, p, e), 1, PEof(c, q))
StridedOwn(c, p, e) == Copy("dest", StridedAt(c, p, e), "source", StridedFrom(c, p, e), 1)

\* element e, by a round's put or by the copy
StridedMove(c, p, statement) ==
  \E e \in 1..nelems(c) : \/ \E i \in Rounds(c) : statement = StridedPut(c, p, Shift(c)[p][i], e)
                          \/ statement = StridedOwn(c, p, e)
StridedMoves(c, p, s) ==
  /\ IsList(s)
  /\ \A k \in 1..Len(s) : StridedMove(c, p, s[k])
  /\ \A e \in 1..nelems(c) : \A i \in Rounds(c) :
       \E k \in 1..Len(s) : s[k] = StridedPut(c, p, Shift(c)[p][i], e)
  /\ \A e \in 1..nelems(c) : \E k \in 1..Len(s) : s[k] = StridedOwn(c, p, e)

\* Where all lists have g elements, each of the elements is element j of a list i.
AllOf(s, lists, n, g) ==
  /\ \A k \in 1..Len(s) : \E i \in 1..n : \E j \in 1..g : s[k] = lists[i][j]
  /\ \A i \in 1..n : \A j \in 1..g : \E k \in 1..Len(s) : s[k] = lists[i][j]

LEMMA EvenlyAll ==
  ASSUME NEW n \in Nat, NEW g \in Nat, NEW s, NEW lists, Evenly(s, lists, n, g)
  PROVE  AllOf(s, lists, n, g)
<1>1. Len(s) = n * g /\ n * g \in Nat
  BY DEF Evenly
<1>2. ASSUME NEW k \in 1..Len(s)
      PROVE  \E i \in 1..n : \E j \in 1..g : s[k] = lists[i][j]
  <2>1. PICK t \in Nat : t = k - 1 /\ t \in 0..(n * g - 1)
    BY <1>1, k - 1 \in 0..(n * g - 1)
  <2>2. Blocked(n, g, t)
    BY <2>1, InSomeBlock
  <2>3. PICK a \in 0..(n - 1) : \E x \in 0..(g - 1) : t = a * g + x
    BY <2>2 DEF Blocked
  <2>4. PICK x \in 0..(g - 1) : t = a * g + x
    BY <2>3
  <2>5. a + 1 \in 1..n /\ x + 1 \in 1..g /\ (a + 1) - 1 = a
    OBVIOUS
  <2>6. s[((a + 1) - 1) * g + (x + 1)] = lists[a + 1][x + 1]
    BY <2>5 DEF Evenly
  <2>7. a * g + (x + 1) = k
    <3>1. a * g \in Int
      OBVIOUS
    <3> QED
      BY <2>1, <2>4, <3>1
  <2>8. s[k] = lists[a + 1][x + 1]
    BY <2>5, <2>6, <2>7
  <2> QED
    BY <2>5, <2>8
<1>3. ASSUME NEW i \in 1..n, NEW j \in 1..g
      PROVE  \E k \in 1..Len(s) : s[k] = lists[i][j]
  <2>1. PICK a \in Nat : a = i - 1
    BY i - 1 \in Nat
  <2>2. PICK x \in Nat : x = j - 1
    BY j - 1 \in Nat
  <2>3. a < n /\ x < g
    BY <2>1, <2>2
  <2>4. a * g \in Nat /\ a * g + x < n * g
    BY <2>3, InBlock
  <2>5. a * g + j = a * g + x + 1
    BY <2>2, <2>4
  <2>6. a * g + j \in 1..(n * g)
    BY <1>1, <2>4, <2>5
  <2>7. s[a * g + j] = lists[i][j]
    BY <2>1 DEF Evenly
  <2> QED
    BY <1>1, <2>6, <2>7
<1> QED
  BY <1>2, <1>3 DEF AllOf

LEMMA StridedHead ==
  ASSUME NEW c, Strided(c), NEW p \in ActiveSet(c)
  PROVE  /\ StridedMoves(c, p, OwnElements(c, p) \o PutElements(c, p))
         /\ Len(OwnElements(c, p) \o PutElements(c, p)) = nelems(c) + (c.n - 1) * nelems(c)
<1> DEFINE G == Shift(c)[p]
           own == OwnElements(c, p)
           lists == [i \in 1..(c.n - 1) |->
                      [e \in 1..nelems(c) |-> StridedPut(c, p, G[i], e)]]
           s == PutElements(c, p)
           w == own \o s
<1>0. PICK r \in Nat : r = c.n - 1
  <2>1. c.n \in Nat /\ c.n >= 1
    BY StridedSizes
  <2> QED
    BY <2>1
<1>1. PICK g \in Nat : g = nelems(c)
  BY StridedSizes
<1>2. Rounds(c) = 1..r /\ p \in Index(c) /\ Me(c, p) = p
  BY <1>0, StridedMembers DEF Rounds
<1>3. s = FlattenSeq(lists)
  <2> DEFINE put(i) ==
        shmem_iput_nbi("source", SHIFT_PEER(i, p, c.n) * c.sst * nelems(c),
                       p * c.dst * nelems(c), c.dst, c.sst, nelems(c),
                       PEof(c, SHIFT_PEER(i, p, c.n)))
             count == IF c.n - 1 < 1 THEN 0 ELSE c.n - 1 - 1 + 1
  <2>1. s = FlattenSeq([k \in 1..count |-> put(1 + k - 1)])
    BY DEF PutElements, Loop
  <2>2. count = c.n - 1
    BY <1>0
  <2>3. [k \in 1..count |-> put(1 + k - 1)] = lists
    <3>1. \A k \in 1..(c.n - 1) : 1 + k - 1 = k
      OBVIOUS
    <3>2. ASSUME NEW k \in 1..(c.n - 1)
          PROVE  put(k) = lists[k]
      <4>1. G[k] = SHIFT_PEER(k, p, c.n)
        BY <1>2 DEF Shift, Rounds
      <4>2. lists[k] = [e \in 1..nelems(c) |-> StridedPut(c, p, SHIFT_PEER(k, p, c.n), e)]
        BY <4>1
      <4> QED
        BY <4>2 DEF shmem_iput_nbi, StridedPut, StridedFrom, StridedAt
    <3>3. \A k \in 1..(c.n - 1) : put(1 + k - 1) = lists[k]
      BY <3>1, <3>2
    <3> HIDE DEF put
    <3> QED
      BY <2>2, <3>3
  <2> QED
    BY <2>1, <2>3
<1>4. own = [k \in 1..g |-> own[k]] /\ \A e \in 1..g : own[e] = StridedOwn(c, p, e)
  BY <1>1 DEF OwnElements, StridedOwn, StridedAt, StridedFrom
<1>5. /\ lists = [i \in 1..r |-> lists[i]]
      /\ \A i \in 1..r : lists[i] = [e \in 1..g |-> StridedPut(c, p, G[i], e)]
  BY <1>0, <1>1
<1>6. s = PutElements(c, p) /\ own = OwnElements(c, p)
  OBVIOUS
<1> HIDE DEF own, lists, s, G
<1>7. \A i \in 1..r : \A e \in 1..g : lists[i][e] = StridedPut(c, p, G[i], e)
  BY <1>5
<1>8. IsList(own) /\ Len(own) = g
  BY <1>4, WrittenList
<1>9. \A i \in 1..r : IsList(lists[i]) /\ Len(lists[i]) = g
  <2> SUFFICES ASSUME NEW i \in 1..r PROVE IsList(lists[i]) /\ Len(lists[i]) = g
    OBVIOUS
  <2>1. lists[i] = [e \in 1..g |-> lists[i][e]]
    BY <1>5
  <2> QED
    BY <2>1, WrittenList
<1>10. Evenly(s, lists, r, g)
  BY <1>3, <1>5, <1>9, LoopEvenly
<1>11. /\ \A k \in 1..Len(s) : \E i \in 1..r : \E j \in 1..g : s[k] = lists[i][j]
       /\ \A i \in 1..r : \A j \in 1..g : \E k \in 1..Len(s) : s[k] = lists[i][j]
  <2>1. AllOf(s, lists, r, g)
    BY <1>10, EvenlyAll
  <2> QED
    BY <2>1 DEF AllOf
<1>12. IsList(s) /\ Len(s) = r * g
  BY <1>10 DEF Evenly
<1>13. Joined(w, own, s)
  BY <1>8, <1>12, Joining
<1> HIDE DEF w
<1>14. IsList(w) /\ Len(w) = g + r * g /\ r * g \in Nat
  BY <1>8, <1>12, <1>13 DEF Joined
<1>15. ASSUME NEW k \in 1..g
       PROVE  k \in 1..Len(w) /\ w[k] = StridedOwn(c, p, k)
  <2>1. k \in 1..Len(own) /\ k \in 1..Len(w)
    BY <1>8, <1>14
  <2>2. w[k] = own[k]
    BY <1>13, <2>1 DEF Joined
  <2> QED
    BY <1>4, <2>1, <2>2
<1>16. ASSUME NEW j \in 1..Len(s)
       PROVE  g + j \in 1..Len(w) /\ w[g + j] = s[j]
  <2>1. g + j \in 1..Len(w)
    BY <1>12, <1>14
  <2> QED
    BY <1>8, <1>13, <2>1 DEF Joined
<1>17. ASSUME NEW k \in 1..Len(w)
       PROVE  StridedMove(c, p, w[k])
  <2>1. CASE k <= g
    <3>1. k \in 1..g
      BY <1>14, <2>1
    <3> QED
      BY <1>1, <1>15, <3>1 DEF StridedMove
  <2>2. CASE ~(k <= g)
    <3>1. PICK j \in 1..Len(s) : k = g + j
      BY <1>12, <1>14, <2>2, k - g \in 1..Len(s)
    <3>2. PICK i \in 1..r : \E e \in 1..g : s[j] = lists[i][e]
      BY <1>11
    <3>3. PICK e \in 1..g : s[j] = lists[i][e]
      BY <3>2
    <3>4. w[k] = StridedPut(c, p, G[i], e)
      BY <1>7, <1>16, <3>1, <3>3
    <3> QED
      BY <1>1, <1>2, <3>4 DEF StridedMove, G
  <2> QED
    BY <2>1, <2>2
<1>18. ASSUME NEW e \in 1..g, NEW i \in 1..r
       PROVE  \E k \in 1..Len(w) : w[k] = StridedPut(c, p, G[i], e)
  <2>1. PICK j \in 1..Len(s) : s[j] = lists[i][e]
    BY <1>11
  <2> QED
    BY <1>7, <1>16, <2>1
<1>19. StridedMoves(c, p, w)
  BY <1>1, <1>2, <1>14, <1>15, <1>17, <1>18 DEF StridedMoves, G
<1> QED
  BY <1>0, <1>1, <1>6, <1>14, <1>19 DEF w

\* What one of them moves: element e of the block for member q.
MovesElement(c, p, statement, q, e) ==
  /\ q \in Index(c) /\ e \in 1..nelems(c)
  /\ \/ statement.do = "put" /\ statement.pe = q
     \/ statement.do = "copy" /\ statement.to = "dest" /\ p = q
  /\ statement.from = "source" /\ statement.len = 1
  /\ statement.src = StridedFrom(c, q, e) /\ statement.at = StridedAt(c, p, e)

LEMMA StridedMoveMoves ==
  ASSUME NEW c, Strided(c), NEW p \in ActiveSet(c), NEW statement, StridedMove(c, p, statement)
  PROVE  \E q, e : MovesElement(c, p, statement, q, e)
<1>1. p \in Index(c) /\ \A i \in Index(c) : PEof(c, i) = i
  BY StridedMembers
<1>2. PICK e \in 1..nelems(c) :
        \/ \E i \in Rounds(c) : statement = StridedPut(c, p, Shift(c)[p][i], e)
        \/ statement = StridedOwn(c, p, e)
  BY DEF StridedMove
<1>3. ASSUME NEW i \in Rounds(c), statement = StridedPut(c, p, Shift(c)[p][i], e)
      PROVE  MovesElement(c, p, statement, Shift(c)[p][i], e)
  <2>1. Shift(c)[p][i] \in Index(c)
    BY <1>1, ShiftExchanging DEF Exchanging, Strided
  <2>2. PEof(c, Shift(c)[p][i]) = Shift(c)[p][i]
    BY <1>1, <2>1
  <2> QED
    BY <1>3, <2>1, <2>2 DEF MovesElement, StridedPut, PutNbi
<1>4. ASSUME statement = StridedOwn(c, p, e)
      PROVE  MovesElement(c, p, statement, p, e)
  BY <1>1, <1>4 DEF MovesElement, StridedOwn, Copy
<1> QED
  BY <1>2, <1>3, <1>4

StridedProgram(c, p) == \E s : StridedMoves(c, p, s) /\ HeadedBy(c, p, s)

LEMMA StridedStatement ==
  ASSUME NEW c, Strided(c), NEW p \in ActiveSet(c), StridedProgram(c, p),
         NEW k \in 1..Size(c, p)
  PROVE  \/ \E q, e : MovesElement(c, p, Stm(c, p, k), q, e)
         \/ Stm(c, p, k).do \in {"p", "add"} /\ Stm(c, p, k).pe \in ActiveSet(c)
         \/ Stm(c, p, k).do \in {"fence", "wait", "barrier"}
<1>1. PICK s : StridedMoves(c, p, s) /\ HeadedBy(c, p, s)
  BY DEF StridedProgram
<1>2. CASE k \in 1..Len(s)
  <2>1. Stm(c, p, k) = s[k] /\ StridedMove(c, p, s[k])
    BY <1>1, <1>2 DEF HeadedBy, StridedMoves
  <2> QED
    BY <2>1, StridedMoveMoves
<1>3. CASE k \notin 1..Len(s)
  BY <1>1, <1>3 DEF HeadedBy
<1> QED
  BY <1>2, <1>3

LEMMA StridedStraight ==
  ASSUME NEW c, Strided(c), \A p \in ActiveSet(c) : StridedProgram(c, p)
  PROVE  Called(c) /\ Straight(c)
<1>1. Team(c) /\ ActiveSet(c) \subseteq AllPEs(c)
  BY MembersIndexed DEF Strided
<1>2. Called(c)
  BY <1>1, StridedSizes DEF Called, Team, Strided
<1>3. ASSUME NEW p \in ActiveSet(c), NEW k \in 1..Size(c, p)
      PROVE  /\ Stm(c, p, k).do \in {"put", "p", "add", "fence", "copy", "wait", "barrier"}
             /\ Stm(c, p, k).do \in Sent => Stm(c, p, k).pe \in ActiveSet(c)
             /\ Stm(c, p, k).do = "copy" => Stm(c, p, k).to = "dest"
             /\ Stm(c, p, k).do \in Moved =>
                  /\ Stm(c, p, k).from = "source"
                  /\ Stm(c, p, k).at \in Nat /\ Stm(c, p, k).src \in Nat
                  /\ Stm(c, p, k).len \in Nat
                  /\ Stm(c, p, k).at + Stm(c, p, k).len <= DestLength(c)
                  /\ Stm(c, p, k).src + Stm(c, p, k).len <= SourceLength(c, p)
  <2>1. CASE \E q, e : MovesElement(c, p, Stm(c, p, k), q, e)
    <3>1. PICK q, e : MovesElement(c, p, Stm(c, p, k), q, e)
      BY <2>1
    <3>2. q \in Index(c) /\ e \in 1..nelems(c) /\ p \in Index(c) /\ q \in ActiveSet(c)
      BY <3>1, StridedMembers DEF MovesElement
    <3>3. /\ StridedAt(c, p, e) \in Nat /\ StridedAt(c, p, e) + 1 <= DestLength(c)
          /\ StridedFrom(c, q, e) \in Nat /\ StridedFrom(c, q, e) + 1 <= SourceLength(c, p)
      BY <3>2, StridedElement
    <3> QED
      BY <3>1, <3>2, <3>3 DEF MovesElement, Sent
  <2>2. CASE Stm(c, p, k).do \in {"p", "add"} /\ Stm(c, p, k).pe \in ActiveSet(c)
    BY <2>2 DEF Moved
  <2>3. CASE Stm(c, p, k).do \in {"fence", "wait", "barrier"}
    BY <2>3 DEF Moved, Sent
  <2> QED
    BY <2>1, <2>2, <2>3, StridedStatement
<1>4. ASSUME NEW p \in ActiveSet(c)
      PROVE  IsList(Program(c, p))
  BY DEF StridedProgram, HeadedBy
<1> QED
  BY <1>2, <1>3, <1>4 DEF Straight

LEMMA StridedGood ==
  ASSUME NEW c, Strided(c), \A p \in ActiveSet(c) : StridedProgram(c, p)
  PROVE  Good(c)
<1>1. Called(c) /\ Straight(c)
  BY StridedStraight
<1>2. ASSUME NEW p \in ActiveSet(c), NEW k \in 1..Size(c, p), NEW x \in Nat,
             Stm(c, p, k).do \in Moved, x < Stm(c, p, k).len
      PROVE  Element(c, p, Stm(c, p, k).src + x)
               = Result(c, Target(c, p, k))[Stm(c, p, k).at + x]
  <2>1. PICK q, e : MovesElement(c, p, Stm(c, p, k), q, e)
    BY <1>2, StridedStatement DEF Moved
  <2>2. q \in Index(c) /\ e \in 1..nelems(c) /\ p \in Index(c)
    BY <2>1, StridedMembers DEF MovesElement
  <2>3. /\ Stm(c, p, k).len = 1 /\ Target(c, p, k) = q
        /\ Stm(c, p, k).src = StridedFrom(c, q, e) /\ Stm(c, p, k).at = StridedAt(c, p, e)
    BY <2>1 DEF MovesElement, Target
  <2>4. /\ StridedAt(c, p, e) \in Nat /\ StridedFrom(c, q, e) \in Nat
        /\ Element(c, p, StridedFrom(c, q, e)) = Result(c, q)[StridedAt(c, p, e)]
    BY <2>2, StridedElement
  <2>5. x = 0
    BY <1>2, <2>3
  <2>6. /\ StridedAt(c, p, e) + x = StridedAt(c, p, e)
        /\ StridedFrom(c, q, e) + x = StridedFrom(c, q, e)
    BY <2>4, <2>5
  <2> QED
    BY <2>3, <2>4, <2>6
<1>3. ASSUME NEW q \in ActiveSet(c), NEW j \in 0..(DestLength(c) - 1), j % c.dst # 0
      PROVE  Result(c, q)[j] = 0
  BY <1>3 DEF Result, Strided
<1>4. ASSUME NEW q \in ActiveSet(c), NEW j \in 0..(DestLength(c) - 1), j % c.dst = 0
      PROVE  \E p \in ActiveSet(c) : \E k \in 1..Size(c, p) :
               /\ Stm(c, p, k).do \in Moved /\ Target(c, p, k) = q
               /\ Stm(c, p, k).at <= j /\ j < Stm(c, p, k).at + Stm(c, p, k).len
  <2>1. PICK m \in Index(c), e \in 1..nelems(c) : j = StridedAt(c, m, e)
    <3>1. PICK g \in Nat, n \in Nat, d \in Nat \ {0} : g = nelems(c) /\ n = c.n /\ d = c.dst
      BY StridedSizes DEF Strided
    <3>2. j \in 0..(n * d * g - 1) /\ j % d = 0
      BY <1>4, <3>1, StridedSizes
    <3>3. PICK m \in 0..(n - 1) : \E x \in 0..(g - 1) : j = m * d * g + x * d
      <4>1. InSomeStride(n, g, d, j)
        BY <3>2, StridedPlaced
      <4> QED
        BY <4>1 DEF InSomeStride
    <3>4. PICK x \in 0..(g - 1) : j = m * d * g + x * d
      BY <3>3
    <3>5. x + 1 \in 1..g /\ (x + 1) - 1 = x
      OBVIOUS
    <3>6. j = StridedAt(c, m, x + 1)
      BY <3>1, <3>4, <3>5 DEF StridedAt
    <3> QED
      BY <3>1, <3>5, <3>6 DEF Index
  <2>2. m \in ActiveSet(c) /\ q \in Index(c) /\ PEof(c, q) = q
    BY StridedMembers
  <2>3. PICK s : StridedMoves(c, m, s) /\ HeadedBy(c, m, s)
    BY <2>2 DEF StridedProgram
  <2>4. \A k \in 1..Len(s) : k \in 1..Size(c, m) /\ Stm(c, m, k) = s[k]
    BY <2>3 DEF HeadedBy
  <2>5. StridedAt(c, m, e) \in Nat
    BY <2>1, <2>2, StridedElement
  <2>6. CASE m = q
    <3>1. PICK k \in 1..Len(s) : s[k] = StridedOwn(c, m, e)
      BY <2>3 DEF StridedMoves
    <3>2. k \in 1..Size(c, m) /\ Stm(c, m, k) = StridedOwn(c, m, e)
      BY <2>4, <3>1
    <3>3. /\ Stm(c, m, k).do = "copy" /\ Stm(c, m, k).at = StridedAt(c, m, e)
          /\ Stm(c, m, k).len = 1
      BY <3>2 DEF StridedOwn, Copy
    <3> QED
      BY <2>1, <2>2, <2>5, <2>6, <3>2, <3>3 DEF Moved, Target
  <2>7. CASE m # q
    <3>1. Reached(c, Shift(c), m, q)
      BY <2>2, <2>7, EachReached, ShiftExchanging DEF Strided
    <3>2. PICK i \in Rounds(c) : Shift(c)[m][i] = q
      BY <3>1 DEF Reached
    <3>3. PICK k \in 1..Len(s) : s[k] = StridedPut(c, m, q, e)
      BY <2>3, <3>2 DEF StridedMoves
    <3>4. k \in 1..Size(c, m) /\ Stm(c, m, k) = StridedPut(c, m, q, e)
      BY <2>4, <3>3
    <3>5. /\ Stm(c, m, k).do = "put" /\ Stm(c, m, k).at = StridedAt(c, m, e)
          /\ Stm(c, m, k).len = 1 /\ Stm(c, m, k).pe = q
      BY <2>2, <3>4 DEF StridedPut, PutNbi
    <3> QED
      BY <2>1, <2>2, <2>5, <3>4, <3>5 DEF Moved, Target
  <2> QED
    BY <2>6, <2>7
<1>5. Carries(c)
  BY <1>2, <1>3, <1>4 DEF Carries
<1> QED
  BY <1>1, <1>5 DEF Good

\* the calls of alltoalls on the first PEs
StridedCall(c) == Strided(c) /\ c.name \in {"barrier", "counter"}

LEMMA StridedCovered ==
  ASSUME NEW c, StridedCall(c)
  PROVE  Covered(c)
<1>1. Strided(c) /\ Team(c) /\ Exchanging(c, Shift(c))
  BY ShiftExchanging DEF StridedCall, Strided
<1>2. \A p : Program(c, p) = SHCOLL_ALLTOALLS_DEFINITION(c, p)
  BY <1>1 DEF Program, Statements, Strided
<1> DEFINE Opening(p) == OwnElements(c, p) \o PutElements(c, p)
<1>3. PICK a \in Nat : a = nelems(c) + (c.n - 1) * nelems(c)
  <2>1. nelems(c) \in Nat /\ c.n - 1 \in Nat
    BY <1>1, StridedSizes
  <2> QED
    BY <2>1
<1>4. ASSUME NEW p \in ActiveSet(c)
      PROVE  /\ StridedMoves(c, p, Opening(p)) /\ Len(Opening(p)) = a
             /\ OnlyMoves(c, Shift(c), p, Opening(p)) /\ Me(c, p) = p
  <2>1. StridedMoves(c, p, Opening(p)) /\ Len(Opening(p)) = a
    BY <1>1, <1>3, StridedHead
  <2>2. Me(c, p) = p
    BY <1>1, StridedMembers
  <2> HIDE DEF Opening
  <2>3. ASSUME NEW k \in 1..Len(Opening(p))
        PROVE  /\ Opening(p)[k].do \in {"put", "copy"}
               /\ Opening(p)[k].do = "put" =>
                    \E i \in Rounds(c) : Opening(p)[k].pe = PEof(c, Shift(c)[p][i])
    <3>1. StridedMove(c, p, Opening(p)[k])
      BY <2>1 DEF StridedMoves
    <3>2. CASE \E e, i : i \in Rounds(c) /\ Opening(p)[k] = StridedPut(c, p, Shift(c)[p][i], e)
      BY <3>2 DEF StridedPut, PutNbi
    <3>3. CASE \E e : Opening(p)[k] = StridedOwn(c, p, e)
      BY <3>3 DEF StridedOwn, Copy
    <3> QED
      BY <3>1, <3>2, <3>3 DEF StridedMove
  <2> QED
    BY <2>1, <2>2, <2>3 DEF OnlyMoves, StridedMoves
<1> HIDE DEF Opening
<1>5. CASE c.name = "barrier"
  <2>1. ASSUME NEW p \in ActiveSet(c)
        PROVE  Program(c, p) = Opening(p) \o <<Barrier>>
    BY <1>2, <1>5 DEF SHCOLL_ALLTOALLS_DEFINITION, SHCOLL_ALLTOALLS_BARRIER, Opening
  <2>2. Barriered(c)
    BY <1>4, <2>1, MeetsAtEnd
  <2>3. ASSUME NEW p \in ActiveSet(c)
        PROVE  StridedProgram(c, p)
    <3>1. HeadedBy(c, p, Opening(p))
      BY <1>4, <2>1, MovesThenMeets
    <3> QED
      BY <1>4, <3>1 DEF StridedProgram
  <2> QED
    BY <1>1, <2>2, <2>3, StridedGood DEF Covered
<1>6. CASE c.name = "counter"
  <2>1. ASSUME NEW p \in ActiveSet(c)
        PROVE  Counts(c, Shift(c), p) /\ StridedProgram(c, p)
    <3> DEFINE adds == [i \in 1..(c.n - 1) |-> AtomicInc(0, PEof(c, Shift(c)[Me(c, p)][i]))]
    <3>1. adds = [i \in 1..(c.n - 1) |-> AtomicInc(0, PEof(c, SHIFT_PEER(i, Me(c, p), c.n)))]
      <4>1. Me(c, p) \in Index(c)
        BY <1>1, MembersIndexed
      <4>2. \A i \in 1..(c.n - 1) : Shift(c)[Me(c, p)][i] = SHIFT_PEER(i, Me(c, p), c.n)
        BY <4>1 DEF Shift, Rounds
      <4> QED
        BY <4>2
    <3>2. Program(c, p) = ((Opening(p) \o <<Fence>>) \o adds)
            \o <<Wait(0, "EQ", SHCOLL_SYNC_VALUE + c.n - 1), P(0, SHCOLL_SYNC_VALUE, p)>>
      BY <1>2, <1>6, <3>1 DEF SHCOLL_ALLTOALLS_DEFINITION, SHCOLL_ALLTOALLS_COUNTER, Opening
    <3>3. adds = [i \in 1..(c.n - 1) |-> AtomicInc(0, PEof(c, Shift(c)[Me(c, p)][i]))]
      OBVIOUS
    <3>4. OnlyMoves(c, Shift(c), p, Opening(p))
      BY <1>4
    <3> HIDE DEF adds
    <3>5. HeadedBy(c, p, Opening(p)) /\ Counts(c, Shift(c), p)
      BY <1>1, <3>2, <3>3, <3>4, MovesThenCounts
    <3> QED
      BY <1>4, <3>5 DEF StridedProgram
  <2> QED
    BY <1>1, <2>1, StridedGood, CountsSignalled DEF Covered
<1> QED
  BY <1>5, <1>6 DEF StridedCall

------------------------------------------------------------------------------
\* What every such call keeps to.

CoveredCall(c) == AlltoallCall(c) \/ FcollectCall(c) \/ StridedCall(c)

CallInv(c) ==
  /\ Covered(c)
  /\ FlowInv(c)
  /\ Signalled(c) => SignalInv(c)
  /\ Barriered(c) => BarrierInv(c)
CallsInv == \E c \in Cases : CallInv(c)

LEMMA CallAtFirst ==
  ASSUME ExchangeInit, CoveredCall(case)
  PROVE  CallsInv
<1>1. PICK c : c = case
  OBVIOUS
<1>2. c \in Cases
  BY <1>1 DEF ExchangeInit
<1>3. Covered(c) /\ Good(c)
  BY <1>1, AlltoallCovered, FcollectCovered, StridedCovered DEF CoveredCall, Covered
<1>4. FlowInv(c) /\ (Signalled(c) => SignalInv(c)) /\ (Barriered(c) => BarrierInv(c))
  BY <1>1, <1>3, FlowAtFirst, SignalsAtFirst, BarriersAtFirst
<1> QED
  BY <1>2, <1>3, <1>4 DEF CallsInv, CallInv

LEMMA CallKept ==
  ASSUME CallsInv, [ExchangeNext]_exchangeVars
  PROVE  CallsInv'
<1>1. PICK c \in Cases : CallInv(c)
  BY DEF CallsInv
<1>2. Covered(c) /\ Good(c) /\ FlowInv(c)
  BY <1>1 DEF CallInv, Covered
<1>3. FlowInv(c)'
  BY <1>2, FlowKept
<1>4. ASSUME Signalled(c) PROVE SignalInv(c)'
  BY <1>1, <1>2, <1>4, SignalsKept DEF CallInv
<1>5. ASSUME Barriered(c) PROVE BarrierInv(c)'
  BY <1>1, <1>2, <1>5, BarriersKept DEF CallInv
<1>6. CallInv(c)'
  BY <1>2, <1>3, <1>4, <1>5 DEF CallInv
<1> QED
  BY <1>6 DEF CallsInv

LEMMA CallGives ==
  ASSUME CallsInv
  PROVE  ReturnsWithResult /\ StaysInBuffers /\ PSyncGivenBack /\ NobodyStuck
<1>1. PICK c \in Cases : CallInv(c)
  BY DEF CallsInv
<1>2. Good(c) /\ FlowInv(c)
  BY <1>1 DEF CallInv, Covered
<1>3. StaysInBuffers
  BY <1>2, FlowInBuffers
<1>4. CASE Signalled(c)
  <2>1. SignalInv(c)
    BY <1>1, <1>4 DEF CallInv
  <2> QED
    BY <1>2, <1>3, <1>4, <2>1, SignalledReturn, SignalledGiveBack, SignalledGoOn
<1>5. CASE Barriered(c)
  <2>1. BarrierInv(c)
    BY <1>1, <1>5 DEF CallInv
  <2> QED
    BY <1>2, <1>3, <1>5, <2>1, BarrieredReturn, BarrieredGiveBack, BarrieredGoOn
<1> QED
  BY <1>1, <1>4, <1>5 DEF CallInv, Covered

LEMMA CallAlways == ExchangeSpec /\ CoveredCall(case) => []CallsInv
<1>1. ExchangeInit /\ CoveredCall(case) => CallsInv
  BY CallAtFirst
<1>2. CallsInv /\ [ExchangeNext]_exchangeVars => CallsInv'
  BY CallKept
<1> QED
  BY <1>1, <1>2, PTL DEF ExchangeSpec

\* Whatever the number of members, the stride, the sizes and the rounds between two
\* barriers, and in whatever order the puts, the flags and the counts land, a PE that
\* returns from one of alltoall's algorithms, from one of alltoalls on the first PEs, or
\* from an all_linear one of fcollect, has every member's block in its place.
THEOREM ExchangeReturnsWithResult == ExchangeSpec /\ CoveredCall(case) => []ReturnsWithResult
<1>1. CallsInv => ReturnsWithResult
  BY CallGives
<1> QED
  BY <1>1, CallAlways, PTL

\* None of these calls puts outside of the buffers it was given, or to a PE that is not
\* a member.
THEOREM ExchangeStaysInBuffers == ExchangeSpec /\ CoveredCall(case) => []StaysInBuffers
<1>1. CallsInv => StaysInBuffers
  BY CallGives
<1> QED
  BY <1>1, CallAlways, PTL

\* When all have returned and nothing is on its way, every pSync is as the next call
\* expects it: the resets have met the signals and the counts.
THEOREM ExchangePSyncGivenBack == ExchangeSpec /\ CoveredCall(case) => []PSyncGivenBack
<1>1. CallsInv => PSyncGivenBack
  BY CallGives
<1> QED
  BY <1>1, CallAlways, PTL

\* When nothing is on its way all have returned or some PE can go on: no member waits for
\* a signal, a count or a barrier that will not come.
THEOREM ExchangeNobodyStuck == ExchangeSpec /\ CoveredCall(case) => []NobodyStuck
<1>1. CallsInv => NobodyStuck
  BY CallGives
<1> QED
  BY <1>1, CallAlways, PTL

==============================================================================
