------------------------- MODULE TreeBroadcast_proof -------------------------
(***************************************************************************)
(* For every active set, every tree over it, every division of the         *)
(* children into batches, either kind of signal and every number of        *)
(* broadcasts, as long as the root and only the root takes itself for the  *)
(* root (TestsRight), and whenever the puts, signals, acks and resets      *)
(* land: IInv is an invariant of the tree broadcasts, hence a PE returns   *)
(* with the data, nothing still reads its buffer, a reset never meets a    *)
(* signal or an ack, the pSync is as it was found after the barrier, and   *)
(* the algorithm implements module Broadcast.                              *)
(***************************************************************************)
EXTENDS TreeBroadcast, FiniteSetTheorems, TLAPS

------------------------------------------------------------------------------
\* The tree and the batches.

\* The tree has no loop of one or two PEs, and its edges are between PEs.
LEMMA TreeFacts ==
  /\ \A p \in PE : Children(p) \subseteq PE /\ IsFiniteSet(Children(p))
  /\ \A p \in PE : \A c \in Children(p) : c \in PE \ {Root} /\ Parent[c] = p
  /\ \A c \in PE \ {Root} : Parent[c] \in PE /\ c \in Children(Parent[c])
  /\ \A p \in PE : \A c \in Children(p) : c # p /\ p \notin Children(c)
<1>1. \A p \in PE : Children(p) \subseteq PE
  <2> SUFFICES ASSUME NEW p \in PE, NEW i \in DOMAIN Batches[p]
               PROVE  Batches[p][i] \subseteq PE
    BY DEF Children
  <2>1. Batches[p] \in Seq(SUBSET PE)
    BY TreeAssumption
  <2> QED
    BY <2>1
<1>2. \A p \in PE : IsFiniteSet(Children(p))
  BY <1>1, TreeAssumption, FS_Subset
<1>3. \A p \in PE : \A c \in Children(p) : c \in PE \ {Root} /\ Parent[c] = p
  BY <1>1, TreeAssumption
<1>4. \A c \in PE \ {Root} : Parent[c] \in PE /\ c \in Children(Parent[c])
  BY TreeAssumption
<1>5. ASSUME NEW p \in PE, NEW c \in Children(p), c = p \/ p \in Children(c)
      PROVE  FALSE
  <2>1. c \in PE \ {Root} /\ p \in PE \ {Root} /\ Parent[c] = p /\ Parent[p] = c
    BY <1>3, <1>5
  <2> DEFINE S == PE \ {p, c}
  <2>2. S \in SUBSET PE /\ Root \in S
    BY <2>1, TreeAssumption
  <2>3. \A d \in PE \ {Root} : Parent[d] \in S => d \in S
    BY <2>1
  <2>4. S = PE
    BY <2>2, <2>3, TreeAssumption
  <2> QED
    BY <2>4
<1> QED
  BY <1>1, <1>2, <1>3, <1>4, <1>5

LEMMA PostedFacts ==
  ASSUME TypeOK, NEW p \in PE
  PROVE  /\ Posted(p) \subseteq Children(p)
         /\ sent[p] = 0 => Posted(p) = {}
         /\ sent[p] = Len(Batches[p]) => Posted(p) = Children(p)
<1>1. Batches[p] \in Seq(SUBSET PE) /\ sent[p] \in Nat /\ sent[p] <= Len(Batches[p])
  BY TreeAssumption DEF TypeOK
<1>2. DOMAIN Batches[p] = 1..Len(Batches[p]) /\ Len(Batches[p]) \in Nat
  BY <1>1
<1>3. 1..sent[p] \subseteq DOMAIN Batches[p]
  BY <1>1, <1>2
<1>4. Posted(p) \subseteq Children(p)
  BY <1>3 DEF Posted, Children
<1>5. ASSUME sent[p] = 0 PROVE Posted(p) = {}
  <2>1. 1..sent[p] = {}
    BY <1>5
  <2> QED
    BY <2>1 DEF Posted
<1>6. ASSUME sent[p] = Len(Batches[p]) PROVE Posted(p) = Children(p)
  BY <1>2, <1>6 DEF Posted, Children
<1> QED
  BY <1>4, <1>5, <1>6

\* The next batch is of children that nothing was posted to in this call.
LEMMA NextBatch ==
  ASSUME TypeOK, NEW p \in PE, sent[p] < Len(Batches[p]), sent'[p] = sent[p] + 1
  PROVE  /\ Batches[p][sent[p] + 1] \subseteq Children(p)
         /\ Batches[p][sent[p] + 1] \cap Posted(p) = {}
         /\ Posted(p)' = Posted(p) \cup Batches[p][sent[p] + 1]
<1> DEFINE n == sent[p]
           B == Batches[p]
<1>1. B \in Seq(SUBSET PE) /\ n \in Nat
  BY TreeAssumption DEF TypeOK
<1>2. DOMAIN B = 1..Len(B) /\ Len(B) \in Nat
  BY <1>1
<1>3. n + 1 \in DOMAIN B
  BY <1>1, <1>2
<1>4. B[n + 1] \subseteq Children(p)
  BY <1>3 DEF Children
<1>5. B[n + 1] \cap Posted(p) = {}
  <2> SUFFICES ASSUME NEW i \in 1..n PROVE B[i] \cap B[n + 1] = {}
    BY DEF Posted
  <2>1. i \in DOMAIN B /\ i # n + 1
    BY <1>1, <1>2
  <2> QED
    BY <1>3, <2>1, TreeAssumption
<1>6. 1..(n + 1) = (1..n) \cup {n + 1}
  BY <1>1
<1>7. Posted(p)' = UNION {B[i] : i \in 1..(n + 1)}
  BY DEF Posted
<1>8. UNION {B[i] : i \in 1..(n + 1)} = (UNION {B[i] : i \in 1..n}) \cup B[n + 1]
  BY <1>6
<1> QED
  BY <1>4, <1>5, <1>7, <1>8 DEF Posted

------------------------------------------------------------------------------
\* Consequences of the invariant on the edges of the tree.

LEMMA EdgeTypes ==
  ASSUME TypeOK, NEW p \in PE
  PROVE  /\ left[p] \in Nat /\ entered[p] \in Nat /\ acked(p) \in Nat
         /\ \A q \in PE : poke[p][q] \in {0, 1}
         /\ p # Root => signalled(p) \in Nat /\ Parent[p] \in PE
<1>1. left \in [PE -> 0..MaxEpoch] /\ entered \in [PE -> 0..MaxEpoch] /\ MaxEpoch \in Nat
  BY ParameterAssumption DEF TypeOK
<1>2. \A q \in PE : left[q] \in Nat /\ entered[q] \in Nat
  BY <1>1
<1>3. p # Root => Parent[p] \in PE
  BY TreeFacts
<1>4. \A q \in PE : poke[p][q] \in {0, 1}
  BY DEF TypeOK
<1> QED
  BY <1>2, <1>3, <1>4 DEF acked, signalled

\* The barrier between two broadcasts keeps the PEs within one call.
LEMMA CloseCalls ==
  ASSUME TypeOK, Aligned, NEW p \in PE, NEW q \in PE
  PROVE  entered[p] <= left[q] + 1
<1>1. entered[p] \in Nat /\ met[q] \in Nat /\ left[q] \in Nat
  BY ParameterAssumption DEF TypeOK
<1>2. met[q] <= left[q] /\ entered[p] <= met[q] + 1
  BY DEF Aligned
<1> QED
  BY <1>1, <1>2

LEMMA EdgeBounds ==
  ASSUME IInv, NEW c \in PE \ {Root}
  PROVE  /\ left[c] <= signalled(c) /\ signalled(c) <= left[c] + 1
         /\ left[Parent[c]] <= acked(c) /\ acked(c) <= signalled(c)
         /\ left[Parent[c]] <= signalled(c) /\ signalled(c) <= left[Parent[c]] + 1
         /\ left[c] <= acked(c) /\ acked(c) <= left[c] + 1
         /\ signalled(c) = left[Parent[c]] + 1 <=>
              pc[Parent[c]] \in {"send", "restore"} /\ c \in Posted(Parent[c])
<1> DEFINE q == Parent[c]
<1> USE DEF IInv
<1>1. /\ q \in PE /\ left[c] \in Nat /\ left[q] \in Nat /\ signalled(c) \in Nat
      /\ acked(c) \in Nat /\ poke[q][c] \in {0, 1} /\ poke[c][q] \in {0, 1}
  BY EdgeTypes
<1>2. left[c] <= signalled(c)
  BY <1>1 DEF EdgeBalance, SignalIn
<1>3. left[q] <= acked(c)
  BY <1>1 DEF EdgeBalance, AckIn
<1>4. left[c] <= acked(c) /\ acked(c) <= left[c] + 1
  BY <1>1 DEF acked
<1>5. left[q] <= signalled(c) /\ signalled(c) <= left[q] + 1
  BY <1>1 DEF signalled
<1>6. signalled(c) = left[q] + 1 <=> pc[q] \in {"send", "restore"} /\ c \in Posted(q)
  BY <1>1 DEF signalled
<1>7. ASSUME pc[q] # "out" PROVE left[q] <= left[c]
  BY <1>1, <1>7, CloseCalls DEF Phases
<1>8. ASSUME pc[c] # "out" PROVE left[c] <= left[q]
  BY <1>1, <1>8, CloseCalls DEF Phases
<1>9. signalled(c) <= left[c] + 1
  <2>1. CASE pc[q] = "out"
    <3>1. signalled(c) = left[q]
      BY <2>1, <1>1, <1>5, <1>6
    <3> QED
      BY <3>1, <1>1, <1>3, <1>4
  <2>2. CASE pc[q] # "out"
    BY <2>2, <1>1, <1>5, <1>7
  <2> QED
    BY <2>1, <2>2
<1>10. acked(c) <= signalled(c)
  <2>1. CASE pc[c] \in {"send", "restore"}
    <3>1. signalled(c) = left[c] + poke[q][c] + 1
      BY <2>1 DEF Received, SignalIn
    <3> QED
      BY <3>1, <1>1, <1>4
  <2>2. CASE pc[c] \notin {"send", "restore"}
    BY <2>2, <1>1, <1>2 DEF acked
  <2> QED
    BY <2>1, <2>2
<1> QED
  BY <1>2, <1>3, <1>4, <1>5, <1>6, <1>9, <1>10

\* No ack is in the word of a PE that its parent has not signalled yet.
LEMMA SignalBeforeAcks ==
  ASSUME IInv, NEW p \in PE, p # Root, ~SignalIn(p)
  PROVE  {c \in Children(p) : AckIn(c)} = {}
<1> SUFFICES ASSUME NEW c \in Children(p), AckIn(c) PROVE FALSE
  OBVIOUS
<1>1. c \in PE \ {Root} /\ Parent[c] = p /\ left[p] \in Nat /\ poke[c][p] \in {0, 1}
      /\ signalled(c) \in Nat /\ acked(c) \in Nat
  BY TreeFacts, EdgeTypes DEF IInv
<1>2. acked(c) <= signalled(c) /\ signalled(c) <= left[p] + 1
  BY <1>1, EdgeBounds
<1>3. acked(c) = left[p] + poke[c][p] + 1
  BY <1>1 DEF AckIn
<1>4. signalled(c) = left[p] + 1
  BY <1>1, <1>2, <1>3
<1>5. pc[p] \in {"send", "restore"}
  BY <1>1, <1>4, EdgeBounds
<1> QED
  BY <1>5 DEF IInv, Received

\* Data in flight are of the call both ends are in, and not yet signalled.
LEMMA DataInFlight ==
  ASSUME IInv, NEW s \in PE, NEW d \in put[s]
  PROVE  /\ d \in PE \ {Root} /\ Parent[d] = s
         /\ pc[s] = "send" /\ poke[s][d] = 1 /\ ~SignalIn(d)
         /\ left[d] = left[s] /\ signalled(d) = left[s] + 1
         /\ pc[d] \notin {"send", "restore"}
<1>1. d \in Children(s) /\ poke[s][d] = 1 /\ pc[s] = "send"
  BY DEF IInv, TypeOK, SignalBehind
<1>2. d \in PE \ {Root} /\ Parent[d] = s
  BY <1>1, TreeFacts
<1>3. left[d] \in Nat /\ left[s] \in Nat /\ signalled(d) \in Nat
  BY <1>2, EdgeTypes DEF IInv
<1>4. signalled(d) <= left[d] + 1 /\ left[s] <= signalled(d)
      /\ signalled(d) <= left[s] + 1
  BY <1>2, EdgeBounds
<1>5. ~SignalIn(d) /\ signalled(d) = left[d] + 1
  BY <1>1, <1>2, <1>3, <1>4 DEF IInv, EdgeBalance, SignalIn
<1>6. left[d] >= left[s]
  BY <1>1, <1>2, <1>3, CloseCalls, EdgeTypes DEF IInv, Phases
<1>7. pc[d] \notin {"send", "restore"}
  BY <1>2, <1>5 DEF IInv, Received
<1> QED
  BY <1>1, <1>2, <1>3, <1>4, <1>5, <1>6, <1>7

\* While a PE's reset is in flight nobody has called the next broadcast, and all
\* the signals and acks of this one have come: the reset erases none of them.
LEMMA ResetAlone ==
  ASSUME IInv, NEW p \in PE, clear[p] # 0
  PROVE  /\ clear[p] = 1 /\ pc[p] = "out"
         /\ p # Root => ~SignalIn(p) /\ poke[Parent[p]][p] = 0
         /\ \A c \in Children(p) : ~AckIn(c) /\ poke[c][p] = 0
<1>1. clear[p] = 1 /\ pc[p] = "out" /\ met[p] < left[p]
  BY DEF IInv, LateResets
<1>2. ASSUME NEW q \in PE PROVE entered[q] <= left[p]
  <2>1. entered[q] \in Nat /\ met[p] \in Nat /\ left[p] \in Nat
    BY ParameterAssumption DEF IInv, TypeOK
  <2>2. entered[q] <= met[p] + 1
    BY DEF IInv, Aligned
  <2> QED
    BY <1>1, <2>1, <2>2
<1>3. ASSUME p # Root PROVE ~SignalIn(p) /\ poke[Parent[p]][p] = 0
  <2> DEFINE q == Parent[p]
  <2>1. /\ q \in PE /\ left[p] \in Nat /\ left[q] \in Nat /\ entered[q] \in Nat
        /\ signalled(p) \in Nat /\ poke[q][p] \in {0, 1}
    BY <1>3, EdgeTypes DEF IInv
  <2>2. signalled(p) <= entered[q]
    BY <2>1 DEF IInv, Phases, signalled
  <2>3. signalled(p) <= left[p]
    BY <2>1, <2>2, <1>2
  <2>4. SignalIn(p) \/ signalled(p) = left[p] + poke[q][p]
    BY <1>3 DEF IInv, EdgeBalance
  <2> QED
    BY <2>1, <2>3, <2>4 DEF SignalIn
<1>4. ASSUME NEW c \in Children(p) PROVE ~AckIn(c) /\ poke[c][p] = 0
  <2>1. c \in PE \ {Root} /\ Parent[c] = p
    BY TreeFacts
  <2>2. /\ left[p] \in Nat /\ left[c] \in Nat /\ entered[c] \in Nat
        /\ acked(c) \in Nat /\ poke[c][p] \in {0, 1}
    BY <2>1, EdgeTypes DEF IInv
  <2>3. acked(c) <= entered[c]
    BY <2>1, <2>2 DEF IInv, Phases, acked
  <2>4. acked(c) <= left[p]
    BY <2>1, <2>2, <2>3, <1>2
  <2>5. AckIn(c) \/ acked(c) = left[p] + poke[c][p]
    BY <2>1 DEF IInv, EdgeBalance
  <2> QED
    BY <2>1, <2>2, <2>4, <2>5 DEF AckIn
<1> QED
  BY <1>1, <1>3, <1>4

------------------------------------------------------------------------------
\* The words.

\* A step that delivers nothing and moves no mark keeps the words counted.
LEMMA SameWords ==
  ASSUME IInv, pSync' = pSync, clear' = clear,
         \A c \in PE \ {Root} :
           (SignalIn(c)' <=> SignalIn(c)) /\ (AckIn(c)' <=> AckIn(c))
  PROVE  Counting'
<1> SUFFICES ASSUME NEW p \in PE, clear[p] = 0
             PROVE  pSync[p] = Cardinality({c \in Children(p) : AckIn(c)'})
                                 + (IF p # Root /\ SignalIn(p)' THEN 1 ELSE 0)
  BY DEF Counting
<1>1. {c \in Children(p) : AckIn(c)'} = {c \in Children(p) : AckIn(c)}
  BY TreeFacts
<1>2. p # Root => (SignalIn(p)' <=> SignalIn(p))
  OBVIOUS
<1> QED
  BY <1>1, <1>2 DEF IInv, Counting

\* What a word counts is finite, and at most one ack of each child.
LEMMA AcksFinite ==
  ASSUME NEW p \in PE
  PROVE  /\ IsFiniteSet({c \in Children(p) : AckIn(c)})
         /\ Cardinality({c \in Children(p) : AckIn(c)}) \in Nat
         /\ Cardinality(Children(p)) \in Nat
         /\ Cardinality({c \in Children(p) : AckIn(c)}) <= Cardinality(Children(p))
         /\ Cardinality({c \in Children(p) : AckIn(c)}) = Cardinality(Children(p))
              => \A c \in Children(p) : AckIn(c)
<1> DEFINE A == {c \in Children(p) : AckIn(c)}
<1>1. A \subseteq Children(p) /\ IsFiniteSet(Children(p))
  BY TreeFacts
<1>2. /\ IsFiniteSet(A) /\ Cardinality(A) <= Cardinality(Children(p))
      /\ Cardinality(A) = Cardinality(Children(p)) => A = Children(p)
  BY <1>1, FS_Subset
<1>3. Cardinality(A) \in Nat /\ Cardinality(Children(p)) \in Nat
  BY <1>1, <1>2, FS_CardinalityType
<1> QED
  BY <1>2, <1>3

\* The bound of TypeOK on the words follows from what they count.
LEMMA WordBound ==
  ASSUME Counting, NEW p \in PE, clear[p] = 0
  PROVE  pSync[p] \in Nat
         /\ pSync[p] <= Cardinality(Children(p)) + (IF p = Root THEN 0 ELSE 1)
<1> DEFINE n == Cardinality({c \in Children(p) : AckIn(c)})
<1>1. n \in Nat /\ Cardinality(Children(p)) \in Nat /\ n <= Cardinality(Children(p))
  BY AcksFinite
<1>2. pSync[p] = n + (IF p # Root /\ SignalIn(p) THEN 1 ELSE 0)
  BY DEF Counting
<1> HIDE DEF n
<1> QED
  BY <1>1, <1>2

\* ... in the next state too.
LEMMA WordBoundNext ==
  ASSUME Counting', NEW p \in PE, clear'[p] = 0
  PROVE  pSync'[p] \in Nat
         /\ pSync'[p] <= Cardinality(Children(p)) + (IF p = Root THEN 0 ELSE 1)
<1> DEFINE A == {c \in Children(p) : AckIn(c)'}
<1>1. A \subseteq Children(p) /\ IsFiniteSet(Children(p))
  BY TreeFacts
<1>2. /\ Cardinality(A) <= Cardinality(Children(p))
      /\ Cardinality(A) \in Nat /\ Cardinality(Children(p)) \in Nat
  BY <1>1, FS_Subset, FS_CardinalityType
<1>3. pSync'[p] = Cardinality(A) + (IF p # Root /\ SignalIn(p)' THEN 1 ELSE 0)
  BY DEF Counting
<1> HIDE DEF A
<1> QED
  BY <1>2, <1>3

------------------------------------------------------------------------------
\* The inductive invariant, one lemma per action.

\* Nothing has happened yet.
THEOREM InitIInv == Init => IInv
<1> SUFFICES ASSUME Init PROVE IInv
  OBVIOUS
<1>1. \A c \in PE \ {Root} :
        /\ c \in PE /\ Parent[c] \in PE
        /\ signalled(c) = 0 /\ acked(c) = 0
        /\ left[c] = 0 /\ left[Parent[c]] = 0
        /\ poke[c][Parent[c]] = 0 /\ poke[Parent[c]][c] = 0
  BY TreeFacts DEF Init, signalled, acked
<1>2. \A c \in PE \ {Root} : ~SignalIn(c) /\ ~AckIn(c)
  BY <1>1 DEF SignalIn, AckIn
<1>3. EdgeBalance
  BY <1>1 DEF EdgeBalance
<1>4. Counting
  <2> SUFFICES ASSUME NEW p \in PE
               PROVE  Cardinality({c \in Children(p) : AckIn(c)}) = 0
    BY <1>2 DEF Counting, Init
  <2>1. {c \in Children(p) : AckIn(c)} = {}
    BY <1>2, TreeFacts
  <2> QED
    BY <2>1, FS_EmptySet
<1>5. TypeOK
  <2>1. \A p \in PE : pSync[p] <= Cardinality(Children(p)) + (IF p = Root THEN 0 ELSE 1)
    BY <1>4, WordBound DEF Init
  <2>2. \A p \in PE : Len(Batches[p]) \in Nat
    BY TreeAssumption
  <2> QED
    BY <2>1, <2>2, ParameterAssumption DEF Init, TypeOK, Other
<1>6. HasData
  BY <1>1 DEF HasData, Init
<1>7. /\ Received /\ AllAcked /\ SignalBehind /\ OnlyOnEdges /\ Phases /\ Aligned
      /\ LateResets
  BY DEF Init, Received, AllAcked, SignalBehind, OnlyOnEdges, Phases, Aligned, LateResets
<1>8. RootFirst
  BY TreeAssumption DEF Init, RootFirst, acked
<1> QED
  BY <1>3, <1>4, <1>5, <1>6, <1>7, <1>8 DEF IInv

\* A step that touches data only: what it must keep is the rest of HasData.
LEMMA DataStep ==
  ASSUME IInv, UNCHANGED <<pc, sent, pSync, poke, clear, met, entered, left>>,
         put' \in [PE -> SUBSET PE], \A p \in PE : put'[p] \subseteq put[p],
         buf' \in [PE -> 0..MaxEpoch], HasData'
  PROVE  IInv'
<1>1. \A c \in PE \ {Root} :
        (SignalIn(c)' <=> SignalIn(c)) /\ (AckIn(c)' <=> AckIn(c))
        /\ signalled(c)' = signalled(c)
  BY DEF SignalIn, AckIn, signalled, acked, Posted
<1>2. Counting'
  BY <1>1, SameWords
<1>3. TypeOK'
  BY DEF IInv, TypeOK
<1>4. EdgeBalance' /\ Received' /\ AllAcked'
  BY <1>1, TreeFacts DEF IInv, EdgeBalance, Received, AllAcked, acked
<1>5. SignalBehind'
  BY DEF IInv, SignalBehind
<1> QED
  BY <1>2, <1>3, <1>4, <1>5
  DEF IInv, Phases, Aligned, LateResets, OnlyOnEdges, RootFirst, acked

LEMMA LandStep ==
  ASSUME IInv, NEW s \in PE, NEW d \in PE, Land(s, d)
  PROVE  IInv' /\ buf'[d] = left[s] + 1
<1> USE DEF Land
<1>1. /\ d \in put[s] /\ d \in PE \ {Root} /\ Parent[d] = s /\ pc[s] = "send"
      /\ left[d] = left[s] /\ pc[d] \notin {"send", "restore"}
  BY DataInFlight
<1>2. /\ put' \in [PE -> SUBSET PE] /\ \A p \in PE : put'[p] \subseteq put[p]
      /\ \A p \in PE : p # s => put'[p] = put[p]
      /\ put'[s] = put[s] \ {d}
  BY DEF IInv, TypeOK
<1>3. buf' \in [PE -> 0..MaxEpoch] /\ buf'[d] = left[s] + 1
      /\ \A p \in PE : p # d => buf'[p] = buf[p]
  BY <1>1 DEF IInv, TypeOK, HasData
<1>4. HasData'
  <2>1. \A p \in PE : pc[p] \in {"send", "restore"} => buf'[p] = left[p] + 1
    BY <1>1, <1>3 DEF IInv, HasData
  <2>2. ASSUME NEW c \in PE \ {Root}, signalled(c) = left[c] + 1,
               c \notin put'[Parent[c]]
        PROVE  buf'[c] = left[c] + 1
    <3>1. CASE c = d
      BY <3>1, <1>1, <1>3
    <3>2. CASE c # d
      <4>1. c \notin put[Parent[c]]
        BY <3>2, <2>2, <1>2, EdgeTypes DEF IInv
      <4> QED
        BY <4>1, <3>2, <2>2, <1>3 DEF IInv, HasData
    <3> QED
      BY <3>1, <3>2
  <2>3. \A c \in PE \ {Root} : signalled(c)' = signalled(c)
    BY DEF signalled, Posted
  <2> QED
    BY <2>1, <2>2, <2>3 DEF HasData
<1> QED
  BY <1>2, <1>3, <1>4, DataStep

\* A PE that may use its buffer has not been signalled for a call that it has
\* not made, so what it overwrites is of a call that it has returned from.
LEMMA ScribbleStep ==
  ASSUME IInv, NEW p \in PE, Scribble(p)
  PROVE  IInv'
<1> USE DEF Scribble
<1>1. put' \in [PE -> SUBSET PE] /\ \A q \in PE : put'[q] \subseteq put[q]
  BY DEF IInv, TypeOK
<1>2. buf' \in [PE -> 0..MaxEpoch] /\ \A q \in PE : q # p => buf'[q] = buf[q]
  BY ParameterAssumption DEF IInv, TypeOK, Other
<1>3. ASSUME p # Root PROVE signalled(p) # left[p] + 1
  <2> DEFINE q == Parent[p]
  <2> SUFFICES ASSUME signalled(p) = left[p] + 1 PROVE FALSE
    OBVIOUS
  <2>1. q \in PE /\ left[p] \in Nat /\ left[q] \in Nat /\ entered[q] \in Nat
        /\ entered[q] <= left[p]
    BY <1>3, EdgeTypes DEF IInv
  <2>2. left[q] <= entered[q] /\ (pc[q] # "out" => entered[q] = left[q] + 1)
    BY <2>1 DEF IInv, Phases
  <2>3. left[q] = left[p]
    BY <2>1, <2>2, <1>3, EdgeBounds
  <2>4. pc[q] # "out"
    BY <2>3, <1>3, EdgeBounds
  <2> QED
    BY <2>1, <2>2, <2>3, <2>4
<1>4. HasData'
  <2>1. \A c \in PE \ {Root} : signalled(c)' = signalled(c)
    BY DEF signalled, Posted
  <2> QED
    BY <2>1, <1>2, <1>3 DEF IInv, HasData
<1> QED
  BY <1>1, <1>2, <1>4, DataStep

LEMMA EnterStep ==
  ASSUME IInv, TestsRight, NEW p \in PE, Enter(p)
  PROVE  IInv'
<1> USE DEF Enter
<1>1. /\ left[p] \in Nat /\ entered[p] = left[p] /\ entered'[p] = left[p] + 1
      /\ entered'[p] \in 0..MaxEpoch
      /\ \A q \in PE : q # p => /\ pc'[q] = pc[q] /\ entered'[q] = entered[q]
                                /\ sent'[q] = sent[q] /\ buf'[q] = buf[q]
      /\ \A q \in PE : /\ left[q] \in Nat /\ entered[q] \in Nat
                       /\ met[q] \in Nat /\ left[p] <= met[q]
      /\ pc'[p] = IF p = Root THEN "send" ELSE "receive"
      /\ sent'[p] = 0
      /\ buf'[p] = IF p = Root THEN left[p] + 1 ELSE buf[p]
  BY ParameterAssumption DEF IInv, TypeOK, Phases, TestsRight
<1>2. TypeOK'
  <2>1. sent' \in [PE -> Nat] /\ \A q \in PE : sent'[q] <= Len(Batches[q])
    <3>1. \A q \in PE : Len(Batches[q]) \in Nat
      BY TreeAssumption
    <3> QED
      BY <3>1 DEF IInv, TypeOK
  <2>2. buf' \in [PE -> 0..MaxEpoch] /\ entered' \in [PE -> 0..MaxEpoch]
    BY <1>1 DEF IInv, TypeOK
  <2>3. pc' \in [PE -> {"out", "receive", "send", "restore"}]
    BY DEF IInv, TypeOK
  <2> QED
    BY <2>1, <2>2, <2>3 DEF IInv, TypeOK
<1>3. \A q \in PE : q # p => Posted(q)' = Posted(q)
  BY <1>1 DEF Posted
<1>4. Posted(p)' = {}
  <2>1. 1..0 = {}
    OBVIOUS
  <2>2. Posted(p)' = UNION {Batches[p][i] : i \in 1..0}
    BY <1>1 DEF Posted
  <2> QED
    BY <2>1, <2>2
<1>5. \A c \in PE \ {Root} : signalled(c)' = signalled(c) /\ acked(c)' = acked(c)
  <2> SUFFICES ASSUME NEW c \in PE \ {Root}
               PROVE  signalled(c)' = signalled(c) /\ acked(c)' = acked(c)
    OBVIOUS
  <2>1. acked(c)' = acked(c)
    BY <1>1 DEF acked
  <2>2. CASE Parent[c] = p
    BY <2>1, <2>2, <1>1, <1>4 DEF signalled
  <2>3. CASE Parent[c] # p
    BY <2>1, <2>3, <1>1, <1>3, EdgeTypes DEF signalled, IInv
  <2> QED
    BY <2>2, <2>3
<1>6. \A c \in PE \ {Root} : (SignalIn(c)' <=> SignalIn(c)) /\ (AckIn(c)' <=> AckIn(c))
  BY <1>5 DEF SignalIn, AckIn
<1>7. Counting'
  BY <1>6, SameWords
<1>8. EdgeBalance'
  BY <1>5, <1>6 DEF IInv, EdgeBalance
<1>9. Phases' /\ Aligned' /\ LateResets'
  <2>1. clear[p] = 0
    BY <1>1 DEF IInv, LateResets
  <2> QED
    BY <2>1, <1>1 DEF IInv, Phases, Aligned, LateResets
<1>10. Received' /\ AllAcked'
  BY <1>1, <1>6, TreeFacts DEF IInv, Received, AllAcked
<1>11. SignalBehind'
  BY <1>1 DEF IInv, SignalBehind
<1>12. HasData'
  BY <1>1, <1>5 DEF IInv, HasData
<1>13. RootFirst'
  <2>1. acked(Root)' <= entered'[Root]
    BY <1>1, TreeAssumption DEF IInv, RootFirst, acked
  <2>2. \A q \in PE : entered'[q] \in Nat /\ entered[q] <= entered'[q]
    BY <1>1
  <2>3. \A c \in PE \ {Root} : acked(c)' <= entered'[Root]
    BY <2>2, <1>1, <1>5, EdgeTypes, TreeAssumption DEF IInv, RootFirst
  <2> QED
    BY <2>1, <2>3 DEF RootFirst
<1>14. OnlyOnEdges'
  BY DEF IInv, OnlyOnEdges
<1> QED
  BY <1>2, <1>7, <1>8, <1>9, <1>10, <1>11, <1>12, <1>13, <1>14 DEF IInv

\* What a PE finds in its word before it acks is its parent's signal: its
\* children ack only what it has forwarded.
LEMMA SignalSeen ==
  ASSUME IInv, NEW p \in PE, pc[p] = "receive", Signalled(p)
  PROVE  SignalIn(p)
<1> SUFFICES ASSUME ~SignalIn(p) PROVE FALSE
  OBVIOUS
<1>1. p # Root
  BY DEF IInv, Phases
<1>2. {c \in Children(p) : AckIn(c)} = {}
  BY <1>1, SignalBeforeAcks
<1>3. clear[p] = 0
  BY DEF IInv, LateResets
<1>4. pSync[p] = 0
  BY <1>2, <1>3, FS_EmptySet DEF IInv, Counting
<1> QED
  BY <1>4 DEF Signalled

LEMMA ReceiveStep ==
  ASSUME IInv, NEW p \in PE, Receive(p)
  PROVE  IInv'
<1> DEFINE q == Parent[p]
<1> USE DEF Receive, Goto
<1>1. /\ p \in PE \ {Root} /\ q \in PE /\ q # p /\ p \in Children(q)
      /\ pc[p] = "receive" /\ sent[p] = 0
  BY TreeFacts DEF IInv, Phases
<1>2. SignalIn(p)
  BY SignalSeen
<1>3. /\ left[p] \in Nat /\ left[q] \in Nat /\ entered[Root] \in Nat
      /\ signalled(p) \in Nat /\ acked(p) \in Nat /\ acked(q) \in Nat
      /\ poke[p][q] \in {0, 1} /\ poke[q][p] \in {0, 1}
  BY <1>1, EdgeTypes, TreeAssumption DEF IInv
<1>4. signalled(p) = left[p] + 1 /\ poke[q][p] = 0
  BY <1>1, <1>2, <1>3, EdgeBounds DEF SignalIn
<1>5. acked(p) = left[p] /\ left[q] = left[p] /\ poke[p][q] = 0 /\ ~AckIn(p)
  <2>1. acked(p) = left[p]
    BY <1>1, <1>3 DEF acked
  <2>2. left[q] <= left[p] /\ signalled(p) <= left[q] + 1
    BY <1>1, <2>1, EdgeBounds
  <2>3. left[q] = left[p]
    BY <2>2, <1>3, <1>4
  <2> QED
    BY <1>1, <1>3, <2>1, <2>3 DEF IInv, EdgeBalance, AckIn
<1>6. /\ pc'[p] = "send" /\ \A r \in PE : r # p => pc'[r] = pc[r]
      /\ poke'[p][q] = 1
      /\ \A r, d \in PE : <<r, d>> # <<p, q>> => poke'[r][d] = poke[r][d]
      /\ poke' \in [PE -> [PE -> {0, 1}]]
  BY <1>1, <1>5 DEF IInv, TypeOK
<1>7. TypeOK'
  BY <1>6 DEF IInv, TypeOK
<1>8. Posted(p) = {}
  BY <1>1, PostedFacts DEF IInv
<1>9. \A c \in PE \ {Root} : signalled(c)' = signalled(c)
  <2> SUFFICES ASSUME NEW c \in PE \ {Root} PROVE signalled(c)' = signalled(c)
    OBVIOUS
  <2>1. Posted(Parent[c])' = Posted(Parent[c])
    BY DEF Posted
  <2>2. CASE Parent[c] = p
    BY <2>1, <2>2, <1>8 DEF signalled
  <2>3. CASE Parent[c] # p
    BY <2>1, <2>3, <1>6, TreeFacts DEF signalled
  <2> QED
    BY <2>2, <2>3
<1>10. acked(p)' = left[p] + 1 /\ \A r \in PE : r # p => acked(r)' = acked(r)
  BY <1>6 DEF acked
<1>11. \A c \in PE \ {Root} : poke'[Parent[c]][c] = poke[Parent[c]][c]
  <2> SUFFICES ASSUME NEW c \in PE \ {Root}
               PROVE <<Parent[c], c>> # <<p, q>> /\ Parent[c] \in PE
    BY <1>6
  <2>1. Parent[c] = p => c # q
    BY <1>1, TreeFacts
  <2> QED
    BY <2>1, TreeFacts
<1>12. \A c \in PE \ {Root} : SignalIn(c)' <=> SignalIn(c)
  BY <1>9, <1>11 DEF SignalIn
<1>13. ~AckIn(p)' /\ acked(p)' = left'[q] + poke'[p][q]
  BY <1>3, <1>5, <1>6, <1>10 DEF AckIn
<1>14. ASSUME NEW c \in PE \ {Root}, c # p
       PROVE  (AckIn(c)' <=> AckIn(c)) /\ poke'[c][Parent[c]] = poke[c][Parent[c]]
              /\ acked(c)' = acked(c)
  BY <1>14, <1>6, <1>10, TreeFacts DEF AckIn
<1>15. Counting'
  BY <1>12, <1>13, <1>14, <1>5, SameWords
<1>16. EdgeBalance'
  BY <1>9, <1>11, <1>12, <1>13, <1>14 DEF IInv, EdgeBalance
<1>17. Phases' /\ Aligned' /\ LateResets'
  BY <1>1, <1>6 DEF IInv, Phases, Aligned, LateResets
<1>18. OnlyOnEdges'
  BY <1>1, <1>6 DEF IInv, OnlyOnEdges
<1>19. Received'
  BY <1>2, <1>6, <1>12 DEF IInv, Received
<1>20. AllAcked'
  <2> SUFFICES ASSUME NEW r \in PE, pc'[r] = "restore", NEW c \in Children(r)
               PROVE AckIn(c)'
    BY DEF AllAcked
  <2>1. r # p /\ pc[r] = "restore"
    BY <1>6
  <2>2. AckIn(c) /\ c \in PE \ {Root}
    BY <2>1, TreeFacts DEF IInv, AllAcked
  <2> QED
    BY <2>2, <1>5, <1>14
<1>21. SignalBehind'
  <2> SUFFICES ASSUME NEW s \in PE, NEW d \in put[s]
               PROVE  poke'[s][d] = 1 /\ pc'[s] = "send"
    BY DEF SignalBehind
  <2>1. d \in PE \ {Root} /\ Parent[d] = s /\ pc[s] = "send" /\ poke[s][d] = 1
    BY DataInFlight
  <2> QED
    BY <2>1, <1>6, <1>11
<1>22. HasData'
  <2>1. p \notin put[q]
    BY <1>1, <1>2, DataInFlight
  <2>2. buf[p] = left[p] + 1
    BY <2>1, <1>1, <1>4 DEF IInv, HasData
  <2> QED
    BY <2>2, <1>6, <1>9 DEF IInv, HasData
<1>23. RootFirst'
  <2>1. left[q] + 1 = acked(q)
    BY <1>1, <1>3, <1>4, <1>5, EdgeBounds DEF acked
  <2>2. acked(p)' <= entered[Root]
    BY <2>1, <1>1, <1>3, <1>5, <1>10 DEF IInv, RootFirst
  <2> QED
    BY <2>2, <1>10 DEF IInv, RootFirst
<1> QED
  BY <1>7, <1>15, <1>16, <1>17, <1>18, <1>19, <1>20, <1>21, <1>22, <1>23 DEF IInv

LEMMA SendStep ==
  ASSUME IInv, NEW p \in PE, Send(p)
  PROVE  IInv'
<1> DEFINE B == Batches[p][sent[p] + 1]
<1> USE DEF Send
<1>1. /\ pc[p] = "send" /\ sent[p] < Len(Batches[p]) /\ sent'[p] = sent[p] + 1
      /\ \A q \in PE : q # p => sent'[q] = sent[q]
  BY DEF IInv, TypeOK
<1>2. /\ B \subseteq Children(p) /\ B \cap Posted(p) = {}
      /\ Posted(p)' = Posted(p) \cup B
      /\ \A q \in PE : q # p => Posted(q)' = Posted(q)
  BY <1>1, NextBatch DEF IInv, Posted
<1> HIDE DEF B
<1>3. /\ put' = [put EXCEPT ![p] = @ \cup B]
      /\ poke' = [poke EXCEPT ![p] = [d \in PE |-> IF d \in B THEN @[d] + 1 ELSE @[d]]]
  BY DEF B
<1>4. /\ put'[p] = put[p] \cup B /\ put' \in [PE -> SUBSET PE]
      /\ \A q \in PE : q # p => put'[q] = put[q] /\ poke'[q] = poke[q]
      /\ \A d \in PE : poke'[p][d] = IF d \in B THEN poke[p][d] + 1 ELSE poke[p][d]
  <2>1. B \subseteq PE
    BY <1>2, TreeFacts
  <2>2. put \in [PE -> SUBSET PE] /\ poke \in [PE -> [PE -> {0, 1}]]
    BY DEF IInv, TypeOK
  <2> QED
    BY <2>1, <2>2, <1>3
<1>5. ASSUME NEW c \in B
      PROVE  /\ c \in PE \ {Root} /\ Parent[c] = p /\ signalled(c) = left[p]
             /\ left[c] = left[p] /\ poke[p][c] = 0 /\ ~SignalIn(c)
  <2>1. c \in PE \ {Root} /\ Parent[c] = p /\ c \notin Posted(p)
    BY <1>2, TreeFacts
  <2>2. left[c] \in Nat /\ left[p] \in Nat /\ poke[p][c] \in {0, 1}
    BY <2>1, EdgeTypes DEF IInv
  <2>3. signalled(c) = left[p]
    BY <2>1, <2>2 DEF signalled
  <2>4. left[p] <= left[c]
    BY <2>1, <2>2, <1>1, CloseCalls DEF IInv, Phases
  <2>5. left[c] = left[p]
    BY <2>1, <2>2, <2>3, <2>4, EdgeBounds
  <2> QED
    BY <2>1, <2>2, <2>3, <2>5 DEF IInv, EdgeBalance, SignalIn
<1>6. ASSUME NEW c \in PE \ {Root}, c \notin B
      PROVE  signalled(c)' = signalled(c) /\ poke'[Parent[c]][c] = poke[Parent[c]][c]
  <2>1. CASE Parent[c] = p
    BY <2>1, <1>6, <1>2, <1>4 DEF signalled
  <2>2. CASE Parent[c] # p
    BY <2>2, <1>6, <1>2, <1>4, TreeFacts DEF signalled
  <2> QED
    BY <2>1, <2>2
<1>7. ASSUME NEW c \in B
      PROVE  signalled(c)' = left[p] + 1 /\ poke'[p][c] = 1
  BY <1>1, <1>2, <1>4, <1>5 DEF signalled
<1>8. ASSUME NEW c \in PE \ {Root}
      PROVE  acked(c)' = acked(c) /\ poke'[c][Parent[c]] = poke[c][Parent[c]]
  <2>1. acked(c)' = acked(c)
    BY DEF acked
  <2>2. c = p => Parent[c] \notin B
    BY <1>2, TreeFacts
  <2> QED
    BY <2>1, <2>2, <1>4, TreeFacts
<1>9. \A c \in PE \ {Root} : AckIn(c)' <=> AckIn(c)
  BY <1>8 DEF AckIn
<1>10. ASSUME NEW c \in B
       PROVE  ~SignalIn(c)' /\ signalled(c)' = left[c] + poke'[Parent[c]][c]
  <2>1. c \in PE \ {Root} /\ Parent[c] = p /\ left[c] = left[p] /\ left[p] \in Nat
    BY <1>5, EdgeTypes DEF IInv
  <2>2. signalled(c)' = left[p] + 1 /\ poke'[p][c] = 1 /\ left' = left
    BY <1>7
  <2> QED
    BY <2>1, <2>2 DEF SignalIn
<1>11. \A c \in PE \ {Root} : SignalIn(c)' <=> SignalIn(c)
  BY <1>5, <1>6, <1>10 DEF SignalIn
<1>12. Counting'
  BY <1>9, <1>11, SameWords
<1>13. EdgeBalance'
  <2>1. \A c \in PE \ {Root} : AckIn(c)' \/ acked(c)' = left'[Parent[c]] + poke'[c][Parent[c]]
    BY <1>8, <1>9 DEF IInv, EdgeBalance
  <2>2. \A c \in PE \ {Root} :
          SignalIn(c)' \/ signalled(c)' = left'[c] + poke'[Parent[c]][c]
    BY <1>6, <1>10, <1>11 DEF IInv, EdgeBalance
  <2> QED
    BY <2>1, <2>2 DEF EdgeBalance
<1>14. TypeOK'
  <2>1. sent' \in [PE -> Nat] /\ \A q \in PE : sent'[q] <= Len(Batches[q])
    <3>1. \A q \in PE : Len(Batches[q]) \in Nat
      BY TreeAssumption
    <3>2. sent \in [PE -> Nat] /\ \A q \in PE : sent[q] <= Len(Batches[q])
      BY DEF IInv, TypeOK
    <3>3. sent' = [sent EXCEPT ![p] = @ + 1]
      OBVIOUS
    <3> QED
      BY <3>1, <3>2, <3>3, <1>1
  <2>2. poke' \in [PE -> [PE -> {0, 1}]]
    <3>1. \A d \in PE : poke'[p][d] \in {0, 1}
      <4>1. ASSUME NEW d \in PE, d \notin B PROVE poke'[p][d] \in {0, 1}
        BY <4>1, <1>4, EdgeTypes DEF IInv
      <4>2. \A d \in B : poke'[p][d] \in {0, 1}
        BY <1>7
      <4> QED
        BY <4>1, <4>2
    <3>2. [d \in PE |-> IF d \in B THEN poke[p][d] + 1 ELSE poke[p][d]] \in [PE -> {0, 1}]
      BY <3>1, <1>4
    <3> QED
      BY <3>2, <1>3 DEF IInv, TypeOK
  <2>3. \A q \in PE : put'[q] \subseteq Children(q)
    BY <1>2, <1>4 DEF IInv, TypeOK
  <2> QED
    BY <2>1, <2>2, <2>3, <1>4 DEF IInv, TypeOK
<1>15. Phases' /\ Aligned' /\ LateResets'
  BY <1>1 DEF IInv, Phases, Aligned, LateResets
<1>16. OnlyOnEdges'
  BY <1>2, <1>4 DEF IInv, OnlyOnEdges
<1>17. Received' /\ AllAcked'
  BY <1>9, <1>11, TreeFacts DEF IInv, Received, AllAcked
<1>18. SignalBehind'
  <2> SUFFICES ASSUME NEW s \in PE, NEW d \in put'[s]
               PROVE  poke'[s][d] = 1 /\ pc[s] = "send"
    BY DEF SignalBehind
  <2>1. CASE d \in put[s] /\ (s # p \/ d \notin B)
    <3>1. d \in PE /\ poke[s][d] = 1 /\ pc[s] = "send"
      BY <2>1, DataInFlight
    <3> QED
      BY <3>1, <2>1, <1>4
  <2>2. CASE s = p /\ d \in B
    BY <2>2, <1>1, <1>7
  <2> QED
    BY <2>1, <2>2, <1>4
<1>19. HasData'
  <2> SUFFICES ASSUME NEW c \in PE \ {Root}, signalled(c)' = left[c] + 1,
                      c \notin put'[Parent[c]]
               PROVE  buf[c] = left[c] + 1
    BY DEF IInv, HasData
  <2>1. c \notin B
    BY <1>4, <1>5
  <2>2. c \notin put[Parent[c]]
    BY <1>4, TreeFacts
  <2> QED
    BY <2>1, <2>2, <1>6 DEF IInv, HasData
<1>20. RootFirst'
  BY DEF IInv, RootFirst, acked
<1> QED
  BY <1>12, <1>13, <1>14, <1>15, <1>16, <1>17, <1>18, <1>19, <1>20 DEF IInv

\* A PE that finds every ack on top of its signal has every ack.
LEMMA AcksSeen ==
  ASSUME IInv, TestsRight, NEW p \in PE, pc[p] = "send", Acked(p), NEW c \in Children(p)
  PROVE  AckIn(c)
<1> DEFINE n == Cardinality({d \in Children(p) : AckIn(d)})
<1>1. pSync[p] = n + (IF p # Root /\ SignalIn(p) THEN 1 ELSE 0)
  <2>1. clear[p] = 0
    BY DEF IInv, LateResets
  <2> QED
    BY <2>1 DEF IInv, Counting
<1>2. pSync[p] = Cardinality(Children(p)) + (IF p = Root THEN 0 ELSE 1)
  BY DEF Acked, TestsRight
<1>3. p # Root => SignalIn(p)
  BY DEF IInv, Received
<1>4. n \in Nat /\ Cardinality(Children(p)) \in Nat
      /\ (n = Cardinality(Children(p)) => \A d \in Children(p) : AckIn(d))
  BY AcksFinite
<1> HIDE DEF n
<1>5. n = Cardinality(Children(p))
  BY <1>1, <1>2, <1>3, <1>4
<1> QED
  BY <1>4, <1>5

LEMMA AwaitAcksStep ==
  ASSUME IInv, TestsRight, NEW p \in PE, AwaitAcks(p)
  PROVE  IInv'
<1> USE DEF AwaitAcks, Goto
<1>1. /\ pc[p] = "send" /\ sent[p] = Len(Batches[p]) /\ pc'[p] = "restore"
      /\ \A q \in PE : q # p => pc'[q] = pc[q]
      /\ pc' \in [PE -> {"out", "receive", "send", "restore"}]
  BY DEF IInv, TypeOK
<1>2. \A c \in Children(p) : AckIn(c)
  BY <1>1, AcksSeen
<1>3. \A c \in PE : acked(c)' = acked(c)
  BY <1>1 DEF acked
<1>4. \A c \in PE \ {Root} : signalled(c)' = signalled(c)
  BY <1>1, TreeFacts DEF signalled, Posted
<1>5. \A c \in PE \ {Root} : (SignalIn(c)' <=> SignalIn(c)) /\ (AckIn(c)' <=> AckIn(c))
  BY <1>3, <1>4 DEF SignalIn, AckIn
<1>6. Counting'
  BY <1>5, SameWords
<1>7. EdgeBalance'
  BY <1>3, <1>4, <1>5 DEF IInv, EdgeBalance
<1>8. TypeOK'
  BY <1>1 DEF IInv, TypeOK
<1>9. Phases' /\ Aligned' /\ LateResets'
  BY <1>1 DEF IInv, Phases, Aligned, LateResets
<1>10. Received'
  BY <1>1, <1>5 DEF IInv, Received
<1>11. AllAcked'
  <2> SUFFICES ASSUME NEW q \in PE, pc'[q] = "restore", NEW c \in Children(q)
               PROVE AckIn(c)'
    BY DEF AllAcked
  <2>1. AckIn(c) /\ c \in PE \ {Root}
    BY <1>1, <1>2, TreeFacts DEF IInv, AllAcked
  <2> QED
    BY <2>1, <1>5
<1>12. put[p] = {}
  <2> SUFFICES ASSUME NEW d \in put[p] PROVE FALSE
    OBVIOUS
  <2>1. d \in PE \ {Root} /\ Parent[d] = p /\ d \in Children(p)
        /\ left[d] = left[p] /\ pc[d] \notin {"send", "restore"}
    BY DataInFlight, TreeFacts
  <2>2. acked(d) = left[p] /\ left[p] \in Nat /\ poke[d][p] \in {0, 1}
    BY <2>1, EdgeTypes DEF acked, IInv
  <2> QED
    BY <2>1, <2>2, <1>2 DEF AckIn
<1>13. SignalBehind'
  BY <1>1, <1>12 DEF IInv, SignalBehind
<1>14. HasData'
  BY <1>1, <1>4 DEF IInv, HasData
<1>15. RootFirst' /\ OnlyOnEdges'
  BY <1>3 DEF IInv, RootFirst, OnlyOnEdges
<1> QED
  BY <1>6, <1>7, <1>8, <1>9, <1>10, <1>11, <1>13, <1>14, <1>15 DEF IInv

\* The reset is posted: from here on the signal and the acks of this call are
\* accounted for by the count of calls that have returned, not by the word.
LEMMA RestoreStep ==
  ASSUME IInv, NEW p \in PE, Restore(p)
  PROVE  IInv'
<1> USE DEF Restore, Goto
<1>1. /\ pc[p] = "restore" /\ sent[p] = Len(Batches[p]) /\ pc'[p] = "out"
      /\ left'[p] = left[p] + 1
      /\ \A q \in PE : q # p => pc'[q] = pc[q] /\ left'[q] = left[q]
      /\ pc' \in [PE -> {"out", "receive", "send", "restore"}]
      /\ \A q \in PE : left[q] \in Nat /\ left'[q] \in Nat
  BY ParameterAssumption DEF IInv, TypeOK, Phases
<1>2. Posted(p) = Children(p) /\ \A q \in PE : Posted(q)' = Posted(q)
  BY <1>1, PostedFacts DEF IInv, Posted
<1>3. entered[p] = left[p] + 1
  BY <1>1 DEF IInv, Phases
<1>4. \A q \in PE : acked(q)' = acked(q) /\ acked(q) \in Nat
  BY <1>1, EdgeTypes DEF IInv, acked
<1>5. \A c \in PE \ {Root} : signalled(c)' = signalled(c)
  <2> SUFFICES ASSUME NEW c \in PE \ {Root} PROVE signalled(c)' = signalled(c)
    OBVIOUS
  <2>1. CASE Parent[c] = p
    BY <2>1, <1>1, <1>2, TreeFacts DEF signalled
  <2>2. CASE Parent[c] # p
    BY <2>2, <1>1, <1>2, TreeFacts DEF signalled
  <2> QED
    BY <2>1, <2>2
<1>6. ASSUME NEW c \in PE \ {Root}, c # p
      PROVE  (SignalIn(c)' <=> SignalIn(c)) /\ left'[c] = left[c]
  BY <1>6, <1>1, <1>5 DEF SignalIn
<1>7. ASSUME p # Root
      PROVE  ~SignalIn(p)' /\ signalled(p)' = left'[p] + poke[Parent[p]][p]
  <2>1. SignalIn(p) /\ signalled(p) <= left[p] + 1 /\ poke[Parent[p]][p] \in {0, 1}
    BY <1>1, <1>7, EdgeBounds, EdgeTypes DEF IInv, Received
  <2> QED
    BY <2>1, <1>1, <1>5, <1>7 DEF SignalIn
<1>8. ASSUME NEW c \in PE \ {Root}, Parent[c] # p
      PROVE  (AckIn(c)' <=> AckIn(c)) /\ left'[Parent[c]] = left[Parent[c]]
  BY <1>8, <1>1, <1>4, TreeFacts DEF AckIn
<1>9. ASSUME NEW c \in PE \ {Root}, Parent[c] = p
      PROVE  ~AckIn(c)' /\ acked(c)' = left'[p] + poke[c][p]
  <2>1. AckIn(c) /\ poke[c][p] \in {0, 1}
    BY <1>1, <1>9, TreeFacts, EdgeTypes DEF IInv, AllAcked
  <2> QED
    BY <2>1, <1>1, <1>4, <1>9 DEF AckIn
<1>10. EdgeBalance'
  <2> SUFFICES ASSUME NEW c \in PE \ {Root}
               PROVE  /\ SignalIn(c)' \/ signalled(c)' = left'[c] + poke[Parent[c]][c]
                      /\ AckIn(c)' \/ acked(c)' = left'[Parent[c]] + poke[c][Parent[c]]
    BY DEF EdgeBalance
  <2>1. SignalIn(c)' \/ signalled(c)' = left'[c] + poke[Parent[c]][c]
    BY <1>5, <1>6, <1>7 DEF IInv, EdgeBalance
  <2>2. AckIn(c)' \/ acked(c)' = left'[Parent[c]] + poke[c][Parent[c]]
    BY <1>4, <1>8, <1>9 DEF IInv, EdgeBalance
  <2> QED
    BY <2>1, <2>2
<1>11. clear[p] = 0 /\ clear'[p] = 1 /\ clear' \in [PE -> Nat]
       /\ \A q \in PE : q # p => clear'[q] = clear[q]
  <2>1. clear[p] = 0
    BY <1>1 DEF IInv, LateResets
  <2> QED
    BY <2>1 DEF IInv, TypeOK
<1>12. Counting'
  <2> SUFFICES ASSUME NEW q \in PE, clear'[q] = 0
               PROVE  pSync[q] = Cardinality({c \in Children(q) : AckIn(c)'})
                                   + (IF q # Root /\ SignalIn(q)' THEN 1 ELSE 0)
    BY DEF Counting
  <2>1. q # p /\ clear[q] = 0
    BY <1>11
  <2>2. {c \in Children(q) : AckIn(c)'} = {c \in Children(q) : AckIn(c)}
    BY <2>1, <1>8, TreeFacts
  <2>3. q # Root => (SignalIn(q)' <=> SignalIn(q))
    BY <2>1, <1>6
  <2> QED
    BY <2>1, <2>2, <2>3 DEF IInv, Counting
<1>12a. TypeOK'
  <2>1. left' \in [PE -> 0..MaxEpoch]
    BY <1>1, <1>3 DEF IInv, TypeOK
  <2> QED
    BY <2>1, <1>1, <1>11 DEF IInv, TypeOK
<1>13. Phases' /\ Aligned' /\ LateResets'
  <2>1. entered' = entered /\ sent' = sent /\ met' = met
    OBVIOUS
  <2>2. Phases'
    BY <2>1, <1>1, <1>3 DEF IInv, Phases
  <2>3. ASSUME NEW q \in PE
        PROVE  left'[q] >= left[q] /\ met[q] \in Nat /\ met[q] <= left[q]
    <3>1. met[q] \in Nat
      BY ParameterAssumption DEF IInv, TypeOK
    <3>2. met[q] <= left[q]
      BY DEF IInv, Aligned
    <3>3. left'[q] >= left[q]
      BY <1>1
    <3> QED
      BY <3>1, <3>2, <3>3
  <2>4. Aligned'
    BY <2>1, <2>3, <1>1 DEF IInv, Aligned
  <2>5. met[p] < left'[p]
    BY <2>3, <1>1
  <2>6. LateResets'
    BY <2>1, <2>5, <1>1, <1>11 DEF IInv, LateResets
  <2> QED
    BY <2>2, <2>4, <2>6
<1>14. Received'
  BY <1>1, <1>6 DEF IInv, Received
<1>15. AllAcked'
  <2> SUFFICES ASSUME NEW q \in PE, pc'[q] = "restore", NEW c \in Children(q)
               PROVE AckIn(c)'
    BY DEF AllAcked
  <2>1. q # p /\ c \in PE \ {Root} /\ Parent[c] = q
    BY <1>1, TreeFacts
  <2> QED
    BY <2>1, <1>1, <1>8 DEF IInv, AllAcked
<1>16. SignalBehind'
  BY <1>1, DataInFlight DEF IInv, SignalBehind
<1>17. HasData'
  <2>1. \A q \in PE : pc'[q] \in {"send", "restore"} => buf[q] = left'[q] + 1
    BY <1>1 DEF IInv, HasData
  <2>2. ASSUME NEW c \in PE \ {Root}, signalled(c)' = left'[c] + 1, c \notin put[Parent[c]]
        PROVE  buf[c] = left'[c] + 1
    <3>1. c # p
      <4>1. signalled(c) <= left[c] + 1
        BY EdgeBounds
      <4> QED
        BY <4>1, <2>2, <1>1, <1>5
    <3> QED
      BY <3>1, <2>2, <1>1, <1>5 DEF IInv, HasData
  <2> QED
    BY <2>1, <2>2 DEF HasData
<1>18. RootFirst' /\ OnlyOnEdges'
  BY <1>4 DEF IInv, RootFirst, OnlyOnEdges
<1> QED
  BY <1>10, <1>12, <1>13, <1>14, <1>15, <1>16, <1>17, <1>18, <1>12a DEF IInv

\* The reset lands on a word that counts nothing any more.
LEMMA ClearStep ==
  ASSUME IInv, NEW p \in PE, DeliverClear(p)
  PROVE  IInv'
<1> USE DEF DeliverClear
<1>1. /\ clear[p] = 1
      /\ p # Root => ~SignalIn(p)
      /\ \A c \in Children(p) : ~AckIn(c)
  <2>1. clear[p] # 0
    BY DEF IInv, TypeOK
  <2> QED
    BY <2>1, ResetAlone
<1>2. /\ clear'[p] = 0 /\ clear' \in [PE -> Nat] /\ pSync'[p] = 0
      /\ \A q \in PE : q # p => clear'[q] = clear[q] /\ pSync'[q] = pSync[q]
  BY <1>1 DEF IInv, TypeOK
<1>3. \A c \in PE \ {Root} :
        /\ signalled(c)' = signalled(c) /\ acked(c)' = acked(c)
        /\ (SignalIn(c)' <=> SignalIn(c)) /\ (AckIn(c)' <=> AckIn(c))
  BY DEF signalled, SignalIn, AckIn, acked, Posted
<1>4. Counting'
  <2> SUFFICES ASSUME NEW q \in PE, clear'[q] = 0
               PROVE  pSync'[q] = Cardinality({c \in Children(q) : AckIn(c)'})
                                    + (IF q # Root /\ SignalIn(q)' THEN 1 ELSE 0)
    BY DEF Counting
  <2>1. /\ {c \in Children(q) : AckIn(c)'} = {c \in Children(q) : AckIn(c)}
        /\ q # Root => (SignalIn(q)' <=> SignalIn(q))
    BY <1>3, TreeFacts
  <2>2. CASE q = p
    <3>1. {c \in Children(q) : AckIn(c)'} = {}
      BY <2>1, <2>2, <1>1
    <3>2. Cardinality({c \in Children(q) : AckIn(c)'}) = 0
      BY <3>1, FS_EmptySet
    <3>3. ~(q # Root /\ SignalIn(q)')
      BY <2>1, <2>2, <1>1
    <3> QED
      BY <3>2, <3>3, <2>2, <1>2
  <2>3. CASE q # p
    BY <2>1, <2>3, <1>2 DEF IInv, Counting
  <2> QED
    BY <2>2, <2>3
<1>5. TypeOK'
  <2>1. pSync' \in [PE -> Nat]
    BY <1>2 DEF IInv, TypeOK
  <2>2. Cardinality(Children(p)) \in Nat
    BY AcksFinite
  <2>3. \A q \in PE : pSync'[q] <= Cardinality(Children(q)) + (IF q = Root THEN 0 ELSE 1)
    BY <2>2, <1>2 DEF IInv, TypeOK
  <2> QED
    BY <2>1, <2>3, <1>2 DEF IInv, TypeOK
<1>6. EdgeBalance' /\ Received' /\ AllAcked' /\ HasData'
  BY <1>3, TreeFacts DEF IInv, EdgeBalance, Received, AllAcked, HasData
<1>7. LateResets'
  BY <1>2 DEF IInv, LateResets
<1> QED
  BY <1>4, <1>5, <1>6, <1>7
  DEF IInv, Phases, Aligned, OnlyOnEdges, SignalBehind, RootFirst, acked

\* A PE in the barrier has no reset in flight.
LEMMA MeetStep ==
  ASSUME IInv, NEW p \in PE, Meet(p)
  PROVE  IInv'
<1> USE DEF Meet
<1>1. /\ met'[p] = left[p] /\ met' \in [PE -> 0..MaxEpoch] /\ clear[p] = 0
      /\ \A q \in PE : q # p => met'[q] = met[q]
  BY DEF IInv, TypeOK, Quiesced
<1>2. \A c \in PE \ {Root} :
        /\ signalled(c)' = signalled(c) /\ acked(c)' = acked(c)
        /\ (SignalIn(c)' <=> SignalIn(c)) /\ (AckIn(c)' <=> AckIn(c))
  BY DEF signalled, SignalIn, AckIn, acked, Posted
<1>3. Counting'
  BY <1>2, SameWords
<1>4. TypeOK'
  BY <1>1 DEF IInv, TypeOK
<1>5. Aligned'
  <2>1. \A q \in PE : entered[q] <= left[p] + 1
    BY CloseCalls DEF IInv
  <2>2. left[p] <= left[p]
    BY EdgeTypes DEF IInv
  <2> QED
    BY <2>1, <2>2, <1>1 DEF IInv, Aligned
<1>6. LateResets'
  BY <1>1 DEF IInv, LateResets
<1>7. EdgeBalance' /\ Received' /\ AllAcked' /\ HasData'
  BY <1>2, TreeFacts DEF IInv, EdgeBalance, Received, AllAcked, HasData
<1> QED
  BY <1>3, <1>4, <1>5, <1>6, <1>7
  DEF IInv, Phases, OnlyOnEdges, SignalBehind, RootFirst, acked

\* A signal or an ack reaches its word once: what is left of IInv after that.
LEMMA DeliveredRest ==
  ASSUME IInv, NEW s \in PE, NEW d \in PE, DeliverPoke(s, d),
         TypeOK', Counting', EdgeBalance',
         \A c \in PE \ {Root} : (SignalIn(c) => SignalIn(c)') /\ (AckIn(c) => AckIn(c)')
  PROVE  IInv'
<1> USE DEF DeliverPoke
<1>1. \A q \in PE : acked(q)' = acked(q)
  BY DEF acked
<1>2. \A c \in PE \ {Root} : signalled(c)' = signalled(c)
  BY DEF signalled, Posted
<1>3. \A r, e \in PE : <<r, e>> # <<s, d>> => poke'[r][e] = poke[r][e]
  BY DEF IInv, TypeOK
<1>4. poke'[s][d] = poke[s][d] - 1 /\ poke[s][d] \in {0, 1} /\ poke[s][d] > 0
  BY DEF IInv, TypeOK
<1>5. OnlyOnEdges'
  BY <1>3, <1>4 DEF IInv, OnlyOnEdges
<1>6. Received' /\ AllAcked'
  BY TreeFacts DEF IInv, Received, AllAcked
<1>7. SignalBehind'
  <2> SUFFICES ASSUME NEW r \in PE, NEW e \in put[r]
               PROVE  poke'[r][e] = 1 /\ pc[r] = "send"
    BY DEF SignalBehind
  <2>1. e \in PE /\ poke[r][e] = 1 /\ pc[r] = "send"
    BY DataInFlight
  <2>2. <<r, e>> # <<s, d>>
    BY DEF Fenced
  <2> QED
    BY <2>1, <2>2, <1>3
<1>8. HasData'
  BY <1>2 DEF IInv, HasData
<1>9. Phases' /\ Aligned' /\ LateResets' /\ RootFirst'
  BY <1>1 DEF IInv, Phases, Aligned, LateResets, RootFirst
<1> QED
  BY <1>5, <1>6, <1>7, <1>8, <1>9 DEF IInv

LEMMA DeliverSignal ==
  ASSUME IInv, NEW s \in PE, NEW d \in Children(s), DeliverPoke(s, d)
  PROVE  IInv'
<1> USE DEF DeliverPoke
<1>1. d \in PE \ {Root} /\ Parent[d] = s /\ d # s /\ s \notin Children(d)
  BY TreeFacts
<1>2. /\ left[d] \in Nat /\ signalled(d) \in Nat /\ poke[s][d] \in {0, 1}
      /\ poke[s][d] > 0 /\ pSync[d] \in Nat
  BY <1>1, EdgeTypes DEF IInv, TypeOK
<1>3. poke[s][d] = 1
  BY <1>2
<1>4. ~SignalIn(d) /\ signalled(d) = left[d] + 1
  BY <1>1, <1>2, <1>3, EdgeBounds DEF IInv, EdgeBalance, SignalIn
<1>5. /\ poke'[s][d] = 0 /\ poke' \in [PE -> [PE -> {0, 1}]]
      /\ \A r, e \in PE : <<r, e>> # <<s, d>> => poke'[r][e] = poke[r][e]
  <2>1. poke[s][d] - 1 = 0
    BY <1>3
  <2> QED
    BY <1>1, <2>1 DEF IInv, TypeOK
<1>6. {c \in Children(d) : AckIn(c)} = {}
  BY <1>1, <1>4, SignalBeforeAcks
<1>6a. clear[d] = 0
  BY <1>1, <1>3, ResetAlone
<1>7. pSync[d] = 0
  BY <1>1, <1>4, <1>6, <1>6a, FS_EmptySet DEF IInv, Counting
<1>8. pSync'[d] = 1 /\ \A q \in PE : q # d => pSync'[q] = pSync[q]
  BY <1>1, <1>7 DEF IInv, TypeOK, Poked
<1>9. \A c \in PE \ {Root} : signalled(c)' = signalled(c) /\ acked(c)' = acked(c)
  BY DEF signalled, acked, Posted
<1>10. SignalIn(d)'
  BY <1>1, <1>4, <1>5, <1>9, <1>2 DEF SignalIn
<1>11. ASSUME NEW c \in PE \ {Root}, c # d
       PROVE  (SignalIn(c)' <=> SignalIn(c)) /\ poke'[Parent[c]][c] = poke[Parent[c]][c]
  BY <1>11, <1>5, <1>9, TreeFacts DEF SignalIn
<1>12. ASSUME NEW c \in PE \ {Root}
       PROVE  (AckIn(c)' <=> AckIn(c)) /\ poke'[c][Parent[c]] = poke[c][Parent[c]]
  <2>1. <<c, Parent[c]>> # <<s, d>>
    BY <1>1, TreeFacts
  <2> QED
    BY <2>1, <1>5, <1>9, TreeFacts DEF AckIn
<1>13. EdgeBalance'
  BY <1>9, <1>10, <1>11, <1>12 DEF IInv, EdgeBalance
<1>14. Counting'
  <2>1. ASSUME NEW q \in PE
        PROVE  {c \in Children(q) : AckIn(c)'} = {c \in Children(q) : AckIn(c)}
    BY <1>12, TreeFacts
  <2>2. pSync'[d] = Cardinality({c \in Children(d) : AckIn(c)'})
                      + (IF d # Root /\ SignalIn(d)' THEN 1 ELSE 0)
    <3>1. {c \in Children(d) : AckIn(c)'} = {}
      BY <1>1, <1>6, <2>1
    <3>2. Cardinality({c \in Children(d) : AckIn(c)'}) = 0
      BY <3>1, FS_EmptySet
    <3>3. d # Root /\ SignalIn(d)'
      BY <1>1, <1>10
    <3> QED
      BY <3>2, <3>3, <1>8
  <2>3. ASSUME NEW q \in PE, q # d, clear[q] = 0
        PROVE  pSync'[q] = Cardinality({c \in Children(q) : AckIn(c)'})
                             + (IF q # Root /\ SignalIn(q)' THEN 1 ELSE 0)
    <3>1. q # Root => (SignalIn(q)' <=> SignalIn(q))
      BY <2>3, <1>11
    <3> QED
      BY <3>1, <2>1, <2>3, <1>8 DEF IInv, Counting
  <2> QED
    BY <2>2, <2>3 DEF Counting
<1>15. TypeOK'
  <2>1. ASSUME NEW q \in PE
        PROVE  /\ pSync'[q] \in Nat
               /\ pSync'[q] <= Cardinality(Children(q)) + (IF q = Root THEN 0 ELSE 1)
    <3>1. CASE q = d
      BY <3>1, <1>14, <1>6a, WordBoundNext
    <3>2. CASE q # d
      BY <3>2, <1>8 DEF IInv, TypeOK
    <3> QED
      BY <3>1, <3>2
  <2>2. pSync' \in [PE -> Nat]
    BY <2>1 DEF IInv, TypeOK
  <2> QED
    BY <2>1, <2>2, <1>5 DEF IInv, TypeOK
<1> QED
  BY <1>1, <1>10, <1>11, <1>12, <1>13, <1>14, <1>15, DeliveredRest

LEMMA DeliverAck ==
  ASSUME IInv, NEW d \in PE, NEW s \in Children(d), DeliverPoke(s, d)
  PROVE  IInv'
<1> USE DEF DeliverPoke
<1>1. s \in PE \ {Root} /\ Parent[s] = d /\ d # s /\ d \notin Children(s)
  BY TreeFacts
<1>2. /\ left[d] \in Nat /\ acked(s) \in Nat /\ signalled(s) \in Nat
      /\ poke[s][d] \in {0, 1} /\ poke[s][d] > 0 /\ pSync[d] \in Nat
  BY <1>1, EdgeTypes DEF IInv, TypeOK
<1>3. poke[s][d] = 1
  BY <1>2
<1>4. ~AckIn(s) /\ acked(s) = left[d] + 1
  <2>1. acked(s) <= signalled(s) /\ signalled(s) <= left[d] + 1
    BY <1>1, EdgeBounds
  <2> QED
    BY <2>1, <1>1, <1>2, <1>3 DEF IInv, EdgeBalance, AckIn
<1>4a. clear[d] = 0
  BY <1>3, ResetAlone
<1>5. /\ poke'[s][d] = 0 /\ poke' \in [PE -> [PE -> {0, 1}]]
      /\ \A r, e \in PE : <<r, e>> # <<s, d>> => poke'[r][e] = poke[r][e]
  <2>1. poke[s][d] - 1 = 0
    BY <1>3
  <2> QED
    BY <1>1, <2>1 DEF IInv, TypeOK
<1>6. pSync'[d] = pSync[d] + 1 /\ \A q \in PE : q # d => pSync'[q] = pSync[q]
  BY <1>1 DEF IInv, TypeOK, Poked
<1>7. \A c \in PE \ {Root} : signalled(c)' = signalled(c) /\ acked(c)' = acked(c)
  BY DEF signalled, acked, Posted
<1>8. AckIn(s)'
  BY <1>1, <1>2, <1>4, <1>5, <1>7 DEF AckIn
<1>9. ASSUME NEW c \in PE \ {Root}, c # s
      PROVE  (AckIn(c)' <=> AckIn(c)) /\ poke'[c][Parent[c]] = poke[c][Parent[c]]
  BY <1>9, <1>5, <1>7, TreeFacts DEF AckIn
<1>10. ASSUME NEW c \in PE \ {Root}
       PROVE  (SignalIn(c)' <=> SignalIn(c)) /\ poke'[Parent[c]][c] = poke[Parent[c]][c]
  <2>1. <<Parent[c], c>> # <<s, d>>
    BY <1>1, TreeFacts
  <2> QED
    BY <2>1, <1>5, <1>7, TreeFacts DEF SignalIn
<1>11. EdgeBalance'
  BY <1>7, <1>8, <1>9, <1>10 DEF IInv, EdgeBalance
<1>12. Counting'
  <2> DEFINE A == {c \in Children(d) : AckIn(c)}
  <2>1. {c \in Children(d) : AckIn(c)'} = A \cup {s} /\ s \notin A
    BY <1>4, <1>8, <1>9, TreeFacts
  <2>2. IsFiniteSet(A) /\ Cardinality(A) \in Nat
    BY AcksFinite
  <2>3. Cardinality(A \cup {s}) = Cardinality(A) + 1
    BY <2>1, <2>2, FS_AddElement
  <2>4. d # Root => (SignalIn(d)' <=> SignalIn(d))
    BY <1>10
  <2>5. pSync[d] = Cardinality(A) + (IF d # Root /\ SignalIn(d) THEN 1 ELSE 0)
    BY <1>4a DEF IInv, Counting
  <2> HIDE DEF A
  <2>6. pSync'[d] = Cardinality({c \in Children(d) : AckIn(c)'})
                      + (IF d # Root /\ SignalIn(d)' THEN 1 ELSE 0)
    <3>1. Cardinality({c \in Children(d) : AckIn(c)'}) = Cardinality(A) + 1
      BY <2>1, <2>3
    <3>2. (d # Root /\ SignalIn(d)') <=> (d # Root /\ SignalIn(d))
      BY <2>4
    <3> QED
      BY <3>1, <3>2, <2>2, <2>5, <1>6
  <2>7. ASSUME NEW q \in PE, q # d, clear[q] = 0
        PROVE  pSync'[q] = Cardinality({c \in Children(q) : AckIn(c)'})
                             + (IF q # Root /\ SignalIn(q)' THEN 1 ELSE 0)
    <3>1. q # Root => (SignalIn(q)' <=> SignalIn(q))
      BY <1>10
    <3>2. {c \in Children(q) : AckIn(c)'} = {c \in Children(q) : AckIn(c)}
      BY <2>7, <1>1, <1>9, TreeFacts
    <3> QED
      BY <3>1, <3>2, <2>7, <1>6 DEF IInv, Counting
  <2> QED
    BY <2>6, <2>7 DEF Counting
<1>13. TypeOK'
  <2>1. ASSUME NEW q \in PE
        PROVE  /\ pSync'[q] \in Nat
               /\ pSync'[q] <= Cardinality(Children(q)) + (IF q = Root THEN 0 ELSE 1)
    <3>1. CASE q = d
      BY <3>1, <1>12, <1>4a, WordBoundNext
    <3>2. CASE q # d
      BY <3>2, <1>6 DEF IInv, TypeOK
    <3> QED
      BY <3>1, <3>2
  <2>2. pSync' \in [PE -> Nat]
    BY <2>1 DEF IInv, TypeOK
  <2> QED
    BY <2>1, <2>2, <1>5 DEF IInv, TypeOK
<1> QED
  BY <1>1, <1>8, <1>9, <1>10, <1>11, <1>12, <1>13, DeliveredRest

------------------------------------------------------------------------------
\* The theorems.

LEMMA NextIInv ==
  ASSUME IInv, TestsRight, [Next]_vars
  PROVE  IInv'
<1>1. CASE UNCHANGED vars
  <2> USE DEF vars
  <2>1. \A c \in PE \ {Root} :
          /\ signalled(c)' = signalled(c)
          /\ (SignalIn(c)' <=> SignalIn(c)) /\ (AckIn(c)' <=> AckIn(c))
    BY <1>1 DEF signalled, SignalIn, AckIn, acked, Posted
  <2>2. Counting' /\ HasData'
    BY <1>1, <2>1, SameWords DEF IInv, HasData
  <2>3. /\ UNCHANGED <<pc, sent, pSync, poke, clear, met, entered, left>>
        /\ put' = put /\ buf' = buf
    BY <1>1
  <2> QED
    BY <2>2, <2>3, DataStep DEF IInv, TypeOK
<1>2. ASSUME NEW p \in PE,
             Enter(p) \/ Advance(p) \/ Scribble(p) \/ Meet(p) \/ DeliverClear(p)
      PROVE  IInv'
  BY <1>2, EnterStep, ReceiveStep, SendStep, AwaitAcksStep, RestoreStep, ScribbleStep,
     MeetStep, ClearStep
  DEF Advance
<1>3. ASSUME NEW s \in PE, NEW d \in PE, Land(s, d) \/ DeliverPoke(s, d) PROVE IInv'
  <2>1. CASE Land(s, d)
    BY <2>1, LandStep
  <2>2. CASE DeliverPoke(s, d)
    <3>1. poke[s][d] # 0
      BY <2>2 DEF DeliverPoke, IInv, TypeOK
    <3>2. d \in Children(s) \/ s \in Children(d)
      BY <3>1 DEF IInv, OnlyOnEdges
    <3> QED
      BY <2>2, <3>2, DeliverSignal, DeliverAck
  <2> QED
    BY <1>3, <2>1, <2>2
<1> QED
  BY <1>1, <1>2, <1>3 DEF Next, Finished

\* IInv holds throughout: types, and the balance of signals and acks on every
\* tree edge that makes the rest inductive (broadcast.c:41-254).
THEOREM Invariance ==
  ASSUME TestsRight PROVE SafeSpec => []IInv
<1>1. IInv /\ [Next]_vars => IInv'
  BY NextIInv
<1> QED
  BY InitIInv, <1>1, PTL DEF SafeSpec

\* Types, and the bounds of the words and of what is in flight: no edge carries
\* two signals or two acks, no word counts more than one of each neighbour.
THEOREM Typed ==
  ASSUME TestsRight PROVE SafeSpec => []TypeOK
<1>1. IInv => TypeOK
  BY DEF IInv
<1> QED
  BY Invariance, <1>1, PTL

\* When a PE returns, no put still reads its buffer, though nobody waited for
\* the puts: the acks were behind them.
THEOREM Reusable ==
  ASSUME TestsRight PROVE SafeSpec => []BufferReusable
<1>1. IInv => BufferReusable
  <2> SUFFICES ASSUME IInv, NEW p \in PE, pc[p] \in {"restore", "out"}, NEW d \in put[p]
               PROVE  FALSE
    BY DEF BufferReusable
  <2> QED
    BY DataInFlight
<1> QED
  BY Invariance, <1>1, PTL

\* The k-th broadcast of a PE returns with the root's k-th data in its buffer.
THEOREM WithData ==
  ASSUME TestsRight PROVE SafeSpec => ReturnsWithData
<1>1. IInv /\ [Next]_vars => [\A p \in PE : left'[p] # left[p] => buf[p] = left'[p]]_vars
  <2> SUFFICES ASSUME IInv, Next, NEW p \in PE, left'[p] # left[p]
               PROVE  buf[p] = left'[p]
    OBVIOUS
  <2>1. PICK q \in PE : Restore(q)
    BY DEF Next, Advance, Enter, Receive, Send, AwaitAcks, Scribble, Meet, Land,
           DeliverPoke, DeliverClear, Finished, vars
  <2>2. left[q] \in Nat /\ left'[q] = left[q] + 1 /\ pc[q] = "restore"
        /\ \A r \in PE : r # q => left'[r] = left[r]
    BY <2>1, EdgeTypes DEF Restore, Goto, IInv, TypeOK
  <2> QED
    BY <2>2 DEF IInv, HasData
<1> QED
  BY Invariance, <1>1, PTL DEF SafeSpec, ReturnsWithData

\* When all are out, no edge carries or holds anything and both its ends have
\* returned from as many broadcasts.
LEMMA QuietEdge ==
  ASSUME IInv, \A p \in PE : pc[p] = "out", NEW c \in PE \ {Root}
  PROVE  /\ left[c] = left[Parent[c]] /\ ~SignalIn(c) /\ ~AckIn(c)
         /\ poke[c][Parent[c]] = 0 /\ poke[Parent[c]][c] = 0
<1> DEFINE q == Parent[c]
<1>1. q \in PE /\ left[c] \in Nat /\ left[q] \in Nat /\ poke[q][c] \in {0, 1}
      /\ poke[c][q] \in {0, 1}
  BY EdgeTypes DEF IInv
<1>2. signalled(c) = left[q] /\ acked(c) = left[c]
  BY <1>1 DEF signalled, acked
<1>3. /\ left[q] = left[c] + poke[q][c] + 1 \/ left[q] = left[c] + poke[q][c]
      /\ left[c] = left[q] + poke[c][q] + 1 \/ left[c] = left[q] + poke[c][q]
  BY <1>2 DEF IInv, EdgeBalance, SignalIn, AckIn
<1>4. left[q] = left[c] /\ poke[q][c] = 0 /\ poke[c][q] = 0
  BY <1>1, <1>3
<1> QED
  BY <1>1, <1>2, <1>4 DEF SignalIn, AckIn

\* A reset is never in flight together with a signal or an ack for the same word,
\* so it erases none; once everybody has returned the resets are all there is, and
\* after its barrier a PE's pSync is as it was found (broadcast.c:94,139,198,253).
THEOREM GivenBack ==
  ASSUME TestsRight PROVE SafeSpec => []PSyncGivenBack
<1>1. ASSUME IInv, \A p \in PE : pc[p] = "out"
      PROVE  \A p, q \in PE :
               /\ entered[p] = entered[q] /\ poke[p][q] = 0
               /\ pSync[p] = 0 \/ clear[p] = 1
               /\ met[p] = left[p] => pSync[p] = 0 /\ clear[p] = 0
  <2>1. ASSUME NEW p \in PE, clear[p] = 0 PROVE pSync[p] = 0
    <3>1. {c \in Children(p) : AckIn(c)} = {}
      BY <1>1, QuietEdge, TreeFacts
    <3>2. Cardinality({c \in Children(p) : AckIn(c)}) = 0
      BY <3>1, FS_EmptySet
    <3>3. ~(p # Root /\ SignalIn(p))
      BY <1>1, QuietEdge
    <3> QED
      BY <1>1, <2>1, <3>2, <3>3 DEF IInv, Counting
  <2>2. \A p, q \in PE : poke[p][q] = 0
    <3> SUFFICES ASSUME NEW p \in PE, NEW q \in PE, poke[p][q] # 0 PROVE FALSE
      OBVIOUS
    <3>1. q \in Children(p) \/ p \in Children(q)
      BY <1>1 DEF IInv, OnlyOnEdges
    <3> QED
      BY <1>1, <3>1, QuietEdge, TreeFacts
  <2>3. \A p \in PE : left[p] = left[Root]
    <3> DEFINE S == {p \in PE : left[p] = left[Root]}
    <3>1. S \in SUBSET PE /\ Root \in S
      BY TreeAssumption
    <3>2. \A c \in PE \ {Root} : Parent[c] \in S => c \in S
      BY <1>1, QuietEdge
    <3>3. S = PE
      BY <3>1, <3>2, TreeAssumption
    <3> QED
      BY <3>3
  <2>4. \A p \in PE : entered[p] = left[p]
    BY <1>1, EdgeTypes DEF IInv, Phases
  <2>5. ASSUME NEW p \in PE, clear[p] # 0 PROVE clear[p] = 1 /\ met[p] # left[p]
    <3>1. clear[p] = 1 /\ met[p] < left[p]
      BY <1>1, <2>5 DEF IInv, LateResets
    <3>2. left[p] \in Nat
      BY <1>1, EdgeTypes DEF IInv
    <3> QED
      BY <3>1, <3>2
  <2> QED
    BY <2>1, <2>2, <2>3, <2>4, <2>5
<1>2. ASSUME IInv, NEW p \in PE, NEW q \in PE, clear[p] # 0 PROVE poke[q][p] = 0
  <2> SUFFICES ASSUME poke[q][p] # 0 PROVE FALSE
    OBVIOUS
  <2>1. p \in Children(q) \/ q \in Children(p)
    BY <1>2 DEF IInv, OnlyOnEdges
  <2>2. p \in Children(q) => p # Root /\ Parent[p] = q
    BY TreeFacts
  <2> QED
    BY <1>2, <2>1, <2>2, ResetAlone
<1>3. IInv => PSyncGivenBack
  BY <1>1, <1>2 DEF PSyncGivenBack
<1> QED
  BY Invariance, <1>3, PTL

\* Data land only in a target that nobody has returned with, and they are the
\* root's: whoever sends is in the root's broadcast.
LEMMA LandRefines ==
  ASSUME IInv, NEW s \in PE, NEW d \in PE, Land(s, d)
  PROVE  Abstract!Land(d)
<1>1. /\ d \in PE \ {Root} /\ left[d] = left[s] /\ pc[s] = "send"
  BY DataInFlight DEF Land
<1>2. /\ left[s] \in Nat /\ left[Root] \in Nat /\ entered[Root] \in Nat
      /\ entered[s] = left[s] + 1 /\ acked(s) = left[s] + 1
  BY <1>1, EdgeTypes, TreeAssumption DEF IInv, Phases, acked
<1>3. left[s] + 1 <= entered[Root]
  BY <1>2 DEF IInv, RootFirst
<1>4. entered[Root] <= left[s] + 1
  BY TreeAssumption, CloseCalls DEF IInv
<1>5. entered[Root] = left[s] + 1
  BY <1>2, <1>3, <1>4
<1>6. buf[s] = left[s] + 1
  BY <1>1 DEF IInv, HasData
<1> QED
  BY <1>1, <1>2, <1>5, <1>6 DEF Land, Abstract!Land

\* Every step of a tree broadcast is a step of the abstract broadcast or leaves
\* its variables alone (broadcast.c:41-254).
THEOREM Refinement ==
  ASSUME TestsRight PROVE SafeSpec => Abstract!SafeSpec
<1>1. Init => Abstract!Init
  BY DEF Init, Abstract!Init, Other, Abstract!Other
<1>2. IInv /\ [Next]_vars => [Abstract!Next]_(Abstract!vars)
  <2> SUFFICES ASSUME IInv, [Next]_vars PROVE [Abstract!Next]_(Abstract!vars)
    OBVIOUS
  <2>1. ASSUME NEW p \in PE, Enter(p) PROVE Abstract!Enter(p)
    <3>1. /\ entered[p] = left[p] /\ left[p] \in Nat
          /\ \A q \in PE : left[q] \in Nat /\ left[p] <= left[q]
      BY <2>1, EdgeTypes, ParameterAssumption
      DEF Enter, IInv, TypeOK, Phases, Aligned
    <3> QED
      BY <2>1, <3>1 DEF Enter, Abstract!Enter
  <2>2. ASSUME NEW p \in PE, Restore(p) PROVE Abstract!Leave(p)
    <3>1. left[p] \in Nat /\ entered[p] = left[p] + 1 /\ buf[p] = left[p] + 1
      BY <2>2, EdgeTypes DEF Restore, Goto, IInv, Phases, HasData
    <3> QED
      BY <2>2, <3>1 DEF Restore, Abstract!Leave
  <2>3. ASSUME NEW p \in PE, Scribble(p) PROVE Abstract!Overwrite(p)
    BY <2>3, EdgeTypes
    DEF Scribble, Abstract!Overwrite, IInv, Phases, Other, Abstract!Other
  <2>4. ASSUME NEW s \in PE, NEW d \in PE, Land(s, d) PROVE Abstract!Land(d)
    BY <2>4, LandRefines
  <2>5. CASE \A p \in PE : /\ ~Enter(p) /\ ~Restore(p) /\ ~Scribble(p)
                           /\ \A d \in PE : ~Land(p, d)
    <3>1. UNCHANGED <<entered, left, buf>>
      BY <2>5
      DEF Next, vars, DeliverPoke, DeliverClear, Meet, Advance, Receive, Send, AwaitAcks,
          Finished
    <3> QED
      BY <3>1 DEF Abstract!vars
  <2> QED
    BY <2>1, <2>2, <2>3, <2>4, <2>5 DEF Abstract!Next
<1> QED
  BY <1>1, <1>2, Invariance, PTL DEF SafeSpec, Abstract!SafeSpec

=============================================================================
