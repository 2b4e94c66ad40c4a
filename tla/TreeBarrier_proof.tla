-------------------------- MODULE TreeBarrier_proof --------------------------
(***************************************************************************)
(* For every active set, every tree over it and every number of barriers,  *)
(* whenever resets land: IInv is an invariant of the tree barriers with    *)
(* their quiet, hence nobody leaves early, a reset that drops a poke stops *)
(* everybody, the puts are complete, and the algorithm implements the safe *)
(* half of module Barrier.                                                 *)
(*                                                                         *)
(* And the trees of trees.c are such trees: from the parents, which are of *)
(* lower rank and agree with the children, to each of the three, plain and *)
(* rotated, of any size.                                                   *)
(***************************************************************************)
EXTENDS MCTreeBarrier, FiniteSetTheorems, WellFoundedInduction, TLAPS

------------------------------------------------------------------------------
\* Counting neighbours.

LEMMA TheTree ==
  /\ IsFiniteSet(PE) /\ Root \in PE
  /\ Parent \in [PE \ {Root} -> PE] /\ Children \in [PE -> SUBSET PE]
  /\ \A p, c \in PE : c \in Children[p] <=> (c # Root /\ Parent[c] = p)
  /\ \A p, c \in PE : c \in Children[p] => p # c /\ p \notin Children[c]
  /\ Below \in [PE -> SUBSET PE]
  /\ \A p \in PE : Below[p] = {p} \cup UNION {Below[c] : c \in Children[p]}
  /\ Below[Root] = PE
BY TreeAssumption DEF TreeOver

LEMMA TreeFacts ==
  /\ \A p \in PE : Children[p] \subseteq PE /\ Up(p) \subseteq PE
  /\ \A p \in PE : Children[p] \cap Up(p) = {}
  /\ \A p \in PE : p # Root => Parent[p] \in PE /\ p \in Children[Parent[p]]
  /\ \A p \in PE : \A c \in Children[p] : c # Root /\ Parent[c] = p /\ c # p
  /\ \A p \in PE : p \in Below[p]
  /\ \A p \in PE : Below[p] \subseteq PE
<1>1. \A p \in PE : p # Root => Parent[p] \in PE /\ p \in Children[Parent[p]]
  BY TheTree
<1>2. \A p \in PE : Children[p] \subseteq PE
  BY TheTree
<1>3. \A p \in PE : Up(p) \subseteq PE
  BY <1>1 DEF Up
<1>4. \A p \in PE : \A c \in Children[p] : c # Root /\ Parent[c] = p /\ c # p
  BY <1>2, TheTree
<1>5. \A p \in PE : Children[p] \cap Up(p) = {}
  BY <1>1, <1>2, TheTree DEF Up
<1>6. \A p \in PE : p \in Below[p] /\ Below[p] \subseteq PE
  BY TheTree
<1> QED
  BY <1>1, <1>2, <1>3, <1>4, <1>5, <1>6

LEMMA ChildrenFinite ==
  ASSUME NEW p \in PE
  PROVE  IsFiniteSet(Children[p]) /\ npokes(p) \in Nat
<1>1. IsFiniteSet(Children[p])
  BY TreeFacts, TheTree, FS_Subset
<1> QED
  BY <1>1, FS_CardinalityType DEF npokes

\* A PE that holds as many pokes as it has children, none of them from its
\* parent, holds one from each child.
LEMMA AllChildren ==
  ASSUME NEW p \in PE, NEW S \in SUBSET Children[p],
         Cardinality(S) = npokes(p)
  PROVE  S = Children[p]
BY ChildrenFinite, FS_Subset DEF npokes

\* ... and one that holds one more, from its tree neighbours, holds them all.
LEMMA AllNeighbours ==
  ASSUME NEW p \in PE, p # Root, NEW S \in SUBSET (Children[p] \cup Up(p)),
         Cardinality(S) = npokes(p) + 1
  PROVE  S = Children[p] \cup Up(p)
<1> DEFINE T == Children[p] \cup Up(p)
<1>1. Up(p) = {Parent[p]} /\ Parent[p] \notin Children[p]
  BY TreeFacts DEF Up
<1>2. IsFiniteSet(T) /\ Cardinality(T) = npokes(p) + 1
  BY <1>1, ChildrenFinite, FS_AddElement DEF npokes
<1> QED
  BY <1>2, FS_Subset

------------------------------------------------------------------------------
\* Consequences of the balance on the edges, in any state that satisfies it.

LEMMA EdgeBounds ==
  ASSUME TypeOK, Phases, EdgeBalance, NEW p \in PE, NEW c \in Children[p]
  PROVE  /\ c \in PE
         /\ climbed(c) \in Nat /\ left[c] \in Nat /\ left[p] \in Nat
         /\ poke[c][p] \in Nat /\ poke[p][c] \in Nat
         /\ left[c] <= climbed(c) /\ climbed(c) <= left[c] + 1
         /\ left[c] <= left[p] /\ left[p] <= climbed(c)
         /\ poke[c][p] + Landed(c, p) + Lost(c, p) <= 1
         /\ poke[p][c] + Landed(p, c) <= 1
<1>1. c \in PE
  BY TreeFacts
<1>2. /\ left[c] \in Nat /\ left[p] \in Nat /\ entered[c] \in Nat
      /\ poke[c][p] \in Nat /\ poke[p][c] \in Nat
      /\ Landed(c, p) \in {0, 1} /\ Landed(p, c) \in {0, 1} /\ Lost(c, p) \in {0, 1}
  BY <1>1, ParameterAssumption DEF TypeOK, Landed, Lost
<1>3. climbed(c) \in Nat /\ left[c] <= climbed(c) /\ climbed(c) <= left[c] + 1
  BY <1>1, <1>2 DEF climbed, Phases
<1>4. climbed(c) = left[p] + poke[c][p] + Landed(c, p) + Lost(c, p)
  BY DEF EdgeBalance
<1>5. left[p] = left[c] + poke[p][c] + Landed(p, c)
  BY DEF EdgeBalance
<1> QED
  BY <1>1, <1>2, <1>3, <1>4, <1>5

------------------------------------------------------------------------------
\* The inductive invariant, one lemma per action.

THEOREM InitIInv == Init => IInv
<1> SUFFICES ASSUME Init PROVE IInv
  OBVIOUS
<1>1. TypeOK
  BY ParameterAssumption DEF Init, TypeOK
<1>2. Counting
  BY FS_EmptySet DEF Init, Counting
<1>3. EdgeBalance
  BY TreeFacts DEF Init, EdgeBalance, climbed, Landed, Lost
<1>4. SubtreeIn /\ LeftBehind
  BY TreeFacts DEF Init, SubtreeIn, LeftBehind, climbed
<1> QED
  BY <1>1, <1>2, <1>3, <1>4, TheTree
  DEF Init, IInv, LateResets, Phases, OnlyOnEdges, Heard, QuietOnEntry

\* Puts touch nothing the barrier reads except what its quiet waits for.
LEMMA PutStep ==
  ASSUME IInv, NEW p \in PE,
         Put(p) \/ \E e \in unacked[p] : CompletePut(p, e)
  PROVE  IInv'
<1>1. UNCHANGED <<pc, pSync, poke, clear, entered, left, from, lost>>
  BY DEF Put, CompletePut
<1>2. unacked' \in [PE -> SUBSET (0..MaxEpoch)]
  BY DEF IInv, TypeOK, Put, CompletePut
<1>3. QuietOnEntry' /\ TypeOK'
  <2>1. QuietOnEntry'
    <3> SUFFICES ASSUME WithQuiet, NEW q \in PE, NEW e \in unacked'[q]
                 PROVE  pc[q] = "out" /\ e = entered[q]
      BY <1>1 DEF QuietOnEntry
    <3>1. CASE e \in unacked[q]
      BY <3>1 DEF IInv, QuietOnEntry
    <3>2. CASE e \notin unacked[q]
      BY <3>2 DEF IInv, TypeOK, Put, CompletePut
    <3> QED
      BY <3>1, <3>2
  <2>2. TypeOK'
    BY <1>1, <1>2 DEF IInv, TypeOK
  <2> QED
    BY <2>1, <2>2
<1>4. \A q \in PE : climbed(q)' = climbed(q)
  BY <1>1 DEF climbed
<1>5. EdgeBalance' /\ SubtreeIn' /\ LeftBehind'
  BY <1>1, <1>4, TreeFacts DEF IInv, EdgeBalance, SubtreeIn, LeftBehind, Landed, Lost
<1> QED
  BY <1>1, <1>3, <1>5 DEF IInv, LateResets, Phases, Counting, OnlyOnEdges, Heard

\* The quiet at the entry waits for one's own reset.
LEMMA EnterStep ==
  ASSUME WithQuiet, IInv, NEW p \in PE, Enter(p)
  PROVE  IInv'
<1> USE DEF IInv, Enter
<1>1. TypeOK'
  BY ParameterAssumption DEF TypeOK
<1>2. /\ left[p] \in Nat /\ entered[p] = left[p]
      /\ pc'[p] = "gather" /\ entered'[p] = left[p] + 1 /\ left' = left
      /\ \A q \in PE : q # p => pc'[q] = pc[q] /\ entered'[q] = entered[q]
  BY ParameterAssumption DEF TypeOK, Phases
<1>3. Phases'
  BY <1>2 DEF Phases
<1>4. \A q \in PE : climbed(q)' = climbed(q)
  BY <1>2 DEF climbed
<1>5. EdgeBalance' /\ SubtreeIn' /\ LeftBehind'
  BY <1>4, TreeFacts DEF EdgeBalance, SubtreeIn, LeftBehind, Landed, Lost
<1>6. QuietOnEntry'
  BY <1>2 DEF QuietOnEntry, Quiesced
<1>7. LateResets'
  BY <1>2 DEF LateResets, Quiesced
<1>8. Counting' /\ OnlyOnEdges' /\ Heard'
  BY <1>2 DEF Counting, OnlyOnEdges, Heard
<1> QED
  BY <1>1, <1>3, <1>5, <1>6, <1>7, <1>8

\* A PE that has gathered holds exactly its children's pokes: its parent, who
\* answers after p's own poke, has not poked it.  And it has lost none: nobody
\* pokes twice before it leaves.
LEMMA GatheredIsAll ==
  ASSUME IInv, NEW p \in PE, pc[p] = "gather", Gathered(p)
  PROVE  from[p] = Children[p] /\ lost[p] = {}
<1>1. from[p] \cap Up(p) = {}
  <2> SUFFICES ASSUME p # Root, Parent[p] \in from[p] PROVE FALSE
    BY DEF Up
  <2> DEFINE q == Parent[p]
  <2>1. q \in PE /\ p \in Children[q]
    BY TreeFacts
  <2>2. left[q] <= climbed(p) /\ left[q] \in Nat /\ left[p] \in Nat
        /\ poke[q][p] \in Nat
    BY <2>1, EdgeBounds DEF IInv
  <2>3. left[q] = left[p] + poke[q][p] + Landed(q, p)
    BY <2>1 DEF IInv, EdgeBalance
  <2>4. climbed(p) = left[p] /\ Landed(q, p) = 1
    BY DEF climbed, Landed
  <2> QED
    BY <2>2, <2>3, <2>4
<1>2. from[p] \in SUBSET Children[p]
  BY <1>1 DEF IInv, Counting
<1>3. from[p] = Children[p]
  <2>1. CASE npokes(p) = 0
    <3>1. Children[p] = {}
      BY <2>1, ChildrenFinite, FS_EmptySet DEF npokes
    <3> QED
      BY <1>2, <3>1
  <2>2. CASE npokes(p) # 0
    <3>1. Cardinality(from[p]) = npokes(p)
      BY <2>2 DEF IInv, LateResets, Counting, Gathered
    <3> QED
      BY <1>2, <3>1, AllChildren
  <2> QED
    BY <2>1, <2>2
<1>4. ASSUME NEW c \in lost[p] PROVE FALSE
  <2>1. c \in Children[p]
    BY DEF IInv, Counting
  <2>2. poke[c][p] + Landed(c, p) + Lost(c, p) <= 1 /\ poke[c][p] \in Nat
    BY <2>1, EdgeBounds DEF IInv
  <2>3. Landed(c, p) = 1 /\ Lost(c, p) = 1
    BY <1>3, <2>1 DEF Landed, Lost
  <2> QED
    BY <2>2, <2>3
<1> QED
  BY <1>3, <1>4

\* ... so everything below it has climbed, and it may say so.
LEMMA SubtreeOfGathered ==
  ASSUME IInv, NEW p \in PE, pc[p] = "gather", from[p] = Children[p],
         NEW q \in Below[p], q # p
  PROVE  left[p] + 1 <= climbed(q)
<1>1. PICK c \in Children[p] : q \in Below[c]
  BY TheTree
<1>2. c \in PE /\ q \in PE /\ climbed(c) <= climbed(q)
  BY <1>1, TreeFacts DEF IInv, SubtreeIn
<1>3. climbed(c) = left[p] + poke[c][p] + Landed(c, p) + Lost(c, p)
  BY DEF IInv, EdgeBalance
<1>4. /\ Landed(c, p) = 1 /\ poke[c][p] \in Nat /\ Lost(c, p) \in Nat
      /\ left[p] \in Nat /\ climbed(q) \in Nat
  BY <1>2, ParameterAssumption DEF Landed, Lost, climbed, IInv, TypeOK
<1> QED
  BY <1>2, <1>3, <1>4

\* What Climb and Turn have in common: p passes from gathering to the state
\* in which it has spoken for its subtree.
LEMMA Spoken ==
  ASSUME IInv, NEW p \in PE, pc[p] = "gather", from[p] = Children[p], lost[p] = {},
         NEW s \in {"await", "release"}, p = Root <=> s = "release",
         pc' = [pc EXCEPT ![p] = s],
         UNCHANGED <<pSync, clear, unacked, entered, left, from, lost>>
  PROVE  /\ \A q \in PE : climbed(q)' = IF q = p THEN left[p] + 1 ELSE climbed(q)
         /\ Phases' /\ Counting' /\ SubtreeIn' /\ Heard' /\ LeftBehind' /\ QuietOnEntry'
         /\ LateResets'
<1>1. /\ pc'[p] = s /\ entered[p] = left[p] + 1
      /\ \A q \in PE : q # p => pc'[q] = pc[q]
      /\ \A q \in PE : left[q] \in Nat /\ climbed(q) \in Nat
      /\ climbed(p) = left[p]
  BY ParameterAssumption DEF IInv, TypeOK, Phases, climbed
<1>2. \A q \in PE : climbed(q)' = IF q = p THEN left[p] + 1 ELSE climbed(q)
  BY <1>1 DEF climbed
<1>3. \A q \in PE : climbed(q) <= climbed(q)' /\ climbed(q)' \in Nat
  BY <1>1, <1>2
<1>4. SubtreeIn'
  <2> SUFFICES ASSUME NEW r \in PE, NEW q \in Below[r] PROVE climbed(r)' <= climbed(q)'
    BY DEF SubtreeIn
  <2>1. q \in PE /\ climbed(r) <= climbed(q)
    BY TreeFacts DEF IInv, SubtreeIn
  <2>2. CASE r # p
    BY <1>1, <1>2, <1>3, <2>1, <2>2
  <2>3. CASE r = p /\ q # p
    BY <1>2, <2>1, <2>3, SubtreeOfGathered
  <2>4. CASE r = p /\ q = p
    BY <1>3, <2>4
  <2> QED
    BY <2>2, <2>3, <2>4
<1>5. LeftBehind'
  <2> SUFFICES ASSUME NEW q \in PE, NEW r \in PE PROVE left[q] <= climbed(r)'
    BY DEF LeftBehind
  <2>1. left[q] <= climbed(r)
    BY DEF IInv, LeftBehind
  <2> QED
    BY <1>1, <1>3, <2>1
<1>6. Heard'
  BY <1>1, TheTree DEF IInv, Heard, Up
<1>7. Phases' /\ Counting' /\ QuietOnEntry' /\ LateResets'
  BY <1>1, TheTree DEF IInv, Phases, Counting, QuietOnEntry, LateResets
<1> QED
  BY <1>2, <1>4, <1>5, <1>6, <1>7

LEMMA ClimbStep ==
  ASSUME IInv, NEW p \in PE, Climb(p)
  PROVE  IInv'
<1> DEFINE up == Parent[p]
<1>1. from[p] = Children[p] /\ lost[p] = {}
  BY GatheredIsAll DEF Climb
<1>2. /\ \A q \in PE : climbed(q)' = IF q = p THEN left[p] + 1 ELSE climbed(q)
      /\ Phases' /\ Counting' /\ SubtreeIn' /\ Heard' /\ LeftBehind' /\ QuietOnEntry'
      /\ LateResets'
  BY <1>1, Spoken DEF Climb
<1>3. p # Root /\ up \in PE /\ p \in Children[up] /\ up # p
  BY TreeFacts DEF Climb
<1>4. \A s, d \in PE : poke'[s][d] = IF s = p /\ d = up THEN poke[s][d] + 1 ELSE poke[s][d]
  BY <1>3 DEF Climb, IInv, TypeOK
<1>5. TypeOK'
  BY <1>3 DEF Climb, IInv, TypeOK
<1>6. EdgeBalance'
  <2> SUFFICES ASSUME NEW q \in PE, NEW c \in Children[q]
               PROVE  /\ climbed(c)' = left[q] + poke'[c][q] + Landed(c, q) + Lost(c, q)
                      /\ left[q] = left[c] + poke'[q][c] + Landed(q, c)
    BY DEF EdgeBalance, Climb, Landed, Lost
  <2>1. c \in PE /\ c # Root /\ Parent[c] = q
    BY TreeFacts
  <2>2. /\ climbed(c) = left[q] + poke[c][q] + Landed(c, q) + Lost(c, q)
        /\ left[q] = left[c] + poke[q][c] + Landed(q, c)
    BY DEF IInv, EdgeBalance
  <2>3. poke'[q][c] = poke[q][c]
    BY <1>3, <1>4, <2>1, TheTree
  <2>4. CASE c = p
    <3>1. q = up /\ poke'[c][q] = poke[c][q] + 1
      BY <1>3, <1>4, <2>1, <2>4
    <3>2. climbed(p) = left[p] /\ climbed(p)' = left[p] + 1
      BY <1>2 DEF climbed, Climb
    <3>3. left[p] \in Nat /\ left[q] \in Nat /\ poke[c][q] \in Nat /\ Landed(c, q) \in Nat
          /\ Lost(c, q) \in Nat
      BY <2>1, <2>4, ParameterAssumption DEF IInv, TypeOK, Landed, Lost
    <3> QED
      BY <2>2, <2>3, <2>4, <3>1, <3>2, <3>3
  <2>5. CASE c # p
    BY <1>2, <1>4, <2>1, <2>2, <2>3, <2>5
  <2> QED
    BY <2>4, <2>5
<1>7. OnlyOnEdges'
  BY <1>3, <1>4 DEF IInv, OnlyOnEdges
<1> QED
  BY <1>2, <1>5, <1>6, <1>7 DEF IInv

LEMMA TurnStep ==
  ASSUME IInv, NEW p \in PE, Turn(p)
  PROVE  IInv'
<1>1. from[p] = Children[p] /\ lost[p] = {} /\ p = Root
  BY GatheredIsAll DEF Turn
<1>2. /\ \A q \in PE : climbed(q)' = IF q = p THEN left[p] + 1 ELSE climbed(q)
      /\ Phases' /\ Counting' /\ SubtreeIn' /\ Heard' /\ LeftBehind' /\ QuietOnEntry'
      /\ LateResets'
  BY <1>1, Spoken DEF Turn
<1>3. TypeOK'
  BY DEF Turn, IInv, TypeOK
<1>4. EdgeBalance'
  BY <1>1, <1>2, TreeFacts DEF IInv, EdgeBalance, Turn, Landed, Lost
<1>5. OnlyOnEdges'
  BY DEF IInv, OnlyOnEdges, Turn
<1> QED
  BY <1>2, <1>3, <1>4, <1>5 DEF IInv

LEMMA AwaitStep ==
  ASSUME IInv, NEW p \in PE, Await(p)
  PROVE  IInv'
<1>1. TypeOK'
  BY DEF Await, Answered, IInv, TypeOK
<1>2. \A q \in PE : climbed(q)' = climbed(q)
  BY DEF climbed, Await, Answered, IInv, TypeOK
<1>3. EdgeBalance' /\ SubtreeIn' /\ LeftBehind'
  BY <1>2, TreeFacts
  DEF IInv, EdgeBalance, SubtreeIn, LeftBehind, Landed, Lost, Await, Answered
<1>4. Heard'
  <2>1. from[p] = Children[p] \cup Up(p)
    <3>1. p # Root
      \* the root never waits for a parent
      BY DEF IInv, Phases, Await
    <3> QED
      BY <3>1, AllNeighbours DEF IInv, LateResets, Counting, Await, Answered
  <2> QED
    BY <2>1 DEF IInv, TypeOK, Heard, Await, Answered
<1>5. Phases' /\ Counting' /\ OnlyOnEdges' /\ QuietOnEntry' /\ LateResets'
  BY DEF IInv, TypeOK, Phases, Counting, OnlyOnEdges, QuietOnEntry, LateResets, Await,
         Answered
<1> QED
  BY <1>1, <1>3, <1>4, <1>5 DEF IInv

\* The parent's poke says that all have climbed, and so does the root's own turn.
LEMMA MayLeave ==
  ASSUME IInv, NEW p \in PE, pc[p] = "release"
  PROVE  \A q \in PE : left[p] + 1 <= climbed(q)
<1>1. from[p] = Children[p] \cup Up(p) /\ entered[p] = left[p] + 1
  BY DEF IInv, Phases, Heard
<1>2. \A q \in PE : left[q] \in Nat /\ climbed(q) \in Nat
  BY ParameterAssumption DEF IInv, TypeOK, climbed
<1>3. CASE p = Root
  BY <1>1, <1>3, TheTree DEF IInv, SubtreeIn, climbed
<1>4. CASE p # Root
  <2> DEFINE up == Parent[p]
  <2>1. up \in PE /\ p \in Children[up] /\ up \in from[p]
    BY <1>1, <1>4, TreeFacts DEF Up
  <2>2. left[up] = left[p] + poke[up][p] + Landed(up, p) /\ Landed(up, p) = 1
    BY <2>1 DEF IInv, EdgeBalance, Landed
  <2>3. left[up] >= left[p] + 1
    BY <1>2, <2>1, <2>2 DEF IInv, TypeOK
  <2> QED
    BY <1>2, <2>1, <2>3 DEF IInv, LeftBehind
<1> QED
  BY <1>3, <1>4

\* Release consumes the poke of every child and of the parent, resets, and
\* makes one poke per child.
LEMMA ReleaseStep ==
  ASSUME IInv, NEW p \in PE, Release(p)
  PROVE  IInv'
<1>1. /\ pc[p] = "release" /\ pc'[p] = "out"
      /\ left'[p] = left[p] + 1 /\ entered[p] = left[p] + 1
      /\ from[p] = Children[p] \cup Up(p) /\ lost[p] = {}
      /\ from'[p] = {} /\ clear[p] = 0 /\ clear'[p] = 1
      /\ UNCHANGED <<pSync, unacked, entered, lost>>
  BY DEF IInv, TypeOK, Phases, Heard, Release, Reset, LateResets
<1>2. \A q \in PE : q # p => /\ pc'[q] = pc[q] /\ left'[q] = left[q]
                             /\ from'[q] = from[q] /\ clear'[q] = clear[q]
  BY DEF IInv, TypeOK, Release, Reset
<1>3. \A s, d \in PE : poke'[s][d] =
        IF s = p /\ d \in Children[p] THEN poke[s][d] + 1 ELSE poke[s][d]
  BY DEF IInv, TypeOK, Release
<1>4. \A q \in PE : left[q] \in Nat /\ entered[q] \in Nat /\ climbed(q) \in Nat
  BY ParameterAssumption DEF IInv, TypeOK, climbed
<1>5. \A q \in PE : climbed(q)' = climbed(q)
  BY <1>1, <1>2 DEF climbed
<1>6. \A q \in PE : left[p] + 1 <= climbed(q)
  BY <1>1, MayLeave
<1>7. TypeOK'
  <2>1. entered[p] \in 0..MaxEpoch
    BY DEF IInv, TypeOK
  <2>2. left' \in [PE -> 0..MaxEpoch]
    BY <1>1, <2>1 DEF IInv, TypeOK, Release
  <2>3. \A d \in PE : poke[p][d] \in Nat
    BY DEF IInv, TypeOK
  <2>4. [d \in PE |-> IF d \in Children[p] THEN poke[p][d] + 1 ELSE poke[p][d]]
          \in [PE -> Nat]
    BY <2>3
  <2>5. poke' \in [PE -> [PE -> Nat]]
    BY <2>4 DEF IInv, TypeOK, Release
  <2>6. /\ pc' \in [PE -> {"out", "gather", "await", "release"}]
        /\ from' \in [PE -> SUBSET PE]
        /\ clear' \in [PE -> Nat]
    BY DEF IInv, TypeOK, Release, Reset
  <2> QED
    BY <1>1, <2>2, <2>5, <2>6 DEF IInv, TypeOK
<1>8. Phases'
  <2>1. ASSUME NEW q \in PE
        PROVE  entered'[q] = IF pc'[q] = "out" THEN left'[q] ELSE left'[q] + 1
    BY <1>1, <1>2 DEF IInv, Phases
  <2>2. pc'[Root] # "await"
    BY <1>1, <1>2, TheTree DEF IInv, Phases
  <2> QED
    BY <2>1, <2>2 DEF Phases
<1>9. Counting'
  BY <1>1, <1>2 DEF IInv, Counting
<1>10. EdgeBalance'
  <2> SUFFICES ASSUME NEW q \in PE, NEW c \in Children[q]
               PROVE  /\ climbed(c)' = left'[q] + poke'[c][q] + Landed(c, q)' + Lost(c, q)'
                      /\ left'[q] = left'[c] + poke'[q][c] + Landed(q, c)'
    BY DEF EdgeBalance
  <2>1. c \in PE /\ c # Root /\ Parent[c] = q /\ c # q /\ q \notin Children[c]
    BY TreeFacts, TheTree
  <2>2. /\ climbed(c) = left[q] + poke[c][q] + Landed(c, q) + Lost(c, q)
        /\ left[q] = left[c] + poke[q][c] + Landed(q, c)
    BY DEF IInv, EdgeBalance
  <2>3. poke'[c][q] = poke[c][q] /\ Lost(c, q)' = Lost(c, q)
    BY <1>1, <1>3, <2>1 DEF Lost
  <2>4. /\ poke[c][q] \in Nat /\ poke[q][c] \in Nat /\ left[c] \in Nat /\ left[q] \in Nat
        /\ Landed(c, q) \in {0, 1} /\ Landed(q, c) \in {0, 1} /\ Lost(c, q) \in {0, 1}
    BY <1>4, <2>1 DEF IInv, TypeOK, Landed, Lost
  <2>5. climbed(c)' = climbed(c)
    BY <1>5, <2>1
  <2>6. CASE q = p
    <3>1. Landed(c, q) = 1 /\ Landed(c, q)' = 0
      BY <1>1, <2>6 DEF Landed
    <3>2. Landed(q, c)' = Landed(q, c) /\ left'[c] = left[c]
      BY <1>2, <2>1, <2>6 DEF Landed
    <3>3. poke'[q][c] = poke[q][c] + 1 /\ left'[q] = left[q] + 1
      BY <1>1, <1>3, <2>1, <2>6
    <3> QED
      BY <2>2, <2>3, <2>4, <2>5, <3>1, <3>2, <3>3
  <2>7. CASE c = p
    <3>1. Landed(q, c) = 1 /\ Landed(q, c)' = 0
      BY <1>1, <2>1, <2>7 DEF Landed, Up
    <3>2. Landed(c, q)' = Landed(c, q) /\ left'[q] = left[q]
      BY <1>2, <2>1, <2>7 DEF Landed
    <3>3. poke'[q][c] = poke[q][c] /\ left'[c] = left[c] + 1
      BY <1>1, <1>3, <2>1, <2>7
    <3> QED
      BY <2>2, <2>3, <2>4, <2>5, <3>1, <3>2, <3>3
  <2>8. CASE q # p /\ c # p
    BY <1>2, <1>3, <2>1, <2>2, <2>3, <2>5, <2>8 DEF Landed
  <2> QED
    BY <2>6, <2>7, <2>8
<1>11. OnlyOnEdges'
  BY <1>3 DEF IInv, OnlyOnEdges
<1>12. SubtreeIn'
  BY <1>5, TreeFacts DEF IInv, SubtreeIn
<1>13. LeftBehind'
  BY <1>1, <1>2, <1>5, <1>6 DEF IInv, LeftBehind
<1>14. Heard'
  BY <1>1, <1>2 DEF IInv, Heard
<1>15. QuietOnEntry'
  BY <1>1, <1>2 DEF IInv, QuietOnEntry
<1>16. LateResets'
  BY <1>1, <1>2 DEF IInv, LateResets
<1> QED
  BY <1>7, <1>8, <1>9, <1>10, <1>11, <1>12, <1>13, <1>14, <1>15, <1>16 DEF IInv

\* A PE whose reset is in flight is outside: its parent, who waits for it, has
\* not poked it again.
LEMMA NothingFromAbove ==
  ASSUME IInv, NEW d \in PE, NEW s \in PE, d \in Children[s], clear[d] # 0
  PROVE  poke[s][d] = 0 /\ Landed(s, d) = 0
<1>1. climbed(d) = left[d]
  BY DEF IInv, LateResets, climbed
<1>2. left[s] = left[d] + poke[s][d] + Landed(s, d) /\ Landed(s, d) \in {0, 1}
  BY DEF IInv, EdgeBalance, Landed
<1>3. left[s] <= climbed(d) /\ left[s] \in Nat /\ left[d] \in Nat /\ poke[s][d] \in Nat
  BY EdgeBounds DEF IInv
<1> QED
  BY <1>1, <1>2, <1>3

\* A poke that lands is one its target does not hold yet, and one its target
\* is still to consume.
LEMMA DeliverPokeStep ==
  ASSUME IInv, NEW s \in PE, NEW d \in PE, DeliverPoke(s, d)
  PROVE  IInv'
<1>1. /\ poke[s][d] \in Nat /\ poke[s][d] > 0 /\ poke'[s][d] = poke[s][d] - 1
      /\ from'[d] = from[d] \cup {s} /\ pSync'[d] = pSync[d] + 1
      /\ UNCHANGED <<pc, clear, unacked, entered, left, lost>>
  BY DEF IInv, TypeOK, DeliverPoke
<1>2. \A q \in PE : q # d => from'[q] = from[q] /\ pSync'[q] = pSync[q]
  BY DEF IInv, TypeOK, DeliverPoke
<1>3. \A q, r \in PE : q # s \/ r # d => poke'[q][r] = poke[q][r]
  BY DEF IInv, TypeOK, DeliverPoke
<1>4. d \in Children[s] \/ s \in Children[d]
  BY <1>1 DEF IInv, OnlyOnEdges
<1>5. s \notin from[d] /\ s \in Children[d] \cup Up(d)
  <2>1. CASE d \in Children[s]
    <3>1. poke[s][d] + Landed(s, d) <= 1
      BY <2>1, EdgeBounds DEF IInv
    <3>2. d # Root /\ Parent[d] = s
      BY <2>1, TreeFacts
    <3> QED
      BY <1>1, <3>1, <3>2 DEF Landed, Up
  <2>2. CASE s \in Children[d]
    <3>1. poke[s][d] + Landed(s, d) + Lost(s, d) <= 1 /\ Lost(s, d) \in {0, 1}
      BY <2>2, EdgeBounds DEF IInv, Lost
    <3> QED
      BY <1>1, <2>2, <3>1 DEF Landed
  <2> QED
    BY <1>4, <2>1, <2>2
<1>6. TypeOK'
  BY <1>1 DEF IInv, TypeOK, DeliverPoke
\* on a reset in flight only a child's poke can come
<1>7. clear[d] # 0 => s \in Children[d]
  BY <1>1, <1>4, NothingFromAbove
<1>8. Counting'
  <2>1. IsFiniteSet(from[d])
    BY TheTree, FS_Subset DEF IInv, TypeOK
  <2>2. Cardinality(from'[d]) = Cardinality(from[d]) + 1
    BY <1>1, <1>5, <2>1, FS_AddElement
  <2> QED
    BY <1>1, <1>2, <1>5, <1>7, <2>2 DEF IInv, Counting
<1>9. \A q, r \in PE :
        Landed(q, r)' = IF q = s /\ r = d THEN 1 ELSE Landed(q, r)
  BY <1>1, <1>2 DEF Landed
<1>10. EdgeBalance'
  <2> SUFFICES ASSUME NEW p \in PE, NEW c \in Children[p]
               PROVE  /\ climbed(c)' = left'[p] + poke'[c][p] + Landed(c, p)' + Lost(c, p)'
                      /\ left'[p] = left'[c] + poke'[p][c] + Landed(p, c)'
    BY DEF EdgeBalance
  <2>1. c \in PE /\ left[p] \in Nat /\ left[c] \in Nat
    BY TreeFacts, ParameterAssumption DEF IInv, TypeOK
  <2>2. /\ climbed(c) = left[p] + poke[c][p] + Landed(c, p) + Lost(c, p)
        /\ left[p] = left[c] + poke[p][c] + Landed(p, c)
    BY DEF IInv, EdgeBalance
  <2>3. climbed(c)' = climbed(c) /\ left' = left /\ Lost(c, p)' = Lost(c, p)
        /\ Lost(c, p) \in Nat
    BY <1>1 DEF climbed, Lost
  <2>4. Landed(s, d) = 0
    BY <1>5 DEF Landed
  <2>5. \A q, r \in PE : poke'[q][r] + Landed(q, r)' = poke[q][r] + Landed(q, r)
    BY <1>1, <1>3, <1>9, <2>4
  <2>6. /\ poke'[c][p] \in Nat /\ poke'[p][c] \in Nat
        /\ poke[c][p] \in Nat /\ poke[p][c] \in Nat
        /\ Landed(c, p) \in Nat /\ Landed(p, c) \in Nat
        /\ Landed(c, p)' \in Nat /\ Landed(p, c)' \in Nat
    BY <1>6, <2>1 DEF IInv, TypeOK, Landed
  <2>7. /\ poke'[c][p] + Landed(c, p)' = poke[c][p] + Landed(c, p)
        /\ poke'[p][c] + Landed(p, c)' = poke[p][c] + Landed(p, c)
    BY <2>1, <2>5
  <2>8. climbed(c)' = left'[p] + poke'[c][p] + Landed(c, p)' + Lost(c, p)'
    BY <2>1, <2>2, <2>3, <2>6, <2>7
  <2>9. left'[p] = left'[c] + poke'[p][c] + Landed(p, c)'
    BY <2>1, <2>2, <2>3, <2>6, <2>7
  <2> QED
    BY <2>8, <2>9
<1>11. OnlyOnEdges'
  BY <1>1, <1>3 DEF IInv, OnlyOnEdges
<1>12. Heard'
  BY <1>1, <1>2, <1>5 DEF IInv, Heard
<1>13. SubtreeIn' /\ LeftBehind' /\ Phases' /\ QuietOnEntry' /\ LateResets'
  BY <1>1
  DEF IInv, SubtreeIn, LeftBehind, Phases, QuietOnEntry, LateResets, climbed
<1> QED
  BY <1>6, <1>8, <1>10, <1>11, <1>12, <1>13 DEF IInv

\* A reset that lands moves what its word held of the next barrier, pokes of
\* children, to what is lost.
LEMMA DeliverClearStep ==
  ASSUME IInv, NEW p \in PE, DeliverClear(p)
  PROVE  IInv'
<1>1. /\ clear[p] # 0 /\ clear[p] = 1 /\ clear'[p] = 0 /\ pSync'[p] = 0
      /\ pc[p] = "out" /\ from'[p] = {} /\ lost'[p] = lost[p] \cup from[p]
      /\ UNCHANGED <<pc, poke, unacked, entered, left>>
  BY DEF DeliverClear, IInv, TypeOK, LateResets
<1>2. \A q \in PE : q # p => /\ clear'[q] = clear[q] /\ pSync'[q] = pSync[q]
                             /\ from'[q] = from[q] /\ lost'[q] = lost[q]
  BY DEF DeliverClear, IInv, TypeOK
<1>3. TypeOK'
  BY DEF DeliverClear, IInv, TypeOK
<1>4. Counting'
  BY <1>1, <1>2, FS_EmptySet DEF IInv, Counting
<1>5. LateResets' /\ Heard'
  BY <1>1, <1>2 DEF IInv, LateResets, Heard
<1>6. \A q \in PE : climbed(q)' = climbed(q)
  BY <1>1 DEF climbed
<1>7. EdgeBalance'
  <2> SUFFICES ASSUME NEW q \in PE, NEW c \in Children[q]
               PROVE  /\ climbed(c)' = left[q] + poke[c][q] + Landed(c, q)' + Lost(c, q)'
                      /\ left[q] = left[c] + poke[q][c] + Landed(q, c)'
    BY <1>1 DEF EdgeBalance
  <2>1. c \in PE /\ c # q
    BY TreeFacts
  <2>2. /\ climbed(c) = left[q] + poke[c][q] + Landed(c, q) + Lost(c, q)
        /\ left[q] = left[c] + poke[q][c] + Landed(q, c)
    BY DEF IInv, EdgeBalance
  <2>3. Landed(q, c)' = Landed(q, c)
    <3>1. CASE c = p
      BY <1>1, <2>1, <3>1, NothingFromAbove DEF Landed
    <3>2. CASE c # p
      BY <1>2, <2>1, <3>2 DEF Landed
    <3> QED
      BY <3>1, <3>2
  <2>4. Landed(c, q)' + Lost(c, q)' = Landed(c, q) + Lost(c, q)
    <3>1. CASE q = p
      <4>1. poke[c][p] + Landed(c, p) + Lost(c, p) <= 1 /\ poke[c][p] \in Nat
        BY <3>1, EdgeBounds DEF IInv
      <4>2. Landed(c, p)' = 0 /\ (Lost(c, p)' = 1 <=> c \in from[p] \/ c \in lost[p])
            /\ Lost(c, p)' \in {0, 1}
        BY <1>1 DEF Landed, Lost
      <4> QED
        BY <3>1, <4>1, <4>2 DEF Landed, Lost
    <3>2. CASE q # p
      BY <1>2, <3>2 DEF Landed, Lost
    <3> QED
      BY <3>1, <3>2
  <2>5. /\ left[q] \in Nat /\ poke[c][q] \in Nat
        /\ Landed(c, q) \in Nat /\ Lost(c, q) \in Nat
        /\ Landed(c, q)' \in Nat /\ Lost(c, q)' \in Nat
    BY <2>1, ParameterAssumption DEF IInv, TypeOK, Landed, Lost
  <2> QED
    BY <1>6, <2>1, <2>2, <2>3, <2>4, <2>5
<1>8. SubtreeIn' /\ LeftBehind'
  BY <1>1, <1>6, TreeFacts DEF IInv, SubtreeIn, LeftBehind
<1> QED
  BY <1>1, <1>3, <1>4, <1>5, <1>7, <1>8 DEF IInv, Phases, OnlyOnEdges, QuietOnEntry

------------------------------------------------------------------------------
\* The theorems.

LEMMA NextIInv ==
  ASSUME WithQuiet, IInv, [Next]_vars
  PROVE  IInv'
<1>1. CASE \E p \in PE : Put(p) \/ \E e \in unacked[p] : CompletePut(p, e)
  BY <1>1, PutStep
<1>2. CASE \E p \in PE : Enter(p)
  BY <1>2, EnterStep
<1>3. CASE \E p \in PE : Climb(p)
  BY <1>3, ClimbStep
<1>4. CASE \E p \in PE : Turn(p)
  BY <1>4, TurnStep
<1>5. CASE \E p \in PE : Await(p)
  BY <1>5, AwaitStep
<1>6. CASE \E p \in PE : Release(p)
  BY <1>6, ReleaseStep
<1>7. CASE \E p, d \in PE : DeliverPoke(p, d)
  BY <1>7, DeliverPokeStep
<1>8. CASE \E p \in PE : DeliverClear(p)
  BY <1>8, DeliverClearStep
<1>9. CASE Finished \/ UNCHANGED vars
  <2>1. UNCHANGED vars
    BY <1>9 DEF Finished
  <2> QED
    BY <2>1 DEF vars, IInv, TypeOK, LateResets, Phases, Counting, EdgeBalance, OnlyOnEdges,
       SubtreeIn, Heard, LeftBehind, QuietOnEntry, climbed, Landed, Lost
<1> QED
  BY <1>1, <1>2, <1>3, <1>4, <1>5, <1>6, <1>7, <1>8, <1>9 DEF Next, Advance, Fabric

\* IInv holds throughout: types, and the balance of pokes on every tree edge
\* that makes the rest inductive (barrier.c:64-196,239,246).
THEOREM Invariance ==
  ASSUME WithQuiet PROVE SafeSpec => []IInv
<1>1. IInv /\ [Next]_vars => IInv'
  BY NextIInv
<1> QED
  BY InitIInv, <1>1, PTL DEF SafeSpec

LEMMA AllIn == IInv => BarrierSafety
<1> SUFFICES ASSUME IInv, NEW p \in PE, NEW q \in PE PROVE left[p] <= entered[q]
  BY DEF BarrierSafety
<1>1. left[p] <= climbed(q)
  BY DEF IInv, LeftBehind
<1>2. climbed(q) <= entered[q] /\ climbed(q) \in Nat /\ entered[q] \in Nat /\ left[p] \in Nat
  BY ParameterAssumption DEF IInv, TypeOK, Phases, climbed
<1> QED
  BY <1>1, <1>2

\* No PE returns from its k-th barrier before every PE has called its k-th,
\* wherever a late reset lands.
THEOREM Safety ==
  ASSUME WithQuiet PROVE SafeSpec => []BarrierSafety
BY Invariance, AllIn, PTL

\* A barrier one of whose pokes a late reset has overwritten lets nobody leave.
THEOREM LossStops ==
  ASSUME WithQuiet PROVE SafeSpec => []DroppedPokeStops
<1>1. IInv => DroppedPokeStops
  <2> SUFFICES ASSUME IInv, NEW p \in PE, lost[p] # {}
               PROVE  /\ pc[p] \in {"out", "gather"}
                      /\ \A q \in PE : left[q] <= left[p]
    BY DEF DroppedPokeStops
  <2>1. pc[p] \in {"out", "gather"}
    BY DEF IInv, TypeOK, Heard
  <2>2. climbed(p) = left[p]
    BY <2>1 DEF climbed
  <2> QED
    BY <2>1, <2>2 DEF IInv, LeftBehind
<1> QED
  BY Invariance, <1>1, PTL

\* With the quiet, a PE that returns finds the puts issued before done.
THEOREM PutsComplete ==
  ASSUME WithQuiet PROVE SafeSpec => []BarrierCompletesPuts
<1>1. IInv => BarrierCompletesPuts
  BY AllIn DEF IInv, QuietOnEntry, BarrierSafety, BarrierCompletesPuts
<1> QED
  BY Invariance, <1>1, PTL

\* Every step of a tree barrier is a step of the abstract barrier or leaves
\* its variables alone.
THEOREM Refinement ==
  ASSUME WithQuiet PROVE SafeSpec => ImplementsBarrier
<1>1. Init => Abstract!Init
  BY DEF Init, Abstract!Init
<1>2. IInv /\ [Next]_vars => [Abstract!Next]_(Abstract!vars)
  <2> SUFFICES ASSUME IInv, [Next]_vars PROVE [Abstract!Next]_(Abstract!vars)
    OBVIOUS
  <2>1. ASSUME NEW p \in PE, Enter(p) PROVE Abstract!Enter(p)
    BY <2>1 DEF Enter, Abstract!Enter, IInv, Phases
  <2>2. ASSUME NEW p \in PE, Release(p) PROVE Abstract!Leave(p)
    <3>1. /\ left[p] \in Nat /\ entered[p] = left[p] + 1
          /\ left'[p] = left[p] + 1 /\ entered' = entered
      BY <2>2, ParameterAssumption DEF Release, IInv, TypeOK, Phases
    <3>2. \A q \in PE : left[p] + 1 <= climbed(q)
      BY <2>2, MayLeave DEF Release
    <3>3. \A q \in PE : climbed(q) <= entered[q] /\ climbed(q) \in Nat /\ entered[q] \in Nat
      BY ParameterAssumption DEF IInv, TypeOK, Phases, climbed
    <3>4. \A q \in PE : entered[q] >= entered[p]
      BY <3>1, <3>2, <3>3
    <3> QED
      BY <2>2, <3>1, <3>4 DEF Release, Abstract!Leave
  <2>3. CASE \A p \in PE : ~Enter(p) /\ ~Release(p)
    <3>1. UNCHANGED <<entered, left>>
      BY <2>3
      DEF Next, vars, Put, CompletePut, DeliverPoke, DeliverClear, Fabric,
          Advance, Climb, Turn, Await, Finished
    <3> QED
      BY <3>1 DEF Abstract!vars
  <2> QED
    BY <2>1, <2>2, <2>3 DEF Abstract!Next
<1> QED
  BY <1>1, <1>2, Invariance, PTL DEF SafeSpec, Abstract!SafeSpec, ImplementsBarrier

------------------------------------------------------------------------------
\* The trees of trees.c.

Less == {ss \in Nat \X Nat : ss[1] < ss[2]}

LEMMA LessWF == IsWellFoundedOn(Less, Nat)
<1>1. IsWellFoundedOn(OpToRel(<, Nat), Nat)
  BY NatLessThanWellFounded
<1>2. OpToRel(<, Nat) = Less
  BY DEF OpToRel, Less
<1> QED
  BY <1>1, <1>2

LEMMA LeastIn ==
  ASSUME NEW T \in SUBSET Nat, T # {}
  PROVE  \E x \in T : \A y \in T : x <= y
<1>1. PICK x \in T : \A y \in T : ~ (<<y, x>> \in Less)
  BY LessWF, WFMin
<1>2. \A y \in T : ~(y < x)
  BY <1>1 DEF Less
<1> QED
  BY <1>2

LEMMA Induction ==
  ASSUME NEW T, 0 \in T, \A n \in Nat : n \in T => n + 1 \in T
  PROVE  \A n \in Nat : n \in T
<1> DEFINE S == {n \in Nat : n \notin T}
<1> SUFFICES ASSUME S # {} PROVE FALSE
  OBVIOUS
<1>1. PICK x \in S : \A y \in S : x <= y
  <2>1. S \in SUBSET Nat
    OBVIOUS
  <2> HIDE DEF S
  <2> QED
    BY <2>1, LeastIn
<1>2. x - 1 \in Nat /\ x - 1 \notin S
  BY <1>1
<1>3. x - 1 \in T
  BY <1>2
<1>4. (x - 1) + 1 \in T
  BY <1>2, <1>3
<1> QED
  BY <1>4

\* A function may be applied over and over.
Iterated(f, n, S, a, F) ==
  f \in [0..n -> S] /\ f[0] = a /\ \A i \in 1..n : f[i] = F[f[i - 1]]

LEMMA Iterates ==
  ASSUME NEW S, NEW a \in S, NEW F \in [S -> S], NEW n \in Nat
  PROVE  \E f : Iterated(f, n, S, a, F)
<1> DEFINE Done(f, m) == f[0] = a /\ \A i \in 1..m : f[i] = F[f[i - 1]]
           T == {m \in Nat : \E f \in [0..m -> S] : Done(f, m)}
<1>1. 0 \in T
  <2> DEFINE f == [i \in 0..0 |-> a]
  <2>1. f \in [0..0 -> S] /\ Done(f, 0)
    OBVIOUS
  <2> QED
    BY <2>1
<1>2. ASSUME NEW m \in Nat, m \in T PROVE m + 1 \in T
  <2>1. PICK f \in [0..m -> S] : Done(f, m)
    BY <1>2
  <2> DEFINE g == [i \in 0..(m + 1) |-> IF i = m + 1 THEN F[f[m]] ELSE f[i]]
  <2>2. g \in [0..(m + 1) -> S]
    <3>1. F[f[m]] \in S /\ m \in 0..m
      OBVIOUS
    <3> QED
      BY <3>1
  <2>3. \A i \in 0..(m + 1) : g[i] = IF i = m + 1 THEN F[f[m]] ELSE f[i]
    OBVIOUS
  <2> HIDE DEF g
  <2>4. g[0] = a
    BY <2>1, <2>3
  <2>5. ASSUME NEW i \in 1..(m + 1) PROVE g[i] = F[g[i - 1]]
    <3>1. i \in 0..(m + 1) /\ i - 1 \in 0..(m + 1) /\ i - 1 # m + 1
      OBVIOUS
    <3>2. g[i - 1] = f[i - 1]
      BY <2>3, <3>1
    <3>3. CASE i = m + 1
      <4>1. i - 1 = m
        BY <3>3
      <4> QED
        BY <2>3, <3>1, <3>2, <3>3, <4>1
    <3>4. CASE i # m + 1
      <4>1. i \in 1..m
        BY <3>4
      <4> QED
        BY <2>1, <2>3, <3>1, <3>2, <3>4, <4>1
    <3> QED
      BY <3>3, <3>4
  <2>6. m + 1 \in Nat
    OBVIOUS
  <2> QED
    BY <2>2, <2>4, <2>5, <2>6
<1> HIDE DEF T
<1>3. n \in T
  BY <1>1, <1>2, Induction
<1>4. PICK f \in [0..n -> S] : Done(f, n)
  BY <1>3 DEF T
<1> QED
  BY <1>4 DEF Iterated

------------------------------------------------------------------------------
\* The way up: parents of lower rank.

Nodes(size) == 0..(size - 1)
Falls(size, P, rank) ==
  /\ P \in [Nodes(size) -> Nodes(size) \cup {NoNode}]
  /\ rank \in [Nodes(size) -> Nodes(size)]
  /\ \A n \in Nodes(size) : P[n] # NoNode => rank[P[n]] < rank[n]

Step(P, s) == s \cup {P[a] : a \in {b \in s : P[b] # NoNode}}
Closed(P, s) == \A b \in s : P[b] # NoNode => P[b] \in s

LEMMA UpIs ==
  ASSUME NEW size \in Nat, NEW P, NEW rank, Falls(size, P, rank), NEW node \in Nodes(size)
  PROVE  \E up \in [0..size -> SUBSET Nodes(size)] :
           /\ up[0] = {node} /\ \A i \in 1..size : up[i] = Step(P, up[i - 1])
           /\ Ancestors(size, P, node) = up[size]
<1> DEFINE S == SUBSET Nodes(size)
           F == [s \in S |-> Step(P, s)]
           Turns(f) == [i \in 0..size |-> IF i = 0 THEN {node} ELSE Step(P, f[i - 1])]
<1>1. F \in [S -> S]
  BY DEF Step, Falls
<1>2. PICK f \in [0..size -> S] : f[0] = {node} /\ \A i \in 1..size : f[i] = F[f[i - 1]]
  <2>1. {node} \in S
    OBVIOUS
  <2>2. F \in [S -> S] /\ {node} \in S
    BY <1>1, <2>1
  <2> HIDE DEF S, F
  <2>3. PICK f : Iterated(f, size, S, {node}, F)
    BY <2>2, Iterates, Zenon
  <2> QED
    BY <2>3 DEF Iterated
<1>3. f = Turns(f)
  <2>1. \A i \in 0..size : f[i] = IF i = 0 THEN {node} ELSE Step(P, f[i - 1])
    <3> SUFFICES ASSUME NEW i \in 0..size, i # 0 PROVE f[i] = Step(P, f[i - 1])
      BY <1>2
    <3>1. i - 1 \in 0..size /\ i \in 1..size
      OBVIOUS
    <3>2. f[i - 1] \in S
      BY <3>1
    <3> QED
      BY <1>2, <3>1, <3>2
  <2>2. f = [i \in 0..size |-> f[i]]
    OBVIOUS
  <2> QED
    BY <2>1, <2>2
<1> DEFINE g == CHOOSE h : h = Turns(h)
<1>4. g = Turns(g)
  BY <1>3, Zenon
<1>5. Ancestors(size, P, node) = g[size]
  BY DEF Ancestors, Step
<1>6. PICK u : u = g
  OBVIOUS
<1> HIDE DEF g
<1>7. /\ DOMAIN u = 0..size /\ u[0] = {node}
      /\ \A i \in 0..size : i # 0 => u[i] = Step(P, u[i - 1])
      /\ u = [i \in 0..size |-> u[i]]
  <2>1. u = Turns(u)
    BY <1>4, <1>6
  <2>2. PICK v : v = Turns(u)
    OBVIOUS
  <2>3. /\ DOMAIN v = 0..size /\ v[0] = {node}
        /\ \A i \in 0..size : i # 0 => v[i] = Step(P, u[i - 1])
        /\ v = [i \in 0..size |-> v[i]]
    BY <2>2
  <2> HIDE DEF Turns
  <2> QED
    BY <2>1, <2>2, <2>3
<1>8. \A i \in 0..size : u[i] \in S
  <2> DEFINE T == {i \in Nat : i <= size => u[i] \in S}
  <2>1. 0 \in T
    BY <1>7
  <2>2. ASSUME NEW i \in Nat, i \in T PROVE i + 1 \in T
    <3> SUFFICES ASSUME i + 1 <= size PROVE u[i + 1] \in S
      OBVIOUS
    <3>1. u[i] \in S /\ i + 1 \in 0..size /\ i + 1 # 0 /\ (i + 1) - 1 = i
      BY <2>2
    <3>2. u[i + 1] = Step(P, u[i])
      BY <1>7, <3>1
    <3> QED
      BY <3>1, <3>2 DEF Step, Falls
  <2> HIDE DEF T, S
  <2>3. \A i \in Nat : i \in T
    BY <2>1, <2>2, Induction
  <2> QED
    BY <2>3 DEF T
<1>9. u \in [0..size -> S]
  BY <1>7, <1>8
<1>10. u[0] = {node} /\ \A i \in 1..size : u[i] = Step(P, u[i - 1])
  <2>1. \A i \in 1..size : i \in 0..size /\ i # 0
    OBVIOUS
  <2> QED
    BY <1>7, <2>1, Zenon
<1>11. Ancestors(size, P, node) = u[size]
  BY <1>5, <1>6
<1> QED
  BY <1>9, <1>10, <1>11

\* The ancestors of a node are the least set that has it and the parents of its own.
LEMMA Least ==
  ASSUME NEW size \in Nat, NEW P, NEW rank, Falls(size, P, rank), NEW node \in Nodes(size)
  PROVE  LET A == Ancestors(size, P, node)
         IN  /\ A \subseteq Nodes(size) /\ node \in A /\ Closed(P, A)
             /\ \A s : node \in s /\ Closed(P, s) => A \subseteq s
<1>1. PICK up \in [0..size -> SUBSET Nodes(size)] :
           /\ up[0] = {node} /\ \A i \in 1..size : up[i] = Step(P, up[i - 1])
           /\ Ancestors(size, P, node) = up[size]
  BY UpIs
<1>2. \A i \in Nat : i + 1 <= size => up[i + 1] = Step(P, up[i])
  <2> SUFFICES ASSUME NEW i \in Nat, i + 1 <= size PROVE up[i + 1] = Step(P, up[i])
    OBVIOUS
  <2>1. i + 1 \in 1..size /\ (i + 1) - 1 = i
    OBVIOUS
  <2> QED
    BY <1>1, <2>1
<1>3. \A i \in Nat : i <= size => up[i] \subseteq Nodes(size)
  OBVIOUS
<1>4. size \in 0..size /\ size <= size
  OBVIOUS
<1>5. ASSUME NEW s, node \in s, Closed(P, s) PROVE up[size] \subseteq s
  <2> DEFINE T == {i \in Nat : i <= size => up[i] \subseteq s}
  <2>1. 0 \in T
    BY <1>1, <1>5
  <2>2. ASSUME NEW i \in Nat, i \in T PROVE i + 1 \in T
    <3> SUFFICES ASSUME i + 1 <= size PROVE up[i + 1] \subseteq s
      OBVIOUS
    <3>1. up[i] \subseteq s
      BY <2>2
    <3>2. Step(P, up[i]) \subseteq s
      BY <1>5, <3>1 DEF Step, Closed
    <3> QED
      BY <1>2, <3>2
  <2> HIDE DEF T
  <2>3. size \in T
    BY <2>1, <2>2, Induction
  <2> QED
    BY <1>4, <2>3 DEF T
<1> DEFINE open(b, i) == P[b] # NoNode /\ P[b] \notin up[i]
           U == {i \in Nat : i <= size => /\ node \in up[i]
                                          /\ \A b \in up[i] : open(b, i) => rank[b] + i <= size - 1}
<1>6. 0 \in U
  BY <1>1 DEF Falls, Nodes
<1>7. ASSUME NEW i \in Nat, i \in U PROVE i + 1 \in U
  <2> SUFFICES ASSUME i + 1 <= size
               PROVE  /\ node \in up[i + 1]
                      /\ \A b \in up[i + 1] : open(b, i + 1) => rank[b] + (i + 1) <= size - 1
    OBVIOUS
  <2> PICK s : s = up[i]
    OBVIOUS
  <2> PICK r : r = up[i + 1]
    OBVIOUS
  <2>0. r = Step(P, s) /\ s \subseteq Nodes(size)
    BY <1>2, <1>3
  <2>1. node \in s /\ \A b \in s : open(b, i) => rank[b] + i <= size - 1
    BY <1>7
  <2>2. \A b \in s : P[b] # NoNode => P[b] \in r
    BY <2>0 DEF Step
  <2>3. ASSUME NEW b \in r, open(b, i + 1) PROVE rank[b] + (i + 1) <= size - 1
    <3>1. b \notin s
      BY <2>2, <2>3
    <3>2. PICK a \in s : P[a] # NoNode /\ b = P[a]
      BY <2>0, <3>1 DEF Step
    <3>3. rank[a] + i <= size - 1
      BY <2>1, <3>1, <3>2
    <3>4. rank[b] < rank[a] /\ rank[a] \in Nat /\ rank[b] \in Nat
      BY <2>0, <3>2 DEF Falls, Nodes
    <3> QED
      BY <3>3, <3>4
  <2>4. node \in r
    BY <2>0, <2>1 DEF Step
  <2> QED
    BY <2>3, <2>4
<1> HIDE DEF U
<1>8. size \in U
  BY <1>6, <1>7, Induction
<1>9. node \in up[size] /\ \A b \in up[size] : open(b, size) => rank[b] + size <= size - 1
  BY <1>4, <1>8 DEF U
<1>10. \A b \in up[size] : ~ open(b, size)
  <2> SUFFICES ASSUME NEW b \in up[size], open(b, size) PROVE FALSE
    OBVIOUS
  <2>1. rank[b] + size <= size - 1
    BY <1>9
  <2>2. rank[b] \in Nat
    BY <1>3, <1>4 DEF Falls, Nodes
  <2> QED
    BY <2>1, <2>2
<1>11. Closed(P, up[size])
  BY <1>10 DEF Closed
<1>12. up[size] \subseteq Nodes(size)
  BY <1>3, <1>4
<1> QED
  BY <1>1, <1>5, <1>9, <1>11, <1>12

------------------------------------------------------------------------------
\* A tree is what parents of lower rank make when the children agree with them.

\* The nodes agree on the edges and on the root.
Agree(size, P, C, root) ==
  /\ \A n, c \in Nodes(size) : c \in C[n] <=> P[c] = n
  /\ \A n \in Nodes(size) : C[n] \subseteq Nodes(size)
  /\ \A n \in Nodes(size) : P[n] = NoNode <=> n = root

Ranked(t, size, root) ==
  /\ \E rank : Falls(size, t.parent, rank)
  /\ Agree(size, t.parent, t.children, root)

LEMMA RankedTree ==
  ASSUME NEW size \in Nat, NEW root \in Nodes(size), NEW t, Ranked(t, size, root)
  PROVE  IsTree(t, size, root)
<1> PICK rank : Falls(size, t.parent, rank)
  BY DEF Ranked
<1> PICK P : P = t.parent
  OBVIOUS
<1> PICK C : C = t.children
  OBVIOUS
<1>0. Falls(size, P, rank) /\ Agree(size, P, C, root)
  BY DEF Ranked
<1> PICK N : N = Nodes(size)
  OBVIOUS
<1>1. \A n \in N : n # NoNode
  BY DEF Nodes, NoNode
<1>a. \A n \in N : rank[n] \in Nat
  <2>1. rank \in [N -> N] /\ \A n \in N : n \in Nat
    BY <1>0 DEF Falls, Nodes
  <2> QED
    BY <2>1
<1> DEFINE A(d) == Ancestors(size, P, d)
<1>2. ASSUME NEW d \in N
      PROVE  /\ A(d) \subseteq N /\ d \in A(d) /\ Closed(P, A(d))
             /\ \A s : d \in s /\ Closed(P, s) => A(d) \subseteq s
  BY <1>0, Least
<1> HIDE DEF A
<1>3. ASSUME NEW d \in N PROVE root \in A(d)
  <2> DEFINE T == {rank[b] : b \in A(d)}
  <2>1. T \in SUBSET Nat /\ T # {}
    BY <1>a, <1>2
  <2>2. PICK x \in T : \A y \in T : x <= y
    <3> HIDE DEF T
    <3> QED
      BY <2>1, LeastIn
  <2>3. PICK b \in A(d) : x = rank[b]
    BY <2>2
  <2>4. b \in N /\ P[b] = NoNode
    <3>1. b \in N
      BY <1>2
    <3>2. ASSUME P[b] # NoNode PROVE FALSE
      <4>1. P[b] \in A(d) /\ rank[P[b]] < rank[b]
        BY <1>0, <1>2, <3>1, <3>2 DEF Falls, Closed
      <4>2. rank[P[b]] \in T
        BY <4>1
      <4>3. x <= rank[P[b]] /\ rank[P[b]] \in Nat /\ x \in Nat
        BY <2>1, <2>2, <4>2
      <4> QED
        BY <2>3, <4>1, <4>3
    <3> QED
      BY <3>1, <3>2
  <2> QED
    BY <1>0, <2>3, <2>4 DEF Agree
<1>4. ASSUME NEW d \in N, NEW n \in A(d), n # d PROVE \E c \in C[n] : c \in A(d) /\ c \in N
  <2> DEFINE s == {b \in N : b = d \/ \E c \in A(d) : P[c] = b}
  <2>1. Closed(P, s)
    <3> SUFFICES ASSUME NEW b \in s, P[b] # NoNode PROVE P[b] \in s
      BY DEF Closed
    <3>1. b \in A(d)
      BY <1>1, <1>2 DEF Closed
    <3>2. P[b] \in A(d) /\ A(d) \subseteq N
      BY <1>2, <3>1 DEF Closed
    <3> QED
      BY <3>1, <3>2
  <2>2. d \in s
    OBVIOUS
  <2>3. n \in s
    <3> HIDE DEF s
    <3> QED
      BY <1>2, <2>1, <2>2
  <2>4. PICK c \in A(d) : P[c] = n
    BY <1>4, <2>3
  <2>5. c \in N /\ n \in N
    BY <1>2
  <2> QED
    BY <1>0, <2>4, <2>5 DEF Agree
<1>5. ASSUME NEW d \in N, NEW n \in N, NEW c \in C[n], c \in A(d) PROVE n \in A(d) /\ c \in N
  <2>1. c \in N /\ P[c] = n
    BY <1>0, <1>2, <1>5 DEF Agree
  <2> QED
    BY <1>1, <1>2, <1>5, <2>1 DEF Closed
<1>6. ASSUME NEW n \in N, NEW c \in C[n] PROVE c \notin A(n)
  <2> DEFINE s == {b \in N : rank[b] <= rank[n]}
  <2>1. c \in N /\ P[c] = n
    BY <1>0, <1>6 DEF Agree
  <2>2. rank[n] < rank[c]
    BY <1>0, <1>1, <2>1 DEF Falls
  <2>3. c \notin s
    BY <1>a, <2>1, <2>2
  <2>4. Closed(P, s)
    <3> SUFFICES ASSUME NEW b \in s, P[b] # NoNode PROVE P[b] \in s
      BY DEF Closed
    <3>1. P[b] \in N /\ rank[P[b]] < rank[b]
      BY <1>0 DEF Falls
    <3> QED
      BY <1>a, <3>1
  <2>5. n \in s
    BY <1>a
  <2> HIDE DEF s
  <2> QED
    BY <1>2, <2>3, <2>4, <2>5
<1> DEFINE below == Subtree(size, t.parent)
<1>7. /\ \A n \in N : below[n] = {d \in N : n \in A(d)}
  BY DEF Subtree, A, Nodes
<1> HIDE DEF below
<1>8. below[root] = N
  BY <1>3, <1>7
<1>9. ASSUME NEW n \in N PROVE below[n] = {n} \cup UNION {below[c] : c \in C[n]}
  <2>0. C[n] \subseteq N
    BY <1>0 DEF Agree
  <2>1. ASSUME NEW d \in below[n] PROVE d \in {n} \cup UNION {below[c] : c \in C[n]}
    <3>1. d \in N /\ n \in A(d)
      BY <1>7
    <3>2. CASE n = d
      BY <3>2
    <3>3. CASE n # d
      <4>1. PICK c \in C[n] : c \in A(d) /\ c \in N
        BY <1>4, <3>1, <3>3
      <4>2. d \in below[c]
        BY <1>7, <3>1, <4>1
      <4> QED
        BY <4>2
    <3> QED
      BY <3>2, <3>3
  <2>2. ASSUME NEW c \in C[n], NEW d \in below[c] PROVE d \in below[n]
    <3>1. d \in N /\ c \in A(d)
      BY <1>7, <2>0
    <3> QED
      BY <1>5, <1>7, <3>1
  <2>3. n \in below[n]
    BY <1>2, <1>7
  <2> QED
    BY <2>1, <2>2, <2>3
<1>10. \A n \in N : \A c \in C[n] : n \notin below[c]
  BY <1>0, <1>6, <1>7 DEF Agree
<1>11. N = 0..(size - 1)
  BY DEF Nodes
<1>12. IsTree(t, size, root) <=>
         /\ \A n, c \in N : c \in C[n] <=> P[c] = n
         /\ \A n \in N : C[n] \subseteq N
         /\ \A n \in N : P[n] = NoNode <=> n = root
         /\ below[root] = N
         /\ \A n \in N : below[n] = {n} \cup UNION {below[c] : c \in C[n]}
         /\ \A n \in N : \A c \in C[n] : n \notin below[c]
  BY <1>11 DEF IsTree, below
<1> QED
  BY <1>0, <1>8, <1>9, <1>10, <1>12 DEF Agree

\* Whoever hears from a parent that has heard: in the end, everybody.
LEMMA RankedSpan ==
  ASSUME NEW size \in Nat, NEW root \in Nodes(size), NEW t, Ranked(t, size, root),
         NEW S \in SUBSET Nodes(size), root \in S,
         \A c \in Nodes(size) \ {root} : t.parent[c] \in S => c \in S
  PROVE  S = Nodes(size)
<1> PICK rank : Falls(size, t.parent, rank)
  BY DEF Ranked
<1> PICK P : P = t.parent
  OBVIOUS
<1> PICK N : N = Nodes(size)
  OBVIOUS
<1>0. Falls(size, P, rank) /\ Agree(size, P, t.children, root)
  BY DEF Ranked
<1>1. rank \in [N -> N] /\ \A n \in N : n \in Nat
  BY <1>0 DEF Falls, Nodes
<1> DEFINE T == {rank[n] : n \in N \ S}
<1> SUFFICES ASSUME S # N PROVE FALSE
  OBVIOUS
<1>2. T \in SUBSET Nat /\ T # {}
  BY <1>1
<1>3. PICK x \in T : \A y \in T : x <= y
  <2> HIDE DEF T
  <2> QED
    BY <1>2, LeastIn
<1>4. PICK c \in N \ S : x = rank[c]
  BY <1>3
<1>5. c # root /\ P[c] # NoNode
  BY <1>0, <1>4 DEF Agree
<1>6. P[c] \in N /\ rank[P[c]] < rank[c]
  BY <1>0, <1>4, <1>5 DEF Falls
<1>7. P[c] \notin S
  BY <1>4, <1>5
<1>8. x <= rank[P[c]]
  BY <1>3, <1>6, <1>7
<1> QED
  BY <1>1, <1>4, <1>6, <1>8

------------------------------------------------------------------------------
\* Trees with their indices rotated.

LEMMA Rotation ==
  ASSUME NEW size \in Nat, NEW root \in Nodes(size), NEW n \in Nodes(size)
  PROVE  /\ FromRoot(size, root, n) \in Nodes(size) /\ ToRoot(size, root, n) \in Nodes(size)
         /\ FromRoot(size, root, ToRoot(size, root, n)) = n
         /\ ToRoot(size, root, FromRoot(size, root, n)) = n
         /\ FromRoot(size, root, n) = 0 <=> n = root
BY DEF FromRoot, ToRoot, Nodes

\* What makes the views of a tree agree before they are rotated.
Unrotated(size, P, C) ==
  /\ P \in [Nodes(size) -> Nodes(size) \cup {NoNode}]
  /\ \A n \in Nodes(size) : /\ P[n] # NoNode => P[n] < n
                            /\ P[n] = NoNode <=> n = 0
  /\ \A n, c \in Nodes(size) : c \in C[n] <=> P[c] = n
  /\ \A n \in Nodes(size) : C[n] \subseteq Nodes(size)

\* The same views, rotated.
Rotates(t, size, root, P, C) ==
  /\ t.parent = [n \in Nodes(size) |-> RootedParent(size, root, P[FromRoot(size, root, n)])]
  /\ t.children = [n \in Nodes(size) |-> RootedChildren(size, root, C[FromRoot(size, root, n)])]

LEMMA Rotated ==
  ASSUME NEW size \in Nat, NEW root \in Nodes(size), NEW P, NEW C, Unrotated(size, P, C),
         NEW t, Rotates(t, size, root, P, C)
  PROVE  Ranked(t, size, root)
<1> PICK N : N = Nodes(size)
  OBVIOUS
<1> DEFINE f(n) == FromRoot(size, root, n)
           g(n) == ToRoot(size, root, n)
<1>0. \A n \in N : n # NoNode /\ n \in Int
  BY DEF Nodes, NoNode
<1>1. \A n \in N : /\ f(n) \in N /\ g(n) \in N /\ f(g(n)) = n /\ g(f(n)) = n
                   /\ (f(n) = 0 <=> n = root)
  <2> SUFFICES ASSUME NEW n \in Nodes(size)
               PROVE  /\ f(n) \in Nodes(size) /\ g(n) \in Nodes(size)
                      /\ f(g(n)) = n /\ g(f(n)) = n /\ (f(n) = 0 <=> n = root)
    OBVIOUS
  <2> QED
    BY Rotation
<1>2. /\ P \in [N -> N \cup {NoNode}]
      /\ \A n \in N : (P[n] # NoNode => P[n] < n) /\ (P[n] = NoNode <=> n = 0)
      /\ \A n, c \in N : c \in C[n] <=> P[c] = n
      /\ \A n \in N : C[n] \subseteq N
  BY DEF Unrotated
<1> PICK Q : Q = t.parent
  OBVIOUS
<1> PICK D : D = t.children
  OBVIOUS
<1>3. /\ Q = [n \in N |-> IF P[f(n)] = NoNode THEN NoNode ELSE g(P[f(n)])]
      /\ D = [n \in N |-> {g(c) : c \in C[f(n)]}]
  BY DEF RootedParent, RootedChildren, Rotates
<1> PICK rank : rank = [n \in N |-> f(n)]
  OBVIOUS
<1> HIDE DEF f, g
<1>4. /\ \A n \in N : Q[n] = IF P[f(n)] = NoNode THEN NoNode ELSE g(P[f(n)])
      /\ \A n \in N : D[n] = {g(c) : c \in C[f(n)]}
      /\ \A n \in N : rank[n] = f(n)
  BY <1>3
<1>5. Q \in [N -> N \cup {NoNode}] /\ rank \in [N -> N]
  <2>1. \A n \in N : (IF P[f(n)] = NoNode THEN NoNode ELSE g(P[f(n)])) \in N \cup {NoNode}
    BY <1>1, <1>2
  <2>2. \A n \in N : f(n) \in N
    BY <1>1
  <2> QED
    BY <1>3, <2>1, <2>2
<1>6. ASSUME NEW n \in N, Q[n] # NoNode PROVE rank[Q[n]] < rank[n]
  <2>1. P[f(n)] # NoNode /\ Q[n] = g(P[f(n)]) /\ P[f(n)] \in N
    BY <1>1, <1>2, <1>4, <1>6
  <2>2. rank[Q[n]] = P[f(n)] /\ rank[n] = f(n)
    BY <1>1, <1>4, <2>1
  <2> QED
    BY <1>1, <1>2, <2>1, <2>2
<1>7. Falls(size, Q, rank)
  BY <1>5, <1>6 DEF Falls
<1>8. ASSUME NEW n \in N PROVE Q[n] = NoNode <=> n = root
  BY <1>0, <1>1, <1>2, <1>4
<1>9. ASSUME NEW n \in N PROVE D[n] \subseteq N
  <2>1. C[f(n)] \subseteq N
    BY <1>1, <1>2
  <2>2. D[n] = {g(c) : c \in C[f(n)]}
    BY <1>4
  <2>3. \A c \in C[f(n)] : g(c) \in N
    BY <1>1, <2>1
  <2> QED
    BY <2>2, <2>3, Zenon
<1>10. ASSUME NEW n \in N, NEW c \in N PROVE c \in D[n] <=> Q[c] = n
  <2>0. f(n) \in N /\ f(c) \in N /\ g(f(c)) = c /\ g(f(n)) = n
    BY <1>1
  <2>1. c \in D[n] <=> f(c) \in C[f(n)]
    <3>1. ASSUME c \in D[n] PROVE f(c) \in C[f(n)]
      <4>1. PICK x \in C[f(n)] : c = g(x)
        BY <1>4, <3>1
      <4>2. x \in N
        BY <1>2, <2>0
      <4> QED
        BY <1>1, <4>1, <4>2
    <3>2. ASSUME f(c) \in C[f(n)] PROVE c \in D[n]
      BY <1>4, <2>0, <3>2
    <3> QED
      BY <3>1, <3>2
  <2>2. f(c) \in C[f(n)] <=> P[f(c)] = f(n)
    BY <1>2, <2>0
  <2>3. P[f(c)] = f(n) <=> Q[c] = n
    <3>1. ASSUME P[f(c)] = f(n) PROVE Q[c] = n
      BY <1>0, <1>4, <2>0, <3>1
    <3>2. ASSUME Q[c] = n PROVE P[f(c)] = f(n)
      <4>1. P[f(c)] # NoNode /\ g(P[f(c)]) = n
        BY <1>0, <1>4, <3>2
      <4>2. P[f(c)] \in N
        BY <1>2, <2>0, <4>1
      <4> QED
        BY <1>1, <4>1, <4>2
    <3> QED
      BY <3>1, <3>2
  <2> QED
    BY <2>1, <2>2, <2>3
<1>11. Agree(size, Q, D, root)
  BY <1>8, <1>9, <1>10 DEF Agree
<1> QED
  BY <1>7, <1>11 DEF Ranked

------------------------------------------------------------------------------
\* Complete trees.

LEMMA Divided ==
  ASSUME NEW m \in Nat, NEW d \in Nat, d >= 1, NEW q \in Nat
  PROVE  m \div d = q <=> q * d <= m /\ m < q * d + d
<1>1. PICK a \in Nat : a = m \div d
  OBVIOUS
<1>2. d * a <= m /\ m < d * a + d
  BY <1>1
<1>3. d * a = a * d
  OBVIOUS
<1>4. ASSUME a < q PROVE a * d + d <= q * d
  <2>1. PICK c \in Nat : q = a + 1 + c
    BY <1>4, q - a - 1 \in Nat
  <2>2. q * d = a * d + d + c * d /\ c * d \in Nat /\ a * d \in Nat
    BY <2>1
  <2> QED
    BY <2>2
<1>5. ASSUME q < a PROVE q * d + d <= a * d
  <2>1. PICK c \in Nat : a = q + 1 + c
    BY <1>5, a - q - 1 \in Nat
  <2>2. a * d = q * d + d + c * d /\ c * d \in Nat /\ q * d \in Nat
    BY <2>1
  <2> QED
    BY <2>2
<1>6. a * d \in Nat /\ q * d \in Nat
  OBVIOUS
<1>7. ASSUME m \div d = q PROVE q * d <= m /\ m < q * d + d
  BY <1>1, <1>2, <1>3, <1>7
<1>8. ASSUME q * d <= m, m < q * d + d PROVE a = q
  BY <1>2, <1>3, <1>4, <1>5, <1>6, <1>8
<1> QED
  BY <1>1, <1>7, <1>8

LEMMA CompleteViews ==
  ASSUME NEW size \in Nat, NEW degree \in Nat, degree >= 1
  PROVE  Unrotated(size, [n \in Nodes(size) |-> CompleteParent(degree, n)],
                         [n \in Nodes(size) |-> CompleteChildren(size, degree, n)])
<1> DEFINE P == [n \in Nodes(size) |-> CompleteParent(degree, n)]
           C == [n \in Nodes(size) |-> CompleteChildren(size, degree, n)]
<1>0. \A n \in Nodes(size) : n \in Nat /\ n < size /\ n # NoNode
  BY DEF Nodes, NoNode
<1>00. \A n \in Nat : n < size => n \in Nodes(size)
  BY DEF Nodes
<1>1. ASSUME NEW n \in Nodes(size), n # 0
      PROVE  /\ P[n] \in Nodes(size) /\ P[n] < n
             /\ \A q \in Nat : P[n] = q <=> q * degree + 1 <= n /\ n < q * degree + 1 + degree
  <2>1. PICK m \in Nat : n = m + 1
    BY <1>0, <1>1, n - 1 \in Nat
  <2>2. P[n] = m \div degree
    BY <1>1, <2>1 DEF CompleteParent
  <2>3. PICK a \in Nat : a = m \div degree
    OBVIOUS
  <2>4. \A q \in Nat : a = q <=> q * degree <= m /\ m < q * degree + degree
    BY <2>3, Divided
  <2>5. a <= a * degree
    <3>1. PICK c \in Nat : degree = 1 + c
      BY degree - 1 \in Nat
    <3>2. a * (1 + c) = a + a * c /\ a * c \in Nat
      OBVIOUS
    <3> QED
      BY <3>1, <3>2
  <2>6. a * degree \in Nat /\ a * degree <= m
    BY <2>4
  <2>7. a < n /\ a \in Nodes(size)
    BY <1>0, <1>00, <2>1, <2>5, <2>6
  <2>8. ASSUME NEW q \in Nat PROVE a = q <=> q * degree + 1 <= n /\ n < q * degree + 1 + degree
    <3>1. q * degree \in Nat
      OBVIOUS
    <3>2. a = q <=> q * degree <= m /\ m < q * degree + degree
      BY <2>4
    <3> QED
      BY <2>1, <3>1, <3>2
  <2> QED
    BY <2>2, <2>3, <2>7, <2>8
<1>2. ASSUME 0 \in Nodes(size) PROVE P[0] = NoNode
  BY <1>2 DEF CompleteParent
<1>3. ASSUME NEW n \in Nodes(size), NEW c
      PROVE  c \in C[n] <=> c \in Nat /\ n * degree + 1 <= c /\ c < n * degree + 1 + degree
                          /\ c < size
  <2>1. PICK b \in Nat : b = n * degree
    BY <1>0
  <2>2. C[n] = (b + 1)..((IF b + 1 + degree > size THEN size ELSE b + 1 + degree) - 1)
    BY <2>1 DEF CompleteChildren
  <2> HIDE DEF C
  <2> QED
    BY <2>1, <2>2
<1> HIDE DEF P, C
<1>4. P \in [Nodes(size) -> Nodes(size) \cup {NoNode}]
  <2>1. P = [n \in Nodes(size) |-> CompleteParent(degree, n)]
    BY DEF P
  <2>2. \A n \in Nodes(size) : CompleteParent(degree, n) \in Nodes(size) \cup {NoNode}
    <3> SUFFICES ASSUME NEW n \in Nodes(size)
                 PROVE  CompleteParent(degree, n) \in Nodes(size) \cup {NoNode}
      OBVIOUS
    <3>1. P[n] = CompleteParent(degree, n)
      BY <2>1
    <3> QED
      BY <1>1, <1>2, <3>1
  <2> QED
    BY <2>1, <2>2
<1>5. ASSUME NEW n \in Nodes(size)
      PROVE  (P[n] # NoNode => P[n] < n) /\ (P[n] = NoNode <=> n = 0)
  BY <1>0, <1>1, <1>2
<1>6. ASSUME NEW n \in Nodes(size), NEW c \in Nodes(size) PROVE c \in C[n] <=> P[c] = n
  <2>1. CASE c = 0
    <3>1. P[c] # n
      BY <1>0, <1>2, <2>1
    <3>2. c \notin C[n]
      <4>1. n * degree \in Nat
        BY <1>0
      <4> QED
        BY <1>3, <2>1, <4>1
    <3> QED
      BY <3>1, <3>2
  <2>2. CASE c # 0
    BY <1>0, <1>1, <1>3, <2>2
  <2> QED
    BY <2>1, <2>2
<1>7. ASSUME NEW n \in Nodes(size) PROVE C[n] \subseteq Nodes(size)
  BY <1>00, <1>3
<1> QED
  BY <1>4, <1>5, <1>6, <1>7 DEF Unrotated, P, C

\* The interval of children, rotated, is one interval or two.
Wrap(size, x, y) == IF x <= y THEN x..(y - 1) ELSE (x..(size - 1)) \cup (0..(y - 1))

LEMMA Wrapped ==
  ASSUME NEW size \in Nat, NEW root \in Nodes(size), NEW b \in Nat, NEW e \in Nat,
         1 <= b, b < e, e <= size
  PROVE  RootedChildren(size, root, b..(e - 1)) =
           Wrap(size, ToRoot(size, root, b), ToRoot(size, root, e))
<1> PICK x : x = ToRoot(size, root, b)
  OBVIOUS
<1> PICK y : y = ToRoot(size, root, e)
  OBVIOUS
<1> DEFINE R == Wrap(size, x, y)
<1>0. root \in Nat /\ root < size
  BY DEF Nodes
<1>1. ASSUME NEW c \in b..(e - 1) PROVE ToRoot(size, root, c) \in R
  BY <1>0 DEF ToRoot, Wrap
<1>2. ASSUME NEW z \in R PROVE \E c \in b..(e - 1) : z = ToRoot(size, root, c)
  <2>1. z \in Nat /\ z < size
    BY <1>0 DEF ToRoot, Wrap
  <2>2. FromRoot(size, root, z) \in b..(e - 1) /\ ToRoot(size, root, FromRoot(size, root, z)) = z
    BY <1>0, <2>1 DEF ToRoot, FromRoot, Wrap
  <2> QED
    BY <2>2
<1>3. RootedChildren(size, root, b..(e - 1)) = R
  BY <1>1, <1>2 DEF RootedChildren
<1> QED
  BY <1>3

LEMMA CompleteTree ==
  ASSUME NEW size \in Nat, NEW degree \in Nat, degree >= 1, NEW root \in Nodes(size), NEW t,
         t.parent = [n \in Nodes(size) |-> CompleteParentRoot(size, root, degree, n)],
         t.children = [n \in Nodes(size) |-> CompleteChildrenRoot(size, root, degree, n)]
  PROVE  Ranked(t, size, root)
<1> PICK P : P = [n \in Nodes(size) |-> CompleteParent(degree, n)]
  OBVIOUS
<1> PICK C : C = [n \in Nodes(size) |-> CompleteChildren(size, degree, n)]
  OBVIOUS
<1>1. Unrotated(size, P, C)
  BY CompleteViews
<1>2. ASSUME NEW n \in Nodes(size)
      PROVE  /\ CompleteParentRoot(size, root, degree, n) =
                  RootedParent(size, root, P[FromRoot(size, root, n)])
             /\ CompleteChildrenRoot(size, root, degree, n) =
                  RootedChildren(size, root, C[FromRoot(size, root, n)])
  <2>1. PICK m \in Nodes(size) : m = FromRoot(size, root, n)
    BY Rotation
  <2>2. m \in Nat /\ m < size
    BY DEF Nodes
  <2>3. CompleteParentRoot(size, root, degree, n) = RootedParent(size, root, P[m])
    BY <2>1 DEF CompleteParentRoot
  <2>4. PICK b \in Nat : b = m * degree + 1 /\ b >= 1
    <3>1. m * degree \in Nat
      BY <2>2
    <3> QED
      BY <3>1
  <2>5. PICK e \in Nat : e = (IF b + degree > size THEN size ELSE b + degree)
                            /\ e <= size /\ (b < e <=> b < size)
    OBVIOUS
  <2>6. C[m] = b..(e - 1)
    BY <2>4, <2>5 DEF CompleteChildren
  <2>7. CompleteChildrenRoot(size, root, degree, n) =
          IF C[m] = {} THEN {} ELSE Wrap(size, ToRoot(size, root, b), ToRoot(size, root, e))
    BY <2>1, <2>4, <2>5 DEF CompleteChildrenRoot, Wrap
  <2>8. CASE b < e
    <3>1. C[m] # {}
      <4>1. b \in b..(e - 1)
        BY <2>8
      <4> QED
        BY <2>6, <4>1
    <3>2. RootedChildren(size, root, b..(e - 1)) =
            Wrap(size, ToRoot(size, root, b), ToRoot(size, root, e))
      <4>1. 1 <= b /\ b < e /\ e <= size
        BY <2>4, <2>5, <2>8
      <4> QED
        BY <4>1, Wrapped, Zenon
    <3> QED
      BY <2>1, <2>3, <2>6, <2>7, <3>1, <3>2
  <2>9. CASE ~(b < e)
    <3>1. C[m] = {}
      <4>1. b..(e - 1) = {}
        BY <2>9
      <4> QED
        BY <2>6, <4>1
    <3>2. RootedChildren(size, root, {}) = {}
      BY DEF RootedChildren
    <3> QED
      BY <2>1, <2>3, <2>7, <3>1, <3>2
  <2> QED
    BY <2>8, <2>9
<1>3. t.parent = [n \in Nodes(size) |-> RootedParent(size, root, P[FromRoot(size, root, n)])]
  BY <1>2
<1>4. t.children = [n \in Nodes(size) |-> RootedChildren(size, root, C[FromRoot(size, root, n)])]
  BY <1>2
<1>5. Rotates(t, size, root, P, C)
  BY <1>3, <1>4 DEF Rotates
<1> QED
  BY <1>1, <1>5, Rotated

------------------------------------------------------------------------------
\* Powers of two.

\* 2^n counts the subsets of 1..n.
LEMMA Subsets ==
  ASSUME NEW n \in Nat
  PROVE  /\ IsFiniteSet(SUBSET (1..n)) /\ Cardinality(SUBSET (1..n)) = 2^n
         /\ 2^n \in Nat
<1>1. IsFiniteSet(1..n) /\ Cardinality(1..n) = n
  BY FS_Interval
<1>2. IsFiniteSet(SUBSET (1..n)) /\ Cardinality(SUBSET (1..n)) = 2^n
  BY <1>1, FS_SUBSET
<1>3. Cardinality(SUBSET (1..n)) \in Nat
  BY <1>2, FS_CardinalityType
<1> QED
  BY <1>2, <1>3

\* The distance of the loop doubles.
LEMMA Doubling ==
  ASSUME NEW n \in Nat
  PROVE  2^n \in Nat /\ 2^(n + 1) = 2^n + 2^n
<1> DEFINE A == SUBSET (1..n)
           With(a) == a \cup {n + 1}
           B == {With(a) : a \in A}
<1>1. /\ IsFiniteSet(A) /\ Cardinality(A) = 2^n /\ 2^n \in Nat
      /\ Cardinality(SUBSET (1..(n + 1))) = 2^(n + 1)
  BY Subsets, n + 1 \in Nat
<1>2. 1..(n + 1) = (1..n) \cup {n + 1} /\ n + 1 \notin 1..n
  OBVIOUS
<1>3. \A a \in A : n + 1 \notin a
  BY <1>2
<1>4. A \cap B = {}
  BY <1>3
<1>5. SUBSET (1..(n + 1)) = A \cup B
  <2>1. A \cup B \subseteq SUBSET (1..(n + 1))
    BY <1>2
  <2>2. ASSUME NEW s \in SUBSET (1..(n + 1)) PROVE s \in A \cup B
    <3>1. s \ {n + 1} \in A
      BY <1>2
    <3>2. CASE n + 1 \in s
      <4>1. s = With(s \ {n + 1})
        BY <3>2
      <4> QED
        BY <3>1, <4>1
    <3>3. CASE n + 1 \notin s
      BY <3>3, <1>2
    <3> QED
      BY <3>2, <3>3
  <2> QED
    BY <2>1, <2>2
<1>6. ExistsBijection(A, B)
  <2> DEFINE f == [a \in A |-> With(a)]
  <2>1. f \in [A -> B]
    OBVIOUS
  <2>2. \A a, b \in A : f[a] = f[b] => a = b
    <3> SUFFICES ASSUME NEW a \in A, NEW b \in A, With(a) = With(b) PROVE a = b
      OBVIOUS
    <3>1. a = With(a) \ {n + 1} /\ b = With(b) \ {n + 1}
      BY <1>3
    <3> QED
      BY <3>1
  <2>3. \A t \in B : \E a \in A : f[a] = t
    OBVIOUS
  <2>4. f \in Bijection(A, B)
    BY <2>1, <2>2, <2>3 DEF Bijection, Injection, Surjection, IsInjective
  <2> QED
    BY <2>4 DEF ExistsBijection
<1>7. IsFiniteSet(B) /\ Cardinality(B) = 2^n
  BY <1>1, <1>6, FS_Bijection
<1> DEFINE P == 2^n
           Q == 2^(n + 1)
<1>8. Cardinality({}) = 0
  BY FS_EmptySet
<1>9. P \in Nat /\ Cardinality(A) = P /\ Cardinality(B) = P /\ Cardinality(A \cup B) = Q
  BY <1>1, <1>5, <1>7
<1> HIDE DEF A, B, With, P, Q
<1>10. Cardinality(A \cup B) = Cardinality(A) + Cardinality(B) - Cardinality(A \cap B)
  BY <1>1, <1>7, FS_Union
<1>11. Cardinality(A \cap B) = 0
  BY <1>4, <1>8
<1>12. P \in Nat /\ Q = P + P
  BY <1>9, <1>10, <1>11
<1> QED
  BY <1>12 DEF P, Q

\* Longer distances belong to later rounds.
LEMMA Monotonic ==
  ASSUME NEW m \in Nat, NEW n \in Nat, m <= n
  PROVE  2^m <= 2^n
<1>1. SUBSET (1..m) \subseteq SUBSET (1..n)
  <2>1. 1..m \subseteq 1..n
    OBVIOUS
  <2> QED
    BY <2>1
<1>2. Cardinality(SUBSET (1..m)) <= Cardinality(SUBSET (1..n))
  BY <1>1, Subsets, FS_Subset
<1> QED
  BY <1>2, Subsets

LEMMA NoPower == 2^0 = 1
<1>1. SUBSET (1..0) = {{}}
  OBVIOUS
<1>2. Cardinality({{}}) = 1
  BY FS_Singleton
<1> QED
  BY <1>1, <1>2, Subsets

LEMMA Powers ==
  ASSUME NEW n \in Nat
  PROVE  2^n \in Nat /\ 2^n >= 1 /\ 2^(n + 1) = 2 * 2^n
<1>1. \A m, k \in Nat : m <= k => 2^m <= 2^k
  BY Monotonic
<1>2. 2^0 <= 2^n
  BY <1>1, 0 \in Nat, 0 <= n
<1> QED
  BY <1>2, NoPower, Doubling

LEMMA PowerSum ==
  ASSUME NEW a \in Nat, NEW b \in Nat
  PROVE  2^(a + b) = 2^a * 2^b
<1> DEFINE T == {n \in Nat : 2^(a + n) = 2^a * 2^n}
<1>1. 0 \in T
  BY NoPower, Powers
<1>2. ASSUME NEW n \in Nat, n \in T PROVE n + 1 \in T
  <2> PICK x \in Nat : x = 2^a
    BY Powers
  <2> PICK y \in Nat : y = 2^n
    BY Powers
  <2>1. 2^(a + n) = x * y
    BY <1>2
  <2>2. 2^((a + n) + 1) = 2 * 2^(a + n) /\ 2^(n + 1) = 2 * y
    BY Powers
  <2>3. a + (n + 1) = (a + n) + 1
    OBVIOUS
  <2>4. 2 * (x * y) = x * (2 * y)
    OBVIOUS
  <2> QED
    BY <2>1, <2>2, <2>3, <2>4
<1> HIDE DEF T
<1>3. b \in T
  BY <1>1, <1>2, Induction
<1> QED
  BY <1>3 DEF T

------------------------------------------------------------------------------
\* Binomial trees.

LEMMA Cancel ==
  ASSUME NEW a \in Nat, a >= 1, NEW x \in Nat, NEW y \in Nat, a * x = a * y
  PROVE  x = y
<1>1. ASSUME NEW u \in Nat, NEW v \in Nat, u < v PROVE a * u < a * v
  <2>1. PICK c \in Nat : v = u + 1 + c
    BY <1>1, v - u - 1 \in Nat
  <2>2. a * v = a * u + a + a * c /\ a * c \in Nat /\ a * u \in Nat
    BY <2>1
  <2> QED
    BY <2>2
<1>2. ~(x < y) /\ ~(y < x)
  <2>1. a * x \in Nat /\ a * y \in Nat
    OBVIOUS
  <2> QED
    BY <1>1, <2>1
<1> QED
  BY <1>2

\* j is the place of the lowest bit of node.
Lowest(node, j) == \E r \in Nat : node = 2^j * (2 * r + 1)

LEMMA NotEven ==
  ASSUME NEW j \in Nat, NEW r \in Nat, NEW w \in Nat, 2^j * (2 * r + 1) = 2^j * (2 * w)
  PROVE  FALSE
<1>1. 2^j \in Nat /\ 2^j >= 1 /\ 2 * r + 1 \in Nat /\ 2 * w \in Nat
  BY Powers
<1>2. 2 * r + 1 = 2 * w
  BY <1>1, Cancel
<1> QED
  BY <1>2

EvenMultiple(y, b) == \E w \in Nat : y = b * (2 * w)

\* A higher power is an even multiple of a lower one.
LEMMA Higher ==
  ASSUME NEW j \in Nat, NEW i \in Nat, j < i, NEW x \in Nat
  PROVE  EvenMultiple(2^i * x, 2^j)
<1>1. PICK d \in Nat : i = (j + 1) + d
  BY i - j - 1 \in Nat
<1>2. 2^i = 2^(j + 1) * 2^d /\ 2^(j + 1) = 2 * 2^j
  BY <1>1, PowerSum, Powers
<1>3. PICK a \in Nat : a = 2^j
  BY Powers
<1>4. PICK b \in Nat : b = 2^d
  BY Powers
<1>5. b * x \in Nat
  OBVIOUS
<1>6. ((2 * a) * b) * x = a * (2 * (b * x))
  OBVIOUS
<1> QED
  BY <1>2, <1>3, <1>4, <1>5, <1>6 DEF EvenMultiple

LEMMA LowestOnce ==
  ASSUME NEW node, NEW i \in Nat, NEW j \in Nat, Lowest(node, i), Lowest(node, j)
  PROVE  i = j
<1>1. ASSUME NEW k \in Nat, NEW l \in Nat, Lowest(node, k), Lowest(node, l), k < l PROVE FALSE
  <2>1. PICK r \in Nat : node = 2^k * (2 * r + 1)
    BY <1>1 DEF Lowest
  <2>2. PICK s \in Nat : node = 2^l * (2 * s + 1)
    BY <1>1 DEF Lowest
  <2> PICK x \in Nat : x = 2 * s + 1
    OBVIOUS
  <2>3. EvenMultiple(2^l * x, 2^k)
    BY <1>1, Higher
  <2>4. PICK w \in Nat : 2^l * x = 2^k * (2 * w)
    BY <2>3 DEF EvenMultiple
  <2> QED
    BY <2>1, <2>2, <2>4, NotEven
<1> QED
  BY <1>1

LEMMA HasLowest ==
  ASSUME NEW node \in Nat, node >= 1, node < 2^31
  PROVE  \E j \in 0..30 : Lowest(node, j)
<1> DEFINE T == {e \in Nat : \A r \in Nat : node # 2^(e + 1) * r}
<1>1. 30 \in T
  <2> SUFFICES ASSUME NEW r \in Nat, node = 2^(30 + 1) * r PROVE FALSE
    OBVIOUS
  <2>1. PICK a \in Nat : a = 2^31
    BY Powers
  <2>2. 30 + 1 = 31
    OBVIOUS
  <2>3. node = a * r /\ node < a
    BY <2>1, <2>2
  <2>4. r = 0 \/ \E c \in Nat : r = 1 + c
    BY r # 0 => r - 1 \in Nat /\ r = 1 + (r - 1)
  <2>5. ASSUME NEW c \in Nat PROVE a * (1 + c) = a + a * c /\ a * c \in Nat
    OBVIOUS
  <2>6. a * 0 = 0
    OBVIOUS
  <2> QED
    BY <2>3, <2>4, <2>5, <2>6
<1>2. PICK j \in T : \A e \in T : j <= e
  <2>1. T \in SUBSET Nat /\ T # {}
    BY <1>1
  <2> HIDE DEF T
  <2> QED
    BY <2>1, LeastIn
<1>3. j \in 0..30 /\ j \in Nat
  <2>1. j \in Nat
    BY <1>2
  <2>2. j <= 30
    <3> HIDE DEF T
    <3> QED
      BY <1>1, <1>2
  <2> HIDE DEF T
  <2>3. ASSUME NEW x \in Nat, x <= 30 PROVE x \in 0..30
    BY <2>3
  <2> QED
    BY <2>1, <2>2, <2>3
<1>4. \E q \in Nat : node = 2^j * q
  <2>1. CASE j = 0
    <3>1. 1 * node = node
      OBVIOUS
    <3> QED
      BY <2>1, <3>1, NoPower
  <2>2. CASE j # 0
    <3>1. PICK l \in Nat : j = l + 1
      BY <1>3, <2>2, j - 1 \in Nat
    <3>2. l \notin T
      BY <1>2, <3>1
    <3> QED
      BY <3>1, <3>2
  <2> QED
    BY <2>1, <2>2
<1>5. PICK q \in Nat : node = 2^j * q
  BY <1>4
<1>6. (\E r \in Nat : q = 2 * r) \/ (\E r \in Nat : q = 2 * r + 1)
  <2>1. q \div 2 \in Nat /\ (q = 2 * (q \div 2) \/ q = 2 * (q \div 2) + 1)
    OBVIOUS
  <2> QED
    BY <2>1
<1>7. ASSUME NEW r \in Nat, q = 2 * r PROVE FALSE
  <2>1. PICK a \in Nat : a = 2^j
    BY <1>3, Powers
  <2>2. 2^(j + 1) = 2 * a
    BY <1>3, <2>1, Powers
  <2>3. a * (2 * r) = (2 * a) * r
    OBVIOUS
  <2>4. node = 2^(j + 1) * r
    BY <1>5, <1>7, <2>1, <2>2, <2>3
  <2> QED
    BY <1>2, <2>4
<1>8. Lowest(node, j)
  BY <1>5, <1>6, <1>7 DEF Lowest
<1> QED
  BY <1>3, <1>8

\* What the choice of a mask looks for.
LEMMA MaskIs ==
  ASSUME NEW node \in Nat, NEW j \in Nat
  PROVE  node % 2^j = 0 /\ (node \div 2^j) % 2 = 1 <=> Lowest(node, j)
<1>1. PICK a \in Nat : a = 2^j /\ a >= 1
  BY Powers
<1>2. PICK q \in Nat : q = node \div a
  BY <1>1
<1>3. a * q <= node /\ node < a * q + a /\ node = a * q + (node % a)
  <2>1. a * q <= node /\ node < a * q + a
    BY <1>1, <1>2
  <2>2. node = a * q + (node % a)
    BY <1>1, <1>2
  <2> QED
    BY <2>1, <2>2
<1>4. ASSUME node % a = 0, q % 2 = 1 PROVE \E r \in Nat : node = a * (2 * r + 1)
  <2>1. PICK r \in Nat : q = 2 * r + 1
    BY <1>4, q \div 2 \in Nat
  <2>2. a * q \in Nat
    OBVIOUS
  <2>3. node = a * q
    BY <1>3, <1>4, <2>2
  <2> QED
    BY <2>1, <2>3
<1>5. ASSUME NEW r \in Nat, node = a * (2 * r + 1) PROVE node % a = 0 /\ q % 2 = 1
  <2>1. PICK o \in Nat : o = 2 * r + 1
    OBVIOUS
  <2>2. node = o * a /\ o * a <= node /\ node < o * a + a
    <3>1. a * o = o * a /\ o * a \in Nat
      OBVIOUS
    <3> QED
      BY <1>1, <1>5, <2>1, <3>1
  <2>3. q = o
    BY <1>1, <1>2, <2>2, Divided
  <2>4. o % 2 = 1
    BY <2>1
  <2>5. node % a = 0
    <3>1. a * q = node /\ a * q \in Nat
      BY <1>5, <2>1, <2>3
    <3>2. node % a \in Nat
      BY <1>1
    <3> QED
      BY <1>3, <3>1, <3>2
  <2> QED
    BY <2>3, <2>4, <2>5
<1> QED
  BY <1>1, <1>2, <1>4, <1>5 DEF Lowest

LEMMA LowBitIs ==
  ASSUME NEW node \in Nat, NEW j \in 0..30, Lowest(node, j)
  PROVE  LowBit(node) = 2^j
<1> DEFINE is(m) == node % m = 0 /\ (node \div m) % 2 = 1
<1>0. \A i \in 0..30 : i \in Nat
  OBVIOUS
<1>1. 2^j \in Masks /\ is(2^j)
  <2>1. 2^j \in Masks
    BY DEF Masks
  <2>2. is(2^j)
    BY <1>0, MaskIs
  <2> QED
    BY <2>1, <2>2
<1>2. ASSUME NEW m \in Masks, is(m) PROVE m = 2^j
  <2>1. PICK i \in 0..30 : m = 2^i
    BY DEF Masks
  <2>2. Lowest(node, i)
    BY <1>0, <1>2, <2>1, MaskIs
  <2>3. i = j
    BY <1>0, <2>2, LowestOnce
  <2> QED
    BY <2>1, <2>3
<1> HIDE DEF is
<1>3. (CHOOSE m \in Masks : is(m)) = 2^j
  BY <1>1, <1>2
<1> QED
  BY <1>3 DEF LowBit, is

LEMMA BinomialViews ==
  ASSUME NEW size \in Nat, size < 2^31
  PROVE  Unrotated(size, [n \in Nodes(size) |-> BinomialParent(n)],
                         [n \in Nodes(size) |-> BinomialChildren(size, n)])
<1> DEFINE P == [n \in Nodes(size) |-> BinomialParent(n)]
           C == [n \in Nodes(size) |-> BinomialChildren(size, n)]
<1>0. \A n \in Nodes(size) : n \in Nat /\ n < size /\ n # NoNode
  BY DEF Nodes, NoNode
<1>00. \A n \in Nat : n < size => n \in Nodes(size)
  BY DEF Nodes
<1>1. ASSUME NEW n \in Nodes(size), n # 0
      PROVE  \E j \in 0..30 : Lowest(n, j) /\ LowBit(n) = 2^j
  <2>1. n >= 1 /\ n < 2^31 /\ n \in Nat
    <3>1. 2^31 \in Nat
      BY Powers
    <3> QED
      BY <1>0, <1>1, <3>1
  <2> QED
    BY <2>1, HasLowest, LowBitIs
<1>2. ASSUME NEW n \in Nodes(size), n # 0, NEW j \in 0..30, Lowest(n, j)
      PROVE  /\ P[n] = n - 2^j /\ P[n] \in Nodes(size) /\ P[n] < n
             /\ \E r \in Nat : n - 2^j = 2^j * (2 * r)
  <2>1. P[n] = n - 2^j
    BY <1>0, <1>2, LowBitIs DEF BinomialParent
  <2>2. PICK r \in Nat : n = 2^j * (2 * r + 1)
    BY <1>2 DEF Lowest
  <2>3. PICK a \in Nat : a = 2^j /\ a >= 1
    BY Powers
  <2>4. a * (2 * r + 1) = a * (2 * r) + a /\ a * (2 * r) \in Nat
    OBVIOUS
  <2>5. n - a = a * (2 * r) /\ n - a \in Nat /\ n - a < n
    BY <1>0, <2>2, <2>3, <2>4
  <2>6. n - a \in Nodes(size)
    BY <1>0, <1>00, <2>5
  <2> QED
    BY <2>1, <2>3, <2>5, <2>6
<1>3. ASSUME 0 \in Nodes(size) PROVE P[0] = NoNode
  BY <1>3 DEF BinomialParent
<1>4. ASSUME NEW n \in Nodes(size), NEW c
      PROVE  c \in C[n] <=> c < size /\ \E j \in 0..30 : c = n + 2^j /\ (n = 0 \/ 2^j < LowBit(n))
  BY DEF BinomialChildren, Masks
<1> HIDE DEF P, C
<1>5. ASSUME NEW n \in Nodes(size), NEW c \in C[n] PROVE c \in Nodes(size) /\ c # 0 /\ P[c] = n
  <2>1. PICK j \in 0..30 : c = n + 2^j /\ c < size /\ (n = 0 \/ 2^j < LowBit(n))
    BY <1>4
  <2>0. j \in Nat
    OBVIOUS
  <2>2. PICK a \in Nat : a = 2^j /\ a >= 1
    BY <2>0, Powers
  <2>3. c \in Nodes(size) /\ c # 0 /\ c \in Nat
    BY <1>0, <1>00, <2>1, <2>2
  <2>4. \E w \in Nat : n = a * (2 * w)
    <3>1. CASE n = 0
      <4>1. a * (2 * 0) = 0
        OBVIOUS
      <4> QED
        BY <3>1, <4>1
    <3>2. CASE n # 0
      <4>1. PICK i \in 0..30 : Lowest(n, i) /\ LowBit(n) = 2^i
        BY <1>1, <3>2
      <4>2. j < i
        <5>1. i <= j => 2^i <= 2^j
          BY Monotonic
        <5>2. 2^i \in Nat
          BY Powers
        <5> QED
          BY <2>1, <2>2, <3>2, <4>1, <5>1, <5>2
      <4>3. PICK r \in Nat : n = 2^i * (2 * r + 1)
        BY <4>1 DEF Lowest
      <4>4. i \in Nat /\ j \in Nat
        OBVIOUS
      <4>5. PICK x \in Nat : x = 2 * r + 1
        OBVIOUS
      <4>6. EvenMultiple(2^i * x, 2^j)
        BY <4>2, <4>4, Higher
      <4> QED
        BY <2>2, <4>3, <4>5, <4>6 DEF EvenMultiple
    <3> QED
      BY <3>1, <3>2
  <2>5. PICK w \in Nat : n = a * (2 * w)
    BY <2>4
  <2>6. a * (2 * w + 1) = a * (2 * w) + a
    OBVIOUS
  <2>7. Lowest(c, j)
    BY <2>1, <2>2, <2>5, <2>6 DEF Lowest
  <2>8. P[c] = c - 2^j
    BY <1>2, <2>3, <2>7
  <2>9. P[c] = n
    BY <1>0, <2>1, <2>2, <2>8
  <2> QED
    BY <2>3, <2>9
<1>6. ASSUME NEW n \in Nodes(size), NEW c \in Nodes(size), P[c] = n PROVE c \in C[n]
  <2>1. c # 0
    BY <1>0, <1>3, <1>6
  <2>2. PICK j \in 0..30 : Lowest(c, j)
    BY <1>1, <2>1
  <2>3. P[c] = c - 2^j
    BY <1>2, <2>1, <2>2
  <2>4. PICK r \in Nat : c - 2^j = 2^j * (2 * r)
    BY <1>2, <2>1, <2>2
  <2>5. PICK a \in Nat : a = 2^j /\ a >= 1
    BY Powers
  <2>6. c = n + a /\ n = a * (2 * r)
    BY <1>0, <1>6, <2>3, <2>4, <2>5
  <2>7. n = 0 \/ a < LowBit(n)
    <3> SUFFICES ASSUME n # 0 PROVE a < LowBit(n)
      OBVIOUS
    <3>1. PICK i \in 0..30 : Lowest(n, i) /\ LowBit(n) = 2^i
      BY <1>1
    <3>2. PICK s \in Nat : n = 2^i * (2 * s + 1)
      BY <3>1 DEF Lowest
    <3>3. ~(i = j)
      BY <2>5, <2>6, <3>2, NotEven
    <3>4. ~(i < j)
      <4> SUFFICES ASSUME i < j PROVE FALSE
        OBVIOUS
      <4>0. i \in Nat /\ j \in Nat
        OBVIOUS
      <4>1. PICK x \in Nat : x = 2 * r
        OBVIOUS
      <4>2. EvenMultiple(2^j * x, 2^i)
        BY <4>0, Higher
      <4>4. PICK w \in Nat : 2^j * x = 2^i * (2 * w)
        BY <4>2 DEF EvenMultiple
      <4>3. 2^i * (2 * s + 1) = 2^i * (2 * w)
        BY <2>5, <2>6, <3>2, <4>1, <4>4
      <4> QED
        BY <4>0, <4>3, NotEven
    <3>5. j + 1 <= i /\ i \in Nat /\ j \in Nat /\ j + 1 \in Nat
      BY <3>3, <3>4
    <3>6. 2^(j + 1) <= 2^i /\ 2^(j + 1) = 2 * a /\ 2^i \in Nat
      BY <2>5, <3>5, Monotonic, Powers
    <3> QED
      BY <2>5, <3>1, <3>6
  <2> QED
    BY <1>0, <1>4, <2>5, <2>6, <2>7
<1>7. P \in [Nodes(size) -> Nodes(size) \cup {NoNode}]
  <2>1. P = [n \in Nodes(size) |-> P[n]]
    BY DEF P
  <2>2. \A n \in Nodes(size) : P[n] \in Nodes(size) \cup {NoNode}
    BY <1>1, <1>2, <1>3
  <2> QED
    BY <2>1, <2>2
<1>8. ASSUME NEW n \in Nodes(size)
      PROVE  (P[n] # NoNode => P[n] < n) /\ (P[n] = NoNode <=> n = 0)
  BY <1>0, <1>1, <1>2, <1>3
<1>9. \A n, c \in Nodes(size) : c \in C[n] <=> P[c] = n
  BY <1>5, <1>6
<1>10. \A n \in Nodes(size) : C[n] \subseteq Nodes(size)
  BY <1>5
<1> QED
  BY <1>7, <1>8, <1>9, <1>10 DEF Unrotated, P, C

LEMMA BinomialTree ==
  ASSUME NEW size \in Nat, size < 2^31, NEW root \in Nodes(size), NEW t,
         t.parent = [n \in Nodes(size) |-> BinomialParentRoot(size, root, n)],
         t.children = [n \in Nodes(size) |-> BinomialChildrenRoot(size, root, n)]
  PROVE  Ranked(t, size, root)
<1> PICK P : P = [n \in Nodes(size) |-> BinomialParent(n)]
  OBVIOUS
<1> PICK C : C = [n \in Nodes(size) |-> BinomialChildren(size, n)]
  OBVIOUS
<1>1. Unrotated(size, P, C)
  BY BinomialViews
<1>2. ASSUME NEW n \in Nodes(size)
      PROVE  /\ BinomialParentRoot(size, root, n) =
                  RootedParent(size, root, P[FromRoot(size, root, n)])
             /\ BinomialChildrenRoot(size, root, n) =
                  RootedChildren(size, root, C[FromRoot(size, root, n)])
  <2>1. FromRoot(size, root, n) \in Nodes(size)
    BY Rotation
  <2> QED
    BY <2>1 DEF BinomialParentRoot, BinomialChildrenRoot
<1>3. t.parent = [n \in Nodes(size) |-> RootedParent(size, root, P[FromRoot(size, root, n)])]
  BY <1>2
<1>4. t.children = [n \in Nodes(size) |-> RootedChildren(size, root, C[FromRoot(size, root, n)])]
  BY <1>2
<1>5. Rotates(t, size, root, P, C)
  BY <1>3, <1>4 DEF Rotates
<1> QED
  BY <1>1, <1>5, Rotated

------------------------------------------------------------------------------
\* K-nomial trees.

\* A segment is cut in parts shorter than itself, unless it has one node.
LEMMA Shorter ==
  ASSUME NEW w \in Nat, w >= 1, NEW k \in Nat, k >= 2
  PROVE  \E d \in Nat : d = (w + k - 1) \div k /\ 1 <= d /\ d <= w /\ (w # 1 => d < w)
<1>1. PICK m \in Nat : m = w + k - 1
  OBVIOUS
<1>2. PICK d \in Nat : d = m \div k
  BY <1>1
<1>3. d * k <= m /\ m < d * k + k
  BY <1>2, Divided
<1>4. 1 <= d
  <2> SUFFICES ASSUME d = 0 PROVE FALSE
    OBVIOUS
  <2>1. 0 * k = 0
    OBVIOUS
  <2> QED
    BY <1>1, <1>3, <2>1
<1>5. ASSUME NEW c \in Nat, d = w + c PROVE w = 1 /\ c = 0
  <2>1. PICK l \in Nat : k = 2 + l
    BY k - 2 \in Nat
  <2>2. PICK v \in Nat : w = 1 + v
    BY w - 1 \in Nat
  <2>3. (1 + v + c) * (2 + l) = 2 + l + 2 * v + v * l + 2 * c + c * l
    OBVIOUS
  <2>4. v * l \in Nat /\ c * l \in Nat
    OBVIOUS
  <2>5. d * k = 2 + l + 2 * v + v * l + 2 * c + c * l
    BY <1>5, <2>1, <2>2, <2>3
  <2>6. m = 1 + v + 1 + l
    BY <1>1, <2>1, <2>2
  <2> QED
    BY <1>3, <2>2, <2>4, <2>5, <2>6
<1>6. d <= w /\ (w # 1 => d < w)
  <2>1. d >= w => d - w \in Nat /\ d = w + (d - w)
    OBVIOUS
  <2> QED
    BY <1>5, <2>1
<1> QED
  BY <1>1, <1>2, <1>4, <1>6

\* The part of a segment a node is in.
Part(lo, d, n, p) == lo + p * d <= n /\ n < lo + p * d + d

Segs(size, n) ==
  {s \in [left : Nat, right : Nat, parent : Int] :
     s.left <= n /\ n < s.right /\ s.right <= size}

LEMMA NarrowIs ==
  ASSUME NEW size \in Nat, NEW k \in Nat, k >= 2, NEW n \in Nat, NEW s \in Segs(size, n)
  PROVE  \E d \in Nat : \E p \in Nat :
           /\ d = Dist(s.left, s.right, k) /\ 1 <= d /\ d <= s.right - s.left
           /\ s.right - s.left # 1 => d < s.right - s.left
           /\ Part(s.left, d, n, p)
           /\ \A m \in Nat, q \in Nat : s.left <= m /\ Part(s.left, d, m, q) =>
                (m - s.left) \div d = q
           /\ Narrow(s, k, n) =
                [left |-> s.left + p * d, parent |-> s.left,
                 right |-> IF s.left + p * d + d > s.right THEN s.right ELSE s.left + p * d + d]
<1>1. PICK l \in Nat : l = s.left
  BY DEF Segs
<1>2. PICK w \in Nat : w = s.right - s.left /\ w >= 1
  BY DEF Segs
<1>3. PICK d \in Nat : d = (w + k - 1) \div k /\ 1 <= d /\ d <= w /\ (w # 1 => d < w)
  BY <1>2, Shorter
<1>4. d = Dist(s.left, s.right, k)
  BY <1>2, <1>3 DEF Dist
<1>5. ASSUME NEW m \in Nat, l <= m, NEW q \in Nat
      PROVE  (m - l) \div d = q <=> Part(l, d, m, q)
  <2>1. PICK x \in Nat : x = m - l
    BY <1>5
  <2>2. x \div d = q <=> q * d <= x /\ x < q * d + d
    BY <1>3, Divided
  <2>3. q * d \in Nat
    OBVIOUS
  <2> QED
    BY <2>1, <2>2, <2>3 DEF Part
<1>6. PICK p \in Nat : p = (n - l) \div d
  <2>1. n - l \in Nat
    BY <1>1 DEF Segs
  <2> QED
    BY <1>3, <2>1
<1>7. Part(l, d, n, p)
  <2>1. l <= n
    BY <1>1 DEF Segs
  <2> QED
    BY <1>5, <1>6, <2>1
<1>8. (p + 1) * d = p * d + d
  OBVIOUS
<1>9. Narrow(s, k, n) =
        [left |-> l + p * d,
         right |-> IF l + (p + 1) * d > s.right THEN s.right ELSE l + (p + 1) * d,
         parent |-> l]
  BY <1>1, <1>4, <1>6, Zenon DEF Narrow
<1>10. l + (p + 1) * d = l + p * d + d
  BY <1>8
<1> QED
  <2>1. Narrow(s, k, n) =
          [left |-> s.left + p * d, parent |-> s.left,
           right |-> IF s.left + p * d + d > s.right THEN s.right ELSE s.left + p * d + d]
    BY <1>1, <1>9, <1>10
  <2> QED
    BY <1>1, <1>2, <1>3, <1>4, <1>5, <1>7, <2>1, Zenon

\* The step into a part: smaller, inside, and the same for every node of the part.
Inside(s, t, n) ==
  /\ t.parent = s.left /\ s.left <= t.left /\ t.right <= s.right
  /\ s.left # n => t.right - t.left < s.right - s.left

LEMMA Narrows ==
  ASSUME NEW size \in Nat, NEW k \in Nat, k >= 2, NEW n \in Nat, NEW s \in Segs(size, n)
  PROVE  /\ Narrow(s, k, n) \in Segs(size, n) /\ Inside(s, Narrow(s, k, n), n)
         /\ \A m \in Nat : Narrow(s, k, n).left <= m /\ m < Narrow(s, k, n).right =>
              Narrow(s, k, m) = Narrow(s, k, n)
<1>1. PICK d \in Nat, p \in Nat :
           /\ d = Dist(s.left, s.right, k) /\ 1 <= d /\ d <= s.right - s.left
           /\ s.right - s.left # 1 => d < s.right - s.left
           /\ Part(s.left, d, n, p)
           /\ \A m \in Nat, q \in Nat : s.left <= m /\ Part(s.left, d, m, q) =>
                (m - s.left) \div d = q
           /\ Narrow(s, k, n) =
                [left |-> s.left + p * d, parent |-> s.left,
                 right |-> IF s.left + p * d + d > s.right THEN s.right ELSE s.left + p * d + d]
  BY NarrowIs
<1> PICK t : t = Narrow(s, k, n)
  OBVIOUS
<1>2. PICK b \in Nat : b = p * d /\ (p = 0 => b = 0) /\ (p # 0 => b >= d)
  <2>1. p * d \in Nat
    OBVIOUS
  <2>2. p = 0 \/ \E c \in Nat : p = 1 + c
    BY p # 0 => p - 1 \in Nat /\ p = 1 + (p - 1)
  <2>3. ASSUME NEW c \in Nat PROVE (1 + c) * d = d + c * d /\ c * d \in Nat
    OBVIOUS
  <2>4. 0 * d = 0
    OBVIOUS
  <2> QED
    BY <2>1, <2>2, <2>3, <2>4
<1>3. t = [left |-> s.left + b, parent |-> s.left,
           right |-> IF s.left + b + d > s.right THEN s.right ELSE s.left + b + d]
  BY <1>1, <1>2
<1>4. s.left + b <= n /\ n < s.left + b + d
  BY <1>1, <1>2 DEF Part
<1>5. s.left \in Nat /\ s.right \in Nat /\ s.left <= n /\ n < s.right /\ s.right <= size
  BY DEF Segs
<1>6. /\ t \in [left : Nat, right : Nat, parent : Int]
      /\ t.left = s.left + b /\ t.parent = s.left
      /\ t.right = IF s.left + b + d > s.right THEN s.right ELSE s.left + b + d
  BY <1>3, <1>5
<1>7. t \in Segs(size, n)
  BY <1>4, <1>5, <1>6 DEF Segs
<1>8. Inside(s, t, n)
  <2>1. d <= s.right - s.left /\ (s.right - s.left # 1 => d < s.right - s.left) /\ 1 <= d
    BY <1>1
  <2> QED
    BY <1>2, <1>4, <1>5, <1>6, <2>1 DEF Inside
<1>9. ASSUME NEW m \in Nat, t.left <= m, m < t.right PROVE Narrow(s, k, m) = t
  <2>1. s \in Segs(size, m)
    BY <1>5, <1>6, <1>9 DEF Segs
  <2>2. PICK e \in Nat, q \in Nat :
           /\ e = Dist(s.left, s.right, k)
           /\ Part(s.left, e, m, q)
           /\ \A x \in Nat, y \in Nat : s.left <= x /\ Part(s.left, e, x, y) =>
                (x - s.left) \div e = y
           /\ Narrow(s, k, m) =
                [left |-> s.left + q * e, parent |-> s.left,
                 right |-> IF s.left + q * e + e > s.right THEN s.right ELSE s.left + q * e + e]
    BY <2>1, NarrowIs
  <2>3. e = d
    BY <1>1, <2>2
  <2>4. Part(s.left, d, m, p)
    <3>1. s.left + b <= m /\ m < s.left + b + d
      BY <1>5, <1>6, <1>9
    <3> QED
      BY <1>2, <3>1 DEF Part
  <2>5. s.left <= m
    BY <1>5, <1>6, <1>9
  <2>6. p = q
    BY <2>2, <2>3, <2>4, <2>5
  <2> QED
    BY <1>1, <2>2, <2>3, <2>6, Zenon
<1> QED
  BY <1>7, <1>8, <1>9

\* Where the parts of a segment start.
Last(lo, right, k) == (right - lo - 1) \div Dist(lo, right, k)

Cut(lo, right, k, d, q) ==
  /\ d = Dist(lo, right, k) /\ q = Last(lo, right, k) /\ 1 <= d
  /\ q = 0 <=> right = lo + 1
  /\ q # 0 => d < right - lo
  /\ \A j \in 1..q : lo + d <= lo + d * j /\ lo + d * j < right

LEMMA Cuts ==
  ASSUME NEW k \in Nat, k >= 2, NEW lo \in Nat, NEW right \in Nat, lo < right
  PROVE  \E d, q \in Nat : Cut(lo, right, k, d, q)
<1>1. PICK w \in Nat : right = lo + w /\ w = right - lo /\ w >= 1
  BY right - lo \in Nat
<1>2. PICK d \in Nat : d = (w + k - 1) \div k /\ 1 <= d /\ d <= w /\ (w # 1 => d < w)
  BY <1>1, Shorter
<1>3. PICK x \in Nat : x = w - 1
  BY <1>1
<1>4. PICK q \in Nat : q = x \div d
  BY <1>2
<1>5. q * d <= x /\ x < q * d + d
  BY <1>2, <1>4, Divided
<1>6. d = Dist(lo, right, k) /\ q = Last(lo, right, k)
  BY <1>1, <1>2, <1>3, <1>4 DEF Dist, Last
<1>7. q = 0 <=> w = 1
  <2>1. ASSUME q = 0 PROVE w = 1
    <3>1. 0 * d = 0
      OBVIOUS
    <3> QED
      BY <1>1, <1>2, <1>3, <1>5, <2>1, <3>1
  <2>2. ASSUME q # 0 PROVE w # 1
    <3>1. PICK c \in Nat : q = 1 + c
      BY <2>2, q - 1 \in Nat
    <3>2. (1 + c) * d = d + c * d /\ c * d \in Nat
      OBVIOUS
    <3> QED
      BY <1>2, <1>3, <1>5, <3>1, <3>2
  <2> QED
    BY <2>1, <2>2
<1>8. ASSUME NEW j \in 1..q PROVE lo + d <= lo + d * j /\ lo + d * j < right
  <2>1. PICK i \in Nat : j = 1 + i
    BY j - 1 \in Nat
  <2>2. PICK c \in Nat : q = 1 + i + c
    BY <2>1, q - j \in Nat
  <2>3. d * (1 + i) = d + d * i /\ (1 + i + c) * d = d + d * i + c * d
    OBVIOUS
  <2>4. d * i \in Nat /\ c * d \in Nat
    OBVIOUS
  <2>5. d * j = d + d * i /\ q * d = d + d * i + c * d
    BY <2>1, <2>2, <2>3
  <2> QED
    BY <1>1, <1>3, <1>5, <2>4, <2>5
<1> QED
  BY <1>1, <1>2, <1>6, <1>7, <1>8 DEF Cut

\* The step into a part, seen from where the parts start.
Enters(t, lo, n, d, q) ==
  /\ q # 0
  /\ n < lo + d => t.left = lo /\ t.right = lo + d
  /\ n >= lo + d => \E j \in 1..q : t.left = lo + d * j
  /\ \A j \in 1..q : n = lo + d * j => t.left = n

LEMMA Into ==
  ASSUME NEW size \in Nat, NEW k \in Nat, k >= 2, NEW n \in Nat, NEW s \in Segs(size, n),
         s.left < n, NEW d \in Nat, NEW q \in Nat, Cut(s.left, s.right, k, d, q)
  PROVE  Enters(Narrow(s, k, n), s.left, n, d, q)
<1>1. PICK e \in Nat, p \in Nat :
           /\ e = Dist(s.left, s.right, k) /\ 1 <= e /\ e <= s.right - s.left
           /\ s.right - s.left # 1 => e < s.right - s.left
           /\ Part(s.left, e, n, p)
           /\ \A m \in Nat, y \in Nat : s.left <= m /\ Part(s.left, e, m, y) =>
                (m - s.left) \div e = y
           /\ Narrow(s, k, n) =
                [left |-> s.left + p * e, parent |-> s.left,
                 right |-> IF s.left + p * e + e > s.right THEN s.right ELSE s.left + p * e + e]
  BY NarrowIs
<1>2. e = d
  BY <1>1 DEF Cut
<1> PICK l \in Nat : l = s.left
  BY DEF Segs
<1> PICK r \in Nat : r = s.right
  BY DEF Segs
<1> PICK t : t = Narrow(s, k, n)
  OBVIOUS
<1>3. PICK b \in Nat : b = p * d
  OBVIOUS
<1>4. l + b <= n /\ n < l + b + d
  BY <1>1, <1>2, <1>3 DEF Part
<1>5. t.left = l + b /\ t.right = IF l + b + d > r THEN r ELSE l + b + d
  BY <1>1, <1>2, <1>3
<1>6. l < n /\ n < r
  BY DEF Segs
<1>7. /\ q # 0 /\ 1 <= d /\ d < r - l /\ q = (r - l - 1) \div d
  BY <1>6 DEF Cut, Last
<1>8. (p = 0 => b = 0) /\ (p # 0 => b >= d)
  <2>1. p = 0 \/ \E c \in Nat : p = 1 + c
    BY p # 0 => p - 1 \in Nat /\ p = 1 + (p - 1)
  <2>2. ASSUME NEW c \in Nat PROVE (1 + c) * d = d + c * d /\ c * d \in Nat
    OBVIOUS
  <2>3. 0 * d = 0
    OBVIOUS
  <2> QED
    BY <1>3, <2>1, <2>2, <2>3
<1>9. n < l + d => t.left = l /\ t.right = l + d
  BY <1>4, <1>5, <1>7, <1>8
<1>10. ASSUME n >= l + d PROVE \E j \in 1..q : t.left = l + d * j
  <2>1. p # 0
    BY <1>4, <1>8, <1>10
  <2>2. PICK x \in Nat : x = r - l - 1
    BY <1>6
  <2>3. x < q * d + d
    BY <1>7, <2>2, Divided
  <2>4. ASSUME NEW c \in Nat, p = q + 1 + c PROVE FALSE
    <3>1. (q + 1 + c) * d = q * d + d + c * d /\ c * d \in Nat
      OBVIOUS
    <3>2. q * d \in Nat
      OBVIOUS
    <3> QED
      BY <1>3, <1>4, <1>6, <2>2, <2>3, <2>4, <3>1, <3>2
  <2>5. p <= q
    BY <2>4, p > q => p - q - 1 \in Nat /\ p = q + 1 + (p - q - 1)
  <2>6. p \in 1..q
    BY <2>1, <2>5
  <2>7. d * p = b
    BY <1>3
  <2> QED
    BY <1>5, <2>6, <2>7
<1>11. ASSUME NEW j \in 1..q, n = l + d * j PROVE t.left = n
  <2>1. PICK a \in Nat : a = d * j /\ a = j * d
    OBVIOUS
  <2>2. Part(l, d, n, j)
    BY <1>7, <1>11, <2>1 DEF Part
  <2>3. j = p
    <3>1. j \in Nat /\ l <= n
      BY <1>6
    <3>2. (n - l) \div d = j /\ (n - l) \div d = p
      BY <1>1, <1>2, <2>2, <3>1
    <3> QED
      BY <3>2
  <2> QED
    BY <1>3, <1>5, <1>11, <2>1, <2>3
<1> QED
  BY <1>7, <1>9, <1>10, <1>11 DEF Enters

------------------------------------------------------------------------------
\* The walk of a node to the segment it is the first of.

Top(size) == [left |-> 0, right |-> size, parent |-> NoNode]

Walk(w, size, k, n) ==
  /\ w \in [0..size -> Segs(size, n)] /\ w[0] = Top(size)
  /\ \A i \in 1..size :
       w[i] = IF w[i - 1].left = n THEN w[i - 1] ELSE Narrow(w[i - 1], k, n)

LEMMA Walks ==
  ASSUME NEW size \in Nat, NEW k \in Nat, k >= 2, NEW n \in Nodes(size)
  PROVE  \E w : Walk(w, size, k, n) /\ KnomialSegment(size, k, n) = w[size]
<1> DEFINE S == Segs(size, n)
           G(s) == IF s.left = n THEN s ELSE Narrow(s, k, n)
           F == [s \in S |-> G(s)]
           Turns(f) == [i \in 0..size |-> IF i = 0 THEN Top(size) ELSE G(f[i - 1])]
<1>0. n \in Nat /\ n < size
  BY DEF Nodes
<1>1. \A s \in S : G(s) \in S
  BY <1>0, Narrows
<1>2. Top(size) \in S
  BY <1>0 DEF Top, Segs, NoNode
<1>3. PICK f \in [0..size -> S] : f[0] = Top(size) /\ \A i \in 1..size : f[i] = F[f[i - 1]]
  <2>1. F \in [S -> S]
    BY <1>1
  <2> HIDE DEF S, F
  <2>2. PICK f : Iterated(f, size, S, Top(size), F)
    BY <1>2, <2>1, Iterates, Zenon
  <2> QED
    BY <2>2 DEF Iterated
<1> HIDE DEF S
<1>4. f = Turns(f)
  <2>1. \A i \in 0..size : f[i] = IF i = 0 THEN Top(size) ELSE G(f[i - 1])
    <3> SUFFICES ASSUME NEW i \in 0..size, i # 0 PROVE f[i] = G(f[i - 1])
      BY <1>3
    <3>1. i - 1 \in 0..size /\ i \in 1..size
      OBVIOUS
    <3>2. f[i - 1] \in S
      BY <3>1
    <3> HIDE DEF G
    <3> QED
      BY <1>3, <3>1, <3>2
  <2>2. f = [i \in 0..size |-> f[i]]
    OBVIOUS
  <2> HIDE DEF G
  <2> QED
    BY <2>1, <2>2
<1> DEFINE g == CHOOSE h : h = Turns(h)
<1>5. g = Turns(g)
  BY <1>4, Zenon
<1>6. KnomialSegment(size, k, n) = g[size]
  BY DEF KnomialSegment, Top
<1>7. PICK u : u = g
  OBVIOUS
<1> HIDE DEF g, G
<1>8. /\ DOMAIN u = 0..size /\ u[0] = Top(size)
      /\ \A i \in 0..size : i # 0 => u[i] = G(u[i - 1])
      /\ u = [i \in 0..size |-> u[i]]
  <2>1. u = Turns(u)
    BY <1>5, <1>7
  <2>2. PICK v : v = Turns(u)
    OBVIOUS
  <2>3. /\ DOMAIN v = 0..size /\ v[0] = Top(size)
        /\ \A i \in 0..size : i # 0 => v[i] = G(u[i - 1])
        /\ v = [i \in 0..size |-> v[i]]
    BY <2>2
  <2> HIDE DEF Turns
  <2> QED
    BY <2>1, <2>2, <2>3
<1>9. \A i \in 0..size : u[i] \in S
  <2> DEFINE T == {i \in Nat : i <= size => u[i] \in S}
  <2>1. 0 \in T
    BY <1>2, <1>8
  <2>2. ASSUME NEW i \in Nat, i \in T PROVE i + 1 \in T
    <3> SUFFICES ASSUME i + 1 <= size PROVE u[i + 1] \in S
      OBVIOUS
    <3>1. u[i] \in S /\ i + 1 \in 0..size /\ i + 1 # 0 /\ (i + 1) - 1 = i
      BY <2>2
    <3>2. u[i + 1] = G(u[i])
      BY <1>8, <3>1
    <3> QED
      BY <1>1, <3>1, <3>2 DEF G
  <2> HIDE DEF T
  <2>3. \A i \in Nat : i \in T
    BY <2>1, <2>2, Induction
  <2> QED
    BY <2>3 DEF T
<1>10. Walk(u, size, k, n)
  <2>1. \A i \in 1..size : i \in 0..size /\ i # 0
    OBVIOUS
  <2>2. \A i \in 1..size : u[i] = G(u[i - 1])
    BY <1>8, <2>1, Zenon
  <2>3. u \in [0..size -> S]
    BY <1>8, <1>9
  <2> QED
    BY <1>8, <2>2, <2>3, Zenon DEF Walk, G, S
<1> QED
  BY <1>6, <1>7, <1>10

LEMMA WalkStep ==
  ASSUME NEW size \in Nat, NEW k \in Nat, k >= 2, NEW n \in Nat, NEW w, Walk(w, size, k, n),
         NEW i \in Nat, i + 1 <= size
  PROVE  /\ w[i] \in Segs(size, n) /\ w[i + 1] \in Segs(size, n)
         /\ w[i].left = n => w[i + 1] = w[i]
         /\ w[i].left # n => w[i + 1] = Narrow(w[i], k, n) /\ Inside(w[i], w[i + 1], n)
<1>1. i \in 0..size /\ i + 1 \in 0..size /\ i + 1 \in 1..size /\ (i + 1) - 1 = i
  OBVIOUS
<1>2. w[i] \in Segs(size, n) /\ w[i + 1] \in Segs(size, n)
  BY <1>1 DEF Walk
<1>3. w[i + 1] = IF w[i].left = n THEN w[i] ELSE Narrow(w[i], k, n)
  BY <1>1 DEF Walk
<1>4. Inside(w[i], Narrow(w[i], k, n), n)
  BY <1>2, Narrows
<1> QED
  BY <1>2, <1>3, <1>4

Onward(s, t, n, later) ==
  /\ s.left <= t.left /\ t.right <= s.right
  /\ s.left = n => t = s
  /\ s.left # n /\ later => t.parent >= s.left

LEMMA WalkOn ==
  ASSUME NEW size \in Nat, NEW k \in Nat, k >= 2, NEW n \in Nat, NEW w, Walk(w, size, k, n),
         NEW i \in Nat, NEW j \in Nat, i <= j, j <= size
  PROVE  Onward(w[i], w[j], n, i < j)
<1> DEFINE T == {l \in Nat : i <= l /\ l <= size => Onward(w[i], w[l], n, i < l)}
<1>0. \A l \in Nat : l <= size =>
        /\ w[l] \in Segs(size, n) /\ w[l].left \in Nat /\ w[l].right \in Nat /\ w[l].parent \in Int
  <2> SUFFICES ASSUME NEW l \in Nat, l <= size
               PROVE  /\ w[l] \in Segs(size, n)
                      /\ w[l].left \in Nat /\ w[l].right \in Nat /\ w[l].parent \in Int
    OBVIOUS
  <2>1. l \in 0..size
    OBVIOUS
  <2>2. w[l] \in Segs(size, n)
    BY <2>1 DEF Walk
  <2> QED
    BY <2>2 DEF Segs
<1>a. i <= i => Onward(w[i], w[i], n, i < i)
  BY <1>0 DEF Onward
<1>1. 0 \in T
  BY <1>a
<1>2. ASSUME NEW l \in Nat, l \in T PROVE l + 1 \in T
  <2> SUFFICES ASSUME i <= l + 1, l + 1 <= size PROVE Onward(w[i], w[l + 1], n, i < l + 1)
    OBVIOUS
  <2>1. CASE i = l + 1
    BY <1>a, <2>1
  <2>2. CASE i # l + 1
    <3>1. i <= l /\ l <= size
      BY <2>2
    <3>2. Onward(w[i], w[l], n, i < l)
      BY <1>2, <3>1
    <3>3. /\ w[l].left = n => w[l + 1] = w[l]
          /\ w[l].left # n => Inside(w[l], w[l + 1], n)
      BY WalkStep
    <3> PICK a : a = w[i]
      OBVIOUS
    <3> PICK b : b = w[l]
      OBVIOUS
    <3> PICK c : c = w[l + 1]
      OBVIOUS
    <3>4. /\ a.left \in Nat /\ a.right \in Nat /\ b.left \in Nat /\ b.right \in Nat
          /\ c.left \in Nat /\ c.right \in Nat /\ b.parent \in Int /\ c.parent \in Int
      BY <1>0, <3>1
    <3>5. i < l + 1 /\ (i < l \/ i = l)
      BY <3>1
    <3>6. i = l => a = b
      OBVIOUS
    <3>7. Onward(a, c, n, TRUE)
      <4>1. /\ a.left <= b.left /\ b.right <= a.right /\ (a.left = n => b = a)
            /\ a.left # n /\ i < l => b.parent >= a.left
        BY <3>2 DEF Onward
      <4>2. /\ b.left = n => c = b
            /\ b.left # n => c.parent = b.left /\ b.left <= c.left /\ c.right <= b.right
        BY <3>3 DEF Inside
      <4> QED
        BY <3>4, <3>5, <3>6, <4>1, <4>2 DEF Onward
    <3> QED
      BY <3>5, <3>7
  <2> QED
    BY <2>1, <2>2
<1> HIDE DEF T
<1>3. j \in T
  BY <1>1, <1>2, Induction
<1> QED
  BY <1>3 DEF T

\* The width falls by one a step, so that size steps are enough.
LEMMA WalkEnds ==
  ASSUME NEW size \in Nat, NEW k \in Nat, k >= 2, NEW n \in Nodes(size), NEW w,
         Walk(w, size, k, n)
  PROVE  w[size] \in Segs(size, n) /\ w[size].left = n
<1>0. n \in Nat /\ n < size
  BY DEF Nodes
<1> DEFINE T == {i \in Nat : i <= size => w[i].left = n \/ w[i].right - w[i].left + i <= size}
<1>1. 0 \in T
  BY DEF Walk, Top
<1>2. ASSUME NEW i \in Nat, i \in T PROVE i + 1 \in T
  <2> SUFFICES ASSUME i + 1 <= size
               PROVE  w[i + 1].left = n \/ w[i + 1].right - w[i + 1].left + (i + 1) <= size
    OBVIOUS
  <2>1. /\ w[i] \in Segs(size, n) /\ w[i + 1] \in Segs(size, n)
        /\ w[i].left = n => w[i + 1] = w[i]
        /\ w[i].left # n => Inside(w[i], w[i + 1], n)
    BY <1>0, WalkStep
  <2>2. w[i].left = n \/ w[i].right - w[i].left + i <= size
    BY <1>2
  <2>3. CASE w[i].left = n
    BY <2>1, <2>3
  <2>4. CASE w[i].left # n
    <3>1. w[i + 1].right - w[i + 1].left < w[i].right - w[i].left
      BY <2>1, <2>4 DEF Inside
    <3>2. /\ w[i].left \in Nat /\ w[i].right \in Nat
          /\ w[i + 1].left \in Nat /\ w[i + 1].right \in Nat
      BY <2>1 DEF Segs
    <3> QED
      BY <2>2, <2>4, <3>1, <3>2
  <2> QED
    BY <2>3, <2>4
<1> HIDE DEF T
<1>3. size \in T
  BY <1>1, <1>2, Induction
<1>4. w[size] \in Segs(size, n)
  BY DEF Walk
<1>5. w[size].left = n \/ w[size].right - w[size].left + size <= size
  BY <1>3 DEF T
<1>6. w[size].left \in Nat /\ w[size].right \in Nat /\ w[size].left < w[size].right
  BY <1>0, <1>4 DEF Segs
<1> QED
  BY <1>4, <1>5, <1>6

OnTheMove(v, i, x, y) == \A j \in Nat : j < i => v[j].left # x /\ v[j].left # y
Meet(size, k, x, y, v, w, i) ==
  /\ Walk(v, size, k, x) /\ Walk(w, size, k, y) /\ x \in Nat /\ y \in Nat
  /\ i \in Nat /\ i <= size /\ OnTheMove(v, i, x, y) /\ v[i].left <= y /\ y < v[i].right

\* Two nodes walk together as long as neither has arrived and one segment has both.
LEMMA Together ==
  ASSUME NEW size \in Nat, NEW k \in Nat, k >= 2, NEW x, NEW y, NEW v, NEW w, NEW i,
         Meet(size, k, x, y, v, w, i)
  PROVE  w[i] = v[i]
<1>0. /\ Walk(v, size, k, x) /\ Walk(w, size, k, y) /\ x \in Nat /\ y \in Nat
      /\ i \in Nat /\ i <= size /\ OnTheMove(v, i, x, y) /\ v[i].left <= y /\ y < v[i].right
  BY DEF Meet
<1> DEFINE T == {j \in Nat : j <= i => w[j] = v[j]}
<1>1. 0 \in T
  BY <1>0 DEF Walk
<1>2. ASSUME NEW j \in Nat, j \in T PROVE j + 1 \in T
  <2> SUFFICES ASSUME j + 1 <= i PROVE w[j + 1] = v[j + 1]
    OBVIOUS
  <2>1. w[j] = v[j] /\ v[j].left # x /\ v[j].left # y /\ j + 1 <= size
    BY <1>0, <1>2 DEF OnTheMove
  <2>2. v[j] \in Segs(size, x) /\ v[j + 1] = Narrow(v[j], k, x)
    BY <1>0, <2>1, WalkStep
  <2>3. w[j + 1] = Narrow(w[j], k, y)
    BY <1>0, <2>1, WalkStep
  <2>4. v[j + 1].left <= y /\ y < v[j + 1].right
    <3>1. Onward(v[j + 1], v[i], x, j + 1 < i)
      BY <1>0, <2>1, WalkOn
    <3>2. v[j + 1] \in Segs(size, x) /\ v[i] \in Segs(size, x)
      BY <1>0, <2>1, WalkStep DEF Walk
    <3> QED
      BY <1>0, <3>1, <3>2 DEF Onward, Segs
  <2>5. Narrow(v[j], k, y) = Narrow(v[j], k, x)
    BY <1>0, <2>2, <2>4, Narrows
  <2> QED
    BY <2>1, <2>2, <2>3, <2>5
<1> HIDE DEF T
<1>3. i \in T
  BY <1>0, <1>1, <1>2, Induction
<1> QED
  BY <1>0, <1>3 DEF T

------------------------------------------------------------------------------
\* The children of a node: the other parts of its segment, then those of the first.

Others(lo, right, k) == {lo + Dist(lo, right, k) * j : j \in 1..Last(lo, right, k)}
Row(lo, right, k, u) ==
  IF Last(lo, right, k) = 0 THEN {}
  ELSE Others(lo, right, k) \cup u[lo + Dist(lo, right, k)]
Under(u, k, lo, top) == \A r \in (lo + 1)..top : u[r] = Row(lo, r, k, u)

\* The part one looks under is shorter.
LEMMA RowOf ==
  ASSUME NEW k \in Nat, k >= 2, NEW lo \in Nat, NEW r \in Nat, lo < r, NEW u, NEW v,
         \A x \in (lo + 1)..(r - 1) : u[x] = v[x]
  PROVE  Row(lo, r, k, u) = Row(lo, r, k, v)
<1>1. PICK d, q \in Nat : Cut(lo, r, k, d, q)
  BY Cuts
<1>2. CASE q = 0
  BY <1>1, <1>2 DEF Row, Cut
<1>3. CASE q # 0
  <2>1. lo + d \in (lo + 1)..(r - 1)
    BY <1>1, <1>3 DEF Cut
  <2>2. u[lo + d] = v[lo + d]
    BY <2>1
  <2> QED
    BY <1>1, <2>2 DEF Row, Cut
<1> QED
  BY <1>2, <1>3

Table(u, k, lo, top) ==
  DOMAIN u = (lo + 1)..top /\ Under(u, k, lo, top) /\ u = [r \in (lo + 1)..top |-> u[r]]

LEMMA UnderExists ==
  ASSUME NEW k \in Nat, k >= 2, NEW lo \in Nat, NEW m \in Nat
  PROVE  \E u : Table(u, k, lo, lo + m)
<1> DEFINE Good(u, l) == Table(u, k, lo, lo + l)
           T == {l \in Nat : \E u : Good(u, l)}
<1>1. 0 \in T
  <2> DEFINE e == [r \in (lo + 1)..(lo + 0) |-> {}]
  <2>1. Good(e, 0)
    BY DEF Under, Table
  <2> HIDE DEF e, Good
  <2> QED
    BY <2>1
<1>2. ASSUME NEW l \in Nat, l \in T PROVE l + 1 \in T
  <2>1. PICK u : Good(u, l)
    BY <1>2
  <2> DEFINE D == (lo + 1)..(lo + (l + 1))
             g == [r \in D |-> IF r = lo + (l + 1) THEN Row(lo, r, k, u) ELSE u[r]]
  <2>2. /\ \A r \in D : g[r] = IF r = lo + (l + 1) THEN Row(lo, r, k, u) ELSE u[r]
        /\ DOMAIN g = D /\ g = [r \in D |-> g[r]]
    OBVIOUS
  <2> HIDE DEF g
  <2>3. \A x \in (lo + 1)..(lo + l) : x \in D /\ x # lo + (l + 1)
    OBVIOUS
  <2>4. \A x \in (lo + 1)..(lo + l) : g[x] = u[x]
    BY <2>2, <2>3
  <2>5. ASSUME NEW r \in D PROVE g[r] = Row(lo, r, k, g)
    <3>1. r \in Nat /\ lo < r /\ r <= lo + (l + 1)
      OBVIOUS
    <3>2. \A x \in (lo + 1)..(r - 1) : x \in (lo + 1)..(lo + l)
      BY <3>1
    <3>3. \A x \in (lo + 1)..(r - 1) : u[x] = g[x]
      BY <2>4, <3>2
    <3>4. Row(lo, r, k, u) = Row(lo, r, k, g)
      BY <3>1, <3>3, RowOf
    <3>5. CASE r = lo + (l + 1)
      BY <2>2, <3>4, <3>5
    <3>6. CASE r # lo + (l + 1)
      <4>1. r \in (lo + 1)..(lo + l)
        BY <3>1, <3>6
      <4>2. u[r] = Row(lo, r, k, u)
        BY <2>1, <4>1 DEF Under, Table
      <4> QED
        BY <2>2, <3>4, <3>6, <4>2
    <3> QED
      BY <3>5, <3>6
  <2>6. Good(g, l + 1)
    BY <2>2, <2>5 DEF Under, Table
  <2> HIDE DEF Good
  <2> QED
    BY <2>6
<1> HIDE DEF T
<1>3. m \in T
  BY <1>1, <1>2, Induction
<1> QED
  BY <1>3 DEF T

LEMMA ChildrenAre ==
  ASSUME NEW size \in Nat, NEW k \in Nat, k >= 2, NEW lo \in Nat, NEW right \in Nat,
         lo < right, NEW n,
         KnomialSegment(size, k, n).left = lo, KnomialSegment(size, k, n).right = right
  PROVE  \E u : Under(u, k, lo, right) /\ KnomialChildren(size, k, n) = u[right]
<1> DEFINE D == (lo + 1)..right
           Rows(f) == [r \in D |-> Row(lo, r, k, f)]
<1>1. PICK f : f = Rows(f)
  <2>1. PICK m \in Nat : right = lo + m
    BY right - lo \in Nat
  <2>2. PICK u : /\ DOMAIN u = D /\ Under(u, k, lo, right)
                 /\ u = [r \in D |-> u[r]]
    <3>1. PICK u : Table(u, k, lo, lo + m)
      BY UnderExists
    <3> QED
      BY <2>1, <3>1 DEF Table
  <2>3. u = Rows(u)
    BY <2>2 DEF Under
  <2> QED
    BY <2>3
<1> DEFINE g == CHOOSE h : h = Rows(h)
<1>2. g = Rows(g)
  BY <1>1, Zenon
<1>3. KnomialChildren(size, k, n) = g[right]
  BY DEF KnomialChildren, Row, Others, Last
<1>4. PICK u : u = g
  OBVIOUS
<1> HIDE DEF g
<1>5. u = Rows(u)
  BY <1>2, <1>4
<1>6. Under(u, k, lo, right)
  <2>1. PICK v : v = Rows(u)
    OBVIOUS
  <2>2. \A r \in D : v[r] = Row(lo, r, k, u)
    BY <2>1
  <2> HIDE DEF Rows
  <2> QED
    BY <1>5, <2>1, <2>2 DEF Under
<1> QED
  BY <1>3, <1>4, <1>6

RowSays(w, size, n, i, c, d, q) ==
  /\ c < n + d => i + 1 <= size /\ w[i + 1].left = n /\ w[i + 1].right = n + d
  /\ c >= n + d => (w[size].parent = n <=> \E j \in 1..q : c = n + d * j)

\* A node in a segment that starts before it: it goes on in the first part, or it is
\* a child of the first node of the segment when a part starts with it.
LEMMA OneRow ==
  ASSUME NEW size \in Nat, NEW k \in Nat, k >= 2, NEW n \in Nat, NEW r \in Nat,
         NEW c \in Nodes(size), n < c, c < r, NEW w, Walk(w, size, k, c),
         NEW i \in Nat, i <= size, w[i].left = n, w[i].right = r,
         NEW d \in Nat, NEW q \in Nat, Cut(n, r, k, d, q)
  PROVE  q # 0 /\ RowSays(w, size, n, i, c, d, q)
<1>0. c \in Nat
  BY DEF Nodes
<1>1. w[size].left = c
  BY WalkEnds
<1>2. i + 1 <= size
  BY <1>0, <1>1
<1>3. /\ w[i] \in Segs(size, c) /\ w[i + 1] \in Segs(size, c)
      /\ w[i + 1] = Narrow(w[i], k, c) /\ Inside(w[i], w[i + 1], c)
  BY <1>0, <1>2, WalkStep
<1>4. Enters(w[i + 1], n, c, d, q)
  <2>1. w[i].left < c /\ Cut(w[i].left, w[i].right, k, d, q)
    OBVIOUS
  <2>2. Enters(Narrow(w[i], k, c), w[i].left, c, d, q)
    BY <1>0, <1>3, <2>1, Into
  <2> QED
    BY <1>3, <2>2
<1>5. Onward(w[i + 1], w[size], c, i + 1 < size)
  <2>1. PICK j \in Nat : j = i + 1 /\ j <= size
    BY <1>2
  <2>2. Onward(w[j], w[size], c, j < size)
    BY <1>0, <2>1, WalkOn
  <2> QED
    BY <2>1, <2>2
<1>6. ASSUME w[i + 1].left = c PROVE w[size].parent = n
  BY <1>3, <1>5, <1>6 DEF Onward, Inside
<1>7. ASSUME w[i + 1].left # c PROVE w[size].parent >= w[i + 1].left
  <2>1. i + 1 # size
    BY <1>1, <1>7
  <2>2. i + 1 < size
    BY <1>2, <2>1
  <2> QED
    BY <1>5, <1>7, <2>2 DEF Onward
<1>8. ASSUME c >= n + d, w[size].parent = n PROVE \E j \in 1..q : c = n + d * j
  <2>1. PICK j \in 1..q : w[i + 1].left = n + d * j
    BY <1>4, <1>8 DEF Enters
  <2>2. PICK x \in Nat : x = w[i + 1].left
    BY <1>3 DEF Segs
  <2>3. n + d <= n + d * j /\ 1 <= d
    BY DEF Cut
  <2>4. n < x
    BY <2>1, <2>2, <2>3
  <2>5. w[i + 1].left = c
    BY <1>7, <1>8, <2>2, <2>4
  <2> QED
    BY <2>1, <2>5
<1>9. ASSUME NEW j \in 1..q, c = n + d * j PROVE w[i + 1].left = c
  BY <1>4, <1>9 DEF Enters
<1> QED
  BY <1>2, <1>4, <1>6, <1>8, <1>9 DEF Enters, RowSays

\* The walk of c comes through the segment n .. r - 1.
Comes(size, k, c, n, r) ==
  \E w : /\ Walk(w, size, k, c) /\ KnomialSegment(size, k, c) = w[size]
         /\ \E i \in 0..size : w[i].left = n /\ w[i].right = r

AllCome(size, k, n, r) == \A c \in Nat : n < c /\ c < r => Comes(size, k, c, n, r)

LEMMA RowMeans ==
  ASSUME NEW size \in Nat, NEW k \in Nat, k >= 2, NEW n \in Nat, NEW r \in Nat, n < r, r <= size,
         AllCome(size, k, n, r), NEW d \in Nat, NEW q \in Nat, Cut(n, r, k, d, q), q # 0
  PROVE  /\ AllCome(size, k, n, n + d)
         /\ \A c \in Nat : n + d <= c /\ c < r =>
              (KnomialParent(size, k, c) = n <=> c \in Others(n, r, k))
<1> DEFINE Walking(c) ==
             \E w : \E i \in Nat :
               /\ Walk(w, size, k, c) /\ KnomialSegment(size, k, c) = w[size]
               /\ RowSays(w, size, n, i, c, d, q)
<1>0. 1 <= d /\ d < r - n
  BY DEF Cut
<1>1. ASSUME NEW c \in Nat, n < c, c < r
      PROVE  Walking(c)
  <2>1. Comes(size, k, c, n, r)
    BY <1>1 DEF AllCome
  <2>2. PICK w : /\ Walk(w, size, k, c) /\ KnomialSegment(size, k, c) = w[size]
                 /\ \E i \in 0..size : w[i].left = n /\ w[i].right = r
    BY <2>1 DEF Comes
  <2>3. PICK i \in 0..size : w[i].left = n /\ w[i].right = r
    BY <2>2
  <2>4. i \in Nat /\ i <= size /\ c \in Nodes(size)
    BY <1>1 DEF Nodes
  <2>5. RowSays(w, size, n, i, c, d, q)
    BY <1>1, <2>2, <2>3, <2>4, OneRow
  <2> QED
    BY <2>2, <2>3, <2>4, <2>5
<1>2. ASSUME NEW c \in Nat, n < c, c < n + d PROVE Comes(size, k, c, n, n + d)
  <2>1. c < r
    BY <1>0, <1>2
  <2>4. Walking(c)
    BY <1>1, <1>2, <2>1
  <2>2. PICK w : \E i \in Nat :
               /\ Walk(w, size, k, c) /\ KnomialSegment(size, k, c) = w[size]
               /\ RowSays(w, size, n, i, c, d, q)
    BY <2>4
  <2>5. PICK i \in Nat : RowSays(w, size, n, i, c, d, q)
    BY <2>2
  <2>3. i + 1 \in 0..size /\ w[i + 1].left = n /\ w[i + 1].right = n + d
    BY <1>2, <2>5 DEF RowSays
  <2> QED
    BY <2>2, <2>3 DEF Comes
<1>3. ASSUME NEW c \in Nat, n + d <= c, c < r
      PROVE  KnomialParent(size, k, c) = n <=> c \in Others(n, r, k)
  <2>1. n < c
    BY <1>0, <1>3
  <2>6. Walking(c)
    BY <1>1, <1>3, <2>1
  <2>5. PICK w : \E i \in Nat : /\ KnomialSegment(size, k, c) = w[size]
                               /\ RowSays(w, size, n, i, c, d, q)
    BY <2>6
  <2>2. /\ KnomialSegment(size, k, c) = w[size]
        /\ (w[size].parent = n <=> \E j \in 1..q : c = n + d * j)
    BY <1>3, <2>5 DEF RowSays
  <2>3. KnomialParent(size, k, c) = w[size].parent
    BY <2>2 DEF KnomialParent
  <2>4. c \in Others(n, r, k) <=> \E j \in 1..q : c = n + d * j
    BY DEF Others, Cut
  <2> QED
    BY <2>2, <2>3, <2>4
<1> QED
  BY <1>2, <1>3 DEF AllCome

HasChildren(s, size, k, n, top) ==
  \A c : c \in s <=> c \in Nat /\ n < c /\ c < top /\ KnomialParent(size, k, c) = n

LEMMA UnderMeans ==
  ASSUME NEW size \in Nat, NEW k \in Nat, k >= 2, NEW n \in Nat, NEW top \in Nat,
         n < top, top <= size, NEW u, Under(u, k, n, top), AllCome(size, k, n, top)
  PROVE  HasChildren(u[top], size, k, n, top)
<1> DEFINE Means(r) == HasChildren(u[r], size, k, n, r)
           Upto(m) == \A r \in Nat : n < r /\ r <= top /\ r <= n + m /\ AllCome(size, k, n, r)
                                       => Means(r)
           T == {m \in Nat : Upto(m)}
<1> HIDE DEF Means
<1>1. 0 \in T
  OBVIOUS
<1>2. ASSUME NEW m \in Nat, m \in T PROVE m + 1 \in T
  <2> SUFFICES ASSUME NEW r \in Nat, n < r, r <= top, r <= n + (m + 1), AllCome(size, k, n, r)
               PROVE  Means(r)
    OBVIOUS
  <2>1. PICK d, q \in Nat : Cut(n, r, k, d, q)
    BY Cuts
  <2>2. u[r] = Row(n, r, k, u)
    <3>1. r \in (n + 1)..top
      OBVIOUS
    <3> QED
      BY <3>1 DEF Under
  <2>3. CASE q = 0
    <3>1. u[r] = {} /\ r = n + 1
      BY <2>1, <2>2, <2>3 DEF Row, Cut
    <3> QED
      BY <3>1 DEF Means, HasChildren
  <2>4. CASE q # 0
    <3>1. 1 <= d /\ d < r - n
      BY <2>1, <2>4 DEF Cut
    <3>2. /\ AllCome(size, k, n, n + d)
          /\ \A c \in Nat : n + d <= c /\ c < r =>
               (KnomialParent(size, k, c) = n <=> c \in Others(n, r, k))
      <4>1. r <= size
        OBVIOUS
      <4> QED
        BY <2>1, <2>4, <4>1, RowMeans
    <3>3. Means(n + d)
      <4>1. n + d \in Nat /\ n < n + d /\ n + d <= top /\ n + d <= n + m
        BY <3>1
      <4> QED
        BY <1>2, <3>2, <4>1
    <3>4. u[r] = Others(n, r, k) \cup u[n + d]
      BY <2>1, <2>2, <2>4 DEF Row, Cut
    <3>5. \A c \in Others(n, r, k) : c \in Nat /\ n + d <= c /\ c < r
      <4> SUFFICES ASSUME NEW j \in 1..q
                   PROVE  n + d * j \in Nat /\ n + d <= n + d * j /\ n + d * j < r
        BY <2>1 DEF Others, Cut
      <4>1. d * j \in Nat
        OBVIOUS
      <4> QED
        BY <2>1, <4>1 DEF Cut
    <3>6. ASSUME NEW c, c \in u[r]
          PROVE  c \in Nat /\ n < c /\ c < r /\ KnomialParent(size, k, c) = n
      <4>1. CASE c \in Others(n, r, k)
        BY <3>1, <3>2, <3>5, <4>1
      <4>2. CASE c \in u[n + d]
        BY <3>1, <3>3, <4>2 DEF Means, HasChildren
      <4> QED
        BY <3>4, <3>6, <4>1, <4>2
    <3>7. ASSUME NEW c \in Nat, n < c, c < r, KnomialParent(size, k, c) = n
          PROVE  c \in u[r]
      <4>1. CASE c < n + d
        BY <3>3, <3>4, <3>7, <4>1 DEF Means, HasChildren
      <4>2. CASE n + d <= c
        BY <3>2, <3>4, <3>7, <4>2
      <4> QED
        BY <4>1, <4>2
    <3> QED
      BY <3>6, <3>7 DEF Means, HasChildren
  <2> QED
    BY <2>3, <2>4
<1> HIDE DEF T
<1>3. top \in T
  BY <1>1, <1>2, Induction
<1>4. top <= n + top
  OBVIOUS
<1>5. Means(top)
  BY <1>3, <1>4 DEF T
<1> QED
  BY <1>5 DEF Means

\* The first time a walk is in a segment that starts at n.
LEMMA FirstTime ==
  ASSUME NEW w, NEW n, NEW i \in Nat, w[i].left = n
  PROVE  \E m \in Nat : m <= i /\ w[m].left = n /\ \A j \in Nat : j < m => w[j].left # n
<1> DEFINE T == {j \in Nat : w[j].left = n}
<1>1. T \in SUBSET Nat /\ T # {} /\ i \in T
  OBVIOUS
<1>2. PICK m \in T : \A y \in T : m <= y
  <2> HIDE DEF T
  <2> QED
    BY <1>1, LeastIn
<1>3. m \in Nat /\ m <= i /\ w[m].left = n
  BY <1>1, <1>2
<1>4. ASSUME NEW j \in Nat, j < m PROVE w[j].left # n
  <2>1. j \in T => m <= j
    BY <1>2
  <2> QED
    BY <1>3, <1>4, <2>1
<1> QED
  BY <1>3, <1>4

\* The parent of a node other than 0 is the first of a segment on its way.
LEMMA ParentOnTheWay ==
  ASSUME NEW size \in Nat, NEW k \in Nat, k >= 2, NEW c \in Nodes(size), c # 0,
         NEW w, Walk(w, size, k, c)
  PROVE  /\ w[size].parent \in Nodes(size) /\ w[size].parent < c
         /\ \E i \in Nat : i <= size /\ w[i].left = w[size].parent
<1>0. c \in Nat /\ c < size
  BY DEF Nodes
<1>1. w[size].left = c
  BY WalkEnds
<1>2. PICK m \in Nat : m <= size /\ w[m].left = c /\ \A j \in Nat : j < m => w[j].left # c
  BY <1>1, FirstTime
<1>3. w[0].left = 0
  BY DEF Walk, Top
<1>4. PICK i \in Nat : m = i + 1
  BY <1>2, <1>3, m # 0, m - 1 \in Nat
<1>5. w[i].left # c /\ i + 1 <= size /\ i <= size
  BY <1>2, <1>4
<1>6. w[i] \in Segs(size, c) /\ Inside(w[i], w[i + 1], c)
  BY <1>0, <1>5, WalkStep
<1>7. w[size] = w[m]
  <2>1. Onward(w[m], w[size], c, m < size)
    BY <1>0, <1>2, WalkOn
  <2> QED
    BY <1>2, <2>1 DEF Onward
<1>8. w[size].parent = w[i].left
  BY <1>4, <1>6, <1>7 DEF Inside
<1>9. w[i].left \in Nat /\ w[i].left < c
  BY <1>0, <1>5, <1>6 DEF Segs
<1> QED
  BY <1>0, <1>5, <1>8, <1>9 DEF Nodes

\* The segment of a node is on the way of every node after it in the segment.
LEMMA OnTheWay ==
  ASSUME NEW size \in Nat, NEW k \in Nat, k >= 2, NEW n \in Nodes(size),
         NEW v, Walk(v, size, k, n), NEW c \in Nodes(size), n < c, c < v[size].right,
         NEW w, Walk(w, size, k, c)
  PROVE  \E i \in 0..size : w[i].left = n /\ w[i].right = v[size].right
<1>0. n \in Nat /\ c \in Nat
  BY DEF Nodes
<1>1. v[size].left = n
  BY WalkEnds
<1>2. PICK m \in Nat : m <= size /\ v[m].left = n /\ \A j \in Nat : j < m => v[j].left # n
  BY <1>1, FirstTime
<1>3. v[size] = v[m]
  <2>1. Onward(v[m], v[size], n, m < size)
    BY <1>0, <1>2, WalkOn
  <2> QED
    BY <1>2, <2>1 DEF Onward
<1>4. ASSUME NEW j \in Nat, j < m PROVE v[j].left # n /\ v[j].left # c
  <2>1. j + 1 <= size
    BY <1>2, <1>4
  <2>2. v[j] \in Segs(size, n)
    BY <1>0, <2>1, WalkStep
  <2>3. v[j].left \in Nat /\ v[j].left <= n
    BY <2>2 DEF Segs
  <2> QED
    BY <1>0, <1>2, <1>4, <2>3
<1>5. v[m].left <= c /\ c < v[m].right
  BY <1>0, <1>2, <1>3
<1>6. w[m] = v[m]
  <2>1. OnTheMove(v, m, n, c)
    BY <1>4 DEF OnTheMove
  <2>2. Meet(size, k, n, c, v, w, m)
    BY <1>0, <1>2, <1>5, <2>1 DEF Meet
  <2> QED
    BY <2>2, Together
<1>7. m \in 0..size
  BY <1>2
<1> QED
  BY <1>2, <1>3, <1>6, <1>7

\* And the other way round: a node that starts a segment on the way of c has that
\* segment for its own.
LEMMA SegmentOfParent ==
  ASSUME NEW size \in Nat, NEW k \in Nat, k >= 2, NEW n \in Nodes(size),
         NEW v, Walk(v, size, k, n), NEW c \in Nodes(size), n < c,
         NEW w, Walk(w, size, k, c), NEW l \in Nat, l <= size, w[l].left = n
  PROVE  /\ c < v[size].right
         /\ \E m \in Nat : /\ m <= l /\ w[m].left = n /\ v[size] = w[m]
                          /\ \A j \in Nat : j < m => w[j].left # n
<1>0. n \in Nat /\ c \in Nat
  BY DEF Nodes
<1>1. PICK m \in Nat : m <= l /\ w[m].left = n /\ \A j \in Nat : j < m => w[j].left # n
  BY FirstTime
<1>2. m <= size
  BY <1>1
<1>3. w[m] \in Segs(size, c)
  <2>1. m \in 0..size
    BY <1>2
  <2> QED
    BY <2>1 DEF Walk
<1>4. ASSUME NEW j \in Nat, j < m PROVE w[j].left # c /\ w[j].left # n
  <2>1. j + 1 <= size
    BY <1>2, <1>4
  <2>2. w[j] \in Segs(size, c) /\ j <= m
    BY <1>0, <1>4, <2>1, WalkStep
  <2>3. Onward(w[j], w[m], c, j < m)
    BY <1>0, <1>2, <2>2, WalkOn
  <2>4. w[j].left \in Nat /\ w[j].left <= n
    BY <1>1, <2>2, <2>3 DEF Segs, Onward
  <2> QED
    BY <1>0, <1>1, <1>4, <2>4
<1>5. w[m].left <= n /\ n < w[m].right
  BY <1>0, <1>1, <1>3 DEF Segs
<1>6. v[m] = w[m]
  <2>1. OnTheMove(w, m, c, n)
    BY <1>4 DEF OnTheMove
  <2>2. Meet(size, k, c, n, w, v, m)
    BY <1>0, <1>2, <1>5, <2>1 DEF Meet
  <2> QED
    BY <2>2, Together
<1>7. v[size] = v[m]
  <2>1. Onward(v[m], v[size], n, m < size)
    BY <1>0, <1>2, WalkOn
  <2> QED
    BY <1>1, <1>6, <2>1 DEF Onward
<1>8. c < v[size].right
  BY <1>3, <1>6, <1>7 DEF Segs
<1> QED
  BY <1>1, <1>6, <1>7, <1>8

LEMMA KnomialViews ==
  ASSUME NEW size \in Nat, NEW k \in Nat, k >= 2
  PROVE  Unrotated(size, [n \in Nodes(size) |-> KnomialParent(size, k, n)],
                         [n \in Nodes(size) |-> KnomialChildren(size, k, n)])
<1> DEFINE P == [n \in Nodes(size) |-> KnomialParent(size, k, n)]
           C == [n \in Nodes(size) |-> KnomialChildren(size, k, n)]
<1>0. \A n \in Nodes(size) : n \in Nat /\ n < size /\ n # NoNode
  BY DEF Nodes, NoNode
<1>00. \A n \in Nat : n < size => n \in Nodes(size)
  BY DEF Nodes
<1>1. \A n \in Nodes(size) : \E w : Walk(w, size, k, n) /\ KnomialSegment(size, k, n) = w[size]
  BY Walks
<1>2. ASSUME NEW n \in Nodes(size), NEW w, KnomialSegment(size, k, n) = w[size]
      PROVE  P[n] = w[size].parent
  BY <1>2 DEF KnomialParent
<1>3. ASSUME NEW n \in Nodes(size)
      PROVE  C[n] = KnomialChildren(size, k, n) /\ P[n] = KnomialParent(size, k, n)
  OBVIOUS
<1> HIDE DEF P, C
<1>4. ASSUME NEW n \in Nodes(size), n # 0 PROVE P[n] \in Nodes(size) /\ P[n] < n
  <2>1. PICK w : Walk(w, size, k, n) /\ KnomialSegment(size, k, n) = w[size]
    BY <1>1
  <2> QED
    BY <1>2, <1>4, <2>1, ParentOnTheWay
<1>5. ASSUME 0 \in Nodes(size) PROVE P[0] = NoNode
  <2>1. PICK w : Walk(w, size, k, 0) /\ KnomialSegment(size, k, 0) = w[size]
    BY <1>1, <1>5
  <2>2. Onward(w[0], w[size], 0, 0 < size)
    BY <2>1, 0 \in Nat, 0 <= size, WalkOn
  <2>3. w[0].left = 0 /\ w[0].parent = NoNode
    BY <2>1 DEF Walk, Top
  <2> QED
    BY <1>2, <1>5, <2>1, <2>2, <2>3 DEF Onward
<1>6. ASSUME NEW n \in Nodes(size)
      PROVE  \A c : c \in C[n] <=> c \in Nodes(size) /\ P[c] = n
  <2>1. PICK v : Walk(v, size, k, n) /\ KnomialSegment(size, k, n) = v[size]
    BY <1>1
  <2>2. v[size] \in Segs(size, n) /\ v[size].left = n
    BY <2>1, WalkEnds
  <2>3. PICK top \in Nat : top = v[size].right /\ n < top /\ top <= size
    BY <2>2 DEF Segs
  <2>4. PICK u : Under(u, k, n, top) /\ KnomialChildren(size, k, n) = u[top]
    BY <1>0, <2>1, <2>2, <2>3, ChildrenAre
  <2>5. AllCome(size, k, n, top)
    <3> SUFFICES ASSUME NEW c \in Nat, n < c, c < top PROVE Comes(size, k, c, n, top)
      BY DEF AllCome
    <3>1. c \in Nodes(size)
      BY <1>00, <2>3
    <3>2. PICK w : Walk(w, size, k, c) /\ KnomialSegment(size, k, c) = w[size]
      BY <1>1, <3>1
    <3>3. \E i \in 0..size : w[i].left = n /\ w[i].right = v[size].right
      BY <2>1, <2>3, <3>1, <3>2, OnTheWay
    <3> QED
      BY <2>3, <3>2, <3>3 DEF Comes
  <2>9. HasChildren(u[top], size, k, n, top)
    BY <1>0, <2>3, <2>4, <2>5, UnderMeans
  <2>6. \A c : c \in u[top] <=> c \in Nat /\ n < c /\ c < top /\ KnomialParent(size, k, c) = n
    BY <2>9 DEF HasChildren
  <2>7. ASSUME NEW c, c \in C[n] PROVE c \in Nodes(size) /\ P[c] = n
    <3>1. c \in Nat /\ n < c /\ c < top /\ KnomialParent(size, k, c) = n
      BY <1>3, <2>4, <2>6, <2>7
    <3>2. c \in Nodes(size)
      BY <1>00, <2>3, <3>1
    <3> QED
      BY <1>3, <3>1, <3>2
  <2>8. ASSUME NEW c \in Nodes(size), P[c] = n PROVE c \in C[n]
    <3>1. c # 0
      BY <1>0, <1>5, <2>8
    <3>2. PICK w : Walk(w, size, k, c) /\ KnomialSegment(size, k, c) = w[size]
      BY <1>1
    <3>3. w[size].parent = n
      BY <1>2, <2>8, <3>2
    <3>4. n < c
      BY <1>4, <2>8, <3>1
    <3>5. PICK i \in Nat : i <= size /\ w[i].left = n
      BY <3>1, <3>2, <3>3, ParentOnTheWay
    <3>6. c < v[size].right
      BY <2>1, <3>2, <3>4, <3>5, SegmentOfParent
    <3>7. KnomialParent(size, k, c) = n
      BY <1>3, <2>8
    <3> QED
      BY <1>0, <1>3, <2>3, <2>4, <2>6, <3>4, <3>6, <3>7
  <2> QED
    BY <2>7, <2>8
<1>7. P \in [Nodes(size) -> Nodes(size) \cup {NoNode}]
  <2>1. P = [n \in Nodes(size) |-> P[n]]
    BY DEF P
  <2>2. \A n \in Nodes(size) : P[n] \in Nodes(size) \cup {NoNode}
    BY <1>4, <1>5
  <2> QED
    BY <2>1, <2>2
<1>8. ASSUME NEW n \in Nodes(size)
      PROVE  (P[n] # NoNode => P[n] < n) /\ (P[n] = NoNode <=> n = 0)
  BY <1>0, <1>4, <1>5
<1>9. \A n, c \in Nodes(size) : c \in C[n] <=> P[c] = n
  BY <1>6
<1>10. \A n \in Nodes(size) : C[n] \subseteq Nodes(size)
  BY <1>6
<1> QED
  BY <1>7, <1>8, <1>9, <1>10 DEF Unrotated, P, C

LEMMA KnomialTree ==
  ASSUME NEW size \in Nat, NEW k \in Nat, k >= 2, NEW root \in Nodes(size), NEW t,
         t.parent = [n \in Nodes(size) |-> KnomialParentRoot(size, root, k, n)],
         t.children = [n \in Nodes(size) |-> KnomialChildrenRoot(size, root, k, n)]
  PROVE  Ranked(t, size, root)
<1> PICK P : P = [n \in Nodes(size) |-> KnomialParent(size, k, n)]
  OBVIOUS
<1> PICK C : C = [n \in Nodes(size) |-> KnomialChildren(size, k, n)]
  OBVIOUS
<1>1. Unrotated(size, P, C)
  BY KnomialViews
<1>2. ASSUME NEW n \in Nodes(size)
      PROVE  /\ KnomialParentRoot(size, root, k, n) =
                  RootedParent(size, root, P[FromRoot(size, root, n)])
             /\ KnomialChildrenRoot(size, root, k, n) =
                  RootedChildren(size, root, C[FromRoot(size, root, n)])
  <2>1. FromRoot(size, root, n) \in Nodes(size)
    BY Rotation
  <2> QED
    BY <2>1 DEF KnomialParentRoot, KnomialChildrenRoot
<1>3. t.parent = [n \in Nodes(size) |-> RootedParent(size, root, P[FromRoot(size, root, n)])]
  BY <1>2
<1>4. t.children = [n \in Nodes(size) |-> RootedChildren(size, root, C[FromRoot(size, root, n)])]
  BY <1>2
<1>5. Rotates(t, size, root, P, C)
  BY <1>3, <1>4 DEF Rotates
<1> QED
  BY <1>1, <1>5, Rotated

------------------------------------------------------------------------------
\* How many levels the k-nomial trees have.

\* The powers of the radix.
PowersOf(r, size, k) ==
  r \in [0..size -> Nat] /\ r[0] = 1 /\ \A i \in 1..size : r[i] = k * r[i - 1]

LEMMA RoomIs ==
  ASSUME NEW size \in Nat, NEW k \in Nat
  PROVE  PowersOf(Room(size, k), size, k)
<1> DEFINE F == [x \in Nat |-> k * x]
           Turns(f) == [l \in 0..size |-> IF l = 0 THEN 1 ELSE k * f[l - 1]]
<1>1. PICK f \in [0..size -> Nat] : f[0] = 1 /\ \A i \in 1..size : f[i] = F[f[i - 1]]
  <2>1. F \in [Nat -> Nat]
    OBVIOUS
  <2> HIDE DEF F
  <2>2. PICK f : Iterated(f, size, Nat, 1, F)
    BY <2>1, Iterates
  <2> QED
    BY <2>2 DEF Iterated
<1>2. ASSUME NEW i \in 1..size PROVE f[i] = k * f[i - 1] /\ i # 0
  <2>1. i - 1 \in 0..size
    OBVIOUS
  <2>2. PICK x \in Nat : x = f[i - 1]
    BY <2>1
  <2>3. f[i] = F[x] /\ F[x] = k * x
    BY <1>1, <2>2
  <2> QED
    BY <2>2, <2>3
<1>3. f = Turns(f)
  <2>1. \A i \in 0..size : f[i] = IF i = 0 THEN 1 ELSE k * f[i - 1]
    <3> SUFFICES ASSUME NEW i \in 0..size, i # 0 PROVE f[i] = k * f[i - 1]
      BY <1>1
    <3> QED
      BY <1>2, i \in 1..size
  <2>2. f = [i \in 0..size |-> f[i]]
    OBVIOUS
  <2> QED
    BY <2>1, <2>2
<1>4. Room(size, k) = CHOOSE g : g = Turns(g)
  BY Zenon DEF Room
<1>5. PICK r : r = Room(size, k)
  OBVIOUS
<1>6. r = Turns(r)
  <2> HIDE DEF Turns
  <2> QED
    BY <1>3, <1>4, <1>5
<1>7. \A i \in 0..size : r[i] = IF i = 0 THEN 1 ELSE k * r[i - 1]
  <2> PICK v : v = Turns(r)
    OBVIOUS
  <2>1. \A i \in 0..size : v[i] = IF i = 0 THEN 1 ELSE k * r[i - 1]
    OBVIOUS
  <2>2. r = v
    BY <1>6
  <2> HIDE DEF Turns
  <2> QED
    BY <2>1, <2>2
<1>8. r = [i \in 0..size |-> r[i]]
  <2> PICK v : v = Turns(r)
    OBVIOUS
  <2>1. v = [i \in 0..size |-> v[i]]
    OBVIOUS
  <2> HIDE DEF Turns
  <2> QED
    BY <1>6, <2>1
<1> DEFINE T == {l \in Nat : l <= size => r[l] \in Nat}
<1>9. 0 \in T
  BY <1>7
<1>10. ASSUME NEW l \in Nat, l \in T PROVE l + 1 \in T
  <2> SUFFICES ASSUME l + 1 <= size PROVE r[l + 1] \in Nat
    OBVIOUS
  <2>1. r[l] \in Nat /\ l + 1 \in 0..size /\ l + 1 # 0 /\ (l + 1) - 1 = l
    BY <1>10
  <2>2. r[l + 1] = k * r[l]
    BY <1>7, <2>1
  <2> QED
    BY <2>1, <2>2
<1> HIDE DEF T
<1>11. \A l \in Nat : l \in T
  BY <1>9, <1>10, Induction
<1>12. \A l \in 0..size : r[l] \in Nat
  BY <1>11 DEF T
<1>13. r \in [0..size -> Nat]
  BY <1>8, <1>12
<1>14. \A i \in 1..size : i \in 0..size /\ i # 0
  OBVIOUS
<1> HIDE DEF Turns
<1>15. r[0] = 1 /\ \A i \in 1..size : r[i] = k * r[i - 1]
  BY <1>7, <1>14, 0 \in 0..size
<1> QED
  BY <1>5, <1>13, <1>15 DEF PowersOf

LEMMA PowerStep ==
  ASSUME NEW size \in Nat, NEW k \in Nat, NEW r, PowersOf(r, size, k), NEW l \in Nat, l + 1 <= size
  PROVE  r[l] \in Nat /\ r[l + 1] \in Nat /\ r[l + 1] = k * r[l]
<1>1. l \in 0..size /\ l + 1 \in 1..size /\ l + 1 \in 0..size /\ (l + 1) - 1 = l
  OBVIOUS
<1> QED
  BY <1>1 DEF PowersOf

\* So many levels have room for all nodes.
Suffices(l, r, size) == l \in 0..size /\ r[l] >= size

LEMMA EnoughLevels ==
  ASSUME NEW size \in Nat, NEW k \in Nat, k >= 2, NEW r, PowersOf(r, size, k)
  PROVE  Suffices(CHOOSE l \in 0..size : r[l] >= size /\ \A m \in 0..(l - 1) : r[m] < size, r, size)
<1> DEFINE T == {l \in Nat : l <= size => r[l] >= l + 1}
           L == {l \in 0..size : r[l] >= size}
<1>1. 0 \in T
  BY DEF PowersOf
<1>2. ASSUME NEW l \in Nat, l \in T PROVE l + 1 \in T
  <2> SUFFICES ASSUME l + 1 <= size PROVE r[l + 1] >= l + 2
    OBVIOUS
  <2>1. r[l] >= l + 1
    BY <1>2
  <2>2. PICK x \in Nat : x = r[l]
    BY PowerStep
  <2>3. r[l + 1] = k * x
    BY <2>2, PowerStep
  <2>4. PICK c \in Nat : k = 2 + c
    BY k - 2 \in Nat
  <2>5. (2 + c) * x = x + x + c * x /\ c * x \in Nat
    OBVIOUS
  <2> QED
    BY <2>1, <2>2, <2>3, <2>4, <2>5
<1> HIDE DEF T
<1>3. size \in T
  BY <1>1, <1>2, Induction
<1>4. size \in L
  <2>1. r[size] >= size + 1 /\ r[size] \in Nat
    BY <1>3 DEF T, PowersOf
  <2> QED
    BY <2>1
<1>5. PICK l \in L : \A m \in L : l <= m
  <2>1. L \in SUBSET Nat /\ L # {}
    BY <1>4
  <2> HIDE DEF L
  <2> QED
    BY <2>1, LeastIn
<1>6. ASSUME NEW m \in 0..(l - 1) PROVE r[m] < size
  <2>1. m \in 0..size /\ m \notin L
    BY <1>5
  <2>2. r[m] \in Nat
    BY <2>1 DEF PowersOf
  <2> QED
    BY <2>1, <2>2
<1> DEFINE fits(i) == r[i] >= size /\ \A m \in 0..(i - 1) : r[m] < size
<1>7. l \in 0..size /\ fits(l)
  BY <1>5, <1>6
<1>8. PICK i : i = CHOOSE j \in 0..size : fits(j)
  OBVIOUS
<1>9. i \in 0..size /\ fits(i)
  <2> HIDE DEF fits
  <2> QED
    BY <1>7, <1>8
<1> QED
  BY <1>8, <1>9 DEF Suffices

\* A part is narrower by the radix, and there are at most so many.
LEMMA Narrower ==
  ASSUME NEW k \in Nat, k >= 2, NEW lo \in Nat, NEW right \in Nat, lo < right,
         NEW x \in Nat, right - lo <= k * x
  PROVE  Dist(lo, right, k) <= x /\ Last(lo, right, k) <= k - 1
<1>1. PICK w \in Nat : w = right - lo /\ w >= 1
  BY right - lo \in Nat
<1>2. PICK d \in Nat : d = (w + k - 1) \div k /\ 1 <= d
  BY <1>1, Shorter
<1>3. PICK m \in Nat : m = w + k - 1
  BY <1>1
<1>4. d * k <= m /\ m < d * k + k
  BY <1>2, <1>3, Divided
<1>5. d = Dist(lo, right, k)
  BY <1>1, <1>2 DEF Dist
<1>6. PICK y \in Nat : y = w - 1
  BY <1>1
<1>7. PICK q \in Nat : q = y \div d
  BY <1>2
<1>8. q * d <= y
  BY <1>2, <1>7, Divided
<1>9. q = Last(lo, right, k)
  BY <1>1, <1>5, <1>6, <1>7 DEF Last
<1>10. d <= x
  <2> SUFFICES ASSUME ~(d <= x) PROVE FALSE
    OBVIOUS
  <2>1. PICK c \in Nat : d = x + 1 + c
    BY d - (x + 1) \in Nat
  <2>2. (x + 1 + c) * k = k * x + k + c * k /\ c * k \in Nat /\ k * x \in Nat
    OBVIOUS
  <2> QED
    BY <1>1, <1>3, <1>4, <2>1, <2>2
<1>11. q <= k - 1
  <2> SUFFICES ASSUME ~(q <= k - 1) PROVE FALSE
    OBVIOUS
  <2>1. PICK c \in Nat : q = k + c
    BY q - k \in Nat
  <2>2. (k + c) * d = d * k + c * d /\ c * d \in Nat /\ d * k \in Nat
    OBVIOUS
  <2> QED
    BY <1>1, <1>3, <1>4, <1>6, <1>8, <2>1, <2>2
<1> QED
  BY <1>5, <1>9, <1>10, <1>11

LEMMA NoWider ==
  ASSUME NEW size \in Nat, NEW k \in Nat, k >= 2, NEW n \in Nat, NEW s \in Segs(size, n)
  PROVE  Narrow(s, k, n).right - Narrow(s, k, n).left <= Dist(s.left, s.right, k)
<1>1. PICK d \in Nat, p \in Nat :
           /\ d = Dist(s.left, s.right, k) /\ 1 <= d /\ d <= s.right - s.left
           /\ s.right - s.left # 1 => d < s.right - s.left
           /\ Part(s.left, d, n, p)
           /\ \A m \in Nat, q \in Nat : s.left <= m /\ Part(s.left, d, m, q) =>
                (m - s.left) \div d = q
           /\ Narrow(s, k, n) =
                [left |-> s.left + p * d, parent |-> s.left,
                 right |-> IF s.left + p * d + d > s.right THEN s.right ELSE s.left + p * d + d]
  BY NarrowIs
<1>2. PICK b \in Nat : b = p * d
  OBVIOUS
<1>3. s.left \in Nat /\ s.right \in Nat
  BY DEF Segs
<1> PICK t : t = Narrow(s, k, n)
  OBVIOUS
<1>4. t = [left |-> s.left + b, parent |-> s.left,
           right |-> IF s.left + b + d > s.right THEN s.right ELSE s.left + b + d]
  BY <1>1, <1>2
<1> QED
  BY <1>1, <1>3, <1>4

\* So the walk to a node ends after as many steps as there are levels.
LEMMA WalkIsShort ==
  ASSUME NEW size \in Nat, NEW k \in Nat, k >= 2, NEW n \in Nodes(size), NEW w,
         Walk(w, size, k, n), NEW r, PowersOf(r, size, k), NEW l, Suffices(l, r, size)
  PROVE  w[l].left = n
<1>0. n \in Nat /\ n < size /\ l \in Nat /\ l <= size /\ r[l] >= size
  BY DEF Nodes, Suffices
<1> DEFINE T == {i \in Nat : i <= l => w[i].left = n \/ w[i].right - w[i].left <= r[l - i]}
<1>1. 0 \in T
  BY <1>0 DEF Walk, Top
<1>2. ASSUME NEW i \in Nat, i \in T PROVE i + 1 \in T
  <2> SUFFICES ASSUME i + 1 <= l
               PROVE  w[i + 1].left = n \/ w[i + 1].right - w[i + 1].left <= r[l - (i + 1)]
    OBVIOUS
  <2>1. /\ w[i] \in Segs(size, n) /\ w[i + 1] \in Segs(size, n)
        /\ w[i].left = n => w[i + 1] = w[i]
        /\ w[i].left # n => w[i + 1] = Narrow(w[i], k, n)
    BY <1>0, WalkStep
  <2>2. CASE w[i].left = n
    BY <2>1, <2>2
  <2>3. CASE w[i].left # n
    <3> PICK s \in Segs(size, n) : s = w[i]
      BY <2>1
    <3>1. PICK j \in Nat : j = l - (i + 1)
      BY <1>0
    <3>2. j + 1 <= size /\ l - i = j + 1
      BY <1>0, <3>1
    <3>3. PICK x \in Nat : x = r[j] /\ r[j + 1] = k * x
      BY <3>2, PowerStep
    <3>4. s.right - s.left <= k * x
      <4>1. w[i].right - w[i].left <= r[l - i]
        <5>1. i <= l
          BY <1>0
        <5> QED
          BY <1>2, <2>3, <5>1
      <4> QED
        BY <3>2, <3>3, <4>1
    <3>5. s.left \in Nat /\ s.right \in Nat /\ s.left < s.right
      BY <1>0 DEF Segs
    <3>6. Dist(s.left, s.right, k) <= x
      BY <3>4, <3>5, Narrower
    <3>7. Narrow(s, k, n).right - Narrow(s, k, n).left <= Dist(s.left, s.right, k)
      BY <1>0, NoWider
    <3>8. w[i + 1] = Narrow(s, k, n)
      BY <2>1, <2>3
    <3>9. w[i + 1].left \in Nat /\ w[i + 1].right \in Nat
      BY <2>1 DEF Segs
    <3>10. Dist(s.left, s.right, k) \in Nat
      <4>1. \E d, q \in Nat : Cut(s.left, s.right, k, d, q)
        BY <3>5, Cuts
      <4> QED
        BY <4>1 DEF Cut
    <3> QED
      BY <3>1, <3>3, <3>6, <3>7, <3>8, <3>9, <3>10
  <2> QED
    BY <2>2, <2>3
<1> HIDE DEF T
<1>3. l \in T
  BY <1>0, <1>1, <1>2, Induction
<1>4. w[l].left = n \/ w[l].right - w[l].left <= 1
  BY <1>0, <1>3 DEF T, PowersOf
<1>5. w[l] \in Segs(size, n)
  BY <1>0, l \in 0..size DEF Walk
<1> QED
  BY <1>0, <1>4, <1>5 DEF Segs

\* The ancestors of a node of the k-nomial tree start the segments on its way.
Way(w, l) == {w[i].left : i \in 0..l}

LEMMA WayUp ==
  ASSUME NEW size \in Nat, NEW k \in Nat, k >= 2, NEW c \in Nodes(size), NEW w,
         Walk(w, size, k, c), KnomialSegment(size, k, c) = w[size],
         NEW l \in Nat, l <= size, w[l].left = c,
         NEW a \in Way(w, l), a # 0
  PROVE  KnomialParent(size, k, a) \in Way(w, l)
<1>0. c \in Nat /\ c < size
  BY DEF Nodes
<1>1. PICK i \in 0..l : a = w[i].left
  BY DEF Way
<1>2. w[i] \in Segs(size, c) /\ i \in Nat /\ i <= l /\ i <= size
  BY i \in 0..size DEF Walk
<1>3. a \in Nat /\ a <= c /\ a < size /\ a \in Nodes(size)
  BY <1>0, <1>1, <1>2 DEF Segs, Nodes
<1>4. PICK v : Walk(v, size, k, a) /\ KnomialSegment(size, k, a) = v[size]
  BY <1>3, Walks
<1>5. \E m \in Nat : /\ m <= l /\ w[m].left = a /\ v[size].parent = w[m].parent
                     /\ \A j \in Nat : j < m => w[j].left # a
  <2>1. CASE a = c
    <3>1. PICK m \in Nat : m <= l /\ w[m].left = a /\ \A j \in Nat : j < m => w[j].left # a
      BY <2>1, FirstTime
    <3>2. Onward(w[m], w[size], c, m < size)
      BY <1>0, <3>1, m <= size, WalkOn
    <3>3. v[size] = w[size]
      BY <1>4, <2>1
    <3> QED
      BY <2>1, <3>1, <3>2, <3>3 DEF Onward
  <2>2. CASE a # c
    <3>1. a < c
      BY <1>0, <1>3, <2>2
    <3>2. PICK m \in Nat : /\ m <= i /\ w[m].left = a /\ v[size] = w[m]
                           /\ \A j \in Nat : j < m => w[j].left # a
      BY <1>1, <1>2, <1>3, <1>4, <3>1, SegmentOfParent
    <3> QED
      BY <1>2, <3>2
  <2> QED
    BY <2>1, <2>2
<1>6. PICK m \in Nat : /\ m <= l /\ w[m].left = a /\ v[size].parent = w[m].parent
                       /\ \A j \in Nat : j < m => w[j].left # a
  BY <1>5
<1>7. w[0].left = 0
  BY DEF Walk, Top
<1>8. PICK j \in Nat : m = j + 1
  BY <1>6, <1>7, m # 0, m - 1 \in Nat
<1>9. j + 1 <= size /\ j < m /\ j \in 0..l
  BY <1>6, <1>8
<1>10. w[j].left # c
  <2>1. w[j].left # a
    BY <1>6, <1>9
  <2>2. w[j].left = c => w[j + 1] = w[j]
    BY <1>0, <1>9, WalkStep
  <2> QED
    BY <1>6, <1>8, <2>1, <2>2
<1>11. Inside(w[j], w[j + 1], c)
  BY <1>0, <1>9, <1>10, WalkStep
<1>12. v[size].parent = w[j].left
  BY <1>6, <1>8, <1>11 DEF Inside
<1>13. KnomialParent(size, k, a) = v[size].parent
  BY <1>4 DEF KnomialParent
<1> QED
  BY <1>9, <1>12, <1>13 DEF Way

LEMMA ImageIsFinite ==
  ASSUME NEW S, IsFiniteSet(S), NEW f, DOMAIN f = S, NEW T, T = {f[x] : x \in S}
  PROVE  IsFiniteSet(T) /\ Cardinality(T) <= Cardinality(S) /\ Cardinality(T) \in Nat
<1> PICK g : g = [x \in S |-> f[x]]
  OBVIOUS
<1>1. g \in Surjection(S, T)
  BY DEF Surjection
<1> QED
  BY <1>1, FS_Surjection, FS_CardinalityType

LEMMA ZeroIsRoot ==
  ASSUME NEW size \in Nat, NEW k \in Nat, k >= 2, 0 \in Nodes(size)
  PROVE  KnomialParent(size, k, 0) = NoNode
<1>1. KnomialParent(size, k, 0) = [n \in Nodes(size) |-> KnomialParent(size, k, n)][0]
  OBVIOUS
<1>2. [n \in Nodes(size) |-> KnomialParent(size, k, n)][0] = NoNode
  BY KnomialViews DEF Unrotated
<1> QED
  BY <1>1, <1>2

\* So there are no more of them than levels, the node itself not counted.
LEMMA FewAncestors ==
  ASSUME NEW size \in Nat, NEW k \in Nat, k >= 2, NEW root \in Nodes(size),
         NEW n \in Nodes(size), NEW r, PowersOf(r, size, k), NEW l, Suffices(l, r, size),
         NEW Q, Q = [x \in Nodes(size) |-> KnomialParentRoot(size, root, k, x)],
         NEW rank, Falls(size, Q, rank)
  PROVE  Cardinality(Ancestors(size, Q, n)) - 1 <= l
<1> PICK c : c = FromRoot(size, root, n)
  OBVIOUS
<1>1. c \in Nodes(size) /\ ToRoot(size, root, c) = n
  BY Rotation
<1>2. PICK w : Walk(w, size, k, c) /\ KnomialSegment(size, k, c) = w[size]
  BY <1>1, Walks
<1>3. l \in Nat /\ l <= size /\ w[l].left = c
  BY <1>1, <1>2, WalkIsShort DEF Suffices
<1> DEFINE g == [i \in 0..l |-> ToRoot(size, root, w[i].left)]
           A == {g[i] : i \in 0..l}
<1>4. Way(w, l) \subseteq Nodes(size)
  <2> SUFFICES ASSUME NEW i \in 0..l PROVE w[i].left \in Nodes(size)
    BY DEF Way
  <2>1. w[i] \in Segs(size, c)
    BY <1>2, <1>3, i \in 0..size DEF Walk
  <2> QED
    BY <1>1, <2>1 DEF Segs, Nodes
<1>5. A = {ToRoot(size, root, a) : a \in Way(w, l)}
  BY DEF Way
<1>6. n \in A
  <2>1. c \in Way(w, l)
    BY <1>3, l \in 0..l DEF Way
  <2> QED
    BY <1>1, <1>5, <2>1
<1> HIDE DEF A, g
<1>7. Closed(Q, A)
  <2> SUFFICES ASSUME NEW b \in A, Q[b] # NoNode PROVE Q[b] \in A
    BY DEF Closed
  <2>1. PICK a \in Way(w, l) : b = ToRoot(size, root, a)
    BY <1>5
  <2>2. a \in Nodes(size)
    BY <1>4
  <2>3. b \in Nodes(size) /\ FromRoot(size, root, b) = a
    BY <2>1, <2>2, Rotation
  <2>4. Q[b] = RootedParent(size, root, KnomialParent(size, k, a))
    BY <2>3 DEF KnomialParentRoot
  <2>5. KnomialParent(size, k, a) # NoNode /\ Q[b] = ToRoot(size, root, KnomialParent(size, k, a))
    BY <2>4 DEF RootedParent
  <2>6. a # 0
    BY <2>2, <2>5, ZeroIsRoot
  <2>7. KnomialParent(size, k, a) \in Way(w, l)
    BY <1>1, <1>2, <1>3, <2>6, WayUp
  <2> QED
    BY <1>5, <2>5, <2>7
<1>8. Ancestors(size, Q, n) \subseteq A
  BY <1>6, <1>7, Least
<1>9. IsFiniteSet(A) /\ Cardinality(A) <= l + 1 /\ Cardinality(A) \in Nat
  <2>1. IsFiniteSet(0..l) /\ Cardinality(0..l) = l + 1
    BY <1>3, FS_Interval
  <2>2. DOMAIN g = 0..l
    BY DEF g
  <2>3. IsFiniteSet(A) /\ Cardinality(A) <= Cardinality(0..l) /\ Cardinality(A) \in Nat
    BY <2>1, <2>2, ImageIsFinite DEF A
  <2> QED
    BY <2>1, <2>3
<1>10. IsFiniteSet(Ancestors(size, Q, n)) /\ Cardinality(Ancestors(size, Q, n)) <= Cardinality(A)
  BY <1>8, <1>9, FS_Subset
<1>11. Cardinality(Ancestors(size, Q, n)) \in Nat
  BY <1>10, FS_CardinalityType
<1> QED
  BY <1>3, <1>9, <1>10, <1>11

\* A node has at most k - 1 children a level.
Few(s, k, l) == IsFiniteSet(s) /\ Cardinality(s) <= (k - 1) * l

LEMMA FewOthers ==
  ASSUME NEW k \in Nat, k >= 2, NEW lo \in Nat, NEW right \in Nat, NEW q \in Nat,
         q = Last(lo, right, k), q <= k - 1
  PROVE  IsFiniteSet(Others(lo, right, k)) /\ Cardinality(Others(lo, right, k)) <= k - 1
<1> DEFINE g == [j \in 1..q |-> lo + Dist(lo, right, k) * j]
<1>1. Others(lo, right, k) = {g[j] : j \in 1..q}
  BY DEF Others
<1>2. IsFiniteSet(1..q) /\ Cardinality(1..q) = q
  BY FS_Interval
<1>3. DOMAIN g = 1..q
  OBVIOUS
<1> HIDE DEF g
<1> QED
  BY <1>1, <1>2, <1>3, ImageIsFinite

LEMMA FewUnder ==
  ASSUME NEW size \in Nat, NEW k \in Nat, k >= 2, NEW lo \in Nat, NEW top \in Nat,
         NEW u, Under(u, k, lo, top), NEW r, PowersOf(r, size, k),
         NEW l \in Nat, l <= size, lo < top, top - lo <= r[l]
  PROVE  Few(u[top], k, l)
<1> DEFINE Fits(right, i) == lo < right /\ right <= top /\ right - lo <= r[i]
           T == {i \in Nat : i <= size => \A right \in Nat : Fits(right, i) => Few(u[right], k, i)}
<1>1. ASSUME NEW right \in Nat, lo < right, right <= top
      PROVE  u[right] = Row(lo, right, k, u)
  BY <1>1 DEF Under
<1>2. ASSUME NEW right \in Nat, NEW i \in Nat, Last(lo, right, k) = 0, lo < right, right <= top
      PROVE  Few(u[right], k, i)
  <2>1. u[right] = {}
    BY <1>1, <1>2 DEF Row
  <2>2. (k - 1) * i \in Nat
    BY k - 1 \in Nat
  <2> QED
    BY <2>1, <2>2, FS_EmptySet DEF Few
<1>3. 0 \in T
  <2> SUFFICES ASSUME NEW right \in Nat, Fits(right, 0) PROVE Few(u[right], k, 0)
    OBVIOUS
  <2>1. right = lo + 1
    BY DEF PowersOf
  <2>2. Last(lo, right, k) = 0
    <3>1. PICK d, q \in Nat : Cut(lo, right, k, d, q)
      BY Cuts
    <3> QED
      BY <2>1, <3>1 DEF Cut
  <2> QED
    BY <1>2, <2>2
<1>4. ASSUME NEW i \in Nat, i \in T PROVE i + 1 \in T
  <2> SUFFICES ASSUME i + 1 <= size, NEW right \in Nat, Fits(right, i + 1)
               PROVE  Few(u[right], k, i + 1)
    OBVIOUS
  <2>1. PICK d, q \in Nat : Cut(lo, right, k, d, q)
    BY Cuts
  <2>2. CASE q = 0
    <3>1. Last(lo, right, k) = 0 /\ lo < right /\ right <= top /\ i + 1 \in Nat
      BY <2>1, <2>2 DEF Cut
    <3> QED
      BY <1>2, <3>1
  <2>3. CASE q # 0
    <3>1. PICK x \in Nat : x = r[i] /\ r[i + 1] = k * x
      BY PowerStep
    <3>2. Dist(lo, right, k) <= x /\ Last(lo, right, k) <= k - 1
      BY <3>1, Narrower
    <3>3. d = Dist(lo, right, k) /\ q = Last(lo, right, k) /\ 1 <= d /\ d < right - lo
      BY <2>1, <2>3 DEF Cut
    <3>4. Fits(lo + d, i) /\ lo + d \in Nat /\ i <= size
      BY <3>1, <3>2, <3>3
    <3>5. Few(u[lo + d], k, i)
      BY <1>4, <3>4
    <3>6. u[right] = Others(lo, right, k) \cup u[lo + d]
      BY <1>1, <2>3, <3>3 DEF Row
    <3> PICK A : A = Others(lo, right, k)
      OBVIOUS
    <3> PICK B : B = u[lo + d]
      OBVIOUS
    <3>7. IsFiniteSet(A) /\ Cardinality(A) <= k - 1
      BY <3>2, <3>3, FewOthers
    <3>8. IsFiniteSet(B) /\ Cardinality(B) <= (k - 1) * i
      BY <3>5 DEF Few
    <3>9. /\ IsFiniteSet(A \cup B)
          /\ Cardinality(A \cup B) = Cardinality(A) + Cardinality(B) - Cardinality(A \cap B)
      BY <3>7, <3>8, FS_Union
    <3>10. IsFiniteSet(A \cap B)
      BY <3>7, FS_Subset
    <3>11. /\ Cardinality(A) \in Nat /\ Cardinality(B) \in Nat /\ Cardinality(A \cap B) \in Nat
           /\ Cardinality(A \cup B) \in Nat
      BY <3>7, <3>8, <3>9, <3>10, FS_CardinalityType
    <3>12. PICK y \in Nat : y = k - 1
      OBVIOUS
    <3>13. y * (i + 1) = y * i + y /\ y * i \in Nat
      OBVIOUS
    <3>14. Cardinality(A \cup B) <= y * (i + 1)
      BY <3>7, <3>8, <3>9, <3>11, <3>12, <3>13
    <3> QED
      BY <3>6, <3>9, <3>12, <3>14 DEF Few
  <2> QED
    BY <2>2, <2>3
<1> HIDE DEF T
<1>5. l \in T
  BY <1>3, <1>4, Induction
<1> QED
  BY <1>5 DEF T

LEMMA FewChildren ==
  ASSUME NEW size \in Nat, NEW k \in Nat, k >= 2, NEW root \in Nodes(size),
         NEW n \in Nodes(size), NEW r, PowersOf(r, size, k), NEW l, Suffices(l, r, size)
  PROVE  Cardinality(KnomialChildrenRoot(size, root, k, n)) <= (k - 1) * l
<1> PICK c : c = FromRoot(size, root, n)
  OBVIOUS
<1>1. c \in Nodes(size) /\ c \in Nat /\ size \in Nat
  BY Rotation DEF Nodes
<1>2. PICK w : Walk(w, size, k, c) /\ KnomialSegment(size, k, c) = w[size]
  BY <1>1, Walks
<1>3. w[size] \in Segs(size, c) /\ w[size].left = c
  BY <1>1, <1>2, WalkEnds
<1>4. PICK top \in Nat : top = w[size].right /\ c < top /\ top <= size
  BY <1>3 DEF Segs
<1>5. PICK u : Under(u, k, c, top) /\ KnomialChildren(size, k, c) = u[top]
  BY <1>1, <1>2, <1>3, <1>4, ChildrenAre
<1>6. l \in Nat /\ l <= size /\ r[l] \in Nat /\ r[l] >= size
  BY DEF Suffices, PowersOf
<1>7. Few(u[top], k, l)
  <2>1. top - c <= r[l]
    BY <1>1, <1>4, <1>6
  <2> QED
    BY <1>1, <1>4, <1>5, <1>6, <2>1, FewUnder
<1> PICK S : S = u[top]
  OBVIOUS
<1> DEFINE g == [x \in S |-> ToRoot(size, root, x)]
           D == {g[x] : x \in S}
<1>8. KnomialChildrenRoot(size, root, k, n) = D
  BY <1>5 DEF KnomialChildrenRoot, RootedChildren
<1>9. DOMAIN g = S
  OBVIOUS
<1>10. IsFiniteSet(S) /\ Cardinality(S) <= (k - 1) * l
  BY <1>7 DEF Few
<1> HIDE DEF g
<1>11. Cardinality(D) <= Cardinality(S) /\ Cardinality(D) \in Nat
  BY <1>9, <1>10, ImageIsFinite
<1>12. Cardinality(S) \in Nat
  BY <1>10, FS_CardinalityType
<1>13. PICK z \in Nat : z = (k - 1) * l
  BY <1>6, k - 1 \in Nat
<1> QED
  BY <1>8, <1>10, <1>11, <1>12, <1>13

------------------------------------------------------------------------------
\* The trees are what the barriers take them for.

LEMMA IntMaxIs == IntMax \in Nat /\ 2^31 = IntMax + 1
<1>1. 2^1 = 2
  <2>1. 0 \in Nat /\ 0 + 1 = 1
    OBVIOUS
  <2> QED
    BY <2>1, NoPower, Powers
<1>2. 2^2 = 4
  <2>1. 1 \in Nat /\ 1 + 1 = 2
    OBVIOUS
  <2> QED
    BY <1>1, <2>1, Powers
<1>3. 2^4 = 16
  <2>1. 2 \in Nat /\ 2 + 2 = 4
    OBVIOUS
  <2> QED
    BY <1>2, <2>1, PowerSum, SMT
<1>4. 2^8 = 256
  <2>1. 4 \in Nat /\ 4 + 4 = 8
    OBVIOUS
  <2> QED
    BY <1>3, <2>1, PowerSum, SMT
<1>5. 2^16 = 65536
  <2>1. 8 \in Nat /\ 8 + 8 = 16
    OBVIOUS
  <2> QED
    BY <1>4, <2>1, PowerSum, SMT
<1>6. 2^24 = 16777216
  <2>1. 16 \in Nat /\ 8 \in Nat /\ 16 + 8 = 24
    OBVIOUS
  <2> QED
    BY <1>4, <1>5, <2>1, PowerSum, SMT
<1>7. 2^28 = 268435456
  <2>1. 24 \in Nat /\ 4 \in Nat /\ 24 + 4 = 28
    OBVIOUS
  <2> QED
    BY <1>3, <1>6, <2>1, PowerSum, SMT
<1>8. 2^30 = 1073741824
  <2>1. 28 \in Nat /\ 2 \in Nat /\ 28 + 2 = 30
    OBVIOUS
  <2> QED
    BY <1>2, <1>7, <2>1, PowerSum, SMT
<1> QED
  <2>1. 30 \in Nat /\ 30 + 1 = 31
    OBVIOUS
  <2> QED
    BY <1>8, <2>1, Powers, SMT DEF IntMax

LEMMA IntsSuffice ==
  ASSUME NEW size \in Nat, NEW max \in Nat, size <= max, NEW k \in Nat, k >= 1,
         max * k <= IntMax
  PROVE  size < 2^31
<1>1. PICK c \in Nat : k = 1 + c
  BY k - 1 \in Nat
<1>2. max * (1 + c) = max + max * c /\ max * c \in Nat
  OBVIOUS
<1> QED
  BY <1>1, <1>2, IntMaxIs, SMT

\* The root is 0: the indices are not rotated.
LEMMA PlainTree ==
  ASSUME NEW size \in Nat \ {0}, NEW P, NEW C, Unrotated(size, P, C),
         C = [n \in Nodes(size) |-> C[n]]
  PROVE  TreeOver(Nodes(size), 0, [n \in 1..(size - 1) |-> P[n]], C, Subtree(size, P))
<1> PICK N : N = Nodes(size)
  OBVIOUS
<1> PICK rank : rank = [n \in N |-> n]
  OBVIOUS
<1> PICK t : t = [parent |-> P, children |-> C]
  OBVIOUS
<1>1. /\ P \in [N -> N \cup {NoNode}]
      /\ \A n \in N : (P[n] # NoNode => P[n] < n) /\ (P[n] = NoNode <=> n = 0)
      /\ \A n, c \in N : c \in C[n] <=> P[c] = n
      /\ \A n \in N : C[n] \subseteq N
  BY DEF Unrotated
<1>2. 0 \in N /\ \A n \in N : n \in Nat
  BY DEF Nodes
<1>3. Falls(size, P, rank)
  BY <1>1 DEF Falls
<1>4. Agree(size, P, C, 0)
  BY <1>1 DEF Agree
<1>5. t.parent = P /\ t.children = C
  OBVIOUS
<1>6. IsTree(t, size, 0)
  <2>1. Ranked(t, size, 0)
    BY <1>3, <1>4, <1>5 DEF Ranked
  <2> QED
    BY <1>2, <2>1, RankedTree
<1> PICK below : below = Subtree(size, P)
  OBVIOUS
<1>7. /\ below[0] = N
      /\ \A n \in N : below[n] = {n} \cup UNION {below[c] : c \in C[n]}
  BY <1>5, <1>6 DEF IsTree, Nodes
<1>8. below \in [N -> SUBSET N]
  BY DEF Subtree, Nodes
<1>9. IsFiniteSet(N)
  <2>1. 0 \in Int /\ size - 1 \in Int
    OBVIOUS
  <2> QED
    BY <2>1, FS_Interval DEF Nodes
<1> PICK Q : Q = [n \in 1..(size - 1) |-> P[n]]
  OBVIOUS
<1>10. 1..(size - 1) = N \ {0}
  BY DEF Nodes
<1>11. Q \in [N \ {0} -> N]
  BY <1>1, <1>10
<1>12. ASSUME NEW p \in N, NEW c \in N PROVE c \in C[p] <=> c # 0 /\ Q[c] = p
  <2>1. c # 0 => Q[c] = P[c]
    BY <1>10
  <2>2. p # NoNode
    BY <1>2 DEF NoNode
  <2> QED
    BY <1>1, <2>1, <2>2
<1>13. ASSUME NEW p \in N, NEW c \in N, c \in C[p] PROVE p # c /\ p \notin C[c]
  <2>1. p # NoNode /\ c # NoNode
    BY <1>2 DEF NoNode
  <2>2. p < c
    BY <1>1, <1>13, <2>1
  <2>3. p \in C[c] => c < p
    BY <1>1, <2>1
  <2> QED
    BY <1>2, <2>2, <2>3
<1>14. C \in [N -> SUBSET N]
  BY <1>1
<1>15. TreeOver(N, 0, Q, C, below)
  BY <1>2, <1>7, <1>8, <1>9, <1>11, <1>12, <1>13, <1>14 DEF TreeOver
<1> QED
  BY <1>15, Zenon

\* The trees the barriers run over, of any size and radix whose node indices fit a C
\* int: the assumption every other theorem of this module rests on (TreeAssumption)
\* holds for what get_node_info_binomial, _complete and _knomial compute, each node
\* on its own (trees.c:34-70,95-121,181-200).
THEOREM BarrierTrees ==
  ASSUME NEW size \in Nat \ {0}, NEW radix \in Nat \ {0, 1}, size * radix <= IntMax
  PROVE  LET nodes == 0..(size - 1)
             others == 1..(size - 1)
         IN  /\ TreeOver(nodes, 0, [n \in others |-> BinomialParent(n)],
                         [n \in nodes |-> BinomialChildren(size, n)],
                         Subtree(size, [n \in nodes |-> BinomialParent(n)]))
             /\ TreeOver(nodes, 0, [n \in others |-> CompleteParent(radix, n)],
                         [n \in nodes |-> CompleteChildren(size, radix, n)],
                         Subtree(size, [n \in nodes |-> CompleteParent(radix, n)]))
             /\ TreeOver(nodes, 0, [n \in others |-> KnomialParent(size, radix, n)],
                         [n \in nodes |-> KnomialChildren(size, radix, n)],
                         Subtree(size, [n \in nodes |-> KnomialParent(size, radix, n)]))
<1> DEFINE nodes == 0..(size - 1)
           others == 1..(size - 1)
<1>0. nodes = Nodes(size) /\ \A n \in others : n \in nodes
  BY DEF Nodes
<1>1. size \in Nat /\ size < 2^31 /\ radix \in Nat /\ radix >= 2 /\ radix >= 1
  <2>1. radix >= 1 /\ size <= size /\ size \in Nat /\ radix \in Nat
    OBVIOUS
  <2>2. size < 2^31
    BY <2>1, IntsSuffice
  <2> QED
    BY <2>1, <2>2
<1>2. ASSUME NEW P, NEW C, Unrotated(size, P, C), C = [n \in nodes |-> C[n]]
      PROVE  TreeOver(nodes, 0, [n \in others |-> P[n]], C, Subtree(size, P))
  BY <1>0, <1>2, PlainTree
<1> HIDE DEF nodes, others
<1>3. TreeOver(nodes, 0, [n \in others |-> BinomialParent(n)],
               [n \in nodes |-> BinomialChildren(size, n)],
               Subtree(size, [n \in nodes |-> BinomialParent(n)]))
  <2> PICK P : P = [n \in nodes |-> BinomialParent(n)]
    OBVIOUS
  <2> PICK C : C = [n \in nodes |-> BinomialChildren(size, n)]
    OBVIOUS
  <2>1. Unrotated(size, P, C)
    BY <1>0, <1>1, BinomialViews
  <2>2. C = [n \in nodes |-> C[n]]
    OBVIOUS
  <2>3. [n \in others |-> P[n]] = [n \in others |-> BinomialParent(n)]
    BY <1>0
  <2>4. TreeOver(nodes, 0, [n \in others |-> P[n]], C, Subtree(size, P))
    BY <1>2, <2>1, <2>2
  <2> QED
    BY <2>3, <2>4, Zenon
<1>4. TreeOver(nodes, 0, [n \in others |-> CompleteParent(radix, n)],
               [n \in nodes |-> CompleteChildren(size, radix, n)],
               Subtree(size, [n \in nodes |-> CompleteParent(radix, n)]))
  <2> PICK P : P = [n \in nodes |-> CompleteParent(radix, n)]
    OBVIOUS
  <2> PICK C : C = [n \in nodes |-> CompleteChildren(size, radix, n)]
    OBVIOUS
  <2>1. Unrotated(size, P, C)
    BY <1>0, <1>1, CompleteViews
  <2>2. C = [n \in nodes |-> C[n]]
    OBVIOUS
  <2>3. [n \in others |-> P[n]] = [n \in others |-> CompleteParent(radix, n)]
    BY <1>0
  <2>4. TreeOver(nodes, 0, [n \in others |-> P[n]], C, Subtree(size, P))
    BY <1>2, <2>1, <2>2
  <2> QED
    BY <2>3, <2>4, Zenon
<1>5. TreeOver(nodes, 0, [n \in others |-> KnomialParent(size, radix, n)],
               [n \in nodes |-> KnomialChildren(size, radix, n)],
               Subtree(size, [n \in nodes |-> KnomialParent(size, radix, n)]))
  <2> PICK P : P = [n \in nodes |-> KnomialParent(size, radix, n)]
    OBVIOUS
  <2> PICK C : C = [n \in nodes |-> KnomialChildren(size, radix, n)]
    OBVIOUS
  <2>1. Unrotated(size, P, C)
    BY <1>0, <1>1, KnomialViews
  <2>2. C = [n \in nodes |-> C[n]]
    OBVIOUS
  <2>3. [n \in others |-> P[n]] = [n \in others |-> KnomialParent(size, radix, n)]
    BY <1>0
  <2>4. TreeOver(nodes, 0, [n \in others |-> P[n]], C, Subtree(size, P))
    BY <1>2, <2>1, <2>2
  <2> QED
    BY <2>3, <2>4, Zenon
<1> QED
  BY <1>3, <1>4, <1>5 DEF nodes, others

LEMMA RootedRanked ==
  ASSUME NEW size \in Nat, NEW root \in Nodes(size), NEW k \in Nat \ {0, 1},
         NEW max \in Nat, size <= max, max * k <= IntMax, NEW t \in TreesOf(size, root, k)
  PROVE  Ranked(t, size, root)
<1>1. k \in Nat /\ k >= 2 /\ k >= 1 /\ 0..(size - 1) = Nodes(size)
  BY DEF Nodes
<1>2. size < 2^31
  BY <1>1, IntsSuffice
<1>3. CASE /\ t.parent = [n \in Nodes(size) |-> BinomialParentRoot(size, root, n)]
           /\ t.children = [n \in Nodes(size) |-> BinomialChildrenRoot(size, root, n)]
  BY <1>2, <1>3, BinomialTree
<1>4. CASE /\ t.parent = [n \in Nodes(size) |-> KnomialParentRoot(size, root, k, n)]
           /\ t.children = [n \in Nodes(size) |-> KnomialChildrenRoot(size, root, k, n)]
  BY <1>1, <1>4, KnomialTree
<1>5. CASE /\ t.parent = [n \in Nodes(size) |-> CompleteParentRoot(size, root, k, n)]
           /\ t.children = [n \in Nodes(size) |-> CompleteChildrenRoot(size, root, k, n)]
  BY <1>1, <1>5, CompleteTree
<1> QED
  BY <1>1, <1>3, <1>4, <1>5 DEF TreesOf

\* The trees the broadcasts run over, from any root: what TreeBroadcast assumes of its
\* tree.  A node is a child of its parent only, and whatever goes from the root down the
\* edges comes to everybody (trees.c:72-93,123-178,202-242).
THEOREM BroadcastTrees ==
  ASSUME NEW size \in Nat, NEW root \in 0..(size - 1), NEW radix \in Nat \ {0, 1},
         size * radix <= IntMax, NEW t \in TreesOf(size, root, radix)
  PROVE  LET nodes == 0..(size - 1)
             parent == [c \in nodes \ {root} |-> t.parent[c]]
         IN  /\ parent \in [nodes \ {root} -> nodes]
             /\ \A p \in nodes : t.children[p] \subseteq nodes
             /\ \A p, c \in nodes : c \in t.children[p] <=> c # root /\ parent[c] = p
             /\ \A S \in SUBSET nodes :
                  (root \in S /\ \A c \in nodes \ {root} : parent[c] \in S => c \in S) => S = nodes
<1> PICK nodes : nodes = 0..(size - 1)
  OBVIOUS
<1> PICK parent : parent = [c \in nodes \ {root} |-> t.parent[c]]
  OBVIOUS
<1>1. nodes = Nodes(size) /\ root \in Nodes(size)
  BY DEF Nodes
<1>2. Ranked(t, size, root)
  <2>1. size <= size
    OBVIOUS
  <2> QED
    BY <1>1, <2>1, RootedRanked
<1>3. PICK rank : Falls(size, t.parent, rank)
  BY <1>2 DEF Ranked
<1>4. /\ t.parent \in [nodes -> nodes \cup {NoNode}]
      /\ \A n, c \in nodes : c \in t.children[n] <=> t.parent[c] = n
      /\ \A n \in nodes : t.children[n] \subseteq nodes
      /\ \A n \in nodes : t.parent[n] = NoNode <=> n = root
  BY <1>1, <1>2, <1>3 DEF Ranked, Falls, Agree
<1>5. parent \in [nodes \ {root} -> nodes]
  BY <1>4
<1>6. ASSUME NEW p \in nodes, NEW c \in nodes
      PROVE  c \in t.children[p] <=> c # root /\ parent[c] = p
  <2>1. p # NoNode
    BY <1>1 DEF Nodes, NoNode
  <2> QED
    BY <1>4, <2>1
<1>7. ASSUME NEW S \in SUBSET nodes, root \in S,
             \A c \in nodes \ {root} : parent[c] \in S => c \in S
      PROVE  S = nodes
  <2>1. \A c \in Nodes(size) \ {root} : t.parent[c] \in S => c \in S
    BY <1>1, <1>7
  <2> QED
    BY <1>1, <1>2, <1>7, <2>1, RankedSpan
<1> QED
  BY <1>4, <1>5, <1>6, <1>7

\* The views of the nodes agree on one tree, for each of the three trees, every size and
\* radix up to the bounds, and every root (trees.c:34-70,123-178,202-242).
THEOREM Views == Spec => []ViewsMakeATree
<1>1. ASSUME NEW input \in Inputs, NEW t \in TreesOf(input[1], input[2], input[3])
      PROVE  IsTree(t, input[1], input[2])
  <2>1. PICK size \in 1..MaxSize : input \in {size} \X (0..(size - 1)) \X Radices
    BY DEF Inputs
  <2>2. PICK root \in 0..(size - 1), k \in Radices : input = <<size, root, k>>
    BY <2>1
  <2>3. /\ size \in Nat /\ root \in Nodes(size) /\ k \in Nat \ {0, 1}
        /\ MaxSize \in Nat /\ size <= MaxSize /\ MaxSize * k <= IntMax
    BY TreesAssumption DEF Nodes
  <2>4. t \in TreesOf(size, root, k)
    BY <2>2
  <2>5. Ranked(t, size, root)
    BY <2>3, <2>4, RootedRanked
  <2> QED
    BY <2>2, <2>3, <2>5, RankedTree
<1>2. NotTrees = {}
  BY <1>1 DEF NotTrees
<1>3. ViewsMakeATree
  BY <1>2 DEF ViewsMakeATree
<1> QED
  BY <1>3, PTL

\* The k-nomial trees have at most as many levels as the powers of the radix need to
\* come to their size, and at most radix - 1 children a level, for every size and radix
\* up to the bounds, and every root (trees.c:123-178).
THEOREM Shape == Spec => []KnomialShape
<1>1. ASSUME NEW size \in Nat, NEW root \in Nodes(size), NEW k \in Nat, k >= 2
      PROVE  IsKnomial(size, root, k)
  <2>1. PICK r : r = Room(size, k)
    OBVIOUS
  <2>2. PowersOf(r, size, k)
    BY <2>1, RoomIs
  <2> DEFINE level(i) == r[i] >= size /\ \A m \in 0..(i - 1) : r[m] < size
  <2>3. PICK l : l = CHOOSE i \in 0..size : level(i)
    OBVIOUS
  <2>4. Suffices(l, r, size)
    BY <1>1, <2>2, <2>3, EnoughLevels
  <2>5. PICK Q : Q = [x \in Nodes(size) |-> KnomialParentRoot(size, root, k, x)]
    OBVIOUS
  <2>6. PICK rank : Falls(size, Q, rank)
    <3> PICK C : C = [x \in Nodes(size) |-> KnomialChildrenRoot(size, root, k, x)]
      OBVIOUS
    <3> PICK t : t = [parent |-> Q, children |-> C]
      OBVIOUS
    <3>1. t.parent = Q /\ t.children = C
      OBVIOUS
    <3>2. Ranked(t, size, root)
      BY <1>1, <2>5, <3>1, KnomialTree
    <3> QED
      BY <3>1, <3>2 DEF Ranked
  <2>7. ASSUME NEW n \in Nodes(size)
        PROVE  /\ Cardinality(Ancestors(size, Q, n)) - 1 <= l
               /\ Cardinality(KnomialChildrenRoot(size, root, k, n)) <= (k - 1) * l
    BY <1>1, <2>2, <2>4, <2>5, <2>6, <2>7, FewAncestors, FewChildren
  <2> HIDE DEF level
  <2> QED
    BY <2>1, <2>3, <2>5, <2>7, Zenon DEF IsKnomial, Nodes, level
<1>2. ASSUME NEW input \in Inputs PROVE IsKnomial(input[1], input[2], input[3])
  <2>1. PICK size \in 1..MaxSize : input \in {size} \X (0..(size - 1)) \X Radices
    BY DEF Inputs
  <2>2. PICK root \in 0..(size - 1), k \in Radices : input = <<size, root, k>>
    BY <2>1
  <2>3. /\ size \in Nat /\ root \in Nodes(size) /\ k \in Nat \ {0, 1}
    BY TreesAssumption DEF Nodes
  <2>4. k \in Nat /\ k >= 2
    BY <2>3
  <2>5. IsKnomial(size, root, k)
    BY <1>1, <2>3, <2>4
  <2> QED
    BY <2>2, <2>5
<1>3. NotKnomial = {}
  BY <1>2 DEF NotKnomial
<1>4. KnomialShape
  BY <1>3 DEF KnomialShape
<1> QED
  BY <1>4, PTL

==============================================================================
