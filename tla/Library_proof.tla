----------------------------- MODULE Library_proof -----------------------------
(***************************************************************************)
(* For any job, any threads and any size of a block of slots: a context is *)
(* in one pair of hands; for any chain of splits, of teams with and        *)
(* without lost members, a number that was found is translated to that of  *)
(* the same PE; nobody is sent anything to what has been torn down, and at *)
(* the end nothing is left.                                                *)
(***************************************************************************)
EXTENDS Library, Sequences, WellFoundedInduction, TLAPS

------------------------------------------------------------------------------
\* What the maps of a team are worth, however it was made.

\* The two maps are each other's inverse, as far as a PE that has two numbers lets them;
\* a number that was found has the PE the program has asked for; a PE's own number, where
\* it has one, is its own.
WellMade(th) ==
  /\ th.nranks \in Nat /\ th.found \subseteq DOMAIN th.fwd
  /\ DOMAIN th.fwd \subseteq 0..(th.nranks - 1)
  /\ \A i \in th.found : th.fwd[i] = th.asked[i]
  /\ DOMAIN th.rev = {th.fwd[i] : i \in DOMAIN th.fwd}
  /\ \A w \in DOMAIN th.rev : th.rev[w] \in DOMAIN th.fwd /\ th.fwd[th.rev[w]] = w
Knows(th) == HasRank(th) => th.asked[shmemc_team_my_pe(0, th)] = 0

\* Numbers that are translated between well made teams, those of lost members included
LEMMA TranslatesTruly ==
  ASSUME NEW th, NEW uh, WellMade(th), WellMade(uh)
  PROVE  Sound(th, uh)
<1> SUFFICES ASSUME NEW i \in 0..(th.nranks - 1), NEW j,
                    j = shmemc_team_translate_pe(th, i, uh)
             PROVE  /\ j # -1 => j \in 0..(uh.nranks - 1)
                    /\ i \in th.found =>
                         /\ j \in uh.found => uh.asked[j] = th.asked[i]
                         /\ (\E m \in uh.found : uh.asked[m] = th.asked[i]) => j # -1
  BY DEF Sound
<1>1. -1 \notin DOMAIN uh.fwd /\ -1 \notin uh.found
  BY DEF WellMade
<1>2. ASSUME j # -1
      PROVE  /\ i \in DOMAIN th.fwd /\ th.fwd[i] \in DOMAIN uh.rev /\ j = uh.rev[th.fwd[i]]
  BY <1>2 DEF shmemc_team_translate_pe
<1>3. ASSUME j # -1 PROVE j \in 0..(uh.nranks - 1)
  BY <1>2, <1>3 DEF WellMade
<1>4. ASSUME i \in th.found, j \in uh.found PROVE uh.asked[j] = th.asked[i]
  BY <1>1, <1>2, <1>4 DEF WellMade
<1>5. ASSUME i \in th.found, NEW m \in uh.found, uh.asked[m] = th.asked[i] PROVE j # -1
  <2>1. i \in DOMAIN th.fwd /\ th.fwd[i] = uh.fwd[m] /\ m \in DOMAIN uh.fwd
    BY <1>5 DEF WellMade
  <2>2. th.fwd[i] \in DOMAIN uh.rev
    BY <2>1 DEF WellMade
  <2>3. j = uh.rev[th.fwd[i]]
    BY <2>1, <2>2 DEF shmemc_team_translate_pe
  <2> QED
    BY <1>1, <2>2, <2>3 DEF WellMade
<1> QED
  BY <1>3, <1>4, <1>5

\* A set of numbers that is not empty has a first one, and a bounded one a last.
LEMMA FirstIn ==
  ASSUME NEW T \in SUBSET Nat, T # {}
  PROVE  \E t \in T : \A u \in T : t <= u
<1>1. IsWellFoundedOn(OpToRel(<, Nat), Nat)
  BY NatLessThanWellFounded
<1>2. PICK t \in T : \A u \in T : ~ (<<u, t>> \in OpToRel(<, Nat))
  BY <1>1, WFMin
<1>3. \A u \in T : ~ (u < t)
  BY <1>2 DEF OpToRel
<1> QED
  BY <1>3

LEMMA LastIn ==
  ASSUME NEW n \in Nat, NEW S \in SUBSET (0..(n - 1)), S # {}
  PROVE  \E x \in S : \A y \in S : y <= x
<1> DEFINE T == {n - x : x \in S}
<1>1. T \in SUBSET Nat /\ T # {}
  <2>1. ASSUME NEW x \in S PROVE n - x \in Nat
    <3>1. x \in 0..(n - 1)
      OBVIOUS
    <3> QED
      BY <3>1
  <2> QED
    BY <2>1
<1>2. PICK t \in T : \A u \in T : t <= u
  <2> HIDE DEF T
  <2> QED
    BY <1>1, FirstIn
<1>3. PICK x \in S : t = n - x
  OBVIOUS
<1>4. ASSUME NEW y \in S PROVE y <= x
  <2>1. n - y \in T
    OBVIOUS
  <2>2. n - x <= n - y
    BY <1>2, <1>3, <2>1
  <2>3. x \in Int /\ y \in Int
    OBVIOUS
  <2> QED
    BY <2>2, <2>3
<1> QED
  BY <1>4

\* initialize_team_world
LEMMA WorldMade ==
  ASSUME NEW npes \in Nat \ {0}
  PROVE  WellMade(initialize_team_world(npes)) /\ Knows(initialize_team_world(npes))
<1> DEFINE th == initialize_team_world(npes)
           all == [i \in 0..(npes - 1) |-> i]
<1>1. /\ th.nranks = npes /\ th.fwd = all /\ th.rev = all /\ th.asked = all
      /\ th.name = "world" /\ th.found = 0..(npes - 1)
  BY DEF initialize_team_world, Team
<1>2. \A i \in 0..(npes - 1) : all[i] = i
  OBVIOUS
<1>3. WellMade(th)
  BY <1>1, <1>2 DEF WellMade
<1>4. Knows(th)
  BY <1>1, <1>2 DEF Knows, shmemc_team_my_pe
<1> QED
  BY <1>3, <1>4

\* initialize_team_shared, in PE 0
LEMMA SharedMade ==
  ASSUME NEW npes \in Nat \ {0}
  PROVE  WellMade(initialize_team_shared(0, npes)) /\ Knows(initialize_team_shared(0, npes))
<1> DEFINE th == initialize_team_shared(0, npes)
           fwd == peers(0, npes)
           last == IF NodeSize < npes THEN NodeSize - 1 ELSE npes - 1
<1>1. fwd = [i \in 0..last |-> i] /\ last \in Nat
  <2>1. (0 \div NodeSize) * NodeSize = 0
    <3>1. 0 \div NodeSize = 0
      BY NodeSizeAssumption
    <3> QED
      BY <3>1, NodeSizeAssumption
  <2>2. last \in Nat
    BY NodeSizeAssumption
  <2> QED
    BY <2>1, <2>2, NodeSizeAssumption DEF peers
<1>2. \A i \in DOMAIN fwd : fwd[i] = i /\ i \in 0..last
  BY <1>1
<1>3. (CHOOSE i \in DOMAIN fwd : i + 1 \notin DOMAIN fwd) = last
  <2>1. DOMAIN fwd = 0..last
    BY <1>1
  <2> QED
    BY <1>1, <2>1
<1>4. /\ th.nranks = last + 1 /\ th.fwd = fwd /\ th.asked = fwd /\ th.rev = BackTo(fwd)
      /\ th.name = "shared" /\ th.found = DOMAIN fwd
  BY <1>3 DEF initialize_team_shared, Team
<1>5. /\ DOMAIN BackTo(fwd) = {fwd[i] : i \in DOMAIN fwd}
      /\ \A w \in DOMAIN BackTo(fwd) : BackTo(fwd)[w] \in DOMAIN fwd /\ fwd[BackTo(fwd)[w]] = w
  BY DEF BackTo
<1>6. WellMade(th)
  BY <1>1, <1>2, <1>4, <1>5 DEF WellMade
<1>7. 0 \in DOMAIN BackTo(fwd)
  BY <1>1, <1>2, <1>5
<1>8. Knows(th)
  BY <1>4, <1>5, <1>7 DEF Knows, shmemc_team_my_pe
<1> QED
  BY <1>6, <1>8

\* shmemc_team_split_strided: whichever members the split keeps, and whatever it read past
\* the end of the parent's map
LEMMA SplitMade ==
  ASSUME NEW parent, NEW past, NEW start, NEW stride, NEW size \in Nat, WellMade(parent)
  PROVE  LET th == shmemc_team_split_strided(parent, past, start, stride, size)
         IN  WellMade(th) /\ Knows(th)
<1> DEFINE th == shmemc_team_split_strided(parent, past, start, stride, size)
           up(i) == LookUp(parent, past, Walk(start, stride, i))
           kept == {i \in 0..(size - 1) : is_member(up(i), start, size)}
           last(w) == CHOOSE i \in kept : up(i) = w /\ \A j \in kept : up(j) = w => j <= i
           back == [w \in {up(i) : i \in kept} |-> last(w)]
           asked == [i \in 0..(size - 1) |-> parent.asked[Walk(start, stride, i)]]
           found == {i \in kept : Walk(start, stride, i) \in parent.found}
<1>1. /\ th.nranks = size /\ th.name = "created" /\ th.asked = asked
      /\ th.fwd = [i \in kept |-> up(i)] /\ th.rev = back /\ th.found = found
  BY DEF shmemc_team_split_strided, Team, NewNumber
<1>2. ASSUME NEW i \in found PROVE i \in kept /\ asked[i] = up(i)
  BY <1>2 DEF LookUp, WellMade
<1>3. ASSUME NEW w \in DOMAIN back PROVE back[w] \in kept /\ up(back[w]) = w
  <2> DEFINE S == {i \in kept : up(i) = w}
  <2>1. S \in SUBSET (0..(size - 1)) /\ S # {}
    OBVIOUS
  <2> HIDE DEF S
  <2>2. PICK x \in S : \A y \in S : y <= x
    BY <2>1, LastIn
  <2>3. \E i \in kept : up(i) = w /\ \A j \in kept : up(j) = w => j <= i
    BY <2>2 DEF S
  <2>4. back[w] = last(w)
    OBVIOUS
  <2> QED
    BY <2>3, <2>4
<1>4. WellMade(th)
  <2> HIDE DEF th, back, asked, found, kept, up
  <2>1. /\ DOMAIN th.fwd = kept /\ \A i \in kept : th.fwd[i] = up(i)
        /\ DOMAIN th.rev = {up(i) : i \in kept}
    BY <1>1 DEF back
  <2>2. kept \subseteq 0..(size - 1)
    BY DEF kept
  <2>3. {th.fwd[i] : i \in DOMAIN th.fwd} = {up(i) : i \in kept}
    BY <2>1
  <2> QED
    BY <1>1, <1>2, <1>3, <2>1, <2>2, <2>3 DEF WellMade
<1>5. Knows(th)
  BY <1>1 DEF Knows, HasRank
<1> QED
  BY <1>4, <1>5

------------------------------------------------------------------------------
\* Slots and teams through the life of the library.

Stages == {"off", "workers", "rkeys", "connected", "begin", "run", "finalize", "join",
           "teardown", "closed", "finalized", "out", "gone"}
Tables == [nctxts : Nat, capacity : Nat, spill : Nat, free : Seq(Nat)]
Calls == {NoCall}
         \cup [at : {"take", "worker"}, options : BOOLEAN, reused : BOOLEAN, idx : Nat]
         \cup [at : {"quiet"}, idx : Nat]

TypeOK ==
  /\ table \in [PE -> Tables]
  /\ workers \in [PE -> SUBSET (Nat \cup {Default})]
  /\ mutex \in [PE -> Thread \cup {NoThread}]
  /\ call \in [Thread -> Calls]
  /\ handles \in [Thread -> SUBSET Nat]
  /\ stage \in [PE -> Stages]
  /\ plan \in Plans

IsFree(p, idx) == \E i \in DOMAIN table[p].free : table[p].free[i] = idx
\* in a call that has taken it from, or gives it back to, the list or the table
Busy(t, idx) == call[t].at \in {"worker", "quiet"} /\ call[t].idx = idx
Holds(t, idx) == idx \in handles[t] \/ Busy(t, idx)

\* who is in a call has the mutex
Excluded == \A t \in Thread : call[t].at # "none" => mutex[of(t)] = t

\* the table, and the list of free slots
Counted ==
  \A p \in PE :
    /\ table[p].nctxts <= table[p].spill /\ table[p].capacity = table[p].spill
    /\ workers[p] \ {Default} \subseteq 0..(table[p].nctxts - 1)
    /\ \A i, j \in DOMAIN table[p].free : table[p].free[i] = table[p].free[j] => i = j
    /\ \A i \in DOMAIN table[p].free : table[p].free[i] \in workers[p]

\* what a thread has looked at is still so
LookedAt ==
  \A t \in Thread : call[t].at = "take" =>
    IF call[t].reused
    THEN table[of(t)].free # <<>> /\ call[t].idx = Head(table[of(t)].free)
    ELSE call[t].idx = table[of(t)].nctxts

\* a slot is on the list, or in a thread's hands, or in its call
Apart ==
  \A t \in Thread : \A idx \in Nat : Holds(t, idx) =>
    /\ idx < table[of(t)].nctxts /\ ~IsFree(of(t), idx)
    /\ \A u \in Thread : of(u) = of(t) /\ u # t => ~Holds(u, idx)
    /\ Busy(t, idx) => idx \notin handles[t]
HasWorker ==
  \A t \in Thread :
    /\ handles[t] \subseteq workers[of(t)]
    /\ call[t].at = "quiet" \/ (call[t].at = "worker" /\ call[t].reused)
         => call[t].idx \in workers[of(t)]

NotBegun == \A p \in PE : In(p, "off") => table[p].nctxts = 0

IInv == TypeOK /\ Excluded /\ Counted /\ LookedAt /\ Apart /\ HasWorker /\ NotBegun

------------------------------------------------------------------------------
\* What OneOwner asks for is part of the invariant.
LEMMA Owners == IInv => OneOwner
<1> SUFFICES ASSUME IInv PROVE OneOwner
  OBVIOUS
<1>1. \A t \in Thread : of(t) \in PE
  BY ThreadAssumption DEF of
<1>2. ASSUME NEW t \in Thread, NEW idx \in handles[t]
      PROVE  /\ idx \in workers[of(t)]
             /\ \A i \in DOMAIN table[of(t)].free : table[of(t)].free[i] # idx
             /\ \A u \in Thread : of(u) = of(t) /\ u # t => idx \notin handles[u]
  <2>1. idx \in Nat /\ Holds(t, idx)
    BY <1>2 DEF IInv, TypeOK, Holds
  <2> QED
    BY <1>1, <1>2, <2>1 DEF IInv, Apart, HasWorker, IsFree, Holds
<1>3. ASSUME NEW p \in PE
      PROVE  /\ \A i, j \in DOMAIN table[p].free : table[p].free[i] = table[p].free[j] => i = j
             /\ workers[p] \ {Default} \subseteq 0..(table[p].nctxts - 1)
             /\ table[p].nctxts <= table[p].capacity
  BY <1>3 DEF IInv, TypeOK, Counted
<1> QED
  BY <1>2, <1>3 DEF OneOwner

\* At first there is no slot and no call.
LEMMA InitIInv == Init => IInv
<1> SUFFICES ASSUME Init PROVE IInv
  OBVIOUS
<1>0. \A t \in Thread : of(t) \in PE
  BY ThreadAssumption DEF of
<1>1. TypeOK
  BY DEF Init, ContextsInit, TypeOK, Tables, Calls, Stages
<1>2. /\ \A t \in Thread : call[t].at = "none" /\ handles[t] = {}
      /\ \A p \in PE : table[p].nctxts = 0 /\ table[p].capacity = 0 /\ table[p].spill = 0
                       /\ table[p].free = <<>> /\ workers[p] = {}
  BY DEF Init, ContextsInit, NoCall
<1>3. \A t \in Thread : \A idx \in Nat : ~Holds(t, idx)
  BY <1>2 DEF Holds, Busy
<1> QED
  BY <1>0, <1>1, <1>2, <1>3
  DEF IInv, Excluded, Counted, LookedAt, Apart, HasWorker, NotBegun

------------------------------------------------------------------------------
\* Steps that see or change none of this
LEMMA OtherSteps ==
  ASSUME IInv, UNCHANGED <<table, workers, mutex, call, handles, plan>>,
         stage' \in [PE -> Stages],
         \A p \in PE : stage[p] # "off" => stage'[p] # "off"
  PROVE  IInv'
<1>1. TypeOK'
  BY DEF IInv, TypeOK
<1>2. Excluded' /\ Counted' /\ LookedAt' /\ HasWorker'
  BY DEF IInv, Excluded, Counted, LookedAt, HasWorker
<1>3. Apart'
  <2>1. \A t \in Thread : \A idx : (Holds(t, idx)' <=> Holds(t, idx)) /\ (Busy(t, idx)' <=> Busy(t, idx))
    BY DEF Holds, Busy
  <2> QED
    BY <2>1 DEF IInv, Apart, IsFree
<1>4. NotBegun'
  BY DEF IInv, NotBegun, In
<1> QED
  BY <1>1, <1>2, <1>3, <1>4 DEF IInv

\* The threads of a PE one of which is in a call, or takes the mutex
LEMMA Alone ==
  ASSUME IInv, NEW t \in Thread, mutex[of(t)] \in {t, NoThread}
  PROVE  /\ of(t) \in PE
         /\ \A u \in Thread : of(u) = of(t) /\ u # t => call[u].at = "none"
<1>1. of(t) \in PE
  BY ThreadAssumption DEF of
<1>2. ASSUME NEW u \in Thread, of(u) = of(t), u # t PROVE call[u].at = "none"
  <2>1. u # NoThread
    BY ThreadAssumption DEF NoThread
  <2>2. mutex[of(u)] # u
    BY <1>2, <2>1
  <2> QED
    BY <2>2 DEF IInv, Excluded
<1> QED
  BY <1>1, <1>2

\* Create: the mutex is taken, and the list and the count are looked at
LEMMA CreateStep ==
  ASSUME IInv, NEW t \in Thread, NEW options \in BOOLEAN, Create(t, options), UNCHANGED libVars
  PROVE  IInv'
<1> DEFINE p == of(t)
           made == [at |-> "take", options |-> options, reused |-> table[p].free # <<>>,
                    idx |-> IF table[p].free # <<>> THEN Head(table[p].free) ELSE table[p].nctxts]
<1>1. p \in PE /\ \A u \in Thread : of(u) = p /\ u # t => call[u].at = "none"
  BY Alone DEF Create, Lock, Lockable
<1>2. /\ call' = [call EXCEPT ![t] = made] /\ mutex' = [mutex EXCEPT ![p] = t]
      /\ UNCHANGED <<table, workers, handles, stage, plan>> /\ call[t].at = "none"
  BY DEF Create, Lock, libVars, At
<1>3. made \in Calls
  <2>1. table[p].free \in Seq(Nat) /\ table[p].nctxts \in Nat
    BY <1>1 DEF IInv, TypeOK, Tables
  <2>2. made.idx \in Nat
    BY <2>1
  <2> QED
    BY <2>2 DEF Calls
<1>4. TypeOK'
  BY <1>1, <1>2, <1>3 DEF IInv, TypeOK
<1>5. \A u \in Thread : call'[u] = IF u = t THEN made ELSE call[u]
  BY <1>2 DEF IInv, TypeOK
<1>6. Excluded'
  BY <1>1, <1>2, <1>5 DEF IInv, TypeOK, Excluded
<1>7. LookedAt'
  <2>1. IF made.reused THEN table[p].free # <<>> /\ made.idx = Head(table[p].free)
        ELSE made.idx = table[p].nctxts
    OBVIOUS
  <2>2. ASSUME NEW u \in Thread, call'[u].at = "take"
        PROVE  IF call'[u].reused
               THEN table'[of(u)].free # <<>> /\ call'[u].idx = Head(table'[of(u)].free)
               ELSE call'[u].idx = table'[of(u)].nctxts
    <3>1. CASE u = t
      BY <1>2, <1>5, <2>1, <3>1
    <3>2. CASE u # t
      BY <1>2, <1>5, <2>2, <3>2 DEF IInv, LookedAt
    <3> QED
      BY <3>1, <3>2
  <2> QED
    BY <2>2 DEF LookedAt
<1>8. \A u \in Thread : \A idx : (Holds(u, idx)' <=> Holds(u, idx)) /\ (Busy(u, idx)' <=> Busy(u, idx))
  BY <1>2, <1>5 DEF Holds, Busy
<1>9. Apart'
  BY <1>2, <1>8 DEF IInv, Apart, IsFree
<1>10. HasWorker'
  BY <1>2, <1>5 DEF IInv, HasWorker
<1> QED
  BY <1>2, <1>4, <1>6, <1>7, <1>9, <1>10 DEF IInv, Counted, NotBegun, In

\* What is left of a sequence without its head
LEMMA Shortened ==
  ASSUME NEW s \in Seq(Nat), s # <<>>
  PROVE  /\ Tail(s) \in Seq(Nat) /\ Head(s) = s[1] /\ 1 \in DOMAIN s
         /\ \A i \in DOMAIN Tail(s) : Tail(s)[i] = s[i + 1] /\ i + 1 \in DOMAIN s
                                     /\ i + 1 # 1 /\ i \in Int
OBVIOUS


\* A table whose first free slot has been taken
LEMMA Taken ==
  ASSUME NEW tab \in Tables, tab.free # <<>>, NEW new, new = [tab EXCEPT !.free = Tail(@)]
  PROVE  /\ new \in Tables /\ new.free = Tail(tab.free)
         /\ new.nctxts = tab.nctxts /\ new.spill = tab.spill /\ new.capacity = tab.capacity
<1>1. PICK rest \in Seq(Nat) : rest = Tail(tab.free)
  BY Shortened DEF Tables
<1>2. new = [tab EXCEPT !.free = rest]
  BY <1>1
<1>3. /\ new \in Tables /\ new.free = rest
      /\ new.nctxts = tab.nctxts /\ new.spill = tab.spill /\ new.capacity = tab.capacity
  BY <1>2 DEF Tables
<1> QED
  BY <1>1, <1>3

\* A table that has been made longer where it was full, and has one slot more
LEMMA Resized ==
  ASSUME NEW tab \in Tables, tab.nctxts <= tab.spill, tab.capacity = tab.spill,
         NEW new, new = [resize_spill_block(tab) EXCEPT !.nctxts = @ + 1]
  PROVE  /\ new \in Tables /\ new.free = tab.free /\ new.nctxts = tab.nctxts + 1
         /\ new.capacity = new.spill /\ new.nctxts <= new.spill
<1>0. PICK grown : grown = resize_spill_block(tab)
  OBVIOUS
<1>1. /\ grown \in Tables /\ grown.free = tab.free /\ grown.nctxts = tab.nctxts
      /\ grown.capacity = grown.spill /\ grown.nctxts < grown.spill
  <2>1. CASE tab.nctxts = tab.spill
    <3>1. PICK more \in Nat : more = tab.spill + SpillBlock /\ tab.nctxts < more
      BY <2>1, BlockAssumption DEF Tables
    <3>2. grown = [tab EXCEPT !.spill = more, !.capacity = more]
      BY <1>0, <2>1, <3>1 DEF resize_spill_block
    <3> QED
      BY <3>1, <3>2 DEF Tables
  <2>2. CASE tab.nctxts # tab.spill
    <3>1. grown = tab
      BY <1>0, <2>2 DEF resize_spill_block
    <3> QED
      BY <2>2, <3>1 DEF Tables
  <2> QED
    BY <2>1, <2>2
<1>2. PICK n \in Nat : n = tab.nctxts + 1
  BY DEF Tables
<1>3. new = [grown EXCEPT !.nctxts = n]
  BY <1>0, <1>1, <1>2
<1>4. /\ new \in Tables /\ new.free = tab.free /\ new.nctxts = n
      /\ new.capacity = new.spill /\ new.spill = grown.spill
  BY <1>1, <1>3 DEF Tables
<1> QED
  BY <1>1, <1>2, <1>4 DEF Tables

\* get_usable_context: the slot is nobody's yet
LEMMA TakeStep ==
  ASSUME IInv, NEW t \in Thread, get_usable_context(t), UNCHANGED libVars, In(of(t), "run")
  PROVE  IInv'
<1> DEFINE p == of(t)
           idx == call[t].idx
           old == table[p]
           new == table'[p]
<1>1. p \in PE /\ \A u \in Thread : of(u) = p /\ u # t => call[u].at = "none"
  <2>1. mutex[of(t)] = t
    BY DEF IInv, Excluded, get_usable_context, At
  <2> QED
    BY <2>1, Alone
<1>2. /\ call[t].at = "take" /\ call' = [call EXCEPT ![t].at = "worker"]
      /\ UNCHANGED <<workers, mutex, handles, stage, plan>>
      /\ table' = [table EXCEPT ![p] = SlotTaken(@, call[t].reused)]
  BY DEF get_usable_context, At, Goto, libVars
<1>3. /\ call[t] \in [at : {"take"}, options : BOOLEAN, reused : BOOLEAN, idx : Nat]
      /\ old \in Tables
  BY <1>1, <1>2 DEF IInv, TypeOK, Calls, NoCall
<1>4. \A u \in Thread : call'[u] = IF u = t THEN [call[t] EXCEPT !.at = "worker"] ELSE call[u]
  BY <1>2 DEF IInv, TypeOK
<1>5. /\ call'[t].at = "worker" /\ call'[t].idx = idx /\ call'[t].reused = call[t].reused
      /\ idx \in Nat /\ call'[t] \in Calls
  BY <1>3, <1>4 DEF Calls
<1>6. /\ \A q \in PE : q # p => table'[q] = table[q]
      /\ call[t].reused => new = [old EXCEPT !.free = Tail(@)]
      /\ ~call[t].reused => new = [resize_spill_block(old) EXCEPT !.nctxts = @ + 1]
  <2>1. \A q \in PE : table'[q] = IF q = p THEN SlotTaken(old, call[t].reused) ELSE table[q]
    BY <1>2 DEF IInv, TypeOK
  <2>2. new = SlotTaken(old, call[t].reused)
    BY <1>1, <2>1
  <2>3. call[t].reused => new = [old EXCEPT !.free = Tail(@)]
    BY <2>2 DEF SlotTaken
  <2>4. ~call[t].reused => new = [resize_spill_block(old) EXCEPT !.nctxts = @ + 1]
    BY <2>2 DEF SlotTaken
  <2> QED
    BY <2>1, <2>3, <2>4
<1>7. /\ new \in Tables
      /\ new.nctxts <= new.spill /\ new.capacity = new.spill
      /\ old.nctxts <= new.nctxts /\ idx < new.nctxts
      /\ \A i \in DOMAIN new.free : \E j \in DOMAIN old.free :
            new.free[i] = old.free[j] /\ old.free[j] # idx
      /\ \A i, j \in DOMAIN new.free : new.free[i] = new.free[j] => i = j
      /\ call[t].reused => IsFree(p, idx)
      /\ ~call[t].reused => idx = old.nctxts
  <2>0. /\ old.nctxts <= old.spill /\ old.capacity = old.spill
        /\ \A i, j \in DOMAIN old.free : old.free[i] = old.free[j] => i = j
        /\ \A i \in DOMAIN old.free : old.free[i] \in Nat /\ old.free[i] < old.nctxts
    <3>1. \A i \in DOMAIN old.free : old.free[i] \in Nat
      BY <1>3 DEF Tables
    <3>2. \A i \in DOMAIN old.free : old.free[i] \in workers[p] \ {Default}
      BY <1>1, <3>1 DEF IInv, Counted, Default
    <3>3. workers[p] \ {Default} \subseteq 0..(old.nctxts - 1)
      BY <1>1 DEF IInv, Counted
    <3> QED
      BY <1>1, <1>3, <3>1, <3>2, <3>3 DEF IInv, Counted, Tables
  <2>1. CASE call[t].reused
    <3>1. old.free # <<>> /\ idx = Head(old.free) /\ old.free \in Seq(Nat)
      BY <1>2, <1>3, <2>1 DEF IInv, LookedAt, Tables
    <3>2. new = [old EXCEPT !.free = Tail(@)]
      BY <1>6, <2>1
    <3>3. /\ new \in Tables
          /\ new.free = Tail(old.free) /\ new.nctxts = old.nctxts
          /\ new.spill = old.spill /\ new.capacity = old.capacity
      BY <1>3, <3>1, <3>2, Taken
    <3>4. idx = old.free[1] /\ 1 \in DOMAIN old.free
      BY <3>1, Shortened
    <3>5. \A i \in DOMAIN new.free :
             new.free[i] = old.free[i + 1] /\ i + 1 \in DOMAIN old.free /\ i + 1 # 1 /\ i \in Int
      BY <3>1, <3>3, Shortened
    <3>6. \A i \in DOMAIN new.free : \E j \in DOMAIN old.free :
             new.free[i] = old.free[j] /\ old.free[j] # idx
      BY <2>0, <3>4, <3>5
    <3>7. ASSUME NEW i \in DOMAIN new.free, NEW j \in DOMAIN new.free, new.free[i] = new.free[j]
          PROVE  i = j
      <4>1. i + 1 = j + 1
        BY <2>0, <3>5, <3>7
      <4> QED
        BY <3>5, <4>1
    <3>8. idx < new.nctxts /\ new.nctxts <= new.spill /\ new.capacity = new.spill
          /\ old.nctxts <= new.nctxts
      BY <1>3, <2>0, <3>3, <3>4 DEF Tables
    <3>9. IsFree(p, idx)
      BY <3>4 DEF IsFree
    <3> QED
      BY <2>1, <3>3, <3>6, <3>7, <3>8, <3>9
  <2>2. CASE ~call[t].reused
    <3>1. idx = old.nctxts
      BY <1>2, <2>2 DEF IInv, LookedAt
    <3>2. new = [resize_spill_block(old) EXCEPT !.nctxts = @ + 1]
      BY <1>6, <2>2
    <3>3. /\ new \in Tables
          /\ new.free = old.free /\ new.nctxts = old.nctxts + 1
          /\ new.capacity = new.spill /\ new.nctxts <= new.spill
      BY <2>0, <3>2, <1>3, Resized
    <3>4. \A i \in DOMAIN new.free : new.free[i] # idx
      BY <1>3, <2>0, <3>1, <3>3
    <3>5. idx < new.nctxts /\ old.nctxts <= new.nctxts
      BY <1>3, <3>1, <3>3
    <3> QED
      BY <2>0, <2>2, <3>1, <3>3, <3>4, <3>5
  <2> QED
    BY <2>1, <2>2
<1>8. TypeOK'
  <2>1. table' \in [PE -> Tables]
    BY <1>2, <1>6, <1>7 DEF IInv, TypeOK
  <2>2. call' \in [Thread -> Calls]
    BY <1>2, <1>4, <1>5 DEF IInv, TypeOK
  <2> QED
    BY <1>2, <2>1, <2>2 DEF IInv, TypeOK
<1>9. Excluded'
  BY <1>2, <1>4, <1>5 DEF IInv, Excluded
<1>10. Counted'
  <2>1. ASSUME NEW q \in PE
        PROVE  /\ table'[q].nctxts <= table'[q].spill /\ table'[q].capacity = table'[q].spill
               /\ workers'[q] \ {Default} \subseteq 0..(table'[q].nctxts - 1)
               /\ \A i, j \in DOMAIN table'[q].free : table'[q].free[i] = table'[q].free[j] => i = j
               /\ \A i \in DOMAIN table'[q].free : table'[q].free[i] \in workers'[q]
    <3>1. CASE q = p
      <4>1. workers[p] \ {Default} \subseteq 0..(new.nctxts - 1)
        BY <1>1, <1>3, <1>7 DEF IInv, Counted, Tables
      <4>2. \A i \in DOMAIN new.free : new.free[i] \in workers[p]
        BY <1>1, <1>7 DEF IInv, Counted
      <4> QED
        BY <1>2, <1>7, <3>1, <4>1, <4>2
    <3>2. CASE q # p
      BY <1>2, <1>6, <3>2 DEF IInv, Counted
    <3> QED
      BY <3>1, <3>2
  <2> QED
    BY <2>1 DEF Counted
<1>11. LookedAt'
  <2>1. ASSUME NEW u \in Thread, call'[u].at = "take" PROVE of(u) # p /\ u # t /\ of(u) \in PE
    BY <1>1, <1>4, <1>5, <2>1, ThreadAssumption DEF of
  <2> QED
    BY <1>4, <1>6, <2>1 DEF IInv, LookedAt
<1>12. \A u \in Thread : \A k \in Nat :
          /\ Holds(u, k)' <=> Holds(u, k) \/ (u = t /\ k = idx)
          /\ Busy(u, k)' <=> Busy(u, k) \/ (u = t /\ k = idx)
  BY <1>2, <1>4, <1>5 DEF Holds, Busy
<1>13. \A u \in Thread : of(u) = p => ~Holds(u, idx)
  BY <1>1, <1>3, <1>5, <1>7 DEF IInv, Apart
<1>14. \A q \in PE : \A k : IsFree(q, k)' => IsFree(q, k) /\ ~(q = p /\ k = idx)
  BY <1>6, <1>7 DEF IsFree
<1>15. Apart'
  <2>1. ASSUME NEW u \in Thread, NEW k \in Nat, Holds(u, k)'
        PROVE  /\ k < table'[of(u)].nctxts /\ ~IsFree(of(u), k)'
               /\ \A v \in Thread : of(v) = of(u) /\ v # u => ~Holds(v, k)'
               /\ Busy(u, k)' => k \notin handles'[u]
    <3>0. of(u) \in PE
      BY ThreadAssumption DEF of
    <3>1. CASE u = t /\ k = idx
      <4>1. idx \notin handles[t]
        BY <1>13 DEF Holds
      <4> QED
        BY <1>2, <1>7, <1>12, <1>13, <1>14, <3>0, <3>1, <4>1
    <3>2. CASE ~(u = t /\ k = idx)
      <4>1. Holds(u, k) /\ (Busy(u, k)' => Busy(u, k))
        BY <1>12, <2>1, <3>2
      <4>2. of(u) = p => k # idx
        BY <1>13, <4>1
      <4>3. k < table'[of(u)].nctxts
        <5>1. k < table[of(u)].nctxts
          BY <4>1 DEF IInv, Apart
        <5>2. CASE of(u) = p
          BY <1>3, <1>7, <5>1, <5>2 DEF Tables
        <5>3. CASE of(u) # p
          BY <1>6, <3>0, <5>1, <5>3
        <5> QED
          BY <5>2, <5>3
      <4>4. \A v \in Thread : of(v) = of(u) /\ v # u => ~Holds(v, k)'
        BY <1>12, <4>1, <4>2 DEF IInv, Apart
      <4> QED
        BY <1>2, <1>14, <3>0, <4>1, <4>3, <4>4 DEF IInv, Apart
    <3> QED
      BY <3>1, <3>2
  <2> QED
    BY <2>1 DEF Apart
<1>16. HasWorker'
  <2>1. call[t].reused => idx \in workers[p]
    BY <1>1, <1>7 DEF IInv, Counted, IsFree
  <2> QED
    BY <1>2, <1>4, <1>5, <2>1 DEF IInv, HasWorker
<1>17. NotBegun'
  BY <1>2, <1>6 DEF IInv, NotBegun, In
<1> QED
  BY <1>8, <1>9, <1>10, <1>11, <1>15, <1>16, <1>17 DEF IInv

\* CreateReturns: the slot goes from the call to the thread
LEMMA ReturnStep ==
  ASSUME IInv, NEW t \in Thread, CreateReturns(t), UNCHANGED libVars
  PROVE  IInv'
<1> DEFINE p == of(t)
           idx == call[t].idx
<1>1. p \in PE /\ \A u \in Thread : of(u) = p /\ u # t => call[u].at = "none"
  <2>1. mutex[of(t)] = t
    BY DEF IInv, Excluded, CreateReturns, At
  <2> QED
    BY <2>1, Alone
<1>2. /\ call[t].at = "worker" /\ call' = [call EXCEPT ![t] = NoCall]
      /\ workers' = [workers EXCEPT ![p] = IF call[t].reused THEN @ ELSE @ \cup {idx}]
      /\ handles' = [handles EXCEPT ![t] = @ \cup {idx}]
      /\ mutex' = [mutex EXCEPT ![p] = NoThread]
      /\ UNCHANGED <<table, stage, plan>>
  BY DEF CreateReturns, At, Unlock, libVars
<1>3. idx \in Nat /\ NoCall \in Calls /\ NoCall.at = "none"
  BY <1>2 DEF IInv, TypeOK, Calls, NoCall
<1>4. /\ \A u \in Thread : call'[u] = IF u = t THEN NoCall ELSE call[u]
      /\ \A u \in Thread : handles'[u] = IF u = t THEN handles[t] \cup {idx} ELSE handles[u]
      /\ \A q \in PE : workers'[q] = IF q = p /\ ~call[t].reused THEN workers[p] \cup {idx}
                                   ELSE workers[q]
      /\ \A q \in PE : mutex'[q] = IF q = p THEN NoThread ELSE mutex[q]
  BY <1>1, <1>2 DEF IInv, TypeOK
<1>5. Holds(t, idx) /\ idx < table[p].nctxts
  BY <1>2, <1>3 DEF IInv, Apart, Holds, Busy
<1>6. TypeOK'
  <2>1. workers' \in [PE -> SUBSET (Nat \cup {Default})]
    BY <1>1, <1>2, <1>3, <1>4 DEF IInv, TypeOK
  <2>2. handles' \in [Thread -> SUBSET Nat]
    BY <1>2, <1>3, <1>4 DEF IInv, TypeOK
  <2>3. call' \in [Thread -> Calls]
    BY <1>2, <1>3 DEF IInv, TypeOK
  <2>4. mutex' \in [PE -> Thread \cup {NoThread}]
    BY <1>2 DEF IInv, TypeOK
  <2> QED
    BY <1>2, <2>1, <2>2, <2>3, <2>4 DEF IInv, TypeOK
<1>7. Excluded'
  <2>1. ASSUME NEW u \in Thread, call'[u].at # "none" PROVE mutex'[of(u)] = u
    <3>1. u # t /\ call[u].at # "none"
      BY <1>3, <1>4, <2>1
    <3>2. of(u) # p /\ of(u) \in PE
      BY <1>1, <3>1, ThreadAssumption DEF of
    <3> QED
      BY <1>4, <3>1, <3>2 DEF IInv, Excluded
  <2> QED
    BY <2>1 DEF Excluded
<1>8. Counted'
  <2>1. ASSUME NEW q \in PE
        PROVE  /\ workers'[q] \ {Default} \subseteq 0..(table[q].nctxts - 1)
               /\ workers[q] \subseteq workers'[q]
    <3>1. table[q].nctxts \in Nat
      BY DEF IInv, TypeOK, Tables
    <3> QED
      BY <1>3, <1>4, <1>5, <3>1 DEF IInv, Counted
  <2> QED
    BY <1>2, <2>1 DEF IInv, Counted
<1>9. LookedAt'
  <2>1. \A u \in Thread : call'[u].at = "take" => call'[u] = call[u]
    BY <1>3, <1>4
  <2> QED
    BY <1>2, <2>1 DEF IInv, LookedAt
<1>10. \A u \in Thread : \A k \in Nat :
          /\ Holds(u, k)' <=> Holds(u, k)
          /\ Busy(u, k)' => u # t /\ Busy(u, k)
  BY <1>2, <1>3, <1>4, <1>5 DEF Holds, Busy
<1>11. Apart'
  BY <1>2, <1>4, <1>10 DEF IInv, Apart, IsFree
<1>12. HasWorker'
  <2>1. ASSUME NEW u \in Thread PROVE workers[of(u)] \subseteq workers'[of(u)]
    BY <1>4, ThreadAssumption DEF of
  <2>2. idx \in workers'[p]
    BY <1>1, <1>2, <1>4 DEF IInv, HasWorker
  <2>3. ASSUME NEW u \in Thread PROVE handles'[u] \subseteq workers'[of(u)]
    BY <1>4, <2>1, <2>2 DEF IInv, HasWorker
  <2>4. ASSUME NEW u \in Thread,
               call'[u].at = "quiet" \/ (call'[u].at = "worker" /\ call'[u].reused)
        PROVE  call'[u].idx \in workers'[of(u)]
    <3>1. u # t
      BY <1>3, <1>4, <2>4
    <3> QED
      BY <1>4, <2>1, <2>4, <3>1 DEF IInv, HasWorker
  <2> QED
    BY <2>3, <2>4 DEF HasWorker
<1> QED
  BY <1>2, <1>6, <1>7, <1>8, <1>9, <1>11, <1>12 DEF IInv, NotBegun, In

\* Destroy: the slot goes from the thread to the call
LEMMA DestroyStep ==
  ASSUME IInv, NEW t \in Thread, NEW idx \in handles[t], Destroy(t, idx), UNCHANGED libVars
  PROVE  IInv'
<1> DEFINE p == of(t)
           quiet == [at |-> "quiet", idx |-> idx]
<1>1. p \in PE /\ \A u \in Thread : of(u) = p /\ u # t => call[u].at = "none"
  BY Alone DEF Destroy, Lock, Lockable
<1>2. /\ call[t].at = "none" /\ call' = [call EXCEPT ![t] = quiet]
      /\ handles' = [handles EXCEPT ![t] = @ \ {idx}]
      /\ mutex' = [mutex EXCEPT ![p] = t]
      /\ UNCHANGED <<table, workers, stage, plan>>
  BY DEF Destroy, At, Lock, libVars
<1>3. idx \in Nat /\ quiet \in Calls
  BY DEF IInv, TypeOK, Calls
<1>4. /\ \A u \in Thread : call'[u] = IF u = t THEN quiet ELSE call[u]
      /\ \A u \in Thread : handles'[u] = IF u = t THEN handles[t] \ {idx} ELSE handles[u]
  BY <1>2 DEF IInv, TypeOK
<1>5. TypeOK'
  BY <1>1, <1>2, <1>3, <1>4 DEF IInv, TypeOK
<1>6. Excluded'
  BY <1>1, <1>2, <1>4 DEF IInv, TypeOK, Excluded
<1>7. LookedAt'
  <2>1. \A u \in Thread : call'[u].at = "take" => call'[u] = call[u]
    BY <1>4
  <2> QED
    BY <1>2, <2>1 DEF IInv, LookedAt
<1>8. \A u \in Thread : \A k \in Nat :
         /\ Holds(u, k)' <=> Holds(u, k)
         /\ Busy(u, k)' => Busy(u, k) \/ (u = t /\ k = idx)
  BY <1>2, <1>3, <1>4 DEF Holds, Busy
<1>9. Apart'
  <2>1. \A u \in Thread : \A k \in Nat : Busy(u, k)' => k \notin handles'[u]
    BY <1>4, <1>8 DEF IInv, Apart, Holds
  <2> QED
    BY <1>2, <1>8, <2>1 DEF IInv, Apart, IsFree
<1>10. HasWorker'
  BY <1>2, <1>4 DEF IInv, HasWorker
<1> QED
  BY <1>2, <1>5, <1>6, <1>7, <1>9, <1>10 DEF IInv, Counted, NotBegun, In

\* A table whose list has got one more slot
LEMMA Lengthened ==
  ASSUME NEW tab \in Tables, NEW idx \in Nat, NEW new, new = [tab EXCEPT !.free = Append(@, idx)]
  PROVE  /\ new \in Tables
         /\ new.nctxts = tab.nctxts /\ new.spill = tab.spill /\ new.capacity = tab.capacity
         /\ \A i \in DOMAIN new.free :
               (i \in DOMAIN tab.free /\ new.free[i] = tab.free[i])
               \/ (i = Len(tab.free) + 1 /\ new.free[i] = idx)
<1>1. PICK more \in Seq(Nat) : more = Append(tab.free, idx)
  BY SMTT(30) DEF Tables
<1>2. new = [tab EXCEPT !.free = more]
  BY <1>1
<1>3. /\ new \in Tables /\ new.free = more
      /\ new.nctxts = tab.nctxts /\ new.spill = tab.spill /\ new.capacity = tab.capacity
  BY <1>2 DEF Tables
<1>4. \A i \in DOMAIN more : (i \in DOMAIN tab.free /\ more[i] = tab.free[i])
                            \/ (i = Len(tab.free) + 1 /\ more[i] = idx)
  BY <1>1 DEF Tables
<1> QED
  BY <1>3, <1>4

\* context_deregister: nobody has the slot any more, and the list gets it
LEMMA DeregisterStep ==
  ASSUME IInv, NEW t \in Thread, context_deregister(t), UNCHANGED libVars, In(of(t), "run")
  PROVE  IInv'
<1> DEFINE p == of(t)
           idx == call[t].idx
           old == table[p]
           new == table'[p]
<1>1. p \in PE /\ \A u \in Thread : of(u) = p /\ u # t => call[u].at = "none"
  <2>1. mutex[of(t)] = t
    BY DEF IInv, Excluded, context_deregister, At
  <2> QED
    BY <2>1, Alone
<1>2. /\ call[t].at = "quiet" /\ call' = [call EXCEPT ![t] = NoCall]
      /\ table' = [table EXCEPT ![p].free = Append(@, idx)]
      /\ mutex' = [mutex EXCEPT ![p] = NoThread]
      /\ UNCHANGED <<workers, handles, stage, plan>>
  BY DEF context_deregister, At, Unlock, libVars
<1>3. idx \in Nat /\ NoCall \in Calls /\ NoCall.at = "none" /\ old \in Tables
  BY <1>1, <1>2 DEF IInv, TypeOK, Calls, NoCall
<1>4. /\ \A u \in Thread : call'[u] = IF u = t THEN NoCall ELSE call[u]
      /\ \A q \in PE : q # p => table'[q] = table[q] /\ mutex'[q] = mutex[q]
      /\ new = [old EXCEPT !.free = Append(@, idx)]
  <2>1. PICK to : to = [old EXCEPT !.free = Append(@, idx)]
    OBVIOUS
  <2>2. table' = [table EXCEPT ![p] = to]
    BY <1>2, <2>1
  <2> QED
    BY <1>1, <1>2, <2>1, <2>2 DEF IInv, TypeOK
<1>5. /\ Busy(t, idx) /\ idx < old.nctxts /\ ~IsFree(p, idx) /\ idx \notin handles[t]
      /\ idx \in workers[p]
      /\ \A u \in Thread : of(u) = p /\ u # t => ~Holds(u, idx)
  BY <1>2, <1>3 DEF IInv, Apart, HasWorker, Holds, Busy
<1>6. /\ new \in Tables
      /\ new.nctxts = old.nctxts /\ new.spill = old.spill /\ new.capacity = old.capacity
      /\ \A i \in DOMAIN new.free :
            (i \in DOMAIN old.free /\ new.free[i] = old.free[i])
            \/ (i = Len(old.free) + 1 /\ new.free[i] = idx)
  <2>1. old \in Tables /\ idx \in Nat /\ new = [old EXCEPT !.free = Append(@, idx)]
    BY <1>3, <1>4
  <2> HIDE DEF old, idx, new
  <2> QED
    BY <2>1, Lengthened
<1>7. TypeOK'
  <2>1. table' \in [PE -> Tables]
    BY <1>2, <1>4, <1>6 DEF IInv, TypeOK
  <2> QED
    BY <1>2, <1>3, <2>1 DEF IInv, TypeOK
<1>8. Excluded'
  <2>1. ASSUME NEW u \in Thread, call'[u].at # "none" PROVE mutex'[of(u)] = u
    <3>1. u # t /\ call[u].at # "none"
      BY <1>3, <1>4, <2>1
    <3>2. of(u) # p /\ of(u) \in PE
      BY <1>1, <3>1, ThreadAssumption DEF of
    <3> QED
      BY <1>4, <3>1, <3>2 DEF IInv, Excluded
  <2> QED
    BY <2>1 DEF Excluded
<1>9. Counted'
  <2>1. ASSUME NEW i \in DOMAIN new.free, NEW j \in DOMAIN new.free, new.free[i] = new.free[j]
        PROVE  i = j
    <3>1. \A k \in DOMAIN old.free : old.free[k] # idx
      BY <1>5 DEF IsFree
    <3>2. \A k, l \in DOMAIN old.free : old.free[k] = old.free[l] => k = l
      BY <1>1 DEF IInv, Counted
    <3> QED
      BY <1>6, <2>1, <3>1, <3>2
  <2>2. \A i \in DOMAIN new.free : new.free[i] \in workers[p]
    BY <1>1, <1>5, <1>6 DEF IInv, Counted
  <2>3. ASSUME NEW q \in PE
        PROVE  /\ table'[q].nctxts <= table'[q].spill /\ table'[q].capacity = table'[q].spill
               /\ workers'[q] \ {Default} \subseteq 0..(table'[q].nctxts - 1)
               /\ \A i, j \in DOMAIN table'[q].free : table'[q].free[i] = table'[q].free[j] => i = j
               /\ \A i \in DOMAIN table'[q].free : table'[q].free[i] \in workers'[q]
    <3>1. CASE q = p
      BY <1>1, <1>2, <1>6, <2>1, <2>2, <3>1 DEF IInv, Counted
    <3>2. CASE q # p
      BY <1>2, <1>4, <3>2 DEF IInv, Counted
    <3> QED
      BY <3>1, <3>2
  <2> QED
    BY <2>3 DEF Counted
<1>10. LookedAt'
  <2>1. ASSUME NEW u \in Thread, call'[u].at = "take"
        PROVE  call'[u] = call[u] /\ of(u) # p /\ of(u) \in PE
    BY <1>1, <1>3, <1>4, <2>1, ThreadAssumption DEF of
  <2> QED
    BY <1>4, <2>1 DEF IInv, LookedAt
<1>11. \A u \in Thread : \A k \in Nat :
          /\ Holds(u, k)' => Holds(u, k) /\ ~(u = t /\ k = idx)
          /\ Busy(u, k)' => Busy(u, k)
  BY <1>2, <1>3, <1>4, <1>5 DEF Holds, Busy
<1>12. \A q \in PE : \A k : IsFree(q, k)' => IsFree(q, k) \/ (q = p /\ k = idx)
  BY ZenonT(30), <1>4, <1>6 DEF IsFree
<1>13. Apart'
  <2>1. ASSUME NEW u \in Thread, NEW k \in Nat, Holds(u, k)'
        PROVE  /\ k < table'[of(u)].nctxts /\ ~IsFree(of(u), k)'
               /\ \A v \in Thread : of(v) = of(u) /\ v # u => ~Holds(v, k)'
               /\ Busy(u, k)' => k \notin handles'[u]
    <3>1. of(u) \in PE /\ Holds(u, k)
      BY <1>11, <2>1, ThreadAssumption DEF of
    <3>2. ~(of(u) = p /\ k = idx)
      BY <1>5, <1>11, <2>1, <3>1
    <3>3. table'[of(u)].nctxts = table[of(u)].nctxts
      BY <1>4, <1>6, <3>1
    <3> QED
      BY <1>2, <1>11, <1>12, <3>1, <3>2, <3>3 DEF IInv, Apart
  <2> QED
    BY <2>1 DEF Apart
<1>14. HasWorker'
  BY <1>2, <1>3, <1>4 DEF IInv, HasWorker
<1>15. NotBegun'
  BY <1>2, <1>4, <1>6 DEF IInv, NotBegun, In
<1> QED
  BY <1>7, <1>8, <1>9, <1>10, <1>13, <1>14, <1>15 DEF IInv

\* Setup: the default context's worker, where there is no other
LEMMA SetupStep ==
  ASSUME IInv, NEW p, Setup(p)
  PROVE  IInv'
<1>1. /\ In(p, "off") /\ workers' = [workers EXCEPT ![p] = {Default}]
      /\ stage' = [stage EXCEPT ![p] = "workers"]
      /\ UNCHANGED <<table, mutex, call, handles, plan>>
  BY DEF Setup, shmemc_context_init_default, GoTo
<1>2. \A q \in PE : /\ workers'[q] = IF q = p THEN {Default} ELSE workers[q]
                    /\ stage'[q] = IF q = p THEN "workers" ELSE stage[q]
  BY <1>1 DEF IInv, TypeOK
<1>3. ASSUME NEW q \in PE, q = p
      PROVE  /\ \A i \in DOMAIN table[q].free : FALSE
             /\ \A t \in Thread : \A idx \in Nat : of(t) = q => ~Holds(t, idx)
  <2>1. table[q].nctxts = 0 /\ table[q].free \in Seq(Nat)
    BY <1>1, <1>3 DEF IInv, NotBegun, TypeOK, Tables
  <2>2. workers[q] \subseteq {Default}
    BY <2>1 DEF IInv, Counted
  <2>3. \A i \in DOMAIN table[q].free : FALSE
    <3>1. \A i \in DOMAIN table[q].free : table[q].free[i] \in Nat /\ table[q].free[i] = Default
      BY <2>1, <2>2 DEF IInv, Counted
    <3> QED
      BY <3>1 DEF Default
  <2>4. \A t \in Thread : \A idx \in Nat : of(t) = q => ~Holds(t, idx)
    BY <2>1 DEF IInv, Apart
  <2> QED
    BY <2>3, <2>4
<1>4. TypeOK'
  <2>1. workers' \in [PE -> SUBSET (Nat \cup {Default})]
    BY <1>1 DEF IInv, TypeOK
  <2>2. stage' \in [PE -> Stages]
    BY <1>1 DEF IInv, TypeOK, Stages
  <2> QED
    BY <1>1, <2>1, <2>2 DEF IInv, TypeOK
<1>5. Counted'
  BY <1>1, <1>2, <1>3 DEF IInv, Counted
<1>6. HasWorker'
  <2>1. ASSUME NEW t \in Thread
        PROVE  /\ handles[t] \subseteq workers'[of(t)]
               /\ call[t].at = "quiet" \/ (call[t].at = "worker" /\ call[t].reused)
                    => call[t].idx \in workers'[of(t)]
    <3>1. of(t) \in PE /\ handles[t] \subseteq Nat
      BY ThreadAssumption DEF of, IInv, TypeOK
    <3>2. CASE of(t) # p
      BY <1>2, <3>1, <3>2 DEF IInv, HasWorker
    <3>3. CASE of(t) = p
      <4>1. call[t].at \in {"quiet", "worker"} => call[t].idx \in Nat
        BY DEF IInv, TypeOK, Calls, NoCall
      <4> QED
        BY <1>3, <3>1, <3>3, <4>1 DEF Holds, Busy
    <3> QED
      BY <3>2, <3>3
  <2> QED
    BY <1>1, <2>1 DEF HasWorker
<1>7. Apart'
  <2>1. \A t \in Thread : \A idx : (Holds(t, idx)' <=> Holds(t, idx)) /\ (Busy(t, idx)' <=> Busy(t, idx))
    BY <1>1 DEF Holds, Busy
  <2> QED
    BY <1>1, <2>1 DEF IInv, Apart, IsFree
<1>8. NotBegun'
  BY <1>1, <1>2 DEF IInv, NotBegun, In
<1> QED
  BY <1>1, <1>4, <1>5, <1>6, <1>7, <1>8 DEF IInv, Excluded, LookedAt

------------------------------------------------------------------------------
Kept == UNCHANGED <<table, workers, mutex, call, handles, plan>>

\* A step that takes a PE to another stage, or none
LEMMA Moves ==
  ASSUME IInv, Kept, NEW p, NEW to \in Stages \ {"off"},
         stage' = stage \/ stage' = [stage EXCEPT ![p] = to]
  PROVE  IInv'
<1>1. stage' \in [PE -> Stages]
  BY DEF IInv, TypeOK
<1>2. \A q \in PE : stage[q] # "off" => stage'[q] # "off"
  BY DEF IInv, TypeOK
<1> QED
  BY <1>1, <1>2, OtherSteps DEF Kept

\* What the library does by itself, one step after the other
LEMMA LibrarySteps ==
  ASSUME IInv, NEW p, Step(p) \/ ProgressThread(p)
  PROVE  IInv'
<1> USE DEF Kept, GoTo, ctxVars
<1>1. CASE HaveWorkers(p)
  <2>1. Kept /\ stage' = [stage EXCEPT ![p] = "rkeys"]
    BY <1>1 DEF HaveWorkers
  <2> QED
    BY <2>1, Moves DEF Stages
<1>2. CASE HaveRkeys(p)
  <2>1. Kept /\ stage' = [stage EXCEPT ![p] = "connected"]
    BY <1>2 DEF HaveRkeys
  <2> QED
    BY <2>1, Moves DEF Stages
<1>3. CASE Started(p)
  <2>1. Kept /\ stage' = [stage EXCEPT ![p] = "begin"]
    BY <1>3 DEF Started
  <2> QED
    BY <2>1, Moves DEF Stages
<1>4. CASE Begun(p)
  <2>1. Kept /\ stage' = [stage EXCEPT ![p] = "run"]
    BY <1>4 DEF Begun
  <2> QED
    BY <2>1, Moves DEF Stages
<1>5. CASE AtExit(p)
  <2>1. Kept /\ stage' = [stage EXCEPT ![p] = "finalize"]
    BY <1>5 DEF AtExit, finalize_helper
  <2> QED
    BY <2>1, Moves DEF Stages
<1>6. CASE Left(p)
  <2>1. Kept /\ stage' = [stage EXCEPT ![p] = "out"]
    BY <1>6 DEF Left
  <2> QED
    BY <2>1, Moves DEF Stages
<1>7. CASE shmemu_progress_finalize(p)
  <2>1. Kept /\ stage' = [stage EXCEPT ![p] = "join"]
    BY <1>7 DEF shmemu_progress_finalize
  <2> QED
    BY <2>1, Moves DEF Stages
<1>8. CASE Joined(p)
  <2>1. Kept /\ stage' = [stage EXCEPT ![p] = "teardown"]
    BY <1>8 DEF Joined
  <2> QED
    BY <2>1, Moves DEF Stages
<1>9. CASE shmemc_team_contexts_destroy(p)
  <2>1. Kept /\ stage' = stage
    BY <1>9 DEF shmemc_team_contexts_destroy, shmemc_ucx_teardown_context
  <2> QED
    BY <2>1, Moves DEF Stages
<1>10. CASE shmemc_ucx_context_default_destroy(p)
  <2>1. Kept /\ stage' = [stage EXCEPT ![p] = "closed"]
    BY <1>10 DEF shmemc_ucx_context_default_destroy, shmemc_ucx_teardown_context
  <2> QED
    BY <2>1, Moves DEF Stages
<1>11. CASE shmemc_ucx_finalize(p)
  <2>1. Kept /\ stage' = [stage EXCEPT ![p] = "finalized"]
    BY <1>11 DEF shmemc_ucx_finalize
  <2> QED
    BY <2>1, Moves DEF Stages
<1>12. CASE notification_fn(p)
  <2>1. Kept /\ stage' = [stage EXCEPT ![p] = "gone"]
    BY <1>12 DEF notification_fn
  <2> QED
    BY <2>1, Moves DEF Stages
<1>13. CASE ProgressThread(p)
  <2>1. Kept /\ stage' = stage
    BY <1>13 DEF ProgressThread
  <2> QED
    BY <2>1, Moves DEF Stages
<1> QED
  BY <1>1, <1>2, <1>3, <1>4, <1>5, <1>6, <1>7, <1>8, <1>9, <1>10, <1>11, <1>12, <1>13 DEF Step

\* What the program asks for, other than its contexts
LEMMA ProgramSteps ==
  ASSUME IInv, NEW p, Finalize(p) \/ Exit(p) \/ shmem_global_exit(p) \/ UseTeams
  PROVE  IInv'
<1> USE DEF Kept, GoTo, ctxVars
<1>1. CASE Finalize(p)
  <2>1. Kept /\ stage' = [stage EXCEPT ![p] = "finalize"]
    BY <1>1 DEF Finalize, finalize_helper
  <2> QED
    BY <2>1, Moves DEF Stages
<1>2. CASE Exit(p) \/ shmem_global_exit(p) \/ (UseTeams /\ ~SplitNobody)
  <2>1. Kept /\ stage' = stage
    BY <1>2 DEF Exit, shmem_global_exit, UseTeams, Split, shmemc_team_destroy
  <2> QED
    BY <2>1, Moves DEF Stages
<1>3. CASE SplitNobody
  <2>1. Kept /\ stage' = [stage EXCEPT ![0] = "gone"]
    BY <1>3 DEF SplitNobody
  <2> QED
    BY <2>1, Moves DEF Stages
<1> QED
  BY <1>1, <1>2, <1>3

\* A step of a thread in its contexts
LEMMA ContextUses ==
  ASSUME IInv, NEW t \in Thread, UseContexts(t)
  PROVE  IInv'
<1>1. In(of(t), "run") /\ UNCHANGED libVars
  BY DEF UseContexts
<1>2. CASE Create(t, t[2] = 1)
  BY <1>1, <1>2, CreateStep
<1>3. CASE \E idx \in handles[t] : Destroy(t, idx)
  BY <1>1, <1>3, DestroyStep
<1>4. CASE \E idx \in handles[t] \cup {Default}, q \in Job : Put(t, idx, q)
  <2>1. Kept /\ stage' = stage
    BY <1>1, <1>4 DEF Put, libVars, Kept
  <2> QED
    BY <2>1, Moves DEF Stages
<1>5. CASE InContextCall(t)
  BY <1>1, <1>5, TakeStep, ReturnStep, DeregisterStep DEF InContextCall
<1> QED
  BY <1>2, <1>3, <1>4, <1>5 DEF UseContexts

\* Every step keeps the invariant.
LEMMA NextIInv == IInv /\ [Next]_vars => IInv'
<1> SUFFICES ASSUME IInv, [Next]_vars PROVE IInv'
  OBVIOUS
<1>1. CASE \E p \in Job : Step(p) \/ ProgressThread(p)
  BY <1>1, LibrarySteps
<1>2. CASE Landing
  <2>1. Kept /\ stage' = stage
    BY <1>2 DEF Landing, Land, libVars, Kept
  <2> QED
    BY <2>1, Moves DEF Stages
<1>3. CASE Program
  <2>1. CASE \E p \in Job : Setup(p)
    BY <2>1, SetupStep
  <2>2. CASE UseTeams \/ \E p \in Job : Finalize(p) \/ Exit(p) \/ shmem_global_exit(p)
    BY <2>2, ProgramSteps
  <2>3. CASE \E t \in Thread : UseContexts(t)
    BY <2>3, ContextUses
  <2> QED
    BY <1>3, <2>1, <2>2, <2>3 DEF Program
<1>4. CASE UNCHANGED vars
  <2>1. Kept /\ stage' = stage
    BY <1>4 DEF vars, ctxVars, libVars, Kept
  <2> QED
    BY <2>1, Moves DEF Stages
<1> QED
  BY <1>1, <1>2, <1>3, <1>4 DEF Next

\* Threads that create and destroy contexts at once are never given the same slot, nor one
\* that is free, has no worker or is outside of the table (get_usable_context,
\* shmemc_context_create and context_deregister in contexts.c): for any job, any number of
\* threads, any SHMEM_PREALLOC_CONTEXTS, and whatever the other PEs do.
THEOREM SlotsOwned == Spec => []OneOwner
<1>1. Init => IInv
  BY InitIInv
<1>2. IInv /\ [Next]_vars => IInv'
  BY NextIInv
<1>3. IInv => OneOwner
  BY Owners
<1> QED
  BY <1>1, <1>2, <1>3, PTL DEF Spec

------------------------------------------------------------------------------
\* The teams that PE 0 can name
TeamsInv ==
  /\ plan \in Plans
  /\ \E S : teams \in Seq(S) /\ \A th \in S : WellMade(th) /\ Knows(th)

\* It is all that translation asks for.
LEMMA TeamsTranslate == TeamsInv => TranslationSound
<1> SUFFICES ASSUME TeamsInv PROVE TranslationSound
  OBVIOUS
<1>1. \A k \in DOMAIN teams : WellMade(teams[k]) /\ Knows(teams[k])
  BY DEF TeamsInv
<1> QED
  BY <1>1, TranslatesTruly DEF TranslationSound, Knows

\* shmemc_teams_init makes the first two.
LEMMA TeamsBegin ==
  ASSUME TeamsInv, NEW p, Setup(p)
  PROVE  TeamsInv'
<1>1. plan' = plan /\ shmemc_teams_init(p) /\ plan.npes \in Nat \ {0}
  BY PlanAssumption DEF Setup, TeamsInv
<1>2. CASE p = 0
  <2> DEFINE world == initialize_team_world(plan.npes)
             shared == initialize_team_shared(0, plan.npes)
  <2>1. teams' = <<world, shared>>
    BY <1>1, <1>2 DEF shmemc_teams_init
  <2>2. WellMade(world) /\ Knows(world) /\ WellMade(shared) /\ Knows(shared)
    BY <1>1, WorldMade, SharedMade
  <2> HIDE DEF world, shared
  <2>3. teams' \in Seq({world, shared})
    BY <2>1
  <2> QED
    BY <1>1, <2>2, <2>3 DEF TeamsInv
<1>3. CASE p # 0
  BY <1>1, <1>3 DEF shmemc_teams_init, TeamsInv
<1> QED
  BY <1>2, <1>3

\* A split adds one ..
LEMMA TeamsSplit ==
  ASSUME TeamsInv, NEW start \in PE, NEW stride \in PE \ {0}, NEW size \in 1..plan.npes,
         Split(start, stride, size)
  PROVE  TeamsInv'
<1>1. PICK k \in DOMAIN teams :
        \E past \in Garbage :
          teams' = Append(teams, shmemc_team_split_strided(teams[k], past, start, stride, size))
  BY DEF Split
<1>2. PICK S : teams \in Seq(S) /\ \A th \in S : WellMade(th) /\ Knows(th)
  BY DEF TeamsInv
<1>3. PICK past \in Garbage, new \in
               {shmemc_team_split_strided(teams[k], v, start, stride, size) : v \in Garbage} :
        /\ new = shmemc_team_split_strided(teams[k], past, start, stride, size)
        /\ teams' = Append(teams, new)
  BY <1>1
<1>4. WellMade(new) /\ Knows(new)
  <2>1. size \in Nat
    BY PlanAssumption DEF TeamsInv
  <2>2. WellMade(teams[k])
    BY <1>2
  <2> QED
    BY <1>3, <2>1, <2>2, SplitMade
<1>5. teams' \in Seq(S \cup {new})
  <2>1. teams \in Seq(S \cup {new})
    BY <1>2
  <2> QED
    BY <1>3, <2>1
<1> QED
  BY <1>2, <1>4, <1>5 DEF TeamsInv, Split

\* .. and a destruction leaves the rest.
LEMMA TeamsDestroy ==
  ASSUME TeamsInv, NEW k, shmemc_team_destroy(k)
  PROVE  TeamsInv'
<1>1. PICK S : teams \in Seq(S) /\ \A th \in S : WellMade(th) /\ Knows(th)
  BY DEF TeamsInv
<1>2. k \in DOMAIN teams /\ teams' = RemoveAt(teams, k) /\ plan' = plan
  BY DEF shmemc_team_destroy
<1>3. teams' \in Seq(S)
  BY <1>1, <1>2 DEF RemoveAt
<1> QED
  BY <1>1, <1>2, <1>3 DEF TeamsInv

\* The rest of the library's life
LEMMA TeamsNext == TeamsInv /\ [Next]_vars => TeamsInv'
<1> SUFFICES ASSUME TeamsInv, [Next]_vars PROVE TeamsInv'
  OBVIOUS
<1>1. ASSUME UNCHANGED <<plan, teams>> PROVE TeamsInv'
  BY <1>1 DEF TeamsInv
<1>2. CASE \E p \in Job : Step(p) \/ ProgressThread(p)
  <2>1. PICK p \in Job : Step(p) \/ ProgressThread(p)
    BY <1>2
  <2>2. CASE shmemc_ucx_context_default_destroy(p)
    <3>1. plan' = plan /\ (teams' = teams \/ teams' = <<>>)
      BY <2>2 DEF shmemc_ucx_context_default_destroy, shmemc_ucx_teardown_context
    <3>2. CASE teams' = <<>>
      <4>1. teams' \in Seq({})
        BY <3>2
      <4> QED
        BY <3>1, <4>1 DEF TeamsInv
    <3> QED
      BY <1>1, <3>1, <3>2
  <2>3. CASE ~shmemc_ucx_context_default_destroy(p)
    <3>1. UNCHANGED <<plan, teams>>
      BY <2>1, <2>3
      DEF Step, HaveWorkers, HaveRkeys, Started, Begun, AtExit, finalize_helper, Left,
          shmemu_progress_finalize, Joined, shmemc_team_contexts_destroy,
          shmemc_ucx_teardown_context, shmemc_ucx_finalize, notification_fn, ProgressThread
    <3> QED
      BY <1>1, <3>1
  <2> QED
    BY <2>2, <2>3
<1>3. CASE Landing
  BY <1>1, <1>3 DEF Landing, libVars
<1>4. CASE Program
  <2>1. CASE \E p \in Job : Setup(p)
    BY <2>1, TeamsBegin
  <2>2. CASE \E p \in Job : Finalize(p) \/ Exit(p) \/ shmem_global_exit(p)
    BY <1>1, <2>2 DEF Finalize, finalize_helper, Exit, shmem_global_exit
  <2>3. CASE \E t \in Thread : UseContexts(t)
    BY <1>1, <2>3 DEF UseContexts, libVars
  <2>4. CASE UseTeams
    <3>1. CASE SplitNobody
      BY <1>1, <3>1 DEF SplitNobody
    <3> QED
      BY <2>4, <3>1, TeamsSplit, TeamsDestroy DEF UseTeams
  <2> QED
    BY <1>4, <2>1, <2>2, <2>3, <2>4 DEF Program
<1>5. CASE UNCHANGED vars
  BY <1>1, <1>5 DEF vars, libVars
<1> QED
  BY <1>2, <1>3, <1>4, <1>5 DEF Next

\* A number that was found is translated to that of the same PE of the world, as the calls
\* that made the teams numbered them, and is translated if that PE was found in the other
\* team; every translation is a number of the other team (shmemc_team_translate_pe,
\* teams.c:240-266): for any job, any nodes, any chain of splits and destructions, over
\* lost members too, and whatever lies past the end of a map.
THEOREM Translation == Spec => []TranslationSound
<1>1. Init => TeamsInv
  <2> SUFFICES ASSUME Init PROVE TeamsInv
    OBVIOUS
  <2>1. plan \in Plans /\ teams \in Seq({})
    BY DEF Init
  <2> QED
    BY <2>1 DEF TeamsInv
<1>2. TeamsInv => TranslationSound
  BY TeamsTranslate
<1> QED
  BY <1>1, <1>2, TeamsNext, PTL DEF Spec

------------------------------------------------------------------------------
\* Who is still there.

Before == {"off", "workers", "rkeys", "connected"}
Within == {"begin", "run", "finalize", "join", "teardown", "closed"}
After == {"finalized", "out"}

\* how often a PE has come to where all PEs meet
Counts(p) ==
  /\ arrived[p] \in Nat
  /\ In(p, "off") => arrived[p] = 0
  /\ In(p, "workers") => arrived[p] = 1
  /\ In(p, "rkeys") => arrived[p] = 2
  /\ In(p, "connected") => arrived[p] = 3
  /\ stage[p] \in {"begin", "run"} => arrived[p] = 4
  /\ stage[p] \in {"finalize", "join", "teardown"} => arrived[p] = 5
  /\ stage[p] \in {"closed", "finalized", "out"} => arrived[p] = 6

\* what it has of the library
Held(p) ==
  /\ stage[p] \in Within => refcount[p] = 1
  /\ stage[p] \in Before \cup After => refcount[p] = 0
  /\ stage[p] \in (Before \ {"off"}) \cup Within => mapped[p] = register_memory_regions
  /\ stage[p] \in After => mapped[p] = {}
  /\ stage[p] \in {"teardown", "closed", "finalized", "out"} => progress[p] \in {"none", "ended"}

\* what it has published, and what it has got
WorkersOfAll == {<<key, pe>> : key \in shmemc_pmi_publish_worker, pe \in Job}
Published(p) ==
  /\ arrived[p] >= 1 => shmemc_pmi_publish_worker \subseteq posted[p]
  /\ arrived[p] >= 2 => shmemc_pmi_publish_rkeys_and_heaps \subseteq posted[p]
  /\ In(p, "rkeys") => got[p] = WorkersOfAll
  /\ stage[p] \in {"connected", "begin", "run"} => got[p] = NeededForEps

\* what it has torn down: the slots in order, the default context last
InOrder(s, n) == \A k \in 1..n : s[k] = k - 1
TornDown(p) ==
  /\ torn[p] \in Seq(Int)
  /\ stage[p] \in Before \cup {"begin", "run", "finalize", "join"} => torn[p] = <<>>
  /\ In(p, "teardown") =>
       Len(torn[p]) <= table[p].nctxts /\ InOrder(torn[p], Len(torn[p]))
  /\ stage[p] \in {"closed", "finalized", "out"} =>
       /\ Len(torn[p]) = table[p].nctxts + 1 /\ InOrder(torn[p], table[p].nctxts)
       /\ torn[p][table[p].nctxts + 1] = Default
  /\ \A i, j \in DOMAIN torn[p] : torn[p][i] = torn[p][j] => i = j
  /\ progress[p] = "driving" => Default \notin Closed(p)

Life(p) ==
  /\ Counts(p) /\ Held(p) /\ Published(p) /\ TornDown(p)
  /\ In(p, "gone") => aborting

\* who is past a meeting knows that everybody has come to it
Met(p, q) ==
  /\ stage[p] \in Within \cup After /\ ~In(p, "begin") => arrived[q] >= 4
  /\ stage[p] \in {"join", "teardown", "closed", "finalized", "out"} => arrived[q] >= 5
  /\ stage[p] \in After => arrived[q] >= 6

\* where puts can be on their way from
Flying(o) ==
  /\ o.from \in Job /\ o.to \in Job
  /\ stage[o.from] \in {"run", "finalize", "join", "teardown", "gone"}
  /\ o.ctx = Default \/ (o.ctx \in Nat /\ o.ctx < table[o.from].nctxts)
  /\ o.ctx \notin Closed(o.from)
  /\ o.ctx = Default => stage[o.from] \in {"run", "gone"}

Functions ==
  /\ DOMAIN arrived = PE /\ DOMAIN posted = PE /\ DOMAIN got = PE /\ DOMAIN mapped = PE
  /\ DOMAIN torn = PE /\ DOMAIN refcount = PE /\ DOMAIN progress = PE

LifeInv ==
  /\ Functions
  /\ \A p \in Job : Life(p)
  /\ \A p, q \in Job : Met(p, q)
  /\ \A o \in flight : Flying(o)

------------------------------------------------------------------------------
\* The PEs of the job are PEs.
LEMMA JobOfPEs == IInv => Job \subseteq PE /\ plan.npes \in Nat
BY PlanAssumption DEF IInv, TypeOK, Job

\* Nobody is sent anything to what is gone.
LEMMA LivingReached == IInv /\ LifeInv => ReachesTheLiving
<1> SUFFICES ASSUME IInv, LifeInv PROVE ReachesTheLiving
  OBVIOUS
<1>1. ASSUME NEW o \in flight, ~aborting
      PROVE  /\ mapped[o.to] = register_memory_regions
             /\ o.ctx \notin Closed(o.from)
             /\ o.ctx = Default => Default \notin Closed(o.to)
  <2>1. Flying(o) /\ o.from \in Job /\ o.to \in Job
    BY DEF LifeInv, Flying
  <2>2. /\ Life(o.from) /\ Life(o.to) /\ Met(o.from, o.to) /\ Met(o.to, o.from)
        /\ stage[o.to] \in Stages
    BY <2>1, JobOfPEs DEF LifeInv, IInv, TypeOK
  <2>3. ~In(o.to, "gone") /\ ~In(o.from, "gone")
    BY <1>1, <2>2 DEF Life
  <2>4. arrived[o.from] \in {4, 5} /\ arrived[o.to] \in Nat /\ arrived[o.to] >= 4
    BY <2>1, <2>2, <2>3 DEF Flying, Life, Counts, Met, Within, In
  <2>5. stage[o.to] \notin {"off", "workers", "rkeys", "connected", "finalized", "out"}
    BY <2>2, <2>4 DEF Life, Counts, Met, In, After
  <2>6. mapped[o.to] = register_memory_regions
    BY <2>2, <2>3, <2>5 DEF Life, Held, Within, Stages, In
  <2>7. ASSUME o.ctx = Default PROVE Default \notin Closed(o.to)
    <3>1. arrived[o.from] = 4
      BY <2>1, <2>2, <2>3, <2>7 DEF Flying, Life, Counts, In
    <3>2. stage[o.to] \notin {"join", "teardown", "closed", "finalized", "out"}
      BY <2>2, <3>1 DEF Met
    <3>3. torn[o.to] = <<>>
      BY <2>2, <2>3, <3>2 DEF Life, TornDown, Before, Stages, In
    <3> QED
      BY <3>3 DEF Closed
  <2> QED
    BY <2>1, <2>6, <2>7 DEF Flying
<1>2. ASSUME NEW p \in Job, Running(p) PROVE got[p] = NeededForEps
  BY <1>2 DEF LifeInv, Life, Published, Running, In
<1> QED
  BY <1>1, <1>2 DEF ReachesTheLiving

\* At the end nothing is left.
LEMMA AllGone == IInv /\ LifeInv => NothingLeft
<1> SUFFICES ASSUME IInv, LifeInv, NEW p \in Job
             PROVE  /\ \A i, j \in DOMAIN torn[p] : torn[p][i] = torn[p][j] => i = j
                    /\ progress[p] = "driving" => Default \notin Closed(p)
                    /\ In(p, "out") =>
                         /\ Closed(p) = {Default} \cup 0..(table[p].nctxts - 1)
                         /\ mapped[p] = {} /\ refcount[p] = 0 /\ progress[p] # "asleep"
                         /\ \A o \in flight : o.from # p
  BY DEF NothingLeft
<1>1. Life(p) /\ p \in PE
  BY JobOfPEs DEF LifeInv
<1>2. ASSUME In(p, "out") PROVE Closed(p) = {Default} \cup 0..(table[p].nctxts - 1)
  <2> DEFINE s == torn[p]
             n == table[p].nctxts
  <2>1. s \in Seq(Int) /\ Len(s) = n + 1 /\ InOrder(s, n) /\ s[n + 1] = Default
    BY <1>1, <1>2 DEF Life, TornDown, In
  <2>2. n \in Nat
    BY <1>1 DEF IInv, TypeOK, Tables
  <2>3. Closed(p) = {s[i] : i \in DOMAIN s}
    BY DEF Closed
  <2> HIDE DEF s, n
  <2>4. DOMAIN s = 1..(n + 1)
    BY <2>1, <2>2
  <2>5. \A i \in 1..n : s[i] = i - 1
    BY <2>1 DEF InOrder
  <2>6. ASSUME NEW x \in {s[i] : i \in DOMAIN s} PROVE x \in {Default} \cup 0..(n - 1)
    BY <2>1, <2>2, <2>4, <2>5
  <2>7. ASSUME NEW x \in 0..(n - 1) PROVE x \in {s[i] : i \in DOMAIN s}
    <3>1. x + 1 \in 1..n /\ x + 1 \in DOMAIN s /\ s[x + 1] = x
      BY <2>2, <2>4, <2>5
    <3> QED
      BY <3>1
  <2>8. Default \in {s[i] : i \in DOMAIN s}
    BY <2>1, <2>2, <2>4
  <2>9. {s[i] : i \in DOMAIN s} = {Default} \cup 0..(n - 1)
    BY <2>6, <2>7, <2>8
  <2> QED
    BY <2>3, <2>9 DEF s, n
<1>3. ASSUME In(p, "out")
      PROVE  /\ mapped[p] = {} /\ refcount[p] = 0 /\ progress[p] # "asleep"
             /\ \A o \in flight : o.from # p
  BY <1>1, <1>3 DEF LifeInv, Flying, Life, Held, After, In
<1> QED
  BY <1>1, <1>2, <1>3 DEF Life, TornDown

\* At first nobody has come anywhere.
LEMMA InitLife == Init /\ IInv => LifeInv
<1> SUFFICES ASSUME Init, IInv PROVE LifeInv
  OBVIOUS
<1>1. Functions /\ flight = {}
  BY DEF Init, ContextsInit, Functions
<1>2. ASSUME NEW p \in Job
      PROVE  /\ stage[p] = "off" /\ arrived[p] = 0 /\ refcount[p] = 0 /\ torn[p] = <<>>
             /\ progress[p] = "none"
  BY JobOfPEs DEF Init
<1>3. ASSUME NEW p \in Job PROVE Life(p)
  <2>1. Counts(p) /\ Held(p)
    BY <1>2 DEF Counts, Held, In, Before, Within, After
  <2>2. Published(p)
    BY <1>2 DEF Published, In
  <2>3. TornDown(p)
    <3>1. torn[p] \in Seq(Int)
      <4>1. <<>> \in Seq(Int)
        OBVIOUS
      <4> QED
        BY <1>2, <4>1
    <3>2. DOMAIN torn[p] = {}
      <4>1. DOMAIN <<>> = {}
        OBVIOUS
      <4> QED
        BY <1>2, <4>1
    <3> QED
      BY <1>2, <3>1, <3>2 DEF TornDown, In
  <2>4. ~In(p, "gone")
    BY <1>2 DEF In
  <2> QED
    BY <2>1, <2>2, <2>3, <2>4 DEF Life
<1>4. \A p, q \in Job : Met(p, q)
  BY <1>2 DEF Met, Within, After, In
<1> QED
  BY <1>1, <1>3, <1>4 DEF LifeInv

------------------------------------------------------------------------------
\* One PE moves, and the others see it at most further than they did.

Same(q) ==
  /\ stage'[q] = stage[q] /\ arrived'[q] = arrived[q] /\ refcount'[q] = refcount[q]
  /\ posted'[q] = posted[q] /\ got'[q] = got[q] /\ mapped'[q] = mapped[q]
  /\ torn'[q] = torn[q] /\ progress'[q] = progress[q]
  /\ table'[q].nctxts = table[q].nctxts

\* What a PE that does not move has is what it had.
LEMMA Unmoved ==
  ASSUME NEW q \in Job, Life(q), plan' = plan, aborting => aborting', Same(q)
  PROVE  Life(q)'
<1>1. Job' = Job
  BY DEF Job
<1>2. Counts(q)'
  BY DEF Life, Counts, In, Same
<1>3. Held(q)'
  BY DEF Life, Held, In, Same
<1>4. Published(q)'
  BY <1>1 DEF Life, Published, WorkersOfAll, NeededForEps, In, Same
<1>5. TornDown(q)'
  BY DEF Life, TornDown, Closed, InOrder, In, Same
<1> QED
  BY <1>2, <1>3, <1>4, <1>5 DEF Life, In, Same

\* The steps of one PE: what is left to show is about that PE.
LEMMA Stepped ==
  ASSUME IInv, LifeInv, NEW p \in Job, plan' = plan, aborting => aborting', Functions',
         \A q \in Job \ {p} : Same(q),
         Life(p)',
         arrived'[p] >= arrived[p],
         \A q \in Job : Met(p, q)',
         \A o \in flight' : (o.from = p /\ Flying(o)') \/ (o.from # p /\ o \in flight)
  PROVE  LifeInv'
<1>1. Job' = Job
  BY DEF Job
<1>2. ASSUME NEW q \in Job PROVE Life(q)'
  BY <1>2, Unmoved DEF LifeInv
<1>3. ASSUME NEW q \in Job, NEW r \in Job PROVE Met(q, r)'
  <2>1. CASE q = p
    BY <2>1
  <2>2. CASE q # p
    <3>1. Met(q, r) /\ Same(q)
      BY <2>2 DEF LifeInv
    <3>2. arrived[r] \in Nat /\ arrived'[r] \in Nat /\ arrived'[r] >= arrived[r]
      BY <1>2 DEF LifeInv, Life, Counts, Same
    <3> QED
      BY <3>1, <3>2 DEF Met, In, Same
  <2> QED
    BY <2>1, <2>2
<1>4. ASSUME NEW o \in flight' PROVE Flying(o)'
  <2>1. CASE o.from # p
    <3>1. Flying(o) /\ o.from \in Job \ {p}
      BY <2>1 DEF LifeInv, Flying
    <3> QED
      BY <1>1, <3>1 DEF Flying, Closed, Same
  <2> QED
    BY <2>1
<1> QED
  BY <1>1, <1>2, <1>3, <1>4 DEF LifeInv

\* Steps that change none of this
LEMMA Unseen ==
  ASSUME LifeInv,
         UNCHANGED <<plan, stage, arrived, posted, got, mapped, torn, refcount, progress>>,
         aborting => aborting', flight' \subseteq flight,
         \A q \in Job : table'[q].nctxts = table[q].nctxts
  PROVE  LifeInv'
<1>1. Job' = Job /\ \A q \in Job : Same(q)
  BY DEF Job, Same
<1>2. Functions'
  BY DEF LifeInv, Functions
<1>3. ASSUME NEW q \in Job PROVE Life(q)'
  BY <1>1, <1>3, Unmoved DEF LifeInv
<1>4. ASSUME NEW q \in Job, NEW r \in Job PROVE Met(q, r)'
  BY <1>4 DEF LifeInv, Met, In
<1>5. ASSUME NEW o \in flight' PROVE Flying(o)'
  <2>1. Flying(o) /\ o.from \in Job
    BY DEF LifeInv, Flying
  <2> QED
    BY <1>1, <2>1 DEF Flying, Closed
<1> QED
  BY <1>1, <1>2, <1>3, <1>4, <1>5 DEF LifeInv

------------------------------------------------------------------------------
\* Coming to a meeting, and going on from there

\* The library is set up.
LEMMA SetupLife ==
  ASSUME IInv, LifeInv, NEW p \in Job, Setup(p)
  PROVE  LifeInv'
<1>1. p \in PE /\ Life(p) /\ Functions /\ stage \in [PE -> Stages]
  BY JobOfPEs DEF LifeInv, IInv, TypeOK
<1>2. /\ plan' = plan /\ aborting' = aborting /\ flight' = flight /\ Functions'
      /\ \A q \in Job \ {p} : Same(q)
  BY <1>1 DEF Setup, shmemc_pmi_barrier_all, GoTo, Functions, Same
<1>3. /\ stage[p] = "off" /\ arrived[p] = 0 /\ torn[p] = <<>> /\ refcount[p] = 0
      /\ progress[p] # "driving" \/ Default \notin Closed(p)
  BY <1>1 DEF Setup, In, Life, Counts, TornDown, Before
<1>4. /\ stage'[p] = "workers" /\ arrived'[p] = 1 /\ refcount'[p] = 0 /\ torn'[p] = torn[p]
      /\ mapped'[p] = register_memory_regions /\ progress'[p] = progress[p]
      /\ posted'[p] = shmemc_pmi_publish_worker
  BY <1>1, <1>3 DEF Setup, shmemc_pmi_barrier_all, GoTo, Functions
<1>5. Life(p)'
  <2>1. Counts(p)' /\ Held(p)'
    BY <1>4 DEF Counts, Held, In, Before, Within, After
  <2>2. Published(p)'
    BY <1>4 DEF Published, In
  <2>3. TornDown(p)'
    BY <1>1, <1>3, <1>4 DEF Life, TornDown, In, Before, Closed
  <2> QED
    BY <1>4, <2>1, <2>2, <2>3 DEF Life, In
<1>6. \A q \in Job : Met(p, q)'
  BY <1>4 DEF Met, Within, After, In
<1>7. ASSUME NEW o \in flight' PROVE o.from # p /\ o \in flight
  BY <1>2, <1>3 DEF LifeInv, Flying
<1> QED
  BY <1>2, <1>3, <1>4, <1>5, <1>6, <1>7, Stepped

\* Everybody who is waited for has come as often.
LEMMA Everybody ==
  ASSUME IInv, LifeInv, NEW p \in Job, AllArrived(p)
  PROVE  \A q \in Job : arrived[q] \in Nat /\ arrived[q] >= arrived[p]
BY DEF LifeInv, Life, Counts, AllArrived

\* All have published their workers: each gets those of all.
LEMMA HaveWorkersLife ==
  ASSUME IInv, LifeInv, NEW p \in Job, HaveWorkers(p)
  PROVE  LifeInv'
<1>1. p \in PE /\ Life(p) /\ Functions /\ stage \in [PE -> Stages]
  BY JobOfPEs DEF LifeInv, IInv, TypeOK
<1>2. /\ plan' = plan /\ aborting' = aborting /\ flight' = flight /\ Functions'
      /\ \A q \in Job \ {p} : Same(q)
  BY <1>1 DEF HaveWorkers, shmemc_pmi_barrier_all, GoTo, Functions, Same, ctxVars
<1>3. stage[p] = "workers" /\ arrived[p] = 1
  BY <1>1 DEF HaveWorkers, In, Life, Counts
<1>4. /\ stage'[p] = "rkeys" /\ arrived'[p] = 2 /\ refcount'[p] = refcount[p]
      /\ torn'[p] = torn[p] /\ mapped'[p] = mapped[p] /\ progress'[p] = progress[p]
      /\ posted'[p] = posted[p] \cup shmemc_pmi_publish_rkeys_and_heaps
      /\ got'[p] = shmemc_pmi_exchange_workers
  BY <1>1, <1>3 DEF HaveWorkers, shmemc_pmi_barrier_all, GoTo, Functions
<1>5. shmemc_pmi_exchange_workers = WorkersOfAll
  <2>1. ASSUME NEW q \in Job PROVE <<"w", 0>> \in posted[q]
    <3>1. arrived[q] >= 1
      BY <1>3, Everybody DEF HaveWorkers
    <3> QED
      BY <3>1 DEF LifeInv, Life, Published, shmemc_pmi_publish_worker
  <2>2. \A q \in Job : Fetched(<<"w", 0>>, q) = {<<<<"w", 0>>, q>>}
    BY <2>1 DEF Fetched
  <2> QED
    BY <2>2 DEF shmemc_pmi_exchange_workers, WorkersOfAll, shmemc_pmi_publish_worker
<1>6. Life(p)'
  <2>1. Counts(p)' /\ Held(p)'
    BY <1>1, <1>3, <1>4 DEF Life, Counts, Held, In, Before, Within, After
  <2>2. Published(p)'
    <3>1. WorkersOfAll' = WorkersOfAll
      BY <1>2 DEF WorkersOfAll, Job
    <3> QED
      BY <1>1, <1>3, <1>4, <1>5, <3>1 DEF Life, Published, In
  <2>3. TornDown(p)'
    BY <1>1, <1>3, <1>4 DEF Life, TornDown, In, Before, Closed
  <2> QED
    BY <1>4, <2>1, <2>2, <2>3 DEF Life, In
<1>7. \A q \in Job : Met(p, q)'
  BY <1>4 DEF Met, Within, After, In
<1>8. ASSUME NEW o \in flight' PROVE o.from # p /\ o \in flight
  BY <1>2, <1>3 DEF LifeInv, Flying
<1> QED
  BY <1>2, <1>3, <1>4, <1>6, <1>7, <1>8, Stepped

\* All have published their rkeys and heaps: each has what its endpoints need.
LEMMA HaveRkeysLife ==
  ASSUME IInv, LifeInv, NEW p \in Job, HaveRkeys(p)
  PROVE  LifeInv'
<1>1. p \in PE /\ Life(p) /\ Functions /\ stage \in [PE -> Stages]
  BY JobOfPEs DEF LifeInv, IInv, TypeOK
<1>2. /\ plan' = plan /\ aborting' = aborting /\ flight' = flight /\ Functions'
      /\ \A q \in Job \ {p} : Same(q)
  BY <1>1 DEF HaveRkeys, shmemc_pmi_barrier_all, GoTo, Functions, Same, ctxVars
<1>3. stage[p] = "rkeys" /\ arrived[p] = 2
  BY <1>1 DEF HaveRkeys, In, Life, Counts
<1>4. /\ stage'[p] = "connected" /\ arrived'[p] = 3 /\ refcount'[p] = refcount[p]
      /\ torn'[p] = torn[p] /\ mapped'[p] = mapped[p] /\ progress'[p] = progress[p]
      /\ posted'[p] = posted[p]
      /\ got'[p] = got[p] \cup shmemc_pmi_exchange_rkeys_and_heaps
  BY <1>1, <1>3 DEF HaveRkeys, shmemc_pmi_barrier_all, GoTo, Functions
<1>5. WorkersOfAll \cup shmemc_pmi_exchange_rkeys_and_heaps = NeededForEps
  <2>1. ASSUME NEW q \in Job
        PROVE  {<<"r", 0>>, <<"r", 1>>, <<"b", 1>>, <<"s", 1>>} \subseteq posted[q]
    <3>1. arrived[q] >= 2
      BY <1>3, Everybody DEF HaveRkeys
    <3>2. shmemc_pmi_publish_rkeys_and_heaps \subseteq posted[q]
      BY <3>1 DEF LifeInv, Life, Published
    <3> QED
      BY <3>2 DEF shmemc_pmi_publish_rkeys_and_heaps, publish_one_rkeys, publish_one_heap, nheaps
  <2>2. \A q \in Job : /\ exchange_one_rkeys(0, q) = {<<<<"r", 0>>, q>>}
                       /\ exchange_one_rkeys(1, q) = {<<<<"r", 1>>, q>>}
                       /\ exchange_one_heap(1, q) = {<<<<"b", 1>>, q>>, <<<<"s", 1>>, q>>}
    BY <2>1 DEF exchange_one_rkeys, exchange_one_heap, Fetched
  <2>3. shmemc_pmi_publish_rkeys_and_heaps
          = {<<"r", 0>>, <<"r", 1>>, <<"b", 1>>, <<"s", 1>>}
    BY DEF shmemc_pmi_publish_rkeys_and_heaps, publish_one_rkeys, publish_one_heap, nheaps
  <2>4. 1..nheaps = {1}
    BY DEF nheaps
  <2>5. shmemc_pmi_exchange_rkeys_and_heaps
          = {<<key, q>> : key \in shmemc_pmi_publish_rkeys_and_heaps, q \in Job}
    <3> DEFINE all == shmemc_pmi_exchange_rkeys_and_heaps
               keys == shmemc_pmi_publish_rkeys_and_heaps
    <3>1. \A x : x \in all <=>
             \/ \E q \in Job : x \in exchange_one_rkeys(0, q)
             \/ \E r \in 1..nheaps, q \in Job :
                  x \in exchange_one_rkeys(r, q) \cup exchange_one_heap(r, q)
      <4> DEFINE of_globals(q) == exchange_one_rkeys(0, q)
                 of_heap(r, q) == exchange_one_rkeys(r, q) \cup exchange_one_heap(r, q)
                 first == UNION {of_globals(q) : q \in Job}
                 second == UNION {of_heap(r, q) : r \in 1..nheaps, q \in Job}
      <4>1. all = first \cup second
        BY DEF shmemc_pmi_exchange_rkeys_and_heaps
      <4> HIDE DEF of_globals, of_heap, all
      <4>2. \A x : x \in first <=> \E q \in Job : x \in of_globals(q)
        OBVIOUS
      <4>3. \A x : x \in second <=> \E r \in 1..nheaps, q \in Job : x \in of_heap(r, q)
        OBVIOUS
      <4> HIDE DEF first, second
      <4>4. \A x : x \in all <=> \/ \E q \in Job : x \in of_globals(q)
                               \/ \E r \in 1..nheaps, q \in Job : x \in of_heap(r, q)
        BY <4>1, <4>2, <4>3
      <4> QED
        BY <4>4 DEF of_globals, of_heap
    <3> HIDE DEF all, keys
    <3>2. \A x : x \in all <=>
             \E q \in Job : x \in exchange_one_rkeys(0, q) \cup exchange_one_rkeys(1, q)
                              \cup exchange_one_heap(1, q)
      BY <2>4, <3>1
    <3>3. \A x : x \in all <=> \E q \in Job, key \in keys : x = <<key, q>>
      BY <2>2, <2>3, <3>2 DEF keys
    <3>4. all = {<<key, q>> : key \in keys, q \in Job}
      BY <3>3
    <3> QED
      BY <3>4 DEF all, keys
  <2> QED
    BY <2>5 DEF NeededForEps, WorkersOfAll
<1>6. Life(p)'
  <2>1. Counts(p)' /\ Held(p)'
    BY <1>1, <1>3, <1>4 DEF Life, Counts, Held, In, Before, Within, After
  <2>2. Published(p)'
    <3>1. NeededForEps' = NeededForEps
      BY <1>2 DEF NeededForEps, Job
    <3> QED
      BY <1>1, <1>3, <1>4, <1>5, <3>1 DEF Life, Published, In
  <2>3. TornDown(p)'
    BY <1>1, <1>3, <1>4 DEF Life, TornDown, In, Before, Closed
  <2> QED
    BY <1>4, <2>1, <2>2, <2>3 DEF Life, In
<1>7. \A q \in Job : Met(p, q)'
  BY <1>4 DEF Met, Within, After, In
<1>8. ASSUME NEW o \in flight' PROVE o.from # p /\ o \in flight
  BY <1>2, <1>3 DEF LifeInv, Flying
<1> QED
  BY <1>2, <1>3, <1>4, <1>6, <1>7, <1>8, Stepped

\* The last barrier of shmem_init is begun.
LEMMA StartedLife ==
  ASSUME IInv, LifeInv, NEW p \in Job, Started(p)
  PROVE  LifeInv'
<1>1. p \in PE /\ Life(p) /\ Functions /\ stage \in [PE -> Stages]
  BY JobOfPEs DEF LifeInv, IInv, TypeOK
<1>2. /\ plan' = plan /\ aborting' = aborting /\ flight' = flight /\ Functions'
      /\ \A q \in Job \ {p} : Same(q)
  BY <1>1 DEF Started, Arrive, GoTo, Functions, Same, ctxVars
<1>3. stage[p] = "connected" /\ arrived[p] = 3 /\ refcount[p] = 0 /\ torn[p] = <<>>
  BY <1>1 DEF Started, In, Life, Counts, Held, TornDown, Before
<1>4. /\ stage'[p] = "begin" /\ arrived'[p] = 4 /\ refcount'[p] = 1
      /\ torn'[p] = torn[p] /\ mapped'[p] = mapped[p] /\ posted'[p] = posted[p]
      /\ got'[p] = got[p]
  BY <1>1, <1>3 DEF Started, Arrive, GoTo, Functions
<1>5. Life(p)'
  <2>1. Counts(p)' /\ Held(p)'
    BY <1>1, <1>3, <1>4 DEF Life, Counts, Held, In, Before, Within, After
  <2>2. Published(p)'
    <3>1. NeededForEps' = NeededForEps
      BY <1>2 DEF NeededForEps, Job
    <3> QED
      BY <1>1, <1>3, <1>4, <3>1 DEF Life, Published, In
  <2>3. TornDown(p)'
    <3>1. DOMAIN torn'[p] = {}
      <4>1. DOMAIN <<>> = {}
        OBVIOUS
      <4> QED
        BY <1>3, <1>4, <4>1
    <3> QED
      BY <1>1, <1>3, <1>4, <3>1 DEF Life, TornDown, In, Before, Closed
  <2> QED
    BY <1>4, <2>1, <2>2, <2>3 DEF Life, In
<1>6. \A q \in Job : Met(p, q)'
  BY <1>4 DEF Met, Within, After, In
<1>7. ASSUME NEW o \in flight' PROVE o.from # p /\ o \in flight
  BY <1>2, <1>3 DEF LifeInv, Flying
<1> QED
  BY <1>2, <1>3, <1>4, <1>5, <1>6, <1>7, Stepped

\* shmem_init returns: everybody has come to its barrier.
LEMMA BegunLife ==
  ASSUME IInv, LifeInv, NEW p \in Job, Begun(p)
  PROVE  LifeInv'
<1>1. p \in PE /\ Life(p) /\ Functions /\ stage \in [PE -> Stages]
  BY JobOfPEs DEF LifeInv, IInv, TypeOK
<1>2. /\ plan' = plan /\ aborting' = aborting /\ flight' = flight /\ Functions'
      /\ UNCHANGED <<arrived, refcount, posted, got, mapped, torn, progress>>
      /\ \A q \in Job \ {p} : Same(q)
  BY <1>1 DEF Begun, GoTo, Functions, Same, ctxVars
<1>3. stage[p] = "begin" /\ stage'[p] = "run" /\ arrived[p] = 4
  BY <1>1 DEF Begun, In, GoTo, Life, Counts
<1>4. Life(p)'
  <2>1. Counts(p)' /\ Held(p)'
    BY <1>1, <1>2, <1>3 DEF Life, Counts, Held, In, Before, Within, After
  <2>2. Published(p)'
    <3>1. NeededForEps' = NeededForEps
      BY <1>2 DEF NeededForEps, Job
    <3> QED
      BY <1>1, <1>2, <1>3, <3>1 DEF Life, Published, In
  <2>3. TornDown(p)'
    BY <1>1, <1>2, <1>3 DEF Life, TornDown, In, Before, Closed
  <2> QED
    BY <1>3, <2>1, <2>2, <2>3 DEF Life, In
<1>5. \A q \in Job : Met(p, q)'
  <2>1. \A q \in Job : arrived[q] >= 4
    BY <1>3, Everybody DEF Begun
  <2> QED
    BY <1>2, <1>3, <2>1 DEF Met, Within, After, In
<1>6. ASSUME NEW o \in flight' PROVE o.from # p /\ o \in flight
  BY <1>2, <1>3 DEF LifeInv, Flying
<1>7. arrived'[p] >= arrived[p]
  BY <1>2, <1>3
<1> QED
  BY <1>2, <1>4, <1>5, <1>6, <1>7, Stepped

\* The implicit barrier of shmem_finalize is begun, by the program or at its exit.
LEMMA HelperLife ==
  ASSUME IInv, LifeInv, NEW p \in Job, stage[p] \in {"run", "finalized"}, finalize_helper(p)
  PROVE  LifeInv'
<1>1. p \in PE /\ Life(p) /\ Functions /\ stage \in [PE -> Stages]
  BY JobOfPEs DEF LifeInv, IInv, TypeOK
<1>2. /\ plan' = plan /\ aborting' = aborting /\ flight' = flight /\ Functions'
      /\ \A q \in Job \ {p} : Same(q)
  BY <1>1 DEF finalize_helper, Arrive, GoTo, Functions, Same, ctxVars
<1>3. stage[p] = "run" /\ arrived[p] = 4 /\ refcount[p] = 1
  BY <1>1 DEF finalize_helper, AtWork, In, Life, Counts, Held, Within, After
<1>4. /\ stage'[p] = "finalize" /\ arrived'[p] = 5 /\ refcount'[p] = refcount[p]
      /\ torn'[p] = torn[p] /\ mapped'[p] = mapped[p] /\ posted'[p] = posted[p]
      /\ progress'[p] = progress[p] /\ table'[p] = table[p]
  BY <1>1, <1>3 DEF finalize_helper, Arrive, GoTo, Functions, ctxVars
<1>5. Life(p)'
  <2>1. Counts(p)' /\ Held(p)'
    BY <1>1, <1>3, <1>4 DEF Life, Counts, Held, In, Before, Within, After
  <2>2. Published(p)'
    BY <1>1, <1>3, <1>4 DEF Life, Published, In
  <2>3. TornDown(p)'
    BY <1>1, <1>3, <1>4 DEF Life, TornDown, In, Before, Closed
  <2> QED
    BY <1>4, <2>1, <2>2, <2>3 DEF Life, In
<1>6. \A q \in Job : Met(p, q)'
  <2>1. \A q \in Job : q # p => arrived'[q] = arrived[q]
    BY <1>2 DEF Same
  <2>2. \A q \in Job : Met(p, q)
    BY DEF LifeInv
  <2> QED
    BY <1>3, <1>4, <2>1, <2>2 DEF Met, Within, After, In
<1>7. ASSUME NEW o \in flight', o.from = p PROVE Flying(o)'
  <2>1. Flying(o) /\ o.ctx # Default
    BY <1>2, <1>7 DEF LifeInv, finalize_helper, Flushed
  <2>2. Job' = Job
    BY <1>2 DEF Job
  <2> QED
    BY <1>4, <1>7, <2>1, <2>2 DEF Flying, Closed
<1>8. arrived'[p] >= arrived[p]
  BY <1>3, <1>4
<1> QED
  BY <1>2, <1>5, <1>6, <1>7, <1>8, Stepped

------------------------------------------------------------------------------
\* Shutting down

\* Everybody has come to the implicit barrier: the progress thread is told.
LEMMA ToldLife ==
  ASSUME IInv, LifeInv, NEW p \in Job, shmemu_progress_finalize(p)
  PROVE  LifeInv'
<1>1. p \in PE /\ Life(p) /\ Functions /\ stage \in [PE -> Stages]
  BY JobOfPEs DEF LifeInv, IInv, TypeOK
<1>2. /\ plan' = plan /\ aborting' = aborting /\ flight' = flight /\ table' = table
      /\ UNCHANGED <<arrived, refcount, posted, got, mapped, torn, progress>>
      /\ Functions' /\ \A q \in Job \ {p} : Same(q)
  BY <1>1 DEF shmemu_progress_finalize, GoTo, Functions, Same, ctxVars
<1>3. stage[p] = "finalize" /\ stage'[p] = "join" /\ arrived[p] = 5
  BY <1>1 DEF shmemu_progress_finalize, GoTo, In, Life, Counts, Held, TornDown, Within, Before, Functions
<1>4. Life(p)'
  <2>1. Counts(p)' /\ Held(p)'
    BY <1>1, <1>2, <1>3 DEF Life, Counts, Held, In, Before, Within, After
  <2>2. Published(p)'
    BY <1>1, <1>2, <1>3 DEF Life, Published, In
  <2>3. TornDown(p)'
    BY <1>1, <1>2, <1>3 DEF Life, TornDown, In, Before, Closed
  <2> QED
    BY <1>1, <1>2, <1>3, <2>1, <2>2, <2>3 DEF Life, In
<1>5. \A q \in Job : Met(p, q)'
  <2>1. \A q \in Job : arrived[q] \in Nat /\ arrived[q] >= 5
    BY <1>3, Everybody DEF shmemu_progress_finalize
  <2> QED
    BY <1>2, <1>3, <2>1 DEF Met, Within, After, In
<1>6. ASSUME NEW o \in flight' PROVE (o.from = p /\ Flying(o)') \/ (o.from # p /\ o \in flight)
  <2>1. Flying(o) /\ Job' = Job
    BY <1>2 DEF LifeInv, Job
  <2> QED
    BY <1>2, <1>3, <2>1 DEF Flying, Closed
<1>7. arrived'[p] >= arrived[p]
  BY <1>2, <1>3
<1> QED
  BY <1>2, <1>4, <1>5, <1>6, <1>7, Stepped

\* The progress thread has ended: it leaves the default context alone.
LEMMA JoinedLife ==
  ASSUME IInv, LifeInv, NEW p \in Job, Joined(p)
  PROVE  LifeInv'
<1>1. p \in PE /\ Life(p) /\ Functions /\ stage \in [PE -> Stages]
  BY JobOfPEs DEF LifeInv, IInv, TypeOK
<1>2. /\ plan' = plan /\ aborting' = aborting /\ flight' = flight /\ table' = table
      /\ UNCHANGED <<arrived, refcount, posted, got, mapped, torn, progress>>
      /\ Functions' /\ \A q \in Job \ {p} : Same(q)
  BY <1>1 DEF Joined, GoTo, Functions, Same, ctxVars
<1>3. /\ stage[p] = "join" /\ stage'[p] = "teardown" /\ arrived[p] = 5
      /\ progress[p] \in {"none", "ended"} /\ torn[p] = <<>>
  BY <1>1 DEF Joined, GoTo, In, Life, Counts, Held, TornDown, Within, Before, Functions
<1>4. Life(p)'
  <2>1. Counts(p)' /\ Held(p)'
    BY <1>1, <1>2, <1>3 DEF Life, Counts, Held, In, Before, Within, After
  <2>2. Published(p)'
    BY <1>1, <1>2, <1>3 DEF Life, Published, In
  <2>3. TornDown(p)'
    <3>1. Len(torn[p]) = 0
      <4>1. Len(<<>>) = 0
        OBVIOUS
      <4> QED
        BY <1>3, <4>1
    <3>2. table[p].nctxts \in Nat /\ InOrder(torn[p], 0)
      BY <1>1 DEF IInv, TypeOK, Tables, InOrder
    <3> QED
      BY <1>1, <1>2, <1>3, <3>1, <3>2 DEF Life, TornDown, In, Before, Closed, InOrder
  <2> QED
    BY <1>1, <1>2, <1>3, <2>1, <2>2, <2>3 DEF Life, In
<1>5. \A q \in Job : Met(p, q)'
  <2>1. \A q \in Job : Met(p, q)
    BY DEF LifeInv
  <2> QED
    BY <1>2, <1>3, <2>1 DEF Met, Within, After, In
<1>6. ASSUME NEW o \in flight' PROVE (o.from = p /\ Flying(o)') \/ (o.from # p /\ o \in flight)
  <2>1. Flying(o) /\ Job' = Job
    BY <1>2 DEF LifeInv, Job
  <2> QED
    BY <1>2, <1>3, <2>1 DEF Flying, Closed
<1>7. arrived'[p] >= arrived[p]
  BY <1>2, <1>3
<1> QED
  BY <1>2, <1>4, <1>5, <1>6, <1>7, Stepped

\* After the last fence nobody is waited for, and what is left is given back.
LEMMA FinalizedLife ==
  ASSUME IInv, LifeInv, NEW p \in Job, shmemc_ucx_finalize(p)
  PROVE  LifeInv'
<1>1. p \in PE /\ Life(p) /\ Functions /\ stage \in [PE -> Stages]
  BY JobOfPEs DEF LifeInv, IInv, TypeOK
<1>2. /\ plan' = plan /\ aborting' = aborting /\ flight' = flight /\ table' = table
      /\ UNCHANGED <<arrived, posted, got, torn, progress>>
      /\ Functions' /\ \A q \in Job \ {p} : Same(q)
  BY <1>1 DEF shmemc_ucx_finalize, GoTo, Functions, Same, ctxVars
<1>3. /\ stage[p] = "closed" /\ stage'[p] = "finalized" /\ arrived[p] = 6
      /\ refcount[p] = 1 /\ refcount'[p] = 0 /\ mapped'[p] = {}
  <2>1. /\ stage[p] = "closed" /\ stage'[p] = "finalized" /\ arrived[p] = 6
        /\ refcount[p] = 1 /\ refcount'[p] = refcount[p] - 1
        /\ mapped[p] = register_memory_regions
        /\ mapped'[p] = deregister_memory_regions(mapped[p])
    BY <1>1 DEF shmemc_ucx_finalize, GoTo, In, Life, Counts, Held, Within, Before, Functions
  <2>2. deregister_memory_regions(register_memory_regions) = {}
    BY DEF deregister_memory_regions, deregister_symmetric_heap, deregister_globals,
           register_memory_regions, register_globals, register_symmetric_heap, nheaps
  <2> QED
    BY <2>1, <2>2
<1>4. Life(p)'
  <2>1. Counts(p)' /\ Held(p)'
    BY <1>1, <1>2, <1>3 DEF Life, Counts, Held, In, Before, Within, After
  <2>2. Published(p)'
    BY <1>1, <1>2, <1>3 DEF Life, Published, In
  <2>3. TornDown(p)'
    BY <1>1, <1>2, <1>3 DEF Life, TornDown, In, Before, Closed
  <2> QED
    BY <1>1, <1>2, <1>3, <2>1, <2>2, <2>3 DEF Life, In
<1>5. \A q \in Job : Met(p, q)'
  <2>1. \A q \in Job : arrived[q] \in Nat /\ arrived[q] >= 6
    BY <1>3, Everybody DEF shmemc_ucx_finalize, FenceDone
  <2> QED
    BY <1>2, <1>3, <2>1 DEF Met, Within, After, In
<1>6. ASSUME NEW o \in flight' PROVE (o.from = p /\ Flying(o)') \/ (o.from # p /\ o \in flight)
  BY <1>2, <1>3 DEF LifeInv, Flying
<1>7. arrived'[p] >= arrived[p]
  BY <1>2, <1>3
<1> QED
  BY <1>2, <1>4, <1>5, <1>6, <1>7, Stepped

\* The program is over.
LEMMA LeftLife ==
  ASSUME IInv, LifeInv, NEW p \in Job, Left(p)
  PROVE  LifeInv'
<1>1. p \in PE /\ Life(p) /\ Functions /\ stage \in [PE -> Stages]
  BY JobOfPEs DEF LifeInv, IInv, TypeOK
<1>2. /\ plan' = plan /\ aborting' = aborting /\ flight' = flight /\ table' = table
      /\ UNCHANGED <<arrived, refcount, posted, got, mapped, torn, progress>>
      /\ Functions' /\ \A q \in Job \ {p} : Same(q)
  BY <1>1 DEF Left, GoTo, Functions, Same, ctxVars
<1>3. stage[p] = "finalized" /\ stage'[p] = "out" /\ arrived[p] = 6
  BY <1>1 DEF Left, GoTo, In, Life, Counts, Held, TornDown, Within, Before, Functions
<1>4. Life(p)'
  <2>1. Counts(p)' /\ Held(p)'
    BY <1>1, <1>2, <1>3 DEF Life, Counts, Held, In, Before, Within, After
  <2>2. Published(p)'
    BY <1>1, <1>2, <1>3 DEF Life, Published, In
  <2>3. TornDown(p)'
    BY <1>1, <1>2, <1>3 DEF Life, TornDown, In, Before, Closed
  <2> QED
    BY <1>1, <1>2, <1>3, <2>1, <2>2, <2>3 DEF Life, In
<1>5. \A q \in Job : Met(p, q)'
  <2>1. \A q \in Job : Met(p, q)
    BY DEF LifeInv
  <2> QED
    BY <1>2, <1>3, <2>1 DEF Met, Within, After, In
<1>6. ASSUME NEW o \in flight' PROVE (o.from = p /\ Flying(o)') \/ (o.from # p /\ o \in flight)
  BY <1>2, <1>3 DEF LifeInv, Flying
<1>7. arrived'[p] >= arrived[p]
  BY <1>2, <1>3
<1> QED
  BY <1>2, <1>4, <1>5, <1>6, <1>7, Stepped

\* A PE leaves without the exit handlers.
LEMMA AbortedLife ==
  ASSUME IInv, LifeInv, NEW p \in Job, notification_fn(p)
  PROVE  LifeInv'
<1>1. p \in PE /\ Life(p) /\ Functions /\ stage \in [PE -> Stages]
  BY JobOfPEs DEF LifeInv, IInv, TypeOK
<1>2. /\ plan' = plan /\ aborting' = aborting /\ flight' = flight /\ table' = table
      /\ UNCHANGED <<arrived, refcount, posted, got, mapped, torn, progress>>
      /\ Functions' /\ \A q \in Job \ {p} : Same(q)
  BY <1>1 DEF notification_fn, GoTo, Functions, Same, ctxVars
<1>3. stage'[p] = "gone" /\ aborting /\ arrived[p] \in Nat
  BY <1>1 DEF notification_fn, GoTo, In, Life, Counts, Held, TornDown, Within, Before, Functions
<1>4. Life(p)'
  <2>1. Counts(p)' /\ Held(p)'
    BY <1>1, <1>2, <1>3 DEF Life, Counts, Held, In, Before, Within, After
  <2>2. Published(p)'
    BY <1>1, <1>2, <1>3 DEF Life, Published, In
  <2>3. TornDown(p)'
    BY <1>1, <1>2, <1>3 DEF Life, TornDown, In, Before, Closed
  <2> QED
    BY <1>1, <1>2, <1>3, <2>1, <2>2, <2>3 DEF Life, In
<1>5. \A q \in Job : Met(p, q)'
  BY <1>3 DEF Met, Within, After, In
<1>6. ASSUME NEW o \in flight' PROVE (o.from = p /\ Flying(o)') \/ (o.from # p /\ o \in flight)
  <2>1. Flying(o) /\ Job' = Job
    BY <1>2 DEF LifeInv, Job
  <2> QED
    BY <1>2, <1>3, <2>1 DEF Flying, Closed
<1>7. arrived'[p] >= arrived[p]
  BY <1>2, <1>3
<1> QED
  BY <1>2, <1>4, <1>5, <1>6, <1>7, Stepped

\* PE 0 is killed in a split of a team without members.
LEMMA KilledLife ==
  ASSUME IInv, LifeInv, SplitNobody
  PROVE  LifeInv'
<1>0. 0 \in Job
  BY JobOfPEs, PlanAssumption DEF Job, IInv, TypeOK
<1>1. 0 \in PE /\ Life(0) /\ Functions /\ stage \in [PE -> Stages]
  BY <1>0, JobOfPEs DEF LifeInv, IInv, TypeOK
<1>2. /\ plan' = plan /\ aborting' /\ flight' = flight /\ table' = table
      /\ UNCHANGED <<arrived, refcount, posted, got, mapped, torn, progress>>
      /\ Functions' /\ \A q \in Job \ {0} : Same(q)
  BY <1>1 DEF SplitNobody, GoTo, Functions, Same, ctxVars
<1>3. stage'[0] = "gone" /\ arrived[0] \in Nat
  BY <1>1 DEF SplitNobody, GoTo, In, Life, Counts, Held, TornDown, Within, Before, Functions
<1>4. Life(0)'
  <2>1. Counts(0)' /\ Held(0)'
    BY <1>1, <1>2, <1>3 DEF Life, Counts, Held, In, Before, Within, After
  <2>2. Published(0)'
    BY <1>1, <1>2, <1>3 DEF Life, Published, In
  <2>3. TornDown(0)'
    BY <1>1, <1>2, <1>3 DEF Life, TornDown, In, Before, Closed
  <2> QED
    BY <1>1, <1>2, <1>3, <2>1, <2>2, <2>3 DEF Life, In
<1>5. \A q \in Job : Met(0, q)'
  BY <1>3 DEF Met, Within, After, In
<1>6. ASSUME NEW o \in flight' PROVE (o.from = 0 /\ Flying(o)') \/ (o.from # 0 /\ o \in flight)
  <2>1. Flying(o) /\ Job' = Job
    BY <1>2 DEF LifeInv, Job
  <2> QED
    BY <1>2, <1>3, <2>1 DEF Flying, Closed
<1>7. arrived'[0] >= arrived[0]
  BY <1>2, <1>3
<1> QED
  BY <1>0, <1>2, <1>4, <1>5, <1>6, <1>7, Stepped

\* The progress thread goes on, as long as it has not been joined.
LEMMA ThreadLife ==
  ASSUME IInv, LifeInv, NEW p \in Job, ProgressThread(p)
  PROVE  LifeInv'
<1>1. p \in PE /\ Life(p) /\ Functions /\ stage \in [PE -> Stages]
  BY JobOfPEs DEF LifeInv, IInv, TypeOK
<1>2. /\ plan' = plan /\ aborting' = aborting /\ flight' = flight /\ table' = table
      /\ UNCHANGED <<stage, arrived, refcount, posted, got, mapped, torn>>
      /\ Functions' /\ \A q \in Job \ {p} : Same(q)
  <2>1. \E v : progress' = [progress EXCEPT ![p] = v]
    BY DEF ProgressThread
  <2>2. PICK v : progress' = [progress EXCEPT ![p] = v]
    BY <2>1
  <2>3. /\ plan' = plan /\ aborting' = aborting /\ flight' = flight /\ table' = table
        /\ UNCHANGED <<stage, arrived, refcount, posted, got, mapped, torn>>
    BY DEF ProgressThread, ctxVars
  <2> QED
    BY <1>1, <2>2, <2>3 DEF Functions, Same
<1>3. /\ progress[p] \in {"driving", "asleep"} /\ progress'[p] \in {"driving", "asleep", "ended"}
      /\ stage[p] \notin {"teardown", "closed", "finalized", "out", "gone"}
      /\ arrived[p] \in Nat
  BY <1>1 DEF ProgressThread, GoTo, In, Life, Counts, Held, TornDown, Within, Before, Functions
<1>4. Life(p)'
  <2>1. Counts(p)' /\ Held(p)'
    BY <1>1, <1>2, <1>3 DEF Life, Counts, Held, In, Before, Within, After
  <2>2. Published(p)'
    <3>1. NeededForEps' = NeededForEps /\ WorkersOfAll' = WorkersOfAll
      BY <1>2 DEF NeededForEps, WorkersOfAll, Job
    <3> QED
      BY <1>1, <1>2, <1>3, <3>1 DEF Life, Published, In
  <2>3. TornDown(p)'
    <3>1. stage[p] \in Before \cup {"begin", "run", "finalize", "join"}
      BY <1>1, <1>3 DEF Stages, Before
    <3>2. DOMAIN <<>> = {}
      OBVIOUS
    <3>3. torn[p] = <<>> /\ DOMAIN torn[p] = {}
      BY <1>1, <3>1, <3>2 DEF Life, TornDown
    <3> QED
      BY <1>1, <1>2, <1>3, <3>3 DEF Life, TornDown, In, Before, Closed
  <2> QED
    BY <1>1, <1>2, <1>3, <2>1, <2>2, <2>3 DEF Life, In
<1>5. \A q \in Job : Met(p, q)'
  <2>1. \A q \in Job : Met(p, q)
    BY DEF LifeInv
  <2> QED
    BY <1>2, <1>3, <2>1 DEF Met, Within, After, In
<1>6. ASSUME NEW o \in flight' PROVE (o.from = p /\ Flying(o)') \/ (o.from # p /\ o \in flight)
  <2>1. Flying(o) /\ Job' = Job
    BY <1>2 DEF LifeInv, Job
  <2> QED
    BY <1>2, <1>3, <2>1 DEF Flying, Closed
<1>7. arrived'[p] >= arrived[p]
  BY <1>2, <1>3
<1> QED
  BY <1>2, <1>4, <1>5, <1>6, <1>7, Stepped

\* One more is torn down after those before it.
LEMMA Longer ==
  ASSUME NEW s \in Seq(Int), NEW x \in Int
  PROVE  /\ Append(s, x) \in Seq(Int) /\ Len(Append(s, x)) = Len(s) + 1
         /\ \A i \in 1..Len(s) : Append(s, x)[i] = s[i]
         /\ Append(s, x)[Len(s) + 1] = x
         /\ DOMAIN s = 1..Len(s) /\ DOMAIN Append(s, x) = 1..(Len(s) + 1) /\ Len(s) \in Nat
OBVIOUS

\* The contexts of the table are torn down, the first first.
LEMMA ContextsGone ==
  ASSUME IInv, LifeInv, NEW p \in Job, shmemc_team_contexts_destroy(p)
  PROVE  LifeInv'
<1>1. p \in PE /\ Life(p) /\ Functions /\ stage \in [PE -> Stages]
  BY JobOfPEs DEF LifeInv, IInv, TypeOK
<1>2. /\ plan' = plan /\ aborting' = aborting /\ flight' = flight /\ table' = table
      /\ UNCHANGED <<stage, arrived, refcount, posted, got, mapped, progress>>
      /\ Functions' /\ \A q \in Job \ {p} : Same(q)
  BY <1>1 DEF shmemc_team_contexts_destroy, shmemc_ucx_teardown_context, Functions, Same, ctxVars
<1>3. /\ stage[p] = "teardown" /\ torn[p] \in Seq(Int) /\ table[p].nctxts \in Nat
      /\ InOrder(torn[p], Len(torn[p])) /\ progress[p] \in {"none", "ended"}
      /\ Len(torn[p]) < table[p].nctxts /\ torn'[p] = Append(torn[p], Len(torn[p]))
      /\ Flushed(p, Len(torn[p])) /\ arrived[p] \in Nat
  BY <1>1 DEF shmemc_team_contexts_destroy, shmemc_ucx_teardown_context, In, Life, TornDown,
              Held, Functions, IInv, TypeOK, Tables, Counts
<1>4. TornDown(p)'
  <2> DEFINE s == torn[p]
             t == torn'[p]
             n == table[p].nctxts
  <2>1. /\ s \in Seq(Int) /\ Len(s) \in Int /\ n \in Nat /\ Len(s) < n
        /\ t = Append(s, Len(s)) /\ \A k \in 1..Len(s) : s[k] = k - 1
    BY <1>3 DEF InOrder
  <2> HIDE DEF s, t, n
  <2>2. /\ t \in Seq(Int) /\ Len(t) = Len(s) + 1 /\ DOMAIN t = 1..(Len(s) + 1)
        /\ Len(t) <= n /\ \A k \in 1..(Len(s) + 1) : t[k] = k - 1
    BY <2>1, Longer
  <2>3. \A i, j \in DOMAIN t : t[i] = t[j] => i = j
    BY <2>2
  <2>4. t \in Seq(Int) /\ Len(t) <= n /\ InOrder(t, Len(t))
    BY <2>2 DEF InOrder
  <2> QED
    BY <1>2, <1>3, <2>3, <2>4 DEF TornDown, In, Before, t, n
<1>5. Life(p)'
  <2>1. Counts(p)' /\ Held(p)'
    BY <1>1, <1>2, <1>3 DEF Life, Counts, Held, In
  <2>2. Published(p)'
    BY <1>1, <1>2, <1>3 DEF Life, Published, In
  <2> QED
    BY <1>2, <1>3, <1>4, <2>1, <2>2 DEF Life, In
<1>6. \A q \in Job : Met(p, q)'
  BY <1>2 DEF LifeInv, Met, In
<1>7. ASSUME NEW o \in flight', o.from = p PROVE Flying(o)'
  <2>1. Flying(o) /\ Job' = Job /\ o.ctx # Len(torn[p])
    BY <1>2, <1>3, <1>7 DEF LifeInv, Job, Flushed
  <2>2. Closed(p)' = Closed(p) \cup {Len(torn[p])}
    <3> DEFINE s == torn[p]
               t == torn'[p]
    <3>1. s \in Seq(Int) /\ Len(s) \in Int /\ t = Append(s, Len(s))
      BY <1>3
    <3> HIDE DEF s, t
    <3>2. /\ DOMAIN s = 1..Len(s) /\ DOMAIN t = 1..(Len(s) + 1) /\ Len(s) \in Nat
          /\ \A i \in 1..Len(s) : t[i] = s[i]
          /\ t[Len(s) + 1] = Len(s)
      BY <3>1, Longer
    <3>3. {t[i] : i \in DOMAIN t} = {s[i] : i \in DOMAIN s} \cup {Len(s)}
      BY <3>2
    <3> QED
      BY <3>3 DEF Closed, s, t
  <2> QED
    BY <1>2, <1>7, <2>1, <2>2 DEF Flying
<1>8. arrived'[p] >= arrived[p]
  BY <1>2, <1>3
<1> QED
  BY <1>2, <1>5, <1>6, <1>7, <1>8, Stepped

\* The default context is torn down, the last of all.
LEMMA DefaultGone ==
  ASSUME IInv, LifeInv, NEW p \in Job, shmemc_ucx_context_default_destroy(p)
  PROVE  LifeInv'
<1>1. p \in PE /\ Life(p) /\ Functions /\ stage \in [PE -> Stages]
  BY JobOfPEs DEF LifeInv, IInv, TypeOK
<1>2. /\ plan' = plan /\ aborting' = aborting /\ flight' = flight /\ table' = table
      /\ UNCHANGED <<refcount, posted, got, mapped, progress>>
      /\ Functions' /\ \A q \in Job \ {p} : Same(q)
  BY <1>1 DEF shmemc_ucx_context_default_destroy, shmemc_ucx_teardown_context,
              shmemc_pmi_barrier_all, GoTo, Functions, Same, ctxVars
<1>3. /\ stage[p] = "teardown" /\ torn[p] \in Seq(Int) /\ table[p].nctxts \in Nat
      /\ InOrder(torn[p], Len(torn[p])) /\ progress[p] \in {"none", "ended"}
      /\ Len(torn[p]) = table[p].nctxts /\ torn'[p] = Append(torn[p], Default)
      /\ arrived[p] = 5 /\ arrived'[p] = 6 /\ stage'[p] = "closed"
  <2>1. torn[p] \in Seq(Int) /\ Len(torn[p]) <= table[p].nctxts /\ table[p].nctxts \in Nat
    BY <1>1 DEF shmemc_ucx_context_default_destroy, In, Life, TornDown, IInv, TypeOK, Tables
  <2>2. Len(torn[p]) \in Nat /\ Len(torn[p]) >= table[p].nctxts
    BY <2>1 DEF shmemc_ucx_context_default_destroy
  <2> QED
    BY <1>1, <2>1, <2>2
    DEF shmemc_ucx_context_default_destroy, shmemc_ucx_teardown_context,
        shmemc_pmi_barrier_all, GoTo, In, Life, TornDown, Held, Functions, Counts
<1>4. TornDown(p)'
  <2> DEFINE s == torn[p]
             t == torn'[p]
             n == table[p].nctxts
  <2>1. /\ s \in Seq(Int) /\ Default \in Int /\ Default < 0 /\ n \in Nat /\ Len(s) = n
        /\ t = Append(s, Default) /\ \A k \in 1..n : s[k] = k - 1
    BY <1>3 DEF InOrder, Default
  <2> HIDE DEF s, t, n
  <2>2. /\ t \in Seq(Int) /\ Len(t) = n + 1 /\ DOMAIN t = 1..(n + 1)
        /\ t[n + 1] = Default /\ \A k \in 1..n : t[k] = k - 1
    BY <2>1, Longer
  <2>3. \A i, j \in DOMAIN t : t[i] = t[j] => i = j
    BY <2>1, <2>2
  <2>4. t \in Seq(Int) /\ Len(t) = n + 1 /\ InOrder(t, n) /\ t[n + 1] = Default
    BY <2>2 DEF InOrder
  <2> QED
    BY <1>2, <1>3, <2>3, <2>4 DEF TornDown, In, Before, t, n
<1>5. Life(p)'
  <2>1. Counts(p)' /\ Held(p)'
    BY <1>1, <1>2, <1>3 DEF Life, Counts, Held, In, Before, Within, After
  <2>2. Published(p)'
    BY <1>1, <1>2, <1>3 DEF Life, Published, In
  <2> QED
    BY <1>2, <1>3, <1>4, <2>1, <2>2 DEF Life, In
<1>6. \A q \in Job : Met(p, q)'
  <2>1. ASSUME NEW q \in Job PROVE Met(p, q) /\ arrived[q] \in Nat /\ (q # p => arrived'[q] = arrived[q])
    BY <1>2 DEF LifeInv, Life, Counts, Same
  <2> QED
    BY <1>3, <2>1 DEF Met, Within, After, In
<1>7. ASSUME NEW o \in flight' PROVE o.from # p /\ o \in flight
  <2>1. SUFFICES ASSUME o.from = p PROVE FALSE
    BY <1>2
  <2>2. Flying(o) /\ o.ctx # Default
    BY <1>2, <1>3, <2>1 DEF LifeInv, Flying
  <2>3. o.ctx \in Nat /\ o.ctx < Len(torn[p]) /\ o.ctx \notin Closed(p)
    BY <1>3, <2>1, <2>2 DEF Flying
  <2>4. o.ctx + 1 \in DOMAIN torn[p] /\ torn[p][o.ctx + 1] = o.ctx
    <3>1. Len(torn[p]) \in Nat /\ DOMAIN torn[p] = 1..Len(torn[p])
      BY <1>3
    <3>2. o.ctx + 1 \in 1..Len(torn[p])
      BY <2>3, <3>1
    <3>3. torn[p][o.ctx + 1] = (o.ctx + 1) - 1
      BY <1>3, <3>2 DEF InOrder
    <3> QED
      BY <2>3, <3>1, <3>2, <3>3
  <2> QED
    BY <2>3, <2>4 DEF Closed
<1>8. arrived'[p] >= arrived[p]
  BY <1>3
<1> QED
  BY <1>2, <1>5, <1>6, <1>7, <1>8, Stepped

------------------------------------------------------------------------------
\* The program's contexts and what it puts

\* A table does not get shorter.
LEMMA TableGrows ==
  ASSUME IInv, NEW t \in Thread, InContextCall(t), NEW p \in PE
  PROVE  table'[p].nctxts \in Nat /\ table'[p].nctxts >= table[p].nctxts
         /\ (p # of(t) => table'[p] = table[p])
<1>1. of(t) \in PE /\ table \in [PE -> Tables]
  BY ThreadAssumption DEF of, IInv, TypeOK
<1>2. CASE get_usable_context(t)
  <2> DEFINE tab == SlotTaken(table[of(t)], call[t].reused)
  <2>1. table' = [table EXCEPT ![of(t)] = tab]
    BY <1>2 DEF get_usable_context
  <2>2. tab.nctxts \in {table[of(t)].nctxts, table[of(t)].nctxts + 1}
    BY <1>1 DEF SlotTaken, resize_spill_block, Tables
  <2> HIDE DEF tab
  <2>3. table'[p] = IF p = of(t) THEN tab ELSE table[p]
    BY <1>1, <2>1
  <2>4. table[p].nctxts \in Nat
    BY <1>1 DEF Tables
  <2> QED
    BY <2>2, <2>3, <2>4
<1>3. CASE CreateReturns(t)
  BY <1>1, <1>3 DEF CreateReturns, Tables
<1>4. CASE context_deregister(t)
  <2>1. PICK f : table' = [table EXCEPT ![of(t)].free = f]
    BY <1>4 DEF context_deregister
  <2>2. table'[p] = IF p = of(t) THEN [table[p] EXCEPT !.free = f] ELSE table[p]
    BY <1>1, <2>1
  <2>3. table[p] \in Tables
    BY <1>1
  <2> QED
    BY <2>2, <2>3 DEF Tables
<1> QED
  BY <1>2, <1>3, <1>4 DEF InContextCall

\* A thread creates and destroys contexts, and puts.
LEMMA UsesLife ==
  ASSUME IInv, LifeInv, NEW t \in Thread, UseContexts(t)
  PROVE  LifeInv'
<1> DEFINE p == of(t)
<1>1. /\ p \in Job /\ p \in PE /\ Life(p) /\ stage[p] = "run" /\ arrived[p] = 4
      /\ torn[p] = <<>> /\ table[p].nctxts \in Nat
  <2>1. p \in Job /\ stage[p] = "run"
    BY DEF UseContexts, In
  <2>2. p \in PE /\ Life(p)
    BY <2>1, JobOfPEs DEF LifeInv
  <2> QED
    BY <2>1, <2>2 DEF Life, Counts, TornDown, Before, In, IInv, TypeOK, Tables
<1>2. /\ UNCHANGED <<plan, stage, arrived, posted, got, mapped, torn, refcount, progress>>
      /\ aborting' = aborting /\ Job' = Job
  BY DEF UseContexts, libVars, Job
<1>3. Functions'
  BY <1>2 DEF LifeInv, Functions
<1>4. \A q \in Job : Met(p, q)'
  BY <1>1, <1>2 DEF LifeInv, Met, In
<1>5. DOMAIN torn[p] = {}
  <2>1. DOMAIN <<>> = {}
    OBVIOUS
  <2> QED
    BY <1>1, <2>1
<1>6. CASE UNCHANGED <<table, flight>>
  BY <1>2, <1>6, Unseen
<1>7. CASE InContextCall(t)
  <2>1. flight' = flight
    BY <1>7 DEF InContextCall, get_usable_context, CreateReturns, context_deregister
  <2>2. /\ \A q \in Job \ {p} : table'[q] = table[q]
        /\ table'[p].nctxts \in Nat /\ table'[p].nctxts >= table[p].nctxts
    BY <1>1, <1>7, TableGrows, JobOfPEs
  <2>3. \A q \in Job \ {p} : Same(q)
    BY <1>2, <2>2 DEF Same
  <2>4. Life(p)'
    <3>1. Counts(p)' /\ Held(p)'
      BY <1>1, <1>2 DEF Life, Counts, Held, In
    <3>2. Published(p)'
      BY <1>1, <1>2 DEF Life, Published, NeededForEps, WorkersOfAll, In
    <3>3. TornDown(p)'
      BY <1>1, <1>2, <1>5 DEF Life, TornDown, In, Closed
    <3> QED
      BY <1>1, <1>2, <3>1, <3>2, <3>3 DEF Life, In
  <2>5. ASSUME NEW o \in flight', o.from = p PROVE Flying(o)'
    <3>1. Flying(o)
      BY <2>1 DEF LifeInv
    <3> QED
      BY <1>1, <1>2, <2>2, <2>5, <3>1 DEF Flying, Closed
  <2>6. arrived'[p] >= arrived[p]
    BY <1>1, <1>2
  <2> HIDE DEF p
  <2> QED
    BY <1>1, <1>2, <1>3, <1>4, <2>1, <2>3, <2>4, <2>5, <2>6, Stepped
<1>8. CASE \E idx \in handles[t] \cup {Default}, q \in Job : Put(t, idx, q)
  <2>1. PICK idx \in handles[t] \cup {Default}, q \in Job : Put(t, idx, q)
    BY <1>8
  <2> DEFINE new == [from |-> p, ctx |-> idx, to |-> q, n |-> puts[p]]
  <2>2. flight' = flight \cup {new} /\ table' = table
    BY <2>1 DEF Put
  <2>3. \A r \in Job : Same(r)
    BY <1>2, <2>2 DEF Same
  <2>4. Life(p)'
    BY <1>1, <1>2, <2>3, Unmoved
  <2>5. idx = Default \/ (idx \in Nat /\ idx < table[p].nctxts)
    BY DEF IInv, TypeOK, Apart, Holds
  <2>6. ASSUME NEW o \in flight', o.from = p PROVE Flying(o)'
    <3>1. CASE o = new
      BY <1>1, <1>2, <1>5, <2>2, <2>5, <3>1 DEF Flying, Closed
    <3>2. CASE o \in flight
      BY <1>2, <2>2, <3>2 DEF LifeInv, Flying, Closed
    <3> QED
      BY <2>2, <3>1, <3>2
  <2>7. ASSUME NEW o \in flight', o.from # p PROVE o \in flight
    BY <2>2, <2>7
  <2>8. arrived'[p] >= arrived[p]
    BY <1>1, <1>2
  <2> HIDE DEF p, new
  <2> QED
    BY <1>1, <1>2, <1>3, <1>4, <2>3, <2>4, <2>6, <2>7, <2>8, Stepped
<1> QED
  <2>1. CASE Create(t, t[2] = 1)
    BY <1>6, <2>1 DEF Create
  <2>2. CASE \E idx \in handles[t] : Destroy(t, idx)
    BY <1>6, <2>2 DEF Destroy
  <2> HIDE DEF p
  <2> QED
    BY <1>7, <1>8, <2>1, <2>2 DEF UseContexts

\* Every step keeps the invariant.
LEMMA NextLife == IInv /\ LifeInv /\ [Next]_vars => LifeInv'
<1> SUFFICES ASSUME IInv, LifeInv, [Next]_vars PROVE LifeInv'
  OBVIOUS
<1>1. ASSUME NEW p \in Job, Step(p) PROVE LifeInv'
  <2>1. CASE AtExit(p)
    BY <2>1, HelperLife DEF AtExit
  <2>2. CASE HaveWorkers(p) \/ HaveRkeys(p) \/ Started(p) \/ Begun(p)
    BY <2>2, HaveWorkersLife, HaveRkeysLife, StartedLife, BegunLife
  <2>3. CASE Left(p) \/ shmemu_progress_finalize(p) \/ Joined(p)
    BY <2>3, LeftLife, ToldLife, JoinedLife
  <2>4. CASE shmemc_team_contexts_destroy(p) \/ shmemc_ucx_context_default_destroy(p)
    BY <2>4, ContextsGone, DefaultGone
  <2>5. CASE shmemc_ucx_finalize(p) \/ notification_fn(p)
    BY <2>5, FinalizedLife, AbortedLife
  <2> QED
    BY <1>1, <2>1, <2>2, <2>3, <2>4, <2>5 DEF Step
<1>2. CASE Landing
  BY <1>2, Unseen DEF Landing, Land, libVars
<1>3. CASE Program
  <2>1. CASE \E p \in Job : Setup(p)
    BY <2>1, SetupLife
  <2>2. CASE \E p \in Job : Finalize(p)
    <3>1. PICK p \in Job : Finalize(p)
      BY <2>2
    <3>2. stage[p] \in {"run", "finalized"} /\ finalize_helper(p)
      BY <3>1 DEF Finalize, In
    <3> QED
      BY <3>2, HelperLife
  <2>3. CASE \E p \in Job : Exit(p) \/ shmem_global_exit(p)
    BY <2>3, Unseen DEF Exit, shmem_global_exit, ctxVars
  <2>4. CASE \E t \in Thread : UseContexts(t)
    BY <2>4, UsesLife
  <2>5. CASE UseTeams
    <3>1. CASE SplitNobody
      BY <3>1, KilledLife
    <3>2. CASE ~SplitNobody
      BY <2>5, <3>2, Unseen DEF UseTeams, Split, shmemc_team_destroy, ctxVars
    <3> QED
      BY <3>1, <3>2
  <2> QED
    BY <1>3, <2>1, <2>2, <2>3, <2>4, <2>5 DEF Program
<1>4. CASE UNCHANGED vars
  BY <1>4, Unseen DEF vars, ctxVars, libVars
<1>5. CASE \E p \in Job : ProgressThread(p)
  BY <1>5, ThreadLife
<1> QED
  BY <1>1, <1>2, <1>3, <1>4, <1>5 DEF Next

\* The invariant holds all the time.
LEMMA LifeGoesOn == Spec => [](IInv /\ LifeInv)
<1>1. Init => IInv /\ LifeInv
  BY InitIInv, InitLife
<1>2. IInv /\ LifeInv /\ [Next]_vars => IInv' /\ LifeInv'
  BY NextIInv, NextLife
<1> QED
  BY <1>1, <1>2, PTL DEF Spec

\* Whatever is on its way comes from a context that is still there and goes to memory that
\* is still registered: shmem_finalize's barrier, the endpoints' closing and the last fence
\* (shmemc.c finalize, contexts.c, ucx/init.c) keep a PE from taking down what another still
\* needs, for any number of PEs, threads, contexts and puts.
THEOREM LivingOnly == Spec => []ReachesTheLiving
BY LifeGoesOn, LivingReached, PTL

\* Each context is torn down once, after the progress thread has left the default one alone,
\* and a PE that is out has left nothing, whether the program finalises, exits or does both
\* (api/init.c finalize_helper, which counts).
THEOREM CleanEnd == Spec => []NothingLeft
BY LifeGoesOn, AllGone, PTL

==============================================================================
