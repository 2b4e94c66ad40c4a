-------------------------- MODULE SymmetricHeap_proof --------------------------
(***************************************************************************)
(* For any PEs, heap, requests and program: while one PE may use a block,  *)
(* no PE's allocator gives its memory away; the blocks in use are apart;   *)
(* and every tree knows what is free.                                      *)
(*                                                                         *)
(* First how the PEs agree without a word to each other (IInv), for which  *)
(* what the allocator computes does not matter; then what the operators of *)
(* Buddy do to a tree that shows a set of blocks; then that every PE's     *)
(* tree shows the blocks its calls got (HeapInv).                          *)
(***************************************************************************)
EXTENDS SymmetricHeap, SequenceTheorems, FiniteSetTheorems, WellFoundedInduction, TLAPS

\* What an allocator goes through is settled by the program alone.  H[n] is what one
\* is left with after the first n calls, G[k] what the k-th call returns, and B[n]
\* the barriers in the first n calls.
Made(call, k, s, n, freed, h, g, b) ==
  LET units == Units(call[2])
      idx == Place(s.tree, Exponent(units))
  IN  \/ /\ call = <<"malloc", 0>>
         /\ h = s /\ g = NULL /\ b = n
      \/ /\ call[1] = "malloc" /\ call[2] # 0 /\ Fits(s.tree, units)
         /\ h = [tree |-> Taken(s.tree, idx), mine |-> s.mine \cup {k}]
         /\ g = Address(Offset(idx)) /\ b = n + 1
      \/ /\ call[1] = "malloc" /\ call[2] # 0 /\ ~Fits(s.tree, units)
         /\ h = s /\ g = Failure /\ b = n + 1
      \/ /\ call[1] = "free" /\ call[2] \in s.mine
         /\ h = [tree |-> Freed(s.tree, freed \div Grain), mine |-> s.mine \ {call[2]}]
         /\ g = NULL /\ b = n + 1
Effect(call, k, H, G, B) ==
  Made(call, k, H[k - 1], B[k - 1], G[call[2]], H[k], G[k], B[k])

\* a block that was handed out and not freed by any of the first n calls
Kept(cs, G, k, n) ==
  cs[k][1] = "malloc" /\ IsBlock(G[k]) /\ \A j \in 1..n : cs[j] # <<"free", k>>

History(cs, H, G, B) ==
  /\ H[0] = [tree |-> New, mine |-> {}] /\ B[0] = 0
  /\ \A k \in 1..Len(cs) : Effect(cs[k], k, H, G, B)
  /\ \A n \in 0..Len(cs) :
       /\ B[n] \in Nat /\ \A m \in 0..n : B[m] <= B[n]
       /\ H[n].mine \subseteq 1..n
       /\ \A k \in 1..n : Kept(cs, G, k, n) => k \in H[n].mine

\* how many calls p's allocator has seen, and how many have an answer
Seen(cs, p) ==
  IF pc[p] = "out" \/ (pc[p] \in {"arrive", "wait"} /\ cs[at[p]][1] = "malloc")
  THEN at[p] ELSE at[p] - 1
Answers(p) == IF pc[p] = "allocate" THEN at[p] - 1 ELSE at[p]

Follows(p, cs, H, G, B) ==
  /\ tree[p] = H[Seen(cs, p)].tree /\ mine[p] = H[Seen(cs, p)].mine
  /\ got[p] = [k \in 1..Answers(p) |-> G[k]]
  /\ entered[p] = IF pc[p] \in {"allocate", "arrive"} THEN B[at[p]] - 1 ELSE B[at[p]]
  /\ left[p] = IF pc[p] \in {"allocate", "arrive", "wait"} THEN B[at[p]] - 1 ELSE B[at[p]]
  /\ pc[p] # "out" => at[p] > 0 /\ cs[at[p]] # <<"malloc", 0>>
  /\ pc[p] = "allocate" => cs[at[p]][1] = "malloc"
  /\ pc[p] = "release" => cs[at[p]][1] = "free"

Calls == {"malloc", "free"} \X Nat
Places ==
  /\ calls \in Seq(Calls)
  /\ at \in [PE -> Nat] /\ \A p \in PE : at[p] <= Len(calls)
  /\ pc \in [PE -> {"out", "allocate", "arrive", "wait", "release"}]
  /\ DOMAIN tree = PE /\ DOMAIN got = PE /\ DOMAIN mine = PE
  /\ DOMAIN entered = PE /\ DOMAIN left = PE

\* nobody has left a barrier that somebody has not entered
Waiting == \A p, q \in PE : left[p] <= entered[q]

Replayed == \E H, G, B : History(calls, H, G, B) /\ \A p \in PE : Follows(p, calls, H, G, B)

IInv == Places /\ Waiting /\ Replayed

------------------------------------------------------------------------------
\* Answers and calls are appended.

LEMMA Appended ==
  ASSUME NEW n \in Nat, NEW G, NEW e
  PROVE  Append([k \in 1..n |-> G[k]], e) = [k \in 1..(n + 1) |-> IF k <= n THEN G[k] ELSE e]
<1> DEFINE s == [k \in 1..n |-> G[k]]
           S == {G[k] : k \in 1..n} \cup {e}
<1>1. s \in Seq(S) /\ Len(s) = n
  OBVIOUS
<1>2. /\ Append(s, e) \in Seq(S) /\ Len(Append(s, e)) = n + 1
      /\ \A i \in 1..n : Append(s, e)[i] = s[i]
      /\ Append(s, e)[n + 1] = e
  BY <1>1, AppendProperties
<1>3. Append(s, e) \in [1..(n + 1) -> S]
  BY <1>2, LenProperties
<1> QED
  BY <1>2, <1>3

LEMMA Answered ==
  ASSUME NEW n \in Nat, NEW G, NEW e, G[n + 1] = e
  PROVE  Append([k \in 1..n |-> G[k]], e) = [k \in 1..(n + 1) |-> G[k]]
<1>1. \A k \in 1..(n + 1) : G[k] = IF k <= n THEN G[k] ELSE e
  OBVIOUS
<1> QED
  BY <1>1, Appended

LEMMA Asked ==
  ASSUME NEW cs \in Seq(Calls), NEW call \in Calls
  PROVE  /\ Append(cs, call) \in Seq(Calls) /\ Len(Append(cs, call)) = Len(cs) + 1
         /\ \A i \in 1..Len(cs) : Append(cs, call)[i] = cs[i] /\ cs[i] \in Calls
         /\ Append(cs, call)[Len(cs) + 1] = call
         /\ Len(cs) \in Nat
BY AppendProperties

\* What a call does is settled, and so is what it leaves.
LEMMA SomeEffect ==
  ASSUME NEW call, NEW k, NEW s, NEW n, NEW freed,
         \/ call = <<"malloc", call[2]>>
         \/ call[1] = "free" /\ call[2] \in s.mine
  PROVE  \E h, g, b : Made(call, k, s, n, freed, h, g, b)
<1>1. CASE call = <<"malloc", 0>>
  BY <1>1 DEF Made
<1>2. CASE call[1] = "malloc" /\ call[2] # 0 /\ Fits(s.tree, Units(call[2]))
  BY <1>2 DEF Made
<1>3. CASE call[1] = "malloc" /\ call[2] # 0 /\ ~Fits(s.tree, Units(call[2]))
  BY <1>3 DEF Made
<1>4. CASE call[1] = "free" /\ call[2] \in s.mine
  BY <1>4 DEF Made
<1> QED
  BY <1>1, <1>2, <1>3, <1>4

LEMMA EffectOf ==
  ASSUME NEW call, NEW k, NEW s, NEW n, NEW freed, NEW h, NEW g, NEW b,
         Made(call, k, s, n, freed, h, g, b)
  PROVE  /\ call = <<"malloc", 0>> => h = s /\ g = NULL /\ b = n
         /\ call # <<"malloc", 0>> => b = n + 1
         /\ call[1] = "free" => /\ call[2] \in s.mine /\ g = NULL
                               /\ h.mine = s.mine \ {call[2]}
         /\ h.mine \in {s.mine, s.mine \cup {k}} \/ call[1] = "free"
         /\ call[1] = "malloc" /\ g # NULL /\ g # Failure => h.mine = s.mine \cup {k}
         /\ \A f : (call[1] = "free" => f = freed) => Made(call, k, s, n, f, h, g, b)
<1>1. CASE call = <<"malloc", 0>> /\ h = s /\ g = NULL /\ b = n
  BY <1>1 DEF Made
<1>2. CASE /\ call[1] = "malloc" /\ call[2] # 0 /\ Fits(s.tree, Units(call[2]))
           /\ h.mine = s.mine \cup {k} /\ b = n + 1
  BY <1>2 DEF Made
<1>3. CASE /\ call[1] = "malloc" /\ call[2] # 0 /\ ~Fits(s.tree, Units(call[2]))
           /\ h = s /\ g = Failure /\ b = n + 1
  BY <1>3 DEF Made
<1>4. CASE /\ call[1] = "free" /\ call[2] \in s.mine /\ g = NULL /\ b = n + 1
           /\ h.mine = s.mine \ {call[2]}
  BY <1>4 DEF Made
<1> QED
  BY <1>1, <1>2, <1>3, <1>4 DEF Made

\* The next call has one effect.
LEMMA Extended ==
  ASSUME NEW cs \in Seq(Calls), NEW call \in Calls, NEW H, NEW G, NEW B,
         History(cs, H, G, B),
         call[1] = "free" => call[2] \in H[Len(cs)].mine
  PROVE  \E H2, G2, B2 :
           /\ History(Append(cs, call), H2, G2, B2)
           /\ \A n \in 0..Len(cs) : H2[n] = H[n] /\ B2[n] = B[n]
           /\ \A k \in 1..Len(cs) : G2[k] = G[k]
<1> PICK N \in Nat : N = Len(cs)
  BY Asked
<1> PICK s : s = H[N]
  OBVIOUS
<1> PICK cs2 : cs2 = Append(cs, call)
  OBVIOUS
<1>1. /\ Len(cs2) = N + 1 /\ cs2[N + 1] = call
      /\ \A k \in 1..N : cs2[k] = cs[k] /\ cs[k] \in Calls
  BY Asked
<1>2. /\ s.mine \subseteq 1..N /\ B[N] \in Nat /\ N + 1 \notin s.mine
      /\ \A m \in 0..N : B[m] \in Nat /\ B[m] <= B[N]
  BY DEF History
<1>3. PICK h, g, b : Made(call, N + 1, s, B[N], G[call[2]], h, g, b)
  <2>1. call = <<"malloc", call[2]>> \/ (call[1] = "free" /\ call[2] \in s.mine)
    BY DEF Calls
  <2> QED
    BY <2>1, SomeEffect
<1> DEFINE H2 == [n \in 0..(N + 1) |-> IF n <= N THEN H[n] ELSE h]
           G2 == [k \in 1..(N + 1) |-> IF k <= N THEN G[k] ELSE g]
           B2 == [n \in 0..(N + 1) |-> IF n <= N THEN B[n] ELSE b]
<1>4. /\ \A n \in 0..N : H2[n] = H[n] /\ B2[n] = B[n]
      /\ \A k \in 1..N : G2[k] = G[k]
      /\ H2[N + 1] = h /\ G2[N + 1] = g /\ B2[N + 1] = b
  OBVIOUS
<1> HIDE DEF H2, G2, B2
<1>5. ASSUME NEW k \in 1..(N + 1) PROVE Effect(cs2[k], k, H2, G2, B2)
  <2>1. CASE k = N + 1
    <3>1. H2[k - 1] = s /\ B2[k - 1] = B[N] /\ cs2[k] = call
      BY <1>1, <1>4, <2>1
    <3>2. call[1] = "free" => G2[call[2]] = G[call[2]]
      <4>1. call[1] = "free" => call[2] \in 1..N
        BY <1>2
      <4> QED
        BY <1>4, <4>1
    <3>3. Made(call, N + 1, s, B[N], G2[call[2]], h, g, b)
      BY <1>3, <3>2, EffectOf
    <3> QED
      BY <1>4, <2>1, <3>1, <3>3 DEF Effect
  <2>2. CASE k \in 1..N
    <3>1. Effect(cs[k], k, H, G, B)
      BY <2>2 DEF History
    <3>2. k - 1 \in 0..N /\ H[k - 1].mine \subseteq 1..(k - 1)
      <4>1. k - 1 \in 0..Len(cs)
        BY <2>2
      <4> QED
        BY <4>1 DEF History
    <3>3. /\ H2[k - 1] = H[k - 1] /\ H2[k] = H[k] /\ B2[k - 1] = B[k - 1] /\ B2[k] = B[k]
          /\ G2[k] = G[k] /\ cs2[k] = cs[k]
      BY <1>1, <1>4, <2>2, <3>2
    <3>4. cs[k][1] = "free" => G2[cs[k][2]] = G[cs[k][2]]
      <4>1. cs[k][1] = "free" => cs[k][2] \in H[k - 1].mine
        BY <3>1, EffectOf DEF Effect
      <4>2. cs[k][1] = "free" => cs[k][2] \in 1..N
        BY <2>2, <3>2, <4>1
      <4> QED
        BY <1>4, <4>2
    <3>5. Made(cs[k], k, H[k - 1], B[k - 1], G2[cs[k][2]], H[k], G[k], B[k])
      BY <3>1, <3>4, EffectOf DEF Effect
    <3> QED
      BY <3>3, <3>5 DEF Effect
  <2> QED
    BY <2>1, <2>2
<1>6. \A n \in 0..(N + 1) : B2[n] \in Nat /\ \A m \in 0..n : B2[m] <= B2[n]
  <2>1. b \in Nat /\ B[N] <= b
    <3>1. b = B[N] \/ b = B[N] + 1
      BY <1>3, EffectOf
    <3> QED
      BY <1>2, <3>1
  <2>2. \A n \in 0..N : B2[n] \in Nat /\ \A m \in 0..n : B2[m] <= B2[n]
    <3>1. \A n \in 0..N : B[n] \in Nat /\ \A m \in 0..n : B[m] <= B[n]
      BY DEF History
    <3> QED
      BY <1>4, <3>1
  <2>3. \A m \in 0..N : B2[m] <= b
    BY <1>2, <1>4, <2>1
  <2> QED
    BY <1>4, <2>1, <2>2, <2>3
<1>7. ASSUME NEW n \in 0..(N + 1)
      PROVE  /\ H2[n].mine \subseteq 1..n
             /\ \A k \in 1..n : Kept(cs2, G2, k, n) => k \in H2[n].mine
  <2>1. CASE n \in 0..N
    <3>1. ASSUME NEW k \in 1..n, Kept(cs2, G2, k, n) PROVE Kept(cs, G, k, n)
      <4>1. \A j \in 1..n : j \in 1..N
        BY <2>1
      <4>2. \A j \in 1..n : cs2[j] = cs[j] /\ G2[j] = G[j]
        BY <1>1, <1>4, <4>1
      <4> QED
        BY <3>1, <4>2 DEF Kept
    <3>2. /\ H[n].mine \subseteq 1..n
          /\ \A k \in 1..n : Kept(cs, G, k, n) => k \in H[n].mine
      BY <2>1 DEF History
    <3>3. H2[n] = H[n]
      BY <1>4, <2>1
    <3> QED
      BY <3>1, <3>2, <3>3
  <2>2. CASE n = N + 1
    <3>1. h.mine \subseteq 1..n
      <4>1. h.mine \subseteq s.mine \cup {N + 1}
        BY <1>3, EffectOf
      <4> QED
        BY <1>2, <2>2, <4>1
    <3>2. ASSUME NEW k \in 1..N, Kept(cs2, G2, k, n) PROVE k \in h.mine
      <4>1. Kept(cs, G, k, N) /\ cs2[n] # <<"free", k>>
        <5>1. cs2[k] = cs[k] /\ G2[k] = G[k] /\ \A j \in 1..N : cs2[j] = cs[j] /\ j \in 1..n
          BY <1>1, <1>4, <2>2
        <5>2. n \in 1..n
          BY <2>2
        <5> QED
          BY <3>2, <5>1, <5>2 DEF Kept
      <4>2. k \in s.mine
        BY <4>1 DEF History
      <4>3. call[1] = "free" => call[2] # k
        BY <1>1, <2>2, <4>1 DEF Calls
      <4>4. call[1] = "malloc" \/ call[1] = "free"
        BY DEF Calls
      <4>5. CASE call[1] = "free"
        <5>1. h.mine = s.mine \ {call[2]}
          BY <1>3, <4>5, EffectOf
        <5> QED
          BY <4>2, <4>3, <4>5, <5>1
      <4>6. CASE call[1] # "free"
        <5>1. h.mine \in {s.mine, s.mine \cup {N + 1}}
          BY <1>3, <4>6, EffectOf
        <5> QED
          BY <4>2, <5>1
      <4> QED
        BY <4>5, <4>6
    <3>3. ASSUME Kept(cs2, G2, n, n) PROVE n \in h.mine
      <4>1. call[1] = "malloc" /\ g # NULL /\ g # Failure
        BY <1>1, <1>4, <2>2, <3>3 DEF Kept, IsBlock
      <4>2. h.mine = s.mine \cup {N + 1}
        BY <1>3, <4>1, EffectOf
      <4> QED
        BY <2>2, <4>2
    <3> QED
      BY <1>4, <2>2, <3>1, <3>2, <3>3
  <2> QED
    BY <2>1, <2>2
<1>8. H2[0] = [tree |-> New, mine |-> {}] /\ B2[0] = 0
  BY <1>4 DEF History
<1>9. History(cs2, H2, G2, B2)
  BY <1>1, <1>5, <1>6, <1>7, <1>8 DEF History
<1> QED
  BY <1>4, <1>9

------------------------------------------------------------------------------
\* What a PE knows of the history.

\* A PE that stands still follows what it followed.
LEMMA Still ==
  ASSUME Places, NEW p \in PE, NEW cs, NEW H, NEW G, NEW B, Follows(p, cs, H, G, B),
         /\ pc'[p] = pc[p] /\ at'[p] = at[p] /\ tree'[p] = tree[p] /\ mine'[p] = mine[p]
         /\ got'[p] = got[p] /\ entered'[p] = entered[p] /\ left'[p] = left[p]
  PROVE  Follows(p, cs, H, G, B)'
<1>1. Seen(cs, p)' = Seen(cs, p) /\ Answers(p)' = Answers(p)
  BY DEF Seen, Answers
<1> QED
  BY <1>1 DEF Follows

\* What a PE follows is behind it.
LEMMA Behind ==
  ASSUME Places, NEW p \in PE, NEW cs, NEW cs2, NEW H, NEW G, NEW B, NEW H2, NEW G2, NEW B2,
         Follows(p, cs, H, G, B),
         \A n \in 0..at[p] : H2[n] = H[n] /\ B2[n] = B[n],
         \A k \in 1..at[p] : G2[k] = G[k] /\ cs2[k] = cs[k]
  PROVE  Follows(p, cs2, H2, G2, B2)
<1>1. at[p] \in Nat /\ (pc[p] # "out" => at[p] \in 1..at[p])
  BY DEF Places, Follows
<1>2. Seen(cs2, p) = Seen(cs, p) /\ Seen(cs, p) \in 0..at[p] /\ at[p] \in 0..at[p]
  BY <1>1 DEF Seen, Places
<1>3. Answers(p) \in 0..at[p]
  BY <1>1 DEF Answers, Places
<1>4. [k \in 1..Answers(p) |-> G2[k]] = [k \in 1..Answers(p) |-> G[k]]
  BY <1>1, <1>3
<1> QED
  BY <1>1, <1>2, <1>4 DEF Follows

LEMMA InitIInv == Init => IInv
<1> SUFFICES ASSUME Init PROVE IInv
  OBVIOUS
<1>1. /\ calls = <<>> /\ Len(calls) = 0
      /\ \A p \in PE : /\ tree[p] = New /\ pc[p] = "out" /\ at[p] = 0 /\ got[p] = <<>>
                       /\ mine[p] = {} /\ entered[p] = 0 /\ left[p] = 0
  BY DEF Init, AllBarriers!Init
<1>2. Places
  BY <1>1 DEF Init, AllBarriers!Init, Places
<1>3. Waiting
  BY <1>1 DEF Waiting
<1> DEFINE H == [n \in 0..0 |-> [tree |-> New, mine |-> {}]]
           G == [k \in 1..0 |-> NULL]
           B == [n \in 0..0 |-> 0]
<1>4. History(calls, H, G, B)
  BY <1>1 DEF History
<1>5. H[0] = [tree |-> New, mine |-> {}] /\ B[0] = 0
  OBVIOUS
<1> HIDE DEF H, G, B
<1>6. ASSUME NEW p \in PE PROVE Follows(p, calls, H, G, B)
  <2>1. Seen(calls, p) = 0 /\ Answers(p) = 0
    BY <1>1 DEF Seen, Answers
  <2>2. got[p] = [k \in 1..0 |-> G[k]]
    BY <1>1
  <2>3. tree[p] = H[0].tree /\ mine[p] = H[0].mine
    BY <1>1, <1>5
  <2>4. pc[p] = "out" /\ at[p] = 0 /\ entered[p] = B[0] /\ left[p] = B[0]
    BY <1>1, <1>5
  <2> QED
    BY <2>1, <2>2, <2>3, <2>4 DEF Follows
<1>7. Replayed
  BY <1>4, <1>6 DEF Replayed
<1> QED
  BY <1>2, <1>3, <1>7 DEF IInv

\* What the steps of a PE keep, when p moves and the calls are cs2.
LEMMA Moved ==
  ASSUME Places, Places', NEW p \in PE, NEW H, NEW G, NEW B,
         History(calls', H, G, B), \A q \in PE : Follows(q, calls', H, G, B),
         \A q \in PE \ {p} :
           /\ pc'[q] = pc[q] /\ at'[q] = at[q] /\ tree'[q] = tree[q] /\ mine'[q] = mine[q]
           /\ got'[q] = got[q] /\ entered'[q] = entered[q] /\ left'[q] = left[q],
         \A cs : cs = calls' => Follows(p, cs, H, G, B)'
  PROVE  Replayed'
<1> PICK cs : cs = calls'
  OBVIOUS
<1>1. \A q \in PE : Follows(q, cs, H, G, B)'
  <2> SUFFICES ASSUME NEW q \in PE PROVE Follows(q, cs, H, G, B)'
    OBVIOUS
  <2>1. CASE q = p
    BY <2>1
  <2>2. CASE q # p
    BY <2>2, Still
  <2> QED
    BY <2>1, <2>2
<1> QED
  BY <1>1 DEF Replayed

------------------------------------------------------------------------------
\* The steps.

LEMMA BeginStep ==
  ASSUME IInv, NEW p \in PE, Begin(p)
  PROVE  IInv'
<1> USE DEF IInv
<1> PICK N \in Nat : N = at[p]
  BY DEF Places
<1> PICK cs \in Seq(Calls) : cs = calls
  BY DEF Places
<1> PICK cs2 : cs2 = calls'
  OBVIOUS
<1>1. PICK call \in Possible(p) :
        /\ cs2 = IF N = Len(cs) THEN Append(cs, call) ELSE cs
        /\ cs2[N + 1] = call
        /\ pc' = [pc EXCEPT ![p] = IF call[1] = "free" THEN BeforeReleasing
                                   ELSE IF call[2] = 0 THEN "out" ELSE "allocate"]
        /\ got' = IF call[1] = "malloc" /\ call[2] # 0 THEN got
                  ELSE [got EXCEPT ![p] = Append(@, NULL)]
  BY DEF Begin
<1>2. /\ pc[p] = "out" /\ at' = [at EXCEPT ![p] = N + 1]
      /\ UNCHANGED <<tree, mine, entered, left>>
  BY DEF Begin
<1> PICK H, G, B : History(cs, H, G, B) /\ \A q \in PE : Follows(q, cs, H, G, B)
  BY DEF Replayed
<1>3. Len(cs) \in Nat /\ N <= Len(cs) /\ \A q \in PE : at[q] \in 0..Len(cs)
  BY DEF Places
<1>4. mine[p] = H[N].mine /\ H[N].mine \subseteq 1..N
  BY <1>2, <1>3 DEF Follows, Seen, History
<1>5. \/ call[1] = "malloc" /\ call = <<"malloc", call[2]>> /\ call[2] \in Sizes
      \/ call[1] = "free" /\ call[2] \in mine[p] /\ call = <<"free", call[2]>>
  BY DEF Possible
<1>6. call \in Calls /\ call = <<call[1], call[2]>>
  <2>1. Sizes \subseteq Nat
    BY ParameterAssumption
  <2> QED
    BY <1>4, <1>5, <2>1 DEF Calls
<1>7. PICK H2, G2, B2 : History(cs2, H2, G2, B2) /\ \A q \in PE : Follows(q, cs2, H2, G2, B2)
  <2>1. CASE N = Len(cs)
    <3>1. cs2 = Append(cs, call) /\ (call[1] = "free" => call[2] \in H[Len(cs)].mine)
      BY <1>1, <1>4, <1>5, <2>1
    <3>2. PICK H2, G2, B2 :
            /\ History(cs2, H2, G2, B2)
            /\ \A n \in 0..Len(cs) : H2[n] = H[n] /\ B2[n] = B[n]
            /\ \A k \in 1..Len(cs) : G2[k] = G[k]
      BY <1>6, <3>1, Extended
    <3>3. \A k \in 1..Len(cs) : cs2[k] = cs[k]
      BY <1>6, <3>1, Asked
    <3>4. ASSUME NEW q \in PE PROVE Follows(q, cs2, H2, G2, B2)
      <4>1. /\ \A n \in 0..at[q] : H2[n] = H[n] /\ B2[n] = B[n]
            /\ \A k \in 1..at[q] : G2[k] = G[k] /\ cs2[k] = cs[k]
        BY <1>3, <3>2, <3>3
      <4> QED
        BY <4>1, Behind
    <3> QED
      BY <3>2, <3>4
  <2>2. CASE N # Len(cs)
    BY <1>1, <2>2
  <2> QED
    BY <2>1, <2>2
<1>8. /\ cs2 \in Seq(Calls) /\ N + 1 \in 1..Len(cs2)
      /\ \A q \in PE : at[q] <= Len(cs2)
  <2>1. CASE N = Len(cs)
    BY <1>1, <1>3, <1>6, <2>1, Asked
  <2>2. CASE N # Len(cs)
    BY <1>1, <1>3, <2>2
  <2> QED
    BY <2>1, <2>2
<1>9. Effect(call, N + 1, H2, G2, B2) /\ B2[N] \in Nat
  BY <1>1, <1>3, <1>7, <1>8 DEF History
<1>10. /\ at'[p] = N + 1 /\ tree'[p] = tree[p] /\ mine'[p] = mine[p]
       /\ entered'[p] = entered[p] /\ left'[p] = left[p]
       /\ pc'[p] = IF call[1] = "free" THEN "arrive" ELSE IF call[2] = 0 THEN "out" ELSE "allocate"
       /\ got'[p] = IF call[1] = "malloc" /\ call[2] # 0 THEN got[p] ELSE Append(got[p], NULL)
  BY <1>1, <1>2 DEF Places, BeforeReleasing
<1>11. Places'
  <2>1. at' \in [PE -> Nat] /\ \A q \in PE : at'[q] <= Len(cs2)
    BY <1>2, <1>8 DEF Places
  <2>2. pc' \in [PE -> {"out", "allocate", "arrive", "wait", "release"}]
    BY <1>1 DEF Places, BeforeReleasing
  <2>3. DOMAIN got' = PE
    BY <1>1 DEF Places
  <2> QED
    BY <1>2, <1>8, <2>1, <2>2, <2>3 DEF Places
<1>12. Waiting'
  BY <1>2 DEF Waiting
<1>13. Follows(p, cs2, H2, G2, B2)'
  <2>1. /\ tree[p] = H2[N].tree /\ mine[p] = H2[N].mine
        /\ got[p] = [k \in 1..N |-> G2[k]]
        /\ entered[p] = B2[N] /\ left[p] = B2[N]
    BY <1>2, <1>7 DEF Follows, Seen, Answers
  <2>2. H2[(N + 1) - 1] = H2[N] /\ B2[(N + 1) - 1] = B2[N]
    OBVIOUS
  <2>3. G2[N + 1] = NULL => Append(got[p], NULL) = [k \in 1..(N + 1) |-> G2[k]]
    BY <2>1, Answered
  <2>4. CASE call[1] = "free"
    <3>1. G2[N + 1] = NULL /\ B2[N + 1] = B2[N] + 1
      BY <1>9, <2>2, <2>4, EffectOf DEF Effect
    <3>2. pc'[p] = "arrive" /\ at'[p] = N + 1 /\ cs2[N + 1][1] = "free"
      BY <1>1, <1>10, <2>4
    <3>3. Seen(cs2, p)' = N /\ Answers(p)' = N + 1
      BY <3>2 DEF Seen, Answers
    <3>4. tree'[p] = H2[N].tree /\ mine'[p] = H2[N].mine
      BY <1>10, <2>1
    <3>5. got'[p] = [k \in 1..(N + 1) |-> G2[k]]
      BY <1>10, <2>3, <2>4, <3>1
    <3>6. entered'[p] = B2[N + 1] - 1 /\ left'[p] = B2[N + 1] - 1
      BY <1>9, <1>10, <2>1, <3>1
    <3>7. cs2[N + 1] # <<"malloc", 0>>
      BY <3>2
    <3> QED
      BY <3>2, <3>3, <3>4, <3>5, <3>6, <3>7 DEF Follows
  <2>5. CASE call = <<"malloc", 0>>
    <3>1. G2[N + 1] = NULL /\ B2[N + 1] = B2[N] /\ H2[N + 1] = H2[N]
      BY <1>9, <2>2, <2>5, EffectOf DEF Effect
    <3>2. Seen(cs2, p)' = N + 1 /\ Answers(p)' = N + 1
      BY <1>10, <2>5 DEF Seen, Answers
    <3> QED
      BY <1>9, <1>10, <2>1, <2>3, <2>5, <3>1, <3>2 DEF Follows
  <2>6. CASE call[1] = "malloc" /\ call[2] # 0
    <3>1. B2[N + 1] = B2[N] + 1
      BY <1>9, <2>2, <2>6, EffectOf DEF Effect
    <3>2. Seen(cs2, p)' = N /\ Answers(p)' = N
      BY <1>10, <2>6 DEF Seen, Answers
    <3> QED
      BY <1>1, <1>9, <1>10, <2>1, <2>6, <3>1, <3>2 DEF Follows
  <2> QED
    BY <1>5, <2>4, <2>5, <2>6
<1>14. \A q \in PE \ {p} :
         /\ pc'[q] = pc[q] /\ at'[q] = at[q] /\ tree'[q] = tree[q] /\ mine'[q] = mine[q]
         /\ got'[q] = got[q] /\ entered'[q] = entered[q] /\ left'[q] = left[q]
  BY <1>1, <1>2 DEF Places
<1>15. Replayed'
  <2>1. \A c : c = calls' => Follows(p, c, H2, G2, B2)'
    BY <1>13
  <2> QED
    BY <1>7, <1>11, <1>14, <2>1, Moved
<1> QED
  BY <1>11, <1>12, <1>15

\* The call that a PE is in: the n-th.
InCall(p, cs, H, G, B, n) ==
  /\ cs \in Seq(Calls) /\ cs = calls
  /\ History(cs, H, G, B) /\ \A q \in PE : Follows(q, cs, H, G, B)
  /\ n \in 1..Len(cs) /\ n = at[p] /\ Effect(cs[n], n, H, G, B)
  /\ cs[n] = <<cs[n][1], cs[n][2]>> /\ cs[n][1] \in {"malloc", "free"}
  /\ cs[n] # <<"malloc", 0>>
  /\ B[n] \in Nat /\ \A q \in PE : entered[q] \in Int /\ left[q] \in Int

LEMMA SomeCall ==
  ASSUME IInv, NEW p \in PE, pc[p] # "out"
  PROVE  \E cs, H, G, B, n : InCall(p, cs, H, G, B, n)
<1> PICK cs \in Seq(Calls) : cs = calls
  BY DEF IInv, Places
<1> PICK H, G, B : History(cs, H, G, B) /\ \A q \in PE : Follows(q, cs, H, G, B)
  BY DEF IInv, Replayed
<1>1. \A q \in PE : at[q] \in 0..Len(cs)
  BY DEF IInv, Places
<1>2. at[p] \in 1..Len(cs)
  <2>1. at[p] > 0
    BY DEF Follows
  <2> QED
    BY <1>1, <2>1
<1>3. \A q \in PE : B[at[q]] \in Nat
  BY <1>1 DEF History
<1>4. ASSUME NEW q \in PE PROVE entered[q] \in Int /\ left[q] \in Int
  <2>1. entered[q] \in {B[at[q]], B[at[q]] - 1} /\ left[q] \in {B[at[q]], B[at[q]] - 1}
    BY DEF Follows
  <2> QED
    BY <1>3, <2>1
<1>5. cs[at[p]] \in Calls
  BY <1>2
<1>6. Effect(cs[at[p]], at[p], H, G, B)
  BY <1>2 DEF History
<1>7. cs[at[p]] # <<"malloc", 0>>
  BY DEF Follows
<1>8. cs[at[p]] = <<cs[at[p]][1], cs[at[p]][2]>> /\ cs[at[p]][1] \in {"malloc", "free"}
  BY <1>5 DEF Calls
<1> QED
  <2>1. InCall(p, cs, H, G, B, at[p])
    BY <1>2, <1>3, <1>4, <1>6, <1>7, <1>8 DEF InCall
  <2> QED
    BY <2>1

LEMMA AllocateStep ==
  ASSUME IInv, NEW p \in PE, Allocate(p)
  PROVE  IInv'
<1> PICK cs, H, G, B, n : InCall(p, cs, H, G, B, n)
  <2>1. pc[p] # "out"
    BY DEF Allocate, Goto
  <2> QED
    BY <2>1, SomeCall
<1> USE DEF InCall
<1> PICK units : units = Units(cs[n][2])
  OBVIOUS
<1> PICK t : t = tree[p]
  OBVIOUS
<1> PICK idx : idx = Place(t, Exponent(units))
  OBVIOUS
<1>1. /\ pc[p] = "allocate" /\ pc' = [pc EXCEPT ![p] = "arrive"]
      /\ UNCHANGED <<calls, at, entered, left>>
      /\ \/ /\ Fits(t, units)
            /\ tree' = [tree EXCEPT ![p] = Taken(t, idx)]
            /\ got' = [got EXCEPT ![p] = Append(@, Address(Offset(idx)))]
            /\ mine' = [mine EXCEPT ![p] = @ \cup {n}]
         \/ /\ ~Fits(t, units)
            /\ got' = [got EXCEPT ![p] = Append(@, Failure)]
            /\ UNCHANGED <<tree, mine>>
  BY DEF Allocate, Goto, AfterAllocating, Arg
<1>2. Places'
  BY <1>1 DEF IInv, Places
<1>3. Waiting'
  BY <1>1 DEF IInv, Waiting
<1>4. /\ t = H[n - 1].tree /\ mine[p] = H[n - 1].mine /\ cs[n][1] = "malloc"
      /\ got[p] = [k \in 1..(n - 1) |-> G[k]]
      /\ entered[p] = B[n] - 1 /\ left[p] = B[n] - 1
  BY <1>1 DEF Follows, Seen, Answers
<1>5. \/ /\ Fits(t, units)
         /\ H[n] = [tree |-> Taken(t, idx), mine |-> mine[p] \cup {n}]
         /\ G[n] = Address(Offset(idx))
      \/ /\ ~Fits(t, units)
         /\ H[n] = H[n - 1] /\ G[n] = Failure
  BY <1>4 DEF Effect, Made
<1>6. tree'[p] = H[n].tree /\ mine'[p] = H[n].mine
  <2>1. CASE Fits(t, units)
    <3>1. tree'[p] = Taken(t, idx) /\ mine'[p] = mine[p] \cup {n}
      BY <1>1, <2>1 DEF IInv, Places
    <3>2. H[n].tree = Taken(t, idx) /\ H[n].mine = mine[p] \cup {n}
      BY <1>5, <2>1
    <3> QED
      BY <3>1, <3>2
  <2>2. CASE ~Fits(t, units)
    <3>1. tree'[p] = t /\ mine'[p] = mine[p]
      BY <1>1, <2>2
    <3>2. H[n] = H[n - 1]
      BY <1>5, <2>2
    <3> QED
      BY <1>4, <3>1, <3>2
  <2> QED
    BY <2>1, <2>2
<1>7. got'[p] = Append(got[p], G[n])
  BY <1>1, <1>5 DEF IInv, Places
<1>8. got'[p] = [k \in 1..n |-> G[k]]
  <2>1. n - 1 \in Nat /\ (n - 1) + 1 = n
    OBVIOUS
  <2> QED
    BY <1>4, <1>7, <2>1, Answered
<1>9. Follows(p, cs, H, G, B)'
  <2>1. pc'[p] = "arrive" /\ at'[p] = n /\ entered'[p] = B[n] - 1 /\ left'[p] = B[n] - 1
    BY <1>1, <1>4 DEF IInv, Places
  <2>2. Seen(cs, p)' = n /\ Answers(p)' = n
    BY <1>4, <2>1 DEF Seen, Answers
  <2> QED
    BY <1>6, <1>8, <2>1, <2>2 DEF Follows
<1>10. \A q \in PE \ {p} :
         /\ pc'[q] = pc[q] /\ at'[q] = at[q] /\ tree'[q] = tree[q] /\ mine'[q] = mine[q]
         /\ got'[q] = got[q] /\ entered'[q] = entered[q] /\ left'[q] = left[q]
  BY <1>1 DEF IInv, Places
<1>11. Replayed'
  <2>1. \A c : c = calls' => Follows(p, c, H, G, B)'
    BY <1>1, <1>9
  <2> QED
    BY <1>1, <1>2, <1>10, <2>1, Moved DEF IInv
<1> QED
  BY <1>2, <1>3, <1>11 DEF IInv

LEMMA ArriveStep ==
  ASSUME IInv, NEW p \in PE, Arrive(p)
  PROVE  IInv'
<1> PICK cs, H, G, B, n : InCall(p, cs, H, G, B, n)
  <2>1. pc[p] # "out"
    BY DEF Arrive, Goto
  <2> QED
    BY <2>1, SomeCall
<1> USE DEF InCall
<1>1. /\ pc[p] = "arrive" /\ pc' = [pc EXCEPT ![p] = "wait"]
      /\ entered' = [entered EXCEPT ![p] = @ + 1]
      /\ UNCHANGED <<calls, at, got, tree, mine, left>>
  BY DEF Arrive, Goto, AllBarriers!Enter
<1>2. Places'
  BY <1>1 DEF IInv, Places
<1>3. Waiting'
  <2>1. \A q \in PE : entered'[q] >= entered[q]
    BY <1>1 DEF IInv, Places
  <2>2. \A q \in PE : entered'[q] \in Int
    BY <1>1 DEF IInv, Places
  <2> QED
    BY <1>1, <2>1, <2>2 DEF IInv, Waiting
<1>4. /\ tree[p] = H[Seen(cs, p)].tree /\ mine[p] = H[Seen(cs, p)].mine
      /\ got[p] = [k \in 1..n |-> G[k]]
      /\ entered[p] = B[n] - 1 /\ left[p] = B[n] - 1
  BY <1>1 DEF Follows, Answers
<1>5. Follows(p, cs, H, G, B)'
  <2>1. pc'[p] = "wait" /\ at'[p] = n /\ entered'[p] = B[n] /\ left'[p] = B[n] - 1
    BY <1>1, <1>4 DEF IInv, Places
  <2>2. Seen(cs, p)' = Seen(cs, p) /\ Answers(p)' = n
    BY <1>1, <2>1 DEF Seen, Answers
  <2> QED
    BY <1>1, <1>4, <2>1, <2>2 DEF Follows
<1>6. \A q \in PE \ {p} :
        /\ pc'[q] = pc[q] /\ at'[q] = at[q] /\ tree'[q] = tree[q] /\ mine'[q] = mine[q]
        /\ got'[q] = got[q] /\ entered'[q] = entered[q] /\ left'[q] = left[q]
  BY <1>1 DEF IInv, Places
<1>7. Replayed'
  <2>1. \A c : c = calls' => Follows(p, c, H, G, B)'
    BY <1>1, <1>5
  <2> QED
    BY <1>1, <1>2, <1>6, <2>1, Moved DEF IInv
<1> QED
  BY <1>2, <1>3, <1>7 DEF IInv

LEMMA PassStep ==
  ASSUME IInv, NEW p \in PE, Pass(p)
  PROVE  IInv'
<1> PICK cs, H, G, B, n : InCall(p, cs, H, G, B, n)
  <2>1. pc[p] # "out"
    BY DEF Pass, Goto
  <2> QED
    BY <2>1, SomeCall
<1> USE DEF InCall
<1>1. /\ pc[p] = "wait" /\ pc' = [pc EXCEPT ![p] = IF cs[n][1] = "malloc" THEN "out" ELSE "release"]
      /\ left' = [left EXCEPT ![p] = @ + 1]
      /\ \A q \in PE : entered[q] >= entered[p]
      /\ UNCHANGED <<calls, at, got, tree, mine, entered>>
  BY DEF Pass, Goto, Op, AllBarriers!Leave
<1>2. Places'
  BY <1>1 DEF IInv, Places
<1>3. /\ tree[p] = H[Seen(cs, p)].tree /\ mine[p] = H[Seen(cs, p)].mine
      /\ got[p] = [k \in 1..n |-> G[k]]
      /\ entered[p] = B[n] /\ left[p] = B[n] - 1
  BY <1>1 DEF Follows, Answers
<1>4. Waiting'
  <2>1. left'[p] = entered[p] /\ \A q \in PE \ {p} : left'[q] = left[q]
    BY <1>1, <1>3 DEF IInv, Places
  <2> QED
    BY <1>1, <2>1 DEF IInv, Waiting
<1>5. Follows(p, cs, H, G, B)'
  <2>1. /\ pc'[p] = IF cs[n][1] = "malloc" THEN "out" ELSE "release"
        /\ at'[p] = n /\ entered'[p] = B[n] /\ left'[p] = B[n]
    BY <1>1, <1>3 DEF IInv, Places
  <2>2. Seen(cs, p)' = Seen(cs, p) /\ Answers(p)' = n
    BY <1>1, <2>1 DEF Seen, Answers
  <2> QED
    BY <1>1, <1>3, <2>1, <2>2 DEF Follows
<1>6. \A q \in PE \ {p} :
        /\ pc'[q] = pc[q] /\ at'[q] = at[q] /\ tree'[q] = tree[q] /\ mine'[q] = mine[q]
        /\ got'[q] = got[q] /\ entered'[q] = entered[q] /\ left'[q] = left[q]
  BY <1>1 DEF IInv, Places
<1>7. Replayed'
  <2>1. \A c : c = calls' => Follows(p, c, H, G, B)'
    BY <1>1, <1>5
  <2> QED
    BY <1>1, <1>2, <1>6, <2>1, Moved DEF IInv
<1> QED
  BY <1>2, <1>4, <1>7 DEF IInv

LEMMA ReleaseStep ==
  ASSUME IInv, NEW p \in PE, Release(p)
  PROVE  IInv'
<1> PICK cs, H, G, B, n : InCall(p, cs, H, G, B, n)
  <2>1. pc[p] # "out"
    BY DEF Release, Goto
  <2> QED
    BY <2>1, SomeCall
<1> USE DEF InCall
<1> PICK k : k = cs[n][2]
  OBVIOUS
<1>1. /\ pc[p] = "release" /\ pc' = [pc EXCEPT ![p] = "out"]
      /\ tree' = [tree EXCEPT ![p] = Freed(@, got[p][k] \div Grain)]
      /\ mine' = [mine EXCEPT ![p] = @ \ {k}]
      /\ UNCHANGED <<calls, at, got, entered, left>>
  BY DEF Release, Goto, Arg
<1>2. Places'
  BY <1>1 DEF IInv, Places
<1>3. Waiting'
  BY <1>1 DEF IInv, Waiting
<1>4. /\ tree[p] = H[n - 1].tree /\ mine[p] = H[n - 1].mine /\ cs[n][1] = "free"
      /\ got[p] = [i \in 1..n |-> G[i]]
      /\ entered[p] = B[n] /\ left[p] = B[n]
  BY <1>1 DEF Follows, Seen, Answers
<1>5. /\ H[n] = [tree |-> Freed(tree[p], G[k] \div Grain), mine |-> mine[p] \ {k}]
      /\ k \in mine[p]
  BY <1>4 DEF Effect, Made
<1>6. got[p][k] = G[k]
  <2>1. n - 1 \in 0..Len(cs)
    OBVIOUS
  <2>2. H[n - 1].mine \subseteq 1..(n - 1)
    BY <2>1 DEF History
  <2>3. k \in 1..n
    BY <1>4, <1>5, <2>2
  <2> QED
    BY <1>4, <2>3
<1>7. tree'[p] = H[n].tree /\ mine'[p] = H[n].mine
  BY <1>1, <1>5, <1>6 DEF IInv, Places
<1>8. Follows(p, cs, H, G, B)'
  <2>1. pc'[p] = "out" /\ at'[p] = n /\ entered'[p] = B[n] /\ left'[p] = B[n] /\ got'[p] = got[p]
    BY <1>1, <1>4 DEF IInv, Places
  <2>2. Seen(cs, p)' = n /\ Answers(p)' = n
    BY <2>1 DEF Seen, Answers
  <2> QED
    BY <1>4, <1>7, <2>1, <2>2 DEF Follows
<1>9. \A q \in PE \ {p} :
        /\ pc'[q] = pc[q] /\ at'[q] = at[q] /\ tree'[q] = tree[q] /\ mine'[q] = mine[q]
        /\ got'[q] = got[q] /\ entered'[q] = entered[q] /\ left'[q] = left[q]
  BY <1>1 DEF IInv, Places
<1>10. Replayed'
  <2>1. \A c : c = calls' => Follows(p, c, H, G, B)'
    BY <1>1, <1>8
  <2> QED
    BY <1>1, <1>2, <1>9, <2>1, Moved DEF IInv
<1> QED
  BY <1>2, <1>3, <1>10 DEF IInv

LEMMA NextIInv ==
  ASSUME IInv, [Next]_vars
  PROVE  IInv'
<1>1. CASE UNCHANGED vars
  <2>1. Places' /\ Waiting'
    BY <1>1 DEF vars, IInv, Places, Waiting
  <2>2. PICK H, G, B : History(calls, H, G, B) /\ \A p \in PE : Follows(p, calls, H, G, B)
    BY DEF IInv, Replayed
  <2>3. calls' = calls
    BY <1>1 DEF vars
  <2>4. \A c : c = calls => \A p \in PE : Follows(p, c, H, G, B)'
    <3> SUFFICES ASSUME NEW c, c = calls, NEW p \in PE PROVE Follows(p, c, H, G, B)'
      OBVIOUS
    <3>1. Follows(p, c, H, G, B)
      BY <2>2
    <3> QED
      BY <1>1, <3>1, Still DEF vars, IInv
  <2>5. Replayed'
    BY <2>2, <2>3, <2>4 DEF Replayed
  <2> QED
    BY <2>1, <2>5 DEF IInv
<1>2. CASE Finished
  BY <1>1, <1>2 DEF Finished
<1>3. ASSUME NEW p \in PE, Begin(p) \/ Allocate(p) \/ Arrive(p) \/ Pass(p) \/ Release(p)
      PROVE  IInv'
  BY <1>3, BeginStep, AllocateStep, ArriveStep, PassStep, ReleaseStep
<1> QED
  BY <1>1, <1>2, <1>3 DEF Next

------------------------------------------------------------------------------
\* What the barriers tell one PE of another.

\* A call with a barrier that p has behind it, p has left.
LEMMA Returned ==
  ASSUME Places, NEW cs, NEW H, NEW G, NEW B, cs = calls, History(cs, H, G, B),
         NEW p \in PE, Follows(p, cs, H, G, B),
         NEW k \in 1..Len(cs), k < at[p] \/ (k = at[p] /\ pc[p] = "out")
  PROVE  left[p] >= B[k]
<1> PICK n \in 1..Len(cs) : n = at[p]
  BY DEF Places
<1>1. CASE pc[p] \in {"allocate", "arrive", "wait"}
  <2>1. left[p] = B[n] - 1 /\ cs[n] # <<"malloc", 0>> /\ k <= n - 1
    BY <1>1 DEF Follows
  <2>2. B[n] = B[n - 1] + 1
    <3>1. Effect(cs[n], n, H, G, B)
      BY DEF History
    <3> QED
      BY <2>1, <3>1, EffectOf DEF Effect
  <2>3. n - 1 \in 0..Len(cs) /\ k \in 0..(n - 1)
    BY <2>1
  <2>4. B[n - 1] \in Nat /\ B[k] <= B[n - 1]
    BY <2>3 DEF History
  <2> QED
    BY <2>1, <2>2, <2>4
<1>2. CASE pc[p] \notin {"allocate", "arrive", "wait"}
  <2>1. left[p] = B[n]
    BY <1>2 DEF Follows
  <2>2. n \in 0..Len(cs) /\ k \in 0..n
    OBVIOUS
  <2>3. B[k] <= B[n] /\ B[k] \in Nat /\ B[n] \in Nat
    BY <2>2 DEF History
  <2> QED
    BY <2>1, <2>3
<1> QED
  BY <1>1, <1>2

\* A PE that has entered the barrier of a call has begun it, and more.
LEMMA Entered ==
  ASSUME Places, NEW cs, NEW H, NEW G, NEW B, cs = calls, History(cs, H, G, B),
         NEW q \in PE, Follows(q, cs, H, G, B),
         NEW k \in 1..Len(cs), cs[k] # <<"malloc", 0>>, entered[q] >= B[k]
  PROVE  k < at[q] \/ (k = at[q] /\ pc[q] \notin {"allocate", "arrive"})
<1> PICK n \in 0..Len(cs) : n = at[q]
  BY DEF Places
<1>1. B[k] = B[k - 1] + 1
  <2>1. Effect(cs[k], k, H, G, B)
    BY DEF History
  <2> QED
    BY <2>1, EffectOf DEF Effect
<1>2. k \in 0..Len(cs) /\ k - 1 \in 0..Len(cs)
  OBVIOUS
<1>3. B[k] \in Nat /\ B[k - 1] \in Nat /\ B[n] \in Nat
  BY <1>2 DEF History
<1>4. entered[q] = IF pc[q] \in {"allocate", "arrive"} THEN B[n] - 1 ELSE B[n]
  BY DEF Follows
<1>5. CASE n < k
  <2>1. n \in 0..(k - 1)
    BY <1>5
  <2>2. B[n] <= B[k - 1]
    BY <1>2, <2>1 DEF History
  <2> QED
    BY <1>1, <1>3, <1>4, <2>2
<1>6. CASE n = k
  BY <1>3, <1>4, <1>6
<1>7. CASE k < n
  BY <1>7
<1> QED
  BY <1>5, <1>6, <1>7

LEMMA Symmetric ==
  ASSUME IInv, NEW p \in PE, NEW k \in Mallocs, MayUse(p, k), NEW q \in PE
  PROVE  k \in mine[q] /\ got[q][k] = got[p][k]
<1> USE DEF IInv
<1> PICK cs \in Seq(Calls) : cs = calls
  BY DEF Places
<1> PICK H, G, B : History(cs, H, G, B) /\ \A r \in PE : Follows(r, cs, H, G, B)
  BY DEF Replayed
<1>1. k \in 1..Len(cs) /\ cs[k][1] = "malloc"
  BY DEF Mallocs
<1>2. \A r \in PE : at[r] \in 0..Len(cs)
  BY DEF Places
<1>3. k < at[p] \/ (k = at[p] /\ pc[p] = "out")
  BY DEF MayUse
<1>4. got[p][k] = G[k]
  <2>1. k \in 1..Answers(p)
    BY <1>1, <1>2, <1>3 DEF Answers
  <2>2. got[p] = [i \in 1..Answers(p) |-> G[i]]
    BY DEF Follows
  <2> QED
    BY <2>1, <2>2
<1>5. IsBlock(G[k])
  BY <1>4 DEF MayUse
<1>6. cs[k] # <<"malloc", 0>>
  <2>1. SUFFICES ASSUME cs[k] = <<"malloc", 0>> PROVE G[k] = NULL
    BY <1>5 DEF IsBlock
  <2>2. Effect(cs[k], k, H, G, B)
    BY <1>1 DEF History
  <2> QED
    BY <2>1, <2>2, EffectOf DEF Effect
<1>7. \A n \in 0..Len(cs) : B[n] \in Nat
  BY DEF History
<1>8. ASSUME NEW r \in PE PROVE entered[r] \in Int /\ left[r] \in Int
  <2>1. entered[r] \in {B[at[r]], B[at[r]] - 1} /\ left[r] \in {B[at[r]], B[at[r]] - 1}
    BY DEF Follows
  <2> QED
    BY <1>2, <1>7, <2>1
<1>10. entered[q] >= B[k]
  <2>1. left[p] >= B[k]
    BY <1>1, <1>3, Returned
  <2>2. left[p] <= entered[q]
    BY DEF Waiting
  <2>3. k \in 0..Len(cs)
    BY <1>1
  <2> QED
    BY <1>8, <1>7, <2>1, <2>2, <2>3
<1>11. k < at[q] \/ (k = at[q] /\ pc[q] \notin {"allocate", "arrive"})
  BY <1>1, <1>6, <1>10, Entered
<1>12. k = at[q] => pc[q] \in {"out", "wait"}
  <2>1. pc[q] \in {"out", "allocate", "arrive", "wait", "release"}
    BY DEF Places
  <2>2. pc[q] = "release" => cs[at[q]][1] = "free"
    BY DEF Follows
  <2> QED
    BY <1>1, <1>11, <2>1, <2>2
<1> PICK n : n = Seen(cs, q)
  OBVIOUS
<1>13. n \in 0..Len(cs) /\ k \in 1..n /\ n <= at[q]
  BY <1>1, <1>2, <1>11, <1>12 DEF Seen
<1>14. got[q][k] = G[k]
  <2>1. k \in 1..Answers(q)
    BY <1>1, <1>2, <1>11 DEF Answers
  <2>2. got[q] = [i \in 1..Answers(q) |-> G[i]]
    BY DEF Follows
  <2> QED
    BY <2>1, <2>2
<1>15. ASSUME NEW j \in 1..n PROVE cs[j] # <<"free", k>>
  <2>1. SUFFICES ASSUME cs[j] = <<"free", k>> PROVE FALSE
    OBVIOUS
  <2>2. j \in 1..Len(cs) /\ j \in 0..Len(cs)
    BY <1>13
  <2>3. j < at[q] \/ (j = at[q] /\ pc[q] = "out")
    BY <1>2, <1>13, <2>1 DEF Seen
  <2>4. left[q] >= B[j]
    BY <2>2, <2>3, Returned
  <2>5. left[q] <= entered[p]
    BY DEF Waiting
  <2>6. entered[p] >= B[j]
    BY <1>8, <1>7, <2>2, <2>4, <2>5
  <2>7. cs[j] # <<"malloc", 0>>
    BY <2>1
  <2>8. j \in 1..at[p]
    BY <1>2, <2>2, <2>6, <2>7, Entered
  <2> QED
    BY <2>1, <2>8 DEF MayUse
<1>16. Kept(cs, G, k, n)
  BY <1>1, <1>5, <1>15 DEF Kept
<1>17. k \in H[n].mine
  BY <1>13, <1>16 DEF History
<1>18. mine[q] = H[n].mine
  BY DEF Follows
<1> QED
  BY <1>4, <1>14, <1>17, <1>18

------------------------------------------------------------------------------
\* Powers of two.

\* 2^n counts the subsets of 1..n.
LEMMA Subsets ==
  ASSUME NEW n \in Nat
  PROVE  /\ IsFiniteSet(SUBSET (1..n)) /\ Cardinality(SUBSET (1..n)) = 2^n
         /\ 2^n \in Nat
<1>1. IsFiniteSet(1..n) /\ Cardinality(1..n) = n
  BY FS_Interval
<1>2. IsFiniteSet(SUBSET (1..n)) /\ Cardinality(SUBSET (1..n)) = 2^n
  BY <1>1, FS_SUBSET
<1>3. Cardinality(SUBSET (1..n)) \in Nat
  BY <1>2, FS_CardinalityType
<1> QED
  BY <1>2, <1>3

\* The distance of the loop doubles.
LEMMA Doubling ==
  ASSUME NEW n \in Nat
  PROVE  2^n \in Nat /\ 2^(n + 1) = 2^n + 2^n
<1> DEFINE A == SUBSET (1..n)
           With(a) == a \cup {n + 1}
           B == {With(a) : a \in A}
<1>1. /\ IsFiniteSet(A) /\ Cardinality(A) = 2^n /\ 2^n \in Nat
      /\ Cardinality(SUBSET (1..(n + 1))) = 2^(n + 1)
  BY Subsets, n + 1 \in Nat
<1>2. 1..(n + 1) = (1..n) \cup {n + 1} /\ n + 1 \notin 1..n
  OBVIOUS
<1>3. \A a \in A : n + 1 \notin a
  BY <1>2
<1>4. A \cap B = {}
  BY <1>3
<1>5. SUBSET (1..(n + 1)) = A \cup B
  <2>1. A \cup B \subseteq SUBSET (1..(n + 1))
    BY <1>2
  <2>2. ASSUME NEW s \in SUBSET (1..(n + 1)) PROVE s \in A \cup B
    <3>1. s \ {n + 1} \in A
      BY <1>2
    <3>2. CASE n + 1 \in s
      <4>1. s = With(s \ {n + 1})
        BY <3>2
      <4> QED
        BY <3>1, <4>1
    <3>3. CASE n + 1 \notin s
      BY <3>3, <1>2
    <3> QED
      BY <3>2, <3>3
  <2> QED
    BY <2>1, <2>2
<1>6. ExistsBijection(A, B)
  <2> DEFINE f == [a \in A |-> With(a)]
  <2>1. f \in [A -> B]
    OBVIOUS
  <2>2. \A a, b \in A : f[a] = f[b] => a = b
    <3> SUFFICES ASSUME NEW a \in A, NEW b \in A, With(a) = With(b) PROVE a = b
      OBVIOUS
    <3>1. a = With(a) \ {n + 1} /\ b = With(b) \ {n + 1}
      BY <1>3
    <3> QED
      BY <3>1
  <2>3. \A t \in B : \E a \in A : f[a] = t
    OBVIOUS
  <2>4. f \in Bijection(A, B)
    BY <2>1, <2>2, <2>3 DEF Bijection, Injection, Surjection, IsInjective
  <2> QED
    BY <2>4 DEF ExistsBijection
<1>7. IsFiniteSet(B) /\ Cardinality(B) = 2^n
  BY <1>1, <1>6, FS_Bijection
<1> DEFINE P == 2^n
           Q == 2^(n + 1)
<1>8. Cardinality({}) = 0
  BY FS_EmptySet
<1>9. P \in Nat /\ Cardinality(A) = P /\ Cardinality(B) = P /\ Cardinality(A \cup B) = Q
  BY <1>1, <1>5, <1>7
<1> HIDE DEF A, B, With, P, Q
<1>10. Cardinality(A \cup B) = Cardinality(A) + Cardinality(B) - Cardinality(A \cap B)
  BY <1>1, <1>7, FS_Union
<1>11. Cardinality(A \cap B) = 0
  BY <1>4, <1>8
<1>12. P \in Nat /\ Q = P + P
  BY <1>9, <1>10, <1>11
<1> QED
  BY <1>12 DEF P, Q


\* There are at least as many subsets as singletons.
LEMMA Exceeds ==
  ASSUME NEW n \in Nat
  PROVE  n <= 2^n
<1> DEFINE f == [i \in 1..n |-> {i}]
<1>1. f \in Injection(1..n, SUBSET (1..n))
  BY DEF Injection, IsInjective
<1>2. Cardinality(1..n) <= Cardinality(SUBSET (1..n))
  BY ZenonT(30), <1>1, Subsets, FS_Injection
<1>3. Cardinality(1..n) = n
  BY FS_Interval
<1> QED
  BY <1>2, <1>3, Subsets

\* Longer distances belong to later rounds.
LEMMA Monotonic ==
  ASSUME NEW m \in Nat, NEW n \in Nat, m <= n
  PROVE  2^m <= 2^n
<1>1. SUBSET (1..m) \subseteq SUBSET (1..n)
  <2>1. 1..m \subseteq 1..n
    OBVIOUS
  <2> QED
    BY <2>1
<1>2. Cardinality(SUBSET (1..m)) <= Cardinality(SUBSET (1..n))
  BY <1>1, Subsets, FS_Subset
<1> QED
  BY <1>2, Subsets

\* A leaf has one unit.
LEMMA NoPower == 2^0 = 1
<1>1. SUBSET (1..0) = {{}}
  OBVIOUS
<1>2. Cardinality({{}}) = 1
  BY FS_Singleton
<1> QED
  BY <1>1, <1>2, Subsets

\* What the lemmas below use of powers of two.
LEMMA Powers ==
  ASSUME NEW n \in Nat
  PROVE  2^n \in Nat /\ 2^n >= 1 /\ 2^(n + 1) = 2 * 2^n
<1>1. \A m, k \in Nat : m <= k => 2^m <= 2^k
  BY Monotonic
<1>2. 2^0 <= 2^n
  BY <1>1, 0 \in Nat, 0 <= n
<1> QED
  BY <1>2, NoPower, Doubling

------------------------------------------------------------------------------
\* Induction.

\* the order of the numbers, as a relation
Less == {ss \in Nat \X Nat : ss[1] < ss[2]}

\* The order of the numbers is well-founded.
LEMMA LessWF == IsWellFoundedOn(Less, Nat)
<1>1. IsWellFoundedOn(OpToRel(<, Nat), Nat)
  BY NatLessThanWellFounded
<1>2. OpToRel(<, Nat) = Less
  BY DEF OpToRel, Less
<1> QED
  BY <1>1, <1>2

\* A set of numbers has a least one: all the induction there is below.
LEMMA LeastIn ==
  ASSUME NEW T \in SUBSET Nat, T # {}
  PROVE  \E x \in T : \A y \in T : x <= y
<1>1. PICK x \in T : \A y \in T : ~ (<<y, x>> \in Less)
  BY LessWF, WFMin
<1>2. \A y \in T : ~(y < x)
  BY <1>1 DEF Less
<1> QED
  BY <1>2

\* A set with 0 and the successor of each of its numbers has every number.
LEMMA Induction ==
  ASSUME NEW T, 0 \in T, \A n \in Nat : n \in T => n + 1 \in T
  PROVE  \A n \in Nat : n \in T
<1> DEFINE S == {n \in Nat : n \notin T}
<1> SUFFICES ASSUME S # {} PROVE FALSE
  OBVIOUS
<1>1. PICK x \in S : \A y \in S : x <= y
  <2>1. S \in SUBSET Nat
    OBVIOUS
  <2> HIDE DEF S
  <2> QED
    BY <2>1, LeastIn
<1>2. x - 1 \in Nat /\ x - 1 \notin S
  BY <1>1
<1>3. x - 1 \in T
  BY <1>2
<1>4. (x - 1) + 1 \in T
  BY <1>2, <1>3
<1> QED
  BY <1>4

\* A level of 2^a nodes of 2^b units each has 2^(a + b) units.
LEMMA PowerSum ==
  ASSUME NEW a \in Nat, NEW b \in Nat
  PROVE  2^(a + b) = 2^a * 2^b
<1> DEFINE T == {n \in Nat : 2^(a + n) = 2^a * 2^n}
<1>1. 0 \in T
  BY NoPower, Powers
<1>2. ASSUME NEW n \in Nat, n \in T PROVE n + 1 \in T
  <2> PICK x \in Nat : x = 2^a
    BY Powers
  <2> PICK y \in Nat : y = 2^n
    BY Powers
  <2>1. 2^(a + n) = x * y
    BY <1>2
  <2>2. 2^((a + n) + 1) = 2 * 2^(a + n) /\ 2^(n + 1) = 2 * y
    BY Powers
  <2>3. a + (n + 1) = (a + n) + 1
    OBVIOUS
  <2>4. 2 * (x * y) = x * (2 * y)
    OBVIOUS
  <2> QED
    BY <2>1, <2>2, <2>3, <2>4
<1> HIDE DEF T
<1>3. b \in T
  BY <1>1, <1>2, Induction
<1> QED
  BY <1>3 DEF T

------------------------------------------------------------------------------
\* The nodes of the tree, and where their units are.

\* The nodes of a level begin where a power of two does.
LEMMA Nodes == ASSUME NEW i PROVE i \in Node <=> i \in Nat /\ i + 1 < 2 * 2^Height
<1> PICK h \in Nat : h = 2^Height
  BY Powers, HeightAssumption
<1>1. 2^(Height + 1) = 2 * h
  BY Powers, HeightAssumption
<1>2. Node = 0..(2 * h - 2)
  BY <1>1 DEF Node
<1> QED
  BY <1>2

\* The way up from a node has as many steps as its level below the root.
LEMMA DepthIs ==
  ASSUME NEW i \in Nat, NEW k \in 0..Height, 2^k <= i + 1, i + 1 < 2 * 2^k
  PROVE  i \in Node /\ UpTo(i) = k
<1>0. Height \in Nat /\ k \in Nat
  BY HeightAssumption
<1>1. i \in Node
  <2>1. 2^k <= 2^Height /\ 2^k \in Nat /\ 2^Height \in Nat
    BY <1>0, Monotonic, Powers
  <2> QED
    BY <2>1, Nodes
<1>2. ASSUME NEW j \in 0..Height PROVE Up(i, j) = 0 <=> j = k
  <2>1. PICK x \in Nat : x = 2^j
    BY Powers
  <2>2. PICK y \in Nat : y = 2^k
    BY Powers
  <2>3. x >= 1 /\ y >= 1
    BY <2>1, <2>2, <1>0, Powers
  <2>4. CASE j = k
    <3>1. (i + 1) \div y = 1
      BY <2>2, <2>3
    <3> QED
      BY <3>1, <2>2, <2>4 DEF Up
  <2>5. CASE j < k
    <3>1. 2^(j + 1) <= y /\ 2^(j + 1) = 2 * x
      BY <2>1, <2>2, <2>5, <1>0, Monotonic, Powers
    <3>2. i + 1 >= 2 * x
      BY <2>2, <3>1
    <3>3. (i + 1) \div x # 1
      BY <3>2, <2>3
    <3> QED
      BY <3>3, <2>1, <2>5 DEF Up
  <2>6. CASE j > k
    <3>1. 2^(k + 1) <= x /\ 2^(k + 1) = 2 * y
      BY <2>1, <2>2, <2>6, <1>0, Monotonic, Powers
    <3>2. i + 1 < x
      BY <2>2, <3>1
    <3>3. (i + 1) \div x # 1
      BY <3>2, <2>3
    <3> QED
      BY <3>3, <2>1, <2>6 DEF Up
  <2> QED
    BY <2>4, <2>5, <2>6
<1> QED
  BY <1>1, <1>2 DEF UpTo

\* Every node is on a level.
LEMMA Depth ==
  ASSUME NEW i \in Node
  PROVE  /\ i \in Nat /\ UpTo(i) \in 0..Height /\ Level(i) \in 0..Height
         /\ 2^UpTo(i) <= i + 1 /\ i + 1 < 2 * 2^UpTo(i)
<1>0. Height \in Nat /\ i \in Nat /\ i + 1 < 2 * 2^Height
  BY HeightAssumption, Nodes
<1> DEFINE T == {k \in Nat : i + 1 < 2 * 2^k}
<1>1. PICK k \in T : \A j \in T : k <= j
  <2>1. T \in SUBSET Nat /\ T # {}
    BY <1>0
  <2> HIDE DEF T
  <2> QED
    BY <2>1, LeastIn
<1>2. k \in 0..Height
  BY <1>0, <1>1
<1>3. 2^k <= i + 1
  <2>1. CASE k = 0
    BY <2>1, <1>0, NoPower
  <2>2. CASE k > 0
    <3>1. PICK l \in Nat : k = l + 1
      BY <2>2, k - 1 \in Nat
    <3>2. l \notin T
      BY <1>1, <3>1
    <3>3. ~(i + 1 < 2 * 2^l) /\ 2^k = 2 * 2^l /\ 2^l \in Nat
      BY <3>1, <3>2, Powers
    <3> QED
      BY <3>3, <1>0
  <2> QED
    BY <2>1, <2>2, <1>1
<1>4. UpTo(i) = k
  BY <1>0, <1>1, <1>2, <1>3, DepthIs
<1> QED
  BY <1>0, <1>1, <1>2, <1>3, <1>4 DEF Level

------------------------------------------------------------------------------
\* The children of a node.

\* a node with children
Inner(i) == i \in Node /\ Level(i) > 0

\* The children of a node are nodes, one level down.
LEMMA ChildDepth ==
  ASSUME NEW i, Inner(i), NEW c \in {2 * i + 1, 2 * i + 2}
  PROVE  c \in Node /\ c # 0 /\ UpTo(c) = UpTo(i) + 1 /\ Level(c) = Level(i) - 1
<1>1. PICK k \in 0..Height : k = UpTo(i)
  BY Depth DEF Inner
<1>2. i \in Nat /\ k < Height /\ 2^k <= i + 1 /\ i + 1 < 2 * 2^k /\ Height \in Nat
  BY <1>1, Depth, HeightAssumption DEF Inner, Level
<1>3. 2^(k + 1) = 2 * 2^k /\ 2^k \in Nat
  BY Powers, k \in Nat
<1>4. c \in Nat /\ c # 0 /\ k + 1 \in 0..Height /\ 2 * 2^k <= c + 1 /\ c + 1 < 2 * (2 * 2^k)
  BY <1>2, <1>3
<1>5. c \in Node /\ UpTo(c) = k + 1
  BY <1>3, <1>4, DepthIs
<1> QED
  BY <1>1, <1>2, <1>4, <1>5 DEF Level

\* get_parent_idx
Parent(i) == (i + 1) \div 2 - 1

\* Every node but the root is the child of one a level up.
LEMMA ParentDepth ==
  ASSUME NEW i \in Node, i # 0
  PROVE  /\ Inner(Parent(i)) /\ i \in {2 * Parent(i) + 1, 2 * Parent(i) + 2}
         /\ UpTo(i) \in 1..Height /\ UpTo(Parent(i)) = UpTo(i) - 1
         /\ Level(Parent(i)) = Level(i) + 1
<1>1. PICK k \in 0..Height : k = UpTo(i)
  BY Depth
<1>2. i \in Nat /\ 2^k <= i + 1 /\ i + 1 < 2 * 2^k /\ Height \in Nat
  BY <1>1, Depth, HeightAssumption
<1>3. k # 0
  <2> SUFFICES ASSUME k = 0 PROVE FALSE
    OBVIOUS
  <2>1. 2^k = 1
    BY NoPower
  <2> QED
    BY <1>2, <2>1
<1>4. PICK l \in 0..Height : k = l + 1
  BY <1>2, <1>3, k - 1 \in 0..Height
<1>5. 2^k = 2 * 2^l /\ 2^l \in Nat
  BY <1>4, Powers, l \in Nat
<1>6. PICK j \in Nat : j = Parent(i)
  BY <1>2, <1>3 DEF Parent
<1>7. i \in {2 * j + 1, 2 * j + 2}
  BY <1>2, <1>6 DEF Parent
<1>8. 2^l <= j + 1 /\ j + 1 < 2 * 2^l
  BY <1>2, <1>5, <1>7
<1>9. j \in Node /\ UpTo(j) = l
  BY <1>8, DepthIs
<1> QED
  BY <1>1, <1>2, <1>4, <1>6, <1>7, <1>9 DEF Inner, Level

\* Node 0 is the whole heap.
LEMMA Root == 0 \in Node /\ UpTo(0) = 0 /\ Level(0) = Height
<1>1. 0 \in Node /\ UpTo(0) = 0
  <2>1. 0 \in 0..Height /\ 0 \in Nat
    BY HeightAssumption
  <2>2. 2^0 <= 0 + 1 /\ 0 + 1 < 2 * 2^0
    BY NoPower
  <2> QED
    BY <2>1, <2>2, DepthIs
<1> QED
  BY <1>1, HeightAssumption DEF Level

\* Where a node's units are.
End(i) == Offset(i) + 2^Level(i)

\* Every node has units of the heap.
LEMMA Extent ==
  ASSUME NEW i \in Node
  PROVE  /\ Offset(i) \in Nat /\ End(i) \in Nat /\ End(i) <= 2^Height /\ Offset(i) < End(i)
         /\ Offset(i) = (i + 1 - 2^UpTo(i)) * 2^Level(i)
<1>1. PICK k \in Nat, l \in Nat : k = UpTo(i) /\ l = Level(i) /\ k + l = Height
  BY Depth, HeightAssumption DEF Level
<1>2. PICK x \in Nat : x = 2^k
  BY Powers
<1>3. PICK y \in Nat : y = 2^l
  BY Powers
<1>4. 2^Height = x * y
  BY <1>1, <1>2, <1>3, PowerSum
<1>5. i \in Nat /\ x <= i + 1 /\ i + 1 < 2 * x /\ y >= 1
  BY <1>1, <1>2, <1>3, Depth, Powers
<1>6. PICK z \in Nat : i + 1 = x + z
  BY <1>5, i + 1 - x \in Nat
<1>7. Offset(i) = (i + 1) * y - x * y
  BY <1>1, <1>3, <1>4 DEF Offset
<1>8. Offset(i) = z * y
  BY <1>6, <1>7
<1>9. z * y \in Nat
  OBVIOUS
<1>10. PICK w \in Nat : z + 1 + w = x
  BY <1>5, <1>6, x - z - 1 \in Nat
<1>11. x * y = z * y + y + w * y /\ w * y \in Nat
  BY <1>10
<1>12. End(i) = z * y + y
  BY <1>1, <1>3, <1>8 DEF End
<1>13. Offset(i) \in Nat /\ End(i) \in Nat /\ End(i) <= x * y /\ Offset(i) < End(i)
  BY <1>5, <1>8, <1>9, <1>11, <1>12
<1>14. i + 1 - 2^UpTo(i) = z
  <2>1. i + 1 - x = z
    BY <1>5, <1>6
  <2> QED
    BY <1>1, <1>2, <2>1
<1> QED
  BY <1>1, <1>3, <1>4, <1>8, <1>13, <1>14

\* The children of a node share its units.
LEMMA ChildExtent ==
  ASSUME NEW i, Inner(i)
  PROVE  /\ Offset(2 * i + 1) = Offset(i) /\ End(2 * i + 1) = Offset(2 * i + 2)
         /\ End(2 * i + 2) = End(i)
<1>1. PICK l \in Nat : Level(i) = l + 1
  BY Depth, Level(i) - 1 \in Nat DEF Inner
<1>2. PICK y \in Nat : y = 2^l
  BY Powers
<1>3. 2^Level(i) = 2 * y
  BY <1>1, <1>2, Powers
<1>4. Level(2 * i + 1) = l /\ Level(2 * i + 2) = l
  BY <1>1, ChildDepth
<1>5. PICK h \in Nat : h = 2^Height
  BY Powers, HeightAssumption
<1>6. i \in Nat
  BY Depth DEF Inner
<1>7. (2 * i + 2) * y = (i + 1) * (2 * y) /\ (2 * i + 3) * y = (i + 1) * (2 * y) + y
  BY <1>6
<1>8. /\ Offset(i) = (i + 1) * (2 * y) - h /\ End(i) = (i + 1) * (2 * y) - h + 2 * y
      /\ Offset(2 * i + 1) = ((2 * i + 1) + 1) * y - h
      /\ End(2 * i + 1) = ((2 * i + 1) + 1) * y - h + y
      /\ Offset(2 * i + 2) = ((2 * i + 2) + 1) * y - h
      /\ End(2 * i + 2) = ((2 * i + 2) + 1) * y - h + y
  BY <1>2, <1>3, <1>4, <1>5 DEF Offset, End
<1>9. (2 * i + 1) + 1 = 2 * i + 2 /\ (2 * i + 2) + 1 = 2 * i + 3
  BY <1>6
<1>10. (i + 1) * (2 * y) \in Nat
  BY <1>6
<1> QED
  BY <1>5, <1>7, <1>8, <1>9, <1>10

------------------------------------------------------------------------------
\* Parts of nodes, and nodes apart.

\* d is part of a; d and a have no unit in common
Under(d, a) == Offset(a) <= Offset(d) /\ End(d) <= End(a)
Disjoint(d, a) == End(d) <= Offset(a) \/ End(a) <= Offset(d)

\* Part of a part.
LEMMA UnderTransitive ==
  ASSUME NEW a \in Node, NEW b \in Node, NEW c \in Node, Under(a, b), Under(b, c)
  PROVE  Under(a, c)
BY Extent DEF Under

\* No node is part of another and apart from it.
LEMMA NotBoth ==
  ASSUME NEW d \in Node, NEW a \in Node, Under(d, a)
  PROVE  ~ Disjoint(d, a) /\ ~ Disjoint(a, d)
BY Extent DEF Under, Disjoint

\* The children of a node are parts of it, apart from each other.
LEMMA UnderChild ==
  ASSUME NEW i, Inner(i)
  PROVE  /\ Under(2 * i + 1, i) /\ Under(2 * i + 2, i)
         /\ Disjoint(2 * i + 1, 2 * i + 2) /\ Disjoint(2 * i + 2, 2 * i + 1)
<1>1. 2 * i + 1 \in Node /\ 2 * i + 2 \in Node /\ i \in Node
  BY ChildDepth DEF Inner
<1> QED
  BY <1>1, ChildExtent, Extent DEF Under, Disjoint

\* Two nodes of a level are apart.
LEMMA SameLevel ==
  ASSUME NEW i \in Node, NEW j \in Node, Level(i) = Level(j)
  PROVE  i = j \/ Disjoint(i, j)
<1>1. PICK k \in 0..Height : k = UpTo(i) /\ k = UpTo(j)
  BY Depth, HeightAssumption DEF Level
<1>2. PICK y \in Nat : y = 2^Level(i) /\ y = 2^Level(j)
  BY Depth, Powers
<1>3. PICK x \in Nat : x = 2^k
  BY Powers, HeightAssumption, k \in Nat
<1>4. i \in Nat /\ j \in Nat /\ x <= i + 1 /\ x <= j + 1
  BY <1>1, <1>3, Depth
<1>5. PICK a \in Nat : i + 1 = x + a
  BY <1>4, i + 1 - x \in Nat
<1>6. PICK b \in Nat : j + 1 = x + b
  BY <1>4, j + 1 - x \in Nat
<1>7. i + 1 - x = a /\ j + 1 - x = b
  BY <1>4, <1>5, <1>6
<1>8. Offset(i) = a * y /\ Offset(j) = b * y
  BY <1>1, <1>2, <1>3, <1>7, Extent
<1>9. End(i) = a * y + y /\ End(j) = b * y + y
  BY <1>2, <1>8 DEF End
<1>10. CASE a = b
  BY <1>4, <1>5, <1>6, <1>10
<1>11. CASE a < b
  <2>1. PICK c \in Nat : b = a + 1 + c
    BY <1>11, b - a - 1 \in Nat
  <2>2. b * y = a * y + y + c * y /\ c * y \in Nat /\ a * y \in Nat
    BY <2>1
  <2> QED
    BY <1>8, <1>9, <2>2 DEF Disjoint
<1>12. CASE b < a
  <2>1. PICK c \in Nat : a = b + 1 + c
    BY <1>12, a - b - 1 \in Nat
  <2>2. a * y = b * y + y + c * y /\ c * y \in Nat /\ b * y \in Nat
    BY <2>1
  <2> QED
    BY <1>8, <1>9, <2>2 DEF Disjoint
<1> QED
  BY <1>10, <1>11, <1>12

\* A part of a node is on a lower level, or is the node.
LEMMA UnderLevel ==
  ASSUME NEW d \in Node, NEW a \in Node, Under(d, a)
  PROVE  Level(d) <= Level(a) /\ (Level(d) = Level(a) => d = a)
<1>1. Level(d) \in Nat /\ Level(a) \in Nat
  BY Depth, HeightAssumption
<1>2. ASSUME Level(a) < Level(d) PROVE FALSE
  <2>1. 2^(Level(a) + 1) <= 2^Level(d)
    BY <1>1, <1>2, Monotonic, Level(a) + 1 \in Nat, Level(a) + 1 <= Level(d)
  <2>2. 2^(Level(a) + 1) = 2 * 2^Level(a) /\ 2^Level(a) \in Nat /\ 2^Level(a) >= 1
    BY <1>1, Powers
  <2>3. 2^Level(d) \in Nat
    BY <1>1, Powers
  <2> QED
    BY <2>1, <2>2, <2>3, Extent DEF Under, End
<1>3. Level(d) = Level(a) => d = a
  BY SameLevel, NotBoth
<1> QED
  BY <1>1, <1>2, <1>3

\* A node is under another or apart from it.
LEMMA Nested ==
  ASSUME NEW d \in Node, NEW a \in Node, Level(d) <= Level(a)
  PROVE  Under(d, a) \/ Disjoint(d, a)
<1> DEFINE T == {n \in Nat : \A e \in Node :
                             Level(a) = Level(e) + n => Under(e, a) \/ Disjoint(e, a)}
<1>1. 0 \in T
  <2> SUFFICES ASSUME NEW e \in Node, Level(a) = Level(e) + 0 PROVE Under(e, a) \/ Disjoint(e, a)
    OBVIOUS
  <2>1. Level(a) = Level(e)
    BY Depth, HeightAssumption
  <2>2. Under(a, a)
    BY Extent DEF Under
  <2> QED
    BY <2>1, <2>2, SameLevel
<1>2. ASSUME NEW n \in Nat, n \in T PROVE n + 1 \in T
  <2> SUFFICES ASSUME NEW e \in Node, Level(a) = Level(e) + (n + 1)
               PROVE  Under(e, a) \/ Disjoint(e, a)
    OBVIOUS
  <2>1. e # 0
    BY Root, Depth, HeightAssumption
  <2>2. PICK f \in Node : f = Parent(e)
    BY <2>1, ParentDepth DEF Inner
  <2>3. Level(a) = Level(f) + n
    BY <2>1, <2>2, ParentDepth, Depth, HeightAssumption
  <2>4. Under(f, a) \/ Disjoint(f, a)
    BY <1>2, <2>3
  <2>5. Under(e, f)
    BY <2>1, <2>2, ParentDepth, UnderChild
  <2> QED
    BY <2>4, <2>5, Extent DEF Under, Disjoint
<1>3. PICK n \in Nat : Level(a) = Level(d) + n
  BY Depth, HeightAssumption, Level(a) - Level(d) \in Nat
<1> HIDE DEF T
<1>4. n \in T
  BY <1>1, <1>2, Induction
<1> QED
  BY <1>3, <1>4 DEF T

\* Of two nodes one is part of the other, or they are apart.
LEMMA Laminar ==
  ASSUME NEW d \in Node, NEW a \in Node
  PROVE  Under(d, a) \/ Under(a, d) \/ Disjoint(d, a)
<1>1. Level(d) <= Level(a) \/ Level(a) <= Level(d)
  BY Depth, HeightAssumption
<1> QED
  BY <1>1, Nested DEF Disjoint

\* What is part of a node, and not all of it, is part of a child.
LEMMA InChild ==
  ASSUME NEW i, Inner(i), NEW d \in Node, Under(d, i), d # i
  PROVE  Under(d, 2 * i + 1) \/ Under(d, 2 * i + 2)
<1>1. 2 * i + 1 \in Node /\ 2 * i + 2 \in Node /\ i \in Node
  BY ChildDepth DEF Inner
<1>2. Level(d) <= Level(i) - 1
  BY <1>1, UnderLevel, Depth, HeightAssumption
<1>3. \/ Under(d, 2 * i + 1) \/ Under(d, 2 * i + 2)
      \/ Disjoint(d, 2 * i + 1) /\ Disjoint(d, 2 * i + 2)
  BY <1>1, <1>2, ChildDepth, Nested
<1> QED
  BY <1>1, <1>3, ChildExtent, Extent DEF Under, Disjoint

------------------------------------------------------------------------------
\* The way up from a node.

\* What division gives.
LEMMA Quotient ==
  ASSUME NEW m \in Nat, NEW x \in Nat, x >= 1
  PROVE  /\ m \div x \in Nat /\ x * (m \div x) <= m /\ m < x * (m \div x) + x
OBVIOUS

\* Halving is one step up: the loops of memalloc.c divide by two (110).
LEMMA HalfQuotient ==
  ASSUME NEW m \in Nat, NEW x \in Nat, x >= 1
  PROVE  (m \div x) \div 2 = m \div (2 * x)
<1>1. PICK a \in Nat : a = m \div x
  BY Quotient
<1>2. PICK q \in Nat : q = m \div (2 * x)
  BY Quotient, 2 * x \in Nat, 2 * x >= 1
<1>3. x * a <= m /\ m < x * a + x
  BY <1>1, Quotient
<1>4. (2 * x) * q <= m /\ m < (2 * x) * q + 2 * x
  BY <1>2, Quotient, 2 * x \in Nat, 2 * x >= 1
<1>5. ASSUME a < 2 * q PROVE FALSE
  <2>0. 2 * q - a - 1 \in Nat /\ 2 * q = a + 1 + (2 * q - a - 1)
    BY <1>5
  <2>1. PICK c \in Nat : 2 * q = a + 1 + c
    BY <2>0
  <2>2. (2 * x) * q = x * (2 * q) /\ x * (a + 1 + c) = x * a + x + x * c /\ x * c \in Nat
    OBVIOUS
  <2>3. x * a \in Nat
    OBVIOUS
  <2> QED
    BY <1>3, <1>4, <2>1, <2>2, <2>3
<1>6. ASSUME 2 * q + 2 <= a PROVE FALSE
  <2>1. PICK c \in Nat : a = 2 * q + 2 + c
    BY <1>6, a - 2 * q - 2 \in Nat
  <2>2. x * (2 * q + 2 + c) = (2 * x) * q + 2 * x + x * c /\ x * c \in Nat
    OBVIOUS
  <2>3. (2 * x) * q \in Nat
    OBVIOUS
  <2> QED
    BY <1>3, <1>4, <2>1, <2>2, <2>3
<1>7. a \div 2 = q
  BY <1>5, <1>6
<1> QED
  BY <1>1, <1>2, <1>7

\* The nodes on the way up.
LEMMA UpSteps ==
  ASSUME NEW i \in Node, NEW k \in Nat, k <= UpTo(i)
  PROVE  Up(i, k) \in Node /\ Level(Up(i, k)) = Level(i) + k /\ Under(i, Up(i, k))
<1> DEFINE P(n) == /\ Up(i, n) \in Node /\ Level(Up(i, n)) = Level(i) + n
                   /\ Under(i, Up(i, n))
           T == {n \in Nat : n <= UpTo(i) => P(n)}
<1>0. i \in Nat /\ UpTo(i) \in 0..Height /\ Level(i) = Height - UpTo(i) /\ Height \in Nat
  BY Depth, HeightAssumption DEF Level
<1>1. 0 \in T
  <2>1. (i + 1) \div 1 = i + 1
    BY <1>0
  <2>2. Up(i, 0) = i
    BY <1>0, <2>1, NoPower DEF Up
  <2> QED
    BY <1>0, <2>2, Extent DEF Under
<1>2. ASSUME NEW n \in Nat, n \in T PROVE n + 1 \in T
  <2> SUFFICES ASSUME n + 1 <= UpTo(i) PROVE P(n + 1)
    OBVIOUS
  <2>1. P(n)
    BY <1>0, <1>2
  <2>2. PICK u \in Node : u = Up(i, n)
    BY <2>1
  <2>3. Level(u) = Level(i) + n /\ Under(i, u)
    BY <2>1, <2>2
  <2>4. u # 0
    BY <1>0, <2>3, Root
  <2>5. Parent(u) \in Node /\ Level(Parent(u)) = Level(i) + (n + 1) /\ Under(u, Parent(u))
    <3>1. Inner(Parent(u)) /\ Level(Parent(u)) = Level(u) + 1 /\ Under(u, Parent(u))
      BY <2>4, ParentDepth, UnderChild
    <3> QED
      BY <1>0, <2>3, <3>1 DEF Inner
  <2>6. Up(i, n + 1) = Parent(u)
    <3>1. PICK x \in Nat : x = 2^n /\ x >= 1
      BY Powers
    <3>2. 2^(n + 1) = 2 * x
      BY <3>1, Powers
    <3> PICK m \in Nat : m = i + 1
      BY <1>0
    <3>3. PICK a \in Nat : a = m \div x
      BY <3>1, Quotient
    <3>4. a \div 2 = m \div (2 * x)
      BY <3>1, <3>3, HalfQuotient
    <3>5. u + 1 = a
      BY <2>2, <3>1, <3>3 DEF Up
    <3> QED
      BY <3>2, <3>4, <3>5 DEF Up, Parent
  <2>7. Under(i, Parent(u))
    BY <2>3, <2>5, UnderTransitive
  <2> QED
    BY <2>5, <2>6, <2>7
<1> HIDE DEF T
<1>3. k \in T
  BY <1>1, <1>2, Induction
<1> QED
  BY <1>3 DEF T

\* The nodes on the way up are those a node is part of.
LEMMA AboveIs ==
  ASSUME NEW i \in Node, NEW n
  PROVE  n \in Above(i) <=> n \in Node /\ Under(i, n) /\ n # i
<1>0. UpTo(i) \in 0..Height /\ Level(i) = Height - UpTo(i) /\ Height \in Nat
  BY Depth, HeightAssumption DEF Level
<1>1. ASSUME n \in Above(i) PROVE n \in Node /\ Under(i, n) /\ n # i
  <2>1. PICK k \in 1..UpTo(i) : n = Up(i, k)
    BY <1>1 DEF Above
  <2>2. k \in Nat /\ k <= UpTo(i) /\ k # 0
    BY <1>0
  <2>3. n \in Node /\ Level(n) = Level(i) + k /\ Under(i, n)
    BY <2>1, <2>2, UpSteps
  <2> QED
    BY <1>0, <2>2, <2>3
<1>2. ASSUME n \in Node, Under(i, n), n # i PROVE n \in Above(i)
  <2>1. Level(i) < Level(n) /\ Level(n) \in 0..Height
    BY <1>0, <1>2, UnderLevel, Depth
  <2>2. PICK k \in Nat : k = Level(n) - Level(i)
    BY <1>0, <2>1
  <2>3. k \in 1..UpTo(i) /\ k <= UpTo(i)
    BY <1>0, <2>1, <2>2
  <2>4. PICK u \in Node : u = Up(i, k)
    BY <2>3, UpSteps
  <2>5. Level(u) = Level(i) + k /\ Under(i, u)
    BY <2>3, <2>4, UpSteps
  <2>6. Level(u) = Level(n)
    BY <1>0, <2>1, <2>2, <2>5
  <2>7. u = n
    BY <1>2, <2>5, <2>6, SameLevel, Extent DEF Under, Disjoint
  <2> QED
    BY <2>3, <2>4, <2>7 DEF Above
<1> QED
  BY <1>1, <1>2

\* They have children.
LEMMA AboveInner ==
  ASSUME NEW i \in Node, NEW n \in Above(i)
  PROVE  /\ Inner(n) /\ Level(i) < Level(n)
         /\ 2 * n + 1 \in Node /\ 2 * n + 2 \in Node
         /\ Level(2 * n + 1) = Level(n) - 1 /\ Level(2 * n + 2) = Level(n) - 1
<1>1. n \in Node /\ Under(i, n) /\ n # i
  BY AboveIs
<1>2. Level(i) < Level(n) /\ Level(i) \in Nat /\ Level(n) \in Nat
  BY <1>1, UnderLevel, Depth, HeightAssumption
<1>3. Inner(n)
  BY <1>1, <1>2 DEF Inner
<1> QED
  BY <1>2, <1>3, ChildDepth

------------------------------------------------------------------------------
\* Recomputing the nodes above one (Refreshed).

\* the functions a recomputation joins children by, and what it makes of a node
Joins == [Int \X Int \X Int -> Int]
NewValue(g, t, i, v, J, n) ==
  IF n = i THEN v
  ELSE IF n \in Above(i) THEN J[<<Level(n), g[2 * n + 1], g[2 * n + 2]>>] ELSE t[n]

\* The recomputation of Refreshed has a result: each level follows from the one below.
LEMMA SomeRefreshed ==
  ASSUME NEW t \in [Node -> Int], NEW i \in Node, NEW v \in Int, NEW J \in Joins
  PROVE  \E g \in [Node -> Int] : g = [n \in Node |-> NewValue(g, t, i, v, J, n)]
<1> DEFINE Done(g, k) ==
             \A n \in Node : n \notin Above(i) \/ Level(n) <= k => g[n] = NewValue(g, t, i, v, J, n)
           T == {k \in Nat : \E g \in [Node -> Int] : Done(g, k)}
<1>0. \A n \in Above(i) : /\ n \in Node /\ n # i /\ Level(i) < Level(n)
                          /\ 2 * n + 1 \in Node /\ 2 * n + 2 \in Node
                          /\ Level(2 * n + 1) = Level(n) - 1 /\ Level(2 * n + 2) = Level(n) - 1
  BY AboveInner, AboveIs
<1>00. \A n \in Node : Level(n) \in Nat /\ Level(n) <= Height
  BY Depth, HeightAssumption
<1>1. 0 \in T
  <2> DEFINE g == [n \in Node |-> IF n = i THEN v ELSE t[n]]
  <2>1. g \in [Node -> Int]
    OBVIOUS
  <2>2. \A n \in Above(i) : ~(Level(n) <= 0)
    BY <1>0, <1>00
  <2>3. \A n \in Node : n \notin Above(i) => g[n] = NewValue(g, t, i, v, J, n)
    BY DEF NewValue
  <2>4. Done(g, 0)
    BY <2>2, <2>3
  <2> QED
    BY <2>1, <2>4
<1>2. ASSUME NEW k \in Nat, k \in T PROVE k + 1 \in T
  <2>1. PICK g \in [Node -> Int] : Done(g, k)
    BY <1>2
  <2> DEFINE h == [n \in Node |-> IF n \in Above(i) /\ Level(n) = k + 1
                                  THEN J[<<Level(n), g[2 * n + 1], g[2 * n + 2]>>] ELSE g[n]]
  <2>2. \A n \in Above(i) : J[<<Level(n), g[2 * n + 1], g[2 * n + 2]>>] \in Int
    <3> TAKE n \in Above(i)
    <3>1. <<Level(n), g[2 * n + 1], g[2 * n + 2]>> \in Int \X Int \X Int
      BY <1>0, <1>00
    <3> QED
      BY <3>1 DEF Joins
  <2>3. h \in [Node -> Int]
    BY <2>2
  <2>4. \A n \in Node : Level(n) # k + 1 \/ n \notin Above(i) => h[n] = g[n]
    OBVIOUS
  <2>5. \A n \in Above(i) : Level(n) = k + 1 => h[n] = J[<<Level(n), g[2 * n + 1], g[2 * n + 2]>>]
    BY <1>0
  <2> HIDE DEF h
  <2>6. \A n \in Above(i) : Level(n) <= k + 1 =>
          h[2 * n + 1] = g[2 * n + 1] /\ h[2 * n + 2] = g[2 * n + 2]
    <3> SUFFICES ASSUME NEW n \in Above(i), Level(n) <= k + 1
                 PROVE  h[2 * n + 1] = g[2 * n + 1] /\ h[2 * n + 2] = g[2 * n + 2]
      OBVIOUS
    <3>1. Level(2 * n + 1) # k + 1 /\ Level(2 * n + 2) # k + 1
      BY <1>0, <1>00
    <3> QED
      BY <1>0, <2>4, <3>1
  <2>7. ASSUME NEW n \in Node, n \notin Above(i) \/ Level(n) <= k + 1
        PROVE  h[n] = NewValue(h, t, i, v, J, n)
    <3>1. CASE n \notin Above(i)
      BY <2>1, <2>4, <3>1 DEF NewValue
    <3>2. CASE n \in Above(i) /\ Level(n) = k + 1
      BY <1>0, <2>5, <2>6, <3>2 DEF NewValue
    <3>3. CASE n \in Above(i) /\ Level(n) <= k
      <4>1. h[n] = g[n] /\ g[n] = NewValue(g, t, i, v, J, n)
        BY <2>1, <2>4, <3>3
      <4> QED
        BY <1>0, <1>00, <2>6, <3>3, <4>1 DEF NewValue
    <3> QED
      BY <1>00, <2>7, <3>1, <3>2, <3>3
  <2> QED
    BY <2>3, <2>7
<1> HIDE DEF T
<1>3. Height \in T
  BY <1>1, <1>2, Induction, HeightAssumption
<1>4. PICK g \in [Node -> Int] : Done(g, Height)
  BY <1>3 DEF T
<1>5. \A n \in Node : g[n] = NewValue(g, t, i, v, J, n)
  BY <1>00, <1>4
<1>6. g = [n \in Node |-> NewValue(g, t, i, v, J, n)]
  <2>1. g = [n \in Node |-> g[n]]
    OBVIOUS
  <2> QED
    BY <1>5, <2>1
<1> QED
  BY <1>6

\* Whatever is computed so is a number.
LEMMA Numbers ==
  ASSUME NEW t \in [Node -> Int], NEW i \in Node, NEW h,
         \A n \in Node : \/ h[n] \in Int
                         \/ n \in Above(i) /\ h[n] \in {Level(n), h[2 * n + 1], h[2 * n + 2]}
  PROVE  \A n \in Node : h[n] \in Int
<1> DEFINE T == {k \in Nat : \A n \in Node : Level(n) <= k => h[n] \in Int}
<1>00. \A n \in Node : Level(n) \in Nat /\ Level(n) <= Height
  BY Depth, HeightAssumption
<1>1. 0 \in T
  <2> SUFFICES ASSUME NEW n \in Node, Level(n) <= 0 PROVE h[n] \in Int
    OBVIOUS
  <2>1. n \notin Above(i)
    BY <1>00, AboveInner
  <2> QED
    BY <2>1
<1>2. ASSUME NEW k \in Nat, k \in T PROVE k + 1 \in T
  <2> SUFFICES ASSUME NEW n \in Node, Level(n) <= k + 1 PROVE h[n] \in Int
    OBVIOUS
  <2>1. CASE n \notin Above(i)
    BY <2>1
  <2>2. CASE n \in Above(i)
    <3>1. /\ 2 * n + 1 \in Node /\ 2 * n + 2 \in Node
          /\ Level(2 * n + 1) = Level(n) - 1 /\ Level(2 * n + 2) = Level(n) - 1
      BY <2>2, AboveInner
    <3>2. Level(2 * n + 1) <= k /\ Level(2 * n + 2) <= k
      BY <1>00, <3>1
    <3>3. h[2 * n + 1] \in Int /\ h[2 * n + 2] \in Int
      BY <1>2, <3>1, <3>2
    <3> QED
      BY <1>00, <3>3
  <2> QED
    BY <2>1, <2>2
<1> HIDE DEF T
<1>3. Height \in T
  BY <1>1, <1>2, Induction, HeightAssumption
<1> QED
  BY <1>3, <1>00 DEF T

\* What is left when a block is taken, and when it is given back.
NewTaken(g, t, i, n) ==
  IF n = i THEN NoBlock
  ELSE IF n \in Above(i) THEN Larger(g[2 * n + 1], g[2 * n + 2]) ELSE t[n]
NewFreed(g, t, i, n) ==
  IF n = i THEN Level(i)
  ELSE IF n \in Above(i) THEN Merged(Level(n), g[2 * n + 1], g[2 * n + 2]) ELSE t[n]

\* The numbers a recomputation joins.
LEMMA Values ==
  ASSUME NEW i \in Node, NEW g \in [Node -> Int], NEW n \in Above(i)
  PROVE  /\ Level(n) \in Int /\ g[2 * n + 1] \in Int /\ g[2 * n + 2] \in Int
         /\ <<Level(n), g[2 * n + 1], g[2 * n + 2]>> \in Int \X Int \X Int
<1>1. 2 * n + 1 \in Node /\ 2 * n + 2 \in Node /\ n \in Node
  BY AboveInner, AboveIs
<1>2. Level(n) \in Int /\ g[2 * n + 1] \in Int /\ g[2 * n + 2] \in Int
  BY <1>1, Depth, HeightAssumption
<1> QED
  BY <1>2

\* What buddy_alloc leaves: no block at i, the larger of the children above it.
LEMMA TakenIs ==
  ASSUME NEW t \in [Node -> Int], NEW i \in Node
  PROVE  /\ Taken(t, i) \in [Node -> Int]
         /\ \A n \in Node : Taken(t, i)[n] = NewTaken(Taken(t, i), t, i, n)
<1> DEFINE J == [x \in Int \X Int \X Int |-> Larger(x[2], x[3])]
<1>1. J \in Joins
  BY DEF Joins, Larger
<1>2. NoBlock \in Int
  BY DEF NoBlock
<1>3. PICK g \in [Node -> Int] : g = [n \in Node |-> NewValue(g, t, i, NoBlock, J, n)]
  <2> HIDE DEF J
  <2> QED
    BY <1>1, <1>2, SomeRefreshed
<1>4. ASSUME NEW n \in Node PROVE NewValue(g, t, i, NoBlock, J, n) = NewTaken(g, t, i, n)
  <2>1. CASE n \in Above(i)
    <3>1. <<Level(n), g[2 * n + 1], g[2 * n + 2]>> \in Int \X Int \X Int
      BY <2>1, Values
    <3>2. J[<<Level(n), g[2 * n + 1], g[2 * n + 2]>>] = Larger(g[2 * n + 1], g[2 * n + 2])
      BY <3>1
    <3> QED
      BY <2>1, <3>2 DEF NewValue, NewTaken
  <2>2. CASE n \notin Above(i)
    BY <2>2 DEF NewValue, NewTaken
  <2> QED
    BY <2>1, <2>2
<1>5. g = [n \in Node |-> NewTaken(g, t, i, n)]
  BY <1>3, <1>4
<1>6. Taken(t, i) = CHOOSE h : h = [n \in Node |-> NewTaken(h, t, i, n)]
  BY DEF Taken, Refreshed, NewTaken
<1>7. Taken(t, i) = [n \in Node |-> NewTaken(Taken(t, i), t, i, n)]
  BY <1>5, <1>6
<1> PICK h : h = Taken(t, i)
  OBVIOUS
<1>8. h = [n \in Node |-> NewTaken(h, t, i, n)]
  BY <1>7
<1>9. \A n \in Node : h[n] = NewTaken(h, t, i, n)
  BY <1>8
<1>10. \A n \in Node : \/ h[n] \in Int
                       \/ (n \in Above(i) /\ h[n] \in {Level(n), h[2 * n + 1], h[2 * n + 2]})
  BY <1>9, <1>2 DEF NewTaken, Larger
<1>11. \A n \in Node : h[n] \in Int
  BY <1>10, Numbers
<1>12. h \in [Node -> Int]
  BY <1>8, <1>9, <1>11
<1> QED
  BY <1>9, <1>12

\* What buddy_free leaves: the whole of i, the children merged above it.
LEMMA FreedIs ==
  ASSUME NEW t \in [Node -> Int], NEW i \in Node, NEW offset, i = Owner(t, offset)
  PROVE  /\ Freed(t, offset) \in [Node -> Int]
         /\ \A n \in Node : Freed(t, offset)[n] = NewFreed(Freed(t, offset), t, i, n)
<1> DEFINE J == [x \in Int \X Int \X Int |-> Merged(x[1], x[2], x[3])]
<1>1. J \in Joins
  BY DEF Joins, Merged, Larger
<1>2. Level(i) \in Int
  BY Depth, HeightAssumption
<1>3. PICK g \in [Node -> Int] : g = [n \in Node |-> NewValue(g, t, i, Level(i), J, n)]
  <2> HIDE DEF J
  <2> QED
    BY <1>1, <1>2, SomeRefreshed
<1>4. ASSUME NEW n \in Node PROVE NewValue(g, t, i, Level(i), J, n) = NewFreed(g, t, i, n)
  <2>1. CASE n \in Above(i)
    <3>1. <<Level(n), g[2 * n + 1], g[2 * n + 2]>> \in Int \X Int \X Int
      BY <2>1, Values
    <3>2. J[<<Level(n), g[2 * n + 1], g[2 * n + 2]>>] = Merged(Level(n), g[2 * n + 1], g[2 * n + 2])
      BY <3>1
    <3> QED
      BY <2>1, <3>2 DEF NewValue, NewFreed
  <2>2. CASE n \notin Above(i)
    BY <2>2 DEF NewValue, NewFreed
  <2> QED
    BY <2>1, <2>2
<1>5. g = [n \in Node |-> NewFreed(g, t, i, n)]
  BY <1>3, <1>4
<1>6. Freed(t, offset) = CHOOSE h : h = [n \in Node |-> NewFreed(h, t, i, n)]
  BY DEF Freed, Refreshed, NewFreed
<1>7. Freed(t, offset) = [n \in Node |-> NewFreed(Freed(t, offset), t, i, n)]
  BY <1>5, <1>6
<1> PICK h : h = Freed(t, offset)
  OBVIOUS
<1>8. h = [n \in Node |-> NewFreed(h, t, i, n)]
  BY <1>7
<1>9. \A n \in Node : h[n] = NewFreed(h, t, i, n)
  BY <1>8
<1>10. \A n \in Node : \/ h[n] \in Int
                       \/ (n \in Above(i) /\ h[n] \in {Level(n), h[2 * n + 1], h[2 * n + 2]})
  BY <1>9, <1>2 DEF NewFreed, Merged, Larger
<1>11. \A n \in Node : h[n] \in Int
  BY <1>10, Numbers
<1>12. h \in [Node -> Int]
  BY <1>8, <1>9, <1>11
<1> QED
  BY <1>9, <1>12

------------------------------------------------------------------------------
\* What a tree shows: the blocks A that are handed out.

\* i is part of a block, and not all of it: nobody reads its number
Covered(i, A) == \E a \in A : Under(i, a) /\ i # a
\* what a node says: of a block, of a part of one, of a unit, of two children
Value(t, A, i) ==
  IF i \in A THEN NoBlock
  ELSE IF Covered(i, A) THEN Level(i)
  ELSE IF Level(i) = 0 THEN 0
  ELSE Merged(Level(i), t[2 * i + 1], t[2 * i + 2])
\* t is the tree of a heap in which the nodes A, all apart, are handed out
Shows(t, A) ==
  /\ A \subseteq Node /\ \A a, b \in A : a # b => Disjoint(a, b)
  /\ t \in [Node -> Int] /\ \A i \in Node : t[i] = Value(t, A, i)

Free(A) == {d \in Node : \A a \in A : Disjoint(d, a)}
\* the number at i is the level of the largest node free under it
Exact(t, A, i) ==
  /\ t[i] \in -1..Level(i)
  /\ \A d \in Free(A) : Under(d, i) => Level(d) <= t[i]
  /\ t[i] # NoBlock => \E d \in Free(A) : Under(d, i) /\ Level(d) = t[i]

\* Every node is part of itself.
LEMMA Itself == ASSUME NEW i \in Node PROVE Under(i, i)
BY Extent DEF Under

\* What is apart from a node is apart from its parts.
LEMMA PartApart ==
  ASSUME NEW d \in Node, NEW i \in Node, NEW a \in Node, Under(d, i), Disjoint(i, a)
  PROVE  Disjoint(d, a)
BY Extent DEF Under, Disjoint

\* Nodes with a common part are not apart.
LEMMA CommonPart ==
  ASSUME NEW d \in Node, NEW a \in Node, NEW b \in Node, Under(d, a), Under(d, b)
  PROVE  ~ Disjoint(a, b)
BY Extent DEF Under, Disjoint

\* Levels are numbers.
LEMMA Levels ==
  ASSUME NEW i \in Node PROVE Level(i) \in Nat /\ Level(i) <= Height /\ Height \in Nat
BY Depth, HeightAssumption

\* A node that holds no block and is in none is free, or inner.
LEMMA Either ==
  ASSUME NEW A \in SUBSET Node, NEW i \in Node, i \notin A, ~ Covered(i, A)
  PROVE  \A a \in A : Disjoint(i, a) \/ (Under(a, i) /\ a # i)
BY Laminar DEF Covered

\* Nor are its children in one.
LEMMA ChildUncovered ==
  ASSUME NEW A \in SUBSET Node, NEW i, Inner(i), i \notin A, ~ Covered(i, A),
         NEW c \in {2 * i + 1, 2 * i + 2}
  PROVE  ~ Covered(c, A)
<1> SUFFICES ASSUME NEW a \in A, Under(c, a), c # a PROVE FALSE
  BY DEF Covered
<1>1. i \in Node /\ c \in Node /\ Under(c, i) /\ 2 * i + 1 \in Node /\ 2 * i + 2 \in Node
  BY ChildDepth, UnderChild DEF Inner
<1>2. Under(a, i) /\ a # i
  BY <1>1, Either, CommonPart
<1>3. PICK b \in {2 * i + 1, 2 * i + 2} : Under(a, b)
  BY <1>1, <1>2, InChild
<1>4. CASE b = c
  <2>1. Level(a) = Level(c)
    BY <1>1, <1>3, <1>4, UnderLevel, Levels
  <2> QED
    BY <1>1, <1>3, <1>4, <2>1, UnderLevel
<1>5. CASE b # c
  <2>1. Under(c, b)
    BY <1>1, <1>3, UnderTransitive
  <2>2. Disjoint(c, b)
    BY <1>5, UnderChild
  <2> QED
    BY <1>1, <2>1, <2>2, NotBoth
<1> QED
  BY <1>4, <1>5

\* Under a block that was handed out nothing is free.
LEMMA ExactHeld ==
  ASSUME NEW t, NEW A, Shows(t, A), NEW i \in A
  PROVE  Exact(t, A, i)
<1>1. i \in Node /\ t[i] = NoBlock
  BY DEF Shows, Value
<1>2. \A d \in Free(A) : ~ Under(d, i)
  BY <1>1, NotBoth DEF Free
<1> QED
  BY <1>1, <1>2, Levels DEF Exact, NoBlock

\* A unit outside every block is free.
LEMMA ExactLeaf ==
  ASSUME NEW t, NEW A, Shows(t, A), NEW i \in Node, i \notin A, ~ Covered(i, A), Level(i) = 0
  PROVE  Exact(t, A, i)
<1>1. A \in SUBSET Node /\ t[i] = 0
  BY DEF Shows, Value
<1>2. \A a \in A : Disjoint(i, a)
  <2> SUFFICES ASSUME NEW a \in A, Under(a, i), a # i PROVE FALSE
    BY <1>1, Either
  <2> QED
    BY <1>1, UnderLevel, Levels
<1>3. i \in Free(A) /\ Under(i, i)
  BY <1>2, Itself DEF Free
<1>4. \A d \in Free(A) : Under(d, i) => Level(d) <= 0
  BY UnderLevel DEF Free
<1> QED
  BY <1>1, <1>3, <1>4, Levels DEF Exact

\* If the children know what is free, so does the node.
LEMMA ExactInner ==
  ASSUME NEW t, NEW A, Shows(t, A), NEW i, Inner(i), i \notin A, ~ Covered(i, A),
         Exact(t, A, 2 * i + 1), Exact(t, A, 2 * i + 2)
  PROVE  Exact(t, A, i)
<1> PICK c : c = 2 * i + 1
  OBVIOUS
<1> PICK e : e = 2 * i + 2
  OBVIOUS
<1> PICK L \in Nat : L = Level(i)
  BY Levels DEF Inner
<1>1. /\ i \in Node /\ c \in Node /\ e \in Node /\ Under(c, i) /\ Under(e, i)
      /\ Level(c) = L - 1 /\ Level(e) = L - 1 /\ L > 0 /\ Disjoint(c, e)
  BY ChildDepth, UnderChild DEF Inner
<1>2. PICK l : l = t[c]
  OBVIOUS
<1>3. PICK r : r = t[e]
  OBVIOUS
<1>4. /\ l \in -1..(L - 1) /\ r \in -1..(L - 1)
      /\ \A d \in Free(A) : Under(d, c) => Level(d) <= l
      /\ \A d \in Free(A) : Under(d, e) => Level(d) <= r
      /\ l # NoBlock => \E d \in Free(A) : Under(d, c) /\ Level(d) = l
      /\ r # NoBlock => \E d \in Free(A) : Under(d, e) /\ Level(d) = r
  BY <1>1, <1>2, <1>3 DEF Exact
<1>5. A \in SUBSET Node /\ t[i] = Merged(L, l, r)
  BY <1>1, <1>2, <1>3 DEF Shows, Value
<1>6. \A d \in Free(A) : /\ d \in Node /\ Level(d) \in Nat
                         /\ (Under(d, i) => (d = i \/ Under(d, c) \/ Under(d, e)))
  BY Levels, InChild DEF Free
<1>7. CASE l = r /\ l = L - 1
  <2>1. t[i] = L
    BY <1>5, <1>7 DEF Merged
  <2>2. c \in Free(A) /\ e \in Free(A)
    <3>1. l # NoBlock /\ r # NoBlock
      BY <1>1, <1>7 DEF NoBlock
    <3>2. PICK d \in Free(A) : Under(d, c) /\ Level(d) = l
      BY <1>4, <3>1
    <3>3. PICK f \in Free(A) : Under(f, e) /\ Level(f) = r
      BY <1>4, <3>1
    <3>4. d = c /\ f = e
      BY <1>1, <1>6, <1>7, <3>2, <3>3, UnderLevel
    <3> QED
      BY <3>4
  <2>3. i \in Free(A)
    <3> SUFFICES ASSUME NEW a \in A, Under(a, i), a # i PROVE FALSE
      BY <1>1, <1>5, Either DEF Free
    <3>1. Under(a, c) \/ Under(a, e)
      BY <1>5, InChild
    <3> QED
      BY <1>1, <1>5, <2>2, <3>1, NotBoth DEF Free
  <2>4. Under(i, i) /\ \A d \in Free(A) : Under(d, i) => Level(d) <= L
    BY <1>1, <1>6, Itself, UnderLevel
  <2>5. t[i] \in -1..L
    BY <2>1
  <2> QED
    BY <2>1, <2>3, <2>4, <2>5 DEF Exact
<1>8. CASE ~ (l = r /\ l = L - 1)
  <2>1. t[i] = Larger(l, r)
    BY <1>5, <1>8 DEF Merged
  <2>2. t[i] \in -1..L /\ l <= t[i] /\ r <= t[i] /\ t[i] \in {l, r} /\ t[i] \in Int
    BY <1>4, <2>1 DEF Larger
  <2>3. i \notin Free(A)
    <3> SUFFICES ASSUME i \in Free(A) PROVE FALSE
      OBVIOUS
    <3>1. c \in Free(A) /\ e \in Free(A)
      BY <1>1, <1>5, PartApart DEF Free
    <3>2. Under(c, c) /\ Under(e, e)
      BY <1>1, Itself
    <3>3. L - 1 <= l /\ L - 1 <= r
      BY <1>1, <1>4, <3>1, <3>2
    <3> QED
      BY <1>4, <1>8, <3>3
  <2>4. ASSUME NEW d \in Free(A), Under(d, i) PROVE Level(d) <= t[i]
    <3>1. Level(d) <= l \/ Level(d) <= r
      BY <1>4, <1>6, <2>3, <2>4
    <3> QED
      BY <1>4, <1>6, <2>2, <3>1
  <2>5. ASSUME t[i] # NoBlock PROVE \E d \in Free(A) : Under(d, i) /\ Level(d) = t[i]
    <3>1. PICK d \in Free(A) : (Under(d, c) \/ Under(d, e)) /\ Level(d) = t[i]
      BY <1>4, <2>2, <2>5
    <3> QED
      BY <1>1, <1>6, <3>1, UnderTransitive
  <2> QED
    BY <2>2, <2>4, <2>5 DEF Exact
<1> QED
  BY <1>7, <1>8

\* So every node that is in no block knows the largest free block under it.
LEMMA Exactly ==
  ASSUME NEW t, NEW A, Shows(t, A), NEW i \in Node, ~ Covered(i, A)
  PROVE  Exact(t, A, i)
<1> DEFINE T == {k \in Nat : \A n \in Node : Level(n) <= k /\ ~ Covered(n, A) => Exact(t, A, n)}
<1>1. 0 \in T
  <2> SUFFICES ASSUME NEW n \in Node, Level(n) <= 0, ~ Covered(n, A) PROVE Exact(t, A, n)
    OBVIOUS
  <2>1. Level(n) = 0
    BY Levels
  <2> QED
    BY <2>1, ExactHeld, ExactLeaf
<1>2. ASSUME NEW k \in Nat, k \in T PROVE k + 1 \in T
  <2> SUFFICES ASSUME NEW n \in Node, Level(n) <= k + 1, ~ Covered(n, A) PROVE Exact(t, A, n)
    OBVIOUS
  <2>1. CASE n \in A
    BY <2>1, ExactHeld
  <2>2. CASE n \notin A /\ Level(n) = 0
    BY <2>2, ExactLeaf
  <2>3. CASE n \notin A /\ Level(n) > 0
    <3>1. Inner(n) /\ A \in SUBSET Node
      BY <2>3 DEF Inner, Shows
    <3>2. 2 * n + 1 \in Node /\ 2 * n + 2 \in Node
          /\ Level(2 * n + 1) = Level(n) - 1 /\ Level(2 * n + 2) = Level(n) - 1
      BY <3>1, ChildDepth
    <3>3. Level(2 * n + 1) <= k /\ Level(2 * n + 2) <= k
      BY <3>2, Levels
    <3>4. ~ Covered(2 * n + 1, A) /\ ~ Covered(2 * n + 2, A)
      BY <2>3, <3>1, ChildUncovered
    <3>5. Exact(t, A, 2 * n + 1) /\ Exact(t, A, 2 * n + 2)
      BY <1>2, <3>2, <3>3, <3>4
    <3> QED
      BY <2>3, <3>1, <3>5, ExactInner
  <2> QED
    BY <2>1, <2>2, <2>3, Levels
<1> HIDE DEF T
<1>3. Height \in T
  BY <1>1, <1>2, Induction, HeightAssumption
<1> QED
  BY <1>3, Levels DEF T

\* No block is in another.
LEMMA HeldNotCovered ==
  ASSUME NEW t, NEW A, Shows(t, A), NEW a \in A
  PROVE  ~ Covered(a, A)
BY NotBoth DEF Shows, Covered

\* The exponent at a node is at most its level.
LEMMA Bounds ==
  ASSUME NEW t, NEW A, Shows(t, A), NEW i \in Node
  PROVE  t[i] \in -1..Level(i)
<1>1. CASE Covered(i, A)
  <2>1. i \notin A
    BY <1>1, HeldNotCovered
  <2>2. t[i] = Level(i)
    BY <1>1, <2>1 DEF Shows, Value
  <2> QED
    BY <2>2, Levels
<1>2. CASE ~ Covered(i, A)
  BY <1>2, Exactly DEF Exact
<1> QED
  BY <1>1, <1>2

\* A node of which all is there is free, and the other way round.
LEMMA FullIsFree ==
  ASSUME NEW t, NEW A, Shows(t, A), NEW i \in Node, ~ Covered(i, A), t[i] = Level(i)
  PROVE  i \in Free(A)
<1>1. t[i] # NoBlock
  BY Levels DEF NoBlock
<1>2. PICK d \in Free(A) : Under(d, i) /\ Level(d) = t[i]
  BY <1>1, Exactly DEF Exact
<1>3. d = i
  BY <1>2, UnderLevel DEF Free
<1> QED
  BY <1>3

\* A node that is free is full.
LEMMA FreeIsFull ==
  ASSUME NEW t, NEW A, Shows(t, A), NEW i \in Free(A)
  PROVE  i \in Node /\ i \notin A /\ ~ Covered(i, A) /\ t[i] = Level(i)
<1>1. i \in Node /\ A \in SUBSET Node
  BY DEF Free, Shows
<1>2. i \notin A /\ ~ Covered(i, A)
  BY <1>1, NotBoth, Itself DEF Free, Covered
<1>3. Level(i) <= t[i] /\ t[i] \in -1..Level(i)
  BY <1>1, <1>2, Exactly, Itself DEF Exact
<1>4. t[i] = Level(i)
  BY <1>1, <1>3, Levels
<1> QED
  BY <1>1, <1>2, <1>4

\* The parts of a free node are free.
LEMMA FreeUnder ==
  ASSUME NEW A \in SUBSET Node, NEW i \in Free(A), NEW d \in Node, Under(d, i)
  PROVE  d \in Free(A)
BY PartApart DEF Free

------------------------------------------------------------------------------
\* Taking a block.

\* No node above a block that was taken is all free any more.
LEMMA Lower ==
  ASSUME NEW t, NEW A, Shows(t, A), NEW i \in Free(A), NEW g \in [Node -> Int],
         \A n \in Node : g[n] = NewTaken(g, t, i, n),
         NEW m \in Node, Under(i, m)
  PROVE  g[m] < Level(m)
<1>0. i \in Node
  BY DEF Free
<1> DEFINE T == {k \in Nat : \A n \in Node : Level(n) <= k /\ Under(i, n) => g[n] < Level(n)}
<1>1. g[i] < Level(i)
  BY <1>0, Levels DEF NewTaken, NoBlock
<1>2. 0 \in T
  <2> SUFFICES ASSUME NEW n \in Node, Level(n) <= 0, Under(i, n) PROVE g[n] < Level(n)
    OBVIOUS
  <2>1. i = n
    BY <1>0, Levels, UnderLevel
  <2> QED
    BY <1>1, <2>1
<1>3. ASSUME NEW k \in Nat, k \in T PROVE k + 1 \in T
  <2> SUFFICES ASSUME NEW n \in Node, Level(n) <= k + 1, Under(i, n), n # i PROVE g[n] < Level(n)
    BY <1>1
  <2>1. n \in Above(i)
    BY <1>0, AboveIs
  <2> PICK c : c = 2 * n + 1
    OBVIOUS
  <2> PICK e : e = 2 * n + 2
    OBVIOUS
  <2>2. /\ Inner(n) /\ c \in Node /\ e \in Node
        /\ Level(c) = Level(n) - 1 /\ Level(e) = Level(n) - 1
    BY <1>0, <2>1, AboveInner
  <2>3. g[n] = Larger(g[c], g[e]) /\ g[c] \in Int /\ g[e] \in Int
    BY <2>1, <2>2 DEF NewTaken
  <2>4. Level(c) <= k /\ Level(e) <= k
    BY <2>2, Levels
  <2>5. ASSUME NEW b \in {c, e} PROVE g[b] < Level(n)
    <3>1. CASE Under(i, b)
      BY <1>3, <2>2, <2>4, <3>1, Levels
    <3>2. CASE ~ Under(i, b)
      <4>1. b \in Node /\ b \notin Above(i) /\ b # i
        BY <1>0, <2>2, <3>2, AboveIs, Itself
      <4>2. g[b] = t[b]
        BY <4>1 DEF NewTaken
      <4> QED
        BY <2>2, <4>1, <4>2, Bounds, Levels
    <3> QED
      BY <3>1, <3>2
  <2> QED
    BY <2>3, <2>5 DEF Larger
<1> HIDE DEF T
<1>4. Height \in T
  BY <1>2, <1>3, Induction, HeightAssumption
<1> QED
  BY <1>4, Levels DEF T

\* A tree with a free block taken shows one block more.
LEMMA TakenShows ==
  ASSUME NEW t, NEW A, Shows(t, A), NEW i \in Free(A)
  PROVE  Shows(Taken(t, i), A \cup {i})
<1>0. A \in SUBSET Node /\ i \in Node /\ t \in [Node -> Int] /\ i \notin A
  BY FreeIsFull DEF Shows
<1>1. PICK g : g = Taken(t, i)
  OBVIOUS
<1>2. g \in [Node -> Int] /\ \A n \in Node : g[n] = NewTaken(g, t, i, n)
  BY <1>0, <1>1, TakenIs
<1>3. PICK B : B = A \cup {i}
  OBVIOUS
<1>4. \A a, b \in B : a # b => Disjoint(a, b)
  BY <1>3 DEF Shows, Free, Disjoint
<1>5. ASSUME NEW n \in Node PROVE g[n] = Value(g, B, n)
  <2>1. CASE n = i
    BY <1>2, <1>3, <2>1 DEF NewTaken, Value
  <2>2. CASE n \in A
    <3>1. Disjoint(i, n)
      BY <2>2 DEF Free
    <3>2. n \notin Above(i) /\ n # i
      BY <1>0, <2>2, <3>1, AboveIs, NotBoth
    <3>3. g[n] = t[n] /\ t[n] = NoBlock
      BY <1>2, <2>2, <3>2 DEF NewTaken, Shows, Value
    <3> QED
      BY <1>3, <2>2, <3>3 DEF Value
  <2>3. CASE n \notin B /\ Covered(n, A)
    <3>1. PICK a \in A : Under(n, a) /\ n # a
      BY <2>3 DEF Covered
    <3>2. a \in Node /\ Disjoint(i, a)
      BY <1>0 DEF Free
    <3>3. n \notin Above(i)
      BY <1>0, <3>1, <3>2, AboveIs, UnderTransitive, NotBoth
    <3>4. g[n] = t[n] /\ t[n] = Level(n)
      BY <1>2, <1>3, <2>3, <3>3 DEF NewTaken, Shows, Value
    <3>5. Covered(n, B)
      BY <1>3, <3>1 DEF Covered
    <3> QED
      BY <2>3, <3>4, <3>5 DEF Value
  <2>4. CASE n \notin B /\ Under(n, i)
    <3>1. n # i /\ n \in Free(A)
      BY <1>0, <1>3, <2>4, FreeUnder
    <3>2. n \notin Above(i)
      BY <1>0, <2>4, <3>1, AboveIs, UnderLevel, Levels
    <3>3. g[n] = t[n] /\ t[n] = Level(n)
      BY <1>2, <3>1, <3>2, FreeIsFull DEF NewTaken
    <3>4. Covered(n, B)
      BY <1>3, <2>4, <3>1 DEF Covered
    <3> QED
      BY <2>4, <3>3, <3>4 DEF Value
  <2>5. CASE n \notin B /\ ~ Covered(n, A) /\ ~ Under(n, i)
    <3>1. n \notin A /\ n # i /\ ~ Covered(n, B)
      BY <1>3, <2>5 DEF Covered
    <3>2. CASE Level(n) = 0
      <4>1. n \notin Above(i)
        BY <1>0, <3>2, AboveInner, Levels
      <4>2. g[n] = t[n] /\ t[n] = 0
        BY <1>2, <2>5, <3>1, <3>2, <4>1 DEF NewTaken, Shows, Value
      <4> QED
        BY <2>5, <3>1, <3>2, <4>2 DEF Value
    <3>3. CASE Level(n) # 0
      <4> PICK c : c = 2 * n + 1
        OBVIOUS
      <4> PICK e : e = 2 * n + 2
        OBVIOUS
      <4>1. Inner(n)
        BY <3>3, Levels DEF Inner
      <4>2. /\ c \in Node /\ e \in Node /\ Level(c) = Level(n) - 1 /\ Level(e) = Level(n) - 1
            /\ Under(c, n) /\ Under(e, n)
        BY <4>1, ChildDepth, UnderChild
      <4>3. CASE n \in Above(i)
        <5>1. g[n] = Larger(g[c], g[e])
          BY <1>2, <3>1, <4>3 DEF NewTaken
        <5>2. Under(i, c) \/ Under(i, e)
          BY <1>0, <4>1, <4>3, AboveIs, InChild
        <5>3. g[c] < Level(n) - 1 \/ g[e] < Level(n) - 1
          BY <1>2, <4>2, <5>2, Lower
        <5>4. Level(n) \in Nat /\ g[c] \in Int /\ g[e] \in Int
          BY <1>2, <4>2, Levels
        <5>5. g[n] = Merged(Level(n), g[c], g[e])
          BY <5>1, <5>3, <5>4 DEF Merged
        <5> QED
          BY <2>5, <3>1, <3>3, <5>5 DEF Value
      <4>4. CASE n \notin Above(i)
        <5>1. ~ Under(i, n)
          BY <1>0, <3>1, <4>4, AboveIs
        <5>2. ~ Under(i, c) /\ ~ Under(i, e)
          BY <1>0, <4>2, <5>1, UnderTransitive
        <5>3. c \notin Above(i) /\ e \notin Above(i) /\ c # i /\ e # i
          BY <1>0, <4>2, <5>2, AboveIs, Itself
        <5>4. g[n] = t[n] /\ g[c] = t[c] /\ g[e] = t[e]
          BY <1>2, <3>1, <4>2, <4>4, <5>3 DEF NewTaken
        <5>5. t[n] = Merged(Level(n), t[c], t[e])
          BY <2>5, <3>1, <3>3 DEF Shows, Value
        <5> QED
          BY <2>5, <3>1, <3>3, <5>4, <5>5 DEF Value
      <4> QED
        BY <4>3, <4>4
    <3> QED
      BY <3>2, <3>3
  <2> QED
    BY <1>3, <2>1, <2>2, <2>3, <2>4, <2>5
<1>6. B \subseteq Node
  BY <1>0, <1>3
<1> QED
  BY <1>1, <1>2, <1>3, <1>4, <1>5, <1>6 DEF Shows

\* Giving a block back.
LEMMA FreedShows ==
  ASSUME NEW t, NEW A, Shows(t, A), NEW i \in A, NEW offset, i = Owner(t, offset)
  PROVE  Shows(Freed(t, offset), A \ {i})
<1>0. A \in SUBSET Node /\ i \in Node /\ t \in [Node -> Int]
  BY DEF Shows
<1>1. PICK g : g = Freed(t, offset)
  OBVIOUS
<1>2. g \in [Node -> Int] /\ \A n \in Node : g[n] = NewFreed(g, t, i, n)
  BY <1>0, <1>1, FreedIs
<1>3. PICK B : B = A \ {i}
  OBVIOUS
<1>4. \A a, b \in A : a # b => Disjoint(a, b)
  BY DEF Shows
<1>5. \A n \in Node : Covered(n, A) => n \notin A /\ t[n] = Level(n)
  BY HeldNotCovered DEF Shows, Value
<1>6. ASSUME NEW n \in Node PROVE g[n] = Value(g, B, n)
  <2> PICK c : c = 2 * n + 1
    OBVIOUS
  <2> PICK e : e = 2 * n + 2
    OBVIOUS
  <2>0. Level(n) # 0 =>
          /\ Inner(n) /\ c \in Node /\ e \in Node
          /\ Level(c) = Level(n) - 1 /\ Level(e) = Level(n) - 1
          /\ Under(c, n) /\ Under(e, n)
    <3> HAVE Level(n) # 0
    <3>1. Inner(n)
      BY Levels DEF Inner
    <3> QED
      BY <3>1, ChildDepth, UnderChild
  <2>1. CASE Under(n, i)
    <3>1. n \notin B /\ ~ Covered(n, B)
      <4>1. \A b \in B : ~ Under(n, b)
        BY <1>0, <1>3, <1>4, <2>1, CommonPart
      <4> QED
        BY <1>0, <1>3, <4>1, Itself DEF Covered
    <3>2. ASSUME NEW m \in Node, Under(m, i) PROVE g[m] = Level(m)
      <4>1. CASE m = i
        BY <1>2, <4>1 DEF NewFreed
      <4>2. CASE m # i
        <5>1. m \notin Above(i)
          BY <1>0, <3>2, <4>2, AboveIs, UnderLevel, Levels
        <5>2. Covered(m, A)
          BY <3>2, <4>2 DEF Covered
        <5> QED
          BY <1>2, <1>5, <4>2, <5>1, <5>2 DEF NewFreed
      <4> QED
        BY <4>1, <4>2
    <3>3. CASE Level(n) = 0
      BY <2>1, <3>1, <3>2, <3>3 DEF Value
    <3>4. CASE Level(n) # 0
      <4>1. g[n] = Level(n) /\ g[c] = Level(n) - 1 /\ g[e] = Level(n) - 1
        BY <1>0, <2>0, <2>1, <3>2, <3>4, UnderTransitive
      <4>2. g[n] = Merged(Level(n), g[c], g[e])
        BY <4>1 DEF Merged
      <4> QED
        BY <3>1, <3>4, <4>2 DEF Value
    <3> QED
      BY <3>3, <3>4
  <2>2. CASE ~ Under(n, i) /\ n \in B
    <3>1. n \notin Above(i) /\ n # i
      BY <1>0, <1>3, <1>4, <2>2, AboveIs, NotBoth
    <3>2. g[n] = t[n] /\ t[n] = NoBlock
      BY <1>2, <1>3, <2>2, <3>1 DEF NewFreed, Shows, Value
    <3> QED
      BY <2>2, <3>2 DEF Value
  <2>3. CASE ~ Under(n, i) /\ n \notin B /\ Covered(n, B)
    <3>1. PICK b \in B : Under(n, b) /\ n # b
      BY <2>3 DEF Covered
    <3>2. Covered(n, A) /\ n # i
      BY <1>0, <1>3, <2>3, <3>1, Itself DEF Covered
    <3>3. n \notin Above(i)
      BY <1>0, <1>3, <1>4, <3>1, AboveIs, UnderTransitive, NotBoth
    <3>4. g[n] = t[n] /\ t[n] = Level(n)
      BY <1>2, <1>5, <3>2, <3>3 DEF NewFreed
    <3> QED
      BY <2>3, <3>4 DEF Value
  <2>4. CASE ~ Under(n, i) /\ n \notin B /\ ~ Covered(n, B)
    <3>1. n # i /\ n \notin A /\ ~ Covered(n, A)
      BY <1>0, <1>3, <2>4, Itself DEF Covered
    <3>2. CASE Level(n) = 0
      <4>1. n \notin Above(i)
        BY <1>0, <3>2, AboveInner, Levels
      <4>2. g[n] = t[n] /\ t[n] = 0
        BY <1>2, <3>1, <3>2, <4>1 DEF NewFreed, Shows, Value
      <4> QED
        BY <2>4, <3>2, <4>2 DEF Value
    <3>3. CASE Level(n) # 0
      <4>1. CASE n \in Above(i)
        <5>1. g[n] = Merged(Level(n), g[c], g[e])
          BY <1>2, <3>1, <4>1 DEF NewFreed
        <5> QED
          BY <2>4, <3>3, <5>1 DEF Value
      <4>2. CASE n \notin Above(i)
        <5>1. ~ Under(i, n)
          BY <1>0, <3>1, <4>2, AboveIs
        <5>2. ~ Under(i, c) /\ ~ Under(i, e)
          BY <1>0, <2>0, <3>3, <5>1, UnderTransitive
        <5>3. c \notin Above(i) /\ e \notin Above(i) /\ c # i /\ e # i
          BY <1>0, <2>0, <3>3, <5>2, AboveIs, Itself
        <5>4. g[n] = t[n] /\ g[c] = t[c] /\ g[e] = t[e]
          BY <1>2, <2>0, <3>1, <3>3, <4>2, <5>3 DEF NewFreed
        <5>5. t[n] = Merged(Level(n), t[c], t[e])
          BY <3>1, <3>3 DEF Shows, Value
        <5> QED
          BY <2>4, <3>3, <5>4, <5>5 DEF Value
      <4> QED
        BY <4>1, <4>2
    <3> QED
      BY <3>2, <3>3
  <2> QED
    BY <2>1, <2>2, <2>3, <2>4
<1>7. B \subseteq Node /\ \A a, b \in B : a # b => Disjoint(a, b)
  BY <1>0, <1>3, <1>4
<1> QED
  BY <1>1, <1>2, <1>3, <1>6, <1>7 DEF Shows

\* The first -1 from the leaf up is the block that starts there (memalloc.c:196-203).
LEMMA OwnerIs ==
  ASSUME NEW t, NEW A, Shows(t, A), NEW i \in A
  PROVE  Owner(t, Offset(i)) = i
<1>0. A \in SUBSET Node /\ i \in Node /\ Level(i) \in 0..Height /\ Height \in Nat /\ i \in Nat
  BY Depth, HeightAssumption DEF Shows
<1> PICK L \in Nat : L = Level(i)
  BY <1>0
<1>1. PICK f : f = Leaf(Offset(i))
  OBVIOUS
<1>2. f \in Node /\ UpTo(f) = Height /\ Level(f) = 0 /\ Offset(f) = Offset(i)
  <2>1. PICK h \in Nat : h = 2^Height
    BY <1>0, Powers
  <2>2. PICK o \in Nat : o = Offset(i) /\ o < h
    BY <1>0, <2>1, Extent
  <2>3. f + 1 = h + o /\ f \in Nat
    BY <1>1, <2>1, <2>2 DEF Leaf
  <2>4. Height \in 0..Height /\ h <= f + 1 /\ f + 1 < 2 * h
    BY <1>0, <2>2, <2>3
  <2>5. f \in Node /\ UpTo(f) = Height
    BY <2>1, <2>3, <2>4, DepthIs
  <2>6. Level(f) = 0
    BY <1>0, <2>5 DEF Level
  <2>7. Offset(f) = (f + 1) * 1 - h
    BY <2>1, <2>6, NoPower DEF Offset
  <2>8. Offset(f) = o
    BY <2>3, <2>7
  <2> QED
    BY <2>2, <2>5, <2>6, <2>8
<1>3. Under(f, i)
  <2>1. End(f) = Offset(f) + 1
    BY <1>2, NoPower DEF End
  <2> QED
    BY <1>0, <1>2, <2>1, Extent DEF Under
<1>4. ASSUME NEW k \in Nat, k <= Height
      PROVE  Up(f, k) \in Node /\ Level(Up(f, k)) = k /\ Under(f, Up(f, k))
  BY <1>2, <1>4, UpSteps
<1>00. L <= Height
  BY <1>0
<1>5. Up(f, L) = i
  <2>0. Up(f, L) \in Node
    BY <1>00, <1>4
  <2>1. PICK u \in Node : u = Up(f, L)
    BY <2>0
  <2>2. Level(u) = L /\ Under(f, u)
    BY <1>0, <1>4, <2>1
  <2> QED
    BY <1>0, <1>2, <1>3, <2>1, <2>2, SameLevel, CommonPart
<1>6. ASSUME NEW k \in Nat, k < L PROVE t[Up(f, k)] # NoBlock
  <2>0. Up(f, k) \in Node
    <3>1. k <= Height
      BY <1>0, <1>00, <1>6
    <3> QED
      BY <3>1, <1>4
  <2>1. PICK u \in Node : u = Up(f, k)
    BY <2>0
  <2>2. Level(u) = k /\ Under(f, u)
    BY <1>0, <1>4, <1>6, <2>1
  <2>3. Under(u, i) /\ u # i
    BY <1>0, <1>2, <1>3, <1>6, <2>2, Nested, CommonPart
  <2>4. Covered(u, A)
    BY <2>3 DEF Covered
  <2>5. t[u] = Level(u)
    BY <2>4, HeldNotCovered DEF Shows, Value
  <2> QED
    BY <2>1, <2>2, <2>5 DEF NoBlock
<1> DEFINE marked == {k \in 0..Height : t[Up(f, k)] = NoBlock}
<1>7. L \in marked
  BY <1>0, <1>5 DEF Shows, Value
<1>8. \A k \in marked : k \in Nat /\ L <= k
  BY <1>0, <1>6
<1>9. L = CHOOSE k \in marked : \A j \in marked : k <= j
  <2> DEFINE m == CHOOSE k \in marked : \A j \in marked : k <= j
  <2> HIDE DEF marked
  <2>1. \E k \in marked : \A j \in marked : k <= j
    BY <1>7, <1>8
  <2>2. m \in marked /\ \A j \in marked : m <= j
    BY <2>1, Zenon
  <2> HIDE DEF m
  <2>3. m = L
    BY <1>7, <1>8, <2>2
  <2> QED
    BY <2>3 DEF m
<1> QED
  BY <1>1, <1>5, <1>9 DEF Owner

------------------------------------------------------------------------------
\* Finding a block.

\* Exponents compare as blocks do.
LEMMA PowerOrder ==
  ASSUME NEW x \in Nat, NEW e \in Nat
  PROVE  2^e <= 2^x <=> e <= x
<1>1. e <= x => 2^e <= 2^x
  BY Monotonic
<1>2. ASSUME x < e PROVE ~(2^e <= 2^x)
  <2>1. 2^(x + 1) <= 2^e
    BY <1>2, Monotonic, x + 1 \in Nat, x + 1 <= e
  <2>2. 2^(x + 1) = 2 * 2^x /\ 2^x \in Nat /\ 2^x >= 1 /\ 2^e \in Nat
    BY Powers
  <2> QED
    BY <2>1, <2>2
<1> QED
  BY <1>1, <1>2

\* What a number in the tree says is enough or not.
LEMMA Enough ==
  ASSUME NEW x \in Int, x >= -1, NEW e \in Nat
  PROVE  pow2(x) >= 2^e <=> e <= x
<1>1. CASE x >= 0
  <2>1. x \in Nat /\ pow2(x) = 2^x /\ 2^x \in Nat /\ 2^e \in Nat
    BY <1>1, Powers DEF pow2
  <2> QED
    BY <2>1, PowerOrder
<1>2. CASE x = -1
  <2>1. pow2(x) = 0 /\ 2^e \in Nat /\ 2^e >= 1
    BY <1>2, Powers DEF pow2
  <2> QED
    BY <1>2, <2>1
<1> QED
  BY <1>1, <1>2

\* Rounding up: a request that fits gets an exponent no larger than the root has.
LEMMA ExponentIs ==
  ASSUME NEW n \in Nat, n # 0, NEW x \in -1..Height, pow2(x) >= n
  PROVE  Exponent(n) \in 0..Height /\ Exponent(n) <= x /\ n <= 2^Exponent(n)
<1>0. Height \in Nat /\ x \in Nat /\ 2^x >= n
  BY HeightAssumption DEF pow2
<1> DEFINE T == {e \in Nat : 2^e >= n}
           fits(e) == 2^e >= n /\ (e = 0 \/ 2^(e - 1) < n)
<1>1. PICK e \in T : \A f \in T : e <= f
  <2>1. T \in SUBSET Nat /\ T # {}
    BY <1>0
  <2> HIDE DEF T
  <2> QED
    BY <2>1, LeastIn
<1>2. e \in Nat /\ 2^e >= n /\ e <= x
  BY <1>0, <1>1
<1>3. e = 0 \/ 2^(e - 1) < n
  <2> SUFFICES ASSUME e # 0 PROVE 2^(e - 1) < n
    OBVIOUS
  <2>1. e - 1 \in Nat /\ e - 1 \notin T
    BY <1>1, <1>2
  <2> QED
    BY <2>1, Powers
<1>4. e \in 0..Height /\ fits(e)
  BY <1>0, <1>2, <1>3
<1>5. Exponent(n) \in 0..Height /\ fits(Exponent(n))
  <2>1. \E k \in 0..Height : fits(k)
    BY <1>4
  <2> QED
    BY <2>1, Zenon DEF Exponent
<1> PICK k \in Nat : k = Exponent(n)
  BY <1>0, <1>5
<1>6. k <= x
  <2> SUFFICES ASSUME x < k PROVE FALSE
    BY <1>0
  <2>1. PICK j \in Nat : j = k - 1
    BY <1>0
  <2>2. x <= j /\ k # 0
    BY <1>0, <2>1
  <2>3. 2^j < n
    BY <1>5, <2>1, <2>2
  <2>4. 2^x <= 2^j /\ 2^j \in Nat /\ 2^x \in Nat
    BY <1>0, <2>2, Monotonic, Powers
  <2> QED
    BY <1>0, <2>3, <2>4
<1> QED
  BY <1>5, <1>6, Powers

\* the nodes Place goes down by, from those above
Way(t, e, f) ==
  [l \in e..Height |-> IF l = Height THEN 0 ELSE Choice(t, 2 * f[l + 1] + 1, e)]

\* There is a way down to every level: each step follows from the one above.
LEMMA SomeWay ==
  ASSUME NEW t, NEW e \in 0..Height
  PROVE  \E f : f = Way(t, e, f)
<1>0. Height \in Nat /\ e \in Nat /\ e <= Height
  BY HeightAssumption
<1> DEFINE next(f, l) == IF l = Height THEN 0 ELSE Choice(t, 2 * f[l + 1] + 1, e)
           T == {k \in Nat : \E f \in [e..Height -> Int] :
                               \A l \in e..Height : Height <= l + k => f[l] = next(f, l)}
<1>1. 0 \in T
  <2> DEFINE f == [l \in e..Height |-> 0]
  <2>1. f \in [e..Height -> Int]
    OBVIOUS
  <2>2. \A l \in e..Height : Height <= l + 0 => f[l] = next(f, l)
    BY <1>0
  <2> QED
    BY <2>1, <2>2
<1>2. ASSUME NEW k \in Nat, k \in T PROVE k + 1 \in T
  <2>1. PICK f \in [e..Height -> Int] : \A l \in e..Height : Height <= l + k => f[l] = next(f, l)
    BY <1>2
  <2> DEFINE h == [l \in e..Height |-> IF l + (k + 1) = Height THEN next(f, l) ELSE f[l]]
  <2>2. \A l \in e..Height : l + (k + 1) = Height => next(f, l) \in Int
    <3> SUFFICES ASSUME NEW l \in e..Height, l + (k + 1) = Height PROVE next(f, l) \in Int
      OBVIOUS
    <3>1. l + 1 \in e..Height
      BY <1>0
    <3>2. f[l + 1] \in Int
      BY <3>1
    <3> QED
      BY <3>2 DEF Choice
  <2>3. h \in [e..Height -> Int]
    BY <2>2
  <2>4. \A l \in e..Height : h[l] = IF l + (k + 1) = Height THEN next(f, l) ELSE f[l]
    OBVIOUS
  <2> HIDE DEF h
  <2>5. ASSUME NEW l \in e..Height, Height <= l + (k + 1) PROVE h[l] = next(h, l)
    <3>1. CASE l = Height
      BY <1>0, <2>1, <2>4, <3>1
    <3>2. CASE l # Height
      <4>1. l + 1 \in e..Height /\ (l + 1) + (k + 1) # Height
        BY <1>0, <2>5, <3>2
      <4>2. h[l + 1] = f[l + 1]
        BY <2>4, <4>1
      <4>3. h[l] = next(f, l)
        BY <1>0, <2>1, <2>4, <2>5
      <4> QED
        BY <3>2, <4>2, <4>3
    <3> QED
      BY <3>1, <3>2
  <2>6. \A l \in e..Height : Height <= l + (k + 1) => h[l] = next(h, l)
    BY <2>5
  <2> HIDE DEF next
  <2>7. k + 1 \in Nat
    OBVIOUS
  <2> QED
    BY <2>3, <2>6, <2>7
<1> HIDE DEF T
<1>3. Height \in T
  BY <1>1, <1>2, Induction, HeightAssumption
<1>4. PICK f \in [e..Height -> Int] : \A l \in e..Height : Height <= l + Height => f[l] = next(f, l)
  BY <1>3 DEF T
<1>5. \A l \in e..Height : f[l] = next(f, l)
  BY <1>0, <1>4
<1>6. f = [l \in e..Height |-> next(f, l)]
  <2> HIDE DEF next
  <2> QED
    BY <1>5
<1> QED
  BY <1>6 DEF Way

\* The way down ends at a free block.
LEMMA PlaceIs ==
  ASSUME NEW t, NEW A, Shows(t, A), NEW e \in 0..Height, e <= t[0]
  PROVE  Place(t, e) \in Free(A) /\ Level(Place(t, e)) = e
<1>0. Height \in Nat /\ e \in Nat /\ e <= Height /\ A \in SUBSET Node
  BY HeightAssumption DEF Shows
<1>00. \A k \in Nat : k + 1 \in Nat
  OBVIOUS
<1> DEFINE down == CHOOSE f : f = Way(t, e, f)
<1>1. down = Way(t, e, down)
  <2>1. \E f : f = Way(t, e, f)
    BY SomeWay
  <2> QED
    BY <2>1, Zenon
<1> PICK w : w = down
  OBVIOUS
<1>2. \A l \in e..Height : w[l] = IF l = Height THEN 0 ELSE Choice(t, 2 * w[l + 1] + 1, e)
  <2>1. w = Way(t, e, w)
    BY <1>1, Zenon
  <2> PICK v : v = Way(t, e, w)
    OBVIOUS
  <2>2. \A l \in e..Height : v[l] = IF l = Height THEN 0 ELSE Choice(t, 2 * w[l + 1] + 1, e)
    BY DEF Way
  <2> QED
    BY <2>1, <2>2, Zenon
<1>3. Place(t, e) = w[e]
  BY DEF Place, Way
<1> HIDE DEF down
<1> DEFINE good(n, l) == n \in Node /\ Level(n) = l /\ e <= t[n] /\ ~ Covered(n, A)
           T == {k \in Nat : \A l \in e..Height : Height = l + k => good(w[l], l)}
<1>4. 0 \in T
  <2> SUFFICES ASSUME NEW l \in e..Height, Height = l + 0 PROVE good(w[l], l)
    OBVIOUS
  <2>1. l = Height /\ w[l] = 0
    BY <1>0, <1>2
  <2>2. ~ Covered(0, A)
    BY <1>0, Root, UnderLevel, Levels DEF Covered
  <2> QED
    BY <2>1, <2>2, Root
<1>5. ASSUME NEW k \in Nat, k \in T PROVE k + 1 \in T
  <2>1. ASSUME NEW l \in e..Height, Height = l + (k + 1) PROVE good(w[l], l)
    <3>1. l + 1 \in e..Height /\ Height = (l + 1) + k /\ l # Height
      BY <1>0, <2>1
    <3>2. PICK n : n = w[l + 1]
      OBVIOUS
    <3>3. good(n, l + 1)
      BY <1>5, <2>1, <3>1, <3>2
    <3> PICK c : c = 2 * n + 1
      OBVIOUS
    <3> PICK d : d = 2 * n + 2
      OBVIOUS
    <3>4. Inner(n) /\ n \in Nat
      BY <1>0, <3>3, Depth DEF Inner
    <3>5. c \in Node /\ d \in Node /\ Level(c) = l /\ Level(d) = l /\ d = c + 1
      BY <1>0, <3>3, <3>4, ChildDepth
    <3>6. n \notin A
      <4>1. n \in A => t[n] = NoBlock
        BY <3>3 DEF Shows, Value
      <4> QED
        BY <1>0, <3>3, <4>1 DEF NoBlock
    <3>7. ~ Covered(c, A) /\ ~ Covered(d, A)
      BY <1>0, <3>3, <3>4, <3>6, ChildUncovered
    <3>8. t[n] = Merged(l + 1, t[c], t[d])
      BY <1>0, <3>3, <3>4, <3>6 DEF Shows, Value, Inner
    <3>9. t[c] \in -1..l /\ t[d] \in -1..l
      BY <3>5, Bounds
    <3>10. e <= t[c] \/ e <= t[d]
      BY <1>0, <3>3, <3>8, <3>9 DEF Merged, Larger
    <3>11. w[l] = Choice(t, c, e)
      BY <1>2, <3>1, <3>2
    <3>12. pow2(t[c]) >= 2^e <=> e <= t[c]
      BY <1>0, <3>9, Enough
    <3> QED
      BY <1>0, <3>5, <3>7, <3>10, <3>11, <3>12 DEF Choice
  <2>2. \A l \in e..Height : Height = l + (k + 1) => good(w[l], l)
    BY <2>1
  <2>3. k + 1 \in Nat
    BY <1>00, Zenon
  <2> HIDE DEF good
  <2> QED
    BY <2>2, <2>3
<1> HIDE DEF T
<1>6. PICK k \in Nat : Height = e + k
  <2>1. Height - e \in Nat /\ Height = e + (Height - e)
    BY <1>0
  <2> QED
    BY <2>1
<1>7. k \in T
  BY <1>4, <1>5, Induction
<1>8. good(w[e], e)
  BY <1>0, <1>6, <1>7 DEF T
<1>9. t[w[e]] = Level(w[e])
  BY <1>0, <1>8, Bounds
<1> QED
  BY <1>3, <1>8, <1>9, FullIsFree

------------------------------------------------------------------------------
\* The blocks of a PE: call k of p got node a[k].

\* A call that got a block got those bytes of a node that are enough for it.
Given(cs, k, n, g) ==
  /\ k \in 1..Len(cs) /\ cs[k][1] = "malloc" /\ cs[k][2] \in Sizes
  /\ Level(n) = Exponent(Units(cs[k][2]))
  /\ cs[k][2] <= 2^Level(n) * Grain /\ g = Offset(n) * Grain
\* The nodes are apart, and p's tree shows them.
Apportioned(p, a) ==
  /\ a \in [mine[p] -> Node]
  /\ \A j, k \in mine[p] : j # k => Disjoint(a[j], a[k])
  /\ \A k \in mine[p] : Given(calls, k, a[k], got[p][k])
  /\ Shows(tree[p], {a[k] : k \in mine[p]})
\* every allocation was asked for a size of the program
Asks == \A i \in 1..Len(calls) : calls[i][1] = "malloc" => calls[i][2] \in Sizes
HeapInv == Asks /\ \A p \in PE : \E a : Apportioned(p, a)

------------------------------------------------------------------------------
\* Bytes and units.

\* No overflow.
LEMMA SmallMod ==
  ASSUME NEW u \in Nat, NEW w \in Nat, u < w PROVE u % w = u
OBVIOUS

\* Multiplication is monotonic.
LEMMA Multiplied ==
  ASSUME NEW a \in Nat, NEW b \in Nat, NEW g \in Nat, a <= b
  PROVE  a * g <= b * g /\ a * g \in Nat /\ b * g \in Nat
<1>1. PICK c \in Nat : b = a + c
  BY b - a \in Nat
<1>2. b * g = a * g + c * g /\ c * g \in Nat /\ a * g \in Nat /\ b * g \in Nat
  BY <1>1
<1> QED
  BY <1>2

\* The heap and its bytes are counted without overflow.
LEMMA Sized ==
  /\ Grain \in Nat /\ Grain >= 1 /\ 2^Width \in Nat /\ HeapBytes \in Nat
  /\ HeapBytes = 2^Height * Grain /\ HeapBytes < 2^Width
<1>0. Height \in Nat /\ GrainLog \in Nat /\ Width \in Nat /\ Height + GrainLog < Width
  BY HeightAssumption, ParameterAssumption
<1>1. Grain \in Nat /\ Grain >= 1 /\ 2^Width \in Nat
  BY <1>0, Powers DEF Grain
<1>2. HeapBytes = 2^Height * Grain
  BY <1>0, PowerSum DEF HeapBytes, Grain
<1> PICK s \in Nat : s = Height + GrainLog
  BY <1>0
<1>3. HeapBytes = 2^s /\ 2^s \in Nat
  BY Powers DEF HeapBytes
<1>4. ~ (2^Width <= 2^s)
  BY <1>0, PowerOrder
<1> QED
  BY <1>1, <1>2, <1>3, <1>4

\* A node has an address, and its address the node.
LEMMA Addressed ==
  ASSUME NEW i \in Node
  PROVE  /\ Address(Offset(i)) = Offset(i) * Grain
         /\ (Offset(i) * Grain) \div Grain = Offset(i)
         /\ End(i) * Grain <= HeapBytes
         /\ End(i) * Grain = Offset(i) * Grain + 2^Level(i) * Grain
         /\ Offset(i) * Grain \in Nat /\ End(i) * Grain \in Nat
<1>0. /\ Offset(i) \in Nat /\ End(i) \in Nat /\ End(i) <= 2^Height /\ Offset(i) < End(i)
      /\ 2^Height \in Nat /\ 2^Level(i) \in Nat
  BY Extent, Powers, Levels
<1> PICK o \in Nat : o = Offset(i)
  BY <1>0
<1> PICK e \in Nat : e = End(i)
  BY <1>0
<1> PICK h \in Nat : h = 2^Height
  BY <1>0
<1> PICK g \in Nat : g = Grain
  BY Sized
<1> PICK w \in Nat : w = 2^Width
  BY Sized
<1> PICK l \in Nat : l = 2^Level(i)
  BY <1>0
<1>1. o < e /\ e <= h /\ g >= 1 /\ h * g < w /\ HeapBytes = h * g
  BY <1>0, Sized
<1>2. e * g <= h * g /\ e * g \in Nat /\ o * g <= e * g /\ o * g \in Nat /\ h * g \in Nat
  BY <1>1, Multiplied
<1>3. e = o + l
  BY DEF End
<1>4. e * g = o * g + l * g
  BY <1>3
<1>5. o * g < w
  <2>1. (o + 1) * g <= e * g /\ (o + 1) * g = o * g + g
    BY <1>1, Multiplied
  <2> QED
    BY <1>1, <1>2, <2>1
<1>6. (o * g) % w = o * g
  BY <1>2, <1>5, SmallMod
<1>7. (o * g) \div g = o
  BY <1>1
<1> QED
  BY <1>1, <1>2, <1>4, <1>6, <1>7 DEF Address

\* A request gets enough units for its bytes (memalloc.c:241-245).
LEMMA UnitsIs ==
  ASSUME NEW size \in Sizes
  PROVE  /\ size \in Nat /\ Units(size) \in Nat /\ size <= Units(size) * Grain
         /\ size # 0 => Units(size) # 0
<1> PICK g \in Nat : g = Grain
  BY Sized
<1> PICK w \in Nat : w = 2^Width
  BY Sized
<1>1. g >= 1 /\ size \in Nat /\ size < w
  BY Sized, ParameterAssumption
<1>2. PICK u \in Nat : u = size \div g
  BY <1>1, Quotient
<1>3. g * u <= size /\ size < g * u + g
  BY <1>1, <1>2, Quotient
<1>4. u * g = g * u /\ u * g \in Nat
  OBVIOUS
<1>5. u <= u * g
  <2>1. 1 * u <= g * u
    BY <1>1, Multiplied
  <2> QED
    BY <2>1, <1>4
<1>6. u % w = u /\ (u * g) % w = u * g
  BY <1>1, <1>3, <1>4, <1>5, SmallMod
<1>7. Units(size) = IF u * g < size THEN u + 1 ELSE u
  BY <1>2, <1>6 DEF Units
<1>8. (u + 1) * g = u * g + g
  OBVIOUS
<1>9. Units(size) \in Nat /\ size <= Units(size) * g
  BY <1>1, <1>3, <1>4, <1>7, <1>8
<1>10. size # 0 => Units(size) # 0
  <2> SUFFICES ASSUME Units(size) = 0 PROVE size = 0
    OBVIOUS
  <2>1. u = 0
    BY <1>7
  <2>2. u * g = 0
    BY <2>1
  <2>3. ~(u * g < size)
    BY <1>7, <2>1
  <2> QED
    BY <1>1, <2>2, <2>3
<1> QED
  BY <1>1, <1>9, <1>10

------------------------------------------------------------------------------
\* The invariant of the heaps.

\* What an allocator has handed out has an answer.
LEMMA Had ==
  ASSUME IInv, NEW p \in PE
  PROVE  /\ at[p] \in 0..Len(calls) /\ calls \in Seq(Calls)
         /\ Answers(p) \in Nat /\ mine[p] \subseteq 1..Answers(p) /\ Answers(p) <= at[p]
         /\ \A e : \A k \in 1..Answers(p) : Append(got[p], e)[k] = got[p][k]
         /\ \A e : Append(got[p], e)[Answers(p) + 1] = e
<1> PICK cs \in Seq(Calls) : cs = calls
  BY DEF IInv, Places
<1> PICK H, G, B : History(cs, H, G, B) /\ \A q \in PE : Follows(q, cs, H, G, B)
  BY DEF IInv, Replayed
<1>1. at[p] \in 0..Len(cs) /\ (pc[p] # "out" => at[p] \in 1..Len(cs))
  BY DEF IInv, Places, Follows
<1> PICK n \in Nat : n = Answers(p)
  BY <1>1 DEF Answers
<1>2. Seen(cs, p) \in 0..Len(cs) /\ Seen(cs, p) <= n /\ n <= at[p]
  <2>1. pc[p] = "allocate" => Seen(cs, p) = at[p] - 1
    BY DEF Seen
  <2> QED
    BY <1>1, <2>1 DEF Seen, Answers
<1>3. mine[p] \subseteq 1..n
  <2>1. mine[p] = H[Seen(cs, p)].mine
    BY DEF Follows
  <2>2. mine[p] \subseteq 1..Seen(cs, p)
    BY <1>2, <2>1 DEF History
  <2> QED
    BY <1>2, <2>2
<1>4. got[p] = [k \in 1..n |-> G[k]]
  BY DEF Follows
<1>5. ASSUME NEW e PROVE /\ \A k \in 1..n : Append(got[p], e)[k] = got[p][k]
                         /\ Append(got[p], e)[n + 1] = e
  <2>1. Append(got[p], e) = [k \in 1..(n + 1) |-> IF k <= n THEN G[k] ELSE e]
    BY <1>4, Appended
  <2> QED
    BY <1>4, <2>1
<1> QED
  BY <1>1, <1>2, <1>3, <1>5

\* A later answer leaves those in use.
LEMMA HadStill ==
  ASSUME IInv, NEW p \in PE, NEW e
  PROVE  /\ \A k \in mine[p] : Append(got[p], e)[k] = got[p][k]
         /\ Append(got[p], e)[Answers(p) + 1] = e
<1>1. mine[p] \subseteq 1..Answers(p)
  BY Had
<1>2. \A k \in 1..Answers(p) : Append(got[p], e)[k] = got[p][k]
  BY Had
<1>3. Append(got[p], e)[Answers(p) + 1] = e
  BY Had
<1> QED
  BY <1>1, <1>2, <1>3

\* What keeps what a PE has keeps how its heap is apportioned.
LEMMA Unmoved ==
  ASSUME NEW q \in PE, NEW a, Apportioned(q, a), mine'[q] = mine[q], tree'[q] = tree[q],
         \A k \in mine[q] : got'[q][k] = got[q][k],
         \A k \in 1..Len(calls) : k \in 1..Len(calls') /\ calls'[k] = calls[k]
  PROVE  Apportioned(q, a)'
<1>1. ASSUME NEW k \in mine[q] PROVE Given(calls', k, a[k], got'[q][k])
  BY <1>1 DEF Apportioned, Given
<1> QED
  BY <1>1 DEF Apportioned

\* A new tree shows no block at all.
LEMMA NewShows == Shows(New, {})
<1>1. New \in [Node -> Int]
  BY Levels DEF New
<1>2. ASSUME NEW i \in Node PROVE New[i] = Value(New, {}, i)
  <2>1. New[i] = Level(i) /\ ~ Covered(i, {})
    BY DEF New, Covered
  <2>2. CASE Level(i) = 0
    BY <2>1, <2>2 DEF Value
  <2>3. CASE Level(i) # 0
    <3>1. Inner(i)
      BY <2>3, Levels DEF Inner
    <3>2. New[2 * i + 1] = Level(i) - 1 /\ New[2 * i + 2] = Level(i) - 1
      BY <3>1, ChildDepth DEF New
    <3> QED
      BY <2>1, <2>3, <3>2 DEF Value, Merged
  <2> QED
    BY <2>2, <2>3
<1> QED
  BY <1>1, <1>2 DEF Shows

\* Nothing is handed out at first.
LEMMA InitHeap == Init => HeapInv
<1> SUFFICES ASSUME Init PROVE HeapInv
  OBVIOUS
<1>1. Asks
  BY DEF Init, Asks
<1>2. ASSUME NEW p \in PE PROVE \E a : Apportioned(p, a)
  <2>1. mine[p] = {} /\ tree[p] = New
    BY DEF Init
  <2> DEFINE a == [k \in {} |-> 0]
  <2>2. a \in [mine[p] -> Node] /\ {a[k] : k \in mine[p]} = {}
    BY <2>1
  <2>3. Shows(tree[p], {a[k] : k \in mine[p]})
    <3>1. \A S : S = {} => Shows(New, S)
      BY NewShows
    <3> QED
      BY <2>1, <2>2, <3>1
  <2>4. Apportioned(p, a)
    BY <2>1, <2>2, <2>3 DEF Apportioned
  <2> QED
    BY <2>4
<1> QED
  BY <1>1, <1>2 DEF HeapInv

\* A call that begins allocates nothing.
LEMMA BeginHeap ==
  ASSUME IInv, HeapInv, NEW p \in PE, Begin(p)
  PROVE  HeapInv'
<1> PICK n \in Nat : n = Len(calls)
  BY Asked DEF IInv, Places
<1>1. PICK call \in Possible(p) :
        /\ calls' = IF at[p] = n THEN Append(calls, call) ELSE calls
        /\ got' = IF call[1] = "malloc" /\ call[2] # 0 THEN got
                  ELSE [got EXCEPT ![p] = Append(@, NULL)]
  BY DEF Begin
<1>2. UNCHANGED <<tree, mine>>
  BY DEF Begin
<1>3. call \in Calls /\ (call[1] = "malloc" => call[2] \in Sizes)
  <2>1. mine[p] \subseteq Nat
    BY Had
  <2>2. Sizes \subseteq Nat
    BY ParameterAssumption, Sized
  <2> QED
    BY <2>1, <2>2 DEF Possible, Calls
<1>4. calls \in Seq(Calls)
  BY DEF IInv, Places
<1>5. \A k \in 1..n : k \in 1..Len(calls') /\ calls'[k] = calls[k]
  BY <1>1, <1>3, <1>4, Asked
<1>6. \A i \in 1..Len(calls') : i \in 1..n \/ calls'[i] = call
  BY <1>1, <1>3, <1>4, Asked
<1>7. Asks'
  <2> SUFFICES ASSUME NEW i \in 1..Len(calls'), calls'[i][1] = "malloc"
               PROVE  calls'[i][2] \in Sizes
    BY DEF Asks
  <2> QED
    BY <1>3, <1>5, <1>6 DEF HeapInv, Asks
<1>8. ASSUME NEW q \in PE PROVE \E a : Apportioned(q, a)'
  <2>1. PICK a : Apportioned(q, a)
    BY DEF HeapInv
  <2>2. \A k \in mine[q] : got'[q][k] = got[q][k]
    <3>1. got'[q] = got[q] \/ got'[q] = Append(got[q], NULL)
      BY <1>1 DEF IInv, Places
    <3>2. \A k \in mine[q] : Append(got[q], NULL)[k] = got[q][k]
      BY HadStill
    <3> QED
      BY <3>1, <3>2
  <2>3. Apportioned(q, a)'
    BY <1>2, <1>5, <2>1, <2>2, Unmoved
  <2> QED
    BY <2>3
<1> QED
  BY <1>7, <1>8 DEF HeapInv

\* Calls that leave the trees and the answers alone.
LEMMA QuietHeap ==
  ASSUME IInv, HeapInv, UNCHANGED <<calls, tree, got, mine>>
  PROVE  HeapInv'
<1>1. Asks'
  BY DEF HeapInv, Asks
<1>2. ASSUME NEW q \in PE PROVE \E a : Apportioned(q, a)'
  <2>1. PICK a : Apportioned(q, a)
    BY DEF HeapInv
  <2>2. Apportioned(q, a)'
    BY <2>1, Unmoved
  <2> QED
    BY <2>2
<1> QED
  BY <1>1, <1>2 DEF HeapInv

\* An allocation takes a free block, so one apart from those in use.
LEMMA AllocateHeap ==
  ASSUME IInv, HeapInv, NEW p \in PE, Allocate(p)
  PROVE  HeapInv'
<1> PICK cs, H, G, B, n : InCall(p, cs, H, G, B, n)
  <2>1. pc[p] # "out"
    BY DEF Allocate, Goto
  <2> QED
    BY <2>1, SomeCall
<1> PICK size : size = cs[n][2]
  OBVIOUS
<1> PICK units : units = Units(size)
  OBVIOUS
<1> PICK t : t = tree[p]
  OBVIOUS
<1> PICK idx : idx = Place(t, Exponent(units))
  OBVIOUS
<1> PICK a : Apportioned(p, a)
  BY DEF HeapInv
<1> PICK A : A = {a[k] : k \in mine[p]}
  OBVIOUS
<1>1. /\ cs = calls /\ n \in 1..Len(calls) /\ n = at[p] /\ pc[p] = "allocate"
      /\ UNCHANGED calls
      /\ \/ /\ Fits(t, units)
            /\ tree' = [tree EXCEPT ![p] = Taken(t, idx)]
            /\ got' = [got EXCEPT ![p] = Append(@, Address(Offset(idx)))]
            /\ mine' = [mine EXCEPT ![p] = @ \cup {n}]
         \/ /\ got' = [got EXCEPT ![p] = Append(@, Failure)]
            /\ UNCHANGED <<tree, mine>>
  BY DEF Allocate, Goto, Arg, InCall
<1>2. calls[n][1] = "malloc" /\ size \in Sizes /\ size # 0
  <2>1. cs[n][1] = "malloc" /\ cs[n] # <<"malloc", 0>> /\ cs[n] = <<cs[n][1], cs[n][2]>>
    BY <1>1 DEF InCall, Follows
  <2> QED
    BY <1>1, <2>1 DEF HeapInv, Asks
<1>3. Answers(p) = n - 1 /\ mine[p] \subseteq 1..(n - 1) /\ n \in Nat
  BY <1>1, Had DEF Answers
<1>4. \A k \in 1..Len(calls) : k \in 1..Len(calls') /\ calls'[k] = calls[k]
  BY <1>1
<1>5. Asks'
  BY <1>1 DEF HeapInv, Asks
<1>6. ASSUME NEW q \in PE, q # p PROVE \E b : Apportioned(q, b)'
  <2>1. PICK b : Apportioned(q, b)
    BY DEF HeapInv
  <2>2. tree'[q] = tree[q] /\ mine'[q] = mine[q] /\ got'[q] = got[q]
    BY <1>1, <1>6 DEF IInv, Places
  <2>3. Apportioned(q, b)'
    BY <1>4, <2>1, <2>2, Unmoved
  <2> QED
    BY <2>3
<1>7. CASE UNCHANGED <<tree, mine>> /\ got' = [got EXCEPT ![p] = Append(@, Failure)]
  <2>1. got'[p] = Append(got[p], Failure)
    BY <1>7 DEF IInv, Places
  <2> PICK e : e = Failure
    OBVIOUS
  <2>2. \A k \in mine[p] : Append(got[p], e)[k] = got[p][k]
    BY HadStill
  <2>4. \A k \in mine[p] : got'[p][k] = got[p][k]
    BY <2>1, <2>2, Zenon
  <2>3. Apportioned(p, a)'
    BY <1>4, <1>7, <2>4, Unmoved
  <2> QED
    BY <1>5, <1>6, <2>3 DEF HeapInv
<1>8. CASE /\ Fits(t, units)
           /\ tree' = [tree EXCEPT ![p] = Taken(t, idx)]
           /\ got' = [got EXCEPT ![p] = Append(@, Address(Offset(idx)))]
           /\ mine' = [mine EXCEPT ![p] = @ \cup {n}]
  <2>1. /\ tree'[p] = Taken(t, idx) /\ got'[p] = Append(got[p], Address(Offset(idx)))
        /\ mine'[p] = mine[p] \cup {n}
    BY <1>8 DEF IInv, Places
  <2>2. Shows(t, A)
    BY DEF Apportioned
  <2>3. units \in Nat /\ units # 0 /\ size <= units * Grain
    BY <1>2, UnitsIs
  <2> PICK e : e = Exponent(units)
    OBVIOUS
  <2>4. e \in 0..Height /\ e <= t[0] /\ units <= 2^e
    <3>1. t[0] \in -1..Height
      BY <2>2, Bounds, Root
    <3>2. pow2(t[0]) >= units
      BY <1>8 DEF Fits
    <3> QED
      BY <2>3, <3>1, <3>2, ExponentIs
  <2>5. idx \in Free(A) /\ Level(idx) = e
    BY <2>2, <2>4, PlaceIs
  <2>6. idx \in Node /\ Shows(Taken(t, idx), A \cup {idx})
    BY <2>2, <2>5, TakenShows DEF Free
  <2>7. /\ \A k \in mine[p] : got'[p][k] = got[p][k]
        /\ got'[p][n] = Offset(idx) * Grain
    <3>1. Address(Offset(idx)) = Offset(idx) * Grain
      BY <2>6, Addressed
    <3>2. (n - 1) + 1 = n
      BY <1>3
    <3>3. PICK g : g = Address(Offset(idx))
      OBVIOUS
    <3>4. /\ \A k \in mine[p] : Append(got[p], g)[k] = got[p][k]
          /\ Append(got[p], g)[Answers(p) + 1] = g
      BY HadStill
    <3>5. got'[p] = Append(got[p], g)
      BY <2>1, <3>3, Zenon
    <3>6. Answers(p) + 1 = n
      BY <1>3, <3>2
    <3>7. got'[p][n] = g /\ \A k \in mine[p] : got'[p][k] = got[p][k]
      BY <3>4, <3>5, <3>6, Zenon
    <3> QED
      BY <3>1, <3>3, <3>7, Zenon
  <2> PICK b : b = [k \in mine[p] \cup {n} |-> IF k = n THEN idx ELSE a[k]]
    OBVIOUS
  <2>8. n \notin mine[p]
    BY <1>3
  <2>9. a \in [mine[p] -> Node]
    BY DEF Apportioned
  <2>10. b \in [mine'[p] -> Node] /\ b[n] = idx /\ \A k \in mine[p] : b[k] = a[k]
    BY <2>1, <2>6, <2>8, <2>9
  <2>11. {b[k] : k \in mine'[p]} = A \cup {idx}
    BY <2>1, <2>10
  <2>12. \A j, k \in mine'[p] : j # k => Disjoint(b[j], b[k])
    <3>1. \A k \in mine[p] : Disjoint(idx, a[k]) /\ Disjoint(a[k], idx)
      BY <2>5 DEF Free, Disjoint
    <3>2. \A j, k \in mine[p] : j # k => Disjoint(a[j], a[k])
      BY DEF Apportioned
    <3> QED
      BY <2>1, <2>10, <3>1, <3>2
  <2>13. size <= 2^e * Grain
    <3>1. units * Grain <= 2^e * Grain /\ units * Grain \in Nat /\ 2^e * Grain \in Nat
      BY <2>3, <2>4, Multiplied, Sized, Powers, HeightAssumption
    <3> QED
      BY <1>2, <2>3, <3>1, UnitsIs
  <2>14. ASSUME NEW k \in mine'[p] PROVE Given(calls', k, b[k], got'[p][k])
    <3>1. CASE k = n
      BY <1>1, <1>2, <2>5, <2>7, <2>10, <2>13, <3>1 DEF Given
    <3>2. CASE k \in mine[p]
      <4>1. Given(calls, k, a[k], got[p][k])
        BY <3>2 DEF Apportioned
      <4> QED
        BY <1>1, <2>7, <2>10, <3>2, <4>1
    <3> QED
      BY <2>1, <3>1, <3>2
  <2>15. Apportioned(p, b)'
    BY <2>1, <2>6, <2>10, <2>11, <2>12, <2>14 DEF Apportioned
  <2> QED
    BY <1>5, <1>6, <2>15 DEF HeapInv
<1> QED
  BY <1>1, <1>7, <1>8

\* A free gives back the very block that was handed out at that address.
LEMMA ReleaseHeap ==
  ASSUME IInv, HeapInv, NEW p \in PE, Release(p)
  PROVE  HeapInv'
<1> PICK cs, H, G, B, n : InCall(p, cs, H, G, B, n)
  <2>1. pc[p] # "out"
    BY DEF Release, Goto
  <2> QED
    BY <2>1, SomeCall
<1> PICK k : k = cs[n][2]
  OBVIOUS
<1> PICK t : t = tree[p]
  OBVIOUS
<1> PICK offset : offset = got[p][k] \div Grain
  OBVIOUS
<1> PICK a : Apportioned(p, a)
  BY DEF HeapInv
<1> PICK A : A = {a[j] : j \in mine[p]}
  OBVIOUS
<1>1. /\ cs = calls /\ n = at[p] /\ pc[p] = "release"
      /\ tree' = [tree EXCEPT ![p] = Freed(t, offset)]
      /\ mine' = [mine EXCEPT ![p] = @ \ {k}]
      /\ UNCHANGED <<calls, got>>
  BY DEF Release, Goto, Arg, InCall
<1>2. k \in mine[p]
  <2>1. mine[p] = H[n - 1].mine /\ cs[n][1] = "free"
    BY <1>1 DEF InCall, Follows, Seen
  <2>2. Made(cs[n], n, H[n - 1], B[n - 1], G[cs[n][2]], H[n], G[n], B[n])
    BY DEF InCall, Effect
  <2> QED
    BY <2>1, <2>2, EffectOf
<1>3. \A i \in 1..Len(calls) : i \in 1..Len(calls') /\ calls'[i] = calls[i]
  BY <1>1
<1>4. Asks'
  BY <1>1 DEF HeapInv, Asks
<1>5. ASSUME NEW q \in PE, q # p PROVE \E b : Apportioned(q, b)'
  <2>1. PICK b : Apportioned(q, b)
    BY DEF HeapInv
  <2>2. tree'[q] = tree[q] /\ mine'[q] = mine[q] /\ got'[q] = got[q]
    BY <1>1, <1>5 DEF IInv, Places
  <2>3. Apportioned(q, b)'
    BY <1>3, <2>1, <2>2, Unmoved
  <2> QED
    BY <2>3
<1>6. tree'[p] = Freed(t, offset) /\ mine'[p] = mine[p] \ {k} /\ got'[p] = got[p]
  BY <1>1 DEF IInv, Places
<1>7. Shows(t, A) /\ a \in [mine[p] -> Node]
  BY DEF Apportioned
<1> PICK i : i = a[k]
  OBVIOUS
<1>8. i \in A /\ i \in Node
  BY <1>2, <1>7
<1>9. offset = Offset(i)
  <2>1. got[p][k] = Offset(i) * Grain
    BY <1>2 DEF Apportioned, Given
  <2> QED
    BY <1>8, <2>1, Addressed
<1>10. Shows(Freed(t, offset), A \ {i})
  BY <1>7, <1>8, <1>9, OwnerIs, FreedShows
<1> PICK b : b = [j \in mine[p] \ {k} |-> a[j]]
  OBVIOUS
<1>11. b \in [mine'[p] -> Node] /\ \A j \in mine'[p] : b[j] = a[j] /\ j \in mine[p]
  BY <1>6, <1>7
<1>12. \A j \in mine[p] : j # k => a[j] # i
  <2> SUFFICES ASSUME NEW j \in mine[p], j # k, a[j] = i PROVE FALSE
    OBVIOUS
  <2>1. Disjoint(a[j], a[k])
    BY <1>2 DEF Apportioned
  <2>2. Disjoint(i, i)
    BY <2>1
  <2> QED
    BY <1>8, <2>2, NotBoth, Itself
<1>13. {b[j] : j \in mine'[p]} = A \ {i}
  <2> PICK M : M = mine'[p]
    OBVIOUS
  <2>1. M = mine[p] \ {k} /\ A = {a[j] : j \in mine[p]}
    BY <1>6
  <2>2. ASSUME NEW j \in M PROVE b[j] \in A \ {i}
    BY <1>11, <1>12, <2>1
  <2>3. ASSUME NEW l \in A \ {i} PROVE \E j \in M : b[j] = l
    <3>1. PICK j \in mine[p] : a[j] = l
      BY <2>1
    <3>2. j # k
      BY <2>3, <3>1
    <3> QED
      BY <1>11, <2>1, <3>1, <3>2
  <2>4. {b[j] : j \in M} \subseteq A \ {i}
    BY <2>2, Zenon
  <2>5. A \ {i} \subseteq {b[j] : j \in M}
    BY <2>3, Zenon
  <2>6. {b[j] : j \in M} = A \ {i}
    BY <2>4, <2>5, Zenon
  <2> QED
    BY <2>6
<1>14. /\ \A j, l \in mine'[p] : j # l => Disjoint(b[j], b[l])
       /\ \A j \in mine'[p] : Given(calls', j, b[j], got'[p][j])
  BY <1>1, <1>6, <1>11 DEF Apportioned
<1>15. Apportioned(p, b)'
  BY <1>6, <1>10, <1>11, <1>13, <1>14 DEF Apportioned
<1> QED
  BY <1>4, <1>5, <1>15 DEF HeapInv

\* Every step keeps the heaps apportioned.
LEMMA NextHeap ==
  ASSUME IInv, HeapInv, [Next]_vars
  PROVE  HeapInv'
<1>1. CASE UNCHANGED vars
  BY <1>1, QuietHeap DEF vars
<1>2. CASE Finished
  BY <1>1, <1>2 DEF Finished
<1>3. ASSUME NEW p \in PE, Begin(p) \/ Allocate(p) \/ Arrive(p) \/ Pass(p) \/ Release(p)
      PROVE  HeapInv'
  <2>1. Arrive(p) \/ Pass(p) => UNCHANGED <<calls, tree, got, mine>>
    BY DEF Arrive, Pass
  <2> QED
    BY <1>3, <2>1, BeginHeap, AllocateHeap, ReleaseHeap, QuietHeap
<1> QED
  BY <1>1, <1>2, <1>3 DEF Next

------------------------------------------------------------------------------
\* What a tree says of the blocks.

\* Blocks apart in units are apart in bytes.
LEMMA Apart ==
  ASSUME HeapInv, NEW p \in PE, NEW j \in mine[p], NEW k \in mine[p]
  PROVE  /\ Bytes(p, k) \subseteq 0..(HeapBytes - 1)
         /\ j # k => Bytes(p, j) \cap Bytes(p, k) = {}
<1> PICK a : Apportioned(p, a)
  BY DEF HeapInv
<1>1. ASSUME NEW i \in mine[p]
      PROVE  /\ got[p][i] = Offset(a[i]) * Grain /\ calls[i][2] \in Nat
             /\ got[p][i] \in Nat /\ End(a[i]) * Grain \in Nat
             /\ got[p][i] + calls[i][2] <= End(a[i]) * Grain
             /\ End(a[i]) * Grain <= HeapBytes /\ a[i] \in Node
  <2> PICK n \in Node : n = a[i]
    BY DEF Apportioned
  <2>1. /\ got[p][i] = Offset(n) * Grain /\ calls[i][2] \in Sizes
        /\ calls[i][2] <= 2^Level(n) * Grain
    BY DEF Apportioned, Given
  <2>2. calls[i][2] \in Nat
    BY <2>1, UnitsIs
  <2>3. /\ End(n) * Grain <= HeapBytes /\ End(n) * Grain = Offset(n) * Grain + 2^Level(n) * Grain
        /\ Offset(n) * Grain \in Nat /\ End(n) * Grain \in Nat
    BY Addressed
  <2>4. 2^Level(n) * Grain \in Nat
    BY Powers, Levels, Sized
  <2> QED
    BY <2>1, <2>2, <2>3, <2>4
<1>2. Bytes(p, k) \subseteq 0..(HeapBytes - 1)
  BY <1>1, Sized DEF Bytes
<1>3. ASSUME j # k PROVE Bytes(p, j) \cap Bytes(p, k) = {}
  <2>1. Disjoint(a[j], a[k])
    BY <1>3 DEF Apportioned
  <2>2. \A m, n \in Node : End(m) <= Offset(n) => End(m) * Grain <= Offset(n) * Grain
    BY Multiplied, Extent, Sized
  <2>3. End(a[j]) * Grain <= got[p][k] \/ End(a[k]) * Grain <= got[p][j]
    BY <1>1, <2>1, <2>2 DEF Disjoint
  <2> QED
    BY <1>1, <2>3 DEF Bytes
<1> QED
  BY <1>2, <1>3

\* Part of and apart from, said of units.
LEMMA UnitsUnder ==
  ASSUME NEW d \in Node, NEW a \in Node
  PROVE  /\ UnitsOf(d) \subseteq UnitsOf(a) <=> Under(d, a)
         /\ UnitsOf(d) \cap UnitsOf(a) = {} <=> Disjoint(d, a)
<1>1. /\ Offset(d) \in Nat /\ End(d) \in Nat /\ Offset(d) < End(d)
      /\ Offset(a) \in Nat /\ End(a) \in Nat /\ Offset(a) < End(a)
      /\ UnitsOf(d) = Offset(d)..(End(d) - 1) /\ UnitsOf(a) = Offset(a)..(End(a) - 1)
  <2>1. ASSUME NEW i \in Node PROVE UnitsOf(i) = Offset(i)..(End(i) - 1)
    <3> PICK w \in Nat : w = 2^Level(i)
      BY Levels, Powers
    <3> PICK o \in Nat : o = Offset(i)
      BY Extent
    <3>0. End(i) = o + w
      BY DEF End
    <3>1. Offset(i) + 2^Level(i) - 1 = End(i) - 1
      BY <3>0
    <3> QED
      BY <3>1 DEF UnitsOf
  <2> QED
    BY <2>1, Extent
<1>2. ASSUME Under(d, a) PROVE UnitsOf(d) \subseteq UnitsOf(a)
  BY <1>1, <1>2 DEF Under
<1>3. ASSUME UnitsOf(d) \subseteq UnitsOf(a) PROVE Under(d, a)
  <2>1. Offset(d) \in UnitsOf(d) /\ End(d) - 1 \in UnitsOf(d)
    BY <1>1
  <2>2. Offset(d) \in UnitsOf(a) /\ End(d) - 1 \in UnitsOf(a)
    BY <1>3, <2>1
  <2> QED
    BY <1>1, <2>2 DEF Under
<1>4. ASSUME Disjoint(d, a) PROVE UnitsOf(d) \cap UnitsOf(a) = {}
  BY <1>1, <1>4 DEF Disjoint
<1>5. ASSUME ~ Disjoint(d, a) PROVE UnitsOf(d) \cap UnitsOf(a) # {}
  <2>1. Offset(a) < End(d) /\ Offset(d) < End(a)
    BY <1>1, <1>5 DEF Disjoint
  <2>2. CASE Offset(a) <= Offset(d)
    <3>1. Offset(d) \in UnitsOf(d) /\ Offset(d) \in UnitsOf(a)
      BY <1>1, <2>1, <2>2
    <3> QED
      BY <3>1
  <2>3. CASE Offset(d) <= Offset(a)
    <3>1. Offset(a) \in UnitsOf(d) /\ Offset(a) \in UnitsOf(a)
      BY <1>1, <2>1, <2>3
    <3> QED
      BY <3>1
  <2> QED
    BY <1>1, <2>2, <2>3
<1> QED
  BY <1>2, <1>3, <1>4, <1>5

\* A proper part has fewer units.
LEMMA SameUnits ==
  ASSUME NEW d \in Node, NEW a \in Node, Under(d, a)
  PROVE  UnitsOf(d) # UnitsOf(a) <=> d # a
<1> SUFFICES ASSUME UnitsOf(d) = UnitsOf(a) PROVE d = a
  OBVIOUS
<1>1. Under(d, a) /\ Under(a, d)
  BY UnitsUnder
<1>2. Level(d) = Level(a)
  BY <1>1, UnderLevel, Levels
<1> QED
  BY <1>1, <1>2, UnderLevel

\* A tree that shows the blocks is exact.
LEMMA KnowsLargest == HeapInv => TreeExact
<1> SUFFICES ASSUME HeapInv, NEW p \in PE, NEW idx \in Node, ~ Within(p, idx)
             PROVE  LET below == {Level(d) : d \in {f \in FreeNodes(p) :
                                                       UnitsOf(f) \subseteq UnitsOf(idx)}}
                    IN  \/ tree[p][idx] \in below /\ \A l \in below : l <= tree[p][idx]
                        \/ tree[p][idx] = NoBlock /\ below = {}
  BY DEF TreeExact
<1> PICK a : Apportioned(p, a)
  BY DEF HeapInv
<1> PICK A : A = {a[k] : k \in mine[p]}
  OBVIOUS
<1> PICK t : t = tree[p]
  OBVIOUS
<1>1. Shows(t, A) /\ A \in SUBSET Node /\ \A k \in mine[p] : a[k] \in Node /\ a[k] \in A
  BY DEF Apportioned
<1>2. ASSUME NEW k \in mine[p] PROVE Block(p, k) = UnitsOf(a[k])
  <2> PICK n \in Node : n = a[k]
    BY <1>1
  <2>1. got[p][k] = Offset(n) * Grain /\ Level(n) = Exponent(Units(calls[k][2]))
    BY DEF Apportioned, Given
  <2>2. got[p][k] \div Grain = Offset(n)
    BY <2>1, Addressed
  <2> QED
    BY <2>1, <2>2 DEF Block, UnitsOf
<1>3. FreeNodes(p) = Free(A)
  BY <1>1, <1>2, UnitsUnder DEF FreeNodes, Free
<1>4. ~ Covered(idx, A)
  <2> SUFFICES ASSUME NEW k \in mine[p], Under(idx, a[k]), idx # a[k] PROVE FALSE
    BY DEF Covered
  <2>1. UnitsOf(idx) \subseteq UnitsOf(a[k]) /\ UnitsOf(idx) # UnitsOf(a[k])
    BY <1>1, UnitsUnder, SameUnits
  <2> QED
    BY <1>2, <2>1 DEF Within
<1>5. Exact(t, A, idx)
  BY <1>1, <1>4, Exactly
<1> DEFINE below == {Level(d) : d \in {f \in FreeNodes(p) : UnitsOf(f) \subseteq UnitsOf(idx)}}
<1>6. below = {Level(d) : d \in {f \in Free(A) : Under(f, idx)}}
  <2>1. \A f \in Free(A) : UnitsOf(f) \subseteq UnitsOf(idx) <=> Under(f, idx)
    BY UnitsUnder DEF Free
  <2> QED
    BY <1>3, <2>1
<1>7. \A l \in below : l <= t[idx]
  BY <1>5, <1>6 DEF Exact
<1>8. t[idx] # NoBlock => t[idx] \in below
  BY <1>5, <1>6 DEF Exact
<1>9. t[idx] = NoBlock => below = {}
  <2>1. \A l \in below : l \in Nat
    BY <1>6, Levels DEF Free
  <2> QED
    BY <1>7, <2>1 DEF NoBlock
<1> QED
  BY <1>7, <1>8, <1>9

------------------------------------------------------------------------------
\* At every moment one history explains every PE: its tree, what its allocator has
\* handed out and what its calls returned are those of the program's first calls,
\* however the PEs interleave, and nobody is past a barrier somebody has not come to
\* (shmalloc.c:176-221: the allocators agree without a word to each other).
THEOREM Invariance == Spec => []IInv
<1> QED
  BY InitIInv, NextIInv, PTL DEF Spec

\* While a PE may use a block, every PE's allocator has handed it out, at the same
\* address, and none has taken it back (the barriers of shmalloc.c:188,198).
THEOREM Safe == Spec => []AccessIsSafe
<1>1. IInv => AccessIsSafe
  BY Symmetric DEF AccessIsSafe
<1> QED
  BY <1>1, Invariance, PTL

\* At every moment every PE's heap is apportioned to the calls it has answered: each
\* block in use is a node of its own, large enough for its request, no two overlap, and
\* the tree shows those nodes and no other (memalloc.c:155-219).
THEOREM Apportionment == Spec => [](IInv /\ HeapInv)
<1> QED
  BY InitIInv, NextIInv, InitHeap, NextHeap, PTL DEF Spec

\* Two blocks in use never share a byte, and none leaves the heap, however often the
\* allocator splits and merges (memalloc.c:155-189: what buddy_alloc marks is free).
THEOREM Separate == Spec => []BlocksApart
<1>1. HeapInv => BlocksApart
  BY Apart DEF BlocksApart
<1> QED
  BY <1>1, Apportionment, PTL

\* Every number in every PE's tree is the exponent of the largest block that is free
\* under its node: no request is refused that a free block could answer
\* (memalloc.c:157-158,183-186,206-218).
THEOREM Known == Spec => []TreeExact
<1> QED
  BY KnowsLargest, Apportionment, PTL

==============================================================================
