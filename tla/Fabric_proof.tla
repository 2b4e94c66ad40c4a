----------------------------- MODULE Fabric_proof ------------------------------
(***************************************************************************)
(* For any PEs, memory and programs: nothing overtakes a fence or a quiet, *)
(* the signal of a put with signal comes after its data, memory is never   *)
(* left, and the layer is an atomic memory to the programs that leave what *)
(* a non-blocking put still has to read alone.                             *)
(***************************************************************************)
EXTENDS Fabric, PutGet, TLAPS

\* The requests of the programs, and the place of a PE in its own.
LEMMA Programmed ==
  ASSUME Placed, NEW p \in PE
  PROVE  /\ Len(program[p]) \in Nat /\ DOMAIN program[p] = 1..Len(program[p])
         /\ \A i \in DOMAIN program[p] :
              /\ i \in Nat
              /\ Len(program[p][i].steps) \in Nat \ {0}
              /\ DOMAIN program[p][i].steps = 1..Len(program[p][i].steps)
              /\ \A k \in DOMAIN program[p][i].steps :
                   /\ k \in Nat /\ k > 0
                   /\ IsRequest(program[p][i].steps[k])
                   /\ program[p][i].steps[k].ctx \in Requested(program)
<1>1. program \in Programs /\ DOMAIN program = PE
  BY ProgramAssumption DEF Placed
<1>2. \A i \in DOMAIN program[p] : IsCall(program[p][i])
  BY <1>1, ProgramAssumption
<1>3. \A i \in DOMAIN program[p] : \A k \in DOMAIN program[p][i].steps :
        program[p][i].steps[k].ctx \in Requested(program)
  BY DEF Requested
<1>4. Len(program[p]) \in Nat /\ DOMAIN program[p] = 1..Len(program[p])
  BY <1>1, ProgramAssumption
<1> QED
  BY <1>2, <1>3, <1>4 DEF IsCall

\* A PE that posts or takes its answer goes on; what it has been through stays so.
Moves(p) ==
  /\ Running(p) /\ program' = program
  /\ Advance(p) \/ (doing[p] = "idle" /\ request(p).do \in Posting
                      /\ (WaitFor(p, "answer") \/ WaitFor(p, "loop")))

LEMMA Goes ==
  ASSUME Placed, NEW p \in PE, Moves(p)
  PROVE  /\ \A q \in PE : \A i \in DOMAIN program[q] :
              \A k \in DOMAIN program[q][i].steps :
                /\ Done(q, i, k) => Done(q, i, k)'
                /\ Begun(q, i, k) => Begun(q, i, k)'
                /\ Done(q, i, k)' => Done(q, i, k)
                                       \/ (Advance(p) /\ q = p /\ at[p] = <<i, k>>)
         /\ \A i, k : at[p] = <<i, k>> => Begun(p, i, k)' /\ (Advance(p) => Done(p, i, k)')
         /\ fences' \in [PE -> [Requested(program) -> Nat]] => Placed'
<1> DEFINE a == at[p][1]
           b == at[p][2]
           n == Len(program[p][a].steps)
<1>1. /\ at[p] = <<a, b>> /\ a \in Nat /\ b \in Nat /\ a > 0 /\ b > 0
      /\ a \in DOMAIN program[p] /\ b \in 1..n /\ n \in Nat
      /\ at[p] \in Nat \X Nat
  BY Programmed DEF Placed, Moves, Running
<1>2. CASE Advance(p)
  <2>1. /\ at' = [at EXCEPT ![p] = IF b < n THEN <<a, b + 1>> ELSE <<a + 1, 1>>]
        /\ doing' = [doing EXCEPT ![p] = "idle"]
    BY <1>2 DEF Advance
  <2> HIDE DEF a, b, n
  <2>2. /\ \A q \in PE \ {p} : at'[q] = at[q] /\ doing'[q] = doing[q]
        /\ at'[p] = (IF b < n THEN <<a, b + 1>> ELSE <<a + 1, 1>>) /\ doing'[p] = "idle"
    BY <2>1 DEF Placed
  <2>3. ASSUME NEW q \in PE \ {p}, NEW i, NEW k
        PROVE  (Done(q, i, k)' <=> Done(q, i, k)) /\ (Begun(q, i, k)' <=> Begun(q, i, k))
    BY <2>2 DEF Done, Begun
  <2>4. ASSUME NEW i \in DOMAIN program[p], NEW k \in DOMAIN program[p][i].steps
        PROVE  /\ Begun(p, i, k) => Done(p, i, k)'
               /\ Done(p, i, k)' => Done(p, i, k) \/ at[p] = <<i, k>>
    <3>1. i \in Nat /\ k \in Nat /\ k > 0 /\ (i = a => k <= n)
      BY Programmed DEF n
    <3>2. Done(p, i, k) <=> (i < a \/ (i = a /\ k < b))
      BY <1>1 DEF Done
    <3>3. Begun(p, i, k) => Done(p, i, k) \/ (i = a /\ k = b)
      BY <1>1 DEF Begun
    <3>4. CASE b < n
      <4>1. Done(p, i, k)' <=> (i < a \/ (i = a /\ k < b + 1))
        BY <2>2, <3>4 DEF Done
      <4> QED
        BY <4>1, <3>1, <3>2, <3>3, <1>1
    <3>5. CASE ~(b < n)
      <4>1. Done(p, i, k)' <=> (i < a + 1 \/ (i = a + 1 /\ k < 1))
        BY <2>2, <3>5 DEF Done
      <4> QED
        BY <4>1, <3>1, <3>2, <3>3, <3>5, <1>1
    <3> QED
      BY <3>4, <3>5
  <2>5. ASSUME NEW i, NEW k, at[p] = <<i, k>> PROVE Done(p, i, k)'
    <3>1. i = a /\ k = b
      BY <2>5, <1>1
    <3>2. CASE b < n
      BY <2>2, <3>1, <3>2, <1>1 DEF Done
    <3>3. CASE ~(b < n)
      BY <2>2, <3>1, <3>3, <1>1 DEF Done
    <3> QED
      BY <3>2, <3>3
  <2>6. ASSUME fences' \in [PE -> [Requested(program) -> Nat]] PROVE Placed'
    <3>1. program' = program /\ DOMAIN at' = PE /\ DOMAIN doing' = PE
      BY <2>1 DEF Placed, Moves
    <3>2. at'[p] \in Nat \X Nat /\ at'[p][1] > 0 /\ at'[p][2] > 0
      BY <2>2, <1>1
    <3>3. Running(p)' => at'[p][2] \in DOMAIN program[p][at'[p][1]].steps
      <4>1. CASE b < n
        <5>1. at'[p][2] = b + 1 /\ at'[p][1] = a /\ DOMAIN program[p][a].steps = 1..n
          BY <2>2, <4>1, <1>1, Programmed DEF n
        <5> QED
          BY <5>1, <4>1, <1>1
      <4>2. CASE ~(b < n)
        <5>1. at'[p][2] = 1 /\ at'[p][1] = a + 1
          BY <2>2, <4>2, <1>1
        <5>2. ASSUME Running(p)' PROVE a + 1 \in DOMAIN program[p]
          BY <5>1, <5>2, <3>1 DEF Running
        <5> QED
          BY <5>1, <5>2, Programmed
      <4> QED
        BY <4>1, <4>2
    <3>4. \A q \in PE \ {p} : /\ Running(q)' = Running(q) /\ request(q)' = request(q)
      BY <2>2, <3>1 DEF Running, request
    <3> QED
      BY <2>6, <2>2, <3>1, <3>2, <3>3, <3>4 DEF Placed
  <2> QED
    <3>1. \A i, k : /\ Done(p, i, k) => Begun(p, i, k)
                    /\ Done(p, i, k)' => Begun(p, i, k)'
      BY DEF Begun
    <3>2. \A i \in DOMAIN program[p] : \A k \in DOMAIN program[p][i].steps :
            /\ Done(p, i, k) => Done(p, i, k)'
            /\ Begun(p, i, k) => Begun(p, i, k)'
            /\ Done(p, i, k)' => Done(p, i, k) \/ at[p] = <<i, k>>
      BY <2>4, <3>1
    <3>3. \A i, k : at[p] = <<i, k>> => Begun(p, i, k)' /\ Done(p, i, k)'
      BY <2>5, <3>1
    <3> QED
      BY <1>2, <2>3, <2>6, <3>2, <3>3
<1>3. CASE doing[p] = "idle" /\ request(p).do \in Posting
             /\ (WaitFor(p, "answer") \/ WaitFor(p, "loop"))
  <2>1. /\ at' = at /\ doing'[p] # "idle" /\ DOMAIN doing' = PE
        /\ \A q \in PE \ {p} : doing'[q] = doing[q]
        /\ program' = program
    BY <1>3 DEF WaitFor, Placed, Moves
  <2>2. \A q, i, k : Done(q, i, k)' <=> Done(q, i, k)
    BY <2>1 DEF Done
  <2>3. \A q \in PE : \A i, k : Begun(q, i, k) => Begun(q, i, k)'
    BY <2>1, <2>2, <1>3 DEF Begun
  <2>4. \A i, k : at[p] = <<i, k>> => Begun(p, i, k)'
    BY <2>1, <1>1 DEF Begun
  <2>5. ASSUME fences' \in [PE -> [Requested(program) -> Nat]] PROVE Placed'
    <3>1. \A q \in PE : (Running(q)' <=> Running(q)) /\ request(q)' = request(q)
      BY <2>1 DEF Running, request
    <3> QED
      BY <2>5, <2>1, <3>1, <1>3 DEF Placed, Moves
  <2>6. ~Advance(p)
    BY <2>1 DEF Advance, Placed
  <2> QED
    BY <2>2, <2>3, <2>4, <2>5, <2>6
<1> QED
  BY <1>2, <1>3 DEF Moves

\* What a program asks for does not change.
LEMMA SameProgram ==
  ASSUME program' = program
  PROVE  /\ \A o, id : OrderedBy(o, id)' <=> OrderedBy(o, id)
         /\ \A id : (Place(id)' <=> Place(id)) /\ RequestOf(id)' = RequestOf(id)
BY DEF OrderedBy, RequestOf, Place, Before

\* A PE that is idle has been through what it has begun, and that is before its place.
LEMMA IdleBegan ==
  ASSUME Placed, NEW p \in PE, doing[p] = "idle", NEW i \in Nat, NEW k \in Nat, Begun(p, i, k)
  PROVE  /\ Done(p, i, k)
         /\ i < at[p][1] \/ (i = at[p][1] /\ k < at[p][2])
BY DEF Placed, Begun, Done

\* The requests a place of a program stands for.
LEMMA Named ==
  ASSUME Placed, NEW id, Place(id)
  PROVE  /\ id[2] \in Nat /\ id[3] \in Nat
         /\ IsRequest(RequestOf(id)) /\ RequestOf(id).ctx \in Requested(program)
  BY Programmed DEF Place, RequestOf

\* A step that leaves what is in flight and the fences as they were.
LEMMA Alike ==
  ASSUME IInv, NEW p \in PE, Moves(p), UNCHANGED <<flight, fences>>,
         \/ DOMAIN answer' = DOMAIN answer
         \/ /\ doing[p] = "idle" /\ Advance(p) /\ request(p).do = "assign"
            /\ DOMAIN answer' = DOMAIN answer \cup {<<p, at[p][1], at[p][2], 1>>},
         \A o \in flight : o.from = p => o.part = "whole",
         Advance(p) => request(p).do # "fence",
         Advance(p) /\ request(p).do = "quiet" /\ request(p).ctx \notin NoStore
           => \A o \in flight : ~(o.from = p /\ o.ctx = request(p).ctx)
  PROVE  IInv'
<1> USE DEF IInv
<1>0. program' = program
  BY DEF Moves
<1>1. Placed'
  BY Goes DEF Placed
<1>2. Sent'
  BY ZenonT(30), <1>0, Goes DEF Sent, Place, RequestOf
<1>3. Emulating'
  <2>1. ASSUME NEW o \in flight, o.part # "whole"
        PROVE  o.from \in PE \ {p} /\ at'[o.from] = at[o.from] /\ doing'[o.from] = doing[o.from]
    BY <2>1 DEF Sent, Place, Moves, Advance, WaitFor, Placed
  <2> QED
    BY <2>1 DEF Emulating
<1>4. Once'
  <2>1. \A id : Place(id) /\ Begun(id[1], id[2], id[3]) =>
          Place(id)' /\ Begun(id[1], id[2], id[3])'
    BY <1>0, Goes, SameProgram DEF Place
  <2>2. CASE DOMAIN answer' = DOMAIN answer
    BY <1>0, <2>1, <2>2, SameProgram DEF Once
  <2>3. CASE /\ doing[p] = "idle" /\ Advance(p) /\ request(p).do = "assign"
             /\ DOMAIN answer' = DOMAIN answer \cup {<<p, at[p][1], at[p][2], 1>>}
    <3> DEFINE new == <<p, at[p][1], at[p][2], 1>>
    <3>1. \A id : id = new => Place(id)' /\ Begun(id[1], id[2], id[3])' /\ id[4] = 1
      <4>1. SUFFICES ASSUME NEW id, id = new PROVE Place(id) /\ Begun(id[1], id[2], id[3])' /\ id[4] = 1
        BY <1>0, SameProgram
      <4>2. /\ id = <<id[1], id[2], id[3], id[4]>> /\ id[1] = p /\ id[4] = 1
            /\ id[2] = at[p][1] /\ id[3] = at[p][2] /\ at[p] = <<id[2], id[3]>>
        BY <4>1 DEF Placed
      <4>3. Place(id)
        BY <4>2 DEF Place, Placed, Moves, Running
      <4> QED
        BY <4>2, <4>3, Goes
    <3>2. \A o \in flight : o.id # new
      <4>1. SUFFICES ASSUME NEW o \in flight, o.id = new PROVE FALSE
        OBVIOUS
      <4>2. o.id[1] = p /\ at[p] = <<o.id[2], o.id[3]>> /\ at[p][1] = o.id[2] /\ at[p][2] = o.id[3]
        BY <4>1 DEF Placed
      <4>3. Begun(p, o.id[2], o.id[3]) /\ Place(o.id)
        BY <4>2 DEF Sent
      <4>4. o.id[2] \in Nat /\ o.id[3] \in Nat
        BY <4>3, Named
      <4> QED
        BY <2>3, <4>2, <4>3, <4>4, IdleBegan
    <3> HIDE DEF new
    <3>3. DOMAIN answer' = DOMAIN answer \cup {new} /\ flight' = flight
      BY <2>3 DEF new
    <3> QED
      BY <1>0, <2>1, <3>1, <3>2, <3>3, SameProgram DEF Once
  <2> QED
    BY <2>2, <2>3
<1>5. Parted'
  <2> SUFFICES ASSUME NEW o \in flight, o.ctx \notin NoStore,
                      NEW i \in DOMAIN program[o.from],
                      NEW k \in DOMAIN program[o.from][i].steps,
                      program[o.from][i].steps[k].ctx = o.ctx,
                      Before(o.id, <<o.from, i, k>>),
                      Done(o.from, i, k)'
               PROVE  /\ program[o.from][i].steps[k].do # "quiet"
                      /\ program[o.from][i].steps[k].do = "fence" => Done(o.from, i, k)
    BY SMTT(30), <1>0 DEF Parted, Before
  <2>1. o.from \in PE
    BY DEF Sent, Place
  <2>2. CASE Done(o.from, i, k)
    BY <2>2 DEF Parted
  <2>3. CASE ~Done(o.from, i, k)
    <3>1. Advance(p) /\ o.from = p /\ at[p] = <<i, k>>
      BY <2>1, <2>3, Goes
    <3>2. request(p) = program[o.from][i].steps[k]
      BY <3>1 DEF request
    <3> QED
      BY <3>1, <3>2
  <2> QED
    BY <2>2, <2>3
<1>6. OrderedAsPromised'
  <2>1. CASE DOMAIN answer' = DOMAIN answer
    BY <1>0, <2>1, SameProgram DEF OrderedAsPromised
  <2>2. CASE /\ doing[p] = "idle" /\ Advance(p) /\ request(p).do = "assign"
             /\ DOMAIN answer' = DOMAIN answer \cup {<<p, at[p][1], at[p][2], 1>>}
    <3> SUFFICES ASSUME NEW o \in flight, NEW id, id = <<p, at[p][1], at[p][2], 1>>,
                        o.from = p, OrderedBy(o, id)
                 PROVE  FALSE
      <4>1. \A o \in flight : \A id : id = <<p, at[p][1], at[p][2], 1>> /\ o.from = id[1] => o.from = p
        OBVIOUS
      <4> QED
        BY <1>0, <2>2, <4>1, SameProgram DEF OrderedAsPromised
    <3>1. id[1] = p /\ id[2] = at[p][1] /\ id[3] = at[p][2]
      OBVIOUS
    <3>2. RequestOf(id) = request(p) /\ RequestOf(id).ctx = SHMEM_CTX_INVALID
      <4>1. RequestOf(id) = request(p)
        BY <3>1 DEF RequestOf, request
      <4>2. IsRequest(request(p))
        BY Programmed DEF Placed, Moves, Running, request
      <4> QED
        BY <2>2, <4>1, <4>2 DEF IsRequest, Posting
    <3>3. o.ctx # SHMEM_CTX_INVALID
      BY Named DEF Sent, IsRequest, Posting
    <3>4. PICK i \in DOMAIN program[p] : \E k \in DOMAIN program[p][i].steps :
            LET r == program[p][i].steps[k]
            IN  /\ r.ctx = o.ctx /\ r.ctx \notin NoStore
                /\ r.do = "quiet"
                /\ Before(o.id, <<p, i, k>>) /\ Before(<<p, i, k>>, id)
      BY <3>2, <3>3 DEF OrderedBy
    <3>5. PICK k \in DOMAIN program[p][i].steps :
            LET r == program[p][i].steps[k]
            IN  /\ r.ctx = o.ctx /\ r.ctx \notin NoStore
                /\ r.do = "quiet"
                /\ Before(o.id, <<p, i, k>>) /\ Before(<<p, i, k>>, id)
      BY <3>4
    <3>6. Done(p, i, k)
      BY <3>1, <3>5 DEF Before, Done
    <3> QED
      BY <3>5, <3>6 DEF Parted
  <2> QED
    BY <2>1, <2>2
<1> QED
  BY <1>1, <1>2, <1>3, <1>4, <1>5, <1>6

\* New messages of the request p is at.
IsNew(p, o) ==
  /\ o.id = <<p, at[p][1], at[p][2], o.id[4]>> /\ o.from = p
  /\ o.ctx = request(p).ctx /\ o.pe = request(p).pe /\ o.epoch = fences[p][o.ctx]
  /\ Fields \subseteq DOMAIN o

LEMMA Posts ==
  ASSUME IInv, NEW p \in PE, Moves(p), UNCHANGED <<fences, answer>>,
         doing[p] = "idle", request(p).do \in Posting,
         NEW M, flight' = flight \cup M, \A o \in M : IsNew(p, o),
         \A o, e \in M : o.id = e.id => o = e,
         request(p).do \in {"post", "fetch"} => \A o \in M : o.id[4] = 1,
         \/ \A o \in M : o.part = "whole"
         \/ WaitFor(p, "loop") /\ \E o \in M : M = {o} /\ o.id[4] = 1
  PROVE  IInv'
<1> USE DEF IInv
<1>0. program' = program /\ fences' = fences /\ answer' = answer
  BY DEF Moves
<1>1. Placed'
  BY Goes, <1>0 DEF Placed
<1> PICK a \in Nat, b \in Nat : at[p] = <<a, b>>
  BY DEF Placed
<1>2. /\ at[p][1] = a /\ at[p][2] = b
      /\ a \in DOMAIN program[p] /\ b \in DOMAIN program[p][a].steps
      /\ request(p) = program[p][a].steps[b]
      /\ IsRequest(request(p)) /\ request(p).ctx \in Requested(program)
  <2>1. at[p][1] = a /\ at[p][2] = b
    OBVIOUS
  <2>2. a \in DOMAIN program[p] /\ b \in DOMAIN program[p][a].steps
    BY <2>1 DEF Placed, Moves, Running
  <2>3. request(p) = program[p][a].steps[b]
    BY <2>1 DEF request
  <2> QED
    BY <2>1, <2>2, <2>3, Programmed
<1>3. ASSUME NEW o \in M
      PROVE  /\ o.id = <<p, a, b, o.id[4]>> /\ o.id[1] = p /\ o.id[2] = a /\ o.id[3] = b
             /\ o.from = p /\ Place(o.id) /\ RequestOf(o.id) = request(p)
             /\ o.ctx = request(p).ctx /\ o.pe = request(p).pe
             /\ o.epoch = fences[p][o.ctx] /\ o.epoch \in Nat
             /\ o.ctx # SHMEM_CTX_INVALID /\ Fields \subseteq DOMAIN o
  <2>1. o.id = <<p, a, b, o.id[4]>>
    BY <1>2 DEF IsNew
  <2>2. o.id[1] = p /\ o.id[2] = a /\ o.id[3] = b
    BY <2>1
  <2>3. Place(o.id) /\ RequestOf(o.id) = request(p)
    BY <2>1, <2>2, <1>2 DEF Place, RequestOf
  <2>4. o.ctx # SHMEM_CTX_INVALID
    BY <1>2 DEF IsNew, IsRequest, Posting
  <2> QED
    BY <2>1, <2>2, <2>3, <2>4, <1>2 DEF IsNew, Placed
<1>4. Begun(p, a, b)' /\ ~Begun(p, a, b) /\ ~Done(p, a, b)
  BY Goes, <1>2 DEF Begun, Done
<1>5. \A o \in flight : /\ Place(o.id) /\ o.from = o.id[1] /\ Begun(o.from, o.id[2], o.id[3])
                        /\ o.from = p => o.part = "whole" /\ o.id # <<p, a, b, o.id[4]>>
  BY <1>4 DEF Sent, Emulating
<1>6. Sent'
  <2>1. ASSUME NEW o \in flight
        PROVE  Begun(o.from, o.id[2], o.id[3])'
    BY <1>5, Goes DEF Place
  <2>2. \A o \in M : /\ Begun(o.from, o.id[2], o.id[3])' /\ RequestOf(o.id).do \in Posting
                     /\ o.ctx = RequestOf(o.id).ctx /\ o.pe = RequestOf(o.id).pe
                     /\ o.from = o.id[1] /\ o.epoch <= fences[o.from][o.ctx]
    BY <1>3, <1>4
  <2> QED
    BY <1>0, <1>3, <2>1, <2>2, SameProgram DEF Sent
<1>7. Emulating'
  <2>1. \A q \in PE \ {p} : at'[q] = at[q] /\ doing'[q] = doing[q]
    BY DEF Moves, Advance, WaitFor, Placed
  <2>2. CASE \A o \in M : o.part = "whole"
    BY <2>1, <2>2, <1>0, <1>5 DEF Emulating, Place
  <2>3. CASE WaitFor(p, "loop") /\ \E o \in M : M = {o} /\ o.id[4] = 1
    <3>1. at' = at /\ doing'[p] = "loop"
      BY <2>3 DEF WaitFor, Placed
    <3> PICK m \in M : M = {m} /\ m.id[4] = 1
      BY <2>3
    <3>2. /\ m.id = <<m.from, at'[m.from][1], at'[m.from][2], 1>> /\ doing'[m.from] = "loop"
          /\ m.epoch = fences'[m.from][m.ctx] /\ m.from = p
      BY <3>1, <1>0, <1>2, <1>3
    <3>3. \A o \in flight : o.part # "whole" => o.from \in PE \ {p}
      BY <1>5 DEF Place
    <3> QED
      BY <2>1, <1>0, <3>2, <3>3 DEF Emulating
  <2> QED
    BY <2>2, <2>3
<1>8. Once'
  <2>1. \A id \in DOMAIN answer : Place(id) /\ Begun(id[1], id[2], id[3]) /\ Begun(id[1], id[2], id[3])'
    BY Goes DEF Once, Place
  <2>2. \A id \in DOMAIN answer : id # <<p, a, b, id[4]>>
    BY <2>1, <1>4
  <2>3. ASSUME NEW o \in M PROVE o.id \notin DOMAIN answer /\ \A e \in flight : e.id # o.id
    <3>1. o.id = <<p, a, b, o.id[4]>> /\ o.from = p /\ o.id[1] = p
      BY <1>3
    <3>2. \A e \in flight : e.id = o.id => e.from = p /\ e.id = <<p, a, b, e.id[4]>>
      BY <3>1, <1>5
    <3> QED
      BY <2>2, <3>1, <3>2, <1>5
  <2>4. \A o \in M : RequestOf(o.id).do \in {"post", "fetch"} => o.id[4] = 1
    BY <1>3
  <2> QED
    BY <2>1, <2>3, <2>4, <1>0, SameProgram DEF Once
<1>9. \A o \in M : \A id : Place(id) /\ id[1] = p /\ Begun(p, id[2], id[3]) =>
        \A i \in DOMAIN program[p] : \A k \in DOMAIN program[p][i].steps :
          Before(o.id, <<p, i, k>>) => ~Before(<<p, i, k>>, id)
  <2> SUFFICES ASSUME NEW o \in M, NEW id, Place(id), id[1] = p, Begun(p, id[2], id[3]),
                      NEW i \in DOMAIN program[p], NEW k \in DOMAIN program[p][i].steps,
                      Before(o.id, <<p, i, k>>), Before(<<p, i, k>>, id)
               PROVE  FALSE
    OBVIOUS
  <2>1. i \in Nat /\ k \in Nat /\ id[2] \in Nat /\ id[3] \in Nat
    BY Programmed, Named
  <2>2. id[2] < a \/ (id[2] = a /\ id[3] < b)
    BY <2>1, <1>2, IdleBegan
  <2>3. a < i \/ (a = i /\ b < k)
    BY <1>3 DEF Before
  <2>4. i < id[2] \/ (i = id[2] /\ k < id[3])
    BY DEF Before
  <2> QED
    BY <2>1, <2>2, <2>3, <2>4
<1>10. Parted'
  <2> SUFFICES ASSUME NEW o \in flight \cup M, o.ctx \notin NoStore,
                      NEW i \in DOMAIN program[o.from],
                      NEW k \in DOMAIN program[o.from][i].steps,
                      program[o.from][i].steps[k].ctx = o.ctx,
                      Before(o.id, <<o.from, i, k>>),
                      program[o.from][i].steps[k].do \in {"fence", "quiet"}
               PROVE  /\ program[o.from][i].steps[k].do = "quiet" => ~Done(o.from, i, k)'
                      /\ program[o.from][i].steps[k].do = "fence" /\ Done(o.from, i, k)'
                           => o.epoch < fences[o.from][o.ctx]
                      /\ program[o.from][i].steps[k].do = "fence" =>
                           \A m \in flight \cup M : m.from = o.from /\ m.ctx = o.ctx
                              /\ Before(<<o.from, i, k>>, m.id) => o.epoch < m.epoch
    BY <1>0 DEF Parted, Before
  <2>1. o.from \in PE /\ i \in Nat /\ k \in Nat
    BY <1>3, <1>5, Programmed DEF Place
  <2>2. Done(o.from, i, k)' => Done(o.from, i, k)
    <3>1. ASSUME o.from = p, at[p] = <<i, k>> PROVE FALSE
      <4>1. i = a /\ k = b
        BY <3>1
      <4> QED
        BY <3>1, <4>1, <1>2 DEF Posting
    <3> QED
      BY <2>1, <3>1, Goes
  <2>3. CASE o \in flight
    <3>1. ASSUME NEW m \in M, m.from = o.from, m.ctx = o.ctx, Before(<<o.from, i, k>>, m.id),
                 program[o.from][i].steps[k].do = "fence"
          PROVE  o.epoch < m.epoch
      <4>1. Done(o.from, i, k)
        BY <3>1, <1>2, <1>3 DEF Before, Done
      <4> QED
        BY <2>3, <3>1, <4>1, <1>3 DEF Parted
    <3> QED
      BY <2>2, <2>3, <3>1 DEF Parted
  <2>4. CASE o \in M
    <3>1. o.from = p /\ (a < i \/ (a = i /\ b < k))
      BY <2>4, <1>3 DEF Before
    <3>2. ~Done(o.from, i, k)
      BY <2>1, <3>1, <1>2 DEF Done
    <3>3. \A m \in flight : m.from = p => ~Before(<<p, i, k>>, m.id)
      BY <2>4, <3>1, <1>5, <1>9 
    <3>4. \A m \in M : ~Before(<<p, i, k>>, m.id)
      BY <2>1, <3>1, <1>3 DEF Before
    <3> QED
      BY <2>2, <3>1, <3>2, <3>3, <3>4
  <2> QED
    BY <2>3, <2>4
<1>11. OrderedAsPromised'
  <2> SUFFICES ASSUME NEW id \in DOMAIN answer, NEW o \in flight \cup M, o.from = id[1]
               PROVE  ~OrderedBy(o, id)
    BY <1>0, SameProgram DEF OrderedAsPromised
  <2>1. CASE o \in flight
    BY <2>1 DEF OrderedAsPromised
  <2>2. CASE o \in M
    BY <2>2, <1>3, <1>9 DEF OrderedBy, Once
  <2> QED
    BY <2>1, <2>2
<1> QED
  BY <1>1, <1>6, <1>7, <1>8, <1>10, <1>11

LEMMA FenceStep ==
  ASSUME IInv, NEW p \in PE, Fence(p)
  PROVE  IInv'
<1> USE DEF IInv
<1>1. /\ Moves(p) /\ Advance(p) /\ doing[p] = "idle" /\ request(p).do = "fence"
      /\ program' = program /\ flight' = flight /\ answer' = answer
  BY DEF Fence, Ready, Moves
<1> PICK a \in Nat, b \in Nat : at[p] = <<a, b>>
  BY DEF Placed
<1>2. /\ a \in DOMAIN program[p] /\ b \in DOMAIN program[p][a].steps
      /\ request(p) = program[p][a].steps[b]
      /\ request(p).ctx \in Requested(program)
  <2>1. at[p][1] = a /\ at[p][2] = b
    OBVIOUS
  <2>2. a \in DOMAIN program[p] /\ b \in DOMAIN program[p][a].steps
    BY <1>1, <2>1 DEF Placed, Moves, Running
  <2>3. request(p) = program[p][a].steps[b]
    BY <2>1 DEF request
  <2> QED
    BY <2>1, <2>2, <2>3, Programmed
<1> DEFINE c == request(p).ctx
<1>3. /\ fences \in [PE -> [Requested(program) -> Nat]]
      /\ IF c = SHMEM_CTX_INVALID \/ c \in NoStore THEN fences' = fences
         ELSE fences' = [fences EXCEPT ![p][c] = @ + 1]
  BY DEF Fence, Placed
<1> HIDE DEF c
<1>4. /\ fences' \in [PE -> [Requested(program) -> Nat]]
      /\ \A q \in PE, x \in Requested(program) :
           fences[q][x] <= fences'[q][x] /\ (q # p => fences'[q][x] = fences[q][x])
      /\ c \notin NoStore /\ c # SHMEM_CTX_INVALID => fences'[p][c] = fences[p][c] + 1
  <2>0. c \in Requested(program)
    BY <1>2 DEF c
  <2>1. CASE c = SHMEM_CTX_INVALID \/ c \in NoStore
    BY <1>3, <2>1
  <2>2. CASE ~(c = SHMEM_CTX_INVALID \/ c \in NoStore)
    <3>1. fences' = [fences EXCEPT ![p] = [fences[p] EXCEPT ![c] = @ + 1]]
      BY <1>3, <2>2
    <3>2. [fences[p] EXCEPT ![c] = @ + 1] \in [Requested(program) -> Nat]
      BY <1>3, <2>0
    <3> QED
      BY <1>3, <2>0, <3>1, <3>2
  <2> QED
    BY <2>1, <2>2
<1>5. Placed'
  BY <1>1, <1>4, Goes
<1>6. \A o \in flight :
        /\ Place(o.id) /\ o.from = o.id[1] /\ Begun(o.from, o.id[2], o.id[3])'
        /\ o.ctx \in Requested(program) /\ o.ctx # SHMEM_CTX_INVALID
        /\ o.from = p => o.part = "whole"
  <2> SUFFICES ASSUME NEW o \in flight
               PROVE  /\ Place(o.id) /\ o.from = o.id[1] /\ Begun(o.from, o.id[2], o.id[3])'
                      /\ o.ctx \in Requested(program) /\ o.ctx # SHMEM_CTX_INVALID
                      /\ o.from = p => o.part = "whole"
    OBVIOUS
  <2>1. Place(o.id) /\ o.from = o.id[1] /\ Begun(o.from, o.id[2], o.id[3])
    BY DEF Sent
  <2>2. Begun(o.from, o.id[2], o.id[3])'
    BY <1>1, <2>1, Goes DEF Place
  <2>3. o.ctx \in Requested(program) /\ o.ctx # SHMEM_CTX_INVALID
    BY <2>1, Named DEF Sent, IsRequest, Posting
  <2> QED
    BY <1>1, <2>1, <2>2, <2>3 DEF Emulating
<1>7. Sent'
  <2>1. \A o \in flight : o.epoch \in Nat /\ o.epoch <= fences'[o.from][o.ctx]
    BY <1>3, <1>4, <1>6 DEF Sent, Place
  <2> QED
    BY <1>1, <1>6, <2>1 DEF Sent, Place, RequestOf
<1>8. Emulating'
  <2>1. \A q \in PE \ {p} : at'[q] = at[q] /\ doing'[q] = doing[q]
    BY <1>1 DEF Advance, Placed
  <2> QED
    BY <1>1, <1>4, <1>6, <2>1 DEF Emulating, Place
<1>9. Once'
  BY ZenonT(30), <1>1, Goes DEF Once, Place, RequestOf
<1>10. Parted'
  <2> SUFFICES ASSUME NEW o \in flight, o.ctx \notin NoStore,
                      NEW i \in DOMAIN program[o.from],
                      NEW k \in DOMAIN program[o.from][i].steps,
                      program[o.from][i].steps[k].ctx = o.ctx,
                      Before(o.id, <<o.from, i, k>>),
                      Done(o.from, i, k)'
               PROVE  /\ program[o.from][i].steps[k].do # "quiet"
                      /\ program[o.from][i].steps[k].do = "fence"
                           => o.epoch < fences'[o.from][o.ctx]
    BY <1>1 DEF Parted, Before
  <2>1. o.from \in PE
    BY <1>6 DEF Place
  <2>2. CASE Done(o.from, i, k)
    <3>1. /\ program[o.from][i].steps[k].do # "quiet"
          /\ program[o.from][i].steps[k].do = "fence" => o.epoch < fences[o.from][o.ctx]
      BY <2>2 DEF Parted
    <3>2. /\ o.epoch \in Nat /\ fences[o.from][o.ctx] \in Nat
          /\ fences'[o.from][o.ctx] \in Nat
          /\ fences[o.from][o.ctx] <= fences'[o.from][o.ctx]
      BY <2>1, <1>3, <1>4, <1>6 DEF Sent
    <3> QED
      BY <3>1, <3>2
  <2>3. CASE ~Done(o.from, i, k)
    <3>1. o.from = p /\ at[p] = <<i, k>>
      BY <2>1, <2>3, <1>1, Goes
    <3>2. request(p) = program[o.from][i].steps[k] /\ c = o.ctx
      BY <3>1 DEF request, c
    <3>3. o.epoch < fences'[o.from][o.ctx]
      BY <3>1, <3>2, <1>3, <1>4, <1>6 DEF Sent
    <3> QED
      BY <1>1, <3>2, <3>3
  <2> QED
    BY <2>2, <2>3
<1>11. OrderedAsPromised'
  BY <1>1, SameProgram DEF OrderedAsPromised
<1> QED
  BY <1>5, <1>7, <1>8, <1>9, <1>10, <1>11

\* An operation lands; an emulated one lets its caller go on.
LEMMA Lands ==
  ASSUME IInv, NEW o \in flight, Deliverable(o),
         program' = program, fences' = fences, flight' = flight \ {o},
         DOMAIN answer' = DOMAIN answer \cup {o.id},
         UNCHANGED <<at, doing>> \/ (o.part # "whole" /\ Advance(o.from))
  PROVE  IInv'
<1> USE DEF IInv
<1> DEFINE p == o.from
<1>1. /\ p \in PE /\ Place(o.id) /\ o.id[1] = p
      /\ Begun(p, o.id[2], o.id[3])
  BY DEF Sent, Place
<1>2. /\ Placed'
      /\ \A q \in PE : \A i \in DOMAIN program[q] : \A k \in DOMAIN program[q][i].steps :
           /\ Begun(q, i, k) => Begun(q, i, k)'
           /\ program[q][i].steps[k].do \in {"fence", "quiet"} /\ Done(q, i, k)'
                => Done(q, i, k)
      /\ \A e \in flight : e # o /\ e.part # "whole" =>
           at'[e.from] = at[e.from] /\ doing'[e.from] = doing[e.from]
  <2>1. CASE UNCHANGED <<at, doing>>
    <3>1. \A q, i, k : (Done(q, i, k)' <=> Done(q, i, k)) /\ (Begun(q, i, k)' <=> Begun(q, i, k))
      BY <2>1 DEF Done, Begun
    <3>2. \A q : (Running(q)' <=> Running(q)) /\ request(q)' = request(q)
      BY <2>1 DEF Running, request
    <3> QED
      BY <2>1, <3>1, <3>2 DEF Placed
  <2>2. CASE o.part # "whole" /\ Advance(o.from)
    <3>1. doing[p] = "loop" /\ Running(p) /\ request(p).do \in Posting
      BY <1>1, <2>2 DEF Emulating, Placed
    <3>2. Moves(p)
      BY <2>2, <3>1 DEF Moves
    <3>3. \A i, k : at[p] = <<i, k>> => program[p][i].steps[k] = request(p)
      BY DEF request
    <3>4. \A e \in flight : e # o /\ e.part # "whole" => e.from \in PE \ {p}
      BY <2>2 DEF Emulating, Sent, Place
    <3>5. \A q \in PE \ {p} : at'[q] = at[q] /\ doing'[q] = doing[q]
      BY <2>2 DEF Advance, Placed
    <3>6. Placed'
      BY <1>1, <3>2, Goes DEF Placed
    <3>7. \A q \in PE : \A i \in DOMAIN program[q] : \A k \in DOMAIN program[q][i].steps :
           /\ Begun(q, i, k) => Begun(q, i, k)'
           /\ program[q][i].steps[k].do \in {"fence", "quiet"} /\ Done(q, i, k)'
                => Done(q, i, k)
      BY <1>1, <3>1, <3>2, <3>3, Goes DEF Posting
    <3> QED
      BY <3>4, <3>5, <3>6, <3>7
  <2> QED
    BY <2>1, <2>2
<1>3. Sent'
  BY <1>2, SameProgram DEF Sent, Place
<1>4. Emulating'
  BY <1>2 DEF Emulating
<1>5. Once'
  <2>1. \A id \in DOMAIN answer' : Place(id)' /\ Begun(id[1], id[2], id[3])'
    BY <1>1, <1>2, SameProgram DEF Once, Place
  <2> QED
    BY <2>1, SameProgram DEF Once
<1>6. Parted'
  <2>1. \A e \in flight : e.from \in PE
    BY DEF Sent, Place
  <2> QED
    BY <1>2, <2>1 DEF Parted, Before
<1>7. OrderedAsPromised'
  <2> SUFFICES ASSUME NEW e \in flight \ {o}, e.from = p, OrderedBy(e, o.id)
               PROVE  FALSE
    BY <1>1, SameProgram DEF OrderedAsPromised
  <2>1. PICK i \in DOMAIN program[p] : \E k \in DOMAIN program[p][i].steps :
          LET r == program[p][i].steps[k]
          IN  /\ r.ctx = e.ctx /\ r.ctx \notin NoStore
              /\ r.do = "quiet" \/ (r.do = "fence" /\ RequestOf(o.id).ctx = e.ctx /\ RequestOf(o.id).pe = e.pe)
              /\ Before(e.id, <<p, i, k>>) /\ Before(<<p, i, k>>, o.id)
    BY DEF OrderedBy
  <2>2. PICK k \in DOMAIN program[p][i].steps :
          LET r == program[p][i].steps[k]
          IN  /\ r.ctx = e.ctx /\ r.ctx \notin NoStore
              /\ r.do = "quiet" \/ (r.do = "fence" /\ RequestOf(o.id).ctx = e.ctx /\ RequestOf(o.id).pe = e.pe)
              /\ Before(e.id, <<p, i, k>>) /\ Before(<<p, i, k>>, o.id)
    BY <2>1
  <2>3. CASE program[p][i].steps[k].do = "quiet"
    <3>1. /\ i \in Nat /\ k \in Nat /\ o.id[2] \in Nat /\ o.id[3] \in Nat
          /\ at[p][1] \in Nat /\ at[p][2] \in Nat
      BY <1>1, Programmed, Named DEF Placed
    <3>2. at[p] = <<o.id[2], o.id[3]>> => at[p][1] = o.id[2] /\ at[p][2] = o.id[3]
      OBVIOUS
    <3>3. Done(p, i, k)
      BY <1>1, <2>2, <3>1, <3>2 DEF Before, Done, Begun
    <3> QED
      BY <2>2, <2>3, <3>3 DEF Parted
  <2>4. CASE program[p][i].steps[k].do = "fence" /\ RequestOf(o.id).ctx = e.ctx /\ RequestOf(o.id).pe = e.pe
    <3>1. o.ctx = e.ctx /\ o.pe = e.pe
      BY <2>4 DEF Sent
    <3>2. e.epoch < o.epoch
      BY <2>2, <2>4, <3>1 DEF Parted
    <3> QED
      BY <3>1, <3>2 DEF Deliverable, Older
  <2> QED
    BY <2>2, <2>3, <2>4
<1> QED
  BY <1>2, <1>3, <1>4, <1>5, <1>6, <1>7

\* The loop of an emulated operation goes on.
LEMMA Retries ==
  ASSUME IInv, NEW o \in flight, o.part # "whole", NEW n, n.part # "whole",
         n.id = o.id, n.from = o.from, n.ctx = o.ctx, n.pe = o.pe, n.epoch = o.epoch,
         Fields \subseteq DOMAIN n,
         UNCHANGED <<program, at, doing, fences, answer>>, flight' = (flight \ {o}) \cup {n}
  PROVE  IInv'
<1> USE DEF IInv
<1>1. /\ \A q, i, k : (Done(q, i, k)' <=> Done(q, i, k)) /\ (Begun(q, i, k)' <=> Begun(q, i, k))
      /\ \A q : (Running(q)' <=> Running(q)) /\ request(q)' = request(q)
  BY DEF Done, Begun, Running, request
<1>2. Placed'
  BY <1>1 DEF Placed
<1>3. Sent'
  BY <1>1, SameProgram DEF Sent
<1>4. Emulating'
  BY DEF Emulating
<1>5. Once'
  BY <1>1, SameProgram DEF Once
<1>6. Parted'
  <2>1. ASSUME NEW e \in flight'
        PROVE  \E f \in flight :
                 f.id = e.id /\ f.from = e.from /\ f.ctx = e.ctx /\ f.epoch = e.epoch
    BY <2>1
  <2> SUFFICES ASSUME NEW e \in flight', e.ctx \notin NoStore,
                      NEW i \in DOMAIN program[e.from],
                      NEW k \in DOMAIN program[e.from][i].steps,
                      program[e.from][i].steps[k].ctx = e.ctx,
                      Before(e.id, <<e.from, i, k>>)
               PROVE  /\ program[e.from][i].steps[k].do = "quiet" => ~Done(e.from, i, k)
                      /\ program[e.from][i].steps[k].do = "fence" /\ Done(e.from, i, k)
                           => e.epoch < fences[e.from][e.ctx]
                      /\ program[e.from][i].steps[k].do = "fence" =>
                           \A m \in flight' : m.from = e.from /\ m.ctx = e.ctx
                              /\ Before(<<e.from, i, k>>, m.id) => e.epoch < m.epoch
    BY <1>1 DEF Parted, Before
  <2>2. PICK f \in flight :
          f.id = e.id /\ f.from = e.from /\ f.ctx = e.ctx /\ f.epoch = e.epoch
    BY <2>1
  <2>3. ASSUME NEW m \in flight', m.from = e.from, m.ctx = e.ctx,
               Before(<<e.from, i, k>>, m.id), program[e.from][i].steps[k].do = "fence"
        PROVE  e.epoch < m.epoch
    <3>1. PICK g \in flight :
            g.id = m.id /\ g.from = m.from /\ g.ctx = m.ctx /\ g.epoch = m.epoch
      BY <2>1
    <3> QED
      BY <2>2, <2>3, <3>1 DEF Parted
  <2> QED
    BY <2>2, <2>3 DEF Parted
<1>7. OrderedAsPromised'
  <2>1. \A id : OrderedBy(n, id) <=> OrderedBy(o, id)
    BY DEF OrderedBy, Before
  <2> QED
    BY <2>1, SameProgram DEF OrderedAsPromised
<1> QED
  BY <1>2, <1>3, <1>4, <1>5, <1>6, <1>7

LEMMA InitIInv == Init => IInv
<1> SUFFICES ASSUME Init PROVE IInv
  OBVIOUS
<1>1. Placed
  <2>1. \A p \in PE : at[p] = <<1, 1>> /\ doing[p] = "idle"
    BY DEF Init
  <2>2. \A p \in PE : Running(p) => 1 \in DOMAIN program[p][1].steps
    <3> SUFFICES ASSUME NEW p \in PE, 1 \in DOMAIN program[p]
                 PROVE  1 \in DOMAIN program[p][1].steps
      BY <2>1 DEF Running
    <3>1. IsCall(program[p][1])
      BY ProgramAssumption DEF Init
    <3> QED
      BY <3>1 DEF IsCall
  <2> QED
    BY <2>1, <2>2 DEF Init, Placed
<1>2. flight = {} /\ DOMAIN answer = {}
  BY DEF Init
<1> QED
  BY <1>1, <1>2 DEF IInv, Sent, Emulating, Once, Parted, OrderedAsPromised

\* Each action keeps the invariant.
LEMMA PostStep ==
  ASSUME IInv, NEW p \in PE,
         Put(p) \/ Get(p) \/ PostAtomic(p) \/ FetchAtomic(p) \/ Emulate(p)
  PROVE  IInv'
<1> DEFINE r == request(p)
<1>1. Moves(p) /\ UNCHANGED <<fences, answer>> /\ doing[p] = "idle" /\ r.do \in Posting
  BY DEF Put, Get, PostAtomic, FetchAtomic, Emulate, Ready, Moves, Posting
<1>2. \A c, len, part : /\ IsNew(p, Message(p, r, c, len, part))
                        /\ Message(p, r, c, len, part).id = <<p, at[p][1], at[p][2], c>>
                        /\ Message(p, r, c, len, part).id[4] = c
                        /\ Message(p, r, c, len, part).part = part
  BY DEF IsNew, Message, Fields
<1>3. CASE Put(p) \/ Get(p)
  <2> PICK M : M = Cells(p, r)
    OBVIOUS
  <2>1. flight' = flight \cup M
    BY <1>3 DEF Put, Get, Post
  <2>2. \A o \in M : \E c : o = Message(p, r, c, 1, "whole")
    BY DEF Cells
  <2>3. \A o \in M : IsNew(p, o) /\ o.part = "whole"
    BY <1>2, <2>2
  <2>4. \A o, e \in M : o.id = e.id => o = e
    BY <1>2, <2>2
  <2>5. r.do \notin {"post", "fetch"}
    BY <1>3 DEF Put, Get, Ready
  <2> QED
    BY <1>1, <2>1, <2>3, <2>4, <2>5, Posts
<1>4. CASE PostAtomic(p) \/ FetchAtomic(p)
  <2> PICK m : m = Message(p, r, 1, r.len, "whole")
    OBVIOUS
  <2> PICK M : M = {m}
    OBVIOUS
  <2>1. flight' = flight \cup M
    BY <1>4 DEF PostAtomic, FetchAtomic, Post, Whole
  <2>2. \A o \in M : IsNew(p, o) /\ o.part = "whole" /\ o.id[4] = 1
    BY <1>2
  <2>3. \A o, e \in M : o.id = e.id => o = e
    OBVIOUS
  <2> QED
    BY <1>1, <2>1, <2>2, <2>3, Posts
<1>5. CASE Emulate(p)
  <2> PICK m : m = EmulatedGet(p, r)
    OBVIOUS
  <2> PICK M : M = {m}
    OBVIOUS
  <2>1. flight' = flight \cup M /\ WaitFor(p, "loop")
    BY <1>5 DEF Emulate, Post
  <2>2. IsNew(p, m) /\ m.id[4] = 1
    BY DEF EmulatedGet, Message, IsNew, Fields
  <2>3. /\ \A o \in M : IsNew(p, o) /\ o.id[4] = 1
        /\ \A o, e \in M : o.id = e.id => o = e
        /\ \E o \in M : M = {o} /\ o.id[4] = 1
    BY <2>2
  <2> QED
    BY <1>1, <2>1, <2>3, Posts
<1> QED
  BY <1>3, <1>4, <1>5

LEMMA QuietStep ==
  ASSUME IInv, NEW p \in PE, Quiet(p) \/ Store(p) \/ Answered(p)
  PROVE  IInv'
<1>1. /\ Moves(p) /\ Advance(p) /\ UNCHANGED <<flight, fences>>
      /\ \A o \in flight : o.from = p => o.part = "whole"
  <2>1. Running(p) /\ doing[p] # "loop"
    BY DEF Quiet, Store, Answered, Ready, IInv, Placed
  <2> QED
    BY <2>1 DEF Quiet, Store, Answered, Moves, IInv, Emulating
<1>2. CASE Quiet(p)
  <2>1. request(p).do = "quiet" /\ answer' = answer
    BY <1>2 DEF Quiet, Ready
  <2>2. request(p).ctx \notin NoStore => \A o \in flight : ~(o.from = p /\ o.ctx = request(p).ctx)
    <3>1. \A o \in flight : o.ctx # SHMEM_CTX_INVALID
      BY Named DEF IInv, Sent, IsRequest, Posting
    <3> QED
      BY <1>2, <3>1 DEF Quiet
  <2> QED
    BY <1>1, <2>1, <2>2, Alike
<1>3. CASE Store(p)
  <2>1. doing[p] = "idle" /\ request(p).do = "assign"
    BY <1>3 DEF Store, Ready
  <2>2. DOMAIN answer' = DOMAIN answer \cup {<<p, at[p][1], at[p][2], 1>>}
    BY <1>3 DEF Store
  <2> QED
    BY <1>1, <2>1, <2>2, Alike
<1>4. CASE Answered(p)
  <2>1. request(p).do \in Posting /\ answer' = answer
    BY <1>4 DEF Answered, IInv, Placed
  <2>2. request(p).do # "fence" /\ request(p).do # "quiet"
    BY <2>1 DEF Posting
  <2> QED
    BY <1>1, <2>1, <2>2, Alike
<1> QED
  BY <1>2, <1>3, <1>4

LEMMA LandStep ==
  ASSUME IInv, NEW o \in flight, Land(o) \/ LandEmulatedGet(o) \/ LandEmulatedSwap(o)
  PROVE  IInv'
<1>1. \A e, v, f : Effect(e, v, f) => DOMAIN answer' = DOMAIN answer \cup {e.id}
  BY DEF Effect
<1>2. CASE Land(o)
  <2>1. DOMAIN answer' = DOMAIN answer \cup {o.id}
    BY <1>1, <1>2 DEF Land
  <2> QED
    BY <1>2, <2>1, Lands DEF Land
<1>3. CASE LandEmulatedGet(o)
  <2>1. PICK n : /\ flight' = (flight \ {o}) \cup {n}
                 /\ n.id = o.id /\ n.from = o.from /\ n.ctx = o.ctx /\ n.pe = o.pe
                 /\ n.epoch = o.epoch /\ n.part = "cswap" /\ Fields \subseteq DOMAIN n
    <3>1. Fields \subseteq DOMAIN o
      BY DEF IInv, Sent
    <3>2. \A v, w : LET n == [o EXCEPT !.part = "cswap", !.op = "cswap", !.cond = v, !.value = w]
                  IN  /\ n.id = o.id /\ n.from = o.from /\ n.ctx = o.ctx /\ n.pe = o.pe
                      /\ n.epoch = o.epoch /\ n.part = "cswap" /\ Fields \subseteq DOMAIN n
      BY <3>1 DEF Fields
    <3>3. \E v, w : flight' = (flight \ {o}) \cup
            {[o EXCEPT !.part = "cswap", !.op = "cswap", !.cond = v, !.value = w]}
      BY <1>3 DEF LandEmulatedGet
    <3> PICK v, w : flight' = (flight \ {o}) \cup
            {[o EXCEPT !.part = "cswap", !.op = "cswap", !.cond = v, !.value = w]}
      BY <3>3
    <3> DEFINE n == [o EXCEPT !.part = "cswap", !.op = "cswap", !.cond = v, !.value = w]
    <3>4. /\ n.id = o.id /\ n.from = o.from /\ n.ctx = o.ctx /\ n.pe = o.pe
          /\ n.epoch = o.epoch /\ n.part = "cswap" /\ Fields \subseteq DOMAIN n
      BY <3>2
    <3>5. flight' = (flight \ {o}) \cup {n}
      OBVIOUS
    <3> HIDE DEF n
    <3> QED
      BY <3>4, <3>5
  <2>2. o.part # "whole"
    BY <1>3 DEF LandEmulatedGet
  <2> QED
    BY <1>3, <2>1, <2>2, Retries DEF LandEmulatedGet
<1>4. CASE LandEmulatedSwap(o)
  <2>1. o.part # "whole" /\ Deliverable(o) /\ program' = program /\ fences' = fences
    BY <1>4 DEF LandEmulatedSwap
  <2>2. CASE At(mem[o.pe], o.addr, 2) = o.cond
    <3>1. flight' = flight \ {o} /\ Advance(o.from)
      BY <1>4, <2>2 DEF LandEmulatedSwap
    <3>2. DOMAIN answer' = DOMAIN answer \cup {o.id}
      BY <1>1, <1>4, <2>2 DEF LandEmulatedSwap
    <3> QED
      BY <2>1, <3>1, <3>2, Lands
  <2>3. CASE At(mem[o.pe], o.addr, 2) # o.cond
    <3> PICK n : n = EmulatedGet(o.from, request(o.from))
      OBVIOUS
    <3>1. flight' = (flight \ {o}) \cup {n} /\ UNCHANGED <<program, at, doing, fences, answer>>
      BY <1>4, <2>3 DEF LandEmulatedSwap
    <3>2. /\ o.id = <<o.from, at[o.from][1], at[o.from][2], 1>>
          /\ o.epoch = fences[o.from][o.ctx]
          /\ o.ctx = RequestOf(o.id).ctx /\ o.pe = RequestOf(o.id).pe
      BY <2>1 DEF IInv, Emulating, Sent
    <3>3. RequestOf(o.id) = request(o.from)
      <4>1. o.id[1] = o.from /\ o.id[2] = at[o.from][1] /\ o.id[3] = at[o.from][2]
        BY <3>2
      <4> QED
        BY <4>1 DEF RequestOf, request
    <3>4. /\ n.id = o.id /\ n.from = o.from /\ n.ctx = o.ctx /\ n.pe = o.pe
          /\ n.epoch = o.epoch /\ n.part = "get" /\ Fields \subseteq DOMAIN n
      BY <3>2, <3>3 DEF EmulatedGet, Message, Fields
    <3> QED
      BY <2>1, <3>1, <3>4, Retries
  <2> QED
    BY <2>2, <2>3
<1> QED
  BY <1>2, <1>3, <1>4

LEMMA NextIInv ==
  ASSUME IInv, [Next]_vars
  PROVE  IInv'
<1>1. CASE UNCHANGED vars
  <2>1. /\ \A q, i, k : (Done(q, i, k)' <=> Done(q, i, k)) /\ (Begun(q, i, k)' <=> Begun(q, i, k))
        /\ \A q : (Running(q)' <=> Running(q)) /\ request(q)' = request(q)
        /\ UNCHANGED <<program, at, doing, flight, fences, answer>>
    BY <1>1 DEF vars, Done, Begun, Running, request
  <2>2. Placed' /\ Sent' /\ Emulating' /\ Once' /\ OrderedAsPromised'
    BY <2>1, SameProgram DEF IInv, Placed, Sent, Emulating, Once, OrderedAsPromised
  <2>3. Parted'
    BY <2>1 DEF IInv, Parted, Before
  <2> QED
    BY <2>2, <2>3 DEF IInv
<1>2. CASE Next
  BY <1>2, PostStep, FenceStep, QuietStep, LandStep DEF Next
<1> QED
  BY <1>1, <1>2

\* What is in flight was asked for, lands once, and is of an earlier epoch than what
\* its caller posts after a fence of the context.
THEOREM Invariance == Spec => []IInv
<1>1. IInv /\ [Next]_vars => IInv'
  BY NextIInv
<1> QED
  BY InitIInv, <1>1, PTL DEF Spec

\* No operation overtakes a fence of its context to its PE, or a quiet of its
\* context, whatever else is in flight (comms.c:750-812).
THEOREM Ordered == Spec => []OrderedAsPromised
<1>1. IInv => OrderedAsPromised
  BY DEF IInv
<1> QED
  BY Invariance, <1>1, PTL

\* The calls of put_signal.c make the put, a fence and the signal, whatever they are
\* given.
LEMMA PutSignalsFenced ==
  ASSUME NEW ctx, NEW dest, NEW src, NEW len, NEW sig, NEW signal, NEW op, NEW pe
  PROVE  Fenced(Signalled(shmemc_ctx_put_signal(ctx, dest, src, len, sig, signal, op, pe)))
BY DEF Fenced, Signalled, Call, shmemc_ctx_put_signal, shmemc_ctx_put, shmemc_ctx_fence,
       shmemc_ctx_set, shmemc_ctx_swap, shmemc_ctx_add, helper_posted_amo,
       helper_fetching_amo, Request

\* When the signal is there so is its data, in any program.
THEOREM DataFirst ==
  ASSUME SignalsFenced PROVE Spec => []SignalAfterData
<1>1. IInv => SignalAfterData
  <2> SUFFICES ASSUME IInv, NEW id \in DOMAIN answer,
                      program[id[1]][id[2]].kind = "signal",
                      id[3] = Len(program[id[1]][id[2]].steps),
                      RequestOf(id).ctx \notin NoStore,
                      NEW o \in flight, <<o.id[1], o.id[2]>> = <<id[1], id[2]>>
               PROVE  FALSE
    BY DEF SignalAfterData
  <2> DEFINE call == program[id[1]][id[2]]
  <2>1. Place(id) /\ Place(o.id) /\ o.from = id[1] /\ o.id[1] = id[1] /\ o.id[2] = id[2]
    BY DEF IInv, Once, Sent
  <2>2. Fenced(call)
    BY <2>1 DEF SignalsFenced, IInv, Placed, Place
  <2>3. /\ DOMAIN call.steps = 1..3 /\ id[3] = 3 /\ o.id[3] \in 1..3
        /\ RequestOf(id) = call.steps[3] /\ RequestOf(o.id) = call.steps[o.id[3]]
        /\ call.steps[2].do = "fence" /\ call.steps[3].do \in {"post", "fetch"}
    BY <2>1, <2>2 DEF Fenced, Place, RequestOf
  <2>4. o.ctx = call.steps[2].ctx /\ o.ctx = call.steps[3].ctx
    <3>1. o.ctx = RequestOf(o.id).ctx
      BY DEF IInv, Sent
    <3>2. \A k \in 1..3 : call.steps[k].ctx = call.steps[1].ctx
      BY <2>1, <2>2, <2>3 DEF Fenced
    <3>3. call.steps[2].ctx = call.steps[1].ctx /\ call.steps[3].ctx = call.steps[1].ctx
      BY <3>2
    <3>4. call.steps[o.id[3]].ctx = call.steps[1].ctx
      BY <2>3, <3>2
    <3> HIDE DEF call
    <3> QED
      BY <2>3, <3>1, <3>3, <3>4
  <2>5. o.id[3] # 2
    BY <2>3 DEF IInv, Sent, Posting
  <2>6. o.id[3] # 1
    <3> SUFFICES ASSUME o.id[3] = 1 PROVE OrderedBy(o, id)
      BY <2>1 DEF IInv, OrderedAsPromised
    <3>1. o.pe = RequestOf(id).pe
      BY <2>2, <2>3 DEF Fenced, IInv, Sent
    <3>2. id[2] \in Nat
      BY <2>1, Named DEF IInv
    <3>3. Before(o.id, <<o.from, id[2], 2>>) /\ Before(<<o.from, id[2], 2>>, id)
      BY <2>1, <2>3, <3>2 DEF Before
    <3>4. id[2] \in DOMAIN program[o.from] /\ 2 \in DOMAIN program[o.from][id[2]].steps
      BY <2>1, <2>3 DEF Place
    <3>5. LET r == program[o.from][id[2]].steps[2]
          IN  /\ r.ctx = o.ctx /\ r.ctx \notin NoStore
              /\ r.do = "fence" /\ RequestOf(id).ctx = o.ctx /\ RequestOf(id).pe = o.pe
      BY <2>1, <2>3, <2>4, <3>1
    <3> QED
      BY <3>3, <3>4, <3>5 DEF OrderedBy
  <2>7. o.id[3] # 3
    <3> SUFFICES ASSUME o.id[3] = 3 PROVE FALSE
      OBVIOUS
    <3>1. o.id[4] = 1 /\ id[4] = 1
      BY <2>3 DEF IInv, Once
    <3>2. o.id = id
      BY <2>1, <2>3, <3>1 DEF Place
    <3> QED
      BY <3>2 DEF IInv, Once
  <2> QED
    BY <2>3, <2>5, <2>6, <2>7
<1> QED
  BY Invariance, <1>1, PTL

------------------------------------------------------------------------------
\* Memory is never left: the inductive invariant Typed, next to IInv.

\* An address in a region is in no other, and has its place in that of another PE.
LEMMA Translated ==
  ASSUME NEW p \in PE, NEW r \in Region, NEW addr \in Nat,
         Base[p][r] <= addr, addr < end(r, p)
  PROVE  /\ lookup_region(addr, p) = r
         /\ \A pe \in PE : get_remote_addr(addr, p, pe) = Base[pe][r] + (addr - Base[p][r])
<1>1. \A q \in PE : \A s \in Region :
        s \in Nat /\ Base[q][s] \in Nat /\ Length[s] \in Nat /\ end(s, q) = Base[q][s] + Length[s]
  <2>1. \A s \in Region : s \in Nat
    BY RegionAssumption
  <2> QED
    BY <2>1, RegionAssumption DEF end
<1>2. \A s \in Region : in_region(addr, s, p) <=> s = r
  BY <1>1, RegionAssumption DEF in_region
<1>3. {s \in Region : in_region(addr, s, p)} = {r}
  BY <1>2
<1>4. (CHOOSE x \in {r} : \A s \in {r} : s <= x) = r
  BY <1>1
<1>5. lookup_region(addr, p) = r
  BY <1>3, <1>4 DEF lookup_region
<1>6. ASSUME NEW pe \in PE
      PROVE  get_remote_addr(addr, p, pe) = Base[pe][r] + (addr - Base[p][r])
  <2>1. get_remote_addr(addr, p, pe) = translate_region_address(addr, r, p, pe)
    BY <1>5 DEF get_remote_addr
  <2>2. CASE r = 0
    BY <1>1, <2>1, <2>2, RegionAssumption DEF translate_region_address
  <2>3. CASE r # 0
    BY <1>1, <2>1, <2>3 DEF translate_region_address
  <2> QED
    BY <2>2, <2>3
<1> QED
  BY <1>5, <1>6

\* What a program names is there, on every PE.
LEMMA Landing ==
  ASSUME NEW p \in PE, NEW pe \in PE, NEW addr, NEW len, Holds(addr, len, p),
         NEW c \in Nat, 1 <= c, c <= len
  PROVE  /\ addr + c - 1 \in Mapped(p)
         /\ get_remote_addr(addr, p, pe) \in Nat
         /\ get_remote_addr(addr, p, pe) + c - 1 \in Mapped(pe)
<1>1. PICK r \in Region : Base[p][r] <= addr /\ addr + len <= end(r, p)
  BY DEF Holds
<1>2. /\ addr \in Nat /\ len \in Nat
      /\ \A q \in PE : Base[q][r] \in Nat /\ Length[r] \in Nat /\ end(r, q) = Base[q][r] + Length[r]
  BY RegionAssumption DEF Holds, end
<1>3. get_remote_addr(addr, p, pe) = Base[pe][r] + (addr - Base[p][r])
  BY <1>1, <1>2, Translated
<1>4. \A q \in PE : \A a \in Nat : Base[q][r] <= a /\ a < end(r, q) => a \in Mapped(q)
  BY <1>2 DEF Mapped
<1>5. /\ addr + c - 1 \in Nat /\ Base[p][r] <= addr + c - 1 /\ addr + c - 1 < end(r, p)
  BY <1>1, <1>2
<1>6. /\ get_remote_addr(addr, p, pe) + c - 1 \in Nat /\ get_remote_addr(addr, p, pe) \in Nat
      /\ Base[pe][r] <= get_remote_addr(addr, p, pe) + c - 1
      /\ get_remote_addr(addr, p, pe) + c - 1 < end(r, pe)
  BY <1>1, <1>2, <1>3
<1> QED
  BY <1>4, <1>5, <1>6

\* Writing bits leaves bits.
LEMMA WrittenBits ==
  ASSUME NEW D, NEW m \in [D -> {0, 1}], NEW n, NEW w \in Words(n), NEW addr
  PROVE  Written(w, addr, m) \in [D -> {0, 1}]
BY DEF Written, Words

LEMMA BitwiseBits ==
  ASSUME NEW op \in BitwiseOps, NEW a \in {0, 1}, NEW b \in {0, 1}
  PROVE  Bitwise2(op, a, b) \in {0, 1}
BY DEF Bitwise2, BitwiseOps

\* What an operation makes of bits are bits.
LEMMA OutcomeBits ==
  ASSUME NEW o, NEW n \in Nat, NEW old \in Words(n),
         \/ o.op = "store" /\ o.value \in Words(n)
         \/ o.op = "load"
         \/ o.op \in {"add", "swap", "cswap"} \cup BitwiseOps /\ o.value \in Words(n)
  PROVE  Outcome(o, old) \in Words(n)
<1>1. CASE o.op \in {"store", "swap", "cswap", "load"}
  BY <1>1 DEF Outcome, BitwiseOps
<1>2. CASE o.op = "add"
  <2>1. Outcome(o, old) = Plus(old, o.value)
    BY <1>2 DEF Outcome
  <2>2. DOMAIN old = 1..n
    BY DEF Words
  <2>3. ASSUME NEW k \in 1..n
        PROVE  (old[k] + o.value[k] + Carry(old, o.value, k)) % 2 \in {0, 1}
    <3>1. old[k] \in {0, 1} /\ o.value[k] \in {0, 1}
      BY <1>2 DEF Words, BitwiseOps
    <3>2. Carry(old, o.value, k) \in {0, 1}
      BY DEF Carry
    <3> QED
      BY <3>1, <3>2
  <2> QED
    BY <2>1, <2>2, <2>3 DEF Plus, Words
<1>3. CASE o.op \in BitwiseOps
  <2>1. Outcome(o, old) = [k \in DOMAIN old |-> Bitwise2(o.op, old[k], o.value[k])]
    BY <1>3 DEF Outcome, BitwiseOps
  <2>2. DOMAIN old = 1..n /\ o.value \in Words(n)
    BY <1>3 DEF Words, BitwiseOps
  <2>3. \A k \in 1..n : Bitwise2(o.op, old[k], o.value[k]) \in {0, 1}
    BY <1>3, <2>2, BitwiseBits DEF Words
  <2> QED
    BY <2>1, <2>2, <2>3 DEF Words
<1> QED
  BY <1>1, <1>2, <1>3 DEF BitwiseOps

\* The request an operation in flight is of, and the memory it is for.
LEMMA Aimed ==
  ASSUME IInv, Typed, NEW o \in flight
  PROVE  LET r == RequestOf(o.id)
         IN  /\ o.from \in PE /\ o.pe \in PE /\ o.pe = r.pe
             /\ r.do \in Posting /\ Addressed(o.from, r) /\ Formed(o)
             /\ o.len \in Nat /\ o.addr \in Int
             /\ \A k \in 1..o.len : o.addr + k - 1 \in Mapped(o.pe)
             /\ At(mem[o.pe], o.addr, o.len) \in Words(o.len)
             /\ o.late => o.local \in Mapped(o.from)
<1> PICK r : r = RequestOf(o.id)
  OBVIOUS
<1>1. o.from \in PE /\ o.pe = r.pe /\ r.do \in Posting /\ Place(o.id) /\ o.from = o.id[1]
  BY DEF IInv, Sent, Place
<1>2. Addressed(o.from, r)
  BY <1>1, AddressAssumption DEF IInv, Placed, Place, RequestOf
<1>3. r.pe \in PE /\ Holds(r.addr, Reach(r), o.from)
  BY <1>1, <1>2 DEF Addressed
<1>4. Formed(o)
  BY DEF Typed
<1>5. r.op \in {"store", "load", "add", "swap", "cswap"} \cup BitwiseOps
  BY <1>1, <1>2 DEF Addressed, Posting
<1>6. o.len \in Nat \ {0} /\ o.id[4] \in Int /\ \A k \in 1..o.len : o.id[4] + k - 1 \in Nat /\ 1 <= o.id[4] + k - 1 /\ o.id[4] + k - 1 <= Reach(r)
  <2>1. CASE r.op \in {"store", "load"}
    <3>1. Reach(r) = r.len /\ r.op \notin BitwiseOps
      BY <2>1 DEF Reach, BitwiseOps
    <3>2. r.len \in Nat
      BY <1>3, <3>1 DEF Holds
    <3>3. o.part = "whole" /\ o.id[4] \in 1..r.len /\ o.len = 1
      BY <1>4, <2>1, <3>1 DEF Formed
    <3> QED
      BY <3>1, <3>2, <3>3
  <2>2. CASE r.op \in {"add", "swap", "cswap"} \cup BitwiseOps
    <3>1. r.len \in 1..2 /\ r.op \notin {"store", "load"}
      BY <1>2, <2>2 DEF Addressed, BitwiseOps
    <3>2. o.id[4] = 1
      BY <1>4, <3>1 DEF Formed
    <3>3. o.part = "whole" => o.len = r.len
      BY <1>4, <3>1 DEF Formed
    <3>4. o.part # "whole" => o.len = 2 /\ Reach(r) = 2
      BY <1>4 DEF Formed, Reach
    <3>5. r.len <= Reach(r) /\ Reach(r) \in 1..2
      <4>1. Reach(r) = 2 \/ Reach(r) = r.len
        BY DEF Reach
      <4> QED
        BY <3>1, <4>1
    <3> QED
      BY <3>1, <3>2, <3>3, <3>4, <3>5
  <2> QED
    BY <1>5, <2>1, <2>2
<1>7. \A k \in 1..o.len : o.addr + k - 1 \in Mapped(o.pe)
  <2> SUFFICES ASSUME NEW k \in 1..o.len PROVE o.addr + k - 1 \in Mapped(o.pe)
    OBVIOUS
  <2> PICK c : c = o.id[4] + k - 1
    OBVIOUS
  <2>1. c \in Nat /\ 1 <= c /\ c <= Reach(r)
    BY <1>6
  <2>2. /\ get_remote_addr(r.addr, o.from, r.pe) \in Nat
        /\ get_remote_addr(r.addr, o.from, r.pe) + c - 1 \in Mapped(r.pe)
    BY <1>1, <1>3, <2>1, Landing
  <2>3. o.addr = get_remote_addr(r.addr, o.from, r.pe) + o.id[4] - 1
    BY <1>4 DEF Formed
  <2>5. o.addr + k - 1 = get_remote_addr(r.addr, o.from, r.pe) + c - 1
    BY <1>6, <2>2, <2>3
  <2> QED
    BY <1>1, <2>2, <2>5
<1>8. At(mem[o.pe], o.addr, o.len) \in Words(o.len)
  BY <1>1, <1>3, <1>7 DEF At, Words, Typed
<1>10. o.addr \in Int
  <2>1. get_remote_addr(r.addr, o.from, r.pe) \in Nat
    <3>1. 1 <= Reach(r) /\ Reach(r) \in Nat
      <4>1. 1 \in 1..o.len /\ Reach(r) \in Nat
        BY <1>3, <1>6 DEF Holds
      <4>2. 1 <= o.id[4] + 1 - 1 /\ o.id[4] + 1 - 1 <= Reach(r)
        BY <1>6, <4>1
      <4> QED
        BY <1>6, <4>1, <4>2
    <3> QED
      BY <1>1, <1>3, <3>1, Landing
  <2> QED
    BY <1>4, <1>6, <2>1 DEF Formed
<1>9. o.late => o.local \in Mapped(o.from)
  <2> SUFFICES ASSUME o.late PROVE o.local \in Mapped(o.from)
    OBVIOUS
  <2>1. r.do = "put_nbi"
    BY <1>4 DEF Formed
  <2>2. r.op = "store" /\ r.local # Stack /\ Holds(r.local, r.len, o.from)
    BY <1>2, <2>1 DEF Addressed, Posting
  <2>3. o.local = r.local + o.id[4] - 1 /\ o.id[4] \in 1..r.len /\ r.len \in Nat
    BY <1>4, <2>2 DEF Formed, BitwiseOps, Holds
  <2> QED
    BY <1>1, <2>2, <2>3, Landing
<1> QED
  BY <1>1, <1>2, <1>3, <1>4, <1>6, <1>7, <1>8, <1>9, <1>10

\* What landing changes are bits of the memory that is there.
LEMMA EffectBits ==
  ASSUME Typed, NEW o, o.pe \in PE, o.from \in PE,
         NEW n, NEW value \in Words(n), NEW m, NEW found \in Words(m), Effect(o, value, found)
  PROVE  DOMAIN mem' = PE /\ \A p \in PE : mem'[p] \in [Mapped(p) -> {0, 1}]
<1> PICK changed : changed = [mem EXCEPT ![o.pe] = Written(value, o.addr, @)]
  OBVIOUS
<1>1. DOMAIN changed = PE /\ \A p \in PE : changed[p] \in [Mapped(p) -> {0, 1}]
  <2>1. Written(value, o.addr, mem[o.pe]) \in [Mapped(o.pe) -> {0, 1}]
    BY WrittenBits DEF Typed
  <2> QED
    BY <2>1 DEF Typed
<1>2. CASE o.op = "store"
  BY <1>1, <1>2 DEF Effect
<1>3. CASE o.op # "store"
  <2>1. mem' = [changed EXCEPT ![o.from] = Written(found, o.local, @)]
    BY <1>3 DEF Effect
  <2>2. Written(found, o.local, changed[o.from]) \in [Mapped(o.from) -> {0, 1}]
    BY <1>1, WrittenBits
  <2> QED
    BY <1>1, <2>1, <2>2
<1> QED
  BY <1>2, <1>3

\* What a PE is at.
LEMMA Controls ==
  ASSUME Typed, IInv', NEW p \in PE,
         Advance(p) \/ WaitFor(p, "answer") \/ WaitFor(p, "loop") \/ UNCHANGED <<at, doing>>
  PROVE  at' \in [PE -> Nat \X Nat] /\ doing' \in [PE -> {"idle", "answer", "loop"}]
<1>1. DOMAIN at' = PE /\ \A q \in PE : at'[q] \in Nat \X Nat
  BY DEF IInv, Placed
<1>2. at' = [q \in PE |-> at'[q]]
  BY <1>1 DEF Advance, WaitFor, Typed
<1>3. doing' \in [PE -> {"idle", "answer", "loop"}]
  BY DEF Advance, WaitFor, Typed
<1> QED
  BY <1>1, <1>2, <1>3

LEMMA FormedSame ==
  ASSUME program' = program PROVE \A o : Formed(o)' <=> Formed(o)
<1>1. \A x, p, q : get_remote_addr(x, p, q)' = get_remote_addr(x, p, q)
  BY DEF get_remote_addr, lookup_region, translate_region_address, in_region, end
<1>2. \A x : Zeroes(x)' = Zeroes(x)
  BY DEF Zeroes
<1> SUFFICES ASSUME NEW o PROVE Formed(o)' <=> Formed(o)
  OBVIOUS
<1>3. RequestOf(o.id)' = RequestOf(o.id)
  BY SameProgram
<1> QED
  BY <1>1, <1>2, <1>3 DEF Formed

\* The request a running PE is at, and the messages made for it.
LEMMA Requested1 ==
  ASSUME IInv, NEW p \in PE, Running(p)
  PROVE  /\ Addressed(p, request(p)) /\ IsRequest(request(p))
         /\ \A c, len, part : RequestOf(Message(p, request(p), c, len, part).id) = request(p)
<1>1. at[p][1] \in DOMAIN program[p] /\ at[p][2] \in DOMAIN program[p][at[p][1]].steps
  BY DEF Running, IInv, Placed
<1>2. Addressed(p, request(p))
  BY <1>1, AddressAssumption DEF request, IInv, Placed
<1>3. IsRequest(request(p))
  BY <1>1, Programmed DEF request, IInv
<1>4. \A c, len, part : RequestOf(Message(p, request(p), c, len, part).id) = request(p)
  BY DEF RequestOf, request, Message
<1> QED
  BY <1>2, <1>3, <1>4

LEMMA FormedMessage ==
  ASSUME IInv, Typed, NEW p \in PE, Running(p), NEW c \in Nat, NEW len \in Nat,
         request(p).do \in Posting,
         \/ /\ request(p).do \in {"put", "put_nbi", "get", "get_nbi"}
            /\ c \in 1..request(p).len /\ len = 1
         \/ /\ request(p).do \notin {"put", "put_nbi", "get", "get_nbi"}
            /\ c = 1 /\ len = request(p).len
  PROVE  Formed(Message(p, request(p), c, len, "whole"))
<1> PICK r : r = request(p)
  OBVIOUS
<1> PICK m : m = Message(p, request(p), c, len, "whole")
  OBVIOUS
<1>1. RequestOf(m.id) = r /\ Addressed(p, r)
  BY Requested1
<1>2. /\ DOMAIN m = AllFields /\ m.part = "whole" /\ m.op = r.op /\ m.len = len /\ m.from = p
      /\ m.id[4] = c /\ m.addr = get_remote_addr(r.addr, p, r.pe) + c - 1
      /\ m.local = (IF r.local = Stack THEN Stack ELSE r.local + c - 1)
      /\ m.late = (r.do = "put_nbi") /\ m.cond = r.cond
      /\ m.value = (IF r.op = "store" /\ r.local # Stack THEN <<mem[p][r.local + c - 1]>>
                    ELSE IF r.op = "store" /\ len = 1 THEN <<r.value[c]>> ELSE r.value)
  BY DEF Message, AllFields, Fields
<1>3. CASE r.do \in {"put", "put_nbi", "get", "get_nbi"}
  <2>1. c \in 1..r.len /\ len = 1 /\ r.op \in {"store", "load"}
    BY <1>1, <1>3 DEF Addressed
  <2>2. r.op = "store" => m.value \in Words(1)
    <3>1. ASSUME r.op = "store", r.local # Stack PROVE mem[p][r.local + c - 1] \in {0, 1}
      <4>1. Holds(r.local, r.len, p)
        BY <1>1, <3>1 DEF Addressed
      <4>2. r.local + c - 1 \in Mapped(p)
        BY <2>1, <4>1, Landing DEF Holds
      <4> QED
        BY <4>2 DEF Typed
    <3>2. ASSUME r.op = "store", r.local = Stack PROVE r.value[c] \in {0, 1}
      BY <1>1, <1>3, <2>1, <3>2 DEF Addressed, Words
    <3>3. \A x \in {0, 1} : <<x>> \in Words(1)
      BY DEF Words
    <3> QED
      BY <1>2, <2>1, <3>1, <3>2, <3>3
  <2> QED
    BY <1>1, <1>2, <2>1, <2>2 DEF Formed
<1>4. CASE r.do \notin {"put", "put_nbi", "get", "get_nbi"}
  <2>1. r.op \notin {"store", "load"} /\ c = 1 /\ len = r.len
    BY <1>1, <1>4 DEF Addressed, BitwiseOps, Posting
  <2> QED
    BY <1>1, <1>2, <2>1 DEF Formed
<1> QED
  BY <1>3, <1>4

LEMMA FormedGet ==
  ASSUME IInv, Typed, NEW p \in PE, Running(p), FALSE \in Native,
         request(p).do \in {"bitwise", "fetch_bitwise"}
  PROVE  Formed(EmulatedGet(p, request(p)))
<1> PICK r : r = request(p)
  OBVIOUS
<1> PICK m : m = EmulatedGet(p, r)
  OBVIOUS
<1>1. RequestOf(m.id) = r /\ Addressed(p, r)
  <2>1. m.id = Message(p, r, 1, r.len, "get").id
    BY DEF EmulatedGet, Message
  <2> QED
    BY <2>1, Requested1
<1>2. /\ DOMAIN m = AllFields /\ m.part = "get" /\ m.op = "load" /\ m.len = 2 /\ m.from = p
      /\ m.id[4] = 1 /\ m.addr = get_remote_addr(r.addr, p, r.pe) + 1 - 1
      /\ m.local = (IF r.local = Stack THEN Stack ELSE r.local + 1 - 1)
      /\ m.late = (r.do = "put_nbi") /\ m.cond = r.cond
  BY DEF EmulatedGet, Message, AllFields, Fields
<1>3. r.op \in BitwiseOps /\ r.op \notin {"store", "load"}
  BY <1>1 DEF Addressed, BitwiseOps
<1> QED
  BY <1>1, <1>2, <1>3 DEF Formed

LEMMA TypedPosts ==
  ASSUME IInv, IInv', Typed, NEW p \in PE,
         Put(p) \/ Get(p) \/ PostAtomic(p) \/ FetchAtomic(p) \/ Emulate(p)
  PROVE  Typed'
<1> PICK r : r = request(p)
  OBVIOUS
<1>1. /\ program' = program /\ native' = native /\ mem' = mem /\ Running(p) /\ r.do \in Posting
      /\ Advance(p) \/ WaitFor(p, "answer") \/ WaitFor(p, "loop")
  BY DEF Put, Get, PostAtomic, FetchAtomic, Emulate, Ready, Posting
<1>2. Addressed(p, r)
  BY <1>1, Requested1
<1>3. CASE Put(p) \/ Get(p)
  <2> PICK M : M = Cells(p, r)
    OBVIOUS
  <2>1. flight' = flight \cup M /\ r.do \in {"put", "put_nbi", "get", "get_nbi"}
    BY <1>3 DEF Put, Get, Post, Ready
  <2>2. r.len \in Nat
    <3>1. r.op \notin BitwiseOps
      BY <1>2, <2>1 DEF Addressed, BitwiseOps
    <3> QED
      BY <1>1, <1>2, <3>1 DEF Addressed, Reach, Holds
  <2>3. \A m \in M : Formed(m)
    <3> SUFFICES ASSUME NEW c \in 1..r.len PROVE Formed(Message(p, r, c, 1, "whole"))
      BY DEF Cells
    <3> QED
      BY <1>1, <2>1, <2>2, FormedMessage
  <2> QED
    BY <1>1, <2>1, <2>3, Controls, FormedSame DEF Typed
<1>4. CASE PostAtomic(p) \/ FetchAtomic(p)
  <2> PICK m : m = Message(p, r, 1, r.len, "whole")
    OBVIOUS
  <2>1. flight' = flight \cup {m}
    BY <1>4 DEF PostAtomic, FetchAtomic, Post, Whole
  <2>2. r.do \in {"post", "fetch", "fetch_nbi", "bitwise", "fetch_bitwise"}
    BY <1>4 DEF PostAtomic, FetchAtomic, Ready
  <2>3. r.len \in Nat
    BY <1>2, <2>2 DEF Addressed, BitwiseOps
  <2>4. Formed(m)
    BY <1>1, <2>2, <2>3, FormedMessage
  <2> QED
    BY <1>1, <2>1, <2>4, Controls, FormedSame DEF Typed
<1>5. CASE Emulate(p)
  <2> PICK m : m = EmulatedGet(p, r)
    OBVIOUS
  <2>1. flight' = flight \cup {m} /\ ~native /\ r.do \in {"bitwise", "fetch_bitwise"}
    BY <1>5 DEF Emulate, Post, Ready
  <2>2. FALSE \in Native
    <3>1. native \in Native /\ native \in BOOLEAN
      BY RegionAssumption DEF Typed
    <3>2. native = FALSE
      BY <2>1, <3>1
    <3> QED
      BY <3>1, <3>2
  <2>3. Formed(m)
    BY <1>1, <2>1, <2>2, FormedGet
  <2> QED
    BY <1>1, <2>1, <2>3, Controls, FormedSame DEF Typed
<1> QED
  BY <1>3, <1>4, <1>5

LEMMA TypedLocal ==
  ASSUME IInv, IInv', Typed, NEW p \in PE, Fence(p) \/ Quiet(p) \/ Store(p) \/ Answered(p)
  PROVE  Typed'
<1>1. /\ program' = program /\ native' = native /\ flight' = flight /\ Advance(p)
  BY DEF Fence, Quiet, Store, Answered
<1>2. DOMAIN mem' = PE /\ \A q \in PE : mem'[q] \in [Mapped(q) -> {0, 1}]
  <2>1. CASE Store(p)
    <3> PICK r : r = request(p)
      OBVIOUS
    <3>1. Running(p) /\ r.do = "assign" /\ mem' = [mem EXCEPT ![p] = Written(r.value, r.addr, @)]
      BY <2>1 DEF Store, Ready
    <3>2. r.value \in Words(r.len)
      BY <3>1, Requested1 DEF Addressed
    <3>3. Written(r.value, r.addr, mem[p]) \in [Mapped(p) -> {0, 1}]
      BY <3>2, WrittenBits DEF Typed
    <3> QED
      BY <3>1, <3>3 DEF Typed
  <2>2. CASE ~Store(p)
    BY <2>2 DEF Fence, Quiet, Answered, Typed
  <2> QED
    BY <2>1, <2>2
<1> QED
  BY <1>1, <1>2, Controls, FormedSame DEF Typed, Mapped, end

\* An emulated operation is of the request its caller is at.
LEMMA EmulatedOf ==
  ASSUME IInv, NEW o \in flight, o.part # "whole"
  PROVE  /\ RequestOf(o.id) = request(o.from) /\ Running(o.from) /\ o.from \in PE
         /\ o.id = <<o.from, at[o.from][1], at[o.from][2], 1>>
<1>1. /\ o.id = <<o.from, at[o.from][1], at[o.from][2], 1>> /\ doing[o.from] = "loop" /\ o.from \in PE
  BY DEF IInv, Emulating, Sent, Place
<1>2. o.id[1] = o.from /\ o.id[2] = at[o.from][1] /\ o.id[3] = at[o.from][2]
  BY <1>1
<1> QED
  BY <1>1, <1>2 DEF RequestOf, request, IInv, Placed

LEMMA TypedLand ==
  ASSUME IInv, IInv', Typed, NEW o \in flight,
         Land(o) \/ LandEmulatedGet(o) \/ LandEmulatedSwap(o)
  PROVE  Typed'
<1> PICK r : r = RequestOf(o.id)
  OBVIOUS
<1>0. program' = program /\ native' = native
  BY DEF Land, LandEmulatedGet, LandEmulatedSwap
<1>1. /\ o.from \in PE /\ o.pe \in PE /\ Addressed(o.from, r) /\ Formed(o) /\ r.do \in Posting
      /\ o.len \in Nat /\ \A k \in 1..o.len : o.addr + k - 1 \in Mapped(o.pe)
      /\ At(mem[o.pe], o.addr, o.len) \in Words(o.len)
      /\ o.late => o.local \in Mapped(o.from)
  BY Aimed
<1>2. CASE Land(o)
  <2> PICK old : old = At(mem[o.pe], o.addr, o.len)
    OBVIOUS
  <2>1. o.part = "whole" /\ flight' = flight \ {o} /\ at' = at /\ doing' = doing
    BY <1>2 DEF Land
  <2>2. \E v : \E n : Effect(o, v, old) /\ v \in Words(n)
    <3>1. CASE o.late
      <4>1. mem[o.from][o.local] \in {0, 1}
        BY <1>1, <3>1 DEF Typed
      <4>2. Effect(o, <<mem[o.from][o.local]>>, old)
        BY <1>2, <3>1 DEF Land
      <4>3. <<mem[o.from][o.local]>> \in Words(1)
        BY <4>1 DEF Words
      <4> QED
        BY <4>2, <4>3
    <3>2. CASE ~o.late
      <4>1. Effect(o, Outcome(o, old), old)
        BY <1>2, <3>2 DEF Land
      <4>2. \/ o.op = "store" /\ o.value \in Words(o.len)
            \/ o.op = "load"
            \/ o.op \in {"add", "swap", "cswap"} \cup BitwiseOps /\ o.value \in Words(o.len)
        BY <1>1, <2>1 DEF Formed, Addressed, Posting, BitwiseOps
      <4>3. Outcome(o, old) \in Words(o.len)
        BY <1>1, <4>2, OutcomeBits
      <4> QED
        BY <4>1, <4>3
    <3> QED
      BY <3>1, <3>2
  <2>3. DOMAIN mem' = PE /\ \A p \in PE : mem'[p] \in [Mapped(p) -> {0, 1}]
    BY <1>1, <2>2, EffectBits
  <2> QED
    BY <1>0, <2>1, <2>3, FormedSame DEF Typed, Mapped, end
<1>3. CASE LandEmulatedGet(o)
  <2> PICK orig : orig = At(mem[o.pe], o.addr, 2)
    OBVIOUS
  <2> PICK v : v = [k \in 1..2 |-> Bitwise2(r.op, orig[k], Zeroes(r.value)[k])]
    OBVIOUS
  <2> PICK n : n = [o EXCEPT !.part = "cswap", !.op = "cswap", !.cond = orig, !.value = v]
    OBVIOUS
  <2>1. o.part = "get" /\ UNCHANGED <<at, doing, mem>> /\ flight' = (flight \ {o}) \cup {n}
    BY <1>3, EmulatedOf DEF LandEmulatedGet
  <2>2. /\ DOMAIN o = AllFields /\ o.len = 2 /\ r.op \in BitwiseOps /\ FALSE \in Native
    BY <1>1, <2>1 DEF Formed
  <2>3. /\ DOMAIN n = AllFields /\ n.part = "cswap" /\ n.op = "cswap" /\ n.cond = orig /\ n.value = v
        /\ n.id = o.id /\ n.addr = o.addr /\ n.len = o.len /\ n.local = o.local /\ n.late = o.late
        /\ n.from = o.from
    BY <2>2 DEF AllFields, Fields
  <2>4. r.op \notin {"store", "load"}
    BY <2>2 DEF BitwiseOps
  <2>5. orig \in Words(2)
    BY <1>1, <2>2
  <2>6. Formed(n)
    BY <1>1, <2>1, <2>2, <2>3, <2>4, <2>5 DEF Formed
  <2> QED
    BY <1>0, <2>1, <2>6, FormedSame DEF Typed, Mapped, end
<1>4. CASE LandEmulatedSwap(o)
  <2>1. o.part = "cswap" /\ r = request(o.from) /\ Running(o.from)
    BY <1>4, EmulatedOf DEF LandEmulatedSwap
  <2>2. o.len = 2 /\ r.op \in BitwiseOps /\ FALSE \in Native /\ o.cond \in Words(2)
    BY <1>1, <2>1 DEF Formed
  <2>3. CASE At(mem[o.pe], o.addr, 2) = o.cond
    <3> PICK found : found = At(mem[o.pe], o.addr, r.len)
      OBVIOUS
    <3>1. Effect(o, o.value, found) /\ flight' = flight \ {o} /\ Advance(o.from)
      BY <1>4, <2>1, <2>3 DEF LandEmulatedSwap
    <3>2. r.len \in 1..2 /\ r.value \in Words(r.len)
      BY <1>1, <2>2 DEF Addressed
    <3>3. found \in Words(r.len)
      <4>1. \A k \in 1..r.len : o.addr + k - 1 \in Mapped(o.pe)
        BY <1>1, <2>2, <3>2
      <4> QED
        BY <1>1, <4>1 DEF At, Words, Typed
    <3>4. o.value \in Words(2)
      <4>1. o.value = [k \in 1..2 |-> Bitwise2(r.op, o.cond[k], Zeroes(r.value)[k])]
        BY <1>1, <2>1 DEF Formed
      <4>2. \A k \in 1..2 : Zeroes(r.value)[k] \in {0, 1}
        BY <3>2 DEF Zeroes, Words
      <4>3. \A k \in 1..2 : Bitwise2(r.op, o.cond[k], Zeroes(r.value)[k]) \in {0, 1}
        BY <2>2, <4>2, BitwiseBits DEF Words
      <4> QED
        BY <4>1, <4>3 DEF Words
    <3>5. DOMAIN mem' = PE /\ \A p \in PE : mem'[p] \in [Mapped(p) -> {0, 1}]
      BY <1>1, <3>1, <3>3, <3>4, EffectBits
    <3> QED
      BY <1>0, <1>1, <3>1, <3>5, Controls, FormedSame DEF Typed, Mapped, end
  <2>4. CASE At(mem[o.pe], o.addr, 2) # o.cond
    <3>1. /\ flight' = (flight \ {o}) \cup {EmulatedGet(o.from, r)}
          /\ UNCHANGED <<at, doing, mem>>
      BY <1>4, <2>1, <2>4 DEF LandEmulatedSwap
    <3>2. r.do \in {"bitwise", "fetch_bitwise"}
      BY <1>1, <2>2 DEF Addressed, BitwiseOps, Posting
    <3>3. Formed(EmulatedGet(o.from, r))
      BY <1>1, <2>1, <2>2, <3>2, FormedGet
    <3> QED
      BY <1>0, <3>1, <3>3, FormedSame DEF Typed, Mapped, end
  <2> QED
    BY <2>3, <2>4
<1> QED
  BY <1>2, <1>3, <1>4

LEMMA InitTyped == Init => Typed
<1> SUFFICES ASSUME Init PROVE Typed
  OBVIOUS
<1>1. \A p \in PE : mem[p] \in [Mapped(p) -> {0, 1}]
  <2> SUFFICES ASSUME NEW p \in PE, NEW a \in Mapped(p)
               PROVE  mem[p][a] \in {0, 1}
    BY DEF Init
  <2>1. PICK r \in Region : a \in Base[p][r]..(end(r, p) - 1)
    BY DEF Mapped
  <2>2. Base[p][r] \in Nat /\ Length[r] \in Nat /\ end(r, p) = Base[p][r] + Length[r]
    BY RegionAssumption DEF end
  <2>3. lookup_region(a, p) = r
    BY <2>1, <2>2, Translated
  <2>4. mem[p][a] = InitialCell(r, a - Base[p][r])
    BY <2>3 DEF Init
  <2>5. a - Base[p][r] \in 0..(Length[r] - 1)
    BY <2>1, <2>2
  <2> QED
    BY <2>4, <2>5, RegionAssumption
<1> QED
  BY <1>1 DEF Init, Typed

LEMMA NextTyped ==
  ASSUME IInv, Typed, [Next]_vars
  PROVE  Typed'
<1>1. IInv'
  BY NextIInv
<1>2. CASE UNCHANGED vars
  BY <1>2, FormedSame DEF vars, Typed, Mapped, end
<1>3. CASE Next
  BY <1>1, <1>3, TypedPosts, TypedLocal, TypedLand DEF Next
<1> QED
  BY <1>2, <1>3

\* What is asked of a PE is of its memory, wherever its heaps are: an address is in
\* the region it was in on the PE that named it (memory.c:155-180), also when one heap
\* ends where another starts, and emulated atomics stay in the variable.
THEOREM MemoryKept == Spec => []TypeOK
<1>1. IInv /\ Typed /\ [Next]_vars => Typed'
  BY NextTyped
<1>2. IInv /\ Typed => TypeOK
  <2> SUFFICES ASSUME IInv, Typed PROVE TypeOK
    OBVIOUS
  <2>1. \A p \in PE : \A a \in DOMAIN mem[p] : mem[p][a] \in {0, 1}
    BY DEF Typed
  <2>2. \A o \in flight : o.addr..(o.addr + o.len - 1) \subseteq DOMAIN mem[o.pe]
    <3> SUFFICES ASSUME NEW o \in flight, NEW a \in o.addr..(o.addr + o.len - 1)
                 PROVE  a \in DOMAIN mem[o.pe]
      OBVIOUS
    <3>1. /\ o.pe \in PE /\ o.len \in Nat /\ \A k \in 1..o.len : o.addr + k - 1 \in Mapped(o.pe)
          /\ o.addr \in Int
      BY Aimed
    <3>2. a - o.addr + 1 \in 1..o.len /\ o.addr + (a - o.addr + 1) - 1 = a
      BY <3>1
    <3>3. a \in Mapped(o.pe)
      BY <3>1, <3>2
    <3> QED
      BY <3>1, <3>3 DEF Typed
  <2>3. \A p \in PE : doing[p] # "idle" => Running(p)
    BY DEF IInv, Placed
  <2> QED
    BY <2>1, <2>2, <2>3 DEF TypeOK, Typed
<1> QED
  BY InitTyped, InitIInv, Invariance, <1>1, <1>2, PTL DEF Spec

------------------------------------------------------------------------------
\* The refinement of AtomicMemory.

LEMMA Bases ==
  ASSUME NEW p \in PE, NEW r \in Region
  PROVE  /\ r \in Nat /\ Base[p][r] \in Nat /\ Length[r] \in Nat
         /\ end(r, p) = Base[p][r] + Length[r]
<1>1. \A s \in Region : s \in Nat
  BY RegionAssumption
<1> QED
  BY <1>1, RegionAssumption DEF end

\* No address is in two regions.
LEMMA Apart ==
  ASSUME NEW p \in PE, NEW r \in Region, NEW s \in Region,
         NEW k \in 0..(Length[r] - 1), NEW j \in 0..(Length[s] - 1),
         Base[p][r] + k = Base[p][s] + j
  PROVE  r = s /\ k = j
<1>1. /\ Base[p][r] \in Nat /\ Length[r] \in Nat /\ end(r, p) = Base[p][r] + Length[r]
      /\ Base[p][s] \in Nat /\ Length[s] \in Nat /\ end(s, p) = Base[p][s] + Length[s]
  BY Bases
<1>2. r # s => end(r, p) <= Base[p][s] \/ end(s, p) <= Base[p][r]
  BY RegionAssumption
<1> QED
  BY <1>1, <1>2

\* An address stands for one variable.
LEMMA ObjectIs ==
  ASSUME NEW p \in PE, NEW r \in Region, NEW k \in 0..(Length[r] - 1)
  PROVE  Object(p, Base[p][r] + k) = <<r, k>>
<1> DEFINE S == UNION {{<<s, j>> : j \in 0..(Length[s] - 1)} : s \in Region}
           addr == Base[p][r] + k
<1>1. <<r, k>> \in S /\ Base[p][<<r, k>>[1]] + <<r, k>>[2] = addr
  OBVIOUS
<1>2. ASSUME NEW x \in S, Base[p][x[1]] + x[2] = addr PROVE x = <<r, k>>
  <2>1. PICK s \in Region : \E j \in 0..(Length[s] - 1) : x = <<s, j>>
    OBVIOUS
  <2>2. PICK j \in 0..(Length[s] - 1) : x = <<s, j>>
    BY <2>1
  <2>3. Base[p][s] + j = Base[p][r] + k
    BY <1>2, <2>2
  <2> QED
    BY <2>2, <2>3, Apart
<1>3. Object(p, addr) = CHOOSE x \in S : Base[p][x[1]] + x[2] = addr
  BY DEF Object
<1> HIDE DEF S, addr
<1>4. Object(p, addr) = <<r, k>>
  BY <1>1, <1>2, <1>3
<1> QED
  BY <1>4 DEF addr

\* The variable an address stands for, and its place on another PE.
LEMMA Somewhere ==
  ASSUME NEW p \in PE, NEW pe \in PE, NEW addr, NEW len, Holds(addr, len, p),
         NEW c \in Nat \ {0}, NEW n \in Nat \ {0}, c + n - 1 <= len
  PROVE  \E s \in Region : \E k \in Nat :
           /\ k + n <= Length[s] /\ Object(p, addr + c - 1) = <<s, k>>
           /\ addr + c - 1 = Base[p][s] + k
           /\ get_remote_addr(addr, p, pe) + c - 1 = Base[pe][s] + k
<1>1. PICK s \in Region : Base[p][s] <= addr /\ addr + len <= end(s, p)
  BY DEF Holds
<1>2. addr \in Nat /\ len \in Nat
  BY DEF Holds
<1>3. /\ s \in Nat /\ Base[p][s] \in Nat /\ Base[pe][s] \in Nat /\ Length[s] \in Nat
      /\ end(s, p) = Base[p][s] + Length[s]
  BY Bases
<1>4. get_remote_addr(addr, p, pe) = Base[pe][s] + (addr - Base[p][s])
  BY <1>1, <1>2, <1>3, Translated
<1> PICK k : k = addr + c - 1 - Base[p][s]
  OBVIOUS
<1>5. k \in Nat /\ k + n <= Length[s] /\ addr + c - 1 = Base[p][s] + k /\ k \in 0..(Length[s] - 1)
  BY <1>1, <1>2, <1>3
<1>6. Object(p, addr + c - 1) = <<s, k>>
  BY <1>5, ObjectIs
<1>7. get_remote_addr(addr, p, pe) + c - 1 = Base[pe][s] + k
  BY <1>2, <1>3, <1>4
<1> QED
  BY <1>5, <1>6, <1>7

\* The variables of a memory.
Image(m) == [c \in Variables |-> m[c[1]][Base[c[1]][c[2]] + c[3]]]

LEMMA VariableIs ==
  ASSUME NEW c \in Variables
  PROVE  /\ c = <<c[1], c[2], c[3]>> /\ c[1] \in PE /\ c[2] \in Region
         /\ c[3] \in 0..(Length[c[2]] - 1) /\ c[3] \in Nat
         /\ Base[c[1]][c[2]] + c[3] \in Mapped(c[1])
<1>1. PICK r \in Region : c \in {<<p, r, k>> : p \in PE, k \in 0..(Length[r] - 1)}
  BY DEF Variables
<1>2. \E p \in PE : \E k \in 0..(Length[r] - 1) : c = <<p, r, k>>
  BY <1>1
<1>3. PICK p \in PE : \E k \in 0..(Length[r] - 1) : c = <<p, r, k>>
  BY <1>2
<1>4. PICK k \in 0..(Length[r] - 1) : c = <<p, r, k>>
  BY <1>3
<1>5. k \in Nat /\ Base[p][r] + k \in Base[p][r]..(end(r, p) - 1)
  BY Bases
<1> QED
  BY <1>4, <1>5 DEF Mapped

\* What With leaves in a variable.
LEMMA WithCell ==
  ASSUME NEW m, NEW pe \in PE, NEW s \in Region, NEW k \in Nat, NEW n \in Nat,
         NEW w, DOMAIN w = 1..n, NEW c \in DOMAIN m, DOMAIN m = Variables
  PROVE  Memory!With(m, <<pe, s, k>>, w)[c] =
           IF c[1] = pe /\ c[2] = s /\ c[3] - k + 1 \in 1..n THEN w[c[3] - k + 1] ELSE m[c]
<1> PICK p, r, j : p = c[1] /\ r = c[2] /\ j = c[3]
  OBVIOUS
<1>1. c = <<p, r, j>> /\ j \in Nat
  BY VariableIs
<1>2. \A i \in 1..n : c = Memory!Cell(<<pe, s, k>>, i) <=> (p = pe /\ r = s /\ i = j - k + 1)
  BY <1>1 DEF Memory!Cell
<1>3. <<pe, s, k>> # <<>>
  OBVIOUS
<1>4. Memory!With(m, <<pe, s, k>>, w)[c] =
        IF \E i \in 1..n : c = Memory!Cell(<<pe, s, k>>, i)
        THEN w[CHOOSE i \in 1..n : c = Memory!Cell(<<pe, s, k>>, i)] ELSE m[c]
  BY <1>3 DEF Memory!With
<1>5. CASE p = pe /\ r = s /\ j - k + 1 \in 1..n
  <2>1. (CHOOSE i \in 1..n : c = Memory!Cell(<<pe, s, k>>, i)) = j - k + 1
    BY <1>2, <1>5
  <2> QED
    BY <1>2, <1>4, <1>5, <2>1
<1>6. CASE ~(p = pe /\ r = s /\ j - k + 1 \in 1..n)
  BY <1>2, <1>4, <1>6
<1> QED
  BY <1>5, <1>6

AMemory(m) == DOMAIN m = PE /\ \A p \in PE : DOMAIN m[p] = Mapped(p)

\* Writing at an address is writing the variables from there on.
LEMMA WrittenIs ==
  ASSUME NEW m, AMemory(m),
         NEW pe \in PE, NEW s \in Region, NEW k \in Nat, NEW n \in Nat,
         k + n <= Length[s], NEW w \in Words(n)
  PROVE  Image([m EXCEPT ![pe] = Written(w, Base[pe][s] + k, @)])
           = Memory!With(Image(m), <<pe, s, k>>, w)
<1>7. PICK addr : addr = Base[pe][s] + k
  OBVIOUS
<1>8. PICK t : t = [m EXCEPT ![pe] = Written(w, addr, @)]
  OBVIOUS
<1>1. addr \in Nat /\ Base[pe][s] \in Nat /\ Length[s] \in Nat /\ addr # -1 /\ Stack = -1
  BY <1>7, Bases DEF Stack
<1>2. DOMAIN Image(m) = Variables
  BY DEF Image
<1>3. ASSUME NEW c \in Variables
      PROVE  Image(t)[c] = Memory!With(Image(m), <<pe, s, k>>, w)[c]
  <2>0. PICK p, r, j : p = c[1] /\ r = c[2] /\ j = c[3]
    OBVIOUS
  <2>1. /\ p \in PE /\ r \in Region /\ j \in 0..(Length[r] - 1) /\ j \in Nat
        /\ Base[p][r] + j \in Mapped(p)
    BY <2>0, VariableIs
  <2>2. Image(t)[c] = t[p][Base[p][r] + j] /\ Image(m)[c] = m[p][Base[p][r] + j]
    BY <2>0 DEF Image
  <2>3. Memory!With(Image(m), <<pe, s, k>>, w)[c] =
          IF p = pe /\ r = s /\ j - k + 1 \in 1..n THEN w[j - k + 1] ELSE Image(m)[c]
    BY <1>2, <2>0, WithCell DEF Words
  <2>4. CASE p # pe
    BY <1>8, <2>1, <2>2, <2>3, <2>4 DEF AMemory
  <2>5. CASE p = pe
    <3>1. t[p] = Written(w, addr, m[p])
      BY <1>8, <2>5 DEF AMemory
    <3>2. \A a \in Mapped(p) : t[p][a] = IF a - addr + 1 \in 1..n THEN w[a - addr + 1] ELSE m[p][a]
      BY <1>1, <2>1, <3>1 DEF Written, AMemory, Words
    <3>10. PICK a : a = Base[p][r] + j
      OBVIOUS
    <3>4. addr = Base[p][s] + k /\ a \in Nat
      <4>1. Base[p][r] \in Nat
        BY <2>1, Bases
      <4> QED
        BY <1>7, <2>1, <2>5, <3>10, <4>1
    <3>5. /\ a - addr + 1 \in 1..n <=> (r = s /\ j - k + 1 \in 1..n)
          /\ r = s => a - addr + 1 = j - k + 1
      <4>1. /\ Base[p][r] \in Nat /\ Length[r] \in Nat /\ Base[p][s] \in Nat /\ Length[s] \in Nat
        BY <2>1, Bases
      <4>4. addr \in Nat /\ j \in Nat
        BY <1>1, <2>1
      <4>2. ASSUME a - addr + 1 \in 1..n PROVE r = s
        <5>1. PICK i : i = a - Base[p][s]
          OBVIOUS
        <5>2. i \in 0..(Length[s] - 1) /\ Base[p][r] + j = Base[p][s] + i
          BY <3>4, <3>10, <4>1, <4>2, <4>4, <5>1
        <5> QED
          BY <2>1, <5>2, Apart
      <4>3. r = s => a - addr + 1 = j - k + 1
        BY <3>4, <3>10, <4>1, <4>4
      <4> QED
        BY <4>2, <4>3
    <3>6. t[p][a] = IF a - addr + 1 \in 1..n THEN w[a - addr + 1] ELSE m[p][a]
      BY <2>1, <3>2, <3>10
    <3>7. Image(t)[c] = t[p][a] /\ Image(m)[c] = m[p][a]
      BY <2>2, <3>10
    <3>8. CASE r = s /\ j - k + 1 \in 1..n
      <4>1. t[p][a] = w[j - k + 1]
        BY <3>5, <3>6, <3>8
      <4> QED
        BY <2>3, <2>5, <3>7, <3>8, <4>1
    <3>9. CASE ~(r = s /\ j - k + 1 \in 1..n)
      <4>1. t[p][a] = m[p][a]
        BY <3>5, <3>6, <3>9
      <4> QED
        BY <2>3, <3>7, <3>9, <4>1
    <3> QED
      BY <3>8, <3>9
  <2> QED
    BY <2>4, <2>5
<1>4. Image(t) = [c \in Variables |-> Image(t)[c]]
  BY DEF Image
<1>5. Memory!With(Image(m), <<pe, s, k>>, w)
        = [c \in Variables |-> Memory!With(Image(m), <<pe, s, k>>, w)[c]]
  BY <1>2 DEF Memory!With
<1> QED
  BY <1>3, <1>4, <1>5, <1>7, <1>8

------------------------------------------------------------------------------
\* The operations: the ripple of carries is the sum of the numbers.

\* Words are sequences.
LEMMA WordLen ==
  ASSUME NEW n \in Nat, NEW w \in Words(n)
  PROVE  Len(w) = n
<1>1. w \in [1..n -> {0, 1}]
  BY DEF Words
<1>2. w \in Seq({0, 1})
  BY <1>1
<1> QED
  BY <1>1, <1>2

\* The numbers of words of 32 and 64 bits, counted as a bit a cell.
LEMMA NumberIs ==
  /\ \A w \in Words(1) : Memory!Number(w) = w[1]
  /\ \A w \in Words(2) : Memory!Number(w) = 2 * w[2] + w[1]
<1>1. ASSUME NEW w \in Words(1) PROVE Memory!Number(w) = w[1]
  <2> DEFINE P(g) == g = [k \in 0..Len(w) |-> IF k = 0 THEN 0 ELSE 2 * g[k - 1] + w[Len(w) - k + 1]]
  <2>1. Len(w) = 1 /\ w[1] \in Nat
    BY WordLen DEF Words
  <2>2. \E g : P(g)
    <3> DEFINE h == [k \in 0..1 |-> IF k = 0 THEN 0 ELSE w[1]]
    <3>1. P(h)
      BY <2>1
    <3> QED
      BY <3>1
  <2>3. PICK u : u = CHOOSE g : P(g)
    OBVIOUS
  <2>4. P(u)
    BY <2>2, <2>3
  <2>5. Memory!Number(w) = u[1]
    BY <2>1, <2>3 DEF Memory!Number
  <2> HIDE DEF P
  <2>6. u[0] = 0 /\ u[1] = w[1]
    BY <2>1, <2>4 DEF P
  <2> QED
    BY <2>5, <2>6
<1>2. ASSUME NEW w \in Words(2) PROVE Memory!Number(w) = 2 * w[2] + w[1]
  <2> DEFINE P(g) == g = [k \in 0..Len(w) |-> IF k = 0 THEN 0 ELSE 2 * g[k - 1] + w[Len(w) - k + 1]]
  <2>1. Len(w) = 2 /\ w[1] \in Nat /\ w[2] \in Nat
    BY WordLen DEF Words
  <2>2. \E g : P(g)
    <3> DEFINE h == [k \in 0..2 |-> IF k = 0 THEN 0 ELSE IF k = 1 THEN w[2] ELSE 2 * w[2] + w[1]]
    <3>1. P(h)
      BY <2>1
    <3> QED
      BY <3>1
  <2>3. PICK u : u = CHOOSE g : P(g)
    OBVIOUS
  <2>4. P(u)
    BY <2>2, <2>3
  <2>5. Memory!Number(w) = u[2]
    BY <2>1, <2>3 DEF Memory!Number
  <2> HIDE DEF P
  <2>6. u[0] = 0 /\ u[1] = w[2] /\ u[2] = 2 * w[2] + w[1]
    BY <2>1, <2>4 DEF P
  <2> QED
    BY <2>5, <2>6
<1> QED
  BY <1>1, <1>2

Halves(x, len) == CHOOSE h : h = [k \in 1..len |-> IF k = 1 THEN x ELSE h[k - 1] \div 2]

LEMMA BitsIs ==
  ASSUME NEW x \in Nat
  PROVE  /\ Memory!Bits(x, 1) = [k \in 1..1 |-> x % 2]
         /\ Memory!Bits(x, 2) = [k \in 1..2 |-> IF k = 1 THEN x % 2 ELSE (x \div 2) % 2]
<1>1. \A len : Memory!Bits(x, len) = [k \in 1..len |-> Halves(x, len)[k] % 2]
  BY DEF Memory!Bits, Halves
<1>2. Halves(x, 1)[1] = x
  <2> DEFINE P(g) == g = [k \in 1..1 |-> IF k = 1 THEN x ELSE g[k - 1] \div 2]
  <2>1. P([k \in 1..1 |-> x])
    OBVIOUS
  <2>2. P(Halves(x, 1))
    BY <2>1 DEF Halves
  <2> QED
    BY <2>2
<1>3. Halves(x, 2)[1] = x /\ Halves(x, 2)[2] = x \div 2
  <2> DEFINE P(g) == g = [k \in 1..2 |-> IF k = 1 THEN x ELSE g[k - 1] \div 2]
  <2>1. P([k \in 1..2 |-> IF k = 1 THEN x ELSE x \div 2])
    OBVIOUS
  <2>2. P(Halves(x, 2))
    BY <2>1 DEF Halves
  <2> QED
    BY <2>2
<1>4. Memory!Bits(x, 1) = [k \in 1..1 |-> x % 2]
  <2>1. \A k \in 1..1 : Halves(x, 1)[k] % 2 = x % 2
    BY <1>2
  <2> QED
    BY <1>1, <2>1
<1>5. Memory!Bits(x, 2) = [k \in 1..2 |-> IF k = 1 THEN x % 2 ELSE (x \div 2) % 2]
  <2>1. \A k \in 1..2 : Halves(x, 2)[k] % 2 = IF k = 1 THEN x % 2 ELSE (x \div 2) % 2
    BY <1>3
  <2> QED
    BY <1>1, <2>1
<1> QED
  BY <1>4, <1>5

LEMMA Adding ==
  ASSUME NEW a \in {0, 1}, NEW b \in {0, 1}, NEW c \in {0, 1}, NEW d \in {0, 1}
  PROVE  /\ (2 * c + a) + (2 * d + b) \in Nat
         /\ ((2 * c + a) + (2 * d + b)) % 2 = (a + b + 0) % 2
         /\ (((2 * c + a) + (2 * d + b)) \div 2) % 2 = (c + d + (IF a + b = 2 THEN 1 ELSE 0)) % 2
<1>1. CASE a + b < 2
  BY <1>1
<1>2. CASE a + b = 2
  BY <1>2
<1> QED
  BY <1>1, <1>2

\* UCX's addition is that of numbers, modulo the width.
LEMMA PlusIs ==
  ASSUME NEW n \in 1..2, NEW v \in Words(n), NEW w \in Words(n)
  PROVE  Memory!Bits(Memory!Number(v) + Memory!Number(w), Len(v)) = Plus(v, w)
<1>1. Len(v) = n /\ DOMAIN v = 1..n
  BY WordLen DEF Words
<1>2. CASE n = 1
  <2>1. /\ v[1] \in {0, 1} /\ w[1] \in {0, 1} /\ v[1] + w[1] \in Nat
        /\ Memory!Number(v) = v[1] /\ Memory!Number(w) = w[1]
    BY <1>2, NumberIs DEF Words
  <2>2. Memory!Bits(v[1] + w[1], 1) = [k \in 1..1 |-> (v[1] + w[1]) % 2]
    BY <2>1, BitsIs
  <2>3. Carry(v, w, 1) = 0
    BY DEF Carry
  <2>4. Plus(v, w) = [k \in 1..1 |-> (v[1] + w[1]) % 2]
    BY <1>1, <1>2, <2>1, <2>3 DEF Plus
  <2> QED
    BY <1>1, <1>2, <2>1, <2>2, <2>4
<1>3. CASE n = 2
  <2>1. /\ v[1] \in {0, 1} /\ w[1] \in {0, 1} /\ v[2] \in {0, 1} /\ w[2] \in {0, 1}
        /\ Memory!Number(v) = 2 * v[2] + v[1] /\ Memory!Number(w) = 2 * w[2] + w[1]
    BY <1>3, NumberIs DEF Words
  <2>6. PICK x : x = (2 * v[2] + v[1]) + (2 * w[2] + w[1])
    OBVIOUS
  <2>4. /\ x \in Nat /\ x % 2 = (v[1] + w[1] + 0) % 2
        /\ (x \div 2) % 2 = (v[2] + w[2] + (IF v[1] + w[1] = 2 THEN 1 ELSE 0)) % 2
    <3>1. /\ (2 * v[2] + v[1]) + (2 * w[2] + w[1]) \in Nat
          /\ ((2 * v[2] + v[1]) + (2 * w[2] + w[1])) % 2 = (v[1] + w[1] + 0) % 2
          /\ (((2 * v[2] + v[1]) + (2 * w[2] + w[1])) \div 2) % 2
               = (v[2] + w[2] + (IF v[1] + w[1] = 2 THEN 1 ELSE 0)) % 2
      BY Zenon, <2>1, Adding
    <3> QED
      BY <2>6, <3>1
  <2>2. Memory!Bits(x, 2) = [k \in 1..2 |-> IF k = 1 THEN x % 2 ELSE (x \div 2) % 2]
    BY <2>4, BitsIs
  <2>3. Carry(v, w, 1) = 0 /\ Carry(v, w, 2) = IF v[1] + w[1] = 2 THEN 1 ELSE 0
    <3>1. Carry(v, w, 1) = 0
      BY DEF Carry
    <3>2. (\E j \in 1..(2 - 1) : v[j] + w[j] = 2 /\ \A i \in (j + 1)..(2 - 1) : v[i] + w[i] = 1)
            <=> v[1] + w[1] = 2
      OBVIOUS
    <3> QED
      BY <3>1, <3>2 DEF Carry
  <2>5. Plus(v, w) = [k \in 1..2 |-> IF k = 1 THEN x % 2 ELSE (x \div 2) % 2]
    <3>1. \A k \in 1..2 : (v[k] + w[k] + Carry(v, w, k)) % 2
                             = IF k = 1 THEN x % 2 ELSE (x \div 2) % 2
      <4>1. (v[1] + w[1] + Carry(v, w, 1)) % 2 = x % 2
        BY <2>3, <2>4
      <4>2. (v[2] + w[2] + Carry(v, w, 2)) % 2 = (x \div 2) % 2
        BY <2>3, <2>4
      <4> QED
        BY <4>1, <4>2
    <3> QED
      BY <1>1, <1>3, <3>1 DEF Plus
  <2>7. Memory!Number(v) + Memory!Number(w) = x
    BY <2>1, <2>6
  <2> QED
    BY <1>1, <1>3, <2>2, <2>5, <2>7
<1> QED
  BY <1>2, <1>3

\* What an operation leaves is what is promised.
LEMMA OutcomeIs ==
  ASSUME NEW n \in 1..2, NEW old \in Words(n), NEW o, NEW m,
         m.op = o.op, m.value = o.value, o.op = "cswap" => m.cond = o.cond,
         \/ o.op \in {"store", "load"}
         \/ o.op \in {"add", "swap", "cswap"} \cup BitwiseOps /\ o.value \in Words(n)
  PROVE  Memory!After(m, old) = Outcome(o, old)
<1>1. CASE o.op \in {"store", "load", "swap", "cswap"}
  BY <1>1 DEF Memory!After, Outcome
<1>2. CASE o.op = "add"
  <2>1. Memory!After(m, old) = Memory!Bits(Memory!Number(old) + Memory!Number(m.value), Len(old))
    BY <1>2 DEF Memory!After
  <2>2. Outcome(o, old) = Plus(old, o.value)
    BY <1>2 DEF Outcome
  <2> QED
    BY <1>2, <2>1, <2>2, PlusIs DEF BitwiseOps
<1>3. CASE o.op \in BitwiseOps
  <2>1. /\ DOMAIN old = 1..n
        /\ \A k \in 1..n : old[k] \in {0, 1} /\ m.value[k] \in {0, 1}
    BY <1>3 DEF Words, BitwiseOps
  <2>2. Outcome(o, old) = [k \in DOMAIN old |-> Bitwise2(m.op, old[k], m.value[k])]
    BY <1>3 DEF Outcome, BitwiseOps
  <2>3. CASE o.op = "and"
    <3>1. Memory!After(m, old) = [k \in DOMAIN old |-> old[k] * m.value[k]]
      BY <2>3 DEF Memory!After
    <3> QED
      BY <2>1, <2>2, <2>3, <3>1 DEF Bitwise2
  <2>4. CASE o.op = "or"
    <3>1. Memory!After(m, old) = [k \in DOMAIN old |-> IF old[k] + m.value[k] = 0 THEN 0 ELSE 1]
      BY <2>4 DEF Memory!After
    <3>2. \A k \in 1..n : Bitwise2(m.op, old[k], m.value[k]) = IF old[k] + m.value[k] = 0 THEN 0 ELSE 1
      BY <2>1, <2>4 DEF Bitwise2
    <3> QED
      BY <2>1, <2>2, <3>1, <3>2
  <2>5. CASE o.op = "xor"
    <3>1. Memory!After(m, old) = [k \in DOMAIN old |-> (old[k] + m.value[k]) % 2]
      BY <2>5 DEF Memory!After
    <3> QED
      BY <2>1, <2>2, <2>5, <3>1 DEF Bitwise2
  <2> QED
    BY <1>3, <2>3, <2>4, <2>5 DEF BitwiseOps
<1> QED
  BY <1>1, <1>2, <1>3 DEF BitwiseOps

------------------------------------------------------------------------------
\* What is in flight, as operations of AtomicMemory.

\* The cells a message is for are of its request.
LEMMA Spanned ==
  ASSUME NEW o, NEW p, NEW r, r = RequestOf(o.id), r.do \in Posting, Formed(o), Addressed(p, r)
  PROVE  /\ o.len \in 1..2 /\ o.id[4] \in Nat \ {0} /\ o.id[4] + o.len - 1 <= Reach(r)
         /\ Reach(r) \in Nat /\ r.len \in Nat
         /\ o.part = "whole" => o.op = r.op
         /\ r.op \in {"store", "load"} =>
              o.part = "whole" /\ o.len = 1 /\ o.id[4] <= r.len
         /\ r.op \notin {"store", "load"} =>
              /\ o.id[4] = 1 /\ r.len \in 1..2 /\ r.len <= o.len
              /\ r.op \in {"add", "swap", "cswap"} \cup BitwiseOps /\ r.value \in Words(r.len)
              /\ o.part = "whole" => o.len = r.len /\ o.value = r.value /\ o.cond = r.cond
         /\ o.part # "whole" => r.op \in BitwiseOps /\ o.len = 2
<1>1. Holds(r.addr, Reach(r), p)
  BY DEF Addressed
<1>2. Reach(r) \in Nat
  BY <1>1 DEF Holds
<1>3. r.op \in {"store", "load", "add", "swap", "cswap"} \cup BitwiseOps
  BY DEF Addressed, Posting
<1>4. CASE r.op \in {"store", "load"}
  <2>1. Reach(r) = r.len /\ r.op \notin BitwiseOps
    BY <1>4 DEF Reach, BitwiseOps
  <2>2. o.part = "whole" /\ o.id[4] \in 1..r.len /\ o.len = 1 /\ o.op = r.op
    BY <1>4, <2>1 DEF Formed
  <2>3. r.len \in Nat
    BY <1>2, <2>1
  <2> QED
    BY <1>2, <1>4, <2>1, <2>2, <2>3
<1>5. CASE r.op \notin {"store", "load"}
  <2>1. /\ r.op \in {"add", "swap", "cswap"} \cup BitwiseOps
        /\ r.len \in 1..2 /\ r.value \in Words(r.len)
    BY <1>3, <1>5 DEF Addressed
  <2>2. /\ o.id[4] = 1
        /\ o.part = "whole" => o.len = r.len /\ o.value = r.value /\ o.cond = r.cond /\ o.op = r.op
    BY <1>5 DEF Formed
  <2>3. o.part # "whole" => r.op \in BitwiseOps /\ o.len = 2 /\ Reach(r) = 2
    BY DEF Formed, Reach
  <2>4. Reach(r) = 2 \/ Reach(r) = r.len
    BY DEF Reach
  <2> QED
    BY <1>2, <1>5, <2>1, <2>2, <2>3, <2>4
<1> QED
  BY <1>4, <1>5

\* What an operation in flight means, and where that is.
LEMMA Meaning ==
  ASSUME IInv, Typed, NEW o \in flight
  PROVE  LET r == RequestOf(o.id)
             m == Meant(o)
         IN  /\ m.id = o.id /\ m.op = r.op /\ m.cond = r.cond
             /\ m.len \in 1..2 /\ m.len <= o.len /\ (o.part = "whole" => m.len = o.len)
             /\ r.op \in {"store", "load"} => m.value = o.value
             /\ r.op \notin {"store", "load"} => m.value = r.value /\ m.len = r.len
             /\ \E s \in Region : \E k \in Nat :
                  k + o.len <= Length[s] /\ m.at = <<o.pe, s, k>> /\ o.addr = Base[o.pe][s] + k
             /\ r.op = "store" \/ r.local = Stack => m.to = <<>>
             /\ ~(r.op = "store" \/ r.local = Stack) =>
                  \E s \in Region : \E k \in Nat :
                    k + m.len <= Length[s] /\ m.to = <<o.from, s, k>>
                      /\ o.local = Base[o.from][s] + k
<1>0. PICK r : r = RequestOf(o.id)
  OBVIOUS
<1>1. o.from \in PE /\ o.pe \in PE /\ o.pe = r.pe /\ r.do \in Posting /\ Addressed(o.from, r) /\ Formed(o)
  BY <1>0, Aimed
<1>2. /\ o.len \in 1..2 /\ o.id[4] \in Nat \ {0} /\ o.id[4] + o.len - 1 <= Reach(r)
      /\ Reach(r) \in Nat /\ r.len \in Nat
      /\ r.op \in {"store", "load"} => o.part = "whole" /\ o.len = 1 /\ o.id[4] <= r.len
      /\ r.op \notin {"store", "load"} =>
           /\ o.id[4] = 1 /\ r.len \in 1..2 /\ r.len <= o.len
           /\ o.part = "whole" => o.len = r.len
  BY <1>0, <1>1, Spanned
<1>3. PICK m : m = Meant(o)
  OBVIOUS
<1>4. /\ m.id = o.id /\ m.op = r.op /\ m.cond = r.cond
      /\ m.len = (IF r.op \in {"store", "load"} THEN 1 ELSE r.len)
      /\ m.value = (IF r.op \in {"store", "load"} THEN o.value ELSE r.value)
      /\ m.at = LET ro == Object(o.from, r.addr + o.id[4] - 1) IN <<r.pe, ro[1], ro[2]>>
      /\ m.to = IF r.op = "store" \/ r.local = Stack THEN <<>>
                ELSE LET ro == Object(o.from, r.local + o.id[4] - 1) IN <<o.from, ro[1], ro[2]>>
  BY <1>0, <1>3 DEF Meant
<1>5. m.len \in 1..2 /\ m.len <= o.len /\ (o.part = "whole" => m.len = o.len) /\ o.id[4] + m.len - 1 <= r.len
  <2>1. CASE r.op \in {"store", "load"}
    BY <1>2, <1>4, <2>1
  <2>2. CASE r.op \notin {"store", "load"}
    BY <1>2, <1>4, <2>2
  <2> QED
    BY <2>1, <2>2
<1>6. \E s \in Region : \E k \in Nat :
        k + o.len <= Length[s] /\ m.at = <<o.pe, s, k>> /\ o.addr = Base[o.pe][s] + k
  <2>1. Holds(r.addr, Reach(r), o.from) /\ o.len \in Nat \ {0}
    BY <1>1, <1>2 DEF Addressed
  <2>2. PICK s \in Region : \E k \in Nat :
          /\ k + o.len <= Length[s] /\ Object(o.from, r.addr + o.id[4] - 1) = <<s, k>>
          /\ get_remote_addr(r.addr, o.from, o.pe) + o.id[4] - 1 = Base[o.pe][s] + k
    <3>1. PICK c \in Nat \ {0} : c = o.id[4]
      BY <1>2
    <3>2. PICK n \in Nat \ {0} : n = o.len
      BY <2>1
    <3>3. c + n - 1 <= Reach(r)
      BY <1>2, <3>1, <3>2
    <3>4. \E s \in Region : \E k \in Nat :
            /\ k + n <= Length[s] /\ Object(o.from, r.addr + c - 1) = <<s, k>>
            /\ r.addr + c - 1 = Base[o.from][s] + k
            /\ get_remote_addr(r.addr, o.from, o.pe) + c - 1 = Base[o.pe][s] + k
      BY <1>1, <2>1, <3>3, Somewhere
    <3> QED
      BY <3>1, <3>2, <3>4
  <2>3. PICK k \in Nat :
          /\ k + o.len <= Length[s] /\ Object(o.from, r.addr + o.id[4] - 1) = <<s, k>>
          /\ get_remote_addr(r.addr, o.from, o.pe) + o.id[4] - 1 = Base[o.pe][s] + k
    BY <2>2
  <2>4. o.addr = get_remote_addr(r.addr, o.from, o.pe) + o.id[4] - 1
    BY <1>0, <1>1 DEF Formed
  <2>5. m.at = <<o.pe, s, k>>
    BY <1>1, <1>4, <2>3
  <2> QED
    BY <2>3, <2>4, <2>5
<1>7. ASSUME ~(r.op = "store" \/ r.local = Stack)
      PROVE  \E s \in Region : \E k \in Nat :
               k + m.len <= Length[s] /\ m.to = <<o.from, s, k>> /\ o.local = Base[o.from][s] + k
  <2>1. Holds(r.local, r.len, o.from) /\ m.len \in Nat \ {0}
    BY <1>1, <1>5, <1>7 DEF Addressed
  <2>2. PICK s \in Region : \E k \in Nat :
          /\ k + m.len <= Length[s] /\ Object(o.from, r.local + o.id[4] - 1) = <<s, k>>
          /\ r.local + o.id[4] - 1 = Base[o.from][s] + k
    <3>1. PICK c \in Nat \ {0} : c = o.id[4]
      BY <1>2
    <3>2. PICK n \in Nat \ {0} : n = m.len
      BY <2>1
    <3>3. c + n - 1 <= r.len
      BY <1>5, <3>1, <3>2
    <3>4. \E s \in Region : \E k \in Nat :
            /\ k + n <= Length[s] /\ Object(o.from, r.local + c - 1) = <<s, k>>
            /\ r.local + c - 1 = Base[o.from][s] + k
      <4>1. PICK p \in PE : p = o.from
        BY <1>1
      <4>2. \E s \in Region : \E k \in Nat :
              /\ k + n <= Length[s] /\ Object(p, r.local + c - 1) = <<s, k>>
              /\ r.local + c - 1 = Base[p][s] + k
              /\ get_remote_addr(r.local, p, p) + c - 1 = Base[p][s] + k
        BY <2>1, <3>3, <4>1, Somewhere
      <4> QED
        BY <4>1, <4>2
    <3> QED
      BY <3>1, <3>2, <3>4
  <2>3. PICK k \in Nat :
          /\ k + m.len <= Length[s] /\ Object(o.from, r.local + o.id[4] - 1) = <<s, k>>
          /\ r.local + o.id[4] - 1 = Base[o.from][s] + k
    BY <2>2
  <2>4. o.local = r.local + o.id[4] - 1
    BY <1>0, <1>1, <1>7 DEF Formed
  <2>5. m.to = <<o.from, s, k>>
    BY <1>4, <1>7, <2>3
  <2> QED
    BY <2>3, <2>4, <2>5
<1> QED
  BY <1>0, <1>3, <1>4, <1>5, <1>6, <1>7

\* What is found there.
LEMMA FoundIs ==
  ASSUME IInv, Typed, NEW o \in flight
  PROVE  /\ Memory!Found(Meant(o)) = At(mem[o.pe], o.addr, Meant(o).len)
         /\ Memory!Found(Meant(o)) \in Words(Meant(o).len)
<1>1. PICK m : m = Meant(o)
  OBVIOUS
<1>2. m.len \in 1..2 /\ m.len <= o.len /\ o.len \in Nat /\ o.pe \in PE
  BY <1>1, Meaning, Aimed
<1>3. PICK s \in Region : \E k \in Nat :
        k + o.len <= Length[s] /\ m.at = <<o.pe, s, k>> /\ o.addr = Base[o.pe][s] + k
  BY <1>1, Meaning
<1>4. PICK k \in Nat :
        k + o.len <= Length[s] /\ m.at = <<o.pe, s, k>> /\ o.addr = Base[o.pe][s] + k
  BY <1>3
<1>5. Base[o.pe][s] \in Nat /\ Length[s] \in Nat
  BY <1>2, Bases
<1>6. ASSUME NEW i \in 1..m.len
      PROVE  word[Memory!Cell(m.at, i)] = mem[o.pe][o.addr + i - 1]
  <2>1. Memory!Cell(m.at, i) = <<o.pe, s, k + i - 1>>
    BY <1>4 DEF Memory!Cell
  <2>2. k + i - 1 \in 0..(Length[s] - 1)
    BY <1>2, <1>4, <1>5
  <2>3. <<o.pe, s, k + i - 1>> \in Variables
    BY <1>2, <2>2 DEF Variables
  <2>4. Base[o.pe][s] + (k + i - 1) = o.addr + i - 1
    BY <1>2, <1>4, <1>5
  <2> QED
    BY <2>1, <2>3, <2>4 DEF word
<1>7. Memory!Found(m) = At(mem[o.pe], o.addr, m.len)
  BY <1>6 DEF Memory!Found, At
<1>8. At(mem[o.pe], o.addr, m.len) \in Words(m.len)
  <2>1. \A i \in 1..m.len : o.addr + i - 1 \in Mapped(o.pe)
    BY <1>2, Aimed
  <2> QED
    BY <1>2, <2>1 DEF At, Words, Typed
<1> QED
  BY <1>1, <1>7, <1>8

LEMMA MeantSame ==
  ASSUME program' = program PROVE \A o : Meant(o)' = Meant(o)
<1> SUFFICES ASSUME NEW o PROVE Meant(o)' = Meant(o)
  OBVIOUS
<1>1. \A p, addr : Object(p, addr)' = Object(p, addr)
  BY DEF Object
<1>2. RequestOf(o.id)' = RequestOf(o.id)
  BY SameProgram
<1> QED
  BY <1>1, <1>2 DEF Meant

\* An operation that lands happens to the memory as promised.
LEMMA Performs ==
  ASSUME IInv, Typed, NEW o \in flight, program' = program, flight' = flight \ {o},
         NEW v, Effect(o, v, Memory!Found(Meant(o))),
         Memory!After(Meant(o), Memory!Found(Meant(o))) \in Words(Meant(o).len),
         Written(v, o.addr, mem[o.pe])
           = Written(Memory!After(Meant(o), Memory!Found(Meant(o))), o.addr, mem[o.pe])
  PROVE  Memory!Perform(Meant(o))
<1>1. PICK m : m = Meant(o)
  OBVIOUS
<1>2. PICK found : found = Memory!Found(m)
  OBVIOUS
<1>3. PICK w : w = Memory!After(m, found)
  OBVIOUS
<1>4. PICK r : r = RequestOf(o.id)
  OBVIOUS
<1>5. /\ o.pe \in PE /\ o.from \in PE /\ Formed(o) /\ r.do \in Posting
      /\ m.id = o.id /\ m.op = r.op /\ m.len \in 1..2 /\ m.len <= o.len /\ o.len \in Nat
      /\ found \in Words(m.len) /\ w \in Words(m.len)
  BY <1>1, <1>2, <1>3, <1>4, Aimed, Meaning, FoundIs
<1>6. o.op = "store" <=> r.op = "store"
  BY <1>4, <1>5 DEF Formed, BitwiseOps
<1>7. AMemory(mem)
  BY DEF AMemory, Typed
<1>8. PICK changed : changed = [mem EXCEPT ![o.pe] = Written(w, o.addr, @)]
  OBVIOUS
<1>9. Effect(o, w, found)
  BY <1>1, <1>2, <1>3 DEF Effect
<1>10. mem' = IF r.op = "store" THEN changed
              ELSE [changed EXCEPT ![o.from] = Written(found, o.local, @)]
  BY <1>6, <1>8, <1>9 DEF Effect
<1>11. Image(changed) = Memory!With(word, m.at, w)
  <2>1. PICK s \in Region : \E k \in Nat :
          k + o.len <= Length[s] /\ m.at = <<o.pe, s, k>> /\ o.addr = Base[o.pe][s] + k
    BY <1>1, Meaning
  <2>2. PICK k \in Nat :
          k + o.len <= Length[s] /\ m.at = <<o.pe, s, k>> /\ o.addr = Base[o.pe][s] + k
    BY <2>1
  <2>3. k + m.len <= Length[s] /\ m.len \in Nat
    <3>1. Length[s] \in Nat
      BY <1>5, Bases
    <3> QED
      BY <1>5, <2>2, <3>1
  <2>4. Image([mem EXCEPT ![o.pe] = Written(w, Base[o.pe][s] + k, @)])
          = Memory!With(Image(mem), <<o.pe, s, k>>, w)
    BY <1>5, <1>7, <2>3, WrittenIs
  <2>5. word = Image(mem)
    BY DEF word, Image
  <2> QED
    BY <1>8, <2>2, <2>4, <2>5
<1>12. AMemory(changed)
  BY <1>5, <1>7, <1>8 DEF AMemory, Written
<1>13. word' = Memory!With(Memory!With(word, m.at, w), m.to, found)
  <2>0. word' = Image(mem')
    BY DEF word, Image
  <2>1. \A x : DOMAIN Image(x) = Variables /\ Memory!With(Image(x), <<>>, found) = Image(x)
    BY DEF Image, Memory!With
  <2>2. CASE r.op = "store"
    <3>1. m.to = <<>>
      BY <1>1, <1>4, <2>2, Meaning
    <3> QED
      BY <1>10, <1>11, <2>0, <2>1, <2>2, <3>1
  <2>3. CASE r.op # "store" /\ r.local = Stack
    <3>1. m.to = <<>>
      BY <1>1, <1>4, <2>3, Meaning
    <3>2. o.local = Stack
      BY <1>4, <1>5, <2>3 DEF Formed
    <3>3. Written(found, o.local, changed[o.from]) = changed[o.from]
      <4>1. DOMAIN changed[o.from] = Mapped(o.from)
        BY <1>5, <1>12 DEF AMemory
      <4>2. changed[o.from] = [a \in DOMAIN changed[o.from] |-> changed[o.from][a]]
        <5>1. mem[o.from] = [a \in DOMAIN mem[o.from] |-> mem[o.from][a]]
          BY <1>5 DEF Typed
        <5> QED
          BY <1>5, <1>7, <1>8, <5>1 DEF AMemory, Written
      <4> QED
        BY <3>2, <4>2 DEF Written
    <3>4. mem' = changed
      BY <1>8, <1>10, <2>3, <3>3
    <3> QED
      BY <1>11, <2>0, <2>1, <3>1, <3>4
  <2>4. CASE r.op # "store" /\ r.local # Stack
    <3>1. PICK s \in Region : \E k \in Nat :
            k + m.len <= Length[s] /\ m.to = <<o.from, s, k>> /\ o.local = Base[o.from][s] + k
      BY <1>1, <1>4, <2>4, Meaning
    <3>2. PICK k \in Nat :
            k + m.len <= Length[s] /\ m.to = <<o.from, s, k>> /\ o.local = Base[o.from][s] + k
      BY <3>1
    <3>3. m.len \in Nat
      BY <1>5
    <3>4. Image([changed EXCEPT ![o.from] = Written(found, Base[o.from][s] + k, @)])
            = Memory!With(Image(changed), <<o.from, s, k>>, found)
      BY <1>5, <1>12, <3>2, <3>3, WrittenIs
    <3> QED
      BY <1>10, <1>11, <2>0, <2>4, <3>2, <3>4
  <2> QED
    BY <2>2, <2>3, <2>4
<1>14. answer' = [id \in DOMAIN answer \cup {m.id} |-> IF id = m.id THEN found ELSE answer[id]]
  BY <1>5, <1>9 DEF Effect
<1>15. owed' = owed \ {m}
  <2>1. owed' = {Meant(e) : e \in flight \ {o}}
    BY MeantSame DEF owed
  <2>2. \A e \in flight \ {o} : Meant(e) # m
    <3> SUFFICES ASSUME NEW e \in flight, Meant(e) = m PROVE e = o
      OBVIOUS
    <3>1. e.id = o.id
      BY <1>5, Meaning
    <3> QED
      BY <3>1 DEF IInv, Once
  <2> QED
    BY <1>1, <2>1, <2>2 DEF owed
<1> QED
  BY <1>1, <1>2, <1>3, <1>13, <1>14, <1>15 DEF Memory!Perform, Memory!Happen

------------------------------------------------------------------------------
\* What lands is performed.

\* The cell a non-blocking put takes its data from.
LEMMA SourceIs ==
  ASSUME IInv, Typed, NEW o \in flight, o.late
  PROVE  LET r == RequestOf(o.id)
         IN  /\ r.do = "put_nbi" /\ r.op = "store" /\ r.local # Stack /\ r.len \in Nat
             /\ Holds(r.local, r.len, o.from)
             /\ o.id[4] \in 1..r.len /\ o.local = r.local + (o.id[4] - 1) /\ r.local \in Nat
             /\ o.part = "whole" /\ o.op = "store" /\ o.value \in Words(1) /\ o.from \in PE
             /\ Object(o.from, o.local) \in
                  UNION {{<<s, k>> : k \in 0..(Length[s] - 1)} : s \in Region}
             /\ Cell(o.from, o.local) \in Variables
             /\ word[Cell(o.from, o.local)] = mem[o.from][o.local]
<1>0. PICK r : r = RequestOf(o.id)
  OBVIOUS
<1>1. o.from \in PE /\ r.do \in Posting /\ Addressed(o.from, r) /\ Formed(o)
  BY <1>0, Aimed
<1>2. r.do = "put_nbi"
  BY <1>0, <1>1 DEF Formed
<1>3. r.op = "store" /\ r.local # Stack /\ Holds(r.local, r.len, o.from)
  BY <1>1, <1>2 DEF Addressed, Posting
<1>4. r.op \in {"store", "load"} /\ r.op \notin BitwiseOps
  BY <1>3 DEF BitwiseOps
<1>5. /\ o.part = "whole" /\ o.op = "store" /\ o.value \in Words(1) /\ o.id[4] \in 1..r.len
      /\ o.local = r.local + o.id[4] - 1
  BY <1>0, <1>1, <1>3, <1>4 DEF Formed
<1>6. r.local \in Nat /\ r.len \in Nat
  BY <1>3 DEF Holds
<1>7. PICK c \in Nat \ {0} : c = o.id[4]
  BY <1>5, <1>6
<1>8. PICK p \in PE : p = o.from
  BY <1>1
<1>9. PICK s \in Region : \E k \in Nat :
        /\ k + 1 <= Length[s] /\ Object(p, r.local + c - 1) = <<s, k>>
        /\ r.local + c - 1 = Base[p][s] + k
        /\ get_remote_addr(r.local, p, p) + c - 1 = Base[p][s] + k
  <2>1. PICK n \in Nat \ {0} : n = 1
    OBVIOUS
  <2>2. c + n - 1 <= r.len
    BY <1>5, <1>6, <1>7, <2>1
  <2>3. \E s \in Region : \E k \in Nat :
          /\ k + n <= Length[s] /\ Object(p, r.local + c - 1) = <<s, k>>
          /\ r.local + c - 1 = Base[p][s] + k
          /\ get_remote_addr(r.local, p, p) + c - 1 = Base[p][s] + k
    <3>1. Holds(r.local, r.len, p)
      BY <1>3, <1>8
    <3> QED
      BY <2>2, <3>1, Somewhere
  <2> QED
    BY <2>1, <2>3
<1>10. PICK k \in Nat : k + 1 <= Length[s] /\ Object(p, o.local) = <<s, k>> /\ o.local = Base[p][s] + k
  BY <1>5, <1>7, <1>9
<1>11. k \in 0..(Length[s] - 1)
  BY <1>10, Bases
<1>12. Cell(o.from, o.local) = <<p, s, k>>
  BY <1>8, <1>10 DEF Cell
<1>13. <<p, s, k>> \in Variables
  BY <1>11 DEF Variables
<1>14. word[<<p, s, k>>] = mem[p][Base[p][s] + k]
  BY <1>13 DEF word
<1>15. Object(o.from, o.local) \in UNION {{<<x, j>> : j \in 0..(Length[x] - 1)} : x \in Region}
  BY <1>8, <1>10, <1>11
<1>16. o.local = r.local + (o.id[4] - 1)
  BY <1>5, <1>6
<1> QED
  BY <1>0, <1>1, <1>2, <1>3, <1>5, <1>6, <1>8, <1>10, <1>12, <1>13, <1>14, <1>15, <1>16

\* What lands happens as promised.
LEMMA LandPerforms ==
  ASSUME IInv, Typed, Kept, NEW o \in flight, Land(o)
  PROVE  Memory!Perform(Meant(o))
<1>1. PICK r : r = RequestOf(o.id)
  OBVIOUS
<1>2. PICK m : m = Meant(o)
  OBVIOUS
<1>3. /\ o.part = "whole" /\ Formed(o) /\ Addressed(o.from, r) /\ r.do \in Posting
      /\ program' = program /\ flight' = flight \ {o} /\ o.op = r.op
      /\ o.len \in 1..2 /\ m.len = o.len /\ m.op = o.op /\ m.len \in Nat
  <2>1. Formed(o) /\ Addressed(o.from, r) /\ r.do \in Posting
    BY <1>1, Aimed
  <2>2. o.part = "whole" /\ program' = program /\ flight' = flight \ {o}
    BY DEF Land
  <2>3. o.op = r.op /\ o.len \in 1..2
    BY <1>1, <2>1, <2>2, Spanned
  <2>4. m.len = o.len /\ m.op = r.op
    BY <1>1, <1>2, <2>2, Meaning
  <2> QED
    BY <2>1, <2>2, <2>3, <2>4
<1>4. PICK old : old = At(mem[o.pe], o.addr, o.len)
  OBVIOUS
<1>5. Memory!Found(m) = old /\ old \in Words(m.len)
  BY <1>2, <1>3, <1>4, FoundIs
<1>6. CASE o.late
  <2>1. /\ r.op = "store" /\ o.value \in Words(1)
        /\ word[Cell(o.from, o.local)] = mem[o.from][o.local]
    BY <1>1, <1>6, SourceIs
  <2>2. mem[o.from][o.local] = o.value[1]
    BY <1>6, <2>1 DEF Kept
  <2>3. <<mem[o.from][o.local]>> = o.value
    BY <2>1, <2>2 DEF Words
  <2>4. Effect(o, o.value, old)
    BY <1>4, <1>6, <2>3 DEF Land
  <2>5. Memory!After(m, old) = o.value
    <3>1. m.op = "store" /\ m.value = o.value
      BY <1>1, <1>2, <2>1, Meaning
    <3> QED
      BY <3>1 DEF Memory!After
  <2>6. m.len = 1
    BY <1>1, <1>3, <2>1, Spanned
  <2> QED
    BY <1>2, <1>3, <1>5, <2>1, <2>4, <2>5, <2>6, Performs
<1>7. CASE ~o.late
  <2>1. Effect(o, Outcome(o, old), old)
    BY <1>4, <1>7 DEF Land
  <2>2. \/ o.op = "store" /\ o.value \in Words(m.len)
        \/ o.op = "load"
        \/ o.op \in {"add", "swap", "cswap"} \cup BitwiseOps /\ o.value \in Words(m.len)
    <3>1. CASE r.op \in {"store", "load"}
      <4>1. o.len = 1
        BY <1>1, <1>3, <3>1, Spanned
      <4> QED
        BY <1>1, <1>3, <3>1, <4>1 DEF Formed
    <3>2. CASE r.op \notin {"store", "load"}
      BY <1>1, <1>3, <3>2, Spanned
    <3> QED
      BY <3>1, <3>2
  <2>3. m.value = o.value /\ (o.op = "cswap" => m.cond = o.cond)
    <3>1. CASE r.op \in {"store", "load"}
      BY <1>1, <1>2, <1>3, <3>1, Meaning
    <3>2. CASE r.op \notin {"store", "load"}
      <4>1. o.value = r.value /\ o.cond = r.cond
        BY <1>1, <1>3, <3>2, Spanned
      <4>2. m.value = r.value /\ m.cond = r.cond
        BY <1>1, <1>2, <3>2, Meaning
      <4> QED
        BY <4>1, <4>2
    <3> QED
      BY <3>1, <3>2
  <2>4. Memory!After(m, old) = Outcome(o, old)
    BY <1>3, <1>5, <2>2, <2>3, OutcomeIs
  <2>5. Outcome(o, old) \in Words(m.len)
    BY <1>3, <1>5, <2>2, OutcomeBits
  <2> QED
    BY <1>2, <1>3, <1>5, <2>1, <2>4, <2>5, Performs
<1> QED
  BY <1>6, <1>7

\* An emulated operation happens when its compare-and-swap finds what was read.
LEMMA SwapPerforms ==
  ASSUME Disciplined, IInv, Typed, NEW o \in flight, LandEmulatedSwap(o),
         At(mem[o.pe], o.addr, 2) = o.cond
  PROVE  Memory!Perform(Meant(o))
<1>1. PICK r : r = RequestOf(o.id)
  OBVIOUS
<1>2. PICK m : m = Meant(o)
  OBVIOUS
<1>3. /\ o.part = "cswap" /\ Formed(o) /\ Addressed(o.from, r) /\ r.do \in Posting
      /\ program' = program /\ r = request(o.from) /\ o.pe \in PE
  BY <1>1, EmulatedOf, Aimed DEF LandEmulatedSwap
<1>4. /\ r.op \in BitwiseOps /\ o.len = 2 /\ FALSE \in Native /\ o.cond \in Words(2)
      /\ o.value = [k \in 1..2 |-> Bitwise2(r.op, o.cond[k], Zeroes(r.value)[k])]
  BY <1>1, <1>3 DEF Formed
<1>5. r.op \notin {"store", "load"} /\ r.len \in 1..2 /\ r.value \in Words(r.len)
  BY <1>3, <1>4 DEF Addressed, BitwiseOps
<1>6. m.op = r.op /\ m.len = r.len /\ m.value = r.value /\ m.cond = r.cond
  BY <1>1, <1>2, <1>5, Meaning
<1>7. PICK found : found = At(mem[o.pe], o.addr, r.len)
  OBVIOUS
<1>8. Memory!Found(m) = found /\ found \in Words(r.len)
  BY <1>2, <1>6, <1>7, FoundIs
<1>9. Effect(o, o.value, found) /\ flight' = flight \ {o}
  BY <1>3, <1>7 DEF LandEmulatedSwap
<1>10. PICK w : w = Memory!After(m, found)
  OBVIOUS
<1>11. w = [k \in 1..r.len |-> Bitwise2(r.op, found[k], r.value[k])] /\ w \in Words(r.len)
  <2>1. PICK e : e = [op |-> r.op, value |-> r.value, cond |-> r.cond]
    OBVIOUS
  <2>2. e.op = r.op /\ e.value = r.value /\ e.cond = r.cond
    BY <2>1
  <2>3. w = Outcome(e, found)
    BY <1>4, <1>5, <1>6, <1>8, <1>10, <2>2, OutcomeIs
  <2>4. Outcome(e, found) = [k \in DOMAIN found |-> Bitwise2(r.op, found[k], r.value[k])]
    BY <1>4, <2>2 DEF Outcome, BitwiseOps
  <2>5. Outcome(e, found) \in Words(r.len)
    BY <1>4, <1>5, <1>8, <2>2, OutcomeBits
  <2>6. DOMAIN found = 1..r.len
    BY <1>8 DEF Words
  <2> QED
    BY <2>3, <2>4, <2>5, <2>6
<1>12. \A k \in 1..r.len : found[k] = o.cond[k] /\ o.value[k] = w[k]
  <2>1. \A k \in 1..r.len : k \in 1..2 /\ Zeroes(r.value)[k] = r.value[k]
    BY <1>5 DEF Zeroes, Words
  <2>2. \A k \in 1..r.len : found[k] = o.cond[k]
    <3>1. \A k \in 1..2 : o.cond[k] = mem[o.pe][o.addr + k - 1]
      BY DEF At
    <3> QED
      BY <1>7, <2>1, <3>1 DEF At
  <2> QED
    BY <1>4, <1>11, <2>1, <2>2
<1>13. Written(o.value, o.addr, mem[o.pe]) = Written(w, o.addr, mem[o.pe])
  <2>1. CASE r.len = 2
    BY <1>4, <1>11, <1>12, <2>1
  <2>2. CASE r.len = 1
    <3>1. r.op # "and"
      <4>1. Place(o.id) /\ program \in Programs
        BY DEF IInv, Sent, Place, Placed
      <4>2. r.op = "and" => r.len = 2
        <5>1. PICK p, i, k : p = o.id[1] /\ i = o.id[2] /\ k = o.id[3]
          OBVIOUS
        <5>2. /\ p \in PE /\ i \in DOMAIN program[p] /\ k \in DOMAIN program[p][i].steps
              /\ r = program[p][i].steps[k]
          BY <1>1, <4>1, <5>1 DEF Place, RequestOf
        <5>3. FALSE \in Native
          BY <1>4
        <5> QED
          BY <4>1, <5>2, <5>3, Zenon DEF Disciplined
      <4> QED
        BY <2>2, <4>2
    <3>2. Zeroes(r.value)[2] = 0 /\ o.cond[2] \in {0, 1}
      BY <1>4, <1>5, <2>2 DEF Zeroes, Words
    <3>3. o.value[2] = o.cond[2]
      BY <1>4, <3>1, <3>2 DEF Bitwise2, BitwiseOps
    <3>4. o.cond[2] = mem[o.pe][o.addr + 2 - 1]
      BY DEF At
    <3>5. DOMAIN o.value = 1..2 /\ DOMAIN w = 1..1 /\ o.value[1] = w[1]
      BY <1>4, <1>11, <1>12, <2>2
    <3>6. o.addr \in Int
      BY Aimed
    <3>7. ASSUME NEW a \in DOMAIN mem[o.pe]
          PROVE  (IF o.addr # Stack /\ a - o.addr + 1 \in DOMAIN o.value
                  THEN o.value[a - o.addr + 1] ELSE mem[o.pe][a])
                 = (IF o.addr # Stack /\ a - o.addr + 1 \in DOMAIN w
                    THEN w[a - o.addr + 1] ELSE mem[o.pe][a])
      <4>1. a \in Int
        <5>1. a \in Mapped(o.pe)
          BY <1>3 DEF Typed
        <5> QED
          BY <5>1 DEF Mapped
      <4>2. CASE a - o.addr + 1 = 2
        <5>1. a = o.addr + 2 - 1
          BY <3>6, <4>1, <4>2
        <5> QED
          BY <3>3, <3>4, <3>5, <4>2, <5>1
      <4>3. CASE a - o.addr + 1 # 2
        <5>1. a - o.addr + 1 \in 1..2 <=> a - o.addr + 1 = 1
          BY <3>6, <4>1, <4>3
        <5>2. a - o.addr + 1 \in 1..1 <=> a - o.addr + 1 = 1
          BY <3>6, <4>1
        <5> QED
          BY <3>5, <5>1, <5>2
      <4> QED
        BY <4>2, <4>3
    <3> QED
      BY <3>7 DEF Written
  <2> QED
    BY <1>5, <2>1, <2>2
<1> QED
  BY <1>2, <1>3, <1>6, <1>8, <1>9, <1>10, <1>11, <1>13, Performs

------------------------------------------------------------------------------
\* What is asked for.

\* A request in flight asks for one operation more.
LEMMA Asks ==
  ASSUME IInv, IInv', NEW p \in PE,
         Put(p) \/ Get(p) \/ PostAtomic(p) \/ FetchAtomic(p) \/ Emulate(p)
  PROVE  Memory!Ask
<1>1. UNCHANGED <<program, mem, answer>> /\ flight \subseteq flight'
  BY DEF Put, Get, PostAtomic, FetchAtomic, Emulate, Post
<1>2. owed' = {Meant(e) : e \in flight'}
  BY <1>1, MeantSame DEF owed
<1>3. UNCHANGED <<word, answer>>
  BY <1>1 DEF word
<1>4. \A e : Meant(e).id = e.id
  BY DEF Meant
<1>5. ASSUME NEW m \in owed' \ owed PROVE m.id \notin Memory!Ids
  <2>1. PICK e \in flight' : m = Meant(e)
    BY <1>2
  <2>2. e \notin flight
    BY <1>5, <2>1 DEF owed
  <2>3. e.id \notin DOMAIN answer
    BY <1>1 DEF IInv, Once
  <2>4. \A f \in flight : f.id # e.id
    BY <1>1, <2>2 DEF IInv, Once
  <2>5. \A x \in owed : x.id # e.id
    BY <1>4, <2>4 DEF owed
  <2> QED
    BY <1>4, <2>1, <2>3, <2>5 DEF Memory!Ids
<1> QED
  BY <1>1, <1>2, <1>3, <1>5 DEF Memory!Ask, owed

\* The program's own store is a store to one variable of its own.
LEMMA Assigned ==
  ASSUME Disciplined, IInv, NEW p \in PE, Ready(p, {"assign"})
  PROVE  LET r == request(p)
         IN  /\ r.len = 1 /\ r.local = r.addr /\ r.value \in Words(1) /\ Holds(r.addr, 1, p)
             /\ \E s \in Region : \E k \in Nat :
                  k + 1 <= Length[s] /\ Object(p, r.addr) = <<s, k>> /\ r.addr = Base[p][s] + k
<1>1. PICK r : r = request(p)
  OBVIOUS
<1>2. Running(p) /\ r.do = "assign" /\ Addressed(p, r)
  BY <1>1, Requested1 DEF Ready
<1>3. PICK i, k : i = at[p][1] /\ k = at[p][2]
  OBVIOUS
<1>4. /\ program \in Programs /\ i \in DOMAIN program[p] /\ k \in DOMAIN program[p][i].steps
      /\ r = program[p][i].steps[k]
  BY <1>1, <1>2, <1>3 DEF IInv, Placed, Running, request
<1>5. r.len = 1 /\ r.local = r.addr
  BY <1>2, <1>4 DEF Disciplined
<1>6. r.value \in Words(1) /\ Holds(r.addr, 1, p)
  BY <1>2, <1>5 DEF Addressed
<1>7. \E s \in Region : \E j \in Nat :
        j + 1 <= Length[s] /\ Object(p, r.addr) = <<s, j>> /\ r.addr = Base[p][s] + j
  <2>1. PICK c \in Nat \ {0} : c = 1
    OBVIOUS
  <2>2. c + c - 1 <= 1 /\ r.addr + c - 1 = r.addr
    BY <1>6, <2>1 DEF Holds
  <2>3. \E s \in Region : \E j \in Nat :
          /\ j + c <= Length[s] /\ Object(p, r.addr + c - 1) = <<s, j>>
          /\ r.addr + c - 1 = Base[p][s] + j
          /\ get_remote_addr(r.addr, p, p) + c - 1 = Base[p][s] + j
    BY <1>6, <2>2, Somewhere
  <2> QED
    BY <2>1, <2>2, <2>3
<1> QED
  BY <1>1, <1>5, <1>6, <1>7

\* What is in flight or has landed is before the place of a PE that is idle.
LEMMA NewHere ==
  ASSUME IInv, NEW p \in PE, doing[p] = "idle"
  PROVE  /\ \A o \in flight : o.from = p =>
              o.id[2] < at[p][1] \/ (o.id[2] = at[p][1] /\ o.id[3] < at[p][2])
         /\ \A k : <<p, at[p][1], at[p][2], k>> \notin Memory!Ids
<1>1. \A id : Place(id) /\ id[1] = p /\ Begun(p, id[2], id[3]) =>
        id[2] < at[p][1] \/ (id[2] = at[p][1] /\ id[3] < at[p][2])
  BY Named, IdleBegan DEF IInv
<1>2. \A o \in flight : Place(o.id) /\ o.from = o.id[1] /\ Begun(o.from, o.id[2], o.id[3])
  BY DEF IInv, Sent
<1>3. \A id \in DOMAIN answer : Place(id) /\ Begun(id[1], id[2], id[3])
  BY DEF IInv, Once
<1>4. at[p][1] \in Nat /\ at[p][2] \in Nat
  BY DEF IInv, Placed
<1>5. ASSUME NEW k, <<p, at[p][1], at[p][2], k>> \in Memory!Ids PROVE FALSE
  <2>1. PICK id : id = <<p, at[p][1], at[p][2], k>>
    OBVIOUS
  <2>2. id[1] = p /\ id[2] = at[p][1] /\ id[3] = at[p][2]
    BY <2>1
  <2>3. \A o : Meant(o).id = o.id
    BY DEF Meant
  <2>4. id \in DOMAIN answer \/ \E o \in flight : o.id = id
    BY <1>5, <2>1, <2>3 DEF Memory!Ids, owed
  <2>5. Place(id) /\ Begun(id[1], id[2], id[3])
    BY <1>2, <1>3, <2>4
  <2> QED
    BY <1>1, <1>4, <2>2, <2>5
<1> QED
  BY <1>1, <1>2, <1>5

\* The program's own store happens when it is made.
LEMMA Assigns ==
  ASSUME Disciplined, IInv, Typed, NEW p \in PE, Store(p)
  PROVE  /\ Memory!Next
         /\ \A c \in Variables : c # Cell(p, request(p).addr) => word'[c] = word[c]
<1>1. PICK r : r = request(p)
  OBVIOUS
<1>2. /\ r.len = 1 /\ r.value \in Words(1)
      /\ \E s \in Region : \E k \in Nat :
           k + 1 <= Length[s] /\ Object(p, r.addr) = <<s, k>> /\ r.addr = Base[p][s] + k
  BY <1>1, Assigned DEF Store
<1>3. PICK s \in Region : \E k \in Nat :
        k + 1 <= Length[s] /\ Object(p, r.addr) = <<s, k>> /\ r.addr = Base[p][s] + k
  BY <1>2
<1>4. PICK k \in Nat : k + 1 <= Length[s] /\ Object(p, r.addr) = <<s, k>> /\ r.addr = Base[p][s] + k
  BY <1>3
<1>5. PICK c : c = <<p, s, k>>
  OBVIOUS
<1>6. c = Cell(p, r.addr) /\ c \in Variables /\ word[c] = mem[p][r.addr]
  <2>1. Length[s] \in Nat
    BY Bases
  <2>2. k \in 0..(Length[s] - 1)
    BY <1>4, <2>1
  <2> QED
    BY <1>4, <1>5, <2>2 DEF Cell, Variables, word
<1>7. PICK id : id = <<p, at[p][1], at[p][2], 1>>
  OBVIOUS
<1>8. id \notin Memory!Ids /\ id \notin DOMAIN answer
  BY <1>7, NewHere DEF Store, Ready, Memory!Ids
<1>9. /\ mem' = [mem EXCEPT ![p] = Written(r.value, r.addr, @)] /\ UNCHANGED <<program, flight>>
      /\ answer' = [x \in DOMAIN answer \cup {id} |->
                      IF x \in DOMAIN answer THEN answer[x] ELSE At(mem[p], r.addr, r.len)]
  BY <1>1, <1>7 DEF Store
<1>10. word' = Memory!With(word, c, r.value)
  <2>1. AMemory(mem)
    BY DEF AMemory, Typed
  <2>2. PICK n \in Nat : n = 1
    OBVIOUS
  <2>3. k + n <= Length[s] /\ r.value \in Words(n)
    BY <1>2, <1>4, <2>2
  <2>4. Image([mem EXCEPT ![p] = Written(r.value, Base[p][s] + k, @)])
          = Memory!With(Image(mem), <<p, s, k>>, r.value)
    BY <2>1, <2>3, WrittenIs
  <2>5. word = Image(mem) /\ word' = Image(mem')
    BY DEF word, Image
  <2> QED
    BY <1>4, <1>5, <1>9, <2>4, <2>5
<1>11. PICK bit : bit = r.value[1]
  OBVIOUS
<1>12. bit \in {0, 1} /\ <<bit>> = r.value
  BY <1>2, <1>11 DEF Words
<1>13. PICK m : m = [id |-> id, op |-> "store", at |-> c, len |-> 1, value |-> <<bit>>, to |-> <<>>]
  OBVIOUS
<1>14. PICK found : found = Memory!Found(m)
  OBVIOUS
<1>15. Memory!After(m, found) = r.value
  BY <1>12, <1>13 DEF Memory!After
<1>16. word' = Memory!With(Memory!With(word, m.at, Memory!After(m, found)), m.to, found)
  <2>1. PICK x : x = Memory!With(word, c, r.value)
    OBVIOUS
  <2>2. Memory!With(x, <<>>, found) = x
    <3>1. x = [d \in DOMAIN x |-> x[d]]
      BY <2>1 DEF Memory!With
    <3> QED
      BY <3>1 DEF Memory!With
  <2> QED
    BY <1>10, <1>13, <1>15, <2>1, <2>2
<1>17. found = At(mem[p], r.addr, r.len)
  <2>1. Memory!Cell(c, 1) = c
    BY <1>5 DEF Memory!Cell
  <2>2. r.addr \in Nat
    <3>1. Base[p][s] \in Nat
      BY Bases
    <3> QED
      BY <1>4, <3>1
  <2>3. found = [i \in 1..1 |-> word[Memory!Cell(c, i)]]
    BY <1>13, <1>14 DEF Memory!Found
  <2>4. At(mem[p], r.addr, r.len) = [i \in 1..1 |-> mem[p][r.addr + i - 1]]
    BY <1>2 DEF At
  <2>5. \A i \in 1..1 : word[Memory!Cell(c, i)] = mem[p][r.addr + i - 1]
    BY <1>6, <2>1, <2>2
  <2> QED
    BY <2>3, <2>4, <2>5
<1>18. answer' = [x \in DOMAIN answer \cup {m.id} |-> IF x = m.id THEN found ELSE answer[x]]
  BY <1>8, <1>9, <1>13, <1>17
<1>19. Memory!Happen(m)
  BY <1>14, <1>16, <1>18 DEF Memory!Happen
<1>20. owed' = owed
  BY <1>9, MeantSame DEF owed
<1>21. Memory!Assign(id, c, bit)
  BY <1>8, <1>13, <1>19, <1>20 DEF Memory!Assign
<1>22. id \in DOMAIN answer' /\ c \in DOMAIN word
  BY <1>6, <1>9 DEF word
<1>23. Memory!Next
  BY <1>12, <1>21, <1>22 DEF Memory!Next
<1>24. ASSUME NEW d \in Variables, d # c PROVE word'[d] = word[d]
  <2>1. DOMAIN r.value = 1..1 /\ DOMAIN word = Variables
    BY <1>2 DEF Words, word
  <2>2. \A i \in 1..1 : d # Memory!Cell(c, i)
    BY <1>5, <1>24 DEF Memory!Cell
  <2> QED
    BY <1>10, <2>1, <2>2 DEF Memory!With
<1> QED
  BY <1>1, <1>6, <1>23, <1>24

------------------------------------------------------------------------------
\* What a non-blocking put still has to read is left alone: Kept.

\* The variables from an address on.
LEMMA Within ==
  ASSUME NEW p \in PE, NEW addr, NEW len, Holds(addr, len, p),
         NEW c \in Nat \ {0}, NEW n \in Nat \ {0}, c + n - 1 <= len, NEW i \in 1..n
  PROVE  LET ro == Object(p, addr + c - 1)
         IN  <<ro[1], ro[2] + i - 1>> \in Objects(p, addr, len)
<1>1. PICK s \in Region : \E k \in Nat :
        /\ k + n <= Length[s] /\ Object(p, addr + c - 1) = <<s, k>>
        /\ addr + c - 1 = Base[p][s] + k
        /\ get_remote_addr(addr, p, p) + c - 1 = Base[p][s] + k
  BY Somewhere
<1>2. PICK k \in Nat : /\ k + n <= Length[s] /\ Object(p, addr + c - 1) = <<s, k>>
                       /\ addr + c - 1 = Base[p][s] + k
  BY <1>1
<1>3. /\ Base[p][s] \in Nat /\ Length[s] \in Nat /\ addr \in Nat /\ len \in Nat
  BY Bases DEF Holds
<1>4. PICK j, m : j = k + i - 1 /\ m = c + i - 2
  OBVIOUS
<1>5. j \in 0..(Length[s] - 1) /\ m \in 0..(len - 1) /\ addr + m = Base[p][s] + j
  BY <1>2, <1>3, <1>4
<1>6. Object(p, addr + m) = <<s, j>>
  BY <1>5, ObjectIs
<1>7. <<s, j>> \in Objects(p, addr, len)
  BY <1>5, <1>6 DEF Objects
<1> QED
  BY <1>2, <1>4, <1>7

\* An operation in flight stores to nothing but what its request stores to.
LEMMA StoresThere ==
  ASSUME IInv, Typed, NEW o \in flight, NEW i \in 1..Meant(o).len
  PROVE  LET r == RequestOf(o.id)
             m == Meant(o)
             a == Memory!Cell(m.at, i)
             b == Memory!Cell(m.to, i)
         IN  /\ r.op # "load" => <<a[2], a[3]>> \in Stores(o.from, r, a[1])
             /\ m.to # <<>> => <<b[2], b[3]>> \in Stores(o.from, r, b[1])
<1>1. PICK r : r = RequestOf(o.id)
  OBVIOUS
<1>2. PICK m : m = Meant(o)
  OBVIOUS
<1>3. PICK p : p = o.from
  OBVIOUS
<1>4. /\ p \in PE /\ r.do \in Posting /\ Addressed(p, r) /\ Formed(o) /\ m.len \in 1..2
  BY <1>1, <1>2, <1>3, Aimed, Meaning
<1>5. /\ m.at = LET ro == Object(p, r.addr + o.id[4] - 1) IN <<r.pe, ro[1], ro[2]>>
      /\ m.to = IF r.op = "store" \/ r.local = Stack THEN <<>>
                ELSE LET ro == Object(p, r.local + o.id[4] - 1) IN <<p, ro[1], ro[2]>>
      /\ m.len = (IF r.op \in {"store", "load"} THEN 1 ELSE r.len)
  BY <1>1, <1>2, <1>3 DEF Meant
<1>6. PICK c : c = o.id[4]
  OBVIOUS
<1>7. PICK n : n = m.len
  OBVIOUS
<1>8. c \in Nat \ {0} /\ n \in Nat \ {0} /\ c + n - 1 <= r.len /\ r.len \in Nat /\ i \in 1..n
  <2>1. /\ o.id[4] \in Nat \ {0} /\ r.len \in Nat
        /\ r.op \in {"store", "load"} => o.id[4] <= r.len
        /\ r.op \notin {"store", "load"} => o.id[4] = 1
    BY <1>1, <1>4, Spanned
  <2>2. m.len = (IF r.op \in {"store", "load"} THEN 1 ELSE r.len)
    BY <1>5
  <2>3. m.len \in Nat \ {0} /\ i \in 1..m.len
    BY <1>2, <1>4
  <2>4. CASE r.op \in {"store", "load"}
    BY <1>6, <1>7, <2>1, <2>2, <2>3, <2>4
  <2>5. CASE r.op \notin {"store", "load"}
    BY <1>6, <1>7, <2>1, <2>2, <2>3, <2>5
  <2> QED
    BY <2>4, <2>5
<1>9. Holds(r.addr, r.len, p)
  <2>1. Holds(r.addr, Reach(r), p) /\ (r.op \in BitwiseOps => r.len \in 1..2)
    BY <1>4 DEF Addressed
  <2>2. PICK s \in Region : Base[p][s] <= r.addr /\ r.addr + Reach(r) <= end(s, p)
    BY <2>1 DEF Holds
  <2>3. r.addr \in Nat /\ Reach(r) \in Nat /\ end(s, p) \in Nat
    BY <1>4, <2>1, Bases DEF Holds
  <2>4. r.len <= Reach(r)
    <3>1. Reach(r) = r.len \/ (r.op \in BitwiseOps /\ Reach(r) = 2)
      BY DEF Reach
    <3> QED
      BY <1>8, <2>1, <3>1
  <2>5. r.addr + r.len <= end(s, p)
    BY <1>8, <2>2, <2>3, <2>4
  <2> QED
    BY <1>8, <2>2, <2>3, <2>5 DEF Holds
<1>10. ASSUME r.op # "load"
       PROVE  LET a == Memory!Cell(m.at, i) IN <<a[2], a[3]>> \in Stores(p, r, a[1])
  <2>1. PICK ro : ro = Object(p, r.addr + c - 1)
    OBVIOUS
  <2>2. <<ro[1], ro[2] + i - 1>> \in Objects(p, r.addr, r.len)
    BY <1>4, <1>8, <1>9, <2>1, Within
  <2>3. PICK a : a = Memory!Cell(m.at, i)
    OBVIOUS
  <2>4. a[1] = r.pe /\ a[2] = ro[1] /\ a[3] = ro[2] + i - 1
    BY <1>5, <1>6, <2>1, <2>3 DEF Memory!Cell
  <2> QED
    BY <1>4, <1>10, <2>2, <2>3, <2>4 DEF Stores
<1>11. ASSUME m.to # <<>>
       PROVE  LET b == Memory!Cell(m.to, i) IN <<b[2], b[3]>> \in Stores(p, r, b[1])
  <2>1. PICK ro : ro = Object(p, r.local + c - 1)
    OBVIOUS
  <2>2. r.op # "store" /\ r.local # Stack /\ Holds(r.local, r.len, p)
    BY <1>4, <1>5, <1>11 DEF Addressed
  <2>3. <<ro[1], ro[2] + i - 1>> \in Objects(p, r.local, r.len)
    BY <1>4, <1>8, <2>1, <2>2, Within
  <2>4. PICK b : b = Memory!Cell(m.to, i)
    OBVIOUS
  <2>5. b[1] = p /\ b[2] = ro[1] /\ b[3] = ro[2] + i - 1
    BY <1>5, <1>6, <2>1, <2>2, <2>4 DEF Memory!Cell
  <2> QED
    BY <1>4, <2>2, <2>3, <2>4, <2>5 DEF Stores
<1> QED
  BY <1>1, <1>2, <1>3, <1>10, <1>11

\* Nobody stores to what a non-blocking put still has to read.
LEMMA Undisturbed ==
  ASSUME Disciplined, IInv, Typed, NEW e \in flight, e.late,
         NEW q \in PE, NEW j \in DOMAIN program[q], NEW l \in DOMAIN program[q][j].steps,
         LET x == Cell(e.from, e.local)
         IN  <<x[2], x[3]>> \in Stores(q, program[q][j].steps[l], x[1])
  PROVE  /\ program[q][j].steps[l].do = "assign"
         /\ Before(<<e.from, e.id[2], e.id[3]>>, <<e.from, j, l>>) =>
              QuietBetween(program, e.from, e.ctx, <<e.from, e.id[2], e.id[3]>>, <<e.from, j, l>>)
<1>1. PICK p, i, k : p = e.from /\ i = e.id[2] /\ k = e.id[3]
  OBVIOUS
<1>2. PICK r : r = RequestOf(e.id)
  OBVIOUS
<1>3. /\ program \in Programs /\ p \in PE /\ i \in DOMAIN program[p]
      /\ k \in DOMAIN program[p][i].steps /\ r = program[p][i].steps[k] /\ e.ctx = r.ctx
  BY <1>1, <1>2 DEF IInv, Placed, Sent, Place, RequestOf
<1>4. /\ r.do = "put_nbi" /\ r.len \in Nat /\ Holds(r.local, r.len, p)
      /\ e.id[4] \in 1..r.len /\ e.local = r.local + (e.id[4] - 1) /\ r.local \in Nat
  BY <1>1, <1>2, SourceIs
<1>5. PICK c : c = e.id[4] - 1
  OBVIOUS
<1>6. c \in 0..(r.len - 1) /\ e.local = r.local + c
  BY <1>4, <1>5
<1>7. PICK ro : ro = Object(p, e.local)
  OBVIOUS
<1>8. ro \in Objects(p, r.local, r.len)
  BY <1>6, <1>7 DEF Objects
<1>9. ro = <<ro[1], ro[2]>>
  <2>1. ro \in UNION {{<<s, n>> : n \in 0..(Length[s] - 1)} : s \in Region}
    BY <1>1, <1>7, SourceIs
  <2>2. PICK s \in Region : ro \in {<<s, n>> : n \in 0..(Length[s] - 1)}
    BY <2>1
  <2> QED
    BY <2>2
<1>10. PICK s : s = program[q][j].steps[l]
  OBVIOUS
<1>11. ro \in Stores(q, s, p)
  <2>1. Cell(e.from, e.local) = <<p, ro[1], ro[2]>>
    BY <1>1, <1>7 DEF Cell
  <2> QED
    BY <1>9, <1>10, <2>1
<1>12. Objects(p, r.local, r.len) \cap Stores(q, s, p) # {}
  BY <1>8, <1>11
<1>13. SourcesQuiet(program)
  BY <1>3 DEF Disciplined
<1>14. \A y \in PE : \A z \in DOMAIN program[y] : \A w \in DOMAIN program[y][z].steps :
         Objects(p, r.local, r.len) \cap Stores(y, program[y][z].steps[w], p) # {} =>
           /\ program[y][z].steps[w].do = "assign"
           /\ Before(<<p, i, k>>, <<p, z, w>>) =>
                QuietBetween(program, p, r.ctx, <<p, i, k>>, <<p, z, w>>)
  <2> SUFFICES ASSUME NEW y \in PE, NEW z \in DOMAIN program[y],
                      NEW w \in DOMAIN program[y][z].steps,
                      Objects(p, r.local, r.len) \cap Stores(y, program[y][z].steps[w], p) # {}
               PROVE  /\ program[y][z].steps[w].do = "assign"
                      /\ Before(<<p, i, k>>, <<p, z, w>>) =>
                           QuietBetween(program, p, r.ctx, <<p, i, k>>, <<p, z, w>>)
    OBVIOUS
  <2>1. /\ program[p][i].steps[k].do = "put_nbi"
        /\ Objects(p, program[p][i].steps[k].local, program[p][i].steps[k].len)
             \cap Stores(y, program[y][z].steps[w], p) # {}
    BY <1>3, <1>4
  <2>2. p \in PE /\ i \in DOMAIN program[p] /\ k \in DOMAIN program[p][i].steps
    BY <1>3
  <2>3. /\ program[y][z].steps[w].do = "assign"
        /\ Before(<<p, i, k>>, <<p, z, w>>) =>
             QuietBetween(program, p, program[p][i].steps[k].ctx, <<p, i, k>>, <<p, z, w>>)
    BY <1>13, <2>1, <2>2 DEF SourcesQuiet
  <2> QED
    BY <1>3, <2>3
<1>15. /\ s.do = "assign"
       /\ Before(<<p, i, k>>, <<p, j, l>>) =>
            QuietBetween(program, p, r.ctx, <<p, i, k>>, <<p, j, l>>)
  BY <1>10, <1>12, <1>14
<1> QED
  BY <1>1, <1>3, <1>10, <1>15

\* What an operation leaves there are bits.
LEMMA AfterBits ==
  ASSUME IInv, Typed, NEW o \in flight
  PROVE  Memory!After(Meant(o), Memory!Found(Meant(o))) \in Words(Meant(o).len)
<1>1. PICK r : r = RequestOf(o.id)
  OBVIOUS
<1>2. PICK m : m = Meant(o)
  OBVIOUS
<1>3. PICK found : found = Memory!Found(m)
  OBVIOUS
<1>4. /\ Formed(o) /\ Addressed(o.from, r) /\ r.do \in Posting
      /\ m.op = r.op /\ m.len \in 1..2 /\ found \in Words(m.len)
  BY <1>1, <1>2, <1>3, Aimed, Meaning, FoundIs
<1>5. \/ r.op = "store" /\ m.value \in Words(m.len)
      \/ r.op = "load"
      \/ r.op \in {"add", "swap", "cswap"} \cup BitwiseOps /\ m.value \in Words(m.len)
  <2>1. CASE r.op \in {"store", "load"}
    <3>1. m.value = o.value /\ m.len <= o.len /\ o.part = "whole" /\ o.len = 1
      BY <1>1, <1>2, <1>4, <2>1, Meaning, Spanned
    <3>2. m.len = 1 /\ (r.op = "store" => o.value \in Words(1))
      BY <1>1, <1>4, <2>1, <3>1 DEF Formed
    <3> QED
      BY <2>1, <3>1, <3>2
  <2>2. CASE r.op \notin {"store", "load"}
    BY <1>1, <1>2, <1>4, <2>2, Meaning, Spanned
  <2> QED
    BY <2>1, <2>2
<1>6. PICK e : e = [op |-> m.op, value |-> m.value, cond |-> m.cond]
  OBVIOUS
<1>7. e.op = m.op /\ e.value = m.value /\ e.cond = m.cond
  BY <1>6
<1>8. Memory!After(m, found) = Outcome(e, found)
  BY <1>4, <1>5, <1>7, OutcomeIs
<1>9. Outcome(e, found) \in Words(m.len)
  BY <1>4, <1>5, <1>7, OutcomeBits
<1> QED
  BY <1>2, <1>3, <1>8, <1>9

\* Performing an operation changes no variable that its request does not store to.
LEMMA Elsewhere ==
  ASSUME IInv, Typed, NEW o \in flight, Memory!Perform(Meant(o)), NEW c \in Variables,
         <<c[2], c[3]>> \notin Stores(o.from, RequestOf(o.id), c[1])
  PROVE  word'[c] = word[c]
<1>1. PICK m : m = Meant(o)
  OBVIOUS
<1>2. PICK r : r = RequestOf(o.id)
  OBVIOUS
<1>3. PICK found : found = Memory!Found(m)
  OBVIOUS
<1>4. word' = Memory!With(Memory!With(word, m.at, Memory!After(m, found)), m.to, found)
  BY <1>1, <1>3 DEF Memory!Perform, Memory!Happen
<1>5. PICK n \in 1..2 : n = m.len
  BY <1>1, Meaning
<1>6. found \in Words(n) /\ DOMAIN found = 1..n
  BY <1>1, <1>3, <1>5, FoundIs DEF Words
<1>7. PICK x : x = Memory!With(word, m.at, Memory!After(m, found))
  OBVIOUS
<1>8. DOMAIN word = Variables /\ DOMAIN x = Variables
  BY <1>7 DEF word, Memory!With
<1>9. x[c] = word[c]
  <2>1. CASE r.op = "load"
    <3>1. Memory!After(m, found) = found
      <4>1. m.op = "load"
        BY <1>1, <1>2, <2>1, Meaning
      <4> QED
        BY <4>1 DEF Memory!After
    <3>2. x[c] = IF m.at # <<>> /\ \E k \in 1..n : c = Memory!Cell(m.at, k)
                 THEN found[CHOOSE k \in 1..n : c = Memory!Cell(m.at, k)] ELSE word[c]
      BY <1>6, <1>7, <1>8, <3>1 DEF Memory!With
    <3>3. \A k \in 1..n : found[k] = word[Memory!Cell(m.at, k)]
      BY <1>3, <1>5 DEF Memory!Found
    <3>4. CASE \E k \in 1..n : c = Memory!Cell(m.at, k)
      <4>1. PICK k \in 1..n : k = CHOOSE j \in 1..n : c = Memory!Cell(m.at, j)
        BY <3>4
      <4>2. c = Memory!Cell(m.at, k)
        BY <3>4, <4>1
      <4> QED
        BY <3>2, <3>3, <4>1, <4>2
    <3> QED
      BY <3>2, <3>4
  <2>2. CASE r.op # "load"
    <3>1. \A k \in 1..n : c # Memory!Cell(m.at, k)
      BY <1>1, <1>2, <1>5, <2>2, StoresThere
    <3>2. DOMAIN Memory!After(m, found) = 1..n
      <4>1. Memory!After(m, found) \in Words(n)
        BY <1>1, <1>3, <1>5, AfterBits
      <4> QED
        BY <4>1 DEF Words
    <3> QED
      BY <1>7, <1>8, <3>1, <3>2 DEF Memory!With
  <2> QED
    BY <2>1, <2>2
<1>10. m.to # <<>> => \A k \in 1..n : c # Memory!Cell(m.to, k)
  BY <1>1, <1>2, <1>5, StoresThere
<1> QED
  BY <1>4, <1>6, <1>7, <1>8, <1>9, <1>10 DEF Memory!With

\* The variable at an address.
LEMMA SourceCell ==
  ASSUME NEW p \in PE, NEW addr, NEW len, Holds(addr, len, p), NEW c \in Nat \ {0}, c <= len
  PROVE  word[Cell(p, addr + c - 1)] = mem[p][addr + c - 1]
<1>1. PICK n \in Nat \ {0} : n = 1
  OBVIOUS
<1>2. c + n - 1 <= len
  BY <1>1 DEF Holds
<1>3. PICK s \in Region : \E k \in Nat :
        /\ k + n <= Length[s] /\ Object(p, addr + c - 1) = <<s, k>>
        /\ addr + c - 1 = Base[p][s] + k
        /\ get_remote_addr(addr, p, p) + c - 1 = Base[p][s] + k
  BY <1>2, Somewhere
<1>4. PICK k \in Nat : /\ k + n <= Length[s] /\ Object(p, addr + c - 1) = <<s, k>>
                       /\ addr + c - 1 = Base[p][s] + k
  BY <1>3
<1>5. k \in 0..(Length[s] - 1)
  BY <1>1, <1>4, Bases
<1>6. <<p, s, k>> \in Variables /\ Cell(p, addr + c - 1) = <<p, s, k>>
  BY <1>4, <1>5 DEF Variables, Cell
<1> QED
  BY <1>4, <1>6 DEF word

\* What is asked for now has what there is now.
LEMMA KeptPosts ==
  ASSUME IInv, Typed, Kept, NEW p \in PE,
         Put(p) \/ Get(p) \/ PostAtomic(p) \/ FetchAtomic(p) \/ Emulate(p)
  PROVE  Kept'
<1>1. PICK r : r = request(p)
  OBVIOUS
<1>2. /\ UNCHANGED <<program, mem>> /\ Running(p) /\ r.do \in Posting
      /\ \A e \in flight' \ flight : e.late =>
           r.do = "put_nbi" /\ \E c \in 1..r.len : e = Message(p, r, c, 1, "whole")
  <2>1. \A c, len, part : Message(p, r, c, len, part).late <=> r.do = "put_nbi"
    BY DEF Message
  <2>2. EmulatedGet(p, r).late <=> r.do = "put_nbi"
    BY DEF EmulatedGet, Message
  <2>3. CASE Put(p)
    BY <1>1, <2>1, <2>3 DEF Put, Ready, Post, Cells, Posting
  <2>4. CASE Get(p)
    BY <1>1, <2>1, <2>4 DEF Get, Ready, Post, Cells, Posting
  <2>5. CASE PostAtomic(p)
    BY <1>1, <2>1, <2>5 DEF PostAtomic, Ready, Post, Whole, Posting
  <2>6. CASE FetchAtomic(p)
    BY <1>1, <2>1, <2>6 DEF FetchAtomic, Ready, Post, Whole, Posting
  <2>7. CASE Emulate(p)
    BY <1>1, <2>2, <2>7 DEF Emulate, Ready, Post, Posting
  <2> QED
    BY <2>3, <2>4, <2>5, <2>6, <2>7
<1>3. word' = word
  BY <1>2 DEF word
<1>4. \A e : Cell(e.from, e.local)' = Cell(e.from, e.local)
  BY DEF Cell, Object
<1>5. ASSUME NEW e \in flight' \ flight, e.late
      PROVE  word[Cell(e.from, e.local)] = e.value[1]
  <2>1. PICK c \in 1..r.len : e = Message(p, r, c, 1, "whole")
    BY <1>2, <1>5
  <2>2. r.op = "store" /\ r.local # Stack /\ Holds(r.local, r.len, p)
    BY <1>1, <1>2, <1>5, Requested1 DEF Addressed, Posting
  <2>3. e.from = p /\ e.local = r.local + c - 1 /\ e.value = <<mem[p][r.local + c - 1]>>
    BY <2>1, <2>2 DEF Message
  <2>4. c \in Nat \ {0} /\ c <= r.len
    BY <2>2 DEF Holds
  <2>5. word[Cell(p, r.local + c - 1)] = mem[p][r.local + c - 1]
    BY <2>2, <2>4, SourceCell
  <2> QED
    BY <2>3, <2>5
<1>6. SUFFICES ASSUME NEW e \in flight', e.late
               PROVE  word'[Cell(e.from, e.local)] = e.value[1]
  BY <1>4 DEF Kept
<1>7. CASE e \in flight
  BY <1>3, <1>6, <1>7 DEF Kept
<1> QED
  BY <1>3, <1>5, <1>6, <1>7

\* An operation that happens is not one on what a non-blocking put still has to read.
LEMMA KeptPerform ==
  ASSUME Disciplined, IInv, Typed, Kept, NEW o \in flight, flight' = flight \ {o},
         Memory!Perform(Meant(o))
  PROVE  Kept'
<1>1. \A e : Cell(e.from, e.local)' = Cell(e.from, e.local)
  BY DEF Cell, Object
<1> SUFFICES ASSUME NEW e \in flight, e.late
             PROVE  word'[Cell(e.from, e.local)] = e.value[1]
  BY <1>1 DEF Kept
<1>2. PICK q, j, l : q = o.id[1] /\ j = o.id[2] /\ l = o.id[3]
  OBVIOUS
<1>3. PICK r : r = RequestOf(o.id)
  OBVIOUS
<1>4. /\ q \in PE /\ j \in DOMAIN program[q] /\ l \in DOMAIN program[q][j].steps
      /\ r = program[q][j].steps[l] /\ r.do \in Posting /\ q = o.from
  BY <1>2, <1>3 DEF IInv, Sent, Place, RequestOf
<1>5. PICK c : c = Cell(e.from, e.local)
  OBVIOUS
<1>6. c \in Variables /\ word[c] = e.value[1]
  BY <1>5, SourceIs DEF Kept
<1>7. <<c[2], c[3]>> \notin Stores(q, r, c[1])
  <2> SUFFICES ASSUME <<c[2], c[3]>> \in Stores(q, r, c[1]) PROVE FALSE
    OBVIOUS
  <2>1. r.do = "assign"
    BY <1>4, <1>5, Undisturbed
  <2> QED
    BY <1>4, <2>1 DEF Posting
<1>8. word'[c] = word[c]
  BY <1>3, <1>4, <1>6, <1>7, Elsewhere
<1> QED
  BY <1>5, <1>6, <1>8

\* A PE that stores to the source of a non-blocking put has been through a quiet.
LEMMA KeptStore ==
  ASSUME Disciplined, IInv, Typed, Kept, NEW p \in PE, Store(p)
  PROVE  Kept'
<1>1. \A e : Cell(e.from, e.local)' = Cell(e.from, e.local)
  BY DEF Cell, Object
<1>2. PICK r : r = request(p)
  OBVIOUS
<1>3. flight' = flight /\ doing[p] = "idle" /\ Ready(p, {"assign"}) /\ Running(p) /\ r.do = "assign"
  BY <1>2 DEF Store, Ready
<1> SUFFICES ASSUME NEW e \in flight, e.late
             PROVE  word'[Cell(e.from, e.local)] = e.value[1]
  BY <1>1, <1>3 DEF Kept
<1>4. PICK c : c = Cell(e.from, e.local)
  OBVIOUS
<1>5. c \in Variables /\ word[c] = e.value[1]
  BY <1>4, SourceIs DEF Kept
<1>6. c # Cell(p, r.addr)
  <2> SUFFICES ASSUME c = Cell(p, r.addr) PROVE FALSE
    OBVIOUS
  <2>1. PICK j, l : j = at[p][1] /\ l = at[p][2]
    OBVIOUS
  <2>2. /\ j \in DOMAIN program[p] /\ l \in DOMAIN program[p][j].steps
        /\ r = program[p][j].steps[l] /\ j \in Nat /\ l \in Nat
    BY <1>2, <1>3, <2>1 DEF IInv, Placed, Running, request
  <2>3. r.len = 1 /\ r.local = r.addr
    BY <1>2, <1>3, Assigned
  <2>4. PICK s \in Region : \E k \in Nat :
          k + 1 <= Length[s] /\ Object(p, r.addr) = <<s, k>> /\ r.addr = Base[p][s] + k
    BY <1>2, <1>3, Assigned
  <2>5. PICK k \in Nat : Object(p, r.addr) = <<s, k>> /\ r.addr = Base[p][s] + k
    BY <2>4
  <2>6. c = <<p, s, k>>
    BY <2>5 DEF Cell
  <2>7. <<s, k>> \in Objects(p, r.local, r.len)
    <3>1. r.addr + 0 = r.addr /\ 0 \in 0..(r.len - 1)
      BY <2>3, <2>5, Bases
    <3>2. Object(p, r.local + 0) = <<s, k>>
      BY <2>3, <2>5, <3>1
    <3> QED
      BY <3>1, <3>2 DEF Objects
  <2>8. <<c[2], c[3]>> \in Stores(p, r, c[1])
    BY <1>3, <2>6, <2>7 DEF Stores
  <2>9. e.from = p
    BY <1>4, <2>6 DEF Cell
  <2>10. Before(<<p, e.id[2], e.id[3]>>, <<p, j, l>>)
    BY <1>3, <2>1, <2>9, NewHere DEF Before
  <2>11. QuietBetween(program, p, e.ctx, <<p, e.id[2], e.id[3]>>, <<p, j, l>>)
    BY <1>4, <2>2, <2>8, <2>9, <2>10, Undisturbed
  <2>12. PICK a \in DOMAIN program[p] : \E b \in DOMAIN program[p][a].steps :
           /\ program[p][a].steps[b].do = "quiet" /\ program[p][a].steps[b].ctx = e.ctx
           /\ Before(<<p, e.id[2], e.id[3]>>, <<p, a, b>>) /\ Before(<<p, a, b>>, <<p, j, l>>)
    BY <2>11 DEF QuietBetween
  <2>13. PICK b \in DOMAIN program[p][a].steps :
           /\ program[p][a].steps[b].do = "quiet" /\ program[p][a].steps[b].ctx = e.ctx
           /\ Before(<<p, e.id[2], e.id[3]>>, <<p, a, b>>) /\ Before(<<p, a, b>>, <<p, j, l>>)
    BY <2>12
  <2>14. e.ctx \notin NoStore
    BY <2>11 DEF QuietBetween
  <2>15. Done(p, a, b) /\ Before(e.id, <<p, a, b>>)
    BY <2>1, <2>13 DEF Done, Before
  <2> QED
    BY <2>9, <2>13, <2>14, <2>15 DEF IInv, Parted
<1>7. word'[c] = word[c]
  BY <1>2, <1>5, <1>6, Assigns
<1> QED
  BY <1>4, <1>5, <1>7

------------------------------------------------------------------------------
\* The steps together.

\* What an emulated operation goes on with means the same operation.
LEMMA Retried ==
  ASSUME Disciplined, IInv, Typed, Kept, NEW o \in flight, o.part # "whole",
         NEW e, flight' = (flight \ {o}) \cup {e}, e.id = o.id, e.from = o.from, e.late = o.late,
         UNCHANGED <<program, mem, answer>>
  PROVE  Kept' /\ UNCHANGED <<word, owed, answer>>
<1>1. word' = word
  BY DEF word
<1>2. \A x : Cell(x.from, x.local)' = Cell(x.from, x.local)
  BY DEF Cell, Object
<1>3. ~o.late
  BY SourceIs
<1>4. Kept'
  BY <1>1, <1>2, <1>3 DEF Kept
<1>5. Meant(e) = Meant(o)
  <2>1. PICK r : r = RequestOf(o.id)
    OBVIOUS
  <2>2. r.op \in BitwiseOps
    BY <2>1, Aimed DEF Formed
  <2>3. r.op \notin {"store", "load"}
    BY <2>2 DEF BitwiseOps
  <2>4. RequestOf(e.id) = r
    BY <2>1
  <2> QED
    BY <2>1, <2>3, <2>4 DEF Meant
<1>6. owed' = owed
  <2>1. owed' = {Meant(x) : x \in flight'}
    BY MeantSame DEF owed
  <2> QED
    BY <1>5, <2>1 DEF owed
<1> QED
  BY <1>1, <1>4, <1>6

\* A step that leaves the memory and what is on its way alone.
LEMMA Stutters ==
  ASSUME Kept, UNCHANGED <<program, mem, flight, answer>>
  PROVE  Kept' /\ UNCHANGED <<word, owed, answer>>
<1>1. word' = word
  BY DEF word
<1>2. \A x : Cell(x.from, x.local)' = Cell(x.from, x.local)
  BY DEF Cell, Object
<1> QED
  BY <1>1, <1>2, MeantSame DEF Kept, owed

\* What lands.
LEMMA LandImplements ==
  ASSUME Disciplined, IInv, Typed, Kept, NEW o \in flight,
         Land(o) \/ LandEmulatedGet(o) \/ LandEmulatedSwap(o)
  PROVE  Kept' /\ [Memory!Next]_<<word, owed, answer>>
<1>1. Memory!Perform(Meant(o)) => Memory!Next
  <2>1. Meant(o) \in owed
    BY DEF owed
  <2> QED
    BY <2>1 DEF Memory!Next
<1>2. CASE Land(o)
  <2>1. Memory!Perform(Meant(o))
    BY <1>2, LandPerforms
  <2>2. flight' = flight \ {o}
    BY <1>2 DEF Land
  <2> QED
    BY <1>1, <2>1, <2>2, KeptPerform
<1>3. CASE LandEmulatedGet(o)
  <2>1. PICK e : e = [o EXCEPT !.part = "cswap", !.op = "cswap", !.cond = At(mem[o.pe], o.addr, 2),
                        !.value = [k \in 1..2 |-> Bitwise2(request(o.from).op,
                                     At(mem[o.pe], o.addr, 2)[k], Zeroes(request(o.from).value)[k])]]
    OBVIOUS
  <2>2. /\ flight' = (flight \ {o}) \cup {e} /\ o.part # "whole"
        /\ UNCHANGED <<program, mem, answer>>
    BY <1>3, <2>1 DEF LandEmulatedGet
  <2>3. e.id = o.id /\ e.from = o.from /\ e.late = o.late
    BY <2>1
  <2> QED
    BY <2>2, <2>3, Retried
<1>4. CASE LandEmulatedSwap(o)
  <2>1. CASE At(mem[o.pe], o.addr, 2) = o.cond
    <3>1. Memory!Perform(Meant(o))
      BY <1>4, <2>1, SwapPerforms
    <3>2. flight' = flight \ {o}
      BY <1>4, <2>1 DEF LandEmulatedSwap
    <3> QED
      BY <1>1, <3>1, <3>2, KeptPerform
  <2>2. CASE At(mem[o.pe], o.addr, 2) # o.cond
    <3>1. PICK e : e = EmulatedGet(o.from, request(o.from))
      OBVIOUS
    <3>2. /\ flight' = (flight \ {o}) \cup {e} /\ o.part # "whole"
          /\ UNCHANGED <<program, mem, answer>>
      BY <1>4, <2>2, <3>1 DEF LandEmulatedSwap
    <3>3. e.id = <<o.from, at[o.from][1], at[o.from][2], 1>> /\ e.from = o.from
          /\ e.late = (request(o.from).do = "put_nbi")
      BY <3>1 DEF EmulatedGet, Message
    <3>4. o.id = <<o.from, at[o.from][1], at[o.from][2], 1>> /\ RequestOf(o.id) = request(o.from)
      BY <3>2, EmulatedOf
    <3>5. o.late = (RequestOf(o.id).do = "put_nbi")
      BY Aimed DEF Formed
    <3> QED
      BY <3>2, <3>3, <3>4, <3>5, Retried
  <2> QED
    BY <2>1, <2>2
<1> QED
  BY <1>2, <1>3, <1>4

\* A step of a PE.
LEMMA CallImplements ==
  ASSUME Disciplined, IInv, IInv', Typed, Kept, NEW p \in PE,
         \/ Put(p) \/ Get(p) \/ PostAtomic(p) \/ FetchAtomic(p) \/ Emulate(p)
         \/ Fence(p) \/ Quiet(p) \/ Store(p) \/ Answered(p)
  PROVE  Kept' /\ [Memory!Next]_<<word, owed, answer>>
<1>1. CASE Put(p) \/ Get(p) \/ PostAtomic(p) \/ FetchAtomic(p) \/ Emulate(p)
  BY <1>1, Asks, KeptPosts DEF Memory!Next
<1>2. CASE Store(p)
  BY <1>2, Assigns, KeptStore
<1>3. CASE Fence(p) \/ Quiet(p) \/ Answered(p)
  <2>1. UNCHANGED <<program, mem, flight, answer>>
    BY <1>3 DEF Fence, Quiet, Answered
  <2> QED
    BY <2>1, Stutters
<1> QED
  BY <1>1, <1>2, <1>3

LEMMA StepImplements ==
  ASSUME Disciplined, IInv, Typed, Kept, [Next]_vars
  PROVE  Kept' /\ [Memory!Next]_<<word, owed, answer>>
<1>1. CASE UNCHANGED vars
  BY <1>1, Stutters DEF vars
<1>2. CASE Next
  BY <1>2, NextIInv, CallImplements, LandImplements DEF Next
<1> QED
  BY <1>1, <1>2

\* The layer carries out each operation once and atomically, on the variable its caller
\* named and with the data it had when it called: whatever the bases of the heaps, the
\* lengths, the order in which UCX lands what it was given and the answer of configure
\* on bitwise atomics, for every program that leaves the source of a non-blocking put
\* alone and has 64 bits for an emulated "and" (comms.c:330-1063).
THEOREM Implements ==
  ASSUME Disciplined PROVE Spec => ImplementsMemory
<1>1. Init => Memory!Init /\ Kept
  BY DEF Init, Memory!Init, owed, Kept
<1>2. IInv /\ Typed /\ Kept /\ [Next]_vars => Kept' /\ [Memory!Next]_<<word, owed, answer>>
  BY StepImplements
<1>3. IInv /\ Typed /\ [Next]_vars => Typed'
  BY NextTyped
<1>4. IInv /\ [Next]_vars => IInv'
  BY NextIInv
<1> QED
  BY InitIInv, InitTyped, <1>1, <1>2, <1>3, <1>4, PTL DEF Spec, ImplementsMemory, Memory!Spec

==============================================================================
