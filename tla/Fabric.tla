-------------------------------- MODULE Fabric ---------------------------------
(***************************************************************************)
(* shmemc/ucx/comms.c over UCX.  Each PE runs a program, a list of calls   *)
(* (modules PutGet and Atomics); a call is a list of requests to a worker. *)
(* What a request started is in flight until UCX lands it: a transfer cell *)
(* by cell, an atomic operation all at once, in any order the fences of    *)
(* its worker allow.  The blocking calls wait for their own request only.  *)
(***************************************************************************)
EXTENDS Requests, FiniteSets

CONSTANTS
  PE,
  Base,          \* Base[p][r]: where region r starts on PE p; 0 holds the globals
  Length,        \* Length[r]: its cells
  NoStore,       \* the contexts created with SHMEM_CTX_NOSTORE
  Programs,      \* what the PEs may run: a set of [PE -> Seq(calls)]
  Native,        \* has UCX bitwise atomics? the answers configure may give
  InitialCell(_, _)   \* what is in each region and offset at first

Region == DOMAIN Length

\* Programs are made of the calls of the API; one that makes no request is left out.
Posting == {"put", "put_nbi", "get", "get_nbi", "post", "fetch", "fetch_nbi", "bitwise",
            "fetch_bitwise"}
IsRequest(r) ==
  \/ r.do \in Posting /\ r.ctx # SHMEM_CTX_INVALID
  \/ r.do = "assign" /\ r.ctx = SHMEM_CTX_INVALID
  \/ r.do \in {"fence", "quiet"}
IsCall(call) ==
  /\ Len(call.steps) \in Nat \ {0} /\ DOMAIN call.steps = 1..Len(call.steps)
  /\ \A k \in DOMAIN call.steps : IsRequest(call.steps[k])

ASSUME ProgramAssumption ==
  \A f \in Programs :
    /\ DOMAIN f = PE
    /\ \A p \in PE : /\ Len(f[p]) \in Nat /\ DOMAIN f[p] = 1..Len(f[p])
                     /\ \A i \in DOMAIN f[p] : IsCall(f[p][i])

\* "globals are always aligned"; regions count from 0, and are apart in memory
end(r, p) == Base[p][r] + Length[r]
ASSUME RegionAssumption ==
  /\ Cardinality(Region) \in Nat \ {0} /\ Region = 0..(Cardinality(Region) - 1)
  /\ Length \in [Region -> Nat] /\ \A p \in PE : Base[p] \in [Region -> Nat]
  /\ \A p \in PE, q \in PE : Base[p][0] = Base[q][0]
  /\ \A p \in PE, r \in Region, s \in Region :
       r # s => end(r, p) <= Base[p][s] \/ end(s, p) <= Base[p][r]
  /\ \A r \in Region : \A off \in 0..(Length[r] - 1) : InitialCell(r, off) \in {0, 1}
  /\ Native \subseteq BOOLEAN

\* Programs name variables of theirs, each in one region; atomic operations are of 32
\* or 64 bits, and where they may be emulated the bitwise ones have 64 bits to work on.
Words(len) == [1..len -> {0, 1}]
Holds(addr, len, p) ==
  /\ addr \in Nat /\ len \in Nat
  /\ \E r \in Region : Base[p][r] <= addr /\ addr + len <= end(r, p)
BitwiseOps == {"and", "or", "xor"}
Reach(r) == IF r.op \in BitwiseOps /\ FALSE \in Native THEN 2 ELSE r.len
Addressed(p, r) ==
  /\ r.do \in Posting =>
       /\ r.pe \in PE /\ Holds(r.addr, Reach(r), p)
       /\ r.local = Stack \/ Holds(r.local, r.len, p)
  /\ r.do \in {"put", "put_nbi"} =>
       r.op = "store" /\ (r.local # Stack \/ (r.do = "put" /\ r.value \in Words(r.len)))
  /\ r.do \in {"get", "get_nbi"} => r.op = "load"
  /\ r.do \in {"post", "fetch", "fetch_nbi"} => r.op \in {"add", "swap", "cswap"}
  /\ r.do \in {"bitwise", "fetch_bitwise"} => r.op \in BitwiseOps
  /\ r.op \in {"add", "swap", "cswap"} \cup BitwiseOps => r.len \in 1..2 /\ r.value \in Words(r.len)
  /\ r.do = "assign" => Holds(r.addr, r.len, p) /\ r.value \in Words(r.len)

ASSUME AddressAssumption ==
  \A f \in Programs : \A p \in PE : \A i \in DOMAIN f[p] : \A k \in DOMAIN f[p][i].steps :
    Addressed(p, f[p][i].steps[k])

VARIABLES
  program,   \* program[p]: what p runs
  native,    \* HAVE_UCP_BITWISE_ATOMICS
  at,        \* at[p]: <<call, request>> p is at
  doing,     \* doing[p]: "idle", "answer" (waits for its request) or "loop" (emulates)
  mem,       \* mem[p]: the memory of p, by address
  flight,    \* what is on its way
  fences,    \* fences[p][ctx]: the fences of that worker so far
  answer     \* history: what each operation that landed found

vars == <<program, native, at, doing, mem, flight, fences, answer>>

------------------------------------------------------------------------------
\* Addresses

InclusiveRegion(addr, r, p) == Base[p][r] <= addr /\ addr <= end(r, p)   \* slip: off by one
in_region(addr, r, p) == Base[p][r] <= addr /\ addr < end(r, p)

\* the newest heap first; -1 when there is none
lookup_region(addr, p) ==
  LET in == {r \in Region : in_region(addr, r, p)}
  IN  IF in = {} THEN -1 ELSE CHOOSE r \in in : \A s \in in : s <= r

translate_region_address(addr, r, p, pe) ==
  IF r = 0 THEN addr
  ELSE IF addr < Base[p][r] THEN 0 ELSE addr - Base[p][r] + Base[pe][r]

\* every request comes through here; the assertion is that there is a region
get_remote_addr(addr, p, pe) == translate_region_address(addr, lookup_region(addr, p), p, pe)

------------------------------------------------------------------------------
\* UCX

Written(w, addr, m) ==
  [a \in DOMAIN m |-> IF addr # Stack /\ a - addr + 1 \in DOMAIN w
                      THEN w[a - addr + 1] ELSE m[a]]

\* a carry comes from a cell before and passes those between
Carry(v, w, k) ==
  IF \E j \in 1..(k - 1) : v[j] + w[j] = 2 /\ \A i \in (j + 1)..(k - 1) : v[i] + w[i] = 1
  THEN 1 ELSE 0
Plus(v, w) == [k \in DOMAIN v |-> (v[k] + w[k] + Carry(v, w, k)) % 2]

Bitwise2(op, a, b) ==
  CASE op = "and" -> a * b [] op = "or" -> (a + b + 1) \div 2 [] op = "xor" -> (a + b) % 2

Outcome(o, old) ==
  CASE o.op \in {"store", "swap"} -> o.value
    [] o.op = "cswap" -> IF old = o.cond THEN o.value ELSE old
    [] o.op = "load" -> old
    [] o.op = "add" -> Plus(old, o.value)
    [] o.op \in {"and", "or", "xor"} -> [k \in DOMAIN old |-> Bitwise2(o.op, old[k], o.value[k])]

At(m, addr, len) == [k \in 1..len |-> m[addr + k - 1]]
Older(o) == {e \in flight : e.from = o.from /\ e.ctx = o.ctx /\ e.pe = o.pe /\ e.epoch < o.epoch}
Deliverable(o) == Older(o) = {}

------------------------------------------------------------------------------
\* What a PE is at

Running(p) == at[p][1] \in DOMAIN program[p]
request(p) == program[p][at[p][1]].steps[at[p][2]]
Advance(p) ==
  /\ at' = [at EXCEPT ![p] =
              IF @[2] < Len(program[p][@[1]].steps) THEN <<@[1], @[2] + 1>> ELSE <<@[1] + 1, 1>>]
  /\ doing' = [doing EXCEPT ![p] = "idle"]
WaitFor(p, what) == doing' = [doing EXCEPT ![p] = what] /\ UNCHANGED at

\* A request for len cells from the c-th on; the value is what is there now.
Message(p, r, c, len, part) ==
  [id |-> <<p, at[p][1], at[p][2], c>>, part |-> part, from |-> p, ctx |-> r.ctx,
   epoch |-> fences[p][r.ctx], pe |-> r.pe, op |-> r.op,
   addr |-> get_remote_addr(r.addr, p, r.pe) + c - 1, len |-> len,
   local |-> IF r.local = Stack THEN Stack ELSE r.local + c - 1,
   value |-> IF r.op = "store" /\ r.local # Stack THEN <<mem[p][r.local + c - 1]>>
             ELSE IF r.op = "store" /\ len = 1 THEN <<r.value[c]>> ELSE r.value,
   cond |-> r.cond, late |-> r.do = "put_nbi"]

Cells(p, r) == {Message(p, r, c, 1, "whole") : c \in 1..r.len}
Whole(p, r) == {Message(p, r, 1, r.len, "whole")}

Post(p, messages) == flight' = flight \cup messages
Ready(p, what) == Running(p) /\ doing[p] = "idle" /\ request(p).do \in what

------------------------------------------------------------------------------
\* The requests

\* ucp_put: returns when the buffer is its caller's again; the others at once
Put(p) ==
  /\ Ready(p, {"put", "put_nbi", "get_nbi"})
  /\ Post(p, Cells(p, request(p)))
  /\ Advance(p)
  /\ UNCHANGED <<program, native, mem, fences, answer>>

Get(p) ==
  /\ Ready(p, {"get"})
  /\ Post(p, Cells(p, request(p)))
  /\ WaitFor(p, "answer")
  /\ UNCHANGED <<program, native, mem, fences, answer>>

\* atomic operations that are posted, and fetching ones not waited for
PostAtomic(p) ==
  /\ Ready(p, {"post", "fetch_nbi"} \cup IF native THEN {"bitwise"} ELSE {})
  /\ Post(p, Whole(p, request(p)))
  /\ Advance(p)
  /\ UNCHANGED <<program, native, mem, fences, answer>>

FetchAtomic(p) ==
  /\ Ready(p, {"fetch"} \cup IF native THEN {"fetch_bitwise"} ELSE {})
  /\ Post(p, Whole(p, request(p)))
  /\ WaitFor(p, "answer")
  /\ UNCHANGED <<program, native, mem, fences, answer>>

\* no bitwise atomics: a loop of a get and a compare-and-swap, of 64 bits
EmulatedGet(p, r) == [Message(p, r, 1, r.len, "get") EXCEPT !.op = "load", !.len = 2]
Emulate(p) ==
  /\ ~native /\ Ready(p, {"bitwise", "fetch_bitwise"})
  /\ Post(p, {EmulatedGet(p, request(p))})
  /\ WaitFor(p, "loop")
  /\ UNCHANGED <<program, native, mem, fences, answer>>

FenceDropped(p) ==                    \* slip: no fence reaches the worker
  /\ Ready(p, {"fence"}) /\ UNCHANGED fences
  /\ Advance(p)
  /\ UNCHANGED <<program, native, mem, flight, answer>>
Fence(p) ==
  /\ Ready(p, {"fence"})
  /\ LET ctx == request(p).ctx
     IN  IF ctx = SHMEM_CTX_INVALID \/ ctx \in NoStore THEN UNCHANGED fences
         ELSE fences' = [fences EXCEPT ![p][ctx] = @ + 1]
  /\ Advance(p)
  /\ UNCHANGED <<program, native, mem, flight, answer>>

Quiet(p) ==
  /\ Ready(p, {"quiet"})
  /\ LET ctx == request(p).ctx
     IN  ctx # SHMEM_CTX_INVALID /\ ctx \notin NoStore
           => \A o \in flight : ~(o.from = p /\ o.ctx = ctx)
  /\ Advance(p)
  /\ UNCHANGED <<program, native, mem, flight, fences, answer>>

\* the program's own store
Store(p) ==
  /\ Ready(p, {"assign"})
  /\ LET r == request(p)
     IN  /\ mem' = [mem EXCEPT ![p] = Written(r.value, r.addr, @)]
         /\ answer' = [id \in DOMAIN answer \cup {<<p, at[p][1], at[p][2], 1>>} |->
                         IF id \in DOMAIN answer THEN answer[id] ELSE At(mem[p], r.addr, r.len)]
  /\ Advance(p)
  /\ UNCHANGED <<program, native, flight, fences>>

\* check_wait_for_request: the answer is there
Answered(p) ==
  /\ doing[p] = "answer"
  /\ \A o \in flight : <<o.id[1], o.id[2], o.id[3]>> # <<p, at[p][1], at[p][2]>>
  /\ Advance(p)
  /\ UNCHANGED <<program, native, mem, flight, fences, answer>>

------------------------------------------------------------------------------
\* UCX lands what is in flight

Effect(o, value, found) ==
  /\ LET changed == [mem EXCEPT ![o.pe] = Written(value, o.addr, @)]
     IN  mem' = IF o.op = "store" THEN changed
                ELSE [changed EXCEPT ![o.from] = Written(found, o.local, @)]
  /\ answer' = [id \in DOMAIN answer \cup {o.id} |-> IF id = o.id THEN found ELSE answer[id]]

Land(o) ==
  /\ o.part = "whole" /\ Deliverable(o)
  /\ LET old == At(mem[o.pe], o.addr, o.len)
     IN  IF o.late THEN Effect(o, <<mem[o.from][o.local]>>, old) ELSE Effect(o, Outcome(o, old), old)
  /\ flight' = flight \ {o}
  /\ UNCHANGED <<program, native, at, doing, fences>>

\* "save comparator": zeroes above the type
Zeroes(w) == [k \in 1..2 |-> IF k \in DOMAIN w THEN w[k] ELSE 0]
LandEmulatedGet(o) ==
  /\ o.part = "get" /\ Deliverable(o)
  /\ LET orig == At(mem[o.pe], o.addr, 2)
         r == request(o.from)
     IN  flight' = (flight \ {o}) \cup
           {[o EXCEPT !.part = "cswap", !.op = "cswap", !.cond = orig, !.value =
               [k \in 1..2 |-> Bitwise2(r.op, orig[k], Zeroes(r.value)[k])]]}
  /\ UNCHANGED <<program, native, at, doing, mem, fences, answer>>

\* while (ret != rval_orig)
LandOnce(o) ==                        \* slip: no loop
  /\ o.part = "cswap" /\ Deliverable(o)
  /\ LET ret == At(mem[o.pe], o.addr, 2)
         r == request(o.from)
     IN  /\ Effect([o EXCEPT !.local = r.local], Outcome(o, ret), At(mem[o.pe], o.addr, r.len))
         /\ flight' = flight \ {o}
         /\ Advance(o.from)
  /\ UNCHANGED <<program, native, fences>>
RetryOnSuccess(o) ==                  \* slip: == for !=
  /\ o.part = "cswap" /\ Deliverable(o)
  /\ flight' = (flight \ {o}) \cup
       IF At(mem[o.pe], o.addr, 2) = o.cond THEN {EmulatedGet(o.from, request(o.from))} ELSE {}
  /\ UNCHANGED <<program, native, at, doing, mem, answer, fences>>
LandEmulatedSwap(o) ==
  /\ o.part = "cswap" /\ Deliverable(o)
  /\ LET ret == At(mem[o.pe], o.addr, 2)
         r == request(o.from)
     IN  IF ret = o.cond
         THEN /\ Effect(o, o.value, At(mem[o.pe], o.addr, r.len))
              /\ flight' = flight \ {o}
              /\ Advance(o.from)
         ELSE /\ flight' = (flight \ {o}) \cup {EmulatedGet(o.from, r)}
              /\ UNCHANGED <<at, doing, mem, answer>>
  /\ UNCHANGED <<program, native, fences>>

------------------------------------------------------------------------------
Requested(f) == UNION {UNION {{f[p][i].steps[k].ctx : k \in DOMAIN f[p][i].steps} :
                                i \in DOMAIN f[p]} : p \in PE}
Mapped(p) == UNION {Base[p][r]..(end(r, p) - 1) : r \in Region}
Init ==
  /\ program \in Programs
  /\ native \in Native
  /\ at = [p \in PE |-> <<1, 1>>]
  /\ doing = [p \in PE |-> "idle"]
  /\ mem = [p \in PE |-> [a \in Mapped(p) |->
              LET r == lookup_region(a, p) IN InitialCell(r, a - Base[p][r])]]
  /\ flight = {}
  /\ fences = [p \in PE |-> [ctx \in Requested(program) |-> 0]]
  /\ answer = <<>>

Next ==
  \/ \E p \in PE :
       Put(p) \/ Get(p) \/ PostAtomic(p) \/ FetchAtomic(p) \/ Emulate(p)
         \/ Fence(p) \/ Quiet(p) \/ Store(p) \/ Answered(p)
  \/ \E o \in flight : Land(o) \/ LandEmulatedGet(o) \/ LandEmulatedSwap(o)

\* Every PE goes on and UCX lands what it was given.
Fairness ==
  /\ \A p \in PE :
       WF_vars(Put(p) \/ Get(p) \/ PostAtomic(p) \/ FetchAtomic(p) \/ Emulate(p)
                 \/ Fence(p) \/ Quiet(p) \/ Store(p) \/ Answered(p))
  /\ WF_vars(\E o \in flight : Land(o) \/ LandEmulatedGet(o) \/ LandEmulatedSwap(o))

Spec == Init /\ [][Next]_vars /\ Fairness


------------------------------------------------------------------------------
\* Correctness

TypeOK ==
  /\ at \in [PE -> Nat \X Nat] /\ doing \in [PE -> {"idle", "answer", "loop"}]
  /\ \A p \in PE : \A a \in DOMAIN mem[p] : mem[p][a] \in {0, 1}
  /\ \A o \in flight : o.addr..(o.addr + o.len - 1) \subseteq DOMAIN mem[o.pe]
  /\ \A p \in PE : doing[p] # "idle" => Running(p)

\* what an address of p stands for: a region and an offset in it
Object(p, addr) ==
  CHOOSE ro \in UNION {{<<r, k>> : k \in 0..(Length[r] - 1)} : r \in Region} :
    Base[p][ro[1]] + ro[2] = addr
RequestOf(id) == program[id[1]][id[2]].steps[id[3]]

\* What the program meant by an operation that is under way.
Cell(p, addr) == LET ro == Object(p, addr) IN <<p, ro[1], ro[2]>>
Meant(o) ==
  LET r == RequestOf(o.id)
      transfer == r.op \in {"store", "load"}
      cell(pe, addr) == LET ro == Object(o.from, addr + o.id[4] - 1) IN <<pe, ro[1], ro[2]>>
  IN  [id |-> o.id, op |-> r.op, at |-> cell(r.pe, r.addr),
       len |-> IF transfer THEN 1 ELSE r.len,
       value |-> IF transfer THEN o.value ELSE r.value, cond |-> r.cond,
       to |-> IF r.op = "store" \/ r.local = Stack THEN <<>> ELSE cell(o.from, r.local)]

Variables == UNION {{<<p, r, k>> : p \in PE, k \in 0..(Length[r] - 1)} : r \in Region}
word == [c \in Variables |-> mem[c[1]][Base[c[1]][c[2]] + c[3]]]
owed == {Meant(o) : o \in flight}
Memory == INSTANCE AtomicMemory

\* The layer carries out each operation once and atomically, on the variable the
\* caller named and with the data it had when it called, whatever base the heaps
\* have, in native and in emulated atomics, and when a non-blocking put's source
\* is stored to again after a quiet.
ImplementsMemory == Memory!Spec

Before(x, y) == x[2] < y[2] \/ (x[2] = y[2] /\ x[3] < y[3])
OrderedBy(o, id) ==
  \E i \in DOMAIN program[o.from] : \E k \in DOMAIN program[o.from][i].steps :
    LET r == program[o.from][i].steps[k]
    IN  /\ r.ctx = o.ctx /\ r.ctx \notin NoStore
        /\ r.do = "quiet" \/ (r.do = "fence" /\ RequestOf(id).ctx = o.ctx /\ RequestOf(id).pe = o.pe)
        /\ Before(o.id, <<o.from, i, k>>) /\ Before(<<o.from, i, k>>, id)

\* No operation overtakes one the same PE made before a fence of their context and
\* to the same PE, nor one made before a quiet of that one's context: also when the
\* fence is the one inside a put with signal.
OrderedAsPromised ==
  \A id \in DOMAIN answer : \A o \in flight : o.from = id[1] => ~OrderedBy(o, id)

\* When the signal of a put with signal is there so is its data, on every context
\* that may store; shmem_put_signal hands both to the worker one after the other.
SignalAfterData ==
  \A id \in DOMAIN answer :
    LET call == program[id[1]][id[2]]
    IN  call.kind = "signal" /\ id[3] = Len(call.steps) /\ RequestOf(id).ctx \notin NoStore
          => \A o \in flight : <<o.id[1], o.id[2]>> # <<id[1], id[2]>>

\* Every call returns, the compare-and-swap loops of emulated atomics included, and
\* in the end nothing is left on its way.
CallsReturn == <>[](flight = {} /\ \A p \in PE : ~Running(p))

------------------------------------------------------------------------------
\* The inductive invariant of the two.

\* p has taken, or is taking, the k-th request of its i-th call
Done(p, i, k) == i < at[p][1] \/ (i = at[p][1] /\ k < at[p][2])
Begun(p, i, k) == Done(p, i, k) \/ (at[p] = <<i, k>> /\ doing[p] # "idle")
Place(id) ==
  /\ id = <<id[1], id[2], id[3], id[4]>> /\ id[1] \in PE
  /\ id[2] \in DOMAIN program[id[1]] /\ id[3] \in DOMAIN program[id[1]][id[2]].steps

Placed ==
  /\ program \in Programs
  /\ DOMAIN at = PE /\ DOMAIN doing = PE
  /\ \A p \in PE :
       /\ at[p] \in Nat \X Nat /\ at[p][1] > 0 /\ at[p][2] > 0
       /\ Running(p) => at[p][2] \in DOMAIN program[p][at[p][1]].steps
       /\ doing[p] # "idle" => Running(p) /\ request(p).do \in Posting
  /\ fences \in [PE -> [Requested(program) -> Nat]]

\* what is in flight was asked for, of the worker and the PE the request names
Fields == {"id", "from", "ctx", "pe", "epoch", "part"}
Sent ==
  \A o \in flight :
    /\ Fields \subseteq DOMAIN o
    /\ Place(o.id) /\ o.from = o.id[1] /\ Begun(o.from, o.id[2], o.id[3])
    /\ RequestOf(o.id).do \in Posting
    /\ o.ctx = RequestOf(o.id).ctx /\ o.pe = RequestOf(o.id).pe
    /\ o.epoch \in Nat /\ o.epoch <= fences[o.from][o.ctx]

\* an emulated operation is under way while its caller is at it, once
Emulating ==
  \A o \in {e \in flight : e.part # "whole"} :
    /\ o.id = <<o.from, at[o.from][1], at[o.from][2], 1>> /\ doing[o.from] = "loop"
    /\ o.epoch = fences[o.from][o.ctx]
    /\ \A e \in flight : e.from = o.from /\ e.part # "whole" => e = o

\* what has landed was asked for, and is in flight no more; only transfers have parts
Once ==
  /\ \A id \in DOMAIN answer : Place(id) /\ Begun(id[1], id[2], id[3])
  /\ \A o \in flight : o.id \notin DOMAIN answer /\ \A e \in flight : e.id = o.id => e = o
  /\ \A o \in flight : RequestOf(o.id).do \in {"post", "fetch"} => o.id[4] = 1
  /\ \A id \in DOMAIN answer : RequestOf(id).do \in {"post", "fetch"} => id[4] = 1

\* a quiet leaves nothing behind; a fence, only what is of an earlier epoch
Parted ==
  \A o \in flight : o.ctx \notin NoStore =>
    \A i \in DOMAIN program[o.from] : \A k \in DOMAIN program[o.from][i].steps :
      LET r == program[o.from][i].steps[k]
      IN  r.ctx = o.ctx /\ Before(o.id, <<o.from, i, k>>) =>
            /\ r.do = "quiet" => ~Done(o.from, i, k)
            /\ r.do = "fence" /\ Done(o.from, i, k) => o.epoch < fences[o.from][o.ctx]
            /\ r.do = "fence" => \A m \in flight :
                 m.from = o.from /\ m.ctx = o.ctx /\ Before(<<o.from, i, k>>, m.id)
                   => o.epoch < m.epoch

IInv == Placed /\ Sent /\ Emulating /\ Once /\ Parted /\ OrderedAsPromised

\* What SignalAfterData rests on: a put with signal is the put, a fence of its
\* context, and one atomic operation on the same PE.
Fenced(call) ==
  call.kind = "signal" =>
    /\ DOMAIN call.steps = 1..3 /\ Len(call.steps) = 3
    /\ call.steps[2].do = "fence" /\ call.steps[3].do \in {"post", "fetch"}
    /\ \A k \in 1..3 : call.steps[k].ctx = call.steps[1].ctx
    /\ call.steps[1].pe = call.steps[3].pe
SignalsFenced == \A f \in Programs : \A p \in PE : \A i \in DOMAIN f[p] : Fenced(f[p][i])

------------------------------------------------------------------------------
\* What TypeOK rests on: what is in flight is what its request stands for.

AllFields == Fields \cup {"op", "addr", "len", "local", "value", "cond", "late"}
Formed(o) ==
  LET r == RequestOf(o.id)
      transfer == r.op \in {"store", "load"}
  IN  /\ DOMAIN o = AllFields /\ o.part \in {"whole", "get", "cswap"}
      /\ o.addr = get_remote_addr(r.addr, o.from, r.pe) + o.id[4] - 1
      /\ o.local = (IF r.local = Stack THEN Stack ELSE r.local + o.id[4] - 1)
      /\ o.late = (r.do = "put_nbi")
      /\ o.part = "whole" => o.op = r.op
      /\ o.part = "whole" /\ transfer =>
           o.id[4] \in 1..r.len /\ o.len = 1 /\ (r.op = "store" => o.value \in Words(1))
      /\ ~transfer => o.id[4] = 1
      /\ o.part = "whole" /\ ~transfer => o.len = r.len /\ o.value = r.value /\ o.cond = r.cond
      /\ o.part # "whole" => r.op \in BitwiseOps /\ o.len = 2 /\ FALSE \in Native
      /\ o.part = "get" => o.op = "load"
      /\ o.part = "cswap" =>
           /\ o.op = "cswap" /\ o.cond \in Words(2)
           /\ o.value = [k \in 1..2 |-> Bitwise2(r.op, o.cond[k], Zeroes(r.value)[k])]

Typed ==
  /\ at \in [PE -> Nat \X Nat] /\ doing \in [PE -> {"idle", "answer", "loop"}]
  /\ native \in Native
  /\ DOMAIN mem = PE /\ \A p \in PE : mem[p] \in [Mapped(p) -> {0, 1}]
  /\ \A o \in flight : Formed(o)

------------------------------------------------------------------------------
\* What ImplementsMemory asks of the programs.

\* the variables of p a request of q stores to
Objects(p, addr, len) == {Object(p, addr + k) : k \in 0..(len - 1)}
Stores(q, r, p) ==
  LET there == r.do \in Posting /\ r.op # "load" /\ r.pe = p
      here == q = p /\ (r.do = "assign" \/ (r.do \in Posting /\ r.op # "store" /\ r.local # Stack))
  IN  (IF there THEN Objects(q, r.addr, r.len) ELSE {})
        \cup (IF here THEN Objects(q, r.local, r.len) ELSE {})

\* between its requests at x and at y, p makes a quiet of ctx that waits
QuietBetween(f, p, ctx, x, y) ==
  /\ ctx \notin NoStore
  /\ \E a \in DOMAIN f[p] : \E b \in DOMAIN f[p][a].steps :
       /\ f[p][a].steps[b].do = "quiet" /\ f[p][a].steps[b].ctx = ctx
       /\ Before(x, <<p, a, b>>) /\ Before(<<p, a, b>>, y)

\* A non-blocking put's source is stored to by nobody but the PE itself, and by it no
\* more before a quiet of the context.
SourcesQuiet(f) ==
  \A p \in PE : \A i \in DOMAIN f[p] : \A k \in DOMAIN f[p][i].steps :
    LET r == f[p][i].steps[k]
    IN  r.do = "put_nbi" => \A q \in PE : \A j \in DOMAIN f[q] : \A l \in DOMAIN f[q][j].steps :
          LET s == f[q][j].steps[l]
          IN  Objects(p, r.local, r.len) \cap Stores(q, s, p) # {} =>
                /\ s.do = "assign"
                /\ Before(<<p, i, k>>, <<p, j, l>>) =>
                     QuietBetween(f, p, r.ctx, <<p, i, k>>, <<p, j, l>>)

\* An emulated "and" of 32 bits would clear what is next to them.
Disciplined ==
  \A f \in Programs :
    /\ SourcesQuiet(f)
    /\ \A p \in PE : \A i \in DOMAIN f[p] : \A k \in DOMAIN f[p][i].steps :
         LET r == f[p][i].steps[k]
         IN  /\ r.op = "and" /\ FALSE \in Native => r.len = 2
             /\ r.do = "assign" => r.len = 1 /\ r.local = r.addr

\* and with it, what is in flight still has what its caller gave it
Kept == \A o \in flight : o.late => word[Cell(o.from, o.local)] = o.value[1]

==============================================================================
