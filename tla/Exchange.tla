------------------------------- MODULE Exchange -------------------------------
(***************************************************************************)
(* One call of a collective that moves data: api/collectives/table.c finds *)
(* the algorithm by its name and every PE of the active set goes through   *)
(* its statements, over a fabric that lands what it is given late and in   *)
(* any order but for fences.                                               *)
(*                                                                         *)
(* The PEs are in the call once; psync has the slots that are not          *)
(* SHCOLL_SYNC_VALUE.  A barrier inside an algorithm is taken for what the *)
(* barrier modules show: it quiets its PE and lets nobody leave before     *)
(* everybody has come.                                                     *)
(***************************************************************************)
EXTENDS Collect, Fcollect, Alltoall, Reduction, ScatterCollect

CONSTANT Cases     \* calls: the collective, the algorithm, its active set, its sizes

VARIABLES
  case,
  at, doing,       \* the statement a PE has come to
  known,           \* what it has read from its pSync
  mem, psync,
  flight, fences,
  arrived          \* the barriers a PE has come to

exchangeVars == <<case, at, doing, known, mem, psync, flight, fences, arrived>>

------------------------------------------------------------------------------
\* api/collectives/shcoll-shim.c

Statements(c, p, x) ==
  CASE c.coll = "collect"   -> SHCOLL_COLLECT_DEFINITION(c, p, x)
    [] c.coll = "fcollect"  -> SHCOLL_FCOLLECT_DEFINITION(c, p)
    [] c.coll = "alltoall"  -> SHCOLL_ALLTOALL_DEFINITION(c, p)
    [] c.coll = "alltoalls" -> SHCOLL_ALLTOALLS_DEFINITION(c, p)
    [] c.coll = "broadcast" -> SHCOLL_BROADCAST_DEFINITION(c, p)
    [] c.coll = "reduce"    -> SHCOLL_REDUCE_DEFINE(c, p, x)

------------------------------------------------------------------------------
\* The arguments.

PEs == 0..(case.npes - 1)
SizeUpTo(c, i) == LET sum[k \in 0..i] == IF k = 0 THEN 0 ELSE sum[k - 1] + c.size[k - 1] IN sum[i]
DestLength(c) ==
  CASE c.coll = "collect"   -> SizeUpTo(c, c.n)
    [] c.coll \in {"fcollect", "alltoall"} -> c.n * c.size[0]
    [] c.coll = "alltoalls" -> c.n * c.dst * c.size[0]
    [] c.coll \in {"broadcast", "reduce"} -> c.size[0]
SourceLength(c, p) ==
  CASE c.coll = "alltoall"  -> c.n * c.size[0]
    [] c.coll = "alltoalls" -> c.n * c.sst * c.size[0]
    [] OTHER -> IF p \in ActiveSet(c) THEN c.size[Me(c, p)] ELSE 0
\* distinct elements; those of a reduction so that a sum shows what is in it
Element(c, p, k) ==
  IF c.coll = "reduce" THEN (k + 1) * 16^Me(c, p) ELSE 100 * (Me(c, p) + 1) + k

\* What OpenSHMEM says of the result.
Owner(c, k) == CHOOSE i \in 0..(c.n - 1) : SizeUpTo(c, i) <= k /\ k < SizeUpTo(c, i + 1)
Combined(c, k) ==
  LET fold[i \in 0..(c.n - 1)] ==
        IF i = 0 THEN Element(c, PEof(c, 0), k)
        ELSE Combine(c.op, fold[i - 1], Element(c, PEof(c, i), k))
  IN  fold[c.n - 1]
Result(c, p) ==
  [k \in 0..(DestLength(c) - 1) |->
     CASE c.coll \in {"collect", "fcollect"} ->
            Element(c, PEof(c, Owner(c, k)), k - SizeUpTo(c, Owner(c, k)))
       [] c.coll = "alltoall" ->
            Element(c, PEof(c, k \div c.size[0]), Me(c, p) * c.size[0] + (k % c.size[0]))
       [] c.coll = "alltoalls" ->
            LET block == c.dst * c.size[0]
                element == (k % block) \div c.dst
            IN  IF k % c.dst # 0 THEN 0
                ELSE Element(c, PEof(c, k \div block), (Me(c, p) * c.size[0] + element) * c.sst)
       [] c.coll = "broadcast" ->
            IF p = PEof(c, c.root) THEN 0 ELSE Element(c, PEof(c, c.root), k)
       [] c.coll = "reduce" -> Combined(c, k)]

------------------------------------------------------------------------------
\* Memory.

Slot(p, s) == IF s \in DOMAIN psync[p] THEN psync[p][s] ELSE SHCOLL_SYNC_VALUE
WithSlot(p, s, value) ==
  LET used == (DOMAIN psync[p] \ {s}) \cup (IF value = SHCOLL_SYNC_VALUE THEN {} ELSE {s})
  IN  [psync EXCEPT ![p] = [t \in used |-> IF t = s THEN value ELSE psync[p][t]]]

Cells(m, buffer, from, len) == [k \in 0..(len - 1) |-> m[buffer][from + k]]
Filled(m, buffer, first, cells) ==
  [m EXCEPT ![buffer] = [k \in DOMAIN @ |->
     IF k - first \in DOMAIN cells THEN cells[k - first] ELSE @[k]]]

Compare(cmp, value, with) ==
  CASE cmp = "EQ" -> value = with
    [] cmp = "NE" -> value # with
    [] cmp = "GT" -> value > with
    [] cmp = "GE" -> value >= with
    [] cmp = "ANY" -> TRUE

------------------------------------------------------------------------------
\* A PE's steps: one statement, and those up to the next that waits or that
\* uses the PE's own memory.

Asking == {"put", "p", "add", "set", "fence"}
Return == [do |-> "return"]

\* A non-blocking put reads its source when it lands, or when it is called: the
\* latter is what UCX does with the small ones.
Message(p, k, statement, fence) ==
  [from |-> p, to |-> statement.pe, k |-> k, fence |-> fence, asked |-> statement,
   cells |-> IF statement.do = "put" /\ (~statement.nbi \/ ~case.late)
             THEN Cells(mem'[p], statement.from, statement.src, statement.len) ELSE <<>>]

\* the statements from one on, up to the next that is not asking
AskedFrom(steps, first) ==
  LET upTo == CHOOSE k \in first..(Len(steps) + 1) :
                /\ k = Len(steps) + 1 \/ steps[k].do \notin Asking
                /\ \A j \in first..(k - 1) : steps[j].do \in Asking
  IN  SubSeq(steps, first, upTo - 1)

GoOn(p) ==
  \E steps \in {Statements(case, p, known'[p])} :
  \E asked \in {AskedFrom(steps, at[p] + 1)} :
    LET next == at[p] + Len(asked) + 1
        fencesBefore(k) == Cardinality({j \in 1..(k - 1) : asked[j].do = "fence"})
    IN  /\ at' = [at EXCEPT ![p] = next]
        /\ doing' = [doing EXCEPT ![p] = IF next > Len(steps) THEN Return ELSE steps[next]]
        /\ flight' = flight \cup
             {Message(p, at[p] + k, asked[k], fences[p] + fencesBefore(k)) :
                k \in {j \in DOMAIN asked : asked[j].do # "fence"}}
        /\ fences' = [fences EXCEPT ![p] = @ + fencesBefore(Len(asked) + 1)]
        /\ UNCHANGED case

\* what it waits for has come
Ready(p) ==
  CASE doing[p].do \in {"wait", "read"} ->
         Compare(doing[p].cmp, Slot(p, doing[p].slot), doing[p].value)
    [] doing[p].do = "answer"  -> \A o \in flight : o.from = p => o.asked.do # "set"
    [] doing[p].do = "barrier" -> \A o \in flight : o.from # p
    [] doing[p].do = "leave"   -> \A q \in ActiveSet(case) : arrived[q] >= arrived[p]
    [] OTHER -> doing[p].do # "return"

\* What its statement does before it goes on.  Nothing, but for the wait:
Pass(p) ==
  /\ doing[p].do \in {"enter", "wait", "answer", "leave"}
  /\ UNCHANGED <<mem, psync, known>>

WaitedAndRead(p) ==
  /\ doing[p].do = "read"
  /\ known' = [known EXCEPT ![p] = Append(@, Slot(p, doing[p].slot))]
  /\ UNCHANGED <<mem, psync>>

Get(p) ==
  /\ doing[p].do = "get"
  /\ mem' = [mem EXCEPT ![p] =
               Filled(@, doing[p].to, doing[p].at,
                      Cells(mem[doing[p].pe], doing[p].from, doing[p].src, doing[p].len))]
  /\ UNCHANGED <<psync, known>>

Local(p) ==
  /\ doing[p].do \in {"copy", "reduce", "rotate", "rotate_inplace"}
  /\ LET s == doing[p]
         m == mem[p]
     IN  mem' = [mem EXCEPT ![p] =
           CASE s.do = "copy" -> Filled(m, s.to, s.at, Cells(m, s.from, s.src, s.len))
             [] s.do = "reduce" ->
                  Filled(m, s.to, s.at, [k \in 0..(s.len - 1) |->
                    Combine(case.op, m[s.to][s.at + k], m[s.from][s.src + k])])
             [] s.do = "rotate" -> [m EXCEPT !.dest = rotate(@, s.total, s.dist)]
             [] s.do = "rotate_inplace" -> [m EXCEPT !.dest = rotate_inplace(@, s.total, s.dist)]]
  /\ UNCHANGED <<psync, known>>

StoreOwn(p) ==
  /\ doing[p].do = "store"
  /\ psync' = WithSlot(p, doing[p].slot, doing[p].value)
  /\ UNCHANGED <<mem, known>>

\* the barrier's quiet, and what it promises
Arrive(p) ==
  /\ doing[p].do = "barrier" /\ Ready(p)
  /\ arrived' = [arrived EXCEPT ![p] = @ + 1]
  /\ doing' = [doing EXCEPT ![p] = [do |-> "leave"]]
  /\ UNCHANGED <<case, at, known, mem, psync, flight, fences>>

------------------------------------------------------------------------------
\* The fabric.

Deliverable(o) ==
  \A e \in flight : e.from = o.from /\ e.to = o.to => e.fence >= o.fence

LandPut(o) ==
  /\ o.asked.do = "put" /\ Deliverable(o)
  /\ LET s == o.asked
         cells == IF o.cells = <<>> THEN Cells(mem[o.from], s.from, s.src, s.len) ELSE o.cells
     IN  mem' = [mem EXCEPT ![o.to] = Filled(@, "dest", s.at, cells)]
  /\ flight' = flight \ {o}
  /\ UNCHANGED <<case, at, doing, known, psync, fences, arrived>>

LandFlag(o) ==
  /\ o.asked.do \in {"p", "set"} /\ Deliverable(o)
  /\ psync' = WithSlot(o.to, o.asked.slot, o.asked.value)
  /\ flight' = flight \ {o}
  /\ UNCHANGED <<case, at, doing, known, mem, fences, arrived>>

LandAdd(o) ==
  /\ o.asked.do = "add" /\ Deliverable(o)
  /\ psync' = WithSlot(o.to, o.asked.slot, Slot(o.to, o.asked.slot) + o.asked.value)
  /\ flight' = flight \ {o}
  /\ UNCHANGED <<case, at, doing, known, mem, fences, arrived>>

------------------------------------------------------------------------------
ExchangeInit ==
  /\ case \in Cases
  /\ at = [p \in PEs |-> 0]
  /\ doing = [p \in PEs |-> IF p \in ActiveSet(case) THEN [do |-> "enter"] ELSE Return]
  /\ known = [p \in PEs |-> <<>>]
  /\ mem = [p \in PEs |->
       [source |-> [k \in 0..(SourceLength(case, p) - 1) |-> Element(case, p, k)],
        dest |-> [k \in 0..(DestLength(case) - 1) |-> 0],
        tmp |-> IF case.coll = "reduce" THEN [k \in 0..(DestLength(case) - 1) |-> 0] ELSE <<>>]]
  /\ psync = [p \in PEs |-> <<>>]
  /\ flight = {}
  /\ fences = [p \in PEs |-> 0]
  /\ arrived = [p \in PEs |-> 0]

Advance(p) ==
  /\ Ready(p)
  /\ Pass(p) \/ WaitedAndRead(p) \/ Get(p) \/ Local(p) \/ StoreOwn(p)
  /\ GoOn(p)
  /\ UNCHANGED arrived
Landing == \E o \in flight : LandPut(o) \/ LandFlag(o) \/ LandAdd(o)

ExchangeNext == (\E p \in PEs : Advance(p) \/ Arrive(p)) \/ Landing

ExchangeSpec == ExchangeInit /\ [][ExchangeNext]_exchangeVars

------------------------------------------------------------------------------
\* Correctness

Returned(p) == doing[p].do = "return"

\* A PE that returns has every block where it belongs, or the reduction of all the
\* sources with none twice: whatever the sizes, with data that lands late, and with
\* puts that read their source as late as they may.
ReturnsWithResult ==
  \A p \in ActiveSet(case) : Returned(p) => mem[p].dest = Result(case, p)

\* Nothing is put or got outside of the buffers the caller gave, or asked of a PE
\* that is not a member.
StaysInBuffers ==
  /\ \A o \in flight : o.to \in ActiveSet(case)
  /\ \A o \in flight : o.asked.do = "put" =>
       /\ o.asked.at >= 0 /\ o.asked.at + o.asked.len <= DestLength(case)
       /\ o.asked.src + o.asked.len <= Cardinality(DOMAIN mem[o.from][o.asked.from])
  /\ \A p \in PEs : doing[p].do = "get" =>
       /\ doing[p].at >= 0 /\ doing[p].at + doing[p].len <= Cardinality(DOMAIN mem[p][doing[p].to])

\* When all is over each pSync has again the value the next call expects, with no
\* flag of this call still on its way to spoil it.
PSyncGivenBack ==
  flight = {} /\ (\A p \in PEs : Returned(p)) => \A p \in PEs : psync[p] = <<>>

\* Everybody returns.  A step brings a PE further or lands what was asked, and there
\* is an end of both; when nothing is on its way some PE that has not returned can go
\* on.
NobodyStuck ==
  flight = {} => (\A p \in PEs : Returned(p)) \/ (\E p \in PEs : Ready(p))

==============================================================================
