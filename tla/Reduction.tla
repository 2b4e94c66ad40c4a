------------------------------ MODULE Reduction -------------------------------
(***************************************************************************)
(* reduction.c: the sources of the members are combined element by element *)
(* and every member has the result.  The power 2 set is made of p2s_size   *)
(* members; each of the others, the extra ones, has its left neighbour do  *)
(* its part.                                                               *)
(***************************************************************************)
EXTENDS Steps

nreduce(c) == c.size[0]

\* AND_OP to XOR_OP
Combine(op, a, b) ==
  CASE op = "and" -> a & b
    [] op = "or"  -> a | b
    [] op = "xor" -> a ^^ b
    [] op = "max" -> IF a > b THEN a ELSE b
    [] op = "min" -> IF a < b THEN a ELSE b
    [] op = "sum" -> a + b
    [] op = "prod" -> a * b

REDUCE_HELPER_LINEAR(c, p) ==
  LET take(i) == <<GetMem("dest", 0, "source", 0, nreduce(c), PEof(c, i)),
                   Reduce("tmp", 0, "dest", 0, nreduce(c))>>
  IN  <<Barrier>>
      \o Only(Me(c, p) = 0,
              <<Copy("tmp", 0, "source", 0, nreduce(c))>> \o Loop(take, 1, c.n - 1)
              \o <<Copy("dest", 0, "tmp", 0, nreduce(c))>>)
      \o <<Barrier>>
      \o broadcast_helper_linear(c, p, "dest", nreduce(c), c.start)

\* A bit of pSync for each child; the lowest that is there is taken first.
to_receive(c, p) ==
  LET right == {k \in 0..Log2(c.n) :
                  /\ \A j \in 0..k : Me(c, p) & (2^j) = 0 /\ (Me(c, p) | (2^j)) < c.n}
  IN  {2^k : k \in right}
LowestBit(set) == CHOOSE b \in set : \A d \in set : b <= d
NextChild(c, p, x, k) ==
  LET left[j \in 0..k] ==
        IF j = 0 THEN to_receive(c, p)
        ELSE left[j - 1] \ {LowestBit({b \in left[j - 1] : Got(x, j) & b # 0} \cup {2^30})}
  IN  LowestBit({b \in left[k - 1] : Got(x, k) & b # 0} \cup {2^30})
REDUCE_HELPER_BINOMIAL(c, p, x) ==
  LET me_as == Me(c, p)
      old_pSync[k \in 0..Cardinality(to_receive(c, p))] ==
        IF k = 0 THEN SHCOLL_SYNC_VALUE ELSE old_pSync[k - 1] | NextChild(c, p, x, k)
      take(k) == <<Copy("tmp", 0, "dest", 0, nreduce(c)), Read(0, "NE", old_pSync[k - 1]),
                   GetMem("dest", 0, "dest", 0, nreduce(c), PEof(c, me_as + NextChild(c, p, x, k))),
                   Reduce("dest", 0, "tmp", 0, nreduce(c))>>
      target_as == me_as & (me_as - 1)
  IN  <<Copy("dest", 0, "source", 0, nreduce(c))>>
      \o Loop(take, 1, Cardinality(to_receive(c, p)))
      \o Only(me_as # 0, <<AtomicAdd(0, me_as ^^ target_as, PEof(c, target_as))>>)
      \o <<P(0, SHCOLL_SYNC_VALUE, p), Barrier>>
      \o broadcast_helper_binomial_tree(c, p, nreduce(c), c.start, 2)

------------------------------------------------------------------------------
\* The power 2 set.

p2s_size(n) == CHOOSE s \in 1..n : s * 2 > n /\ \E k \in 0..n : s = 2^k
MemberOf(c, me_p2s) == (me_p2s * c.n + p2s_size(c.n) - 1) \div p2s_size(c.n)
Power2(c, p) == (Me(c, p) * p2s_size(c.n)) \div c.n
IsExtra(c, p) == MemberOf(c, Power2(c, p)) # Me(c, p)
HasExtra(c, p) == ((Me(c, p) + 1) * p2s_size(c.n)) \div c.n = Power2(c, p)
Left(c, p) == PEof(c, Me(c, p) - 1)
Right(c, p) == PEof(c, Me(c, p) + 1)

WaitFirstRound(c, p, i) ==            \* slip: both wait for the other to speak first
  LET pe == PEof(c, MemberOf(c, Power2(c, p) ^^ (2^(i - 1))))
  IN  <<Wait(i, "GT", SHCOLL_SYNC_VALUE), P(i, SHCOLL_SYNC_VALUE + 1, pe),
        PutMem("tmp", 0, 0, nreduce(c), pe), Fence, P(i, SHCOLL_SYNC_VALUE + 2, pe),
        Wait(i, "GT", SHCOLL_SYNC_VALUE + 1), Reduce("tmp", 0, "dest", 0, nreduce(c)),
        P(i, SHCOLL_SYNC_VALUE, p)>>
UnresetRound(c, p, i) ==              \* slip: the slot keeps its value
  LET pe == PEof(c, MemberOf(c, Power2(c, p) ^^ (2^(i - 1))))
  IN  <<P(i, SHCOLL_SYNC_VALUE + 1, pe), Wait(i, "GT", SHCOLL_SYNC_VALUE),
        PutMem("tmp", 0, 0, nreduce(c), pe), Fence, P(i, SHCOLL_SYNC_VALUE + 2, pe),
        Wait(i, "GT", SHCOLL_SYNC_VALUE + 1), Reduce("tmp", 0, "dest", 0, nreduce(c))>>
RecDblRound(c, p, i) ==
  LET pe == PEof(c, MemberOf(c, Power2(c, p) ^^ (2^(i - 1))))
  IN  <<P(i, SHCOLL_SYNC_VALUE + 1, pe), Wait(i, "GT", SHCOLL_SYNC_VALUE),
        PutMem("tmp", 0, 0, nreduce(c), pe), Fence, P(i, SHCOLL_SYNC_VALUE + 2, pe),
        Wait(i, "GT", SHCOLL_SYNC_VALUE + 1), Reduce("tmp", 0, "dest", 0, nreduce(c)),
        P(i, SHCOLL_SYNC_VALUE, p)>>

REDUCE_HELPER_REC_DBL(c, p) ==
  LET size == nreduce(c)
      first ==
        IF IsExtra(c, p) THEN <<P(0, SHCOLL_SYNC_VALUE + 1, Left(c, p))>>
        ELSE IF HasExtra(c, p)
             THEN <<Wait(0, "NE", SHCOLL_SYNC_VALUE), P(0, SHCOLL_SYNC_VALUE, p),
                    GetMem("dest", 0, "source", 0, size, Right(c, p)),
                    Copy("tmp", 0, "source", 0, size), Reduce("tmp", 0, "dest", 0, size)>>
             ELSE <<Copy("tmp", 0, "source", 0, size)>>
      round(i) == RecDblRound(c, p, i)
      last ==
        IF IsExtra(c, p) THEN <<Wait(0, "NE", SHCOLL_SYNC_VALUE), P(0, SHCOLL_SYNC_VALUE, p)>>
        ELSE Only(HasExtra(c, p),
                  <<PutMem("dest", 0, 0, size, Right(c, p)), Fence,
                    P(0, SHCOLL_SYNC_VALUE + 1, Right(c, p))>>)
  IN  first
      \o Only(~IsExtra(c, p),
              Loop(round, 1, Log2(p2s_size(c.n))) \o <<Copy("dest", 0, "tmp", 0, size)>>)
      \o last

------------------------------------------------------------------------------
\* Rabenseifner: the vector is cut in p2s_size blocks; each member reduces one
\* of them, and the blocks are collected.

Offset(c, block) == (block * nreduce(c)) \div p2s_size(c.n)
Span(c, from, to) == Offset(c, to) - Offset(c, from)
\* the blocks a member is left with after i rounds
Blocks(c, p, i) ==
  LET range[k \in 0..i] ==
        IF k = 0 THEN [from |-> 0, to |-> p2s_size(c.n)]
        ELSE LET r == range[k - 1]
                 middle == (r.from + r.to) \div 2
             IN  IF (Power2(c, p) \div 2^(k - 1)) % 2 = 0 THEN [r EXCEPT !.to = middle]
                 ELSE [r EXCEPT !.from = middle]
  IN  range[i]

\* an extra member reduces the upper half of both vectors, its neighbour the lower
ShareWithExtra(c, p) ==
  LET half == nreduce(c) \div 2
      rest == nreduce(c) - half
  IN  IF IsExtra(c, p)
      THEN <<P(0, SHCOLL_SYNC_VALUE + 1, Left(c, p)), Wait(0, "NE", SHCOLL_SYNC_VALUE),
             GetMem("dest", half, "source", half, rest, Left(c, p)),
             Reduce("dest", half, "source", half, rest),
             PutMem("dest", half, half, rest, Left(c, p)), Fence,
             P(0, SHCOLL_SYNC_VALUE + 2, Left(c, p))>>
      ELSE IF HasExtra(c, p)
           THEN <<P(0, SHCOLL_SYNC_VALUE + 1, Right(c, p)), Wait(0, "GT", SHCOLL_SYNC_VALUE),
                  GetMem("dest", 0, "source", 0, half, Right(c, p)),
                  Reduce("dest", 0, "source", 0, half),
                  Wait(0, "GT", SHCOLL_SYNC_VALUE + 1), P(0, SHCOLL_SYNC_VALUE, p)>>
           ELSE <<Copy("dest", 0, "source", 0, nreduce(c))>>

ReduceScatter(c, p) ==
  LET round(i) ==
        LET distance == 2^(i - 1)
            low == (Power2(c, p) \div distance) % 2 = 0
            pe  == PEof(c, MemberOf(c, Power2(c, p) + IF low THEN distance ELSE -distance))
            b   == Blocks(c, p, i)
            at  == Offset(c, b.from)
        IN  <<P(i, SHCOLL_SYNC_VALUE + 1, pe), Wait(i, "GE", SHCOLL_SYNC_VALUE + 1),
              GetMem("tmp", 0, "dest", at, Span(c, b.from, b.to), pe), Fence,
              P(i, SHCOLL_SYNC_VALUE + 2, pe),
              Reduce("dest", at, "tmp", 0, Span(c, b.from, b.to)),
              Wait(i, "GE", SHCOLL_SYNC_VALUE + 2), P(i, SHCOLL_SYNC_VALUE, p)>>
  IN  Loop(round, 1, Log2(p2s_size(c.n)))

\* util/bithacks.c
reverse_bits(number, nbits) ==
  LET sum[k \in 0..nbits] ==
        IF k = 0 THEN 0 ELSE sum[k - 1] * 2 + ((number \div 2^(k - 1)) % 2)
  IN  sum[nbits]

\* the range doubles, downwards or upwards, with each exchange
CollectByDoubling(c, p) ==
  LET log == Log2(p2s_size(c.n))
      distance(k) == 2^(log - k)
      low(k)      == (Power2(c, p) \div distance(k)) % 2 = 0
      range[k \in 1..log] ==
        IF k = 1 THEN LET b == reverse_bits(Power2(c, p), log) IN [from |-> b, to |-> b + 1]
        ELSE LET r == range[k - 1]
             IN  IF low(k - 1) THEN [r EXCEPT !.to = @ + (r.to - r.from)]
                 ELSE [r EXCEPT !.from = @ - (r.to - r.from)]
      round(k) ==
        LET pe == PEof(c, MemberOf(c, Power2(c, p) + IF low(k) THEN distance(k) ELSE -distance(k)))
            b  == range[k]
            at == Offset(c, b.from)
            slot == 32 + k
        IN  <<PutMem("dest", at, at, Span(c, b.from, b.to), pe), Fence,
              P(slot, SHCOLL_SYNC_VALUE + 1, pe), Wait(slot, "GE", SHCOLL_SYNC_VALUE + 1),
              P(slot, SHCOLL_SYNC_VALUE, p)>>
  IN  Loop(round, 1, log)

CollectByRing(c, p) ==
  LET size == p2s_size(c.n)
      pe   == PEof(c, MemberOf(c, (Power2(c, p) + 1) % size))
      round(i) ==
        LET block == reverse_bits((Power2(c, p) - i + size) % size, Log2(size))
            at    == Offset(c, block)
        IN  <<PutNbi("dest", at, at, Span(c, block, block + 1), pe), Fence,
              P(33, SHCOLL_SYNC_VALUE + i + 1, pe), Wait(33, "GT", SHCOLL_SYNC_VALUE + i)>>
  IN  Loop(round, 0, size - 1) \o <<P(33, SHCOLL_SYNC_VALUE, p)>>

GiveToExtra(c, p) ==
  IF IsExtra(c, p)
  THEN <<Wait(1, "GE", SHCOLL_SYNC_VALUE + 1), P(1, SHCOLL_SYNC_VALUE, p)>>
  ELSE Only(HasExtra(c, p),
            <<PutMem("dest", 0, 0, nreduce(c), Right(c, p)), Fence,
              P(1, SHCOLL_SYNC_VALUE + 1, Right(c, p))>>)

REDUCE_HELPER_RABENSEIFNER(c, p) ==
  ShareWithExtra(c, p)
  \o Only(~IsExtra(c, p), ReduceScatter(c, p) \o CollectByDoubling(c, p))
  \o GiveToExtra(c, p)
REDUCE_HELPER_RABENSEIFNER2(c, p) ==
  ShareWithExtra(c, p)
  \o Only(~IsExtra(c, p), ReduceScatter(c, p) \o CollectByRing(c, p))
  \o GiveToExtra(c, p)

\* the program's calls have rec_dbl, the others are in shcoll.h only
SHCOLL_REDUCE_DEFINE(c, p, x) ==
  CASE c.name = "linear"   -> REDUCE_HELPER_LINEAR(c, p)
    [] c.name = "binomial" -> REDUCE_HELPER_BINOMIAL(c, p, x)
    [] c.name = "rec_dbl"  -> REDUCE_HELPER_REC_DBL(c, p)
    [] c.name = "rabenseifner"  -> REDUCE_HELPER_RABENSEIFNER(c, p)
    [] c.name = "rabenseifner2" -> REDUCE_HELPER_RABENSEIFNER2(c, p)

==============================================================================
