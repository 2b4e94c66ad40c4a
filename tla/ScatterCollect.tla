---------------------------- MODULE ScatterCollect -----------------------------
(***************************************************************************)
(* The broadcasts of broadcast.c without a tree of their own: linear, and  *)
(* scatter_collect, which cuts the data in as many blocks as there are     *)
(* members, hands halves of them down a binomial tree and passes the rest  *)
(* round a ring.                                                           *)
(***************************************************************************)
EXTENDS Steps

LinearBroadcast(c, p) == broadcast_helper_linear(c, p, "source", c.size[0], c.root)

\* me_as, as counted from the root, and the PE of such an index
root_as(c) == (c.root - c.start) \div c.stride
FromRootAs(c, p) == (Me(c, p) - root_as(c) + c.n) % c.n
AsPE(c, i) == c.start + ((root_as(c) + i) % c.n) * c.stride

\* blocks from one up to another, from the buffer that has them
BlockStart(c, block) == (block * c.size[0] + c.n - 1) \div c.n
PutBlocks(c, p, first, past, i) ==
  <<PutNbi(IF FromRootAs(c, p) = 0 THEN "source" ELSE "dest", BlockStart(c, first),
           BlockStart(c, first), BlockStart(c, past) - BlockStart(c, first), AsPE(c, i)), Fence>>

\* the halves me_as is in, round after round, until it is alone
Middle(left, right) == left + ((right - left + 1) \div 2)
Halves(c, p) ==
  LET half[k \in 0..Log2(c.n)] ==
        IF k = 0 THEN [left |-> 0, right |-> c.n]
        ELSE LET r   == half[k - 1]
                 mid == Middle(r.left, r.right)
             IN  IF r.right - r.left <= 1 THEN r
                 ELSE IF FromRootAs(c, p) < mid THEN [r EXCEPT !.right = mid]
                 ELSE [r EXCEPT !.left = mid]
  IN  [k \in 1..Cardinality({k \in 0..Log2(c.n) : half[k].right - half[k].left > 1}) |-> half[k - 1]]
\* the blocks an index has after the scatter, as far as me_as looks
NBlocks(c, p, i) ==
  IF i = 0 THEN c.n
  ELSE LET halves == Halves(c, p)
           given  == {k \in DOMAIN halves : i = Middle(halves[k].left, halves[k].right)}
       IN  IF given = {} THEN 0
           ELSE LET r == halves[CHOOSE k \in given : \A j \in given : j <= k]
                IN  r.right - Middle(r.left, r.right)

broadcast_helper_scatter_collect(c, p) ==
  LET me_as   == FromRootAs(c, p)
      next_as == (me_as + 1) % c.n
      halves  == Halves(c, p)
      scatter(k) ==
        LET r   == halves[k]
            mid == Middle(r.left, r.right)
        IN  Only(me_as = r.left /\ mid < r.right,
                 PutBlocks(c, p, mid, r.right, mid) \o <<AtomicInc(0, AsPE(c, mid))>>)
            \o Only(me_as = mid, <<Wait(0, "NE", SHCOLL_SYNC_VALUE)>>)
      toSend  == c.n - NBlocks(c, p, next_as)
      toTake  == c.n - NBlocks(c, p, me_as)
      ring(i) ==
        LET next_block == (me_as - (i - 1) + c.n) % c.n
        IN  Only(i <= toSend,
                 PutBlocks(c, p, next_block, next_block + 1, next_as)
                 \o <<AtomicInc(1, AsPE(c, next_as))>>)
            \o Only(i <= toTake, <<Wait(1, "GT", SHCOLL_SYNC_VALUE + i - 1)>>)
  IN  Loop(scatter, 1, Len(halves))
      \o Loop(ring, 1, IF toSend > toTake THEN toSend ELSE toTake)
      \o <<P(0, SHCOLL_SYNC_VALUE, p), P(1, SHCOLL_SYNC_VALUE, p)>>

\* the others are in module TreeBroadcast
SHCOLL_BROADCAST_DEFINITION(c, p) ==
  CASE c.name = "linear"          -> LinearBroadcast(c, p)
    [] c.name = "scatter_collect" -> broadcast_helper_scatter_collect(c, p)

==============================================================================
