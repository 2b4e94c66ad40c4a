------------------------------- MODULE Collect --------------------------------
(***************************************************************************)
(* collect.c: every member has a block of its own size; the result is all  *)
(* of them in the order of the active set.                                 *)
(***************************************************************************)
EXTENDS Steps

CONSTANT RING_DIFF            \* block sizes a ring may be ahead

PREFIX_SUM_SYNC_SIZE == 32

Neighbours(c, p) == [i \in 1..(c.n - 1) |-> PEof(c, (i + Me(c, p)) % c.n)]
Sum(x, first, last) ==
  LET sum[k \in (first - 1)..last] == IF k = first - 1 THEN 0 ELSE sum[k - 1] + Got(x, k) - 1
  IN  IF last < first THEN 0 ELSE sum[last]

collect_helper_linear(c, p, x) ==
  LET me_as  == Me(c, p)
      nbytes == c.size[me_as]
      offset == 2
      total  == Got(x, 2) - 1
  IN  <<P(offset, 0, p), Barrier>>
      \o (IF me_as = 0
          THEN <<AtomicAdd(offset, nbytes + 1, p + c.stride), Copy("dest", 0, "source", 0, nbytes),
                 Read(offset, "NE", 0)>>
               \o [i \in 1..(c.n - 1) |-> P(offset, Got(x, 1), PEof(c, i))]
          ELSE <<Read(offset, "NE", 0),
                 PutNbi("source", 0, Got(x, 1) - 1, nbytes, c.start),
                 AtomicAdd(offset, nbytes + Got(x, 1), PEof(c, (me_as + 1) % c.n))>>)
      \o <<Barrier, Read(offset, "ANY", 0)>>
      \o broadcast_helper_linear(c, p, "dest", total, c.start)
      \o <<P(offset, SHCOLL_SYNC_VALUE, p)>>

\* the block to everybody, and to oneself
Scatter(c, p, x) ==
  LET nbytes == c.size[Me(c, p)]
      to     == Neighbours(c, p)
  IN  [i \in DOMAIN to |-> PutNbi("source", 0, BlockOffset(c, p, x), nbytes, to[i])]
      \o <<Copy("dest", BlockOffset(c, p, x), "source", 0, nbytes)>>

collect_helper_all_linear(c, p, x) ==
  LET to == Neighbours(c, p)
  IN  exclusive_prefix_sum(c, p, x, c.size[Me(c, p)], 1)
      \o Scatter(c, p, x) \o <<Fence>>
      \o [i \in DOMAIN to |-> AtomicInc(0, to[i])]
      \o <<Wait(0, "EQ", SHCOLL_SYNC_VALUE + c.n - 1), P(0, SHCOLL_SYNC_VALUE, p)>>

collect_helper_all_linear1(c, p, x) ==
  exclusive_prefix_sum(c, p, x, c.size[Me(c, p)], 1) \o Scatter(c, p, x) \o <<Barrier>>

\* The round's peer, and the blocks held when it begins.
Peer(c, p, i) == PEof(c, Me(c, p) ^^ (2^i))
HeldSize(c, p, x, i) ==
  LET reads == ScanReads(c, p) IN c.size[Me(c, p)] + Sum(x, reads + 1, reads + i)
HeldFrom(c, p, x, i) ==
  LET from[k \in 0..i] ==
        IF k = 0 THEN BlockOffset(c, p, x)
        ELSE from[k - 1] - IF p > Peer(c, p, k - 1) THEN Got(x, ScanReads(c, p) + k) - 1 ELSE 0
  IN  from[i]
DoublingRound(c, p, x, i) ==
  LET offset == HeldFrom(c, p, x, i)
      size   == HeldSize(c, p, x, i)
      slot   == PREFIX_SUM_SYNC_SIZE + i
  IN  shmem_putmem_signal_nb("dest", offset, offset, size, slot, size + 1 + SHCOLL_SYNC_VALUE,
                             Peer(c, p, i))
      \o <<Read(slot, "NE", SHCOLL_SYNC_VALUE), P(slot, SHCOLL_SYNC_VALUE, p)>>

\* a put, a fence and a put of the size: the signal variant asks the same of the fabric
collect_helper_rec_dbl(c, p, x) ==
  LET round(i) == DoublingRound(c, p, x, i)
  IN  exclusive_prefix_sum(c, p, x, c.size[Me(c, p)], 0)
      \o <<Copy("dest", BlockOffset(c, p, x), "source", 0, c.size[Me(c, p)])>>
      \o Loop(round, 0, Log2(c.n) - 1)
collect_helper_rec_dbl_signal(c, p, x) == collect_helper_rec_dbl(c, p, x)

\* the block a member sends in a round, and where it is
RingBlock(c, p, x, r) ==
  LET reads   == ScanReads(c, p)
      size(k) == IF k = 0 THEN c.size[Me(c, p)] ELSE Got(x, reads + k) - 1
      offset[k \in 0..r] ==
        IF k = 0 THEN BlockOffset(c, p, x)
        ELSE IF Me(c, p) + k = c.n THEN 0 ELSE offset[k - 1] + size(k - 1)
  IN  [size |-> size(r), offset |-> offset[r]]
\* slot 0 counts the sizes the next member has taken out of its window
RingStep(c, p, x, r) ==
  LET send_to_pe   == PEof(c, (Me(c, p) - 1 + c.n) % c.n)
      recv_from_pe == PEof(c, (Me(c, p) + 1) % c.n)
      block == RingBlock(c, p, x, r)
      slot  == 1 + (r % RING_DIFF)
  IN  <<PutNbi("dest", block.offset, block.offset, block.size, send_to_pe), Fence,
        Wait(0, "GT", r - RING_DIFF + SHCOLL_SYNC_VALUE)>>
      \o AtomicSet(slot, block.size + 1 + SHCOLL_SYNC_VALUE, send_to_pe)
      \o <<Read(slot, "NE", SHCOLL_SYNC_VALUE), P(slot, SHCOLL_SYNC_VALUE, p),
           Wait(slot, "EQ", SHCOLL_SYNC_VALUE), AtomicInc(0, recv_from_pe)>>
collect_helper_ring(c, p, x) ==
  LET round(r) == RingStep(c, p, x, r)
  IN  exclusive_prefix_sum(c, p, x, c.size[Me(c, p)], 1 + RING_DIFF)
      \o <<Copy("dest", BlockOffset(c, p, x), "source", 0, c.size[Me(c, p)])>>
      \o Loop(round, 0, c.n - 2)
      \o <<AtomicAdd(0, -(c.n - 1), p)>>

\* What the two Bruck algorithms have in common: the sizes and the number of
\* elements to get in each round, with total known by then.
Total(c, p, x) ==
  IF Me(c, p) = c.n - 1 THEN BlockOffset(c, p, x) + c.size[Me(c, p)]
  ELSE Got(x, ScanReads(c, p) + 1) - 1
BruckGot(c, p, x, r) ==
  LET first == ScanReads(c, p) + (IF Me(c, p) = c.n - 1 THEN 0 ELSE 1)
      total == Total(c, p, x)
      received[k \in 0..r] ==
        IF k = 0 THEN c.size[Me(c, p)]
        ELSE LET theirs == Got(x, first + k) - 1 - SHCOLL_SYNC_VALUE
             IN  received[k - 1] +
                   IF received[k - 1] + theirs < total THEN theirs ELSE total - received[k - 1]
  IN  received[r]
BruckNew(c, p, x, r) == BruckGot(c, p, x, r + 1) - BruckGot(c, p, x, r)
BruckFrom(c, p, r) == PEof(c, (Me(c, p) + 2^r) % c.n)
BruckRound(c, p, x, r, gets) ==
  LET send_to == PEof(c, (Me(c, p) - 2^r + c.n) % c.n)
      slot    == 2 + PREFIX_SUM_SYNC_SIZE + r
  IN  AtomicSet(slot, BruckGot(c, p, x, r) + 1 + SHCOLL_SYNC_VALUE, send_to)
      \o <<Read(slot, "NE", SHCOLL_SYNC_VALUE)>> \o gets
      \o <<P(slot, SHCOLL_SYNC_VALUE, p), Wait(slot, "EQ", SHCOLL_SYNC_VALUE)>>
BruckSizes(c, p, x) ==
  exclusive_prefix_sum(c, p, x, c.size[Me(c, p)], 2)
  \o broadcast_size(c, p, x, Total(c, p, x), PEof(c, c.n - 1), 1)

collect_helper_bruck(c, p, x) ==
  LET round(r) ==
        BruckRound(c, p, x, r, <<GetMem("dest", BruckGot(c, p, x, r), "dest", 0,
                                        BruckNew(c, p, x, r), BruckFrom(c, p, r))>>)
  IN  BruckSizes(c, p, x)
      \o <<Copy("dest", 0, "source", 0, c.size[Me(c, p)])>>
      \o Loop(round, 0, Log2(c.n) - 1)
      \o <<Barrier, Rotate(Total(c, p, x), BlockOffset(c, p, x))>>

\* a block that wraps around is got in two parts and a quiet
collect_helper_bruck_no_rotate(c, p, x) ==
  LET total == Total(c, p, x)
      gets(r) ==
        LET past  == BlockOffset(c, p, x) + BruckGot(c, p, x, r)
            start == IF past < total THEN past ELSE past - total
            size  == BruckNew(c, p, x, r)
            pe    == BruckFrom(c, p, r)
        IN  IF start + size <= total THEN <<GetMem("dest", start, "dest", start, size, pe)>>
            ELSE <<GetMem("dest", start, "dest", start, total - start, pe),
                   GetMem("dest", 0, "dest", 0, size - (total - start), pe)>>
      round(r) == BruckRound(c, p, x, r, gets(r))
  IN  BruckSizes(c, p, x)
      \o <<Copy("dest", BlockOffset(c, p, x), "source", 0, c.size[Me(c, p)])>>
      \o Loop(round, 0, Log2(c.n) - 1)
      \o <<Barrier>>

SHCOLL_COLLECT_DEFINITION(c, p, x) ==
  CASE c.name = "linear"         -> collect_helper_linear(c, p, x)
    [] c.name = "all_linear"     -> collect_helper_all_linear(c, p, x)
    [] c.name = "all_linear1"    -> collect_helper_all_linear1(c, p, x)
    [] c.name = "rec_dbl"        -> collect_helper_rec_dbl(c, p, x)
    [] c.name = "rec_dbl_signal" -> collect_helper_rec_dbl_signal(c, p, x)
    [] c.name = "ring"           -> collect_helper_ring(c, p, x)
    [] c.name = "bruck"          -> collect_helper_bruck(c, p, x)
    [] c.name = "bruck_no_rotate" -> collect_helper_bruck_no_rotate(c, p, x)

==============================================================================
