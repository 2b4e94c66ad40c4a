------------------------------- MODULE Fcollect -------------------------------
(***************************************************************************)
(* fcollect.c: every member has a block of nbytes(c) elements; the result  *)
(* is all of them in the order of the active set.                          *)
(***************************************************************************)
EXTENDS Steps

nbytes(c) == c.size[0]

fcollect_helper_linear(c, p) ==
  <<Barrier,
    IF p # c.start THEN PutNbi("source", 0, Me(c, p) * nbytes(c), nbytes(c), c.start)
    ELSE Copy("dest", 0, "source", 0, nbytes(c)),
    Barrier>>
  \o broadcast_helper_linear(c, p, "dest", nbytes(c) * c.npes, c.start)

\* the own block to all the others, and to oneself
ScatterBlock(c, p) ==
  [i \in 1..(c.n - 1) |->
     PutNbi("source", 0, Me(c, p) * nbytes(c), nbytes(c), PEof(c, (i + Me(c, p)) % c.n))]
  \o <<Copy("dest", Me(c, p) * nbytes(c), "source", 0, nbytes(c))>>

UnfencedAllLinear(c, p) ==            \* slip: no fence before the counts
  ScatterBlock(c, p)
  \o [i \in 1..(c.n - 1) |-> AtomicInc(0, PEof(c, (i + Me(c, p)) % c.n))]
  \o <<Wait(0, "EQ", SHCOLL_SYNC_VALUE + c.n - 1), P(0, SHCOLL_SYNC_VALUE, p)>>
fcollect_helper_all_linear(c, p) ==
  ScatterBlock(c, p) \o <<Fence>>
  \o [i \in 1..(c.n - 1) |-> AtomicInc(0, PEof(c, (i + Me(c, p)) % c.n))]
  \o <<Wait(0, "EQ", SHCOLL_SYNC_VALUE + c.n - 1), P(0, SHCOLL_SYNC_VALUE, p)>>

fcollect_helper_all_linear1(c, p) == ScatterBlock(c, p) \o <<Barrier>>

\* data_block is me_as without its low bits
fcollect_helper_rec_dbl(c, p) ==
  LET me_as == Me(c, p)
      round(i) ==
        LET data_block == (me_as \div 2^i) * 2^i
            peer       == PEof(c, me_as ^^ (2^i))
        IN  <<PutNbi("dest", data_block * nbytes(c), data_block * nbytes(c),
                     nbytes(c) * 2^i, peer), Fence,
              P(i, SHCOLL_SYNC_VALUE + 1, peer),
              Wait(i, "NE", SHCOLL_SYNC_VALUE), P(i, SHCOLL_SYNC_VALUE, p)>>
  IN  <<Copy("dest", me_as * nbytes(c), "source", 0, nbytes(c))>>
      \o Loop(round, 0, Log2(c.n) - 1)

fcollect_helper_ring(c, p) ==
  LET me_as == Me(c, p)
      peer  == PEof(c, (me_as + 1) % c.n)
      round(i) ==
        LET data_block == (me_as - (i - 1) + c.n) % c.n
        IN  <<PutNbi("dest", data_block * nbytes(c), data_block * nbytes(c), nbytes(c), peer),
              Fence, AtomicInc(0, peer), Wait(0, "GE", SHCOLL_SYNC_VALUE + i)>>
  IN  <<Copy("dest", me_as * nbytes(c), "source", 0, nbytes(c))>>
      \o Loop(round, 1, c.n - 1) \o <<P(0, SHCOLL_SYNC_VALUE, p)>>

\* The Bruck algorithms differ in where a block goes and in how it is put.
Unclipped(c, r) == 2^r * nbytes(c)     \* slip: the last round sends as much as the others
to_send(c, r) ==
  LET sent_bytes == 2^r * nbytes(c)
  IN  IF 2 * sent_bytes <= c.n * nbytes(c) THEN sent_bytes ELSE c.n * nbytes(c) - sent_bytes
BruckPeer(c, p, r) == PEof(c, (Me(c, p) - 2^r + c.n) % c.n)
Exchange(c, p, puts) ==
  LET round(r) ==
        puts[r] \o <<Wait(r, "NE", SHCOLL_SYNC_VALUE), P(r, SHCOLL_SYNC_VALUE, p)>>
  IN  Loop(round, 0, Log2(c.n) - 1)
PutAndFlag(c, p) ==
  LET put(r) == <<PutNbi("dest", 0, 2^r * nbytes(c), to_send(c, r), BruckPeer(c, p, r)), Fence,
                  P(r, SHCOLL_SYNC_VALUE + 1, BruckPeer(c, p, r))>>
  IN  Exchange(c, p, [r \in 0..(Log2(c.n) - 1) |-> put(r)])

fcollect_helper_bruck(c, p) ==
  <<Copy("dest", 0, "source", 0, nbytes(c))>> \o PutAndFlag(c, p)
  \o <<Rotate(c.n * nbytes(c), Me(c, p) * nbytes(c))>>

fcollect_helper_bruck_no_rotate(c, p) ==
  LET total == c.n * nbytes(c)
      mine  == nbytes(c) * Me(c, p)
      put(r) ==
        (IF mine + to_send(c, r) <= total
         THEN <<PutNbi("dest", mine, mine, to_send(c, r), BruckPeer(c, p, r))>>
         ELSE <<PutNbi("dest", mine, mine, total - mine, BruckPeer(c, p, r)),
                PutNbi("dest", 0, 0, to_send(c, r) - (total - mine), BruckPeer(c, p, r))>>)
        \o <<Fence, P(r, SHCOLL_SYNC_VALUE + 1, BruckPeer(c, p, r))>>
  IN  <<Copy("dest", mine, "source", 0, nbytes(c))>> \o Exchange(c, p, [r \in 0..(Log2(c.n) - 1) |-> put(r)])

fcollect_helper_bruck_signal(c, p) ==
  LET put(r) == shmem_putmem_signal_nb("dest", 0, 2^r * nbytes(c), to_send(c, r), r,
                                       SHCOLL_SYNC_VALUE + 1, BruckPeer(c, p, r))
  IN  <<Copy("dest", 0, "source", 0, nbytes(c))>> \o Exchange(c, p, [r \in 0..(Log2(c.n) - 1) |-> put(r)])
      \o <<Rotate(c.n * nbytes(c), Me(c, p) * nbytes(c))>>

fcollect_helper_bruck_inplace(c, p) ==
  <<Copy("dest", 0, "source", 0, nbytes(c))>> \o PutAndFlag(c, p)
  \o <<RotateInplace(c.n * nbytes(c), Me(c, p) * nbytes(c))>>

\* Pairs of blocks go round in both directions by turns.  send_offset[1] and
\* send_offset[0] are used in the odd and the even rounds; one of them goes
\* on by send_offset_diff each time, the other by what remains of n.
fcollect_helper_neighbor_exchange(c, p) ==
  LET me_as == Me(c, p)
      even  == me_as % 2 = 0
      neighbor_pe(parity) ==
        PEof(c, (IF even = (parity = 0) THEN me_as + 1 ELSE me_as - 1 + c.n) % c.n)
      pair(i) == i - (i % 2)
      diff    == IF even THEN 2 ELSE c.n - 2
      send_offset(i) ==
        IF i % 2 = 1 THEN (pair(me_as) + (i \div 2) * diff) % c.n
        ELSE (pair((me_as + (IF even THEN c.n - 2 ELSE 2)) % c.n)
                + ((i \div 2) - 1) * (c.n - diff)) % c.n
      round(i) ==
        LET at == send_offset(i) * nbytes(c)
        IN  <<PutNbi("dest", at, at, 2 * nbytes(c), neighbor_pe(i % 2)), Fence,
              AtomicInc(i % 2, neighbor_pe(i % 2)), Wait(i % 2, "GT", i \div 2)>>
      mine == me_as * nbytes(c)
  IN  <<Copy("dest", mine, "source", 0, nbytes(c)),
        PutNbi("dest", mine, mine, nbytes(c), neighbor_pe(0)), Fence,
        AtomicInc(0, neighbor_pe(0)), Wait(0, "GE", 1)>>
      \o Loop(round, 1, (c.n \div 2) - 1)
      \o <<Store(0, SHCOLL_SYNC_VALUE), Store(1, SHCOLL_SYNC_VALUE)>>

SHCOLL_FCOLLECT_DEFINITION(c, p) ==
  CASE c.name = "linear"       -> fcollect_helper_linear(c, p)
    [] c.name = "all_linear"   -> fcollect_helper_all_linear(c, p)
    [] c.name = "all_linear1"  -> fcollect_helper_all_linear1(c, p)
    [] c.name = "rec_dbl"      -> fcollect_helper_rec_dbl(c, p)
    [] c.name = "ring"         -> fcollect_helper_ring(c, p)
    [] c.name = "bruck"        -> fcollect_helper_bruck(c, p)
    [] c.name = "bruck_no_rotate" -> fcollect_helper_bruck_no_rotate(c, p)
    [] c.name = "bruck_signal" -> fcollect_helper_bruck_signal(c, p)
    [] c.name = "bruck_inplace" -> fcollect_helper_bruck_inplace(c, p)
    [] c.name = "neighbor_exchange" -> fcollect_helper_neighbor_exchange(c, p)

==============================================================================
