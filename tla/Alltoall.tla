------------------------------- MODULE Alltoall -------------------------------
(***************************************************************************)
(* alltoall.c and alltoalls.c: each member has a block for each member.    *)
(* The variants differ in the order of the peers and in how a member knows *)
(* that its blocks have arrived.                                           *)
(***************************************************************************)
EXTENDS Steps

CONSTANT alltoall_rounds_sync          \* rounds between two barriers

nelems(c) == c.size[0]

edge_color(i, me, npes) ==
  LET chr_idx == IF npes % 2 = 1 THEN npes ELSE npes - 1
      v == IF me < chr_idx THEN (i + chr_idx - me) % chr_idx
           ELSE IF i % 2 = 1 THEN ((i + chr_idx) \div 2) % chr_idx ELSE i \div 2
  IN  IF v # me THEN v ELSE IF npes % 2 = 1 THEN -1 ELSE chr_idx

SHIFT_PEER(i, me, npes) == (me + i) % npes
XOR_PEER(i, me, npes) == i ^^ me
COLOR_PEER(i, me, npes) == edge_color(i, me, npes)
SHIFT_PEERS(c, p) == [i \in 1..(c.n - 1) |-> SHIFT_PEER(i, Me(c, p), c.n)]
XOR_PEERS(c, p) == [i \in 1..(c.n - 1) |-> XOR_PEER(i, Me(c, p), c.n)]
COLOR_PEERS(c, p) == [i \in 1..(c.n - 1) |-> COLOR_PEER(i, Me(c, p), c.n)]
\* asserted: n is a power of 2 for xor, even for color

\* what a member puts to the peer of round i
PutBlock(c, p, peer_as) ==
  PutNbi("source", peer_as * nelems(c), Me(c, p) * nelems(c), nelems(c), PEof(c, peer_as))
OwnBlock(c, p) == Copy("dest", Me(c, p) * nelems(c), "source", Me(c, p) * nelems(c), nelems(c))

ALLTOALL_HELPER_BARRIER(c, p, peer) ==
  LET round(i) == <<PutBlock(c, p, peer[i])>>
                  \o Only(i % alltoall_rounds_sync = 0, <<Barrier>>)
  IN  <<OwnBlock(c, p)>> \o Loop(round, 1, c.n - 1) \o <<Barrier>>

ALLTOALL_HELPER_COUNTER(c, p, peer) ==
  [i \in 1..(c.n - 1) |-> PutBlock(c, p, peer[i])]
  \o <<OwnBlock(c, p), Fence>>
  \o [i \in 1..(c.n - 1) |-> AtomicInc(0, PEof(c, peer[i]))]
  \o <<Wait(0, "EQ", SHCOLL_SYNC_VALUE + c.n - 1), P(0, SHCOLL_SYNC_VALUE, p)>>

ALLTOALL_HELPER_SIGNAL(c, p, peer) ==
  LET put(i) ==
        LET peer_as == peer[i]
        IN  shmem_putmem_signal_nb("source", peer_as * nelems(c), Me(c, p) * nelems(c), nelems(c),
                                   i - 1, SHCOLL_SYNC_VALUE + 1, PEof(c, peer_as))
      take(i) == <<Wait(i - 1, "GT", SHCOLL_SYNC_VALUE), P(i - 1, SHCOLL_SYNC_VALUE, p)>>
  IN  Loop(put, 1, c.n - 1) \o <<OwnBlock(c, p)>> \o Loop(take, 1, c.n - 1)

alltoall_helper_shift_exchange_barrier(c, p) == ALLTOALL_HELPER_BARRIER(c, p, SHIFT_PEERS(c, p))
alltoall_helper_shift_exchange_counter(c, p) == ALLTOALL_HELPER_COUNTER(c, p, SHIFT_PEERS(c, p))
alltoall_helper_shift_exchange_signal(c, p) == ALLTOALL_HELPER_SIGNAL(c, p, SHIFT_PEERS(c, p))
alltoall_helper_xor_pairwise_exchange_barrier(c, p) == ALLTOALL_HELPER_BARRIER(c, p, XOR_PEERS(c, p))
alltoall_helper_xor_pairwise_exchange_counter(c, p) == ALLTOALL_HELPER_COUNTER(c, p, XOR_PEERS(c, p))
alltoall_helper_xor_pairwise_exchange_signal(c, p) == ALLTOALL_HELPER_SIGNAL(c, p, XOR_PEERS(c, p))
alltoall_helper_color_pairwise_exchange_barrier(c, p) == ALLTOALL_HELPER_BARRIER(c, p, COLOR_PEERS(c, p))
alltoall_helper_color_pairwise_exchange_counter(c, p) == ALLTOALL_HELPER_COUNTER(c, p, COLOR_PEERS(c, p))
alltoall_helper_color_pairwise_exchange_signal(c, p) == ALLTOALL_HELPER_SIGNAL(c, p, COLOR_PEERS(c, p))

SHCOLL_ALLTOALL_DEFINITION(c, p) ==
  CASE c.name = "shift_exchange_barrier" -> alltoall_helper_shift_exchange_barrier(c, p)
    [] c.name = "shift_exchange_counter" -> alltoall_helper_shift_exchange_counter(c, p)
    [] c.name = "shift_exchange_signal"  -> alltoall_helper_shift_exchange_signal(c, p)
    [] c.name = "xor_pairwise_exchange_barrier" -> alltoall_helper_xor_pairwise_exchange_barrier(c, p)
    [] c.name = "xor_pairwise_exchange_counter" -> alltoall_helper_xor_pairwise_exchange_counter(c, p)
    [] c.name = "xor_pairwise_exchange_signal"  -> alltoall_helper_xor_pairwise_exchange_signal(c, p)
    [] c.name = "color_pairwise_exchange_barrier" -> alltoall_helper_color_pairwise_exchange_barrier(c, p)
    [] c.name = "color_pairwise_exchange_counter" -> alltoall_helper_color_pairwise_exchange_counter(c, p)
    [] c.name = "color_pairwise_exchange_signal"  -> alltoall_helper_color_pairwise_exchange_signal(c, p)

------------------------------------------------------------------------------
\* alltoalls.c: elements dst and sst apart.  Blocks and peers are numbered by
\* PE, not by index, and every variant takes its peers from SHIFT_PEER.

OwnElements(c, p) ==
  [k \in 1..nelems(c) |->
     Copy("dest", p * c.dst * nelems(c) + (k - 1) * c.dst,
          "source", p * c.sst * nelems(c) + (k - 1) * c.sst, 1)]
PutElements(c, p) ==
  LET put(i) ==
        LET peer_as == SHIFT_PEER(i, p, c.n)
        IN  shmem_iput_nbi("source", peer_as * c.sst * nelems(c), p * c.dst * nelems(c),
                           c.dst, c.sst, nelems(c), PEof(c, peer_as))
  IN  Loop(put, 1, c.n - 1)

SHCOLL_ALLTOALLS_BARRIER(c, p) == OwnElements(c, p) \o PutElements(c, p) \o <<Barrier>>

SHCOLL_ALLTOALLS_COUNTER(c, p) ==
  OwnElements(c, p) \o PutElements(c, p) \o <<Fence>>
  \o [i \in 1..(c.n - 1) |-> AtomicInc(0, PEof(c, SHIFT_PEER(i, Me(c, p), c.n)))]
  \o <<Wait(0, "EQ", SHCOLL_SYNC_VALUE + c.n - 1), P(0, SHCOLL_SYNC_VALUE, p)>>

\* shift, xor and color, with _nbi or without, are the same
SHCOLL_ALLTOALLS_DEFINITION(c, p) ==
  CASE c.name = "barrier" -> SHCOLL_ALLTOALLS_BARRIER(c, p)
    [] c.name = "counter" -> SHCOLL_ALLTOALLS_COUNTER(c, p)

==============================================================================
