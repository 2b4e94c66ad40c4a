-------------------------------- MODULE Steps ---------------------------------
(***************************************************************************)
(* What the collectives of shcoll are made of.  A collective is, for each  *)
(* PE, the list of the statements it goes through; their arguments may     *)
(* use x, what the PE has read from its pSync so far, in order.  The case  *)
(* c has the arguments of the call: the active set (start, stride, n), the *)
(* PEs of the job (npes) and the size of each member's block.              *)
(*                                                                         *)
(* Offsets and sizes are in elements; pSync slots have the source's index. *)
(***************************************************************************)
EXTENDS Integers, Sequences, SequencesExt, FiniteSets, Trees

SHCOLL_SYNC_VALUE == 0

\* C's operators on the bits of an int that is not negative, by way of a + b = (a ^ b) + 2 (a & b)
a ^^ b ==
  LET xor[k \in 0..31] ==
        [x \in Nat |-> [y \in Nat |->
           IF k = 0 THEN 0 ELSE ((x + y) % 2) + 2 * xor[k - 1][x \div 2][y \div 2]]]
  IN  xor[31][a][b]
a & b == (a + b - (a ^^ b)) \div 2
a | b == (a ^^ b) + (a & b)

\* "Get my index in the active set", and the PE of an index
Me(c, p) == (p - c.start) \div c.stride
PEof(c, i) == c.start + i * c.stride
ActiveSet(c) == {PEof(c, i) : i \in 0..(c.n - 1)}

\* for (mask = 1, i = 0; mask < n; mask <<= 1, i++)
Log2(n) == CHOOSE r \in 0..n : 2^r >= n /\ (r = 0 \/ 2^(r - 1) < n)

\* the statements of a loop from one value to another
Loop(body(_), first, last) ==
  FlattenSeq([k \in 1..(IF last < first THEN 0 ELSE last - first + 1) |-> body(first + k - 1)])
Only(condition, steps) == IF condition THEN steps ELSE <<>>

\* what the PE read as its k-th value; its arguments are not needed before
Got(x, k) == IF k <= Len(x) THEN x[k] ELSE 1

------------------------------------------------------------------------------
\* Statements that ask something of the fabric and go on.

\* shmem_putmem_nbi and shmem_putmem; a blocking put has read its source when it returns
PutNbi(from, src, at, len, pe) ==
  [do |-> "put", nbi |-> TRUE, from |-> from, src |-> src, at |-> at, len |-> len, pe |-> pe]
PutMem(from, src, at, len, pe) ==
  [do |-> "put", nbi |-> FALSE, from |-> from, src |-> src, at |-> at, len |-> len, pe |-> pe]
P(slot, value, pe) == [do |-> "p", slot |-> slot, value |-> value, pe |-> pe]
AtomicAdd(slot, value, pe) == [do |-> "add", slot |-> slot, value |-> value, pe |-> pe]
AtomicInc(slot, pe) == AtomicAdd(slot, 1, pe)
Fence == [do |-> "fence"]

\* shcoll's own put with signal, compat.h
shmem_putmem_signal_nb(from, src, at, len, slot, value, pe) ==
  <<PutNbi(from, src, at, len, pe), Fence, P(slot, value, pe)>>
\* one put of one element for each
shmem_iput_nbi(from, src, at, dst, sst, nelems, pe) ==
  [k \in 1..nelems |-> PutNbi(from, src + (k - 1) * sst, at + (k - 1) * dst, 1, pe)]

\* Statements that wait, or that read or write the PE's own memory.

Wait(slot, cmp, value) == [do |-> "wait", slot |-> slot, cmp |-> cmp, value |-> value]
\* a wait after which the variable is read; nobody else writes it in between
Read(slot, cmp, value) == [do |-> "read", slot |-> slot, cmp |-> cmp, value |-> value]
\* shmem_size_atomic_set: a fetching operation, whose answer is waited for
AtomicSet(slot, value, pe) ==
  <<[do |-> "set", slot |-> slot, value |-> value, pe |-> pe], [do |-> "answer"]>>
GetMem(to, at, from, src, len, pe) ==
  [do |-> "get", to |-> to, at |-> at, from |-> from, src |-> src, len |-> len, pe |-> pe]
Copy(to, at, from, src, len) ==
  [do |-> "copy", to |-> to, at |-> at, from |-> from, src |-> src, len |-> len]
\* local_*_reduce(to + at, to + at, from + src, len)
Reduce(to, at, from, src, len) ==
  [do |-> "reduce", to |-> to, at |-> at, from |-> from, src |-> src, len |-> len]
\* a plain store to the PE's own pSync
Store(slot, value) == [do |-> "store", slot |-> slot, value |-> value]
\* util/rotate.c: rotate and rotate_inplace
Rotate(total, dist) == [do |-> "rotate", total |-> total, dist |-> dist]
RotateInplace(total, dist) == [do |-> "rotate_inplace", total |-> total, dist |-> dist]

\* a barrier of the active set, which completes what its members put
Barrier == [do |-> "barrier"]

------------------------------------------------------------------------------
\* util/rotate.c.  rotate copies the end before the start by way of a buffer;
\* rotate_inplace moves arr[k] to arr[j] along the cycles of the same
\* permutation that go through arr[0] to arr[gcd - 1].

rotate(arr, total, dist) ==
  [k \in DOMAIN arr |->
     IF k >= total THEN arr[k]
     ELSE IF k < dist THEN arr[total - dist + k] ELSE arr[k - dist]]

gcd(a, b) ==
  LET step[i \in 0..(a + b)] ==
        IF i = 0 THEN <<a, b>>
        ELSE LET r == step[i - 1][1] % step[i - 1][2]
             IN  IF r = 0 THEN step[i - 1] ELSE <<step[i - 1][2], r>>
  IN  step[a + b][2]

CycleInplace(arr, total, dist, groups) ==
  LET onCycles == {(i + s * (total - dist)) % total : i \in 0..(groups - 1), s \in 0..(total - 1)}
  IN  [k \in DOMAIN arr |->
         IF k \in onCycles THEN arr[IF k < dist THEN total - dist + k ELSE k - dist] ELSE arr[k]]
rotate_inplace(arr, total, dist) ==
  IF dist = 0 THEN arr ELSE CycleInplace(arr, total, dist, gcd(dist, total))

------------------------------------------------------------------------------
\* Parts the algorithms share.

\* util/scan.c.  The PE to add to is an index of the active set.
PartialScan(c, p, x, value, round) ==
  LET received == {k \in 0..(round - 1) : Me(c, p) >= 2^k}
      sum[k \in 0..Cardinality(received)] == IF k = 0 THEN value ELSE sum[k - 1] + Got(x, k) - 1
  IN  sum[Cardinality(received)]
exclusive_prefix_sum(c, p, x, value, pSync) ==
  LET me_as == Me(c, p)
      send(r) == Only(me_as + 2^r < c.n,
                      <<AtomicAdd(pSync + r, PartialScan(c, p, x, value, r) + 1, me_as + 2^r)>>)
      round(r) ==
        Only(me_as >= 2^r, <<Read(pSync + r, "NE", SHCOLL_SYNC_VALUE),
                             P(pSync + r, SHCOLL_SYNC_VALUE, p),
                             Wait(pSync + r, "EQ", SHCOLL_SYNC_VALUE)>>)
        \o send(r + 1)
  IN  send(0) \o Loop(round, 0, Log2(c.n) - 1)
\* what it leaves in *dest, and how many values it read
BlockOffset(c, p, x) ==
  LET value == c.size[Me(c, p)] IN PartialScan(c, p, x, value, Log2(c.n)) - value
ScanReads(c, p) == Cardinality({k \in 0..(Log2(c.n) - 1) : Me(c, p) >= 2^k})

\* util/broadcast-size.c: PE_root is compared with PEs and given to the tree as an index
binomial_tree_radix == 8
broadcast_size(c, p, x, value, PE_root, pSync) ==
  LET known == IF p = PE_root THEN value ELSE Got(x, ScanReads(c, p) + 1) - 1
      children == SetToSeq(KnomialChildrenRoot(c.n, PE_root, binomial_tree_radix, Me(c, p)))
  IN  Only(p # PE_root, <<Read(pSync, "NE", SHCOLL_SYNC_VALUE)>>)
      \o [k \in DOMAIN children |-> P(pSync, known + 1, PEof(c, children[k]))]
      \o <<P(pSync, SHCOLL_SYNC_VALUE, p)>>

\* broadcast.c; the other collectives use them from dest to dest
broadcast_helper_linear(c, p, source, nbytes, PE_root) ==
  LET root == PE_root * c.stride + c.start
  IN  <<Barrier>> \o Only(p # root, <<GetMem("dest", 0, source, 0, nbytes, root)>>) \o <<Barrier>>

broadcast_helper_binomial_tree(c, p, nbytes, PE_root, pSync) ==
  LET me_as == Me(c, p)
      children == SetToSeq(BinomialChildrenRoot(c.n, PE_root, me_as))
      below == IF me_as = PE_root THEN 0 ELSE 1
      send(k) == <<PutNbi("dest", 0, 0, nbytes, PEof(c, children[k])), Fence,
                   AtomicInc(pSync, PEof(c, children[k]))>>
  IN  Only(me_as # PE_root,
           <<Wait(pSync, "NE", SHCOLL_SYNC_VALUE),
             AtomicInc(pSync, PEof(c, BinomialParentRoot(c.n, PE_root, me_as)))>>)
      \o Only(children # <<>>,
              Loop(send, 1, Len(children))
              \o <<Wait(pSync, "EQ", SHCOLL_SYNC_VALUE + Len(children) + below)>>)
      \o <<P(pSync, SHCOLL_SYNC_VALUE, p)>>

==============================================================================
