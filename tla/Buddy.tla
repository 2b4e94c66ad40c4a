-------------------------------- MODULE Buddy ---------------------------------
(***************************************************************************)
(* The buddy allocator of a partition heap (api/allocator/memalloc.c).     *)
(* Units are grains of 2^BUDDY_GRAIN_LOG bytes.  tree[idx] is the exponent *)
(* of the largest free block under node idx, -1 if there is none; node 0   *)
(* is the whole heap and the children of idx are 2 idx + 1 and 2 idx + 2.  *)
(***************************************************************************)
EXTENDS Integers

CONSTANT Height       \* bp->height: the heap has 2^Height units

ASSUME HeightAssumption == Height \in Nat

Node == 0..(2^(Height + 1) - 2)

NoBlock == -1

\* idx and the nodes above it, by how far up; UpTo(idx) is how far the root is
Up(idx, k) == (idx + 1) \div 2^k - 1
UpTo(idx) == CHOOSE k \in 0..Height : Up(idx, k) = 0
Level(idx) == Height - UpTo(idx)
Above(idx) == {Up(idx, k) : k \in 1..UpTo(idx)}

Leaf(offset) == 2^Height - 1 + offset

\* get_idx_offset: the first unit of a node
Offset(idx) == (idx + 1) * 2^Level(idx) - 2^Height

\* buddy_new
New == [idx \in Node |-> Level(idx)]

Larger(a, b) == IF a > b THEN a ELSE b

\* the units a block of exponent e has: none for -1
pow2(e) == IF e >= 0 THEN 2^e ELSE 0

\* The tree with a value at idx and every node above it recomputed from its
\* children, bottom up.
Refreshed(tree, idx, value, join(_, _, _)) ==
  LET new[i \in Node] ==
        IF i = idx THEN value
        ELSE IF i \in Above(idx) THEN join(Level(i), new[2 * i + 1], new[2 * i + 2])
        ELSE tree[i]
  IN  new

------------------------------------------------------------------------------
\* buddy_alloc

\* the exponent of n units rounded up to a power of two
Exponent(n) == CHOOSE e \in 0..Height : 2^e >= n /\ (e = 0 \/ 2^(e - 1) < n)

Fits(tree, n) == n # 0 /\ pow2(tree[0]) >= n

\* the way down to a block of exponent e: left wherever there is one
GoLeft(tree, left, e) == left                         \* slip: no look at what is left
Choice(tree, left, e) == IF pow2(tree[left]) >= 2^e THEN left ELSE left + 1

Place(tree, e) ==
  LET at[level \in e..Height] ==
        IF level = Height THEN 0 ELSE Choice(tree, 2 * at[level + 1] + 1, e)
  IN  at[e]

Taken(tree, idx) ==
  LET join(level, left, right) == Larger(left, right)
  IN  Refreshed(tree, idx, NoBlock, join)

------------------------------------------------------------------------------
\* buddy_free

\* the allocated block an offset starts: the first -1 from the leaf up
Owner(tree, offset) ==
  LET marked == {k \in 0..Height : tree[Up(Leaf(offset), k)] = NoBlock}
  IN  Up(Leaf(offset), CHOOSE k \in marked : \A j \in marked : k <= j)

\* two free buddies become one block
NotMerged(level, left, right) == Larger(left, right)  \* slip: never one block again
Merged(level, left, right) ==
  IF left = right /\ left = level - 1 THEN level ELSE Larger(left, right)

Freed(tree, offset) ==
  LET idx == Owner(tree, offset)
  IN  Refreshed(tree, idx, Level(idx), Merged)

==============================================================================
