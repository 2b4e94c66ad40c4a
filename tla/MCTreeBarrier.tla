---------------------------- MODULE MCTreeBarrier ----------------------------
(***************************************************************************)
(* Instances of TreeBarrier: active sets of a few PEs, over each of the    *)
(* trees trees.c builds; and those trees themselves, of every size, root   *)
(* and radix up to a bound, against the reference definition of a tree.    *)
(***************************************************************************)
EXTENDS TreeBarrier, Trees

CONSTANTS
  Size,              \* PE_size
  MaxSize, Radices   \* bounds of the trees looked at

IntMax == 2147483647   \* INT_MAX

\* What get_node_info_* compute from a node fits a C int, and a tree branches.
ASSUME TreesAssumption ==
  /\ MaxSize \in Nat
  /\ Radices \subseteq Nat \ {0, 1}
  /\ \A k \in Radices : MaxSize * k <= IntMax

MCPE == 0..(Size - 1)

\* get_node_info_binomial, the default barrier
BinomialUp == [n \in 1..(Size - 1) |-> BinomialParent(n)]
BinomialDown == [n \in MCPE |-> BinomialChildren(Size, n)]
BinomialBelow == Subtree(Size, [n \in MCPE |-> BinomialParent(n)])

\* get_node_info_complete, of degree 2
CompleteUp == [n \in 1..(Size - 1) |-> CompleteParent(2, n)]
CompleteDown == [n \in MCPE |-> CompleteChildren(Size, 2, n)]
CompleteBelow == Subtree(Size, [n \in MCPE |-> CompleteParent(2, n)])

\* get_node_info_knomial, of radix 3
KnomialUp == [n \in 1..(Size - 1) |-> KnomialParent(Size, 3, n)]
KnomialDown == [n \in MCPE |-> KnomialChildren(Size, 3, n)]
KnomialBelow == Subtree(Size, [n \in MCPE |-> KnomialParent(Size, 3, n)])

------------------------------------------------------------------------------
\* Every tree up to the bound, as the get_node_info_*_root functions tell it to
\* each of its nodes.

Inputs == UNION {{size} \X (0..(size - 1)) \X Radices : size \in 1..MaxSize}

TreesOf(size, root, radix) ==
  LET nodes == 0..(size - 1)
  IN  {[parent   |-> [n \in nodes |-> BinomialParentRoot(size, root, n)],
        children |-> [n \in nodes |-> BinomialChildrenRoot(size, root, n)]],
       [parent   |-> [n \in nodes |-> KnomialParentRoot(size, root, radix, n)],
        children |-> [n \in nodes |-> KnomialChildrenRoot(size, root, radix, n)]],
       [parent   |-> [n \in nodes |-> CompleteParentRoot(size, root, radix, n)],
        children |-> [n \in nodes |-> CompleteChildrenRoot(size, root, radix, n)]]}

IsTree(t, size, root) ==
  LET nodes == 0..(size - 1)
      below == Subtree(size, t.parent)
  IN  /\ \A n, c \in nodes : c \in t.children[n] <=> t.parent[c] = n
      /\ \A n \in nodes : t.children[n] \subseteq nodes
      /\ \A n \in nodes : t.parent[n] = NoNode <=> n = root
      /\ below[root] = nodes
      /\ \A n \in nodes : below[n] = {n} \cup UNION {below[c] : c \in t.children[n]}
      /\ \A n \in nodes : \A c \in t.children[n] : n \notin below[c]
NotTrees ==
  {input \in Inputs : \E t \in TreesOf(input[1], input[2], input[3]) : ~IsTree(t, input[1], input[2])}

\* how many nodes the k-nomial tree of so many levels may have: the powers of the radix
Room(size, radix) ==
  LET room[l \in 0..size] == IF l = 0 THEN 1 ELSE radix * room[l - 1]
  IN  room

\* at most ceil(log_k size) levels, of at most k - 1 children each
IsKnomial(size, root, radix) ==
  LET nodes == 0..(size - 1)
      up == [n \in nodes |-> KnomialParentRoot(size, root, radix, n)]
      room == Room(size, radix)
      levels == CHOOSE l \in 0..size : room[l] >= size /\ \A m \in 0..(l - 1) : room[m] < size
  IN  \A n \in nodes :
        /\ Cardinality(Ancestors(size, up, n)) - 1 <= levels
        /\ Cardinality(KnomialChildrenRoot(size, root, radix, n)) <= (radix - 1) * levels
NotKnomial == {input \in Inputs : ~IsKnomial(input[1], input[2], input[3])}

\* The trees do not depend on the state: Init is there to look at them once.

\* Each node computes its own place and nothing compares what two nodes computed
\* (trees.c:34-70,123-178,202-242): yet a node is in the list of children of exactly
\* the node it takes for its parent, the root alone takes none, everybody hangs under
\* the root and nobody under a child of its own.  It is what TreeBarrier and
\* TreeBroadcast assume of their tree (TreeAssumption).
ViewsMakeATree == Init => NotTrees = {}

\* The shape that makes the k-nomial algorithms logarithmic and the children array of
\* node_info_knomial_t long enough (trees.h:22-23).
KnomialShape == Init => NotKnomial = {}

==============================================================================
