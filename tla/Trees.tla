-------------------------------- MODULE Trees --------------------------------
(***************************************************************************)
(* The trees of shcoll/src/util/trees.c.  Each get_node_info_* computes,   *)
(* from the node's own index only, its parent and its children; nothing in *)
(* the code compares what two PEs computed.  Nodes are 0..size-1 and       *)
(* children are sets: the order of the children array is abstracted.       *)
(***************************************************************************)
EXTENDS Integers

NoNode == -1

------------------------------------------------------------------------------
\* Binomial tree.  Node indices are C ints, so masks are 2^0 .. 2^30.

Masks == {2^i : i \in 0..30}

\* node & ~(node - 1): the lowest bit that is set in a positive node
LowBit(node) == CHOOSE m \in Masks : node % m = 0 /\ (node \div m) % 2 = 1

BinomialParent(node) == IF node = 0 THEN NoNode ELSE node - LowBit(node)

\* node | mask for every mask under the lowest bit, as far as the tree goes
BinomialChildren(size, node) ==
  {c \in {node + m : m \in {k \in Masks : node = 0 \/ k < LowBit(node)}} :
     c < size}

------------------------------------------------------------------------------
\* K-nomial tree: a segment is cut in k parts of dist nodes, the first node
\* of a part is the child of the first node of the segment.

Half(left, right, k) == (right - left + 1) \div 2   \* slip: the radix is ignored
Dist(left, right, k) == (right - left + k - 1) \div k

\* one turn of "Find and set parent"
Narrow(seg, k, node) ==
  LET dist == Dist(seg.left, seg.right, k)
      part == (node - seg.left) \div dist
      end  == seg.left + (part + 1) * dist
  IN  [left   |-> seg.left + part * dist,
       right  |-> IF end > seg.right THEN seg.right ELSE end,
       parent |-> seg.left]

\* the segment node is the first of, and the node it was cut from
KnomialSegment(size, k, node) ==
  LET walk[i \in 0..size] ==
        IF i = 0 THEN [left |-> 0, right |-> size, parent |-> NoNode]
        ELSE LET seg == walk[i - 1]
             IN  IF seg.left = node THEN seg ELSE Narrow(seg, k, node)
  IN  walk[size]

KnomialParent(size, k, node) == KnomialSegment(size, k, node).parent

\* "Set children": the other parts of the segment, then those of its first
\* part, down to a part of one node
KnomialChildren(size, k, node) ==
  LET seg == KnomialSegment(size, k, node)
      under[right \in (seg.left + 1)..seg.right] ==
        LET dist == Dist(seg.left, right, k)
            last == (right - seg.left - 1) \div dist
        IN  IF last = 0 THEN {}
            ELSE {seg.left + dist * j : j \in 1..last} \cup under[seg.left + dist]
  IN  under[seg.right]

------------------------------------------------------------------------------
\* Complete tree.

CompleteParent(degree, node) ==
  IF node = 0 THEN NoNode ELSE (node - 1) \div degree

\* children_begin .. children_end - 1
CompleteChildren(size, degree, node) ==
  LET begin == node * degree + 1
      end   == begin + degree
  IN  begin .. ((IF end > size THEN size ELSE end) - 1)

------------------------------------------------------------------------------
\* The *_root variants: the same tree with its indices rotated.

\* the node's index as seen from the root, and back
FromRoot(size, root, node) ==
  IF root <= node THEN node - root ELSE node - root + size
ToRoot(size, root, node) ==
  IF node + root < size THEN node + root ELSE node + root - size

RootedParent(size, root, parent) ==
  IF parent = NoNode THEN NoNode ELSE ToRoot(size, root, parent)
UnrotatedChildren(size, root, children) == children  \* slip: not rotated back
RootedChildren(size, root, children) ==
  {ToRoot(size, root, c) : c \in children}

BinomialParentRoot(size, root, node) ==
  RootedParent(size, root, BinomialParent(FromRoot(size, root, node)))
BinomialChildrenRoot(size, root, node) ==
  RootedChildren(size, root, BinomialChildren(size, FromRoot(size, root, node)))

KnomialParentRoot(size, root, k, node) ==
  RootedParent(size, root, KnomialParent(size, k, FromRoot(size, root, node)))
KnomialChildrenRoot(size, root, k, node) ==
  RootedChildren(size, root, KnomialChildren(size, k, FromRoot(size, root, node)))

CompleteParentRoot(size, root, degree, node) ==
  RootedParent(size, root, CompleteParent(degree, FromRoot(size, root, node)))

\* children_begin and children_end are each rotated; the callers go from one
\* to the other modulo the size of the tree
CompleteChildrenRoot(size, root, degree, node) ==
  LET children == CompleteChildren(size, degree, FromRoot(size, root, node))
  IN  IF children = {} THEN {}
      ELSE LET begin == ToRoot(size, root,
                          FromRoot(size, root, node) * degree + 1)
               past  == FromRoot(size, root, node) * degree + 1 + degree
               end   == ToRoot(size, root, IF past > size THEN size ELSE past)
           IN  IF begin <= end THEN begin..(end - 1)
               ELSE (begin..(size - 1)) \cup (0..(end - 1))

------------------------------------------------------------------------------
\* What a tree is, on functions from nodes: the reference definition.

\* the nodes on the way up from a node, itself included
Ancestors(size, parent, node) ==
  LET up[i \in 0..size] ==
        IF i = 0 THEN {node}
        ELSE LET sofar == up[i - 1]
             IN  sofar \cup {parent[a] : a \in {b \in sofar : parent[b] # NoNode}}
  IN  up[size]

\* each node with all there is under it
Subtree(size, parent) ==
  [n \in 0..(size - 1) |->
     {d \in 0..(size - 1) : n \in Ancestors(size, parent, d)}]

==============================================================================
