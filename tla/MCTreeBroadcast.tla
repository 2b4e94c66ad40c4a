--------------------------- MODULE MCTreeBroadcast ---------------------------
(***************************************************************************)
(* Instances of TreeBroadcast over the rooted trees of module Trees.       *)
(***************************************************************************)
EXTENDS TreeBroadcast, Trees, SequencesExt

CONSTANTS
  Size,       \* PE_size
  RootIndex,  \* PE_root
  PEStart     \* PE_start, of an active set of stride 1

MCPE == 0..(Size - 1)

\* the children array of node_info_binomial_t, highest mask first, and one
\* fence for each (broadcast.c:129-134)
BinomialBatches ==
  [p \in MCPE |->
     LET before(c, d) == FromRoot(Size, RootIndex, c) > FromRoot(Size, RootIndex, d)
         children == SetToSortSeq(BinomialChildrenRoot(Size, RootIndex, p), before)
     IN  [i \in DOMAIN children |-> {children[i]}]]
BinomialUp == [p \in MCPE \ {RootIndex} |-> BinomialParentRoot(Size, RootIndex, p)]

\* one fence for all (broadcast.c:75-89)
CompleteBatches ==
  [p \in MCPE |->
     LET children == CompleteChildrenRoot(Size, RootIndex, 2, p)
     IN  IF children = {} THEN <<>> ELSE <<children>>]
CompleteUp == [p \in MCPE \ {RootIndex} |-> CompleteParentRoot(Size, RootIndex, 2, p)]

\* "me_as == PE_root", and the "PE_root == me" of the complete tree, which
\* compares an index of the active set with a PE number
ByIndex == {RootIndex}
ByNumber == {p \in MCPE : PEStart + p = RootIndex}

==============================================================================
