\* shcoll_barrier_binomial_tree on four PEs (0 over 2 and 1; 2 over 3), three
\* barriers in a row; every reset may land late, over the pokes of the next barrier.
\* The trees of every active set of up to 16 PEs, every root, radix (degree) 2 to 4.
CONSTANTS
  Size = 4
  PE <- MCPE
  Root = 0
  Parent <- BinomialUp
  Children <- BinomialDown
  Below <- BinomialBelow
  WithQuiet = TRUE
  MaxEpoch = 3
  MaxSize = 16
  Radices = {2, 3, 4}
SPECIFICATION Spec
INVARIANTS
  IInv
  BarrierSafety
  DroppedPokeStops
  BarrierCompletesPuts
  ViewsMakeATree
  KnomialShape
PROPERTIES
  ImplementsBarrier
  BarrierEnds
