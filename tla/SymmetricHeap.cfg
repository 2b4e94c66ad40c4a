\* Two PEs, a partition of four grains of two bytes; requests of nothing, of half a
\* grain, of one grain and a half, and of two and a half; up to five calls, so that two
\* blocks can be released in either order and the whole heap asked for again.
CONSTANTS
  PE = {0, 1}
  Height = 2
  GrainLog = 1
  Width = 4
  Sizes = {0, 1, 3, 5}
  MaxCalls = 5
SPECIFICATION Spec
INVARIANTS
  AccessIsSafe
  BlocksApart
  TreeExact
