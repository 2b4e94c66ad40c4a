\* Three threads: two on PE 0, whose number is also the value of an unset
\* field, and one on PE 1.
CONSTANTS
  PE = {0, 1}
  t1 = t1
  t2 = t2
  t3 = t3
  Thread <- MCThread
  PEOf <- MCPEOf
  NoThread = NoThread
SPECIFICATION Spec
INVARIANTS
  IInv
  MutualExclusion
  HolderSeesLastWrite
  NeverChained
PROPERTIES
  ImplementsLock
