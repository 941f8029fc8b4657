CONSTANTS
  t1 = t1
  t2 = t2
  t3 = t3
  NoFd = NoFd
  Threads <- MCThreads
SYMMETRY MCSymmetry
SPECIFICATION Spec
\* A handler can block forever on a pipe whose writer a leaked child holds.
CHECK_DEADLOCK FALSE
INVARIANT SlotHoldsIntendedNs
