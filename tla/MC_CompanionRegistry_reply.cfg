CONSTANTS
  r1 = r1
  r2 = r2
  r3 = r3
  None = None
  Requests <- MCRequests
  MaxSpawns <- MCMaxSpawns
SYMMETRY MCSymmetry
SPECIFICATION Spec
INVARIANT ReplyMatchesDecision
