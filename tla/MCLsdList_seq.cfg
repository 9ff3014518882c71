SPECIFICATION Spec
CONSTANTS
  a1 = a1
  a2 = a2
  b = b
  Item = {a1, a2, b}
  Rank <- MCRank
  Pred <- MCPred
  Node = {n1, n2, n3}
  Iter = {i, j}
  NULL = NULL
  Closed = Closed
  LHead = LHead
  Freed = Freed
SYMMETRY MCSymmetry
INVARIANTS
  ChainSound
  IterSound
PROPERTY
  ImplementsSeq
