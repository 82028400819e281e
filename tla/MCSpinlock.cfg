CONSTANTS
  c1 = c1
  c2 = c2
  outer = outer
  inner = inner
  NULL = NULL
  CPU = {c1, c2}
  Lock = {outer, inner}
  Rank <- MCRank
  MaxNest = 2
SPECIFICATION Spec
INVARIANTS MutualExclusion NoPanic InterruptFlagRestored IInv
PROPERTIES RefinesLock
