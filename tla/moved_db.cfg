SPECIFICATION Spec
CONSTANTS
  t1 = t1  t2 = t2  t3 = t3
  Test <- Triple
  Clash <- TripleClash
  MaxMoves = 2
INVARIANTS OverlapIsReported SplitLockIsReported
PROPERTY OwnRowOnly
SYMMETRY TripleSymmetry
