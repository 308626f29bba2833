SPECIFICATION Spec
CONSTANTS
  Reader = {r1, r2}
  Updater = {u1, u2}
  CPU = {p1, p2}
  CountBits = 2
  CompletedBits = 3
SYMMETRY Symmetry
INVARIANTS
  SumExact
  OldRankEmpty
PROPERTIES
  GracePeriod
  NobodyJoins
