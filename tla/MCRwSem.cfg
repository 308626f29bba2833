SPECIFICATION FairSpec
CONSTANTS
  Task = {t1, t2, t3, t4}
INVARIANTS
  Exclusion
  WriterAtHead
PROPERTIES
  ImplementsRwLock
  NobodyStarves
