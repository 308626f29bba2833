SPECIFICATION FairSpec
CONSTANTS
  Task = {t1, t2, t3}
  InitCount = 1
  MaxSupply = 2
INVARIANTS
  PermitsConserved
  NoBarging
  WaitersQueued
PROPERTIES
  EveryWaiterLeaves
