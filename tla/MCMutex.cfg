SPECIFICATION FairSpec
CONSTANTS
  Task = {t1, t2, t3}
INVARIANTS
  MutualExclusion
  ListMatches
  NoLostWakeup
PROPERTIES
  FreeMutexIsTaken
  WaitersDrain
