SPECIFICATION FairSpec
CONSTANTS
  Caller = {c1, c2}
INVARIANTS
  InfoOutlivesUse
  StopIsFinal
PROPERTIES
  CreateEnds
  StopEnds
