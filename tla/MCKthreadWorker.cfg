SPECIFICATION WorkerFairSpec
CONSTANTS
  Work = {w1, w2}
  Task = {t1}
  SeqBits = 3
  FirstSeq = 7
  MaxQueue = 2
  MaxStop = 1
INVARIANTS
  WorkAccounted
PROPERTIES
  FlushCompletePlain
  WorkerFlushComplete
  FlushEnds
