CHECK_DEADLOCK FALSE
SPECIFICATION FairSpec
CONSTANTS
  WakeDevice = {d1, d2}
  Source = {s1, s2}
  Admin = {a1}
  Bits = 2
  CountBits = 1
  MaxEvents = 2
INVARIANTS
  InProgressExact
  SleepSafe
  FreedSourceQuiet
PROPERTY TimedDisableReturns
