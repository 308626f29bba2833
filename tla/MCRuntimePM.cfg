CHECK_DEADLOCK FALSE
SPECIFICATION RpmSpec
CONSTANTS
  bridge = bridge
  card = card
  NoParent = NoParent
  User = {t1}
  Manager = {t2}
  Device <- Devices
  Parent <- ParentOf
  Used = {card}
  Fault <- Faults
  Puts <- PutCalls
  MaxDepth = 1
INVARIANTS
  HeldIsActive
  CountsExact
  DisabledIsQuiet
  ChangesEnd
PROPERTY
  ResumeNotForgotten
