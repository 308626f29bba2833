SPECIFICATION Spec
CONSTANTS
  General = {r1, r2}
  Flusher = {r3, r4}
  Request <- AllRequests
  Capabilities <- AllCapabilities
  Asks <- AllAsks
SYMMETRY AnyOrder
INVARIANTS
  SequencedAccounted
  NeverStalls
PROPERTY Durable
