\* Four slots, positions that wrap every other lap, two distinct events.
SPECIFICATION FairSpec
CONSTANTS
  Event = {e1, e2}
  NoEvent = NoEvent
  Capacity = 4
  Modulus = 8
  LowWatermark = 2
INVARIANTS
  NoLostWakeup
PROPERTIES
  ImplementsFifo
  BlockedProducerWakes
