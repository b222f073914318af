\* Two slots, two distinct blocks, counters that saturate at 3.
SPECIFICATION FairSpec
CONSTANTS
  Block = {b1, b2}
  NoBlock = NoBlock
  Capacity = 2
  CounterMax = 3
INVARIANTS
  CountersConserved
  SnapshotConsistent
PROPERTIES
  ImplementsFifo
  GeneratorIsServed
