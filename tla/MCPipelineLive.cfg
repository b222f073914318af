\* The shortest axis, one-entry buffers: small enough for liveness under strong fairness.
SPECIFICATION FairSpec
CONSTANTS
  EndSwitch = 2
  MaxBrake = 0
  Margin = 1
  Targets = {0, 1}
  Deltas = {}
  MaxPosition = 1
  QueueCapacity = 1
  PlanCapacity = 1
  BufferCapacity = 1
  LowWatermark = 0
  HomeSteps = 4
PROPERTIES
  HaltedGeneratorResumes
  HomingEnds
