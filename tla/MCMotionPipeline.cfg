\* Two positions short of the end switch, one braking step, buffers of one or two.
SPECIFICATION FairSpec
CONSTANTS
  EndSwitch = 3
  MaxBrake = 1
  Margin = 2
  Targets = {1, 2}
  Deltas = {1}
  MaxPosition = 2
  QueueCapacity = 1
  PlanCapacity = 1
  BufferCapacity = 2
  LowWatermark = 1
  HomeSteps = 6
INVARIANTS
  TypeOK
  PositionTrusted
  ResetsAtRest
