\* Two axes that are calibrated, homed and moved in any order.
SPECIFICATION PathSpec
CONSTANTS
  Axes = {x, y}
  PlannerAxes = {x, y}
  StreamAxes = {x, y}
  MaxStepRate = 3
  NsPerSecond = 200
  SqrtBits = 3
  Targets <- MCTargets
  Feedrates = {1, 2, 3}
  Calibrations <- MCCalibrations
INVARIANTS
  BlockPlayedExactly
  NoDrift
  SpeedAsPlanned
PROPERTIES
  GeneratorImplemented
