\* End switch at 3, up to two braking steps, moves longer than the axis.
SPECIFICATION FairSpec
CONSTANTS
  EndSwitch = 3
  MaxBrake = 2
  Margin = 4
  MaxSteps = 6
INVARIANTS
  OvershootBounded
PROPERTIES
  NeverStepsOntoSwitch
  ZeroedOnStartSwitch
  RequestedStopStops
