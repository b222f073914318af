\* Moves that meet either switch at speed, switches that bounce over a step.
SPECIFICATION Spec
CONSTANTS
  EndSwitch = 2
  MaxBrake = 1
  Slack = 0
  BounceSteps = 1
  MaxSteps = 3
  Word = 8
INVARIANTS
  BrakesFromTheEdge
  StepsAccounted
PROPERTIES
  LatchedAtTheEdge
  StoppedStaysStopped
