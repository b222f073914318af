\* The shortest travel with room for the take-up and the measured move.
SPECIFICATION ProcedureSpec
CONSTANTS
  EndSwitch = 3
  MaxBrake = 1
  Slack = 1
  BounceSteps = 1
  MaxSteps = 8
  Word = 16
  TakeUpSteps = 1
  MeasureSteps = 2
INVARIANTS
  HomedAtTheEdge
  ArmedWhileHoming
PROPERTIES
  MeasuredRight
  OkMeansHome
