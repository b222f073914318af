\* Every block of a few moves, streamed alone or after another; and a DMA buffer of four
\* records of three words, more than two laps; steps saturate at the end of the third.
SPECIFICATION StreamsSpec
CONSTANTS
  x = x
  y = y
  PlannerAxes = {x, y}
  MaxStepRate = 3
  NsPerSecond = 200
  SqrtBits = 3
  TimerClock = 43
  PulseTicks = 5
  LowTicks = 10
  MinRecord = 9
  MaxRecord = 16
  StreamBlocks <- MCBlocks
  MaxChain = 300
  Records = 4
  Burst = 3
  Word = 11
  MaxWords = 42
INVARIANTS
  StreamKeepsTime
  FitsOrIsRefused
  HalvesConserved
PROPERTIES
  AnswersInBetween
  StopCountsAll
