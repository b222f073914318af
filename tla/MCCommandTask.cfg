\* Three frames; any reply pauses reading until the client takes it off the connection.
SPECIFICATION FairSpec
CONSTANTS
  MaxFrames = 3
  Kinds = {"command", "stop", "refused", "badheader"}
  QueueCapacity = 1
  AckSize = 1
  ErrorSize = 2
  TxSize = 4
  SendBuffer = 1
  SendLowAt = 0
INVARIANTS
  NeverOutOfRoom
  AnswerTellsFate
PROPERTIES
  AcksInOrder
  EveryFrameAnswered
CHECK_DEADLOCK FALSE
