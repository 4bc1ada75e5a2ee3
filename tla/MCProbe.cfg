SPECIFICATION ProbeSpec
CONSTANTS
  N = 4
  Capacity = 2
  Timeout = 2
  NoLimit = NoLimit
  MaxResolving = 21
  WriteTimeout = 20
  ReadTimeout = 15
  MaxSpeedBytes = 5
  DefaultSpeedBytes = 3
  Chunk = 2
  EchoRead = 3
  EchoWrite = 2
  MaxMessages = 3
INVARIANTS
  CountersAreRight
  NoTimeoutInTheQueue
  AnswersAreDelivered
  TransfersAreCounted
  EchoesInOrder
PROPERTIES
  ImplementsSweep
  EveryRequestEnds
CHECK_DEADLOCK FALSE
