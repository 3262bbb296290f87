SPECIFICATION Spec
CONSTANTS
  Capacity = 1
  ChannelSize = 1
  MaxBuffer = 2
  Ttl = 1
  MaxReplies = 1
  MaxSessions = 2
  Request = 3
  Answer = 2
  BufSize = 2
  HelloSizes = {0, 2, 4}
  BufferSize = 3
  MaxSent = 4
CHECK_DEADLOCK FALSE
INVARIANTS SessionsOwned SentInOrder NoWakerLost EofAfterAll SniffKeepsBytes
PROPERTIES SessionsEnd AnswerArrives SniffDecides
