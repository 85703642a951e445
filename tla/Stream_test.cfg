SPECIFICATION FairSpec
CONSTANTS
  Byte = 2
  Word = 6
  MaxLen = 3
  Iterations = 2
  Buffer = 2
  MaxSignals = 2
INVARIANT OnlySignalsFail
PROPERTIES ChannelSpec TestSucceeds
CHECK_DEADLOCK FALSE
