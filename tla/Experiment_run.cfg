SPECIFICATION FairSpec
CONSTANTS
  Blocks = 1
  WithControl = TRUE
  Duration = 1
  Minute = 2
  Late = 1
  SocketBuffer = 2
  BaseFd = 1
  MaxFd = 3
  MaxCounter = 2
INVARIANTS TypeOK LinesReachLog BalancedSample LabelsCaughtUp ControlIsQuiet
PROPERTIES ControlEndsClient ExperimentEnds
