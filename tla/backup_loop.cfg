SPECIFICATION FairSpec
CONSTANTS
  Messages = 4
  Backlog = 2
  Ahead = 2
  HeartbeatS = 3
  TimeoutS = 6
  FdLimit = 3
CHECK_DEADLOCK FALSE
INVARIANTS
  TypeOK
  HandledInOrder
  NoFalseElection
PROPERTIES
  SilenceIsNoticed
