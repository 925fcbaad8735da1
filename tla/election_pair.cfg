\* Two backups, of which one may crash at any moment.
SPECIFICATION FairSpec
CONSTANTS
  b1 = b1
  b2 = b2
  Servers = {b1, b2}
  List <- PairList
  Pid <- PairPid
  Port <- PairPort
  Backlog = 4
INVARIANTS
  TypeOK
  AtMostOneLeader
  LosersDefer
PROPERTIES
  ElectionEnds
