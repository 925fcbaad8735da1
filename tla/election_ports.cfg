\* Two backups, on two hosts, whose ports are equal.
SPECIFICATION Spec
CONSTANTS
  b1 = b1
  b2 = b2
  Servers = {b1, b2}
  List <- PairList
  Pid <- PairPid
  Port <- SamePort
  Backlog = 4
INVARIANTS
  AtMostOneLeader
