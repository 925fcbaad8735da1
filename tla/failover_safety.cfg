SPECIFICATION MCSpec
CONSTANTS
  s1 = s1
  s2 = s2
  s3 = s3
  s4 = s4
  Servers = {s1, s2, s3, s4}
  Host <- SomeHosts
  Pid <- SomePids
  MaxPid = 32767
  Ports = {6001, 65535}
  MaxCrashes = 2
  OnTime = {s1, s4}
CHECK_DEADLOCK FALSE
INVARIANTS
  TypeOK
  OnePrimary
  ListsComplete
  TakesOver

  
