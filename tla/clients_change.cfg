\* Two changes of primary, of which any client may miss the first.
SPECIFICATION FairSpec
CONSTANTS
  s1 = s1
  s2 = s2
  s3 = s3
  Servers = {s1, s2, s3}
  First = s1
  Address <- TwoHosts
  Clients = {c1}
  MaxCommands = 1
INVARIANTS
  TypeOK
  InformedClients
  UnansweredServerEnded
PROPERTIES
  ClientsFollow
