\* Three threads of one user, which meet on the sessions' lock; no symmetry,
\* which liveness checking would not allow.
SPECIFICATION FairSpec
CONSTANTS
  Users = {u1}
  Connections = {c1, c2, c3}
  EmptyId = noId
  NoText = noText
  LogoutIds = {c1, noId}
PROPERTIES
  EveryCallReturns
