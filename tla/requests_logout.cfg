\* A login and a logout.
SPECIFICATION Spec
CONSTANTS
  u1 = u1
  u2 = u2
  Users = {u1, u2}
  Connections = {c1, c2}
  EmptyId = noId
  LogoutIds = {noId}
  EarlierCookie = earlier
  NO_COOKIE = noCookie
  Follows <- OneFollower
INVARIANTS
  LogoutClosesSession
