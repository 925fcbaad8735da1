\* Four requests in flight: two tweets and two logins, or any other mix.
SPECIFICATION Spec
CONSTANTS
  u1 = u1
  u2 = u2
  Users = {u1, u2}
  Connections = {c1, c2, c3, c4}
  EmptyId = noId
  LogoutIds = {noId}
  EarlierCookie = earlier
  NO_COOKIE = noCookie
  Follows <- OneFollower
SYMMETRY Symmetry
INVARIANTS
  TypeOK
  NotificationKeptOnce
  AnsweredLoginReachable
  ThrowNeedsUnregisteredLogin
  OwnAddress
