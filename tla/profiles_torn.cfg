\* A follow and a login at the same time.
SPECIFICATION Spec
CONSTANTS
  Users = {u1, u2}
  Connections = {c1, c2}
  EmptyId = noId
  NoText = noText
  LogoutIds = {noId}
INVARIANTS
  EventsAreTrue
