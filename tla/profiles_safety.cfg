\* Three concurrent calls: two writers and a reader of one lock, or a writer of
\* each lock and a third thread.
SPECIFICATION Spec
CONSTANTS
  Users = {u1, u2}
  Connections = {c1, c2, c3}
  EmptyId = noId
  NoText = noText
  LogoutIds = {c1, c2, c3, noId}
SYMMETRY Symmetry
INVARIANTS
  TypeOK
  SessionLimit
  FollowOnce
  FollowInverse
PROPERTIES
  SnapshotStable
  Linearizable
