\* A login or a follow while two backups join.
SPECIFICATION Spec
CONSTANTS
  u1 = u1
  u2 = u2
  Users = {u1, u2}
  Connections = {c1}
  EmptyId = noId
  LogoutIds = {noId}
  Backups = {b1, b2}
  Backlog = 2
  Requests <- OneUserRequests
SYMMETRY Symmetry
INVARIANTS
  TypeOK
  NothingInvented
  AdditionsReachBackups
  ListsAgree
