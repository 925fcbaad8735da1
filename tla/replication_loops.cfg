\* A backup that does not listen yet is erased while it is sent the list.
SPECIFICATION Spec
CONSTANTS
  u1 = u1
  u2 = u2
  Users = {u1, u2}
  Connections = {c1}
  EmptyId = noId
  LogoutIds = {noId}
  Backups = {b1}
  Backlog = 2
  Requests <- OneUserRequests
SYMMETRY Symmetry
INVARIANTS
  LoopsStayValid
