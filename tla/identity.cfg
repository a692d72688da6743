SPECIFICATION Spec
SYMMETRY HandlerSymmetry
CONSTANTS
  u1 = u1
  u2 = u2
  u3 = u3
  r1 = r1
  l1 = l1
  Users = {u1, u2, u3}
  Roles = {r1, l1}
  Super = Super
  NoRole = NoRole
  NoUser = NoUser
  Legacy = Legacy
  Sids = {s1, s2}
  NoSid = NoSid
  Procs = {p1, p2}
  Edits = 3
  Passwords = 3
  Faults = 1
  Links = 2
  TokenIds = {u1, u2, u3, k1}
  NoData = NoData
  MaxTries = 2
  Parts <- MCParts
  Rows <- MCRows
  FirstUsers <- MCUsers
  FirstRoles <- MCRoles
  Account = u1
  Newcomer = u3
INVARIANTS
  ApiCacheCurrent
  LoggedOutByPassword
  ResetOnce
  SetupOnce
PROPERTIES
  LastSuperStays
CHECK_DEADLOCK FALSE
