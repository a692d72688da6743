\* One subscriber, two lists, two users and two requests in progress
SPECIFICATION Spec
CONSTANTS
  admin = admin
  clerk = clerk
  viewer = viewer
  l1 = l1
  l2 = l2
  Subs = {s1}
  Lists = {l1, l2}
  Users = {admin, clerk}
  SuperAdmins = {admin}
  Perms <- MCPerms
  ListPerms <- MCListPerms
  NoList = NoList
  Nobody = Nobody
  Requests = {r1}
  BounceCount = 1
  BounceAction = "blocklist"
  AllowBlocklist = TRUE
  AllowPreferences = TRUE
  AllowWipe = TRUE
  Kinds <- MCKinds
  Filters = {"none"}
INVARIANTS
  TypeOK
  ReadScope
PROPERTIES
  BlocklistStays
  ConsentKept
  ScopeKept
VIEW vars
