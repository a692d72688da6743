\* One user who may see all lists and manages none
SPECIFICATION Spec
CONSTANTS
  admin = admin
  clerk = clerk
  viewer = viewer
  l1 = l1
  l2 = l2
  Subs = {s1}
  Lists = {l1, l2}
  Users = {viewer}
  SuperAdmins = {}
  Perms <- MCPerms
  ListPerms <- MCListPerms
  NoList = NoList
  Nobody = Nobody
  Requests = {r1}
  BounceCount = 1
  BounceAction = "blocklist"
  AllowBlocklist = TRUE
  AllowPreferences = TRUE
  AllowWipe = TRUE
  Kinds <- MCKinds
  Filters = {"none"}
PROPERTIES
  PermissionlessPreserved
