CONSTANTS
  t1 = t1
  t2 = t2
  s1 = s1
  s2 = s2
  s3 = s3
  h1 = h1
  h2 = h2
  u1 = u1
  u2 = u2
  Tenants = {t1, t2}
  Slugs = {s1, s2, s3}
  Hosts = {h1, h2}
  Reserved = {}
  Calls = {c1}
  NoTenant = NoTenant
  Rank <- MCRank
  Limit = 1
  Moves = 2
  Routes = 2
  Faults = 1
  Users = {u1, u2}
  Platform = Platform
  Grants = {g1}
  Keys = {k1}
  Codes = {x1, x2}
  Requests = {r1}
  Logins = {l1, l2}
  NoUser = NoUser
  NoGrant = NoGrant
  Edits = 3
  Campaigns = {p1}
  IdemKeys = {i1, i2, i3, i4}
  Clients = {w1, w2}
  NoKey = NoKey
  Revisions = 4
  Parts <- MCSlugsPart
  Admin = u1
  Slug <- MCSlug
  HostOf <- MCHostOf
  First = h1
SPECIFICATION Spec
INVARIANTS
  AliasesKeepLinks
CHECK_DEADLOCK FALSE
