\* The importer and the bounce manager.
SPECIFICATION Spec
CONSTANTS
  m1 = m1
  m2 = m2
  e1 = e1
  c1 = c1
  k1 = k1
  t1 = t1
  t2 = t2
  Parts = {"import", "bounces"}
  Batch = 2
  Files <- MCFiles
  Stoppers = {r1, r2}
  Troubles = 2
  Mails = {m1, m2}
  Events = {e1}
  Names <- MCNames
  Contacts = {c1}
  Campaigns = {k1}
  Tenants = {t1, t2}
  Default = t1
  Owned <- MCOwned
  Bodies <- MCBodies
  Handlers = {w1, w2}
  Cap = 1
  Limit = 1
  Upsets = 1
  Posts = 2
INVARIANTS
  OneImport
  ImportAccounts
  MailOnce
PROPERTIES
  ImportSettles
  ResolvedAlone
  HooksAnswered
CHECK_DEADLOCK FALSE
