CONSTANTS
  Tenants = {t1, t2}
  Subs = {s1, s2}
  Lists = {l1}
  e1 = e1
  Emails = {e1}
  Requests = {r1}
  Unused = Unused
  Deleted = Deleted
  None = None
  Actors = {a1, a2}
  Jobs = {j1}
  Keys = {k1}
  Files <- MCFiles
  NoAt = NoAt
  Ragged = Ragged
  BatchSize = 2
  Crashes = 1
  Edits = 3
SPECIFICATION Spec
INVARIANTS
  Isolation
  OneWorker
  CountersAgree
PROPERTIES
  SuppressedStaysOut
  ImplementsLifecycle
  ClaimedJobsEnd
CHECK_DEADLOCK FALSE
