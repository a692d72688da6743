\* Two campaigns of two tenants, one of them without subscribers, share the queues,
\* a third has an unknown messenger; or one campaign alone is paused and resumed.  A
\* message that does not render, a failing statement and fairness: all that starts ends.
SPECIFICATION MCSpec
CONSTANTS
  Campaigns = {c1, c2, c3}
  Tenants = {t1, t2}
  TenantOf <- SecondApart
  Subs = {1, 2}
  Audience <- SecondIsEmpty
  Unrenderable = {1}
  Flaky = {}
  KnownMessenger = {c1, c2}
  Workers = {w1}
  Requests = {r1}
  Pipes = {1, 2}
  None = None
  BatchSize = 2
  QueueCap = 1
  NextPipesCap = 1
  MaxSendErrors = 0
  RequestTx = TRUE
  InitStatus = {"scheduled", "running", "finished"}
  InitSendAt = {"none", "past"}
  InitSpent <- AnySpent
  Targets = {"paused", "running"}
  MaxRequests = 2
  MaxFaults = 1
  MaxCrashes = 0
  c1 = c1
  c2 = c2
  c3 = c3
  t1 = t1
  t2 = t2
INVARIANTS
  WaitGroupCounts
PROPERTIES
  PipesEnd
  ActiveCampaignsEnd
