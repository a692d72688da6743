\* One campaign, two workers: pause, resume, cancel and delete race with the batch
\* loop, the workers and the cleanup.
SPECIFICATION Spec
CONSTANTS
  Campaigns = {c1}
  Tenants = {t1}
  TenantOf <- OneTenant
  Subs = {1, 2}
  Audience <- EverybodyIn
  Unrenderable = {}
  Flaky = {}
  KnownMessenger = {c1}
  Workers = {w1, w2}
  Requests = {r1}
  Pipes = {1, 2}
  None = None
  BatchSize = 1
  QueueCap = 1
  NextPipesCap = 1
  MaxSendErrors = 0
  RequestTx = TRUE
  InitStatus = {"running"}
  InitSendAt = {"none"}
  Targets = {"paused", "running", "cancelled", "deleted"}
  InitSpent <- NothingSpent
  MaxRequests = 2
  MaxFaults = 0
  MaxCrashes = 0
INVARIANTS
  OnePipePerCampaign
  DrainedBeforeCleanup
  NoSecondAttempt
SYMMETRY WorkerSymmetry
