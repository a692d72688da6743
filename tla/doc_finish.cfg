\* A campaign is paused before its pipe is in the map and resumed before that pipe
\* has been cleaned up: is everybody sent to when it is finished?
SPECIFICATION Spec
CONSTANTS
  Campaigns = {c1}
  Tenants = {t1}
  TenantOf <- OneTenant
  Subs = {1, 2}
  Audience <- EverybodyIn
  Unrenderable = {}
  Flaky = {}
  KnownMessenger = {c1}
  Workers = {w1}
  Requests = {r1}
  Pipes = {1, 2}
  None = None
  BatchSize = 1
  QueueCap = 1
  NextPipesCap = 1
  MaxSendErrors = 0
  RequestTx = TRUE
  InitStatus = {"running"}
  InitSendAt = {"none"}
  Targets = {"paused", "running"}
  InitSpent <- NothingSpent
  MaxRequests = 2
  MaxFaults = 0
  MaxCrashes = 0
PROPERTIES
  FinishAccountsForAll
