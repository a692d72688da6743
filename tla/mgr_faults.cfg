\* One campaign from every status: a message that is not sent,
\* the error threshold, a failing statement, a crash and a request for any status.
SPECIFICATION Spec
CONSTANTS
  Campaigns = {c1}
  Tenants = {t1}
  TenantOf <- OneTenant
  Subs = {1, 2}
  Audience <- EverybodyIn
  Unrenderable = {}
  Flaky = {1}
  KnownMessenger = {c1}
  Workers = {w1}
  Requests = {r1}
  Pipes = {1, 2}
  None = None
  BatchSize = 2
  QueueCap = 2
  NextPipesCap = 1
  MaxSendErrors = 1
  RequestTx = FALSE
  InitStatus = {"draft", "scheduled", "running"}
  InitSendAt = {"none", "future"}
  Targets = {"draft", "scheduled", "running", "paused", "cancelled", "finished", "unscheduled", "rescheduled", "deleted"}
  InitSpent <- NothingSpent
  MaxRequests = 1
  MaxFaults = 1
  MaxCrashes = 1
INVARIANTS
  CheckpointAccounts
  OnlyCleanupRepeats
  OverrunBounded
PROPERTIES
  ExhaustedAccountsForAll
