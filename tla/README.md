# MailView in TLA+

MailView is a multi-tenant fork of listmonk, a mailing list manager in Go over
PostgreSQL. This directory holds TLA+ models of the parts of it whose state changes
under concurrency, the TLC configurations that check them, and TLAPS proofs about them.
All paths below are relative to `src/`.

1. [Inventory](#inventory) - the system, its state, its operations, its hard parts
2. [What is modelled](#what-is-modelled) - module by module
3. [What the runs show](#what-the-runs-show) - bounds, properties, fairness
4. [Where the code and what is said of it disagree](#where-the-code-and-what-is-said-of-it-disagree)
5. [What is proved](#what-is-proved)
6. [What is not modelled](#what-is-not-modelled)
7. [Plan](#plan)

To check: `tlc -config control.cfg MCControlPlane.tla` (the table of runs names the
module of each `.cfg`), `tlapm ControlPlaneProofs.tla`.

## Inventory

| component | code | state | operations | what makes it correct |
|---|---|---|---|---|
| campaign manager | `internal/manager/{manager,pipe}.go` | map of pipes, channels `nextPipes`, `campMsgQ`; per pipe a waitgroup, `stopped`, `withErrors`, `errors`, `lastID`, `sent` | `scanCampaigns`, `Run`, `worker`, `cleanup`, `StopCampaign` | one pipe per campaign; every message released once; nobody mailed twice or passed over; pipes end |
| campaign store and endpoints | `cmd/manager_store.go`, `cmd/campaigns.go`, `queries/campaigns.sql` | `campaigns` rows | next campaigns, batches, counts, status, edits | statements keep their meaning when they interleave |
| subscribers, lists, subscriptions | `internal/core/{subscribers,lists}.go`, `cmd/{subscribers,lists,public}.go`, `queries/{subscribers,lists}.sql` | rows with statuses, cascades | edits, PATCH, bulk changes, forms, opt-in, unsubscribe, wipe | the blocklist and an unsubscription last; a limited user stays in the lists permitted |
| tenant contacts | `internal/mailview/dataplane`, `cmd/mailview_dataplane.go` | the same tables under row level security, suppression | edits on a tenant host, governance | tenants are apart; who is suppressed stays out |
| tenant import jobs | `internal/mailview/{importjob,job}`, `cmd/mailview_import.go` | job rows, stored files, envelopes | create, process, cancel, fail | a job has one worker and ends; counts add up |
| tenants, slugs, domains, plans | `internal/mailview/control/{service,slugs,domains,platform}.go` | tenants, aliases, domain rows, quotas | create, rename, verify, revalidate, revoke | an old slug leads home; a lost domain leaves routing |
| roles, MFA, impersonation, API keys | `internal/mailview/control/{rbac,mfa,impersonation,api_keys,service}.go`, `cmd/mailview.go` | memberships, roles, denials, codes, grants, keys | assign, deny, enrol, use, start, approve, revoke, request | a role stays in its tenant; a code is used once; a grant gives what it says |
| approval workflow | `internal/mailview/control/campaign_workflow.go` | a row and events per campaign | `TransitionCampaign` | only listed transitions, each recorded once |
| users, roles, sessions | `internal/{core,auth}`, `cmd/{users,roles,auth}.go` | users, roles, sessions, a cache of API users | edits, log-ins, resets, set-up | the cache follows the rows; a new password logs out; a super admin stays |
| one-time tokens | `internal/tmptokens` | a map behind a mutex | `Set`, `Check`, `Get`, `Delete` | at most 15 tries and one use |
| subscriber importer | `internal/subimporter`, `cmd/import.go` | one status, a stop channel, a queue of rows | `NewSession`, `Start`, `LoadCSV`, `Stop` | one session at a time; it accounts for its rows and ends |
| bounces | `internal/bounce`, `cmd/bounce.go`, `cmd/init.go` | a channel, mailbox, bounce rows | scan, webhook, record | a mail is recorded once, in the tenant it belongs to |
| the rest | templates, media, messengers, settings, migrations, front end, docs | rows, files | single statements, I/O | see [below](#what-is-not-modelled) |

**How they interact.** Everything meets in the database. HTTP handlers of a tenant run
in one transaction with a tenant setting (`mailviewDataPerm`); the others run a few
statements, each its own transaction, and keep what they read in between. The manager
polls campaigns and mails the subscribers whose status and subscriptions the contact
components decide; the approval workflow writes the same campaign rows as the campaign
endpoints; imports and bounces write subscribers; the host of a request selects the
tenant through slugs and domains, and its permission comes from roles, denials and
grants that are read in several queries. A change of settings or a signal executes the
binary again: pipes, queues, workers, tokens and caches are lost, rows and files stay.

**What is hard.** Handlers and goroutines that read, go away and write what they read
(PATCH, opt-in, domain verification, the cache of API users, the import worker's own
counters); checks and writes in separate statements, where only a lock, a unique index
or a `WHERE` keeps two requests apart; the release of a message before its outcome is
recorded; retries and replays of calls that start work; statuses that several parties
overwrite without looking; a process that stops between two statements; channels that
are full; and arguments whose empty value means everything. `PROJECT.json` lists each
hazard at its line with the property that watches it.

## What is modelled

A step of a model is what another process can see as one: a database transaction or
statement, an atomic load or store, a channel operation, a critical section. A handler
of one transaction is one action; one that reads first and writes later has an action
for each and keeps what it read in a variable. Data is reduced to what the code decides
by: an address, a role or a plan is a model value.

*Variants.* Definitions with the comment `Variant:` differ from the one that follows by
a plausible mistake: a count not given back, a guard left out. No action uses them;
putting one in the place of the original makes the property it belongs to fail, which is
how the properties were tested.

### Campaign manager: `CampaignManager`

The manager, the statements of the store and the endpoints that race with it. Its
processes are those of the program: the scan, `Run`, each worker, a cleanup per pipe,
and requests.

| module state | code |
|---|---|
| `row` | the `campaigns` table. `sendAt` says whether `send_at` is absent, ahead or past; `lastSub`, `maxSub` are the checkpoint and the upper limit; `lock` is the request transaction that holds the row lock; `deleted` stands for no row |
| `pipe` | every `*pipe` ever made, with its waitgroup, flags and counters; `phase` is where its goroutine is |
| `pipeOf`, `nextPipes`, `campMsgQ` | `Manager.pipes` and the two channels |
| `scan*`, `runPipe`, `batch`, `worker`, `request` | the locals of the processes |
| `delivered`, `failed`, `lost`, `rewound`, `overrun` | history for the properties; no action reads it |

| actions | code |
|---|---|
| `ScanTick`, `ScanLoad`, `ScanReset` | `getCurrentCampaigns`: under the read lock, `sent.Load` and `sent.Store(0)` of each pipe, two atomic steps |
| `ScanSelect`, `ScanUpdate`, `ScanError` | `next-campaigns` of each tenant in a transaction of its own: the snapshot of its CTEs, then its updates, which apply to the newest version of a row (READ COMMITTED) and wait for its lock |
| `ScanUnknownMessenger`, `ScanPipeError`, `ScanNewPipe`, `ScanEnqueue`, `ScanDone` | `newPipe` for each campaign returned, and the `select` on `nextPipes` |
| `RunFetch`, `RunExhausted`, `RunError`, `RunPush`, `RunRenderError`, `RunRequeue` | `Run`, `NextSubscribers` and its statements |
| `WorkerTake` ... `WorkerSent` | `worker`: the stop check, the push with its `wg.Done`, `OnError`, load and store of `lastID` |
| `CleanupWake` ... `CleanupDelete` | `cleanup` and its deferred delete |
| `RequestCheck` ... `RequestDelete` | `UpdateCampaignStatus`, `UpdateCampaign`, `DeleteCampaign`: check, update, `StopCampaign`, commit |
| `TimePasses`, `Crash` | the clock; the end of the process |

Subscribers are positive integers in the order of their ids and a campaign's audience is
a constant; whether a message renders and whether its push may fail are properties of
the subscriber (`Unrenderable`, `Flaky`). The rate limit and the sliding window only
make a goroutine sleep, which interleaving covers.

### Contacts of a workspace: `ListPermissions`, `ContactStore`, `Contacts`

`ListPermissions` is `internal/auth/models.go`: pure functions from a user to lists,
with the rules for empty sets. `ContactStore` has the statements of `queries/*.sql` as
relations between tables before and after (cascades included) and the functions of
`internal/core`. `Contacts` has the handlers of `cmd/`: `request` keeps what PATCH,
preferences, opt-in and the subscription form read before they write. `by` is the user
of the last step, which only properties read.

### Tenants' contacts and import jobs: `TenantContacts`, `ImportLifecycle`, `ImportJobs`

`TenantContacts` is the tables under row level security, the calls of the data plane, of
handlers and of the public pages on a tenant host - `patch` keeps what a PATCH or a
preferences form read before it writes - with the composite foreign keys that tie
subscriptions to a tenant. `ImportJobs` adds jobs: an *actor* is an upload request and
then the goroutine it starts. `CreateJob` commits the row, `OpenFile` and `WriteFile`
write the file after it, `ReplayJob` is a repeated upload that starts a worker of its
own, `ProcessJob` claims, `ImportBatch` is the transaction of a batch with its look at
the status, `Finish` writes the worker's own counters, `Fail` overwrites any status,
`StartFails` and `EndFails` are the statements whose errors the code returns to nobody
(`stranded` keeps the jobs whose last transaction failed), `CancelJob` and `Crash` come
at any moment. `ImportLifecycle` is the abstract specification: what the API shows of a
job - created once, claimed once, rows accounted for only while it is processing,
completed only with all of them. `ImportJobs` implements it (`ImplementsLifecycle`),
with `rows` as the processed rows and `size` as the length of the file.

### Control plane: `Tenancy`, `TenantAccess`, `CampaignWorkflow`, `ControlPlane`

`Tenancy`: tenants, slugs and aliases, custom domains with their DNS and TLS status,
plans and infrastructure. `call` keeps a verification between its lookup and its write,
`round` the revalidation goroutine of `cmd/main.go` between its transactions: the active
tenants in the order of their ids (`Rank`), of each the domains that have been due
longest (`overdue`), until `Limit` of them were checked. `TenantAccess`: memberships,
roles, denials, second factors, recovery codes, grants, keys, incidents; `login` keeps a
log-in with a recovery code between its `FOR UPDATE` and its write, `req` a tenant
request between the queries of `mailviewRequestContextFor`. `CampaignWorkflow`: `client`
keeps a `TransitionCampaign` between its lookup of the key and its transaction.
`ControlPlane` composes them. The whole product of parts that do not read each other is
of no interest, so that a behaviour keeps to one `part`, in a state the others may have
left: `slugs`, `domains` (rounds, DNS and a verification), `certificates` (claims,
verification, revocation and TLS status), `plans` (with the roles that a plan allows),
`roles`, `recovery`, `requests` (with the administration a request races with),
`workflow`.

### Users and log-ins: `TmpTokens`, `Accounts`, `Logins`, `Identity`

`h` is the table of handlers between two of their statements: the update of a user
checks and writes, `cacheUsers` reads and stores, a reset takes the token, reads the
account, writes the profile, deletes the sessions, saves a new one. `HandlerFails` ends
a handler at any of its statements, with what it wrote before left in place, as the code
does; where the code only logs the error (the deletion of sessions) the handler goes on.
`failed` remembers what failures left behind: sessions not deleted, a cache not filled,
an admin whose set-up ended with an error. `TmpTokens` has an operator per function of
the store, which is behind one mutex. `Restart` empties memory and fills the cache anew.
`Identity` composes them, in parts as above: `accounts`, `passwords`, `logins`, `setup`.

### Background work: `SubImporter`, `Bounces`, `Background`

`SubImporter`: `session` holds both goroutines of each session, `stopping` the requests
of `Stop` (`Stoppers`) between reading the status, clearing or marking it and putting a
token into the channel, which the next import meets if its own has ended, `passed` the
requests between `isDone` and setting the status. `stuck` is the read lock that `isDone`
takes a second time while a writer waits, which blocks the importer for good. `Bounces`:
the mailbox scan that counts, reads and then deletes (and hangs on a part it cannot
read, `ScanHangs`), webhook requests that wait at the channel (`hook` has the events a
request has yet to put there, by their place in the body), and the recorder that asks
one tenant after the other whether it has the contact and the campaign the bounce names
(`Names`), and whose statements may fail (`RecordFails`). `Background` runs one or the
other.

## What the runs show

| run | module | question | bounds | states |
|---|---|---|---|---|
| `mgr_pause` | `MCCampaignManager` | pause, resume, cancel and delete against scan, batches, two workers and cleanup | 2 subscribers, batches and queues of 1, 2 requests, 2 pipes | 881 k |
| `mgr_faults` | `MCCampaignManager` | from every status: a failed send at the threshold, a failing statement, a restart, a request for any status or edit outside a transaction | batch and queue of 2, 1 worker, 1 each of fault, crash and request | 3.2 M |
| `mgr_live` | `MCManyCampaigns` | does what starts end, and is every count given back? | 3 campaigns of 2 tenants, a `nextPipes` of 1, 2 subscribers, 1 unrenderable, 2 requests or 1 fault with a request | 208 k |
| `contacts` | `MCContacts` | what survives edits, forms and bulk changes that race | 1 subscriber, 2 lists, 2 users, 1 open request | 11 k |
| `import_jobs` | `MCImportJobs` | replays, cancellation, a crash, failing statements, edits and public pages | 2 tenants, 1 job, 2 actors, 2 rows of contacts, 3 edits or 2 and a crash | 528 k |
| `control` | `MCControlPlane` | each part of the control plane | 2 tenants, 3 slugs, 2 hosts, a limit of 1, 2 users, 2 log-ins, 4 keys, 2 clients | 552 k |
| `identity` | `MCIdentity` | handlers of users, log-ins, resets, set-up | 3 users, 1 role and 1 list role, 2 handlers, 2 sessions, 2 links, 3 edits, 1 failing statement | 1.5 M |
| `background` | `MCBackground` | importer and bounces | 2 imports, 2 requests of Stop, 2 troubles; 2 mails, 2 webhooks, 1 contact, 1 campaign, channel of 1 | 276 k |

The four `doc_` runs are [below](#where-the-code-and-what-is-said-of-it-disagree).

### Properties

*Campaign manager.* `OnePipePerCampaign`: two pipes never process one campaign, and the
map names the one that does. `WaitGroupCounts`: a waitgroup is exactly what is
outstanding - one more and the campaign hangs, one less and cleanup runs under the
workers' feet or the counter goes negative, which panics. `DrainedBeforeCleanup`: from
cleanup on nothing of the pipe is left to fetch or send. `NoSecondAttempt`: a pipe
attempts a subscriber at most once. `OnlyCleanupRepeats`: a subscriber gets a campaign
from two pipes only when a cleanup set the checkpoint back below it; a crash never
repeats a message. `OverrunBounded`: a stopped pipe still sends at most one message per
worker. `CheckpointAccounts`: everybody at or below the checkpoint was attempted, does
not render, had the message dropped by a stop or lost in a crash, or is in hand.
`ExhaustedAccountsForAll`: when the batches of a running campaign come to their end,
that is true of its whole audience. `PipesEnd`: pipes are drained and removed.
`ActiveCampaignsEnd`: a campaign that runs, or whose `send_at` has passed, ends or is
paused - also when the scan fails for the second tenant and drops what it had committed
for the first, when nobody is subscribed, and when a resumed campaign finds its last
pipe still in the map.

*Contacts.* `BlocklistStays`: only an edit by a user lifts a blocklisting - or a
preferences form that read the row before. `ConsentKept`: who unsubscribed is on the
list again only by a user's explicit addition, an opt-in that was open, or a public form
that asks for this very list. `ScopeKept`: a user who manages some lists changes no
subscription to another, but by blocklisting or deleting the subscriber, or by the
maintenance that deletes what was never confirmed, for which `settings:maintain` is
enough. `ReadScope`: whatever ids a query names, it returns subscribers of permitted
lists. `TypeOK` also says that nothing dangles after cascades.

*Import jobs.* `OneWorker`; `CountersAgree`: the worker's counters and the row's agree
after every batch; `Isolation`: a subscription joins contact and list of one tenant;
`SuppressedStaysOut`: no import, edit, PATCH or public page makes a suppressed contact
one that campaigns send to - but for a preferences form whose handler read the row
before the suppression and writes the status back; `ImplementsLifecycle`: the
refinement; `ClaimedJobsEnd`: while the process lives a claimed job ends, but for one
whose last transaction failed. (That one, and after a crash any, stays `processing`:
only pending jobs are claimed.)

*Control plane.* `AliasesLeadHome`: old slugs lead to their tenant however often it
moves. `LostDomainsLeave`: a domain whose record is gone leaves routing, whatever
verifications race, unless its tenant's turn never comes: rounds take the tenants in the
order of their ids, and those before it use up the limit every time. With a limit of 1
and a domain of each tenant the run has behaviours of both kinds. `RolesStayHome`: ids
of roles come from requests, and no role of another tenant gets into a membership.
`CodesLogInOnce`: two log-ins never use one code. `ImpersonationScoped`: a request under
a grant acts as its target, in its tenant, for who opened it, approved by another if
needed. `RevisionsAreEvents`, `EventsFormPath`: a transition is recorded once under its
key, and the records of a campaign are one path of allowed transitions.

*Users.* `ApiCacheCurrent`: when handlers that did not overlap are done, the cache has
the tokens and the permissions of the rows, whatever statements failed on the way,
unless the last handler that changed a row could not read the rows again. Overlapping
ones read and store apart and can lose one another's entry, which no property catches.
`LastSuperStays`: one after the other, handlers leave a super admin, except by the
cascade of a deleted list role or a change of type. `LoggedOutByPassword`: no session
that was saved before a change of password outlives it, unless that change was cut short
between its two statements: the process stopped, `GetUser` failed, or the deletion did,
whose error is only logged. (A log-in that was verified before and saves its session
after is not among those that the code deletes.) `ResetOnce`: a link sets a password
once. `SetupOnce`: set-up requests that come one after the other make one super admin,
not counting those of a request that failed after it had inserted the row: that leaves
set-up open, and the retry makes another.

*Background.* `OneImport`: two imports run at a time only if two requests raced through
`isDone`, if a second `Stop` cleared the status of one that was stopping, or if a failed
statement left `LoadCSV` alone. `ImportAccounts`: what is counted was committed, and an
import that finished with no statement failed has every good row, unless it met a token
of `Stop`: its own, or one left over from a `Stop` that came too late for an earlier
import, which ends the next one as finished without its rows. `ImportSettles`: the
status does not stay `importing`, unless the lock waits for itself. `MailOnce`: a mail
that was deleted from the server was recorded or left out for a reason the code has - it
could not be read, the channel was full, it named nobody or what no tenant or several
have, a statement of the recorder failed, the process stopped - and is recorded once,
and once more per scan that broke off. `ResolvedAlone`: a bounce is recorded with the
one active tenant that has the contact and the campaign it names. `HooksAnswered`: a
webhook request does not wait for ever.

Exceptions in a property (`raced`, `cleared`, `overlapped`, `failed`, `stranded`, a row
read earlier, ...) are what the code does, kept as small as the model allows. What they
except is not caught: the hazards of `PROJECT.json` say of each which part a property
covers and which the code is left with. That the statement `next-campaigns` overwrites a
status or `send_at` that was committed after its snapshot is one that no property
covers.

### Fairness

Weak for goroutines and for requests that have begun: they are scheduled, and database
calls and sends return. `FairSpec` of `CampaignManager` has strong fairness for cleanup,
whose last step waits for the write lock of a map that scans keep reading
(`sync.RWMutex` lets a waiting writer in before later readers). `Bounces` has it for the
senders that wait at the channel, which Go queues in order; `ControlPlane` has weak
fairness for the ticker of revalidation, for calls between their two steps and for days
that pass. No user has to do anything, and no error or crash has to happen.

### Why the bounds suffice

Two subscribers and batches of one give a batch that is over, one under way and an empty
one; two workers race on flags and `lastID`; two pipes in a row are what repeats and
losses need. One subscriber with two lists tells a limited user's list from another's,
and one open request races with every other endpoint. Two actors are a worker and a
replay, batches of 2 split a file of 3, and two tenants have the same address. Three
slugs allow a rename, a rename back and a slug of another tenant; four keys and two
clients a path from draft to scheduled with a retry. Two handlers interleave any two
requests of users, and one failing statement meets each of theirs. Two hosts, one of
each tenant, are what a limit of 1 has to choose from. Three campaigns fill a
`nextPipes` of one, and two tenants are what a scan may get through half of; `mgr_live`
begins with what is to be sent, and spends its bounds on requests or on the fault
(`AnySpent`). Two requests of `Stop` leave a token and clear a status. `MaxRequests`,
`MaxFaults`, `MaxCrashes`, `Crashes`, `Edits`, `Moves`, `Routes`, `Faults`, `Revisions`,
`Passwords`, `Links`, `Troubles`, `Upsets` and `Posts` bound what users and the
environment do; `Pipes`, `Jobs`, `Grants`, `Keys`, `Sids` are ids. Running out of
`Pipes` looks to the model like `newPipe` failing, and `ActiveCampaignsEnd` says so. In
`identity` handlers and sessions are symmetric. The deadlock check is off where every
bounded thing may have happened: imports, control plane, users, background. The scan of
the manager and requests on contacts never stop. `contacts` has a view that leaves `by`
out: it is written and not read, and no invariant mentions it. `mgr_pause` treats its
workers as symmetric.

## Where the code and what is said of it disagree

Each of these runs ends with a counterexample of the property it names.

* `doc_finish` (`FinishAccountsForAll`): a pause lands after a scan took the campaign
  and before its pipe is in the map, so that `StopCampaign` finds nothing to stop. To a
  paused campaign the store gives no subscribers, and the pipe ends as if it had run
  out; a resume before cleanup reads the status, and the campaign is finished with
  subscribers that were never fetched. `pipe.go:222` says that they "were naturally
  exhausted", and `pipe.go:230` that "if a running campaign has exhausted subscribers,
  it's finished".
* `doc_preserve` (`PermissionlessPreserved`): a user without permission to manage any
  list edits a subscriber, and all of its subscriptions go: the empty array of permitted
  lists stands for all lists in `update-subscriber-with-lists`. `cmd/subscribers.go:370`
  says that those without permission are left as they are.
* `doc_form` (`FormSubscribes`): somebody who left a list, or is on another, asks for it
  in the public form. The address is known, so that the insert fails; but
  `internal/core/subscribers.go:328` answers 409 only for the constraint
  `subscribers_email_key`, which `internal/mailview/migrations/migrations.go:168` drops
  for the index `mv_subscribers_tenant_email_idx`, and the form is refused. The branch
  of `cmd/public.go:787` ("Subscriber already exists. Update subscriptions in the DB.")
  is never taken, against the comment of `queries/subscribers.sql:192` and the test
  `frontend/cypress/e2e/forms.cy.js:38`, which enters the same address for one list
  after the other. `Contacts` has the branch, with the constraint's name as its guard.
* `doc_alias` (`AliasesKeepLinks`): `CreateTenant` does not look at the history of
  slugs: a new tenant takes a slug that is another's alias, and the links lead to it,
  which `slugs.go:24` says the alias prevents.

More of the kind was met on the way, and the properties above except it: a worker
releases a message before it records its error, so that cleanup may find no threshold
reached and finish a campaign that `pipe.go:141` says is paused; the stored `sent` may
fall below what was delivered; a failing batch drops queued messages that the checkpoint
has passed; a campaign cancelled between the snapshot and the update of `next-campaigns`
runs again; the guard of `update-user` ("more than 1 active super users") reads a
snapshot that a second demotion does not change; sessions are pruned once at the start
although the comment says periodically; `pop.go` says that with a limit above 0 all
messages are downloaded, where that is the limit; and a second `Stop` clears the status
of an import that is running.

## What is proved

For every value of the constants that satisfies the assumptions of the modules:

| module | theorem | statement |
|---|---|---|
| `CampaignManagerProofs` | `PipeMapCorrect` | `Spec => [](TypeOK /\ PipeMapInv)` |
| | `TypeCorrect`, `OnePipe` | `[]TypeOK`, `[]OnePipePerCampaign` |
| `WaitGroupProofs` | `CountCorrect` | `Spec => [](TypeOK /\ PipeMapInv /\ CountInv)` |
| | `WaitGroupCorrect`, `WaitGroupNeverNegative`, `DrainedCorrect` | `[]WaitGroupCounts`, no counter below zero, `[]DrainedBeforeCleanup` |
| `DeliveryProofs` | `DeliveryCorrect` | the same with `DeliveryInv` |
| | `AttemptedOnce`, `RepeatsAreRewound`, `CheckpointCorrect`, `StoppedSoon` | `[]NoSecondAttempt`, `[]OnlyCleanupRepeats`, `[]CheckpointAccounts`, `[]OverrunBounded` |
| | `ExhaustionCorrect` | `Spec => ExhaustedAccountsForAll` |
| `ContactsProofs` | `ContactsInvariant` | `Spec => []ContactsInv` |
| | `TypeCorrect`, `ReadScopeCorrect` | `[]TypeOK`, `[]ReadScope` |
| | `BlocklistStaysCorrect`, `ConsentKeptCorrect`, `ScopeKeptCorrect` | `Spec => BlocklistStays`, `Spec => ConsentKept`, `Spec => ScopeKept` |
| `ImportJobsProofs` | `JobsCorrect` | `Spec => []Inv` |
| | `TypeCorrect`, `OneWorkerPerJob`, `CountsAgree`, `TenantsApart` | `[]TypeOK`, `[]OneWorker`, `[]CountersAgree`, `[]Isolation` |
| | `SuppressionHolds`, `LifecycleHolds` | `Spec => SuppressedStaysOut`, `Spec => ImplementsLifecycle` |
| `ControlPlaneProofs` | `WorkflowCorrect`, `SlugsCorrect`, `RolesCorrect`, `LoginsCorrect`, `RequestsCorrect` | the inductive invariant of each part |
| | `TransitionsCounted`, `ApprovedBeforeSent` | `[]RevisionsAreEvents`, `[]EventsFormPath` |
| | `AliasesCorrect`, `RolesHome`, `CodesOnce`, `ImpersonationCorrect` | `[]AliasesLeadHome`, `[]RolesStayHome`, `[]CodesLogInOnce`, `[]ImpersonationScoped` |
| `IdentityProofs` | `IdentityInvariant` | `Spec => []IdInv` |
| | `TypeCorrect`, `ResetOnceCorrect`, `LoggedOutCorrect`, `ApiCacheCorrect`, `SetupOnceCorrect` | `[]TypeOK`, `[]ResetOnce`, `[]LoggedOutByPassword`, `[]ApiCacheCurrent`, `[]SetupOnce` |
| | `LastSuperCorrect` | `Spec => LastSuperStays` |
| `BackgroundProofs` | `BackgroundInvariant` | `Spec => [](ImportInv /\ BounceInv)` |
| | `OneImportCorrect`, `ImportCountsCorrect`, `MailOnceCorrect` | `[]OneImport`, `[]ImportAccounts`, `[]MailOnce` |
| | `ResolvedAloneCorrect` | `Spec => ResolvedAlone` |

The theorems about safety state every invariant and every action property that the
passing runs check, and the refinement.

**One pipe.** `OnePipePerCampaign` is not inductive: the scan makes a pipe for what
`next-campaigns` returned some steps ago, so one must know that a campaign that was
selected has no pipe by now. `PipeMapInv` says why: pipes handed around have their
campaign (`PipesHaveCampaigns`); a pipe of the map is alive and its own campaign's
(`MapIsAlive`), so cleanup's delete by campaign id removes its own; a scan has every
campaign of the map among the ids it read or has still to read (`ScanKnowsMap`), as only
the scan adds to the map and the read lock keeps cleanup from deleting what it walks; so
what it picks has no pipe (`PicksAreFree`). One lemma per process, one step per action.

**Counts.** That a waitgroup is what is outstanding is inductive only together with
where it may be outstanding: what the producer, the queue or a worker holds is of a live
pipe (`CountInv`), because a count above zero is what keeps cleanup from beginning.
Lemmas on cardinalities say that a send marks one more place of the queue, that a
receive hands its place to one worker, and that a worker that releases was counted,
which is why no `wg.Done` is one too many.

**Deliveries.** `DeliveryInv` has three parts. `UniqueInv`: a message is in one place,
the batch, the queue or one worker's hands. `LedgerInv`: what a live pipe has fetched or
attempted lies at or below the checkpoint in the database, so that its next batch, which
lies above, is new to it and, unless a cleanup set the checkpoint back, to the campaign;
and what the checkpoint passed is accounted for. `RecordInv`: the id that cleanup stores
is one of a message that was sent - without it the checkpoint could be set anywhere. The
overrun of a stopped pipe is bounded with those about to send: a worker that has looked
at the flag is counted until it sends, and none looks past a set flag (`StopInv`).

**Contacts.** `TypeOK` is inductive once it says that any open request is of a
subscriber (`RequestsOK`). A lemma for each statement of `ContactStore` tells what it
does to rows and subscriptions: whether a row goes, a blocklisting is lifted, somebody
who unsubscribed is back, and which lists it touches (`Within`). A handler is then a
matter of its arguments: the lists it hands on are within those its user manages
(`ManagedLists`), and a query is never given the empty set that would mean all of them
(`PermittedIDs`).

**Imports.** `OneWorker` needs that a job that is being worked on is `processing` or
`cancelled`, so that the claim, which wants `pending`, cannot succeed a second time
(`ActorsInv`); the counters need that a worker has counted nothing before its claim and
that an unclaimed job has imported nothing (`RowsInv`). Of the contacts there is a lemma
per call, each of which keeps `Isolation` with the types of the tables (`ContactsInv`)
and brings nobody back who is suppressed, but for the write of a preferences form, which
is the exception of `SuppressedStaysOut`; an import's batch is one of those calls. The
refinement maps each step to a step of `ImportLifecycle` or a stutter. `LComplete` asks
that every row is accounted for, which `ActorsInv` gives: who finishes has read to the
end, and the row counts what the worker counts.

**Workflow.** `EventsFormPath` is not inductive: that the next record continues the path
needs that the newest record ends in the state of the row (`RecordsInv`: revisions are
those of the records and one more, and the newest is at revision minus one). That the
revision counts the records needs that the key is free, which the unique index gives
when the row is written, not the lookup before it. `AskedInv` says that a call that goes
on holds a key. The other parts of the control plane leave these variables alone, so the
theorems are about the whole of `ControlPlane`.

**Control plane.** Each part leaves the variables of the others alone, so that its
theorem is about the whole of `ControlPlane`. *Slugs:* an alias is of a tenant that
exists, and tenants that exist have different slugs; `AliasesLeadHome` then survives a
rename, which takes the new slug out of the history, and the end of an alias. *Roles:*
every write to a membership was checked against its tenant in its own statement.
*Log-ins:* a log-in that holds the lock of its user is alone, and the code it read is
still unused. *Requests:* a request that goes under a grant agrees with the grant's row,
which nobody changes but to end it; its tenant and target are read later and lead to the
same tenant because slugs and hosts do (`RequestsCorrect` includes `SlugsInv`).

**Users.** `IdInv` adds to each property what a handler between two statements may still
do. *Resets* (`ResetInv`): the password of a link was set, or one handler holds it and
is about to, or one token is there, and of these only one, since `Get` takes the token
under the mutex. *Sessions*: `LoggedOutByPassword` is inductive given that no session is
of an unused id (`SessionsInv`), so that a new user finds none, that a change which
fails between its statements is remembered (`failed.cut`), and that a handler that is
yet to save one is for a user who is or was there (`HandlerFits`). *Cache* (`CacheInv`):
while handlers run one after the other it is current or the one at work has still to
read the rows or to store them, and what it read are the rows there are; a handler that
fails before it could read them is what `failed.missed` remembers. *Super admins*
(`SupersInv`): what the guards of `update-user` and `delete-users` read is still so when
they write. *Set-up* (`SetupInv`): every handler makes a user of an id of its own, and,
one by one, none looks for the role while a user is there whose set-up did not fail.

**Importer.** `OneImport` counts sessions that read and write; what is inductive is
about sessions that are *active*: they write, and read or have closed their channel.
While no requests raced, no status was cleared and the sessions before the newest had no
statement fail, only the newest is active, and then the status keeps requests out and
none is between `isDone` and setting the status (`OneInv`) - a session becomes active
only through such a request, and the status leaves `importing` and `stopping` only with
the session. `ImportAccounts` needs the sum `good = stored + queue + cur` of rows sent,
committed, in the channel and in the transaction, as long as no statement failed
(`SessionOK`), and that the writer of such a session ends only when the channel is
closed and empty and the loader closes it only at the end of the file or for `Stop`.

**Bounces.** `MailOnce` is a count: the tenants and times a message is recorded, its
places in the channel, in the recorder's hands and still to be read on the server add up
to one, and one more for each scan or process that broke off (`CopiesInv`). It needs
that a scan numbers a message once and deletes at most what it read, all of it unless it
breaks off (`ScanInv`). What was read is in one of these places or was left out, an
error of the recorder among the reasons (`ReadInv`). Lemmas count the places of a value
in a channel when one is put at its end or taken from its front. For `ResolvedAlone` the
tenants that matched so far are those among the asked ones that have all the bounce
names, unless something moved since (`AskedInv`); one match at the end is then one
owner.

Assumptions used are the named `ASSUME`s of the modules, which TLC evaluates in every
run: bounds are numbers, ids differ from their null values, there are finitely many
workers (`concurrency`), a list has a kind of the schema, and the host names and default
slugs of tenants are the ones their names give (`ControlPlaneAssumption`), and users
begin as rows of the table, with the super admin's role, the only one there is
(`IdentityAssumption`); the body of a webhook request is a sequence of events
(`BouncesAssumption`). Nothing else is assumed finite; what has to be, is found to be
(the records of a campaign, a queue, the messages on the server).

Only model-checked: liveness, which needs `ENABLED` and fairness and is out of the
prover's reach: `PipesEnd` and `ActiveCampaignsEnd` (`mgr_live`), `ClaimedJobsEnd`,
`LostDomainsLeave`, `ImportSettles` and `HooksAnswered`. The four disagreements above
are TLC's counterexamples.

## What is not modelled

* Rendering, messengers, media, templates, archive pages, captcha, notifications,
  logging and translations: pure functions or I/O without state that others depend on. A
  send and a render are a success or a failure.
* Of the campaign manager: the sliding window and message rate (they only sleep), `msgQ`
  of transactional messages, `Close` on a live manager, and the caches of which tenant a
  campaign or a subscriber belongs to. Creation, bulk deletion, tests and previews;
  edits of a campaign's audience.
* Of the workspace: SQL expressions of administrators, attributes, sorting, tracking
  pixels and links, dashboards and exports of files.
* Of the control plane: the audit trail, branding, portal summaries, retention reports
  and listings, which are single reads. Signatures of envelopes and keys are taken as
  valid.
* The OIDC exchange, hashing and TOTP arithmetic: a code or password is right or wrong.
* Event fan-out: `Publish` returns at the first full channel, so that other admin pages
  miss log lines, and nothing depends on those.
* The campaign status that the approval workflow writes is a variable of
  `CampaignWorkflow`, apart from the `row` of `CampaignManager`: a cancellation through
  the workflow does not reach `StopCampaign`, and no text says that it does.
* Migrations and start-up: run once, alone.

## Plan

Done: the campaign manager, contacts, import jobs with the refinement, the control
plane, users and log-ins, and background work, each with the proofs of its safety
properties.

Next, in the code that is not modelled: `Close` on a live manager and the transactional
messages that share its workers; creation of campaigns and edits of their audience,
which would make the audience of `CampaignManager` a variable; and the caches of which
tenant a campaign belongs to, the hazard that no property covers yet.
