--------------------------- MODULE CampaignManager ---------------------------
(***************************************************************************)
(* The campaign manager: internal/manager/{manager,pipe}.go with the store *)
(* behind it (cmd/manager_store.go, queries/campaigns.sql) and the status  *)
(* endpoint that races with it (cmd/campaigns.go, internal/core).          *)
(*                                                                         *)
(* Processes: the scan ticker (scanCampaigns), the batch loop (Run), the   *)
(* message workers (worker), one cleanup goroutine per pipe, and HTTP      *)
(* requests that change a campaign's status.  Each action is one step of   *)
(* one of them, cut where another process can observe the state between.   *)
(***************************************************************************)
EXTENDS Integers, Sequences, FiniteSets

CONSTANTS
  Campaigns,      \* campaign ids
  Tenants,        \* active tenants, scanned one transaction at a time
  TenantOf,       \* [Campaigns -> Tenants]
  Subs,           \* subscriber ids: positive integers, ordered as in the DB
  Audience,       \* [Campaigns -> SUBSET Subs]: eligible by list and opt-in
  Unrenderable,   \* subscribers whose message template fails to execute
  Flaky,          \* subscribers whose Push may return an error
  KnownMessenger, \* campaigns whose messenger is registered
  Workers,        \* worker goroutines (cfg.Concurrency)
  Requests,       \* concurrent HTTP status requests
  Pipes,          \* identities of pipe values, in order of creation
  None,           \* nil
  BatchSize,      \* cfg.BatchSize
  QueueCap,       \* capacity of campMsgQ
  NextPipesCap,   \* capacity of nextPipes
  MaxSendErrors,  \* cfg.MaxSendErrors, 0 disables the threshold
  RequestTx,      \* TRUE: tenant routing, a request runs in a transaction
  InitStatus,     \* statuses a campaign may start in
  InitSendAt,     \* send_at settings a campaign may start with
  Targets,        \* what requests ask for: a status, an edit, or "deleted"
  InitSpent,      \* bound: requests and errors that a behaviour starts with as spent
  MaxRequests,    \* bound: status and delete requests in a behaviour
  MaxFaults,      \* bound: database or template errors in a behaviour
  MaxCrashes      \* bound: process restarts in a behaviour

Statuses == {"draft", "scheduled", "running", "paused", "cancelled", "finished"}
SendAts == {"none", "future", "past"}
\* A campaign's edit takes send_at away or sets it to a later time.
Edits == {"unscheduled", "rescheduled"}

ASSUME ManagerAssumption ==
  /\ Subs \subseteq Nat \ {0} /\ Pipes \subseteq Nat
  /\ TenantOf \in [Campaigns -> Tenants]
  /\ Audience \in [Campaigns -> SUBSET Subs]
  /\ Unrenderable \subseteq Subs /\ Flaky \subseteq Subs
  /\ KnownMessenger \subseteq Campaigns
  /\ None \notin Campaigns \cup Pipes \cup Requests \cup Tenants
  /\ IsFiniteSet(Workers)
  /\ BatchSize \in Nat \ {0} /\ QueueCap \in Nat \ {0} /\ NextPipesCap \in Nat
  /\ MaxSendErrors \in Nat /\ RequestTx \in BOOLEAN
  /\ InitStatus \subseteq Statuses /\ InitSendAt \subseteq SendAts
  /\ Targets \subseteq Statuses \cup Edits \cup {"deleted"}
  /\ InitSpent \subseteq [requests : Nat, faults : Nat]
  /\ MaxRequests \in Nat /\ MaxFaults \in Nat /\ MaxCrashes \in Nat

VARIABLES
  row,        \* the campaigns table; status "deleted" stands for a missing row,
              \* whose other fields then mean nothing
  pipe,       \* every pipe value, with the phase of its cleanup goroutine
  pipeOf, nextPipes, campMsgQ,          \* Manager: the map and the channels
  scanPc, scanAt,                       \* scanCampaigns: where it is
  scanTodo, scanIds, scanCounts,        \*   the map it walks, what it has read
  scanTenants, scanPicked, scanMake,    \*   tenants to query, rows picked
  runPipe, batch,                       \* Run: pipe in hand, ids still to push
  worker,                               \* each worker and its message
  request,                              \* each status request
  requests, faults, crashes,            \* bounds
  delivered, failed, lost, rewound, overrun   \* history, read by no action

chanVars  == <<pipeOf, nextPipes, campMsgQ>>
scanVars  == <<scanPc, scanAt, scanTodo, scanIds, scanCounts, scanTenants,
               scanPicked, scanMake>>
runVars   == <<runPipe, batch>>
boundVars == <<requests, faults, crashes>>
histVars  == <<delivered, failed, lost, rewound, overrun>>
vars == <<row, pipe, chanVars, scanVars, runVars, worker, request, boundVars,
          histVars>>

CleanupPhases == {"counts", "errors", "status", "finish", "delete"}
Phases == {"unused", "live", "gone"} \cup CleanupPhases

\* A pipe is alive from newPipe until cleanup removes it from the map.
Alive(p) == pipe[p].phase \notin {"unused", "gone"}

Unlocked(c) == row[c].lock = None
Exists(c) == row[c].status # "deleted"

\* A budgeted environment error.
Fault == faults < MaxFaults /\ faults' = faults + 1 /\ UNCHANGED <<requests, crashes>>

-----------------------------------------------------------------------------
(* Statements of queries/campaigns.sql *)

\* update-campaign-status: 'running' with a send_at becomes 'scheduled'.
StatusWritten(c, new) ==
  IF ~Exists(c) THEN "deleted"
  ELSE IF row[c].sendAt # "none" /\ new = "running" THEN "scheduled" ELSE new

WriteStatus(c, new) ==
  Unlocked(c) /\ row' = [row EXCEPT ![c].status = StatusWritten(c, new)]

\* A status write whose error, if it has one, is at most logged.
TryStatus(c, new) ==
  \/ WriteStatus(c, new) /\ UNCHANGED boundVars
  \/ Fault /\ UNCHANGED row

\* Variants, here and below: plausible mistakes that the properties must detect.
\* A running campaign is taken to be in hand already.
DueScheduledOnly(c) == row[c].status = "scheduled" /\ row[c].sendAt = "past"

\* next-campaigns, CTE camps: the rows its snapshot selects.
Due(c) == \/ row[c].status = "running"
          \/ row[c].status = "scheduled" /\ row[c].sendAt = "past"

IsTop(s, S) == s \in S /\ \A t \in S : t <= s

\* Variant: the upper limit is left out.
RemainingButLast(c) == {s \in Audience[c] : row[c].lastSub < s /\ s < row[c].maxSub}

\* next-campaign-subscribers: the ids above the checkpoint, up to the maximum,
\* and the BatchSize smallest of them.
Remaining(c) == {s \in Audience[c] : row[c].lastSub < s /\ s <= row[c].maxSub}
NextBatch(c) == {s \in Remaining(c) :
                   Cardinality({t \in Remaining(c) : t <= s}) <= BatchSize}

-----------------------------------------------------------------------------
PipeAt(phase, c, wg) ==
  [camp |-> c, phase |-> phase, wg |-> wg, stopped |-> FALSE, withErrors |-> FALSE,
   errors |-> 0, lastID |-> 0, sent |-> 0]
\* The producer's count is on the waitgroup from the start.
NewPipe(c) == PipeAt("live", c, 1)
Resting == [pc |-> "idle", pipe |-> None, sub |-> 0]
NoRequest == [pc |-> "idle", camp |-> None, target |-> None]

Init ==
  /\ row \in [Campaigns -> [status : InitStatus, sendAt : InitSendAt, lastSub : {0},
                            maxSub : {0}, sent : {0}, lock : {None}]]
  /\ \A c \in Campaigns : /\ row[c].status = "scheduled" => row[c].sendAt # "none"
                          /\ row[c].status = "running" => row[c].sendAt # "future"
  /\ pipe = [p \in Pipes |-> PipeAt("unused", None, 0)]
  /\ pipeOf = [c \in Campaigns |-> None]
  /\ nextPipes = <<>> /\ campMsgQ = <<>>
  /\ scanPc = "idle" /\ scanAt = None
  /\ scanTodo = {} /\ scanIds = {} /\ scanTenants = {}
  /\ scanPicked = {} /\ scanMake = {}
  /\ scanCounts = [c \in Campaigns |-> 0]
  /\ runPipe = None /\ batch = {}
  /\ worker = [w \in Workers |-> Resting]
  /\ request = [r \in Requests |-> NoRequest]
  /\ \E b \in InitSpent : requests = b.requests /\ faults = b.faults
  /\ crashes = 0
  /\ delivered = [p \in Pipes |-> {}] /\ failed = [p \in Pipes |-> {}]
  /\ lost = [c \in Campaigns |-> {}] /\ rewound = [c \in Campaigns |-> {}]
  /\ overrun = [p \in Pipes |-> 0]

-----------------------------------------------------------------------------
(* Sending a pipe on nextPipes: when the channel is full the select's default *)
(* branch stops the pipe and gives its count on the waitgroup back.           *)

Released(q, p) == [q EXCEPT ![p].wg = @ - 1]
StoppedAndReleased(p) == [Released(pipe, p) EXCEPT ![p].stopped = TRUE]

\* Variant: the count is not given back when the channel is full.
EnqueueOrStop(p) ==
  IF Len(nextPipes) < NextPipesCap
  THEN nextPipes' = Append(nextPipes, p) /\ UNCHANGED pipe
  ELSE pipe' = [pipe EXCEPT ![p].stopped = TRUE] /\ UNCHANGED nextPipes

EnqueueOrRelease(p) ==
  IF Len(nextPipes) < NextPipesCap
  THEN nextPipes' = Append(nextPipes, p) /\ UNCHANGED pipe
  ELSE pipe' = StoppedAndReleased(p) /\ UNCHANGED nextPipes

-----------------------------------------------------------------------------
(* scanCampaigns *)

ByScan == UNCHANGED <<runVars, worker, request, histVars>>

\* A tick: getCurrentCampaigns takes the read lock on the pipes map.
ScanTick ==
  /\ scanPc = "idle" /\ scanPc' = "count"
  /\ scanTodo' = {c \in Campaigns : pipeOf[c] # None}
  /\ scanTenants' = Tenants
  /\ UNCHANGED <<row, pipe, chanVars, scanAt, scanIds, scanCounts, scanPicked,
                 scanMake, boundVars>>
  /\ ByScan

\* p.sent.Load() for one pipe of the map.
ScanLoad(c) ==
  /\ scanPc = "count" /\ scanPc' = "reset"
  /\ c \in scanTodo /\ scanTodo' = scanTodo \ {c}
  /\ scanAt' = c
  /\ scanIds' = scanIds \cup {c}
  /\ scanCounts' = [scanCounts EXCEPT ![c] = pipe[pipeOf[c]].sent]
  /\ UNCHANGED <<row, pipe, chanVars, scanTenants, scanPicked, scanMake, boundVars>>
  /\ ByScan

\* p.sent.Store(0) for the same pipe.
ScanReset ==
  /\ scanPc = "reset" /\ scanPc' = "count"
  /\ pipe' = [pipe EXCEPT ![pipeOf[scanAt]].sent = 0]
  /\ scanAt' = None
  /\ UNCHANGED <<row, chanVars, scanTodo, scanIds, scanCounts, scanTenants,
                 scanPicked, scanMake, boundVars>>
  /\ ByScan

\* Variant: campaigns in process are selected again.
ScanSelectAll(t) ==
  /\ scanPc = "count" /\ scanTodo = {} /\ scanPc' = "update"
  /\ t \in scanTenants /\ scanAt' = t
  /\ scanPicked' = {c \in Campaigns : TenantOf[c] = t /\ Due(c)}
  /\ UNCHANGED <<row, pipe, chanVars, scanTodo, scanIds, scanCounts, scanTenants,
                 scanMake, boundVars>>
  /\ ByScan

\* The next tenant's next-campaigns statement takes its snapshot.
ScanSelect(t) ==
  /\ scanPc = "count" /\ scanTodo = {} /\ scanPc' = "update"
  /\ t \in scanTenants /\ scanAt' = t
  /\ scanPicked' = {c \in Campaigns \ scanIds : TenantOf[c] = t /\ Due(c)}
  /\ UNCHANGED <<row, pipe, chanVars, scanTodo, scanIds, scanCounts, scanTenants,
                 scanMake, boundVars>>
  /\ ByScan

\* The snapshot of ids and counts is local to the tick.
ForgetCounts == scanIds' = {} /\ scanCounts' = [c \in Campaigns |-> 0]

\* Its updates and the commit.  PostgreSQL applies an UPDATE to the newest
\* version of a row (READ COMMITTED), so a status that a request committed
\* since the snapshot is overwritten.  A campaign without eligible subscribers
\* is in no row of CTE counts and is not updated, but is returned all the same.
ScanUpdate ==
  LET picked == {c \in scanPicked : Audience[c] # {} /\ Exists(c)}
      counted == {c \in scanIds : TenantOf[c] = scanAt}
  IN
  /\ scanPc = "update"
  /\ \A c \in picked \cup counted : Unlocked(c)
  /\ \E top \in [picked -> Subs] :
       /\ \A c \in picked : IsTop(top[c], Audience[c])
       /\ row' = [c \in Campaigns |->
                    IF c \in picked
                    THEN [row[c] EXCEPT !.status = "running", !.maxSub = top[c]]
                    ELSE [row[c] EXCEPT !.sent = IF c \in counted THEN @ + scanCounts[c] ELSE @]]
  /\ scanMake' = scanMake \cup scanPicked /\ scanPicked' = {}
  /\ scanTenants' = scanTenants \ {scanAt} /\ scanAt' = None
  /\ IF scanTenants = {scanAt}
     THEN scanPc' = "make" /\ ForgetCounts
     ELSE scanPc' = "count" /\ UNCHANGED <<scanIds, scanCounts>>
  /\ UNCHANGED <<pipe, chanVars, scanTodo, boundVars>>
  /\ ByScan

\* The query fails for one tenant: NextCampaigns returns nothing, also of the
\* tenants it has committed, and the counts taken from the pipes are gone.
ScanError ==
  /\ scanPc = "update" /\ scanPc' = "idle"
  /\ Fault
  /\ scanPicked' = {} /\ scanMake' = {} /\ scanTenants' = {} /\ scanAt' = None
  /\ ForgetCounts
  /\ UNCHANGED <<row, pipe, chanVars, scanTodo>>
  /\ ByScan

\* newPipe, the messenger is not registered: the campaign is cancelled.
ScanUnknownMessenger(c) ==
  /\ scanPc = "make" /\ c \in scanMake \ KnownMessenger
  /\ TryStatus(c, "cancelled")
  /\ scanMake' = scanMake \ {c}
  /\ UNCHANGED <<pipe, chanVars, scanPc, scanAt, scanTodo, scanIds, scanCounts,
                 scanTenants, scanPicked>>
  /\ ByScan

\* newPipe returns an error (inline images, template, media) and the campaign
\* is left as it is.  Running out of Pipes, a bound, shows up as this error.
ScanPipeError(c) ==
  /\ scanPc = "make" /\ c \in scanMake \cap KnownMessenger
  /\ \/ Fault
     \/ (\A p \in Pipes : pipe[p].phase # "unused") /\ UNCHANGED boundVars
  /\ scanMake' = scanMake \ {c}
  /\ UNCHANGED <<row, pipe, chanVars, scanPc, scanAt, scanTodo, scanIds,
                 scanCounts, scanTenants, scanPicked>>
  /\ ByScan

Fresh(p) == /\ pipe[p].phase = "unused"
            /\ \A q \in Pipes : q < p => pipe[q].phase # "unused"

\* newPipe: a pipe with the producer's +1 on its waitgroup enters the map.
ScanNewPipe(c, p) ==
  /\ scanPc = "make" /\ c \in scanMake \cap KnownMessenger /\ scanPc' = "enqueue"
  /\ Fresh(p)
  /\ pipe' = [pipe EXCEPT ![p] = NewPipe(c)]
  /\ pipeOf' = [pipeOf EXCEPT ![c] = p]
  /\ scanMake' = scanMake \ {c} /\ scanAt' = p
  /\ UNCHANGED <<row, nextPipes, campMsgQ, scanTodo, scanIds, scanCounts,
                 scanTenants, scanPicked, boundVars>>
  /\ ByScan

\* The new pipe is queued for Run.
ScanEnqueue ==
  /\ scanPc = "enqueue" /\ scanPc' = "make"
  /\ EnqueueOrRelease(scanAt)
  /\ scanAt' = None
  /\ UNCHANGED <<row, pipeOf, campMsgQ, scanTodo, scanIds, scanCounts,
                 scanTenants, scanPicked, scanMake, boundVars>>
  /\ ByScan

ScanDone ==
  /\ scanPc = "make" /\ scanMake = {} /\ scanPc' = "idle"
  /\ UNCHANGED <<row, pipe, chanVars, scanAt, scanTodo, scanIds, scanCounts,
                 scanTenants, scanPicked, scanMake, boundVars>>
  /\ ByScan

Scan ==
  \/ ScanTick \/ ScanReset \/ ScanUpdate \/ ScanError \/ ScanEnqueue \/ ScanDone
  \/ \E c \in Campaigns : ScanLoad(c) \/ ScanUnknownMessenger(c) \/ ScanPipeError(c)
  \/ \E t \in Tenants : ScanSelect(t)
  \/ \E c \in Campaigns, p \in Pipes : ScanNewPipe(c, p)

-----------------------------------------------------------------------------
(* Run and NextSubscribers *)

ByRun == UNCHANGED <<scanVars, worker, request, histVars>>

\* Run is about to process pipe p.
RunReceive(p) ==
  /\ runPipe = None
  /\ nextPipes # <<>> /\ p = Head(nextPipes) /\ nextPipes' = Tail(nextPipes)
  /\ UNCHANGED <<pipeOf, campMsgQ>>

\* Variant: the checkpoint stays where it is.
RunFetchAgain(p) ==
  LET c == pipe[p].camp IN
  /\ RunReceive(p) /\ runPipe' = p
  /\ row[c].status = "running" /\ Unlocked(c)
  /\ batch' = NextBatch(c)
  /\ batch' # {}
  /\ UNCHANGED <<row, pipe, boundVars>>
  /\ ByRun

\* A batch that is not empty; the statement that reads it moves the checkpoint
\* to the end of the batch.  The status is read by a statement before it, but
\* nobody else moves the checkpoint of a campaign in hand, so a status written
\* between the two has the effect of one written after both.
RunFetch(p) ==
  LET c == pipe[p].camp IN
  /\ RunReceive(p) /\ runPipe' = p
  /\ row[c].status = "running" /\ Unlocked(c)
  /\ batch' = NextBatch(c)
  /\ \E top \in batch' : /\ IsTop(top, batch')
                         /\ row' = [row EXCEPT ![c].lastSub = top]
  /\ UNCHANGED <<pipe, boundVars>>
  /\ ByRun

\* Variant: the producer keeps its count.
RunExhaustedHeld(p) ==
  LET c == pipe[p].camp IN
  /\ RunReceive(p)
  /\ row[c].status = "running" => Remaining(c) = {}
  /\ UNCHANGED <<row, pipe, runVars, boundVars>>
  /\ ByRun

\* The batch is empty, or the campaign is not running: the producer's count on
\* the waitgroup is given back.
RunExhausted(p) ==
  LET c == pipe[p].camp IN
  /\ RunReceive(p)
  /\ row[c].status = "running" => Remaining(c) = {}
  /\ pipe' = Released(pipe, p)
  /\ UNCHANGED <<row, runVars, boundVars>>
  /\ ByRun

\* Variant: the checkpoint has moved by the time the query fails.
RunErrorMoved(p) ==
  LET c == pipe[p].camp IN
  /\ RunReceive(p)
  /\ Fault
  /\ pipe' = StoppedAndReleased(p)
  /\ \E top \in NextBatch(c) : /\ IsTop(top, NextBatch(c))
                               /\ row' = [row EXCEPT ![c].lastSub = top]
  /\ UNCHANGED runVars
  /\ ByRun

\* The query fails: the pipe is stopped and released.
RunError(p) ==
  /\ RunReceive(p)
  /\ Fault
  /\ pipe' = StoppedAndReleased(p)
  /\ UNCHANGED <<row, runVars>>
  /\ ByRun

NextInBatch(s) == s \in batch /\ \A t \in batch : s <= t

\* Variant: newMessage does not count the message.
RunPushUncounted(s) ==
  /\ runPipe # None /\ NextInBatch(s) /\ s \notin Unrenderable
  /\ Len(campMsgQ) < QueueCap
  /\ campMsgQ' = Append(campMsgQ, [pipe |-> runPipe, sub |-> s])
  /\ batch' = batch \ {s}
  /\ UNCHANGED <<row, pipe, pipeOf, nextPipes, runPipe, boundVars>>
  /\ ByRun

\* newMessage adds to the waitgroup and the message goes on campMsgQ; Run
\* blocks here while the queue is full.
RunPush(s) ==
  /\ runPipe # None /\ NextInBatch(s) /\ s \notin Unrenderable
  /\ Len(campMsgQ) < QueueCap
  /\ campMsgQ' = Append(campMsgQ, [pipe |-> runPipe, sub |-> s])
  /\ pipe' = [pipe EXCEPT ![runPipe].wg = @ + 1]
  /\ batch' = batch \ {s}
  /\ UNCHANGED <<row, pipeOf, nextPipes, runPipe, boundVars>>
  /\ ByRun

\* The message does not render: it is logged and skipped.
RunRenderError(s) ==
  /\ runPipe # None /\ NextInBatch(s) /\ s \in Unrenderable
  /\ batch' = batch \ {s}
  /\ UNCHANGED <<row, pipe, chanVars, runPipe, boundVars>>
  /\ ByRun

\* The batch is done: the pipe goes back to the end of nextPipes.
RunRequeue ==
  /\ runPipe # None /\ batch = {} /\ runPipe' = None
  /\ EnqueueOrRelease(runPipe)
  /\ UNCHANGED <<row, pipeOf, campMsgQ, batch, boundVars>>
  /\ ByRun

Run ==
  \/ \E p \in Pipes : RunFetch(p) \/ RunExhausted(p) \/ RunError(p)
  \/ \E s \in Subs : RunPush(s) \/ RunRenderError(s)
  \/ RunRequeue

-----------------------------------------------------------------------------
(* worker *)

ByWorker == UNCHANGED <<row, pipeOf, nextPipes, scanVars, runVars, request,
                        boundVars, rewound>>
NoOutcome == UNCHANGED <<delivered, failed, lost, overrun>>

WorkerAt(w, pc) == worker[w].pc = pc
WorkerTo(w, pc) == worker' = [worker EXCEPT ![w].pc = pc]
\* Back to the select.
WorkerRest(w) == worker' = [worker EXCEPT ![w] = Resting]

\* The campaign message case of the select.
WorkerTake(w) ==
  /\ WorkerAt(w, "idle") /\ campMsgQ # <<>>
  /\ worker' = [worker EXCEPT ![w] = [pc |-> "check", pipe |-> Head(campMsgQ).pipe,
                                      sub |-> Head(campMsgQ).sub]]
  /\ campMsgQ' = Tail(campMsgQ)
  /\ UNCHANGED pipe
  /\ NoOutcome /\ ByWorker

\* The pipe has been stopped: the message is released without being sent.
WorkerDrop(w) ==
  LET p == worker[w].pipe IN
  /\ WorkerAt(w, "check") /\ pipe[p].stopped
  /\ pipe' = Released(pipe, p)
  /\ lost' = [lost EXCEPT ![pipe[p].camp] = @ \cup {worker[w].sub}]
  /\ WorkerRest(w)
  /\ UNCHANGED <<campMsgQ, delivered, failed, overrun>> /\ ByWorker

\* Variant: the stop flag is not looked at.
WorkerAcceptAny(w) ==
  /\ WorkerAt(w, "check")
  /\ WorkerTo(w, "push")
  /\ UNCHANGED <<pipe, campMsgQ>>
  /\ NoOutcome /\ ByWorker

\* The pipe has not been stopped: the worker goes on to send, whatever happens
\* to the pipe from here.
WorkerAccept(w) ==
  /\ WorkerAt(w, "check") /\ ~pipe[worker[w].pipe].stopped
  /\ WorkerTo(w, "push")
  /\ UNCHANGED <<pipe, campMsgQ>>
  /\ NoOutcome /\ ByWorker

\* Push and the wg.Done() right after it, which comes before the outcome is
\* recorded on the pipe.
WorkerPush(w, ok) ==
  LET p == worker[w].pipe
      s == worker[w].sub
  IN
  /\ WorkerAt(w, "push") /\ (ok \/ s \in Flaky)
  /\ pipe' = Released(pipe, p)
  /\ WorkerTo(w, IF ok THEN "load" ELSE "error")
  /\ delivered' = [delivered EXCEPT ![p] = IF ok THEN @ \cup {s} ELSE @]
  /\ failed' = [failed EXCEPT ![p] = IF ok THEN @ ELSE @ \cup {s}]
  /\ overrun' = [overrun EXCEPT ![p] = IF pipe[p].stopped THEN @ + 1 ELSE @]
  /\ UNCHANGED <<campMsgQ, lost>> /\ ByWorker

\* OnError, and Stop(true) once the count reaches the threshold.  Stop does
\* nothing to a pipe that is stopped already, not even mark its errors.
WorkerOnError(w) ==
  LET p == worker[w].pipe
      trip == pipe[p].errors + 1 >= MaxSendErrors /\ ~pipe[p].stopped
  IN
  /\ WorkerAt(w, "error")
  /\ pipe' = IF MaxSendErrors < 1 THEN pipe
             ELSE [pipe EXCEPT ![p].errors = @ + 1,
                               ![p].withErrors = @ \/ trip,
                               ![p].stopped = @ \/ trip]
  /\ WorkerRest(w)
  /\ UNCHANGED campMsgQ
  /\ NoOutcome /\ ByWorker

\* id > lastID.Load()
WorkerLoad(w) ==
  /\ WorkerAt(w, "load")
  /\ WorkerTo(w, IF worker[w].sub > pipe[worker[w].pipe].lastID THEN "store" ELSE "sent")
  /\ UNCHANGED <<pipe, campMsgQ>>
  /\ NoOutcome /\ ByWorker

\* lastID.Store(id): another worker may have stored a higher id since the load.
WorkerStore(w) ==
  /\ WorkerAt(w, "store")
  /\ pipe' = [pipe EXCEPT ![worker[w].pipe].lastID = worker[w].sub]
  /\ WorkerTo(w, "sent")
  /\ UNCHANGED campMsgQ
  /\ NoOutcome /\ ByWorker

\* sent.Add(1)
WorkerSent(w) ==
  /\ WorkerAt(w, "sent")
  /\ pipe' = [pipe EXCEPT ![worker[w].pipe].sent = @ + 1]
  /\ WorkerRest(w)
  /\ UNCHANGED campMsgQ
  /\ NoOutcome /\ ByWorker

Worker(w) ==
  \/ WorkerTake(w) \/ WorkerDrop(w) \/ WorkerAccept(w)
  \/ \E ok \in BOOLEAN : WorkerPush(w, ok)
  \/ WorkerOnError(w) \/ WorkerLoad(w) \/ WorkerStore(w) \/ WorkerSent(w)

-----------------------------------------------------------------------------
(* The goroutine of newPipe that waits on the waitgroup, and cleanup *)

ByCleanup == UNCHANGED <<nextPipes, campMsgQ, scanVars, runVars, worker, request>>

CleanupStep(p, from, to) ==
  pipe[p].phase = from /\ pipe' = [pipe EXCEPT ![p].phase = to]

\* wg.Wait() returns.
CleanupWake(p) ==
  /\ pipe[p].wg = 0 /\ CleanupStep(p, "live", "counts")
  /\ UNCHANGED <<row, pipeOf, boundVars, histVars>>
  /\ ByCleanup

\* update-campaign-counts: the sent count, and the checkpoint set back to the
\* highest id recorded as sent, when there is one.
CleanupCounts(p) ==
  LET c == pipe[p].camp
      last == IF pipe[p].lastID > 0 THEN pipe[p].lastID ELSE row[c].lastSub
  IN
  /\ CleanupStep(p, "counts", "errors")
  /\ \/ /\ Unlocked(c)
        /\ row' = [row EXCEPT ![c].sent = @ + pipe[p].sent, ![c].lastSub = last]
        /\ rewound' = [rewound EXCEPT ![c] =
                         @ \cup {s \in Subs : last < s /\ s <= row[c].lastSub}]
        /\ UNCHANGED boundVars
     \/ Fault /\ UNCHANGED <<row, rewound>>
  /\ UNCHANGED <<pipeOf, delivered, failed, lost, overrun>>
  /\ ByCleanup

\* Too many errors: the campaign is paused.
CleanupPaused(p) ==
  /\ pipe[p].withErrors /\ CleanupStep(p, "errors", "delete")
  /\ TryStatus(pipe[p].camp, "paused")
  /\ UNCHANGED <<pipeOf, histVars>>
  /\ ByCleanup

CleanupNoErrors(p) ==
  /\ ~pipe[p].withErrors /\ CleanupStep(p, "errors", "status")
  /\ UNCHANGED <<row, pipeOf, boundVars, histVars>>
  /\ ByCleanup

\* Not stopped: GetCampaign reads the status, and a running or scheduled
\* campaign is to be finished.
CleanupExhausted(p) ==
  /\ ~pipe[p].stopped /\ CleanupStep(p, "status", "finish")
  /\ row[pipe[p].camp].status \in {"running", "scheduled"}
  /\ UNCHANGED <<row, pipeOf, boundVars, histVars>>
  /\ ByCleanup

\* The pipe was stopped, the status is another one, or GetCampaign fails.
CleanupNothingMore(p) ==
  /\ CleanupStep(p, "status", "delete")
  /\ \/ /\ pipe[p].stopped \/ row[pipe[p].camp].status \notin {"running", "scheduled"}
        /\ UNCHANGED boundVars
     \/ Fault
  /\ UNCHANGED <<row, pipeOf, histVars>>
  /\ ByCleanup

\* The status is written whatever it has become since it was read.
CleanupFinish(p) ==
  /\ CleanupStep(p, "finish", "delete")
  /\ TryStatus(pipe[p].camp, "finished")
  /\ UNCHANGED <<pipeOf, histVars>>
  /\ ByCleanup

\* The read lock that getCurrentCampaigns holds on the pipes map.
ScanHoldsLock == scanPc = "reset" \/ (scanPc = "count" /\ scanTodo # {})

\* The deferred delete waits for that lock.
CleanupDelete(p) ==
  /\ CleanupStep(p, "delete", "gone")
  /\ ~ScanHoldsLock
  /\ pipeOf' = [pipeOf EXCEPT ![pipe[p].camp] = None]
  /\ UNCHANGED <<row, boundVars, histVars>>
  /\ ByCleanup

Cleanup(p) ==
  \/ CleanupWake(p) \/ CleanupCounts(p) \/ CleanupPaused(p) \/ CleanupNoErrors(p)
  \/ CleanupExhausted(p) \/ CleanupNothingMore(p) \/ CleanupFinish(p)
  \/ CleanupDelete(p)

-----------------------------------------------------------------------------
(* Requests: UpdateCampaignStatus, UpdateCampaign and DeleteCampaign *)

ByRequest == UNCHANGED <<chanVars, scanVars, runVars, worker, histVars>>

\* The table of core.UpdateCampaignStatus; any status may become 'finished'.  Edits
\* are for canEditCampaign.
Permits(c, target) ==
  LET status == row[c].status IN
  \/ target = "draft"     /\ status = "scheduled"
  \/ target = "scheduled" /\ status \in {"draft", "paused"} /\ row[c].sendAt # "none"
  \/ target = "running"   /\ status \in {"paused", "draft"}
  \/ target = "paused"    /\ status = "running"
  \/ target = "cancelled" /\ status \in {"running", "paused"}
  \/ target = "finished"  /\ Exists(c)
  \/ target \in Edits     /\ status \in {"draft", "paused", "scheduled"}

\* The row that a request's UPDATE makes: update-campaign-status or update-campaign.
Updated(c, target) ==
  IF target \in Edits
  THEN [row[c] EXCEPT !.sendAt = IF target = "rescheduled" THEN "future" ELSE "none",
                      !.status = IF target = "unscheduled" /\ @ = "scheduled" THEN "draft" ELSE @]
  ELSE [row[c] EXCEPT !.status = StatusWritten(c, target)]

RequestTo(r, pc) == request' = [request EXCEPT ![r].pc = pc]
RequestEnd(r) == request' = [request EXCEPT ![r] = NoRequest]
CommitOrEnd(r) == IF RequestTx THEN RequestTo(r, "commit") ELSE RequestEnd(r)
CountRequest ==
  requests < MaxRequests /\ requests' = requests + 1 /\ UNCHANGED <<faults, crashes>>

\* GetCampaign and the check of its status.
RequestCheck(r, c, target) ==
  /\ request[r].pc = "idle" /\ CountRequest
  /\ Permits(c, target)
  /\ request' = [request EXCEPT ![r] = [pc |-> "write", camp |-> c, target |-> target]]
  /\ UNCHANGED <<row, pipe>>
  /\ ByRequest

\* The UPDATE, whatever the status has become.  Without tenant routing it is
\* committed here; with it the row stays locked until the request commits.
RequestWrite(r) ==
  LET c == request[r].camp
      target == request[r].target
  IN
  /\ request[r].pc = "write" /\ Exists(c)
  /\ Unlocked(c)
  /\ row' = [row EXCEPT ![c] = IF RequestTx THEN [@ EXCEPT !.lock = r] ELSE Updated(c, target)]
  /\ IF target \in {"paused", "cancelled"} THEN RequestTo(r, "stop") ELSE CommitOrEnd(r)
  /\ UNCHANGED <<pipe, boundVars>>
  /\ ByRequest

\* The row is gone: no row is affected and the request fails.
RequestNoRow(r) ==
  /\ request[r].pc = "write" /\ ~Exists(request[r].camp)
  /\ RequestEnd(r)
  /\ UNCHANGED <<row, pipe, boundVars>>
  /\ ByRequest

\* manager.StopCampaign: the pipe of the map, if there is one, is stopped.
RequestStop(r) ==
  LET p == pipeOf[request[r].camp] IN
  /\ request[r].pc = "stop" /\ CommitOrEnd(r)
  /\ pipe' = IF p = None THEN pipe ELSE [pipe EXCEPT ![p].stopped = TRUE]
  /\ UNCHANGED <<row, boundVars>>
  /\ ByRequest

\* mailviewDataPerm commits the request's transaction, or fails to.
RequestCommit(r) ==
  LET c == request[r].camp IN
  /\ request[r].pc = "commit" /\ RequestEnd(r)
  /\ \/ /\ row' = [row EXCEPT ![c] = [Updated(c, request[r].target) EXCEPT !.lock = None]]
        /\ UNCHANGED boundVars
     \/ Fault /\ row' = [row EXCEPT ![c].lock = None]
  /\ UNCHANGED pipe
  /\ ByRequest

\* DeleteCampaign: the row goes, in whatever status, and the pipe stays.
RequestDelete(c) ==
  /\ "deleted" \in Targets /\ CountRequest
  /\ Exists(c) /\ Unlocked(c)
  /\ row' = [row EXCEPT ![c].status = "deleted"]
  /\ UNCHANGED <<pipe, request>>
  /\ ByRequest

RequestStep(r) ==
  RequestWrite(r) \/ RequestNoRow(r) \/ RequestStop(r) \/ RequestCommit(r)

Request ==
  \/ \E r \in Requests, c \in Campaigns, target \in Targets : RequestCheck(r, c, target)
  \/ \E r \in Requests : RequestStep(r)
  \/ \E c \in Campaigns : RequestDelete(c)

-----------------------------------------------------------------------------
(* The environment *)

\* send_at passes.
TimePasses(c) ==
  /\ row[c].sendAt = "future"
  /\ row' = [row EXCEPT ![c].sendAt = "past"]
  /\ UNCHANGED <<pipe, chanVars, scanVars, runVars, worker, request, boundVars,
                 histVars>>

Queued(p) == {s \in Subs : \E i \in 1..Len(campMsgQ) :
                              campMsgQ[i] = [pipe |-> p, sub |-> s]}
\* Workers that hold a message of p they have not released.
Holders(p) == {w \in Workers : worker[w].pipe = p /\ worker[w].pc \in {"check", "push"}}

\* Subscribers fetched by p whose message has not been handed to the messenger.
Pending(p) == Queued(p) \cup {worker[w].sub : w \in Holders(p)}
                \cup (IF runPipe = p THEN batch ELSE {})

\* The process dies, or SIGHUP closes the manager and executes the binary
\* again: all that is not in the database is gone, open transactions roll back.
Crash ==
  /\ crashes < MaxCrashes /\ crashes' = crashes + 1
  /\ row' = [c \in Campaigns |-> [row[c] EXCEPT !.lock = None]]
  /\ pipe' = [p \in Pipes |-> IF Alive(p) THEN [pipe[p] EXCEPT !.phase = "gone"] ELSE pipe[p]]
  /\ lost' = [c \in Campaigns |->
                lost[c] \cup UNION {Pending(p) : p \in {q \in Pipes : pipe[q].camp = c}}]
  /\ pipeOf' = [c \in Campaigns |-> None] /\ nextPipes' = <<>> /\ campMsgQ' = <<>>
  /\ scanPc' = "idle" /\ scanAt' = None /\ scanTodo' = {} /\ scanTenants' = {}
  /\ scanPicked' = {} /\ scanMake' = {} /\ ForgetCounts
  /\ runPipe' = None /\ batch' = {}
  /\ worker' = [w \in Workers |-> Resting]
  /\ request' = [r \in Requests |-> NoRequest]
  /\ UNCHANGED <<requests, faults, delivered, failed, rewound, overrun>>

Environment == Crash \/ \E c \in Campaigns : TimePasses(c)

-----------------------------------------------------------------------------
Next ==
  \/ Scan
  \/ Run
  \/ \E w \in Workers : Worker(w)
  \/ \E p \in Pipes : Cleanup(p)
  \/ Request
  \/ Environment

Spec == Init /\ [][Next]_vars

\* The goroutines run, a database call and a Push return, and a request that
\* has begun is carried through.  Nobody has to send a request, and no error or
\* crash has to happen.  A cleanup that waits for the pipes map is not overtaken
\* for ever by the scans that keep reading it: sync.RWMutex lets a waiting
\* writer in before the next reader.
Fairness ==
  /\ WF_vars(Scan) /\ WF_vars(Run)
  /\ \A w \in Workers : WF_vars(Worker(w))
  /\ \A p \in Pipes : SF_vars(Cleanup(p))
  /\ \A r \in Requests : WF_vars(RequestStep(r))
  /\ \A c \in Campaigns : WF_vars(TimePasses(c))

FairSpec == Spec /\ Fairness

-----------------------------------------------------------------------------
(* Type invariant *)

Row == [status : Statuses \cup {"deleted"}, sendAt : SendAts, lastSub : Subs \cup {0},
        maxSub : Subs \cup {0}, sent : Nat, lock : Requests \cup {None}]
PipeValue == [camp : Campaigns \cup {None}, phase : Phases, wg : Int,
              stopped : BOOLEAN, withErrors : BOOLEAN, errors : Nat,
              lastID : Subs \cup {0}, sent : Nat]
CampaignTable == [Campaigns -> Row]
PipeTable == [Pipes -> PipeValue]
Message == [pipe : Pipes, sub : Subs]
WorkerState ==
  {Resting} \cup [pc : {"check", "push", "error", "load", "store", "sent"},
                 pipe : Pipes, sub : Subs]
RequestState ==
  {NoRequest} \cup [pc : {"write", "stop", "commit"}, camp : Campaigns,
                   target : Statuses \cup Edits]

TypeOK ==
  /\ row \in CampaignTable /\ pipe \in PipeTable
  /\ pipeOf \in [Campaigns -> Pipes \cup {None}]
  /\ nextPipes \in Seq(Pipes) /\ campMsgQ \in Seq(Message)
  /\ scanPc \in {"idle", "count", "reset", "update", "make", "enqueue"}
  /\ scanAt \in Campaigns \cup Tenants \cup Pipes \cup {None}
  /\ scanTodo \subseteq Campaigns /\ scanIds \subseteq Campaigns
  /\ scanCounts \in [Campaigns -> Nat]
  /\ scanTenants \subseteq Tenants
  /\ scanPicked \subseteq Campaigns /\ scanMake \subseteq Campaigns
  /\ runPipe \in Pipes \cup {None} /\ batch \subseteq Subs
  /\ worker \in [Workers -> WorkerState] /\ request \in [Requests -> RequestState]
  /\ requests \in Nat /\ faults \in Nat /\ crashes \in Nat
  /\ delivered \in [Pipes -> SUBSET Subs] /\ failed \in [Pipes -> SUBSET Subs]
  /\ lost \in [Campaigns -> SUBSET Subs] /\ rewound \in [Campaigns -> SUBSET Subs]
  /\ overrun \in [Pipes -> Nat]

-----------------------------------------------------------------------------
(* Safety *)

Attempted(p) == delivered[p] \cup failed[p]
PipesOf(c) == {p \in Pipes : pipe[p].camp = c}

\* Two pipes never process the same campaign at once, and the pipes map names
\* the one that does: next-campaigns leaves out the campaigns in the map, and
\* cleanup deletes by campaign id, so a second pipe would be a lost one.
OnePipePerCampaign ==
  \A p \in Pipes : Alive(p) => pipeOf[pipe[p].camp] = p

\* What OnePipePerCampaign rests on: a pipe that is handed around exists and has
\* its campaign,
PipesHaveCampaigns ==
  /\ \A p \in Pipes : pipe[p].phase # "unused" => pipe[p].camp \in Campaigns
  /\ \A i \in 1..Len(nextPipes) : pipe[nextPipes[i]].phase # "unused"
  /\ runPipe # None => pipe[runPipe].phase # "unused"
  /\ scanPc = "enqueue" => scanAt \in Pipes /\ pipe[scanAt].phase # "unused"
\* a pipe of the map is alive and its own campaign's,
MapIsAlive ==
  \A c \in Campaigns : pipeOf[c] # None => Alive(pipeOf[c]) /\ pipe[pipeOf[c]].camp = c
\* a scan knows every campaign of the map by the time it asks for others,
ScanKnowsMap ==
  /\ scanPc \in {"count", "reset", "update"} =>
       \A c \in Campaigns : pipeOf[c] # None => c \in scanIds \cup scanTodo
  /\ scanTodo # {} => scanPc \in {"count", "reset"}
  /\ \A c \in scanTodo : pipeOf[c] # None
\* and it makes pipes only for campaigns that have none.
PicksAreFree ==
  /\ \A c \in scanPicked \cup scanMake : pipeOf[c] = None
  /\ scanPc # "update" => scanPicked = {}
PipeMapInv ==
  OnePipePerCampaign /\ PipesHaveCampaigns /\ MapIsAlive /\ ScanKnowsMap /\ PicksAreFree

\* The waitgroup of a pipe counts what is still to be released: its messages in
\* the queue and with the workers, and the producer's one as long as the scan,
\* nextPipes or Run has the pipe.  It never goes negative, which panics.
Producing(p) == {i \in 1..Len(nextPipes) : nextPipes[i] = p}
WaitGroupCounts ==
  \A p \in Pipes : Alive(p) =>
    pipe[p].wg = Cardinality({i \in 1..Len(campMsgQ) : campMsgQ[i].pipe = p})
                   + Cardinality(Holders(p)) + Cardinality(Producing(p))
                   + (IF runPipe = p THEN 1 ELSE 0)
                   + (IF scanPc = "enqueue" /\ scanAt = p THEN 1 ELSE 0)

\* "This only triggers once a pipe's wg counter is fully exhausted, draining
\* all messages in its queue": from cleanup on nothing of the pipe is left to
\* fetch, queued or about to be sent.
DrainedBeforeCleanup ==
  \A p \in Pipes : pipe[p].phase \in CleanupPhases \cup {"gone"} =>
    Pending(p) = {} /\ runPipe # p /\ Producing(p) = {}

\* A pipe hands a subscriber's message to the messenger at most once: what is
\* pending has not been attempted, and nothing is pending twice.
NoSecondAttempt ==
  /\ \A p \in Pipes : Pending(p) \cap Attempted(p) = {}
  /\ \A i, j \in 1..Len(campMsgQ) : campMsgQ[i] = campMsgQ[j] => i = j
  /\ \A p \in Pipes : \A v, w \in Holders(p) : worker[v].sub = worker[w].sub => v = w
  /\ \A p \in Pipes : \A w \in Holders(p) : worker[w].sub \notin Queued(p)
  /\ \A p \in Pipes : runPipe = p =>
       \A s \in batch : s \notin Queued(p) /\ \A w \in Holders(p) : worker[w].sub # s

\* A subscriber gets a campaign twice only when a cleanup has set the checkpoint
\* back below it: a crash alone, at any moment, never repeats a message, because
\* the checkpoint moves when a batch is fetched.
OnlyCleanupRepeats ==
  \A c \in Campaigns : \A p, q \in PipesOf(c) :
    p # q => delivered[p] \cap delivered[q] \subseteq rewound[c]

\* Subscribers of whom it is known what became of their message, and why.
Accounted(c) == Unrenderable \cup lost[c] \cup UNION {Attempted(p) : p \in PipesOf(c)}

\* The checkpoint passes nobody: every subscriber of the audience up to it is
\* accounted for or has its message in hand, also when a batch could not be read,
\* and when a cleanup has set the checkpoint to the highest id a worker recorded.
CheckpointAccounts ==
  \A c \in Campaigns : \A s \in Audience[c] : s <= row[c].lastSub =>
    s \in Accounted(c) \cup UNION {Pending(p) : p \in PipesOf(c)}

\* Once a pipe is stopped the workers send only what they have already accepted,
\* so at most one message each.
OverrunBounded == \A p \in Pipes : overrun[p] <= Cardinality(Workers)

-----------------------------------------------------------------------------
(* Action properties *)

\* The batch loop takes p from nextPipes and, without an error, is done with it.
Exhausts(p) ==
  /\ nextPipes # <<>> /\ p = Head(nextPipes) /\ nextPipes' = Tail(nextPipes)
  /\ runPipe' = None /\ pipe'[p].phase = "live" /\ ~pipe'[p].stopped

\* When the batches of a running campaign come to their end, every subscriber it
\* was to be sent to has been attempted, does not render, waits to be sent, or had
\* its message dropped by a stop or lost in a crash: nobody is passed over by the
\* batches themselves.
ExhaustedAccountsForAll ==
  [][\A p \in Pipes : Exhausts(p) /\ row[pipe[p].camp].status = "running" =>
       LET c == pipe[p].camp IN
       \A s \in Audience[c] : s <= row[c].maxSub => s \in Accounted(c) \cup Pending(p)]_vars

-----------------------------------------------------------------------------
(* Liveness *)

\* Every pipe that is started is drained, cleaned up and taken off the map,
\* however it ends: as each is started once, there comes a time when none is under
\* way.
PipesEnd == []<>(\A p \in Pipes : pipe[p].phase \in {"unused", "gone"})

\* The campaigns that run, or whose send_at has passed, end or are paused, all of
\* them once nobody resumes any (and as long as there are Pipes, a bound, to process
\* them with), though a scan that fails for one tenant drops what it picked for all,
\* a campaign nobody is subscribed to is never marked as running, and a resumed one
\* waits for its last pipe to end.
Active(c) == row[c].status = "running" \/ (row[c].status = "scheduled" /\ row[c].sendAt = "past")
PipesLeft == \E p \in Pipes : pipe[p].phase = "unused"
ActiveCampaignsEnd == []<>(PipesLeft => \A c \in Campaigns : ~Active(c))

-----------------------------------------------------------------------------
(* What comments and documents say and the code does not do *)

Finishes(p) == pipe[p].phase = "finish" /\ pipe'[p].phase = "delete"
                 /\ row'[pipe[p].camp].status = "finished"

\* pipe.go: a campaign is finished when its "subscribers were naturally exhausted":
\* no subscriber it was to be sent to is left out.
FinishAccountsForAll ==
  [][\A p \in Pipes : Finishes(p) =>
       LET c == pipe[p].camp IN
       \A s \in Audience[c] : s <= row[c].maxSub => s \in Accounted(c)]_vars
=============================================================================
