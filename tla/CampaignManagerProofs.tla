------------------------ MODULE CampaignManagerProofs ------------------------
(***************************************************************************)
(* Theorems about CampaignManager: type correctness, and that there is one *)
(* pipe per campaign.  Both follow from the inductive invariant            *)
(* TypeOK /\ PipeMapInv, whose second part says why the scan cannot make a *)
(* second pipe.  One lemma per process, one step per action.               *)
(***************************************************************************)
EXTENDS CampaignManager, TLAPS

-----------------------------------------------------------------------------
(* Types: writing one field of a pipe or of a row *)

\* Each field of a pipe may be written with a value of its type.
LEMMA WgType ==
  ASSUME NEW f \in PipeTable, NEW p, NEW v \in Int
  PROVE  [f EXCEPT ![p].wg = v] \in PipeTable
BY DEF PipeTable, PipeValue
\* The stop flag of a pipe may be written.
LEMMA StoppedType ==
  ASSUME NEW f \in PipeTable, NEW p, NEW v \in BOOLEAN
  PROVE  [f EXCEPT ![p].stopped = v] \in PipeTable
BY DEF PipeTable, PipeValue
\* The error flag of a pipe may be written.
LEMMA WithErrorsType ==
  ASSUME NEW f \in PipeTable, NEW p, NEW v \in BOOLEAN
  PROVE  [f EXCEPT ![p].withErrors = v] \in PipeTable
BY DEF PipeTable, PipeValue
\* The error count of a pipe may be written.
LEMMA ErrorsType ==
  ASSUME NEW f \in PipeTable, NEW p, NEW v \in Nat
  PROVE  [f EXCEPT ![p].errors = v] \in PipeTable
BY DEF PipeTable, PipeValue
\* The highest id sent by a pipe may be written.
LEMMA LastIDType ==
  ASSUME NEW f \in PipeTable, NEW p, NEW v \in Subs \cup {0}
  PROVE  [f EXCEPT ![p].lastID = v] \in PipeTable
BY DEF PipeTable, PipeValue
\* The sent count of a pipe may be written.
LEMMA SentType ==
  ASSUME NEW f \in PipeTable, NEW p, NEW v \in Nat
  PROVE  [f EXCEPT ![p].sent = v] \in PipeTable
BY DEF PipeTable, PipeValue
\* The phase of a pipe may be written.
LEMMA PhaseType ==
  ASSUME NEW f \in PipeTable, NEW p, NEW v \in Phases
  PROVE  [f EXCEPT ![p].phase = v] \in PipeTable
BY DEF PipeTable, PipeValue

\* Each field of a campaign that the code writes may be written likewise.
LEMMA RowStatusType ==
  ASSUME NEW f \in CampaignTable, NEW c, NEW v \in Statuses \cup {"deleted"}
  PROVE  [f EXCEPT ![c].status = v] \in CampaignTable
BY DEF CampaignTable, Row
\* The lock of a row may be taken and released.
LEMMA RowLockType ==
  ASSUME NEW f \in CampaignTable, NEW c, NEW v \in Requests \cup {None}
  PROVE  [f EXCEPT ![c].lock = v] \in CampaignTable
BY DEF CampaignTable, Row
\* The send_at of a row may be edited, or pass.
LEMMA RowSendAtType ==
  ASSUME NEW f \in CampaignTable, NEW c, NEW v \in SendAts
  PROVE  [f EXCEPT ![c].sendAt = v] \in CampaignTable
BY DEF CampaignTable, Row
\* The checkpoint of a row may be moved.
LEMMA RowLastSubType ==
  ASSUME NEW f \in CampaignTable, NEW c, NEW v \in Subs \cup {0}
  PROVE  [f EXCEPT ![c].lastSub = v] \in CampaignTable
BY DEF CampaignTable, Row
\* The upper limit of a row may be set.
LEMMA RowMaxSubType ==
  ASSUME NEW f \in CampaignTable, NEW c, NEW v \in Subs \cup {0}
  PROVE  [f EXCEPT ![c].maxSub = v] \in CampaignTable
BY DEF CampaignTable, Row
\* The sent count of a row may be added to.
LEMMA RowSentType ==
  ASSUME NEW f \in CampaignTable, NEW c, NEW v \in Nat
  PROVE  [f EXCEPT ![c].sent = v] \in CampaignTable
BY DEF CampaignTable, Row

\* update-campaign-status leaves the table well typed.
LEMMA WriteStatusType ==
  ASSUME row \in CampaignTable, NEW c, NEW new \in Statuses
  PROVE  /\ StatusWritten(c, new) \in Statuses \cup {"deleted"}
         /\ WriteStatus(c, new) => row' \in CampaignTable
<1>1. StatusWritten(c, new) \in Statuses \cup {"deleted"}
  BY DEF StatusWritten, Statuses
<1> QED BY <1>1, RowStatusType DEF WriteStatus

\* So does a status write that may fail.
LEMMA TryStatusType ==
  ASSUME TypeOK, NEW c, NEW new \in Statuses, TryStatus(c, new)
  PROVE  row' \in CampaignTable /\ requests' \in Nat /\ faults' \in Nat /\ crashes' \in Nat
BY WriteStatusType DEF TryStatus, Fault, TypeOK, boundVars

\* Releasing a pipe, and stopping it as well, changes neither its campaign nor
\* its phase.
SamePipes(new) ==
  \A p \in Pipes : new[p].camp = pipe[p].camp /\ new[p].phase = pipe[p].phase

\* Giving a count on the waitgroup back keeps the pipes well typed.
LEMMA ReleasedType ==
  ASSUME pipe \in PipeTable, NEW p \in Pipes
  PROVE  /\ Released(pipe, p) \in PipeTable /\ SamePipes(Released(pipe, p))
         /\ StoppedAndReleased(p) \in PipeTable /\ SamePipes(StoppedAndReleased(p))
<1>1. pipe[p].wg - 1 \in Int
  BY DEF PipeTable, PipeValue
<1>2. Released(pipe, p) \in PipeTable
  BY <1>1, WgType DEF Released
<1>3. StoppedAndReleased(p) \in PipeTable
  BY <1>2, StoppedType DEF StoppedAndReleased
<1>4. SamePipes(Released(pipe, p)) /\ SamePipes(StoppedAndReleased(p))
  BY DEF SamePipes, Released, StoppedAndReleased, PipeTable, PipeValue
<1> QED BY <1>2, <1>3, <1>4

\* Queueing a pipe for Run, or stopping and releasing it, keeps the types.
LEMMA EnqueueType ==
  ASSUME TypeOK, NEW p \in Pipes, EnqueueOrRelease(p)
  PROVE  pipe' \in PipeTable /\ nextPipes' \in Seq(Pipes) /\ SamePipes(pipe')
<1>1. CASE nextPipes' = Append(nextPipes, p) /\ UNCHANGED pipe
  BY <1>1 DEF TypeOK, SamePipes
<1>2. CASE pipe' = StoppedAndReleased(p) /\ UNCHANGED nextPipes
  BY <1>2, ReleasedType DEF TypeOK
<1> QED BY <1>1, <1>2 DEF EnqueueOrRelease

\* The prefix of an audience that a batch takes is made of subscribers.
LEMMA NextBatchType ==
  ASSUME NEW c \in Campaigns
  PROVE  NextBatch(c) \subseteq Subs /\ Remaining(c) \subseteq Subs
BY ManagerAssumption DEF NextBatch, Remaining

-----------------------------------------------------------------------------
(* What a step that makes and removes no pipe cannot break *)

\* A step that changes neither the map, the phases nor what is handed around
\* preserves the invariant of the map.
LEMMA SamePipesKeepMap ==
  ASSUME TypeOK, PipeMapInv, SamePipes(pipe'), pipeOf' = pipeOf
  PROVE  /\ OnePipePerCampaign' /\ MapIsAlive'
         /\ \A p \in Pipes : pipe'[p].phase # "unused" => pipe'[p].camp \in Campaigns
<1>1. \A p \in Pipes : Alive(p)' <=> Alive(p)
  BY DEF SamePipes, Alive
<1>2. OnePipePerCampaign'
  BY <1>1 DEF SamePipes, PipeMapInv, OnePipePerCampaign
<1>3. ASSUME NEW c \in Campaigns, pipeOf[c] # None
      PROVE  Alive(pipeOf[c])' /\ pipe'[pipeOf'[c]].camp = c
  <2>1. pipeOf[c] \in Pipes
    BY <1>3 DEF TypeOK
  <2> QED BY <1>1, <1>3, <2>1 DEF Alive, SamePipes, PipeMapInv, MapIsAlive
<1> QED BY <1>2, <1>3 DEF SamePipes, PipeMapInv, PipesHaveCampaigns, MapIsAlive

\* A step that leaves the channels' pipes alone and whose scan stays honest.
LEMMA MapKept ==
  ASSUME TypeOK, PipeMapInv, SamePipes(pipe'), pipeOf' = pipeOf,
         nextPipes' = nextPipes, runPipe' = runPipe,
         scanPc' = "enqueue" => scanPc = "enqueue" /\ scanAt' = scanAt,
         ScanKnowsMap', PicksAreFree'
  PROVE  PipeMapInv'
<1>1. \A i \in 1..Len(nextPipes) : nextPipes[i] \in Pipes
  BY DEF TypeOK
<1>2. PipesHaveCampaigns'
  BY <1>1, SamePipesKeepMap DEF PipeMapInv, PipesHaveCampaigns, SamePipes, TypeOK
<1> QED BY <1>2, SamePipesKeepMap DEF PipeMapInv

\* A step outside the scan does not change what the scan knows.
LEMMA SameScanKeepsMap ==
  ASSUME TypeOK, PipeMapInv, SamePipes(pipe'), UNCHANGED <<pipeOf, scanVars>>,
         nextPipes' = nextPipes, runPipe' = runPipe
  PROVE  PipeMapInv'
<1>1. ScanKnowsMap' /\ PicksAreFree'
  BY DEF PipeMapInv, ScanKnowsMap, PicksAreFree, scanVars
<1> QED BY <1>1, MapKept DEF scanVars

-----------------------------------------------------------------------------
\* Initially the database is all there is.
LEMMA InitInv == Init => TypeOK /\ PipeMapInv
<1> SUFFICES ASSUME Init PROVE TypeOK /\ PipeMapInv
  OBVIOUS
<1>1. row \in CampaignTable
  BY ManagerAssumption DEF Init, CampaignTable, Row
<1>2. pipe \in PipeTable
  BY DEF Init, PipeAt, PipeTable, PipeValue, Phases
<1>3. worker \in [Workers -> WorkerState] /\ request \in [Requests -> RequestState]
  BY DEF Init, WorkerState, RequestState
<1>4. TypeOK
  <2>1. requests \in Nat /\ faults \in Nat
    BY ManagerAssumption DEF Init
  <2> QED BY <1>1, <1>2, <1>3, <2>1 DEF Init, TypeOK
<1>5. \A p \in Pipes : pipe[p].phase = "unused"
  BY DEF Init, PipeAt
<1>6. PipeMapInv
  BY <1>5 DEF Init, Alive, PipeMapInv, OnePipePerCampaign, PipesHaveCampaigns,
         MapIsAlive, ScanKnowsMap, PicksAreFree
<1> QED BY <1>4, <1>6

-----------------------------------------------------------------------------
(* scanCampaigns *)

\* The updates of next-campaigns keep the table well typed.
LEMMA ScanUpdateType ==
  ASSUME TypeOK, ScanUpdate
  PROVE  row' \in CampaignTable
<1> DEFINE picked == {c \in scanPicked : Audience[c] # {} /\ Exists(c)}
           counted == {c \in scanIds : TenantOf[c] = scanAt}
           started(c, top) == [row[c] EXCEPT !.status = "running", !.maxSub = top[c]]
           added(c) == [row[c] EXCEPT !.sent = IF c \in counted THEN @ + scanCounts[c] ELSE @]
<1>1. PICK top \in [picked -> Subs] :
        row' = [c \in Campaigns |-> IF c \in picked THEN started(c, top) ELSE added(c)]
  BY DEF ScanUpdate
<1>2. ASSUME NEW c \in Campaigns PROVE row[c] \in Row /\ scanCounts[c] \in Nat
  BY DEF TypeOK, CampaignTable
<1>3. ASSUME NEW c \in Campaigns PROVE added(c) \in Row
  BY <1>2 DEF Row
<1>4. ASSUME NEW c \in picked, c \in Campaigns PROVE started(c, top) \in Row
  <2>1. top[c] \in Subs
    OBVIOUS
  <2> HIDE DEF picked
  <2>2. [row[c] EXCEPT !.status = "running"] \in Row
    <3>1. "running" \in Statuses
      BY DEF Statuses
    <3> QED BY <1>2, <1>4, <3>1 DEF Row
  <2>3. \A r \in Row : [r EXCEPT !.maxSub = top[c]] \in Row
    BY <2>1 DEF Row
  <2>4. started(c, top) = [[row[c] EXCEPT !.status = "running"] EXCEPT !.maxSub = top[c]]
    BY <1>2, <1>4 DEF Row
  <2> QED BY <2>2, <2>3, <2>4
<1> HIDE DEF picked, started, added
<1> QED BY <1>1, <1>3, <1>4 DEF CampaignTable

\* newPipe: the campaign had no pipe, so the new one is its only one.
LEMMA ScanNewPipeInv ==
  ASSUME TypeOK, PipeMapInv, NEW c \in Campaigns, NEW p \in Pipes, ScanNewPipe(c, p)
  PROVE  TypeOK' /\ PipeMapInv'
<1>1. /\ pipe[p].phase = "unused" /\ pipeOf[c] = None /\ scanPc = "make"
      /\ pipe' = [pipe EXCEPT ![p] = NewPipe(c)] /\ pipeOf' = [pipeOf EXCEPT ![c] = p]
      /\ scanMake' = scanMake \ {c} /\ scanAt' = p /\ scanPc' = "enqueue"
      /\ UNCHANGED <<nextPipes, runPipe, scanTodo, scanIds, scanPicked>>
  BY DEF ScanNewPipe, Fresh, chanVars, runVars, ByScan, PipeMapInv, PicksAreFree
<1>2. NewPipe(c) \in PipeValue /\ NewPipe(c).phase = "live" /\ NewPipe(c).camp = c
  BY DEF NewPipe, PipeAt, PipeValue, Phases, CleanupPhases
<1>3. pipe' \in PipeTable
  BY <1>1, <1>2 DEF TypeOK, PipeTable
<1>4. TypeOK'
  BY <1>1, <1>3 DEF ScanNewPipe, ByScan, chanVars, runVars, boundVars, histVars, TypeOK
<1>5. /\ pipe'[p].phase = "live" /\ pipe'[p].camp = c
      /\ \A q \in Pipes : q # p => pipe'[q] = pipe[q]
  BY <1>1, <1>2 DEF TypeOK, PipeTable
<1>6. /\ pipeOf'[c] = p
      /\ \A d \in Campaigns : d # c => pipeOf'[d] = pipeOf[d]
  BY <1>1 DEF TypeOK
<1>7. \A q \in Pipes : q # None
  BY ManagerAssumption
<1>8. OnePipePerCampaign'
  <2> SUFFICES ASSUME NEW q \in Pipes, Alive(q)' PROVE pipeOf'[pipe'[q].camp] = q
    BY DEF OnePipePerCampaign
  <2>1. CASE q = p
    BY <1>5, <1>6, <2>1
  <2>2. CASE q # p
    <3>1. Alive(q) /\ pipe[q].camp \in Campaigns
      BY <1>5, <2>2 DEF Alive, PipeMapInv, PipesHaveCampaigns
    <3>2. pipeOf[pipe[q].camp] = q
      BY <3>1 DEF PipeMapInv, OnePipePerCampaign
    <3> QED BY <1>1, <1>5, <1>6, <1>7, <2>2, <3>1, <3>2
  <2> QED BY <2>1, <2>2
<1>9. MapIsAlive'
  <2> SUFFICES ASSUME NEW d \in Campaigns, pipeOf'[d] # None
               PROVE  Alive(pipeOf[d])' /\ pipe'[pipeOf'[d]].camp = d
    BY DEF MapIsAlive
  <2>1. CASE d = c
    BY <1>5, <1>6, <2>1 DEF Alive
  <2>2. CASE d # c
    <3>1. pipeOf[d] \in Pipes /\ Alive(pipeOf[d]) /\ pipe[pipeOf[d]].camp = d
      BY <1>6, <2>2 DEF TypeOK, PipeMapInv, MapIsAlive
    <3>2. pipeOf[d] # p
      BY <1>1, <3>1 DEF Alive
    <3> QED BY <1>5, <1>6, <2>2, <3>1, <3>2 DEF Alive
  <2> QED BY <2>1, <2>2
<1>10. PipesHaveCampaigns'
  <2>1. \A i \in 1..Len(nextPipes) : nextPipes[i] \in Pipes
    BY DEF TypeOK
  <2> QED BY <1>1, <1>5, <2>1 DEF PipeMapInv, PipesHaveCampaigns, TypeOK
<1>11. ScanKnowsMap' /\ PicksAreFree'
  BY <1>1, <1>6 DEF TypeOK, PipeMapInv, ScanKnowsMap, PicksAreFree
<1> QED BY <1>4, <1>8, <1>9, <1>10, <1>11 DEF PipeMapInv

\* A pipe that exists may be queued.
LEMMA EnqueueKeepsChannels ==
  ASSUME TypeOK, PipeMapInv, NEW p \in Pipes, pipe[p].phase # "unused",
         EnqueueOrRelease(p), pipeOf' = pipeOf,
         runPipe' \in {runPipe, None},
         scanPc' = "enqueue" => scanPc = "enqueue" /\ scanAt' = scanAt
  PROVE  PipesHaveCampaigns'
<1>1. SamePipes(pipe') /\ nextPipes' \in Seq(Pipes)
  BY EnqueueType
<1>2. nextPipes' \in {nextPipes, Append(nextPipes, p)}
  BY DEF EnqueueOrRelease
<1>3. \A i \in 1..Len(nextPipes') : nextPipes'[i] \in Pipes /\ pipe[nextPipes'[i]].phase # "unused"
  BY <1>2, SMTT(30) DEF TypeOK, PipeMapInv, PipesHaveCampaigns
<1> QED BY <1>1, <1>3, SamePipesKeepMap DEF PipeMapInv, PipesHaveCampaigns, SamePipes, TypeOK

\* Every step of scanCampaigns preserves the invariant.
LEMMA ScanInv ==
  ASSUME TypeOK, PipeMapInv, Scan
  PROVE  TypeOK' /\ PipeMapInv'
<1> USE DEF chanVars, runVars, boundVars, histVars, ByScan
<1>0. SamePipes(pipe) /\ (pipe' = pipe => SamePipes(pipe'))
  BY DEF SamePipes
<1>1. CASE ScanTick
  <2>1. TypeOK'
    BY <1>1 DEF ScanTick, TypeOK
  <2>2. ScanKnowsMap' /\ PicksAreFree'
    BY <1>1 DEF ScanTick, PipeMapInv, ScanKnowsMap, PicksAreFree
  <2>3. PipeMapInv'
    BY <1>0, <1>1, <2>2, MapKept DEF ScanTick
  <2> QED BY <2>1, <2>3
<1>2. ASSUME NEW c \in Campaigns, ScanLoad(c) PROVE TypeOK' /\ PipeMapInv'
  <2>1. pipe[pipeOf[c]].sent \in Nat
    <3>1. pipeOf[c] # None
      BY <1>2 DEF ScanLoad, PipeMapInv, ScanKnowsMap
    <3> QED BY <3>1 DEF TypeOK, PipeTable, PipeValue
  <2>2. TypeOK'
    BY <1>2, <2>1 DEF ScanLoad, TypeOK
  <2>3. ScanKnowsMap' /\ PicksAreFree'
    BY <1>2 DEF ScanLoad, PipeMapInv, ScanKnowsMap, PicksAreFree
  <2>4. PipeMapInv'
    BY <1>0, <1>2, <2>3, MapKept DEF ScanLoad
  <2> QED BY <2>2, <2>4
<1>3. CASE ScanReset
  <2>1. pipe' \in PipeTable
    BY <1>3, SentType DEF ScanReset, TypeOK
  <2>2. SamePipes(pipe')
    BY <1>3 DEF ScanReset, SamePipes, TypeOK, PipeTable, PipeValue
  <2>3. TypeOK'
    BY <1>3, <2>1 DEF ScanReset, TypeOK
  <2>4. ScanKnowsMap' /\ PicksAreFree'
    BY <1>3 DEF ScanReset, PipeMapInv, ScanKnowsMap, PicksAreFree
  <2>5. PipeMapInv'
    BY <1>3, <2>2, <2>4, MapKept DEF ScanReset
  <2> QED BY <2>3, <2>5
<1>4. ASSUME NEW t \in Tenants, ScanSelect(t) PROVE TypeOK' /\ PipeMapInv'
  <2>1. TypeOK'
    BY <1>4 DEF ScanSelect, TypeOK
  <2>2. \A c \in scanPicked' : pipeOf[c] = None
    BY <1>4 DEF ScanSelect, PipeMapInv, ScanKnowsMap
  <2>3. ScanKnowsMap' /\ PicksAreFree'
    BY <1>4, <2>2 DEF ScanSelect, PipeMapInv, ScanKnowsMap, PicksAreFree
  <2>4. PipeMapInv'
    BY <1>0, <1>4, <2>3, MapKept DEF ScanSelect
  <2> QED BY <2>1, <2>4
<1>5. CASE ScanUpdate
  <2>1. row' \in CampaignTable
    BY <1>5, ScanUpdateType
  <2>2. TypeOK'
    <3>1. scanPc' \in {"make", "count"} /\ scanIds' \in {{}, scanIds}
      BY <1>5 DEF ScanUpdate, ForgetCounts
    <3>2. scanCounts' \in [Campaigns -> Nat]
      <4>1. scanCounts' = [c \in Campaigns |-> 0] \/ scanCounts' = scanCounts
        BY <1>5 DEF ScanUpdate, ForgetCounts
      <4> QED BY <4>1 DEF TypeOK
    <3> QED BY <1>5, <2>1, <3>1, <3>2 DEF ScanUpdate, TypeOK
  <2>3. ScanKnowsMap' /\ PicksAreFree'
    BY <1>5 DEF ScanUpdate, PipeMapInv, ScanKnowsMap, PicksAreFree
  <2>4. PipeMapInv'
    BY <1>0, <1>5, <2>3, MapKept DEF ScanUpdate
  <2> QED BY <2>2, <2>4
<1>6. CASE ScanError
  <2>1. TypeOK'
    BY <1>6 DEF ScanError, Fault, ForgetCounts, TypeOK
  <2>2. ScanKnowsMap' /\ PicksAreFree'
    BY <1>6 DEF ScanError, PipeMapInv, ScanKnowsMap, PicksAreFree
  <2>3. PipeMapInv'
    BY <1>0, <1>6, <2>2, MapKept DEF ScanError
  <2> QED BY <2>1, <2>3
<1>7. ASSUME NEW c \in Campaigns, ScanUnknownMessenger(c) PROVE TypeOK' /\ PipeMapInv'
  <2>1. row' \in CampaignTable /\ requests' \in Nat /\ faults' \in Nat /\ crashes' \in Nat
    BY <1>7, TryStatusType DEF ScanUnknownMessenger, Statuses
  <2>2. TypeOK'
    BY <1>7, <2>1 DEF ScanUnknownMessenger, TypeOK
  <2>3. ScanKnowsMap' /\ PicksAreFree'
    BY <1>7 DEF ScanUnknownMessenger, PipeMapInv, ScanKnowsMap, PicksAreFree
  <2>4. PipeMapInv'
    BY <1>0, <1>7, <2>3, MapKept DEF ScanUnknownMessenger
  <2> QED BY <2>2, <2>4
<1>8. ASSUME NEW c \in Campaigns, ScanPipeError(c) PROVE TypeOK' /\ PipeMapInv'
  <2>1. TypeOK'
    BY <1>8 DEF ScanPipeError, Fault, TypeOK
  <2>2. ScanKnowsMap' /\ PicksAreFree'
    BY <1>8 DEF ScanPipeError, PipeMapInv, ScanKnowsMap, PicksAreFree
  <2>3. PipeMapInv'
    BY <1>0, <1>8, <2>2, MapKept DEF ScanPipeError
  <2> QED BY <2>1, <2>3
<1>9. ASSUME NEW c \in Campaigns, NEW p \in Pipes, ScanNewPipe(c, p)
      PROVE  TypeOK' /\ PipeMapInv'
  BY <1>9, ScanNewPipeInv
<1>10. CASE ScanEnqueue
  <2>1. scanAt \in Pipes /\ pipe[scanAt].phase # "unused"
    BY <1>10 DEF ScanEnqueue, PipeMapInv, PipesHaveCampaigns
  <2>2. pipe' \in PipeTable /\ nextPipes' \in Seq(Pipes) /\ SamePipes(pipe')
    BY <1>10, <2>1, EnqueueType DEF ScanEnqueue
  <2>3. TypeOK'
    BY <1>10, <2>2 DEF ScanEnqueue, TypeOK
  <2>4. ScanKnowsMap' /\ PicksAreFree'
    BY <1>10 DEF ScanEnqueue, PipeMapInv, ScanKnowsMap, PicksAreFree
  <2>5. PipesHaveCampaigns'
    BY <1>10, <2>1, <2>2, EnqueueKeepsChannels DEF ScanEnqueue
  <2>6. PipeMapInv'
    BY <1>10, <2>2, <2>4, <2>5, SamePipesKeepMap DEF ScanEnqueue, PipeMapInv
  <2> QED BY <2>3, <2>6
<1>11. CASE ScanDone
  <2>1. TypeOK'
    BY <1>11 DEF ScanDone, TypeOK
  <2>2. ScanKnowsMap' /\ PicksAreFree'
    BY <1>11 DEF ScanDone, PipeMapInv, ScanKnowsMap, PicksAreFree
  <2>3. PipeMapInv'
    BY <1>0, <1>11, <2>2, MapKept DEF ScanDone
  <2> QED BY <2>1, <2>3
<1> QED BY <1>1, <1>2, <1>3, <1>4, <1>5, <1>6, <1>7, <1>8, <1>9, <1>10, <1>11 DEF Scan

-----------------------------------------------------------------------------
(* Run and NextSubscribers *)

\* The pipes left on nextPipes are the ones that were there.
LEMMA ReceiveKeepsChannels ==
  ASSUME TypeOK, PipeMapInv, NEW p \in Pipes, RunReceive(p), SamePipes(pipe'),
         UNCHANGED scanVars, runPipe' \in {None, p}
  PROVE  nextPipes' \in Seq(Pipes) /\ pipe[p].phase # "unused" /\ PipeMapInv'
<1>1. nextPipes' \in Seq(Pipes) /\ Len(nextPipes') = Len(nextPipes) - 1 /\ Len(nextPipes) > 0
  BY DEF RunReceive, TypeOK
<1>2. \A i \in 1..Len(nextPipes') : nextPipes'[i] = nextPipes[i + 1] /\ i + 1 \in 1..Len(nextPipes)
  BY <1>1 DEF RunReceive, TypeOK
<1>3. \A i \in 1..Len(nextPipes) : nextPipes[i] \in Pipes /\ pipe[nextPipes[i]].phase # "unused"
  BY DEF TypeOK, PipeMapInv, PipesHaveCampaigns
<1>4. \A i \in 1..Len(nextPipes') : nextPipes'[i] \in Pipes /\ pipe[nextPipes'[i]].phase # "unused"
  BY <1>2, <1>3
<1>5. pipe[p].phase # "unused"
  BY <1>1, <1>3 DEF RunReceive, TypeOK
<1>6. pipeOf' = pipeOf
  BY DEF RunReceive
<1>7. PipesHaveCampaigns'
  BY <1>4, <1>5, <1>6, SamePipesKeepMap DEF PipeMapInv, PipesHaveCampaigns, SamePipes, TypeOK, scanVars
<1>8. ScanKnowsMap' /\ PicksAreFree'
  BY <1>6 DEF PipeMapInv, ScanKnowsMap, PicksAreFree, scanVars
<1> QED BY <1>1, <1>5, <1>6, <1>7, <1>8, SamePipesKeepMap DEF PipeMapInv

\* Every step of Run preserves the invariant.
LEMMA RunInv ==
  ASSUME TypeOK, PipeMapInv, Run
  PROVE  TypeOK' /\ PipeMapInv'
<1> USE DEF ByRun
<1>0. SamePipes(pipe) /\ (pipe' = pipe => SamePipes(pipe'))
  BY DEF SamePipes
<1>1. ASSUME NEW p \in Pipes, RunFetch(p) PROVE TypeOK' /\ PipeMapInv'
  <2> DEFINE c == pipe[p].camp
  <2>1. nextPipes' \in Seq(Pipes) /\ pipe[p].phase # "unused" /\ PipeMapInv'
    BY <1>0, <1>1, ReceiveKeepsChannels DEF RunFetch
  <2>2. c \in Campaigns
    BY <2>1 DEF PipeMapInv, PipesHaveCampaigns
  <2>3. batch' \subseteq Subs
    BY <1>1, <2>2, NextBatchType DEF RunFetch
  <2>4. row' \in CampaignTable
    <3>1. PICK top \in batch' : row' = [row EXCEPT ![c].lastSub = top]
      BY <1>1 DEF RunFetch
    <3>2. top \in Subs \cup {0}
      BY <2>3
    <3> QED BY <3>1, <3>2, RowLastSubType DEF TypeOK
  <2>5. TypeOK'
    BY <1>1, <2>1, <2>3, <2>4 DEF RunFetch, RunReceive, TypeOK, scanVars, boundVars, histVars
  <2> QED BY <2>1, <2>5
<1>2. ASSUME NEW p \in Pipes, RunExhausted(p) PROVE TypeOK' /\ PipeMapInv'
  <2>1. pipe' \in PipeTable /\ SamePipes(pipe')
    BY <1>2, ReleasedType DEF RunExhausted, TypeOK
  <2>2. runPipe' = None
    BY <1>2 DEF RunExhausted, RunReceive, runVars
  <2>3. nextPipes' \in Seq(Pipes) /\ PipeMapInv'
    BY <1>2, <2>1, <2>2, ReceiveKeepsChannels DEF RunExhausted
  <2>4. TypeOK'
    BY <1>2, <2>1, <2>3
       DEF RunExhausted, RunReceive, TypeOK, scanVars, runVars, boundVars, histVars
  <2> QED BY <2>3, <2>4
<1>3. ASSUME NEW p \in Pipes, RunError(p) PROVE TypeOK' /\ PipeMapInv'
  <2>1. pipe' \in PipeTable /\ SamePipes(pipe')
    BY <1>3, ReleasedType DEF RunError, TypeOK
  <2>2. runPipe' = None
    BY <1>3 DEF RunError, RunReceive, runVars
  <2>3. nextPipes' \in Seq(Pipes) /\ PipeMapInv'
    BY <1>3, <2>1, <2>2, ReceiveKeepsChannels DEF RunError
  <2>4. TypeOK'
    BY <1>3, <2>1, <2>3
       DEF RunError, RunReceive, Fault, TypeOK, scanVars, runVars, boundVars, histVars
  <2> QED BY <2>3, <2>4
<1>4. ASSUME NEW s \in Subs, RunPush(s) PROVE TypeOK' /\ PipeMapInv'
  <2>1. runPipe \in Pipes /\ pipe[runPipe].wg + 1 \in Int
    BY <1>4 DEF RunPush, TypeOK, PipeTable, PipeValue
  <2>2. pipe' \in PipeTable
    BY <1>4, <2>1, WgType DEF RunPush, TypeOK
  <2>3. SamePipes(pipe')
    BY <1>4 DEF RunPush, SamePipes, TypeOK, PipeTable, PipeValue
  <2>4. campMsgQ' \in Seq(Message)
    BY <1>4, <2>1 DEF RunPush, TypeOK, Message
  <2>5. TypeOK'
    BY <1>4, <2>2, <2>4 DEF RunPush, TypeOK, scanVars, boundVars, histVars
  <2>6. PipeMapInv'
    BY <1>4, <2>3, SameScanKeepsMap DEF RunPush
  <2> QED BY <2>5, <2>6
<1>5. ASSUME NEW s \in Subs, RunRenderError(s) PROVE TypeOK' /\ PipeMapInv'
  <2>1. TypeOK'
    BY <1>5 DEF RunRenderError, TypeOK, chanVars, scanVars, boundVars, histVars
  <2>2. PipeMapInv'
    BY <1>0, <1>5, SameScanKeepsMap DEF RunRenderError, chanVars
  <2> QED BY <2>1, <2>2
<1>6. CASE RunRequeue
  <2>1. runPipe \in Pipes /\ pipe[runPipe].phase # "unused"
    BY <1>6 DEF RunRequeue, TypeOK, PipeMapInv, PipesHaveCampaigns
  <2>2. pipe' \in PipeTable /\ nextPipes' \in Seq(Pipes) /\ SamePipes(pipe')
    BY <1>6, <2>1, EnqueueType DEF RunRequeue
  <2>3. TypeOK'
    BY <1>6, <2>2 DEF RunRequeue, TypeOK, scanVars, boundVars, histVars
  <2>4. ScanKnowsMap' /\ PicksAreFree'
    BY <1>6 DEF RunRequeue, PipeMapInv, ScanKnowsMap, PicksAreFree, scanVars
  <2>5. PipesHaveCampaigns'
    BY <1>6, <2>1, EnqueueKeepsChannels DEF RunRequeue, scanVars
  <2>6. PipeMapInv'
    BY <1>6, <2>2, <2>4, <2>5, SamePipesKeepMap DEF RunRequeue, PipeMapInv
  <2> QED BY <2>3, <2>6
<1> QED BY <1>1, <1>2, <1>3, <1>4, <1>5, <1>6 DEF Run

-----------------------------------------------------------------------------
(* worker *)

\* A worker that is not resting has a pipe and a subscriber in hand, and moves on
\* to another program point with them, or rests.
LEMMA WorkerType ==
  ASSUME TypeOK, NEW w \in Workers, worker[w].pc # "idle"
  PROVE  /\ worker[w].pipe \in Pipes /\ worker[w].sub \in Subs
         /\ \A pc \in {"push", "error", "load", "store", "sent"} :
              WorkerTo(w, pc) => worker' \in [Workers -> WorkerState]
         /\ WorkerRest(w) => worker' \in [Workers -> WorkerState]
<1>1. worker[w] \in [pc : {"check", "push", "error", "load", "store", "sent"},
                    pipe : Pipes, sub : Subs]
  BY DEF TypeOK, WorkerState, Resting
<1>2. worker[w].pipe \in Pipes /\ worker[w].sub \in Subs
  BY <1>1
<1>3. ASSUME NEW pc \in {"push", "error", "load", "store", "sent"}, WorkerTo(w, pc)
      PROVE  worker' \in [Workers -> WorkerState]
  <2>1. [worker[w] EXCEPT !.pc = pc] \in WorkerState
    BY <1>1 DEF WorkerState
  <2> QED BY <1>3, <2>1 DEF WorkerTo, TypeOK
<1>4. ASSUME WorkerRest(w) PROVE worker' \in [Workers -> WorkerState]
  BY <1>4 DEF WorkerRest, WorkerState, TypeOK
<1> QED BY <1>2, <1>3, <1>4

\* What the worker's steps have in common: they write their own state, a field of
\* the message's pipe, and the history.
LEMMA WorkerStepInv ==
  ASSUME TypeOK, PipeMapInv, ByWorker, pipe' \in PipeTable, SamePipes(pipe'),
         worker' \in [Workers -> WorkerState], campMsgQ' \in Seq(Message),
         delivered' \in [Pipes -> SUBSET Subs], failed' \in [Pipes -> SUBSET Subs],
         lost' \in [Campaigns -> SUBSET Subs], overrun' \in [Pipes -> Nat]
  PROVE  TypeOK' /\ PipeMapInv'
<1>1. TypeOK'
  BY DEF ByWorker, TypeOK, scanVars, runVars, boundVars
<1>2. PipeMapInv'
  BY SameScanKeepsMap DEF ByWorker, runVars
<1> QED BY <1>1, <1>2

\* OnError writes three fields of the pipe.
LEMMA OnErrorType ==
  ASSUME pipe \in PipeTable, NEW p \in Pipes, NEW trip \in BOOLEAN,
         NEW new, new = [pipe EXCEPT ![p].errors = @ + 1,
                                     ![p].withErrors = @ \/ trip,
                                     ![p].stopped = @ \/ trip]
  PROVE  new \in PipeTable /\ SamePipes(new)
<1> DEFINE f == [pipe EXCEPT ![p].errors = pipe[p].errors + 1]
           g == [f EXCEPT ![p].withErrors = pipe[p].withErrors \/ trip]
           h == [g EXCEPT ![p].stopped = pipe[p].stopped \/ trip]
<1>1. /\ pipe[p].errors + 1 \in Nat
      /\ (pipe[p].withErrors \/ trip) \in BOOLEAN /\ (pipe[p].stopped \/ trip) \in BOOLEAN
  BY DEF PipeTable, PipeValue
<1>2. f \in PipeTable
  BY <1>1, ErrorsType
<1>3. g \in PipeTable
  <2> HIDE DEF f
  <2> QED BY <1>1, <1>2, WithErrorsType
<1>4. h \in PipeTable
  <2> HIDE DEF g
  <2> QED BY <1>1, <1>3, StoppedType
<1>5. new = h
  BY DEF PipeTable, PipeValue
<1>6. SamePipes(new)
  BY DEF SamePipes, PipeTable, PipeValue
<1> QED BY <1>4, <1>5, <1>6

\* Every step of a worker preserves the invariant.
LEMMA WorkerInv ==
  ASSUME TypeOK, PipeMapInv, NEW w \in Workers, Worker(w)
  PROVE  TypeOK' /\ PipeMapInv'
<1> DEFINE p == worker[w].pipe
           s == worker[w].sub
<1>0. SamePipes(pipe) /\ (pipe' = pipe => SamePipes(pipe'))
  BY DEF SamePipes
<1>1. NoOutcome => /\ delivered' \in [Pipes -> SUBSET Subs] /\ failed' \in [Pipes -> SUBSET Subs]
                   /\ lost' \in [Campaigns -> SUBSET Subs] /\ overrun' \in [Pipes -> Nat]
  BY DEF NoOutcome, TypeOK
<1>2. pipe \in PipeTable /\ campMsgQ \in Seq(Message)
  BY DEF TypeOK
<1>3. CASE WorkerTake(w)
  <2>1. Head(campMsgQ) \in Message /\ campMsgQ' \in Seq(Message)
    BY <1>3 DEF WorkerTake, TypeOK
  <2>2. [pc |-> "check", pipe |-> Head(campMsgQ).pipe, sub |-> Head(campMsgQ).sub] \in WorkerState
    BY <2>1 DEF Message, WorkerState
  <2>3. worker' \in [Workers -> WorkerState]
    BY <1>3, <2>2 DEF WorkerTake, TypeOK
  <2> QED BY <1>0, <1>1, <1>2, <1>3, <2>1, <2>3, WorkerStepInv DEF WorkerTake
<1>4. CASE WorkerDrop(w)
  <2>1. p \in Pipes /\ s \in Subs /\ worker' \in [Workers -> WorkerState]
    BY <1>4, WorkerType DEF WorkerDrop, WorkerAt
  <2>2. pipe' \in PipeTable /\ SamePipes(pipe')
    BY <1>2, <1>4, <2>1, ReleasedType DEF WorkerDrop
  <2>3. lost' \in [Campaigns -> SUBSET Subs]
    BY <1>4, <2>1 DEF WorkerDrop, TypeOK
  <2>4. ByWorker /\ UNCHANGED <<campMsgQ, delivered, failed, overrun>>
    BY <1>4 DEF WorkerDrop
  <2> QED BY <1>2, <2>1, <2>2, <2>3, <2>4, WorkerStepInv DEF TypeOK
<1>5. CASE WorkerAccept(w)
  <2>1. worker' \in [Workers -> WorkerState]
    BY <1>5, WorkerType DEF WorkerAccept, WorkerAt
  <2> QED BY <1>0, <1>1, <1>2, <1>5, <2>1, WorkerStepInv DEF WorkerAccept
<1>6. ASSUME NEW ok \in BOOLEAN, WorkerPush(w, ok) PROVE TypeOK' /\ PipeMapInv'
  <2>1. p \in Pipes /\ s \in Subs /\ worker' \in [Workers -> WorkerState]
    BY <1>6, WorkerType DEF WorkerPush, WorkerAt
  <2>2. pipe' \in PipeTable /\ SamePipes(pipe')
    BY <1>2, <1>6, <2>1, ReleasedType DEF WorkerPush
  <2>3. delivered' \in [Pipes -> SUBSET Subs] /\ failed' \in [Pipes -> SUBSET Subs]
    BY <1>6, <2>1 DEF WorkerPush, TypeOK
  <2>4. overrun' \in [Pipes -> Nat]
    BY <1>6, <2>1 DEF WorkerPush, TypeOK
  <2>5. ByWorker /\ UNCHANGED <<campMsgQ, lost>>
    BY <1>6 DEF WorkerPush
  <2> QED BY <1>2, <2>1, <2>2, <2>3, <2>4, <2>5, WorkerStepInv DEF TypeOK
<1>7. CASE WorkerOnError(w)
  <2>1. p \in Pipes /\ worker' \in [Workers -> WorkerState]
    BY <1>7, WorkerType DEF WorkerOnError, WorkerAt
  <2>2. pipe' \in PipeTable /\ SamePipes(pipe')
    <3> DEFINE trip == pipe[p].errors + 1 >= MaxSendErrors /\ ~pipe[p].stopped
    <3>1. trip \in BOOLEAN
      OBVIOUS
    <3>2. CASE MaxSendErrors < 1
      BY <1>0, <1>2, <1>7, <3>2 DEF WorkerOnError
    <3>3. CASE ~(MaxSendErrors < 1)
      <4>1. pipe' = [pipe EXCEPT ![p].errors = @ + 1,
                                 ![p].withErrors = @ \/ trip,
                                 ![p].stopped = @ \/ trip]
        BY <1>7, <3>3 DEF WorkerOnError
      <4> HIDE DEF trip
      <4> QED BY <1>2, <2>1, <3>1, <4>1, OnErrorType
    <3> QED BY <3>2, <3>3
  <2> QED BY <1>1, <1>2, <1>7, <2>1, <2>2, WorkerStepInv DEF WorkerOnError
<1>8. CASE WorkerLoad(w)
  <2>1. worker' \in [Workers -> WorkerState]
    BY <1>8, WorkerType DEF WorkerLoad, WorkerAt
  <2> QED BY <1>0, <1>1, <1>2, <1>8, <2>1, WorkerStepInv DEF WorkerLoad
<1>9. CASE WorkerStore(w)
  <2>1. s \in Subs /\ worker' \in [Workers -> WorkerState]
    BY <1>9, WorkerType DEF WorkerStore, WorkerAt
  <2>2. pipe' \in PipeTable
    BY <1>2, <1>9, <2>1, LastIDType DEF WorkerStore
  <2>3. SamePipes(pipe')
    BY <1>2, <1>9 DEF WorkerStore, SamePipes, PipeTable, PipeValue
  <2> QED BY <1>1, <1>2, <1>9, <2>1, <2>2, <2>3, WorkerStepInv DEF WorkerStore
<1>10. CASE WorkerSent(w)
  <2>1. p \in Pipes /\ pipe[p].sent + 1 \in Nat /\ worker' \in [Workers -> WorkerState]
    BY <1>2, <1>10, WorkerType DEF WorkerSent, WorkerAt, PipeTable, PipeValue
  <2>2. pipe' \in PipeTable
    BY <1>2, <1>10, <2>1, SentType DEF WorkerSent
  <2>3. SamePipes(pipe')
    BY <1>2, <1>10 DEF WorkerSent, SamePipes, PipeTable, PipeValue
  <2> QED BY <1>1, <1>2, <1>10, <2>1, <2>2, <2>3, WorkerStepInv DEF WorkerSent
<1> QED BY <1>3, <1>4, <1>5, <1>6, <1>7, <1>8, <1>9, <1>10 DEF Worker

-----------------------------------------------------------------------------
(* cleanup *)

\* A cleanup step that stays short of the delete keeps the pipe alive.
LEMMA CleanupStepInv ==
  ASSUME TypeOK, PipeMapInv, ByCleanup, NEW p \in Pipes,
         NEW from \in {"live", "counts", "errors", "status", "finish"}, NEW to \in CleanupPhases,
         CleanupStep(p, from, to), pipeOf' = pipeOf, row' \in CampaignTable,
         requests' \in Nat, faults' \in Nat, crashes' \in Nat,
         rewound' \in [Campaigns -> SUBSET Subs],
         UNCHANGED <<delivered, failed, lost, overrun>>
  PROVE  TypeOK' /\ PipeMapInv'
<1>1. to \in Phases
  BY DEF Phases
<1>2. pipe' \in PipeTable
  BY <1>1, PhaseType DEF CleanupStep, TypeOK
<1>3. TypeOK'
  BY <1>2 DEF ByCleanup, scanVars, runVars, TypeOK
<1>4. /\ pipe[p].phase = from /\ pipe'[p].phase = to /\ pipe'[p].camp = pipe[p].camp
      /\ \A q \in Pipes : q # p => pipe'[q] = pipe[q]
  BY DEF CleanupStep, TypeOK, PipeTable, PipeValue
<1>5. \A q \in Pipes : Alive(q)' <=> Alive(q)
  BY <1>4 DEF Alive, CleanupPhases
<1>6. \A q \in Pipes : pipe'[q].camp = pipe[q].camp
  BY <1>4
<1>7. OnePipePerCampaign'
  BY <1>5, <1>6 DEF PipeMapInv, OnePipePerCampaign
<1>8. MapIsAlive'
  <2> SUFFICES ASSUME NEW c \in Campaigns, pipeOf[c] # None
               PROVE  Alive(pipeOf[c])' /\ pipe'[pipeOf[c]].camp = c
    BY DEF MapIsAlive
  <2>1. pipeOf[c] \in Pipes /\ Alive(pipeOf[c]) /\ pipe[pipeOf[c]].camp = c
    BY DEF TypeOK, PipeMapInv, MapIsAlive
  <2> QED BY <1>5, <1>6, <2>1 DEF Alive
<1>9. PipesHaveCampaigns'
  <2>1. \A q \in Pipes : pipe'[q].phase # "unused" <=> pipe[q].phase # "unused"
    BY <1>4 DEF CleanupPhases
  <2>2. \A i \in 1..Len(nextPipes) : nextPipes[i] \in Pipes
    BY DEF TypeOK
  <2>3. UNCHANGED <<nextPipes, runPipe, scanPc, scanAt>>
    BY DEF ByCleanup, scanVars, runVars
  <2>4. \A q \in Pipes : pipe'[q].phase # "unused" => pipe'[q].camp \in Campaigns
    BY <1>6, <2>1 DEF PipeMapInv, PipesHaveCampaigns
  <2>5. \A i \in 1..Len(nextPipes') : pipe'[nextPipes'[i]].phase # "unused"
    BY <2>1, <2>2, <2>3 DEF PipeMapInv, PipesHaveCampaigns
  <2>6. runPipe' # None => pipe'[runPipe'].phase # "unused"
    BY <2>1, <2>3 DEF PipeMapInv, PipesHaveCampaigns, TypeOK
  <2>7. scanPc' = "enqueue" => scanAt' \in Pipes /\ pipe'[scanAt'].phase # "unused"
    BY <2>1, <2>3 DEF PipeMapInv, PipesHaveCampaigns
  <2> QED BY <2>4, <2>5, <2>6, <2>7 DEF PipesHaveCampaigns
<1>10. ScanKnowsMap' /\ PicksAreFree'
  BY DEF ByCleanup, scanVars, PipeMapInv, ScanKnowsMap, PicksAreFree
<1> QED BY <1>3, <1>7, <1>8, <1>9, <1>10 DEF PipeMapInv

\* The delete is by campaign id, and takes the right pipe off the map.  No scan is
\* walking the map then.
LEMMA CleanupDeleteInv ==
  ASSUME TypeOK, PipeMapInv, NEW p \in Pipes, CleanupDelete(p)
  PROVE  TypeOK' /\ PipeMapInv'
<1> DEFINE c == pipe[p].camp
<1>1. pipe' \in PipeTable
  BY PhaseType DEF CleanupDelete, CleanupStep, Phases, TypeOK
<1>2. TypeOK'
  BY <1>1 DEF CleanupDelete, ByCleanup, scanVars, runVars, boundVars, histVars, TypeOK
<1>3. /\ pipe[p].phase = "delete" /\ pipe'[p].phase = "gone" /\ pipe'[p].camp = c
      /\ \A q \in Pipes : q # p => pipe'[q] = pipe[q]
  BY DEF CleanupDelete, CleanupStep, TypeOK, PipeTable, PipeValue
<1>4. c \in Campaigns /\ pipeOf[c] = p
  BY <1>3 DEF PipeMapInv, PipesHaveCampaigns, OnePipePerCampaign, Alive
<1>5. pipeOf'[c] = None /\ \A d \in Campaigns : d # c => pipeOf'[d] = pipeOf[d]
  BY <1>4 DEF CleanupDelete, TypeOK
<1>6. OnePipePerCampaign'
  <2> SUFFICES ASSUME NEW q \in Pipes, Alive(q)' PROVE pipeOf'[pipe'[q].camp] = q
    BY DEF OnePipePerCampaign
  <2>1. q # p /\ Alive(q) /\ pipe'[q].camp = pipe[q].camp
    BY <1>3 DEF Alive
  <2>2. pipe[q].camp \in Campaigns /\ pipeOf[pipe[q].camp] = q
    BY <2>1 DEF PipeMapInv, PipesHaveCampaigns, OnePipePerCampaign, Alive
  <2> QED BY <1>4, <1>5, <2>1, <2>2
<1>7. MapIsAlive'
  <2> SUFFICES ASSUME NEW d \in Campaigns, pipeOf'[d] # None
               PROVE  Alive(pipeOf[d])' /\ pipe'[pipeOf'[d]].camp = d
    BY DEF MapIsAlive
  <2>1. d # c /\ pipeOf'[d] = pipeOf[d]
    BY <1>5
  <2>2. pipeOf[d] \in Pipes /\ Alive(pipeOf[d]) /\ pipe[pipeOf[d]].camp = d
    BY <2>1 DEF TypeOK, PipeMapInv, MapIsAlive
  <2>3. pipeOf[d] # p
    BY <2>1, <2>2
  <2> QED BY <1>3, <2>1, <2>2, <2>3 DEF Alive
<1>8. PipesHaveCampaigns'
  <2>1. \A i \in 1..Len(nextPipes) : nextPipes[i] \in Pipes
    BY DEF TypeOK
  <2> QED BY <1>3, <1>4, <2>1 DEF CleanupDelete, ByCleanup, scanVars, runVars, PipeMapInv,
                              PipesHaveCampaigns, TypeOK
<1>9. scanTodo = {}
  BY DEF CleanupDelete, ScanHoldsLock, PipeMapInv, ScanKnowsMap
<1>10. ScanKnowsMap' /\ PicksAreFree'
  BY <1>5, <1>9 DEF CleanupDelete, ByCleanup, scanVars, PipeMapInv, ScanKnowsMap, PicksAreFree, TypeOK
<1> QED BY <1>2, <1>6, <1>7, <1>8, <1>10 DEF PipeMapInv

\* Every step of a cleanup goroutine preserves the invariant.
LEMMA CleanupInv ==
  ASSUME TypeOK, PipeMapInv, NEW p \in Pipes, Cleanup(p)
  PROVE  TypeOK' /\ PipeMapInv'
<1> USE DEF boundVars, histVars
<1> DEFINE c == pipe[p].camp
<1>1. {"counts", "errors", "status", "finish", "delete"} = CleanupPhases
  BY DEF CleanupPhases
<1>2. /\ row \in CampaignTable /\ requests \in Nat /\ faults \in Nat /\ crashes \in Nat
      /\ rewound \in [Campaigns -> SUBSET Subs]
  BY DEF TypeOK
<1>3. CASE CleanupWake(p)
  BY <1>1, <1>2, <1>3, CleanupStepInv DEF CleanupWake
<1>4. CASE CleanupCounts(p)
  <2> DEFINE last == IF pipe[p].lastID > 0 THEN pipe[p].lastID ELSE row[c].lastSub
  <2>1. c \in Campaigns
    BY <1>4 DEF CleanupCounts, CleanupStep, PipeMapInv, PipesHaveCampaigns
  <2>2. pipe[p].sent \in Nat /\ pipe[p].lastID \in Subs \cup {0}
    BY DEF TypeOK, PipeTable, PipeValue
  <2>3. row[c].sent + pipe[p].sent \in Nat /\ last \in Subs \cup {0}
    BY <2>1, <2>2 DEF TypeOK, CampaignTable, Row
  <2>4. row' \in CampaignTable
    <3>1. CASE row' = [row EXCEPT ![c].sent = @ + pipe[p].sent, ![c].lastSub = last]
      <4> DEFINE f == [row EXCEPT ![c].sent = row[c].sent + pipe[p].sent]
      <4>1. f \in CampaignTable
        BY <1>2, <2>3, RowSentType
      <4>2. [f EXCEPT ![c].lastSub = last] \in CampaignTable
        <5> HIDE DEF f, last
        <5> QED BY <2>3, <4>1, RowLastSubType
      <4>3. row' = [f EXCEPT ![c].lastSub = last]
        <5> HIDE DEF last
        <5> QED BY <1>2, <3>1 DEF CampaignTable, Row
      <4> QED BY <4>2, <4>3
    <3>2. CASE UNCHANGED row
      BY <1>2, <3>2
    <3> QED BY <1>4, <3>1, <3>2 DEF CleanupCounts
  <2>5. rewound' \in [Campaigns -> SUBSET Subs]
    BY <1>2, <1>4 DEF CleanupCounts
  <2>6. requests' \in Nat /\ faults' \in Nat /\ crashes' \in Nat
    BY <1>2, <1>4 DEF CleanupCounts, Fault
  <2>7. ByCleanup /\ CleanupStep(p, "counts", "errors") /\ pipeOf' = pipeOf
          /\ UNCHANGED <<delivered, failed, lost, overrun>>
    BY <1>4 DEF CleanupCounts
  <2> QED BY <1>1, <2>4, <2>5, <2>6, <2>7, CleanupStepInv
<1>5. CASE CleanupPaused(p)
  <2>1. "paused" \in Statuses
    BY DEF Statuses
  <2>2. row' \in CampaignTable /\ requests' \in Nat /\ faults' \in Nat /\ crashes' \in Nat
    BY <1>5, <2>1, TryStatusType DEF CleanupPaused
  <2> QED BY <1>1, <1>2, <1>5, <2>2, CleanupStepInv DEF CleanupPaused
<1>6. CASE CleanupNoErrors(p)
  BY <1>1, <1>2, <1>6, CleanupStepInv DEF CleanupNoErrors
<1>7. CASE CleanupExhausted(p)
  BY <1>1, <1>2, <1>7, CleanupStepInv DEF CleanupExhausted
<1>8. CASE CleanupNothingMore(p)
  <2>1. requests' \in Nat /\ faults' \in Nat /\ crashes' \in Nat
    BY <1>2, <1>8 DEF CleanupNothingMore, Fault
  <2> QED BY <1>1, <1>2, <1>8, <2>1, CleanupStepInv DEF CleanupNothingMore
<1>9. CASE CleanupFinish(p)
  <2>1. "finished" \in Statuses
    BY DEF Statuses
  <2>2. row' \in CampaignTable /\ requests' \in Nat /\ faults' \in Nat /\ crashes' \in Nat
    BY <1>9, <2>1, TryStatusType DEF CleanupFinish
  <2> QED BY <1>1, <1>2, <1>9, <2>2, CleanupStepInv DEF CleanupFinish
<1>10. CASE CleanupDelete(p)
  BY <1>10, CleanupDeleteInv
<1> QED BY <1>3, <1>4, <1>5, <1>6, <1>7, <1>8, <1>9, <1>10 DEF Cleanup

-----------------------------------------------------------------------------
(* Requests and the environment *)

\* A request writes the table, the stop flag of a pipe, and its own state.
LEMMA RequestStepInv ==
  ASSUME TypeOK, PipeMapInv, ByRequest, row' \in CampaignTable, pipe' \in PipeTable,
         SamePipes(pipe'), request' \in [Requests -> RequestState],
         requests' \in Nat, faults' \in Nat, crashes' \in Nat
  PROVE  TypeOK' /\ PipeMapInv'
<1>1. TypeOK'
  BY DEF ByRequest, TypeOK, chanVars, scanVars, runVars, histVars
<1>2. PipeMapInv'
  BY SameScanKeepsMap DEF ByRequest, chanVars, runVars
<1> QED BY <1>1, <1>2

\* Where a request stands keeps its type.
LEMMA RequestType ==
  ASSUME TypeOK, NEW r \in Requests, request[r].pc # "idle"
  PROVE  /\ request[r].camp \in Campaigns /\ request[r].target \in Statuses \cup Edits
         /\ RequestTo(r, "stop") => request' \in [Requests -> RequestState]
         /\ RequestEnd(r) => request' \in [Requests -> RequestState]
         /\ CommitOrEnd(r) => request' \in [Requests -> RequestState]
<1>1. request[r] \in [pc : {"write", "stop", "commit"}, camp : Campaigns,
                     target : Statuses \cup Edits]
  BY DEF TypeOK, RequestState, NoRequest
<1>2. ASSUME NEW pc \in {"stop", "commit"}, RequestTo(r, pc)
      PROVE  request' \in [Requests -> RequestState]
  <2>1. [request[r] EXCEPT !.pc = pc] \in RequestState
    BY <1>1 DEF RequestState
  <2> QED BY <1>2, <2>1 DEF RequestTo, TypeOK
<1>3. RequestEnd(r) => request' \in [Requests -> RequestState]
  BY DEF RequestEnd, RequestState, TypeOK
<1> QED BY <1>1, <1>2, <1>3 DEF CommitOrEnd

\* What a request writes is a campaign's row.
LEMMA UpdatedType ==
  ASSUME row \in CampaignTable, NEW c \in Campaigns, NEW target \in Statuses \cup Edits
  PROVE  Updated(c, target) \in Row
<1>1. row[c] \in Row
  BY DEF CampaignTable
<1>2. CASE target \in Edits
  <2> DEFINE at == IF target = "rescheduled" THEN "future" ELSE "none"
             st == IF target = "unscheduled" /\ row[c].status = "scheduled" THEN "draft"
                   ELSE row[c].status
  <2>1. at \in SendAts /\ st \in Statuses \cup {"deleted"}
    BY <1>1 DEF SendAts, Statuses, Row
  <2>2. Updated(c, target) = [row[c] EXCEPT !.sendAt = at, !.status = st]
    BY <1>2 DEF Updated
  <2> HIDE DEF at, st
  <2>3. [row[c] EXCEPT !.sendAt = at] \in Row
    BY <1>1, <2>1 DEF Row
  <2>4. [[row[c] EXCEPT !.sendAt = at] EXCEPT !.status = st] \in Row
    BY <2>1, <2>3 DEF Row
  <2>5. [row[c] EXCEPT !.sendAt = at, !.status = st]
          = [[row[c] EXCEPT !.sendAt = at] EXCEPT !.status = st]
    BY <1>1 DEF Row
  <2> QED BY <2>2, <2>4, <2>5
<1>3. CASE target \notin Edits
  <2>1. StatusWritten(c, target) \in Statuses \cup {"deleted"}
    BY <1>3, WriteStatusType
  <2> QED BY <1>1, <1>3, <2>1 DEF Updated, Row
<1> QED BY <1>2, <1>3

\* Every step of an HTTP request preserves the invariant.
LEMMA RequestInv ==
  ASSUME TypeOK, PipeMapInv, Request
  PROVE  TypeOK' /\ PipeMapInv'
<1> USE DEF boundVars
<1>0. SamePipes(pipe) /\ (pipe' = pipe => SamePipes(pipe'))
  BY DEF SamePipes
<1>1. /\ row \in CampaignTable /\ pipe \in PipeTable /\ request \in [Requests -> RequestState]
      /\ requests \in Nat /\ faults \in Nat /\ crashes \in Nat
  BY DEF TypeOK
<1>2. ASSUME NEW r \in Requests, NEW c \in Campaigns, NEW target \in Targets,
             RequestCheck(r, c, target)
      PROVE  TypeOK' /\ PipeMapInv'
  <2>1. target \in Statuses \cup Edits
    BY <1>2 DEF RequestCheck, Permits, Statuses
  <2>2. [pc |-> "write", camp |-> c, target |-> target] \in RequestState
    BY <2>1 DEF RequestState
  <2>3. request' \in [Requests -> RequestState]
    BY <1>1, <1>2, <2>2 DEF RequestCheck
  <2>4. requests' \in Nat /\ faults' \in Nat /\ crashes' \in Nat
    BY <1>1, <1>2 DEF RequestCheck, CountRequest
  <2> QED BY <1>0, <1>1, <1>2, <2>3, <2>4, RequestStepInv DEF RequestCheck
<1>3. ASSUME NEW r \in Requests, RequestWrite(r) PROVE TypeOK' /\ PipeMapInv'
  <2> DEFINE c == request[r].camp
  <2>1. /\ c \in Campaigns /\ request[r].target \in Statuses \cup Edits
        /\ request' \in [Requests -> RequestState]
    BY <1>3, RequestType DEF RequestWrite
  <2>2. row[c] \in Row /\ Updated(c, request[r].target) \in Row
    BY <1>1, <2>1, UpdatedType DEF CampaignTable
  <2>3. [row[c] EXCEPT !.lock = r] \in Row
    BY <2>2 DEF Row
  <2>4. row' \in CampaignTable
    BY <1>1, <1>3, <2>2, <2>3 DEF RequestWrite, CampaignTable
  <2> QED BY <1>0, <1>1, <1>3, <2>1, <2>4, RequestStepInv DEF RequestWrite
<1>4. ASSUME NEW r \in Requests, RequestNoRow(r) PROVE TypeOK' /\ PipeMapInv'
  <2>1. request' \in [Requests -> RequestState]
    BY <1>4, RequestType DEF RequestNoRow
  <2> QED BY <1>0, <1>1, <1>4, <2>1, RequestStepInv DEF RequestNoRow
<1>5. ASSUME NEW r \in Requests, RequestStop(r) PROVE TypeOK' /\ PipeMapInv'
  <2>1. request' \in [Requests -> RequestState]
    BY <1>5, RequestType DEF RequestStop
  <2>2. pipe' \in PipeTable
    BY <1>1, <1>5, StoppedType DEF RequestStop
  <2>3. SamePipes(pipe')
    BY <1>1, <1>5 DEF RequestStop, SamePipes, PipeTable, PipeValue
  <2> QED BY <1>1, <1>5, <2>1, <2>2, <2>3, RequestStepInv DEF RequestStop
<1>6. ASSUME NEW r \in Requests, RequestCommit(r) PROVE TypeOK' /\ PipeMapInv'
  <2> DEFINE c == request[r].camp
  <2>1. /\ c \in Campaigns /\ request[r].target \in Statuses \cup Edits
        /\ request' \in [Requests -> RequestState]
    BY <1>6, RequestType DEF RequestCommit
  <2>2. [Updated(c, request[r].target) EXCEPT !.lock = None] \in Row
    <3>1. Updated(c, request[r].target) \in Row
      BY <1>1, <2>1, UpdatedType
    <3> QED BY <3>1 DEF Row
  <2>3. row' \in CampaignTable
    <3>1. CASE row' = [row EXCEPT ![c] = [Updated(c, request[r].target) EXCEPT !.lock = None]]
      BY <1>1, <2>2, <3>1 DEF CampaignTable
    <3>2. CASE row' = [row EXCEPT ![c].lock = None]
      <4>1. [row EXCEPT ![c].lock = None] \in CampaignTable
        BY <1>1, RowLockType
      <4> QED BY <3>2, <4>1
    <3> QED BY <1>6, <3>1, <3>2 DEF RequestCommit
  <2>4. requests' \in Nat /\ faults' \in Nat /\ crashes' \in Nat
    BY <1>1, <1>6 DEF RequestCommit, Fault
  <2> QED BY <1>0, <1>1, <1>6, <2>1, <2>3, <2>4, RequestStepInv DEF RequestCommit
<1>7. ASSUME NEW c \in Campaigns, RequestDelete(c) PROVE TypeOK' /\ PipeMapInv'
  <2>1. row' \in CampaignTable
    BY <1>1, <1>7, RowStatusType DEF RequestDelete
  <2>2. requests' \in Nat /\ faults' \in Nat /\ crashes' \in Nat
    BY <1>1, <1>7 DEF RequestDelete, CountRequest
  <2> QED BY <1>0, <1>1, <1>7, <2>1, <2>2, RequestStepInv DEF RequestDelete
<1> QED BY <1>2, <1>3, <1>4, <1>5, <1>6, <1>7 DEF Request, RequestStep

\* The passing of send_at preserves the invariant.
LEMMA TimePassesInv ==
  ASSUME TypeOK, PipeMapInv, NEW c \in Campaigns, TimePasses(c)
  PROVE  TypeOK' /\ PipeMapInv'
<1>1. row' \in CampaignTable
  BY RowSendAtType DEF TimePasses, SendAts, TypeOK
<1>2. TypeOK'
  BY <1>1 DEF TimePasses, TypeOK, chanVars, scanVars, runVars, boundVars, histVars
<1>3. SamePipes(pipe')
  BY DEF TimePasses, SamePipes
<1>4. PipeMapInv'
  BY <1>3, SameScanKeepsMap DEF TimePasses, chanVars, runVars
<1> QED BY <1>2, <1>4

\* A crash leaves no pipe and an empty map.
LEMMA CrashInv ==
  ASSUME TypeOK, PipeMapInv, Crash
  PROVE  TypeOK' /\ PipeMapInv'
<1>1. row' \in CampaignTable
  <2>1. ASSUME NEW c \in Campaigns PROVE [row[c] EXCEPT !.lock = None] \in Row
    <3>1. row[c] \in Row
      BY DEF TypeOK, CampaignTable
    <3> QED BY <3>1 DEF Row
  <2> QED BY <2>1 DEF Crash, CampaignTable
<1>2. ASSUME NEW p \in Pipes PROVE [pipe[p] EXCEPT !.phase = "gone"] \in PipeValue /\ pipe[p] \in PipeValue
  <2>1. "gone" \in Phases
    BY DEF Phases
  <2> QED BY <2>1, ZenonT(60) DEF TypeOK, PipeTable, PipeValue
<1>3. pipe' \in PipeTable
  BY <1>2 DEF Crash, PipeTable
<1>4. ASSUME NEW p \in Pipes PROVE Pending(p) \subseteq Subs
  <2>1. \A w \in Holders(p) : worker[w].sub \in Subs
    BY WorkerType DEF Holders
  <2> QED BY <2>1 DEF Pending, Queued, TypeOK
<1>5. lost' \in [Campaigns -> SUBSET Subs]
  BY <1>4 DEF Crash, TypeOK
<1>6. worker' \in [Workers -> WorkerState] /\ request' \in [Requests -> RequestState]
  BY DEF Crash, WorkerState, RequestState
<1>7. TypeOK'
  BY <1>1, <1>3, <1>5, <1>6 DEF Crash, ForgetCounts, TypeOK
<1>8. \A p \in Pipes : ~Alive(p)' /\ pipe'[p].camp = pipe[p].camp
                       /\ (pipe'[p].phase # "unused" => pipe[p].phase # "unused")
  BY DEF Crash, Alive, TypeOK, PipeTable, PipeValue
<1>9. PipeMapInv'
  BY <1>8 DEF Crash, ForgetCounts, PipeMapInv, OnePipePerCampaign, PipesHaveCampaigns,
         MapIsAlive, ScanKnowsMap, PicksAreFree
<1> QED BY <1>7, <1>9

-----------------------------------------------------------------------------
(* The theorems *)

\* A step that changes nothing preserves the invariant.
LEMMA StutterInv ==
  ASSUME TypeOK, PipeMapInv, UNCHANGED vars
  PROVE  TypeOK' /\ PipeMapInv'
<1>1. SamePipes(pipe')
  BY DEF vars, SamePipes
<1>2. TypeOK'
  BY DEF TypeOK, vars, chanVars, scanVars, runVars, boundVars, histVars
<1> QED BY <1>1, <1>2, SameScanKeepsMap DEF vars, chanVars, runVars

\* The invariant is inductive.
LEMMA NextInv == TypeOK /\ PipeMapInv /\ [Next]_vars => TypeOK' /\ PipeMapInv'
<1> SUFFICES ASSUME TypeOK, PipeMapInv, [Next]_vars PROVE TypeOK' /\ PipeMapInv'
  OBVIOUS
<1>1. CASE Scan
  BY <1>1, ScanInv
<1>2. CASE Run
  BY <1>2, RunInv
<1>3. ASSUME NEW w \in Workers, Worker(w) PROVE TypeOK' /\ PipeMapInv'
  BY <1>3, WorkerInv
<1>4. ASSUME NEW p \in Pipes, Cleanup(p) PROVE TypeOK' /\ PipeMapInv'
  BY <1>4, CleanupInv
<1>5. CASE Request
  BY <1>5, RequestInv
<1>6. CASE Environment
  BY <1>6, CrashInv, TimePassesInv DEF Environment
<1>7. CASE UNCHANGED vars
  BY <1>7, StutterInv
<1> QED BY <1>1, <1>2, <1>3, <1>4, <1>5, <1>6, <1>7 DEF Next

\* The inductive invariant holds of every behaviour, for any number of campaigns,
\* tenants, workers, requests, pipes, crashes and database errors: a pipe of the
\* map is alive and its campaign's, and a scan knows the map it works from.
THEOREM PipeMapCorrect == Spec => [](TypeOK /\ PipeMapInv)
BY InitInv, NextInv, PTL DEF Spec

\* Every variable of the manager keeps its type.
THEOREM TypeCorrect == Spec => []TypeOK
BY PipeMapCorrect, PTL

\* Two pipes never process one campaign at once: scanCampaigns' reading of the
\* pipes map, next-campaigns' exclusion of it and cleanup's delete by campaign id
\* work together however they interleave with everything else.
THEOREM OnePipe == Spec => []OnePipePerCampaign
<1>1. PipeMapInv => OnePipePerCampaign
  BY DEF PipeMapInv
<1> QED BY <1>1, PipeMapCorrect, PTL
=============================================================================
