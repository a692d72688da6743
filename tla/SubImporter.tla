------------------------------ MODULE SubImporter ------------------------------
(***************************************************************************)
(* The importer of subscribers: internal/subimporter/importer.go and the     *)
(* handlers of cmd/import.go.                                               *)
(*                                                                         *)
(* One Importer holds one status for all sessions.  A session is two          *)
(* goroutines, LoadCSV that reads the file into a channel and Start that      *)
(* writes what comes out of it in batches; both set the status.  A row is     *)
(* good, to be skipped or unreadable; what it holds is left out.             *)
(***************************************************************************)
EXTENDS Naturals, FiniteSets, Sequences

CONSTANTS
  Batch,                 \* commitBatchSize, also the size of the channel
  Files,                 \* bound: the sessions, as the number of lines of their files
  Stoppers,              \* requests to stop at a time
  Troubles               \* bound: stop requests, statements that fail, requests that race

ASSUME SubImporterAssumption ==
  /\ Batch \in Nat \ {0} /\ Files \in Seq(Nat) /\ Troubles \in Nat

VARIABLES
  status,    \* Importer.status.Status
  imported,  \* Importer.status.Imported
  stop,      \* the token in the stop channel
  session,   \* the sessions
  passed,    \* requests to import that passed isDone and are to set the status
  stopping,  \* each request to stop: what it does next
  stuck,     \* the lock of the importer waits for itself
  latest,    \* ghost: the session that set the status last
  raced,     \* ghost: two requests passed isDone before either set the status
  cleared,   \* ghost: Stop cleared the status of a session that ran
  troubles

importVars == <<status, imported, stop, session, passed, stopping, stuck, latest, raced,
                cleared, troubles>>

\* load and start: where LoadCSV and Start are.  queue: rows in the channel; cur: rows in
\* the transaction; good, stored: ghosts, rows sent and committed; faulty, stopped: ghosts.
Fresh == [load |-> "off", start |-> "off", left |-> 0, queue |-> 0, closed |-> FALSE,
          cur |-> 0, aborted |-> FALSE, good |-> 0, stored |-> 0, faulty |-> FALSE,
          stopped |-> FALSE]
Made == 1..Len(Files)

ImportInit ==
  /\ status = "none" /\ imported = 0 /\ stop = FALSE
  /\ session = [s \in Made |-> Fresh]
  /\ passed = 0 /\ stopping = [r \in Stoppers |-> "idle"]
  /\ stuck = FALSE /\ latest = 0 /\ raced = FALSE /\ cleared = FALSE
  /\ troubles = 0

\* Variant: an import that is stopping is done.
IsDoneImporting == status # "importing"
IsDone == status \notin {"importing", "stopping"}
Loading(s) == session[s].load \notin {"off", "gone"}
Writing(s) == session[s].start \notin {"off", "gone"}
Running(s) == Loading(s) /\ Writing(s)

Load(s, pc) == session[s].load = pc
Start(s, pc) == session[s].start = pc
Ses(s, rec) == session' = [session EXCEPT ![s] = rec]
Trouble == troubles < Troubles /\ troubles' = troubles + 1

-----------------------------------------------------------------------------
(* The requests *)

\* ImportSubscribers, which looks at the status, takes the file and has NewSession look
\* again: the second look decides.  The lock is not kept until the status is set.
ImportSubscribers ==
  /\ passed < 2 /\ IsDone
  /\ passed' = passed + 1 /\ raced' = (raced \/ passed > 0)
  /\ IF passed > 0 THEN Trouble ELSE UNCHANGED troubles
  /\ UNCHANGED <<status, imported, stop, session, stopping, stuck, latest, cleared>>

\* Start runs, and LoadCSV - or ExtractZIP, which LoadCSV then follows.
NewSession(s, zip) ==
  /\ passed > 0 /\ passed' = passed - 1 /\ session[s] = Fresh /\ \A t \in 1..s - 1 : session[t] # Fresh
  /\ status' = "importing" /\ imported' = 0 /\ latest' = s
  /\ Ses(s, [Fresh EXCEPT !.start = "take", !.load = IF zip THEN "zip" ELSE "open",
                          !.left = Files[s]])
  /\ UNCHANGED <<stop, stopping, stuck, raced, cleared, troubles>>

\* ExtractZIP: an import that is over by now, or a file that cannot be unpacked.  Start
\* goes on waiting at a channel that nobody closes.
ExtractZIP(s, ok) ==
  /\ Load(s, "zip")
  /\ Ses(s, [session[s] EXCEPT !.load = IF IsDone \/ ~ok THEN "gone" ELSE "open"])
  /\ status' = IF IsDone \/ ok THEN status ELSE "failed"
  /\ UNCHANGED <<imported, stop, passed, stopping, stuck, latest, raced, cleared, troubles>>

\* Stop of the importer: the status is read, then cleared, or a token put into the channel,
\* if there is room, and the status set.  A token waits for whichever import reads it.
StopImport(r) ==
  /\ stopping[r] = "idle" /\ Trouble
  /\ stopping' = [stopping EXCEPT ![r] = IF status = "importing" THEN "send" ELSE "clear"]
  /\ UNCHANGED <<status, imported, stop, session, passed, stuck, latest, raced, cleared>>
StopClears(r) ==
  /\ stopping[r] = "clear" /\ stopping' = [stopping EXCEPT ![r] = "idle"]
  /\ status' = "none" /\ imported' = 0
  /\ cleared' = (cleared \/ \E s \in Made : Writing(s))
  /\ UNCHANGED <<stop, session, passed, stuck, latest, raced, troubles>>
StopSends(r) ==
  /\ stopping[r] = "send" /\ stop' = TRUE
  /\ stopping' = [stopping EXCEPT ![r] = IF stop THEN "idle" ELSE "mark"]
  /\ UNCHANGED <<status, imported, session, passed, stuck, latest, raced, cleared, troubles>>
StopMarks(r) ==
  /\ stopping[r] = "mark" /\ stopping' = [stopping EXCEPT ![r] = "idle"] /\ status' = "stopping"
  /\ UNCHANGED <<imported, stop, session, passed, stuck, latest, raced, cleared, troubles>>

-----------------------------------------------------------------------------
(* LoadCSV *)

\* Variant: the status stays.
FailedStatusKept == "importing"

\* It returns with an error: the status becomes failed, the channel stays open.
FailedStatus == "failed"
LoadFails(s) ==
  /\ Ses(s, [session[s] EXCEPT !.load = "gone"]) /\ status' = FailedStatus
LoadOpens(s, ok) ==
  /\ Load(s, "open")
  /\ IF IsDone THEN Ses(s, [session[s] EXCEPT !.load = "gone"]) /\ UNCHANGED status
     ELSE IF ok /\ session[s].left > 0
     THEN Ses(s, [session[s] EXCEPT !.load = "line", !.left = @ - 1]) /\ UNCHANGED status
     ELSE LoadFails(s)
  /\ UNCHANGED <<imported, stop, passed, stopping, stuck, latest, raced, cleared, troubles>>

\* What a line may be: one to send, one with too few columns, an address or attributes that
\* are refused, or one that ends the reading.
RowKinds == {"good", "skipped", "bad"}

\* The next line, unless there is a token or the file has ended.
Close(s, stopped) == Ses(s, [session[s] EXCEPT !.load = "gone", !.closed = TRUE,
                                               !.stopped = stopped])
\* It waits at a channel that is full.
Pushed(x) == IF x.queue = Batch THEN [x EXCEPT !.load = "push"]
             ELSE [x EXCEPT !.queue = @ + 1, !.good = @ + 1, !.load = "line"]
LoadLine(s, kind) ==
  /\ Load(s, "line")
  /\ stop' = FALSE
  /\ LET left == session[s].left IN
     IF stop \/ left = 0 THEN Close(s, stop) /\ UNCHANGED status
     ELSE CASE kind = "bad" -> LoadFails(s)
            [] kind = "skipped" -> /\ Ses(s, [session[s] EXCEPT !.left = left - 1])
                                   /\ UNCHANGED status
            [] kind = "good" -> /\ Ses(s, Pushed([session[s] EXCEPT !.left = left - 1]))
                                /\ UNCHANGED status
  /\ UNCHANGED <<imported, passed, stopping, stuck, latest, raced, cleared, troubles>>
LoadPushes(s) ==
  /\ Load(s, "push") /\ session[s].queue < Batch /\ Ses(s, Pushed(session[s]))
  /\ UNCHANGED <<status, imported, stop, passed, stopping, stuck, latest, raced, cleared,
                 troubles>>

-----------------------------------------------------------------------------
(* Start *)

\* A row from the channel, and its statement.  Without a transaction to put it in the row
\* is dropped; after a statement that fails the loop ends, with the rows before it counted.
StartWrites(s, outcome) ==
  /\ Start(s, "take") /\ session[s].queue > 0
  /\ LET x == [session[s] EXCEPT !.queue = @ - 1] IN
     CASE outcome = "ok" ->
            /\ Ses(s, [x EXCEPT !.cur = @ + 1,
                                !.start = IF x.cur + 1 = Batch THEN "batch" ELSE "take"])
            /\ UNCHANGED troubles
       [] outcome = "dropped" ->
            x.cur = 0 /\ Ses(s, [x EXCEPT !.faulty = TRUE]) /\ Trouble
       [] outcome = "failed" ->
            Ses(s, [x EXCEPT !.faulty = TRUE, !.aborted = TRUE, !.start = "end"]) /\ Trouble
  /\ UNCHANGED <<status, imported, stop, passed, stopping, stuck, latest, raced, cleared>>

\* A batch is committed and counted; if that fails its rows are gone and the loop goes on.
Counted(n, ok) == IF ok THEN n ELSE 0
Commit(x, ok) == [x EXCEPT !.faulty = @ \/ ~ok, !.stored = @ + IF ok THEN x.cur ELSE 0]
StartCommits(s, ok) ==
  /\ Start(s, "batch") /\ (~ok \/ UNCHANGED troubles) /\ (ok \/ Trouble)
  /\ Ses(s, [Commit(session[s], ok) EXCEPT !.start = "take", !.cur = 0])
  /\ imported' = imported + Counted(session[s].cur, ok)
  /\ UNCHANGED <<status, stop, passed, stopping, stuck, latest, raced, cleared>>

LoopOver(s) == \/ Start(s, "end")
               \/ Start(s, "take") /\ session[s].queue = 0 /\ session[s].closed
\* Variant: the rows that are left are not committed.
LeftoverNone(n) == 0

\* The loop is over: the rows that are left are committed, which fails after a rollback.
Leftover(n) == n
StartEnds(s, ok) ==
  /\ LoopOver(s)
  /\ LET x == session[s]  n == Leftover(x.cur) IN
     /\ (ok => n = 0 \/ ~x.aborted) /\ (~ok => n > 0)
     /\ IF ok \/ x.aborted THEN UNCHANGED troubles ELSE Trouble
     /\ Ses(s, [IF n = 0 THEN x ELSE Commit(x, ok) EXCEPT !.start = "gone"])
     /\ imported' = imported + Counted(n, ok)
     /\ status' = IF ok THEN "finished" ELSE "failed"
  /\ UNCHANGED <<stop, passed, stopping, stuck, latest, raced, cleared>>

-----------------------------------------------------------------------------
\* isDone holds the read lock while it takes it again: a writer that asks for it in
\* between waits for the first and is waited for by the second, and nobody gets it.
Reading == passed < 2 \/ \E s \in Made : session[s].load \in {"zip", "open"}
WritersWaiting == \/ \E r \in Stoppers : stopping[r] \in {"clear", "mark"}
                  \/ passed > 0
                  \/ \E s \in Made : Start(s, "batch") \/ LoopOver(s) \/ Load(s, "line")
LockedOut ==
  /\ Reading /\ WritersWaiting /\ stuck' = TRUE
  /\ UNCHANGED <<status, imported, stop, session, passed, stopping, latest, raced, cleared,
                 troubles>>

LoadStep(s) ==
  \/ \E ok \in BOOLEAN : ExtractZIP(s, ok)
  \/ \E ok \in BOOLEAN : LoadOpens(s, ok)
  \/ \E kind \in RowKinds : LoadLine(s, kind)
  \/ LoadPushes(s)
StartStep(s) ==
  \/ \E outcome \in {"ok", "dropped", "failed"} : StartWrites(s, outcome)
  \/ \E ok \in BOOLEAN : StartCommits(s, ok) \/ StartEnds(s, ok)
StopStep(r) == StopClears(r) \/ StopSends(r) \/ StopMarks(r)

ImportNext ==
  /\ ~stuck
  /\ \/ ImportSubscribers
     \/ \E s \in Made, zip \in BOOLEAN : NewSession(s, zip)
     \/ LockedOut \/ \E r \in Stoppers : StopImport(r) \/ StopStep(r)
     \/ \E s \in Made : LoadStep(s) \/ StartStep(s)

\* Goroutines run until they wait; nothing makes a request come.
ImportFairness == \A s \in Made :
  /\ WF_importVars(~stuck /\ LoadStep(s)) /\ WF_importVars(~stuck /\ StartStep(s))

-----------------------------------------------------------------------------
(* What must hold *)

\* Two imports run at a time only if two requests raced through isDone, if Stop was asked
\* for again while the first was stopping, or if a statement failed and left LoadCSV alone.
OneImport ==
  ~raced /\ ~cleared /\ (\A s \in Made : ~session[s].faulty) => Cardinality({s \in Made : Running(s)}) <= 1

\* What the status counts as imported is what the session committed, and an import that
\* finished, met no token of a Stop - its own, or one that a Stop of an earlier import left in
\* the channel - and had no statement fail has every good row, unless a Start that was left
\* behind goes on counting.
LeftBehind == \E s \in Made \ {latest} : Writing(s) \/ session[s].faulty
ImportAccounts ==
  ~raced /\ ~cleared /\ latest # 0 /\ ~LeftBehind =>
    LET x == session[latest] IN
    /\ imported \in {0, x.stored} /\ (x.start # "gone" => imported = x.stored)
    /\ x.start = "gone" /\ ~x.stopped /\ ~x.faulty => x.stored = x.good /\ x.left = 0

\* The status does not stay importing, however LoadCSV and Start end.
ImportSettles == status = "importing" ~> status # "importing" \/ stuck
===============================================================================
