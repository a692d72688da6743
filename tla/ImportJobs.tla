------------------------------ MODULE ImportJobs ------------------------------
(***************************************************************************)
(* Tenant import jobs: internal/mailview/importjob, its signed envelope     *)
(* (internal/mailview/job) and the handlers of cmd/mailview_import.go.      *)
(*                                                                         *)
(* An actor is an upload request and then the goroutine it starts.  The     *)
(* job's row is committed before its file is written, and a replay of the   *)
(* upload starts a worker of its own, so that workers meet jobs whose file  *)
(* is absent, partly written or being processed.  A crash of the process    *)
(* stops all actors and keeps rows and files.                               *)
(***************************************************************************)
EXTENDS TenantContacts, Sequences

CONSTANTS
  Actors, Jobs, Keys,
  Files,        \* bound: the files uploaded
  NoAt, Ragged, \* rows: an address without @, and one csv.Reader refuses
  BatchSize,
  Crashes,      \* bound: crashes of the process
  Edits         \* bound: other transactions on contacts and lists, and crashes

NoFile == [header |-> FALSE, rows |-> <<>>]
ASSUME ImportAssumption ==
  /\ BatchSize \in Nat \ {0} /\ {Crashes, Edits} \subseteq Nat
  /\ {NoAt, Ragged} \cap Emails = {} /\ NoAt # Ragged /\ None \notin Jobs \cup Keys
  /\ Files \subseteq [header : BOOLEAN, rows : Seq(Emails \cup {NoAt, Ragged})]

VARIABLES
  job,      \* rows of mv_import_jobs
  disk,     \* the stored file of each job
  actor,    \* requests and workers
  crashes, edits,
  stranded  \* for the properties: jobs whose last transaction failed

jobVars == <<job, disk, actor, crashes, stranded>>
vars == <<contactVars, jobVars, edits>>

JobStatuses == {"none", "pending", "processing", "completed", "failed", "cancelled"}
NoJob == [status |-> "none", tenant |-> Unused, key |-> None, lists |-> {},
          file |-> NoFile, processed |-> 0, imported |-> 0, errors |-> 0]
Resting == [pc |-> "idle", tenant |-> Unused, job |-> None, total |-> 0, imported |-> 0]

JobRow ==
  [status : JobStatuses, tenant : Tenants \cup {Unused}, key : Keys \cup {None},
   lists : SUBSET Lists, file : Files \cup {NoFile},
   processed : Nat, imported : Nat, errors : Nat]
ActorState ==
  [pc : {"idle", "open", "write", "spawn", "process", "read", "rows", "fail", "finish"},
   tenant : Tenants \cup {Unused}, job : Jobs \cup {None}, total : Nat, imported : Nat]

TypeOK ==
  /\ ContactsTypeOK
  /\ job \in [Jobs -> JobRow]
  /\ disk \in [Jobs -> {"absent", "partial", "whole"}]
  /\ actor \in [Actors -> ActorState]
  /\ crashes \in 0..Crashes /\ edits \in 0..Edits /\ stranded \subseteq Jobs

Init ==
  /\ InitContacts
  /\ job = [j \in Jobs |-> NoJob]
  /\ disk = [j \in Jobs |-> "absent"]
  /\ actor = [a \in Actors |-> Resting]
  /\ crashes = 0 /\ edits = 0 /\ stranded = {}

Goto(a, pc) == actor' = [actor EXCEPT ![a].pc = pc]
Stop(a) == actor' = [actor EXCEPT ![a] = Resting]
SetStatus(j, status) == job' = [job EXCEPT ![j].status = status]

-----------------------------------------------------------------------------
(* CreateMailViewImportJob *)

Start(a, t, pc, j) ==
  /\ actor[a].pc = "idle"
  /\ actor' = [actor EXCEPT ![a] = [Resting EXCEPT !.pc = pc, !.tenant = t, !.job = j]]

JobsOf(t, k) == {j \in Jobs : job[j].tenant = t /\ job[j].key = k}

\* CreateJob, a key not seen before: the lists must be the tenant's.
CreateJob(a, t, k, L, f) ==
  \E j \in Jobs :
    /\ job[j] = NoJob /\ JobsOf(t, k) = {} /\ L \subseteq ListsOf(t)
    /\ job' = [job EXCEPT ![j] =
         [NoJob EXCEPT !.status = "pending", !.tenant = t, !.key = k, !.lists = L, !.file = f]]
    /\ Start(a, t, "open", j) /\ UNCHANGED <<contactVars, disk, crashes>>

\* A key seen before: the job it made.  The request goes on if it saw it pending.
ReplayJob(a, t, k) ==
  \E j \in JobsOf(t, k) :
    /\ job[j].status = "pending" /\ Start(a, t, "spawn", j)
    /\ UNCHANGED <<contactVars, job, disk, crashes>>

\* os.WriteFile opens the file and writes it.
OpenFile(a) ==
  /\ actor[a].pc = "open" /\ disk' = [disk EXCEPT ![actor[a].job] = "partial"]
  /\ Goto(a, "write") /\ UNCHANGED <<contactVars, job, crashes>>
WriteFile(a) ==
  /\ actor[a].pc = "write" /\ disk' = [disk EXCEPT ![actor[a].job] = "whole"]
  /\ Goto(a, "spawn") /\ UNCHANGED <<contactVars, job, crashes>>

\* The write fails, or the envelope, or the transaction that claims the job:
\* it stays pending.
StartFails(a) ==
  /\ actor[a].pc \in {"open", "write", "spawn", "process"} /\ Stop(a)
  /\ UNCHANGED <<contactVars, job, disk, crashes>>

\* The envelope is signed and the goroutine started: the job was pending when
\* its row was read, and is not looked at again.
Spawn(a) ==
  actor[a].pc = "spawn" /\ Goto(a, "process") /\ UNCHANGED <<contactVars, job, disk, crashes>>

CancelJob(t, j) ==
  /\ job[j].tenant = t /\ job[j].status \in {"pending", "processing"}
  /\ SetStatus(j, "cancelled") /\ UNCHANGED <<contactVars, disk, actor, crashes>>

-----------------------------------------------------------------------------
(* The worker: ProcessEnvelope, ProcessJob, importRows, importBatch *)

\* The worker acts for the tenant signed into its envelope, and finds no row
\* of another tenant's job.
Verified(a) == actor[a].tenant = job[actor[a].job].tenant

\* The job is claimed under FOR UPDATE.  A variant that does not look at its status:
ClaimableAgain(j) == job[j].status \in {"pending", "processing"}
Claimable(j) == job[j].status = "pending"

ProcessJob(a) ==
  LET j == actor[a].job IN
  /\ actor[a].pc = "process"
  /\ IF Verified(a) /\ Claimable(j)
     THEN SetStatus(j, "processing") /\ Goto(a, "read")
     ELSE Stop(a) /\ UNCHANGED job
  /\ UNCHANGED <<contactVars, disk, crashes>>

\* A file that is absent, that does not have the signature of the upload, or
\* has no email column.  A variant that returns without failing the job:
ReadFileSilently(a) ==
  /\ actor[a].pc = "read"
  /\ IF disk[actor[a].job] = "whole" THEN Goto(a, "rows") ELSE Stop(a)
  /\ UNCHANGED <<contactVars, job, disk, crashes>>
ReadFile(a) ==
  /\ actor[a].pc = "read"
  /\ Goto(a, IF disk[actor[a].job] = "whole" /\ job[actor[a].job].file.header
             THEN "rows" ELSE "fail")
  /\ UNCHANGED <<contactVars, job, disk, crashes>>

\* The rows importRows reads before it flushes.
NextBatch(a) ==
  LET rows == job[actor[a].job].file.rows
      last == actor[a].total + BatchSize
  IN SubSeq(rows, actor[a].total + 1, IF last < Len(rows) THEN last ELSE Len(rows))
Good(batch) == {i \in DOMAIN batch : batch[i] \in Emails}
Readable(batch) == \A i \in DOMAIN batch : batch[i] # Ragged

\* A row the reader refuses ends the import; the rows read before it are dropped.
RowFails(a) ==
  /\ actor[a].pc = "rows" /\ ~Readable(NextBatch(a))
  /\ Goto(a, "fail") /\ UNCHANGED <<contactVars, job, disk, crashes>>

\* INSERT ... ON CONFLICT DO UPDATE SET name: a row that exists keeps its
\* status.  A variant that enables it:
KeptEnabled(s, t, addresses) ==
  IF sub[s].tenant = t /\ sub[s].email \in addresses
  THEN [sub[s] EXCEPT !.status = "enabled"] ELSE sub[s]
Kept(s, t, addresses) == sub[s]

Upserted(t, addresses) ==
  \E new \in [{e \in addresses : ~Taken(t, e)} -> {s \in Subs : sub[s].tenant = Unused}] :
    /\ \A e, g \in DOMAIN new : new[e] = new[g] => e = g
    /\ sub' = [s \in Subs |->
         IF \E e \in DOMAIN new : new[e] = s
         THEN [tenant |-> t, email |-> CHOOSE e \in DOMAIN new : new[e] = s,
               status |-> "enabled", suppressed |-> FALSE]
         ELSE Kept(s, t, addresses)]

\* INSERT ... SELECT FROM lists WHERE tenant_id ON CONFLICT DO NOTHING.
\* Variant without the tenant:
JoinedAnywhere(s, l, t, L) == IF l \in L /\ member[s][l] = Gone THEN "unconfirmed" ELSE member[s][l]
Joined(s, l, t, L) ==
  IF l \in L \cap ListsOf(t) /\ member[s][l] = Gone THEN "unconfirmed" ELSE member[s][l]

Subscribed(t, addresses, L) ==
  member' = [s \in Subs |-> [l \in Lists |->
    IF sub'[s].tenant = t /\ sub'[s].email \in addresses
    THEN Joined(s, l, t, L) ELSE member[s][l]]]

\* The batch looks at the status again.  A variant that only skips ended jobs:
ImportableCancelled(j) == job[j].status \in {"processing", "cancelled"}
Importable(j) == job[j].status = "processing"

\* A variant that counts the rows it imports only:
CountedImported(j, n, imported) ==
  [job EXCEPT ![j].processed = @ + imported, ![j].imported = @ + imported]
Counted(j, n, imported) ==
  [job EXCEPT ![j].processed = @ + n, ![j].imported = @ + imported,
     ![j].errors = @ + n - imported]

ImportBatch(a) ==
  LET j == actor[a].job
      batch == NextBatch(a)
      addresses == {batch[i] : i \in Good(batch)}
      n == Cardinality(Good(batch))
  IN
  /\ actor[a].pc = "rows" /\ batch # <<>> /\ Readable(batch) /\ Importable(j)
  /\ Upserted(actor[a].tenant, addresses)
  /\ Subscribed(actor[a].tenant, addresses, job[j].lists)
  /\ job' = Counted(j, Len(batch), n)
  /\ actor' = [actor EXCEPT ![a].total = @ + Len(batch), ![a].imported = @ + n]
  /\ UNCHANGED <<list, patch, disk, crashes>>

\* errJobCancelled
BatchCancelled(a) ==
  /\ actor[a].pc = "rows" /\ NextBatch(a) # <<>> /\ Readable(NextBatch(a))
  /\ job[actor[a].job].status = "cancelled"
  /\ Stop(a) /\ UNCHANGED <<contactVars, job, disk, crashes>>

\* A statement of the batch fails: it is rolled back, and the job fails.
BatchFails(a) ==
  /\ actor[a].pc = "rows" /\ NextBatch(a) # <<>>
  /\ Goto(a, "fail") /\ UNCHANGED <<contactVars, job, disk, crashes>>

RowsEnd(a) ==
  /\ actor[a].pc = "rows" /\ NextBatch(a) = <<>>
  /\ Goto(a, "finish") /\ UNCHANGED <<contactVars, job, disk, crashes>>

\* The counters of the worker replace those the batches added up.
Tallied(a, j) ==
  [job EXCEPT ![j].status = "completed", ![j].processed = actor[a].total,
     ![j].imported = actor[a].imported, ![j].errors = actor[a].total - actor[a].imported]

Finish(a) ==
  LET j == actor[a].job IN
  /\ actor[a].pc = "finish" /\ Stop(a)
  /\ job' = IF job[j].status = "processing" THEN Tallied(a, j) ELSE job
  /\ UNCHANGED <<contactVars, disk, crashes>>

\* fail: whatever the status is by now.
Fail(a) ==
  /\ actor[a].pc = "fail" /\ SetStatus(actor[a].job, "failed") /\ Stop(a)
  /\ UNCHANGED <<contactVars, disk, crashes>>

\* The transaction of Finish or of Fail fails.  Its error goes nowhere, as the
\* goroutine drops it, and the row stays as it is: processing, if nobody
\* cancelled the job.
EndFails(a) ==
  /\ actor[a].pc \in {"finish", "fail"} /\ Stop(a)
  /\ stranded' = stranded \cup {actor[a].job}
  /\ UNCHANGED <<contactVars, job, disk, crashes>>

Crash ==
  /\ crashes < Crashes /\ crashes + edits < Edits /\ crashes' = crashes + 1
  /\ actor' = [a \in Actors |-> Resting] /\ patch' = [r \in Requests |-> Idle]
  /\ UNCHANGED <<sub, list, member, job, disk>>

Worker(a) ==
  \/ ProcessJob(a) \/ ReadFile(a) \/ RowFails(a) \/ ImportBatch(a) \/ BatchCancelled(a)
  \/ BatchFails(a) \/ RowsEnd(a) \/ Finish(a) \/ Fail(a)
Request(a) == OpenFile(a) \/ WriteFile(a) \/ Spawn(a)

JobStep ==
  \/ \E a \in Actors :
       \/ \E t \in Tenants, k \in Keys :
            ReplayJob(a, t, k) \/ \E L \in SUBSET Lists, f \in Files : CreateJob(a, t, k, L, f)
       \/ Request(a) \/ StartFails(a) \/ Worker(a)
  \/ \E t \in Tenants, j \in Jobs : CancelJob(t, j)
  \/ Crash

Next ==
  \/ JobStep /\ UNCHANGED <<edits, stranded>>
  \/ \E a \in Actors : EndFails(a) /\ UNCHANGED edits
  \/ crashes + edits < Edits /\ edits' = edits + 1 /\ ContactsNext /\ UNCHANGED jobVars

\* Goroutines run on; nobody has to upload, cancel or edit anything.
Fairness == \A a \in Actors : WF_vars((Request(a) \/ Worker(a)) /\ UNCHANGED <<edits, stranded>>)
Spec == Init /\ [][Next]_vars /\ Fairness

-----------------------------------------------------------------------------
(* Properties *)

\* What the API shows of the jobs is a run of ImportLifecycle: claimed once,
\* nothing imported once it is cancelled, completed only with every row
\* accounted for.
Lifecycle == INSTANCE ImportLifecycle WITH
  status <- [j \in Jobs |-> job[j].status],
  size <- [j \in Jobs |-> Len(job[j].file.rows)],
  rows <- [j \in Jobs |-> job[j].processed]
ImplementsLifecycle == Lifecycle!LSpec

\* A job has one worker at most, however often the upload is replayed.
Working(a) == actor[a].pc \in {"read", "rows", "fail", "finish"}
OneWorker ==
  \A a, b \in Actors : Working(a) /\ Working(b) /\ actor[a].job = actor[b].job => a = b

\* Every row is counted once, as imported or as an error: the worker, which
\* counts beside the transactions of its batches and writes its own counts in
\* the end, agrees with the row after every batch, failed ones and those of a
\* cancelled job included.
CountersAgree ==
  /\ \A j \in Jobs : /\ job[j].imported + job[j].errors = job[j].processed
                     /\ job[j].processed <= Len(job[j].file.rows)
  /\ \A a \in Actors : Working(a) =>
       /\ job[actor[a].job].status \in {"processing", "cancelled"}
       /\ job[actor[a].job].processed = actor[a].total
       /\ job[actor[a].job].imported = actor[a].imported

\* While the process lives, a claimed job ends: by its worker, which fails it
\* when anything before the last transaction does, or by a cancellation.  The
\* exception the code makes is the last transaction itself, of a job completed
\* or failed: when that fails, nothing ends the job.
Claimed(j) == \E a \in Actors : Working(a) /\ actor[a].job = j
ClaimedJobsEnd ==
  \A j \in Jobs : (Claimed(j) /\ crashes = 0) ~>
    (\/ job[j].status \in {"completed", "failed", "cancelled"}
     \/ crashes > 0 \/ j \in stranded)
=============================================================================
