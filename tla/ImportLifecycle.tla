---------------------------- MODULE ImportLifecycle ----------------------------
(***************************************************************************)
(* What the API of import jobs shows of them: a job is created once, is     *)
(* claimed at most once, imports rows only while it is processing, and is   *)
(* completed only when every row is accounted for.                          *)
(*                                                                         *)
(* A cancelled job imports nothing more.  It may still turn failed, as      *)
(* fail() overwrites every status.                                          *)
(***************************************************************************)
EXTENDS Naturals

CONSTANT Jobs

VARIABLES
  status,   \* status of each job
  size,     \* rows of its file
  rows      \* rows accounted for

lifecycleVars == <<status, size, rows>>

JobStatuses == {"none", "pending", "processing", "completed", "failed", "cancelled"}

LInit ==
  /\ status = [j \in Jobs |-> "none"]
  /\ size = [j \in Jobs |-> 0]
  /\ rows = [j \in Jobs |-> 0]

Becomes(j, from, to) == status[j] \in from /\ status' = [status EXCEPT ![j] = to]

LCreate(j) ==
  /\ Becomes(j, {"none"}, "pending") /\ UNCHANGED rows
  /\ size'[j] \in Nat /\ size' = [size EXCEPT ![j] = size'[j]]
LClaim(j) == Becomes(j, {"pending"}, "processing") /\ UNCHANGED <<size, rows>>
LImport(j) ==
  /\ status[j] = "processing" /\ UNCHANGED <<status, size>>
  /\ rows'[j] \in (rows[j] + 1)..size[j] /\ rows' = [rows EXCEPT ![j] = rows'[j]]
LComplete(j) ==
  /\ rows[j] = size[j] /\ Becomes(j, {"processing"}, "completed")
  /\ UNCHANGED <<size, rows>>
LFail(j) == Becomes(j, {"processing", "cancelled"}, "failed") /\ UNCHANGED <<size, rows>>
LCancel(j) ==
  Becomes(j, {"pending", "processing"}, "cancelled") /\ UNCHANGED <<size, rows>>

LNext == \E j \in Jobs :
  \/ LCreate(j) \/ LClaim(j) \/ LImport(j)
  \/ LComplete(j) \/ LFail(j) \/ LCancel(j)

LSpec == LInit /\ [][LNext]_lifecycleVars
=============================================================================
