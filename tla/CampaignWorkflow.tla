--------------------------- MODULE CampaignWorkflow ---------------------------
(***************************************************************************)
(* The approval of a tenant's campaigns:                                    *)
(* internal/mailview/control/campaign_workflow.go and its endpoints in       *)
(* cmd/mailview_phase4.go, beside the status that the campaign manager reads *)
(* and that the campaign endpoints write.                                    *)
(***************************************************************************)
EXTENDS Naturals, FiniteSets

CONSTANTS
  Campaigns, IdemKeys, Clients,  \* campaigns, idempotency keys, calls in progress
  NoKey,                         \* no key
  Revisions                      \* bound: transitions of a campaign

ASSUME CampaignWorkflowAssumption ==
  Revisions \in Nat \ {0} /\ NoKey \notin IdemKeys

States == {"none", "draft", "review", "approved", "scheduled", "sending", "completed",
           "rejected", "cancelled"}

VARIABLES
  wf,       \* mv_campaign_workflows: state and revision of each campaign
  event,    \* mv_campaign_workflow_events: the transition of each key
  legacy,   \* status of each campaign in the table the manager scans
  client    \* calls of TransitionCampaign

workflowVars == <<wf, event, legacy, client>>

NoEvent == [on |-> {}, from |-> "none", to |-> "none", revision |-> 0]
NoClient == [pc |-> "idle", on |-> {}, to |-> "none", key |-> NoKey]

InitWorkflow ==
  /\ wf = [c \in Campaigns |-> [state |-> "none", revision |-> 0]]
  /\ event = [k \in IdemKeys |-> NoEvent]
  /\ legacy = [c \in Campaigns |-> "draft"]
  /\ client = [x \in Clients |-> NoClient]

campaignTransitions ==
  {<<"draft", "review">>, <<"review", "approved">>, <<"review", "rejected">>,
   <<"rejected", "review">>, <<"approved", "scheduled">>, <<"approved", "cancelled">>,
   <<"scheduled", "sending">>, <<"scheduled", "cancelled">>, <<"sending", "completed">>,
   <<"sending", "cancelled">>}

\* The row is made on its first use, as a draft.
Sidecar(c) == IF wf[c].state = "none" THEN [state |-> "draft", revision |-> 1] ELSE wf[c]

GetCampaignWorkflow(c) ==
  /\ wf' = [wf EXCEPT ![c] = Sidecar(c)] /\ UNCHANGED <<event, legacy, client>>

\* TransitionCampaign looks for the key: one that is there is answered with the
\* campaign's row or, for another campaign, a conflict,
KeyKnown(k) == event[k] # NoEvent
TransitionStart(x, c, to, k) ==
  /\ client[x] = NoClient /\ ~KeyKnown(k)
  /\ client' = [client EXCEPT ![x] = [pc |-> "asked", on |-> {c}, to |-> to, key |-> k]]
  /\ UNCHANGED <<wf, event, legacy>>
TransitionReplayed(x, k) ==
  client[x] = NoClient /\ KeyKnown(k) /\ UNCHANGED workflowVars

\* syncLegacyCampaignState: without a look at the status there is.
SyncLegacy(c, to) ==
  legacy' = [legacy EXCEPT ![c] =
    CASE to = "scheduled" -> "scheduled" [] to = "sending" -> "running"
      [] to = "completed" -> "finished" [] to = "cancelled" -> "cancelled" [] OTHER -> @]

\* Variant: the keys of events are not unique.
KeyAnyway(k) == TRUE
\* Variant: a review may be skipped.
AllowedUnapproved(c, to) ==
  <<Sidecar(c).state, to>> \in campaignTransitions \cup {<<"review", "scheduled">>}

\* The unique index on the keys of a tenant's events.
KeyFree(k) == ~KeyKnown(k)
Allowed(c, to) == <<Sidecar(c).state, to>> \in campaignTransitions

\* and any other takes the row's lock and transits, in one transaction;
\* timely: a scheduled time is in the future, a rejection has its reason.
Transit(c, to) == wf' = [wf EXCEPT ![c] = [state |-> to, revision |-> Sidecar(c).revision + 1]]
TransitionCommit(x, timely) ==
  LET q == client[x] IN
  /\ q.pc = "asked" /\ client' = [client EXCEPT ![x] = NoClient]
  /\ \E c \in q.on :
       /\ wf[c].revision <= Revisions /\ KeyFree(q.key) /\ Allowed(c, q.to)
       /\ q.to \in {"rejected", "scheduled"} => timely
       /\ Transit(c, q.to) /\ SyncLegacy(c, q.to)
       /\ event' = [event EXCEPT ![q.key] =
            [on |-> {c}, from |-> Sidecar(c).state, to |-> q.to, revision |-> Sidecar(c).revision]]

\* The transaction is rolled back: the key was taken meanwhile, the transition
\* is none of the state's, or the input is refused.
TransitionRefused(x, timely) ==
  LET q == client[x] IN
  /\ q.pc = "asked" /\ client' = [client EXCEPT ![x] = NoClient]
  /\ \E c \in q.on :
       ~KeyFree(q.key) \/ ~Allowed(c, q.to) \/ (q.to \in {"rejected", "scheduled"} /\ ~timely)
  /\ UNCHANGED <<wf, event, legacy>>

\* The campaign endpoints and the manager write the status on their own
\* (modelled in CampaignManager): here, any of the writes of a tenant host.
LegacyWrite(c, status) ==
  /\ status \in {"draft", "scheduled", "running", "paused", "cancelled", "finished"}
  /\ legacy' = [legacy EXCEPT ![c] = status] /\ UNCHANGED <<wf, event, client>>

NextWorkflow ==
  \/ \E c \in Campaigns : GetCampaignWorkflow(c)
  \/ \E x \in Clients, c \in Campaigns, to \in States, k \in IdemKeys : TransitionStart(x, c, to, k)
  \/ \E x \in Clients, k \in IdemKeys : TransitionReplayed(x, k)
  \/ \E x \in Clients, timely \in BOOLEAN : TransitionCommit(x, timely) \/ TransitionRefused(x, timely)
  \/ \E c \in Campaigns, status \in {"running", "cancelled"} : LegacyWrite(c, status)

-----------------------------------------------------------------------------

WorkflowTypeOK ==
  /\ wf \in [Campaigns -> [state : States, revision : Nat]]
  /\ event \in [IdemKeys -> [on : SUBSET Campaigns, from : States, to : States, revision : Nat]]
  /\ client \in [Clients -> [pc : {"idle", "asked"}, on : SUBSET Campaigns, to : States,
                             key : IdemKeys \cup {NoKey}]]

EventsOf(c) == {k \in IdemKeys : event[k].on = {c}}

\* The revisions of a campaign count its transitions, each recorded once under
\* one key: a retry, even one that raced past the lookup of its key, is not a
\* second transition ("preventing double scheduling/sending on retries").
RevisionsAreEvents ==
  \A c \in Campaigns :
    /\ wf[c].state # "none" => wf[c].revision = 1 + Cardinality(EventsOf(c))
    /\ \A j, k \in EventsOf(c) : j # k => event[j].revision # event[k].revision

\* The events of a campaign are one path from draft to its state: each begins
\* in the state in which the one before ended, and a campaign that went out was
\* approved after its last review.
EventsFormPath ==
  \A c \in Campaigns : \A k \in EventsOf(c) :
    /\ IF event[k].revision = 1 THEN event[k].from = "draft"
       ELSE \E j \in EventsOf(c) :
              event[j].revision + 1 = event[k].revision /\ event[j].to = event[k].from
    /\ event[k].revision + 1 = wf[c].revision => event[k].to = wf[c].state
    /\ event[k].to \in {"scheduled", "sending", "completed"} =>
         \E j \in EventsOf(c) : event[j].to = "approved" /\ event[j].revision < event[k].revision
===============================================================================
