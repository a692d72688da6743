-------------------------- MODULE ControlPlaneProofs --------------------------
(***************************************************************************)
(* Theorems about ControlPlane: its safety invariants, one part after the    *)
(* other.  Every part has an inductive invariant of its own.                 *)
(*                                                                         *)
(* The approval workflow: a transition is recorded once, however often a     *)
(* call is retried, and the records of a campaign are a path of allowed      *)
(* transitions.  Both need that the last record of a campaign is the         *)
(* transition to the state it is in, which the lock of its row gives: from   *)
(* there every step extends the path by one.                                *)
(*                                                                         *)
(* The slugs: only tenants that exist have old slugs.  The roles: every     *)
(* write to a membership was validated.  Recovery codes: a login that holds  *)
(* the lock of its user is alone, and its code is unused.  Requests: a grant *)
(* that let a request in does not change, except that it ends.               *)
(***************************************************************************)
EXTENDS ControlPlane, FiniteSetTheorems, TLAPS

-----------------------------------------------------------------------------
(* The approval workflow *)

\* A campaign without a row has no records; the revisions of the others are
\* those of their records and one more, and the last record, if any, is the
\* newest.
RecordsInv ==
  \A c \in Campaigns :
    /\ wf[c].state = "none" => wf[c].revision = 0 /\ EventsOf(c) = {}
    /\ wf[c].state # "none" =>
         /\ wf[c].revision >= 1
         /\ IsFiniteSet(EventsOf(c)) /\ wf[c].revision = 1 + Cardinality(EventsOf(c))
         /\ wf[c].revision = 1 => wf[c].state = "draft"
         /\ wf[c].revision > 1 =>
              \E k \in EventsOf(c) : event[k].revision + 1 = wf[c].revision
    /\ \A k \in EventsOf(c) : event[k].revision >= 1 /\ event[k].revision < wf[c].revision

\* A call that found its key unused holds one.
AskedInv == \A x \in Clients : client[x].pc = "asked" => client[x].key \in IdemKeys

WorkflowInv == WorkflowTypeOK /\ AskedInv /\ RecordsInv /\ RevisionsAreEvents /\ EventsFormPath

\* Who goes out was scheduled, and who is scheduled was approved.
LEMMA TransitionFacts ==
  ASSUME NEW s, NEW to, <<s, to>> \in campaignTransitions
  PROVE  /\ s \in States \ {"none"} /\ to \in States \ {"none", "draft"}
         /\ to = "scheduled" => s = "approved"
         /\ to = "sending" => s = "scheduled"
         /\ to = "completed" => s = "sending"
BY DEF campaignTransitions, States

\* A key that is free belongs to no campaign.
LEMMA FreeKey ==
  ASSUME NEW k, KeyFree(k), NEW c
  PROVE  event[k].on # {c}
BY DEF KeyFree, KeyKnown, NoEvent

\* The records of a campaign after a transition of campaign c under key k.
LEMMA EventsAfter ==
  ASSUME WorkflowTypeOK, NEW c \in Campaigns, NEW k \in IdemKeys, KeyFree(k), NEW e,
         e.on = {c}, event' = [event EXCEPT ![k] = e]
  PROVE  /\ EventsOf(c)' = EventsOf(c) \cup {k} /\ k \notin EventsOf(c)
         /\ \A d \in Campaigns : d # c => EventsOf(d)' = EventsOf(d) /\ k \notin EventsOf(d)
         /\ event'[k] = e /\ \A j \in IdemKeys : j # k => event'[j] = event[j]
<1>1. event'[k] = e /\ \A j \in IdemKeys : j # k => event'[j] = event[j]
  BY DEF WorkflowTypeOK
<1>2. \A d : event[k].on # {d}
  BY FreeKey
<1> QED BY <1>1, <1>2 DEF EventsOf

\* The row of a campaign, made as a draft if there is none, against its records.
LEMMA SidecarFacts ==
  ASSUME WorkflowInv, NEW c \in Campaigns
  PROVE  LET row == Sidecar(c) IN
         /\ row \in [state : States, revision : Nat] /\ row.state # "none" /\ row.revision >= 1
         /\ IsFiniteSet(EventsOf(c)) /\ row.revision = 1 + Cardinality(EventsOf(c))
         /\ row.revision = 1 => row.state = "draft"
         /\ row.revision > 1 => \E j \in EventsOf(c) :
              event[j].revision + 1 = row.revision /\ event[j].to = row.state
         /\ \A j \in EventsOf(c) : event[j].revision >= 1 /\ event[j].revision < row.revision
<1>1. CASE wf[c].state = "none"
  <2>1. EventsOf(c) = {} /\ Sidecar(c) = [state |-> "draft", revision |-> 1]
    BY <1>1 DEF WorkflowInv, RecordsInv, Sidecar
  <2>2. IsFiniteSet({}) /\ Cardinality({}) = 0
    BY FS_EmptySet
  <2> QED BY <2>1, <2>2 DEF States
<1>2. CASE wf[c].state # "none"
  <2>1. Sidecar(c) = wf[c] /\ wf[c] \in [state : States, revision : Nat]
    BY <1>2 DEF Sidecar, WorkflowInv, WorkflowTypeOK
  <2>2. ASSUME NEW j \in EventsOf(c), event[j].revision + 1 = wf[c].revision
        PROVE  event[j].to = wf[c].state
    BY <2>2 DEF WorkflowInv, EventsFormPath
  <2> QED BY <1>2, <2>1, <2>2 DEF WorkflowInv, RecordsInv
<1> QED BY <1>1, <1>2

\* A transition takes the campaign's row on by one revision and records it.
LEMMA CommitInv ==
  ASSUME WorkflowInv, NEW x \in Clients, NEW timely \in BOOLEAN, TransitionCommit(x, timely)
  PROVE  WorkflowInv'
<1> DEFINE k == client[x].key
           to == client[x].to
<1>1. PICK c \in Campaigns :
        /\ KeyFree(k) /\ Allowed(c, to) /\ Transit(c, to)
        /\ event' = [event EXCEPT ![k] =
             [on |-> {c}, from |-> Sidecar(c).state, to |-> to, revision |-> Sidecar(c).revision]]
        /\ client' = [client EXCEPT ![x] = NoClient]
  BY DEF TransitionCommit, WorkflowInv, WorkflowTypeOK
<1>2. k \in IdemKeys /\ to \in States
  BY DEF WorkflowInv, WorkflowTypeOK, AskedInv, TransitionCommit
<1> DEFINE row == Sidecar(c)
           new == [on |-> {c}, from |-> row.state, to |-> to, revision |-> row.revision]
<1>3. /\ row.state \in States \ {"none"} /\ row.revision \in Nat /\ row.revision >= 1
      /\ IsFiniteSet(EventsOf(c)) /\ row.revision = 1 + Cardinality(EventsOf(c))
      /\ row.revision = 1 => row.state = "draft"
      /\ row.revision > 1 => \E j \in EventsOf(c) :
           event[j].revision + 1 = row.revision /\ event[j].to = row.state
      /\ \A j \in EventsOf(c) : event[j].revision >= 1 /\ event[j].revision < row.revision
  BY SidecarFacts
<1>4. /\ to \notin {"none", "draft"}
      /\ to = "scheduled" => row.state = "approved"
      /\ to = "sending" => row.state = "scheduled"
      /\ to = "completed" => row.state = "sending"
  BY <1>1, TransitionFacts DEF Allowed
<1>5. new \in [on : SUBSET Campaigns, from : States, to : States, revision : Nat]
  BY <1>2, <1>3
<1>6. /\ wf' \in [Campaigns -> [state : States, revision : Nat]]
      /\ wf'[c].state = to /\ wf'[c].revision = row.revision + 1
      /\ \A d \in Campaigns : d # c => wf'[d] = wf[d]
  <2>1. [state |-> to, revision |-> row.revision + 1] \in [state : States, revision : Nat]
    BY <1>2, <1>3
  <2> HIDE DEF row
  <2>2. wf' = [wf EXCEPT ![c] = [state |-> to, revision |-> row.revision + 1]]
    BY <1>1 DEF Transit, row
  <2> QED BY <2>1, <2>2 DEF WorkflowInv, WorkflowTypeOK
<1>7. /\ new.on = {c} /\ new.from = row.state /\ new.to = to /\ new.revision = row.revision
      /\ event' = [event EXCEPT ![k] = new]
  BY <1>1
<1> HIDE DEF row, new
<1>8. /\ EventsOf(c)' = EventsOf(c) \cup {k} /\ k \notin EventsOf(c)
      /\ \A d \in Campaigns : d # c => EventsOf(d)' = EventsOf(d) /\ k \notin EventsOf(d)
      /\ event'[k] = new /\ \A j \in IdemKeys : j # k => event'[j] = event[j]
  <2>1. WorkflowTypeOK /\ k \in IdemKeys /\ KeyFree(k) /\ new.on = {c}
    BY <1>1, <1>2, <1>7 DEF WorkflowInv
  <2>2. event' = [event EXCEPT ![k] = new]
    BY <1>7
  <2> HIDE DEF k
  <2> QED BY <2>1, <2>2, EventsAfter
<1>9. \A d \in Campaigns : \A j \in EventsOf(d) : j \in IdemKeys /\ j # k /\ event'[j] = event[j]
  BY <1>8 DEF EventsOf
<1>10. WorkflowTypeOK'
  <2>1. event' \in [IdemKeys -> [on : SUBSET Campaigns, from : States, to : States, revision : Nat]]
    BY <1>5, <1>7 DEF WorkflowInv, WorkflowTypeOK
  <2>2. NoClient \in [pc : {"idle", "asked"}, on : SUBSET Campaigns, to : States,
                      key : IdemKeys \cup {NoKey}]
    BY DEF NoClient, States
  <2> QED BY <1>1, <1>6, <2>1, <2>2 DEF WorkflowInv, WorkflowTypeOK
<1>11. AskedInv'
  BY <1>1 DEF NoClient, WorkflowInv, WorkflowTypeOK, AskedInv
<1>12. IsFiniteSet(EventsOf(c)') /\ Cardinality(EventsOf(c)') = Cardinality(EventsOf(c)) + 1
  <2>1. IsFiniteSet(EventsOf(c)) /\ k \notin EventsOf(c)
    BY <1>3, <1>8
  <2>2. IsFiniteSet(EventsOf(c) \cup {k})
        /\ Cardinality(EventsOf(c) \cup {k}) = Cardinality(EventsOf(c)) + 1
    BY <2>1, FS_AddElement
  <2> QED BY <1>8, <2>2
<1>13. Cardinality(EventsOf(c)) \in Nat
  BY <1>3, FS_CardinalityType
<1>14. RecordsInv'
  <2> SUFFICES ASSUME NEW d \in Campaigns
               PROVE  /\ wf'[d].state = "none" => wf'[d].revision = 0 /\ EventsOf(d)' = {}
                      /\ wf'[d].state # "none" =>
                           /\ wf'[d].revision >= 1 /\ IsFiniteSet(EventsOf(d)')
                           /\ wf'[d].revision = 1 + Cardinality(EventsOf(d)')
                           /\ wf'[d].revision = 1 => wf'[d].state = "draft"
                           /\ wf'[d].revision > 1 =>
                                \E j \in EventsOf(d)' : event'[j].revision + 1 = wf'[d].revision
                      /\ \A j \in EventsOf(d)' :
                           event'[j].revision >= 1 /\ event'[j].revision < wf'[d].revision
    BY DEF RecordsInv
  <2>1. CASE d = c
    <3>1. \A j \in EventsOf(c)' : event'[j].revision >= 1 /\ event'[j].revision < row.revision + 1
      <4>1. ASSUME NEW j \in EventsOf(c)
            PROVE  event'[j].revision >= 1 /\ event'[j].revision < row.revision + 1
        <5>1. event[j].revision \in Nat /\ event[j].revision >= 1 /\ event[j].revision < row.revision
          BY <1>3, <1>9 DEF WorkflowInv, WorkflowTypeOK
        <5> QED BY <1>3, <1>9, <5>1
      <4>2. event'[k].revision >= 1 /\ event'[k].revision < row.revision + 1
        BY <1>3, <1>7, <1>8
      <4> QED BY <1>8, <4>1, <4>2
    <3>2. event'[k].revision + 1 = wf'[c].revision /\ k \in EventsOf(c)'
      BY <1>6, <1>7, <1>8
    <3>3. /\ wf'[c].revision >= 1 /\ wf'[c].revision # 1
          /\ wf'[c].revision = 1 + Cardinality(EventsOf(c)')
      BY <1>3, <1>6, <1>12, <1>13
    <3>4. wf'[c].state # "none"
      BY <1>4, <1>6
    <3>5. IsFiniteSet(EventsOf(c)') /\ wf'[c].revision = row.revision + 1
      BY <1>6, <1>12
    <3> QED BY <2>1, <3>1, <3>2, <3>3, <3>4, <3>5
  <2>2. CASE d # c
    <3>1. wf'[d] = wf[d] /\ EventsOf(d)' = EventsOf(d) /\ \A j \in EventsOf(d) : event'[j] = event[j]
      BY <2>2, <1>6, <1>8, <1>9
    <3> QED BY <3>1 DEF WorkflowInv, RecordsInv
  <2> QED BY <2>1, <2>2
<1>15. RevisionsAreEvents'
  <2> SUFFICES ASSUME NEW d \in Campaigns
               PROVE  \A i, j \in EventsOf(d)' : i # j => event'[i].revision # event'[j].revision
    BY <1>14 DEF RecordsInv, RevisionsAreEvents
  <2>1. \A i, j \in EventsOf(d) : i # j => event'[i].revision # event'[j].revision
    BY <1>9 DEF WorkflowInv, RevisionsAreEvents
  <2>2. CASE d = c
    <3>1. \A j \in EventsOf(c) : event'[j].revision # event'[k].revision
      <4> SUFFICES ASSUME NEW j \in EventsOf(c) PROVE event'[j].revision # event'[k].revision
        OBVIOUS
      <4>1. event[j].revision \in Nat /\ event[j].revision < row.revision
        BY <1>3, <1>9 DEF WorkflowInv, WorkflowTypeOK
      <4> QED BY <1>3, <1>7, <1>8, <1>9, <4>1
    <3> QED BY <1>8, <2>1, <2>2, <3>1
  <2>3. CASE d # c
    BY <1>8, <2>1, <2>3
  <2> QED BY <2>2, <2>3
<1>16. EventsFormPath'
  <2> DEFINE PathAt(d, j) ==
        /\ IF event'[j].revision = 1 THEN event'[j].from = "draft"
           ELSE \E i \in EventsOf(d)' :
                  event'[i].revision + 1 = event'[j].revision /\ event'[i].to = event'[j].from
        /\ event'[j].revision + 1 = wf'[d].revision => event'[j].to = wf'[d].state
        /\ event'[j].to \in {"scheduled", "sending", "completed"} =>
             \E i \in EventsOf(d)' :
               event'[i].to = "approved" /\ event'[i].revision < event'[j].revision
  <2> SUFFICES ASSUME NEW d \in Campaigns, NEW j \in EventsOf(d)'
               PROVE  PathAt(d, j)
    BY DEF EventsFormPath
  <2>1. CASE d # c
    <3>1. wf'[d] = wf[d] /\ EventsOf(d)' = EventsOf(d) /\ \A i \in EventsOf(d) : event'[i] = event[i]
      BY <2>1, <1>6, <1>8, <1>9
    <3> QED BY <3>1 DEF WorkflowInv, EventsFormPath
  <2>2. CASE d = c /\ j # k
    <3>1. /\ j \in EventsOf(c) /\ event'[j] = event[j] /\ EventsOf(c) \subseteq EventsOf(c)'
          /\ \A i \in EventsOf(c) : event'[i] = event[i]
      BY <2>2, <1>8, <1>9
    <3>2. event[j].revision \in Nat /\ event[j].revision < row.revision
      BY <1>3, <3>1 DEF WorkflowInv, WorkflowTypeOK, EventsOf
    <3>3. event'[j].revision + 1 # wf'[c].revision
      BY <1>3, <1>6, <3>1, <3>2
    <3>4. /\ IF event[j].revision = 1 THEN event[j].from = "draft"
             ELSE \E i \in EventsOf(c) :
                    event[i].revision + 1 = event[j].revision /\ event[i].to = event[j].from
          /\ event[j].to \in {"scheduled", "sending", "completed"} =>
               \E i \in EventsOf(c) :
                 event[i].to = "approved" /\ event[i].revision < event[j].revision
      BY <3>1 DEF WorkflowInv, EventsFormPath
    <3> QED BY <2>2, <3>1, <3>3, <3>4
  <2>3. CASE d = c /\ j = k
    <3>1. /\ event'[j].from = row.state /\ event'[j].to = to /\ event'[j].revision = row.revision
          /\ EventsOf(c) \subseteq EventsOf(c)' /\ \A i \in EventsOf(c) : event'[i] = event[i]
      BY <2>3, <1>7, <1>8, <1>9
    <3>2. CASE row.revision = 1
      <4>1. row.state = "draft" /\ to \notin {"scheduled", "sending", "completed"}
        BY <1>3, <1>4, <3>2
      <4> QED BY <1>6, <2>3, <3>1, <3>2, <4>1
    <3>3. CASE row.revision # 1
      <4>1. PICK i \in EventsOf(c) : event[i].revision + 1 = row.revision /\ event[i].to = row.state
        BY <1>3, <3>3
      <4>2. event[i].revision \in Nat
        BY DEF EventsOf, WorkflowInv, WorkflowTypeOK
      <4>3. ASSUME to \in {"scheduled", "sending", "completed"}
            PROVE  \E h \in EventsOf(c) :
                     event[h].to = "approved" /\ event[h].revision < row.revision
        <5>1. CASE to = "scheduled"
          BY <1>3, <1>4, <4>1, <4>2, <5>1
        <5>2. CASE to \in {"sending", "completed"}
          <6>1. event[i].to \in {"scheduled", "sending"}
            BY <1>4, <4>1, <5>2
          <6>2. PICK h \in EventsOf(c) :
                  event[h].to = "approved" /\ event[h].revision < event[i].revision
            BY <6>1 DEF WorkflowInv, EventsFormPath
          <6>3. event[h].revision \in Nat
            BY DEF EventsOf, WorkflowInv, WorkflowTypeOK
          <6> QED BY <1>3, <4>1, <4>2, <6>2, <6>3
        <5> QED BY <4>3, <5>1, <5>2
      <4> QED BY <1>6, <2>3, <3>1, <3>3, <4>1, <4>3
    <3> QED BY <3>2, <3>3
  <2> QED BY <2>1, <2>2, <2>3
<1> QED BY <1>10, <1>11, <1>14, <1>15, <1>16 DEF WorkflowInv

\* Reading a campaign that has no row makes it a draft at revision one.
LEMMA GetInv ==
  ASSUME WorkflowInv, NEW c \in Campaigns, GetCampaignWorkflow(c)
  PROVE  WorkflowInv'
<1> DEFINE row == Sidecar(c)
<1>1. /\ wf' = [wf EXCEPT ![c] = row] /\ event' = event /\ client' = client
      /\ wf'[c] = row /\ \A d \in Campaigns : d # c => wf'[d] = wf[d]
  BY DEF GetCampaignWorkflow, WorkflowInv, WorkflowTypeOK
<1>2. /\ row \in [state : States, revision : Nat] /\ row.state # "none" /\ row.revision >= 1
      /\ IsFiniteSet(EventsOf(c)) /\ row.revision = 1 + Cardinality(EventsOf(c))
      /\ row.revision = 1 => row.state = "draft"
      /\ row.revision > 1 => \E j \in EventsOf(c) :
           event[j].revision + 1 = row.revision /\ event[j].to = row.state
      /\ \A j \in EventsOf(c) : event[j].revision >= 1 /\ event[j].revision < row.revision
  BY SidecarFacts
<1>3. wf[c].state = "none" \/ row = wf[c]
  BY DEF Sidecar
<1>4. wf[c].state = "none" => EventsOf(c) = {}
  BY DEF WorkflowInv, RecordsInv
<1> HIDE DEF row
<1>5. \A d \in Campaigns : EventsOf(d)' = EventsOf(d)
  BY <1>1 DEF EventsOf
<1>6. WorkflowTypeOK'
  BY <1>1, <1>2 DEF WorkflowInv, WorkflowTypeOK
<1>7. AskedInv'
  BY <1>1 DEF WorkflowInv, AskedInv
<1>8. RecordsInv'
  <2> SUFFICES ASSUME NEW d \in Campaigns PROVE RecordsInv!(d)'
    BY DEF RecordsInv
  <2>1. CASE d = c
    BY <1>1, <1>2, <1>5, <2>1
  <2>2. CASE d # c
    BY <1>1, <1>5, <2>2 DEF WorkflowInv, RecordsInv
  <2> QED BY <2>1, <2>2
<1>9. RevisionsAreEvents'
  BY <1>1, <1>2, <1>3, <1>5 DEF WorkflowInv, RevisionsAreEvents
<1>10. EventsFormPath'
  BY <1>1, <1>3, <1>4, <1>5 DEF WorkflowInv, EventsFormPath
<1> QED BY <1>6, <1>7, <1>8, <1>9, <1>10 DEF WorkflowInv

\* The steps that leave rows and records alone.
LEMMA QuietInv ==
  ASSUME WorkflowInv, UNCHANGED <<wf, event>>,
         client' \in [Clients -> [pc : {"idle", "asked"}, on : SUBSET Campaigns, to : States,
                                  key : IdemKeys \cup {NoKey}]],
         AskedInv'
  PROVE  WorkflowInv'
<1>1. \A d \in Campaigns : EventsOf(d)' = EventsOf(d)
  BY DEF EventsOf
<1>2. WorkflowTypeOK'
  BY DEF WorkflowInv, WorkflowTypeOK
<1>3. RecordsInv'
  BY <1>1 DEF WorkflowInv, RecordsInv
<1>4. RevisionsAreEvents'
  BY <1>1 DEF WorkflowInv, RevisionsAreEvents
<1>5. EventsFormPath'
  BY <1>1 DEF WorkflowInv, EventsFormPath
<1> QED BY <1>2, <1>3, <1>4, <1>5 DEF WorkflowInv

\* Every step of the workflow.
LEMMA WorkflowStepInv ==
  ASSUME WorkflowInv, NextWorkflow
  PROVE  WorkflowInv'
<1> USE DEF WorkflowInv
<1>1. ASSUME NEW c \in Campaigns, GetCampaignWorkflow(c) PROVE WorkflowInv'
  BY <1>1, GetInv
<1>2. ASSUME NEW x \in Clients, NEW c \in Campaigns, NEW to \in States, NEW k \in IdemKeys,
             TransitionStart(x, c, to, k)
      PROVE  WorkflowInv'
  <2>1. UNCHANGED <<wf, event>>
        /\ client' = [client EXCEPT ![x] = [pc |-> "asked", on |-> {c}, to |-> to, key |-> k]]
    BY <1>2 DEF TransitionStart
  <2>2. client' \in [Clients -> [pc : {"idle", "asked"}, on : SUBSET Campaigns, to : States,
                                 key : IdemKeys \cup {NoKey}]]
    BY <2>1 DEF WorkflowTypeOK
  <2>3. AskedInv'
    BY <2>1 DEF WorkflowTypeOK, AskedInv
  <2> QED BY <2>1, <2>2, <2>3, QuietInv
<1>3. ASSUME NEW x \in Clients, NEW k \in IdemKeys, TransitionReplayed(x, k)
      PROVE  WorkflowInv'
  <2>1. UNCHANGED <<wf, event, client>>
    BY <1>3 DEF TransitionReplayed, workflowVars
  <2>2. AskedInv'
    BY <2>1 DEF AskedInv
  <2> QED BY <2>1, <2>2, QuietInv DEF WorkflowTypeOK
<1>4. ASSUME NEW x \in Clients, NEW timely \in BOOLEAN, TransitionCommit(x, timely)
      PROVE  WorkflowInv'
  BY <1>4, CommitInv
<1>5. ASSUME NEW x \in Clients, NEW timely \in BOOLEAN, TransitionRefused(x, timely)
      PROVE  WorkflowInv'
  <2>1. UNCHANGED <<wf, event>> /\ client' = [client EXCEPT ![x] = NoClient]
    BY <1>5 DEF TransitionRefused
  <2>2. client' \in [Clients -> [pc : {"idle", "asked"}, on : SUBSET Campaigns, to : States,
                                 key : IdemKeys \cup {NoKey}]]
    BY <2>1 DEF WorkflowTypeOK, NoClient, States
  <2>3. AskedInv'
    BY <2>1 DEF WorkflowTypeOK, AskedInv, NoClient
  <2> QED BY <2>1, <2>2, <2>3, QuietInv
<1>6. ASSUME NEW c \in Campaigns, NEW status, LegacyWrite(c, status) PROVE WorkflowInv'
  <2>1. UNCHANGED <<wf, event, client>>
    BY <1>6 DEF LegacyWrite
  <2>2. AskedInv'
    BY <2>1 DEF AskedInv
  <2> QED BY <2>1, <2>2, QuietInv DEF WorkflowTypeOK
<1> QED BY <1>1, <1>2, <1>3, <1>4, <1>5, <1>6 DEF NextWorkflow

\* At first there are no rows, no records and no calls.
LEMMA InitWorkflowInv ==
  ASSUME InitWorkflow
  PROVE  WorkflowInv
<1>1. /\ wf = [c \in Campaigns |-> [state |-> "none", revision |-> 0]]
      /\ event = [k \in IdemKeys |-> NoEvent] /\ client = [x \in Clients |-> NoClient]
  BY DEF InitWorkflow
<1>2. \A c : EventsOf(c) = {}
  BY <1>1 DEF EventsOf, NoEvent
<1>3. WorkflowTypeOK
  BY <1>1 DEF WorkflowTypeOK, NoEvent, NoClient, States
<1>4. AskedInv
  BY <1>1 DEF AskedInv, NoClient
<1>5. RecordsInv
  BY <1>1, <1>2 DEF RecordsInv
<1>6. RevisionsAreEvents
  BY <1>1, <1>2 DEF RevisionsAreEvents
<1>7. EventsFormPath
  BY <1>2 DEF EventsFormPath
<1> QED BY <1>3, <1>4, <1>5, <1>6, <1>7 DEF WorkflowInv

\* The other parts of the control plane leave the workflow alone.
LEMMA OtherPartsQuiet ==
  ASSUME Next
  PROVE  NextWorkflow \/ UNCHANGED workflowVars
<1>1. ASSUME Meanwhile PROVE UNCHANGED workflowVars
  BY <1>1 DEF Meanwhile, Tenancy, Access
<1> QED BY <1>1 DEF Next, Tenancy, Access, Both

\* The inductive invariant: rows, records and calls of the workflow agree, for
\* any number of campaigns, keys and concurrent calls.
THEOREM WorkflowCorrect == Spec => []WorkflowInv
<1>1. Init => WorkflowInv
  BY InitWorkflowInv DEF Init
<1>2. WorkflowInv /\ [Next]_cpVars => WorkflowInv'
  <2> SUFFICES ASSUME WorkflowInv, [Next]_cpVars PROVE WorkflowInv'
    OBVIOUS
  <2>1. CASE NextWorkflow
    BY <2>1, WorkflowStepInv
  <2>2. CASE UNCHANGED workflowVars
    <3>1. UNCHANGED <<wf, event, client>>
      BY <2>2 DEF workflowVars
    <3>2. AskedInv'
      BY <3>1 DEF WorkflowInv, AskedInv
    <3> QED BY <3>1, <3>2, QuietInv DEF WorkflowInv, WorkflowTypeOK
  <2> QED BY <2>1, <2>2, OtherPartsQuiet DEF cpVars
<1> QED BY <1>1, <1>2, PTL DEF Spec

\* A transition is recorded once under its key, and the revision of a campaign
\* counts its transitions, however calls and their retries interleave.
THEOREM TransitionsCounted == Spec => []RevisionsAreEvents
<1>1. WorkflowInv => RevisionsAreEvents
  BY DEF WorkflowInv
<1> QED BY <1>1, WorkflowCorrect, PTL

\* The records of a campaign are one path of allowed transitions from draft to
\* its state, and what goes out was approved.
THEOREM ApprovedBeforeSent == Spec => []EventsFormPath
<1>1. WorkflowInv => EventsFormPath
  BY DEF WorkflowInv
<1> QED BY <1>1, WorkflowCorrect, PTL

-----------------------------------------------------------------------------
(* Slugs and their aliases *)

\* What the tables of tenants, aliases and domains hold.
SlugRow == [status : TenantStatuses, slug : Slugs \cup {NoSlug}]
AliasRow == [tenant : Tenants \cup {NoTenant}, to : Slugs \cup {NoSlug}, live : BOOLEAN]
DomainRow == [tenant : Tenants \cup {NoTenant},
              status : {"none", "pending", "verified", "failed", "revoked"},
              tls : TLSStatuses, cert : BOOLEAN]
TenancyTypeOK ==
  /\ tenant \in [Tenants -> SlugRow] /\ alias \in [Slugs -> AliasRow]
  /\ domain \in [Hosts -> DomainRow]

\* The tenants that exist have slugs, one each, and only they have old ones.
SlugsInv ==
  /\ TenancyTypeOK
  /\ \A t \in Tenants : Exists(t) <=> tenant[t].slug # NoSlug
  /\ \A t, u \in Tenants : t # u /\ Exists(t) => tenant[t].slug # tenant[u].slug
  /\ \A s \in Slugs : HasAlias(s) =>
       alias[s].tenant \in Tenants /\ Exists(alias[s].tenant) /\ alias[s].to \in Slugs
  /\ AliasesLeadHome

\* A row of tenant, alias or domain is of its type.
LEMMA TenancyRows ==
  ASSUME TenancyTypeOK
  PROVE  /\ \A t \in Tenants : tenant[t] \in SlugRow
         /\ \A s \in Slugs : alias[s] \in AliasRow
         /\ \A h \in Hosts : domain[h] \in DomainRow
BY DEF TenancyTypeOK

\* Every write to a domain leaves a row of a domain.
LEMMA DomainTyped ==
  ASSUME TenancyTypeOK, NextDomains \/ NextCertificates
  PROVE  domain' \in [Hosts -> DomainRow]
<1>1. domain \in [Hosts -> DomainRow]
  BY DEF TenancyTypeOK
<1>2. \A d \in DomainRow : Verified(d) \in DomainRow
  BY DEF Verified, DomainRow, TLSStatuses
<1>3. \A d \in DomainRow : Lost(d, "failed") \in DomainRow /\ Lost(d, "revoked") \in DomainRow
  BY DEF Lost, DomainRow, TLSStatuses
<1>4. ASSUME NEW h, NEW status \in {"verified", "failed", "revoked"},
             UpdateTenantDomainStatus(h, status)
      PROVE  domain' \in [Hosts -> DomainRow]
  <2>1. domain' = [domain EXCEPT ![h] =
                     IF status = "verified" THEN Verified(domain[h]) ELSE Lost(domain[h], status)]
    BY <1>4 DEF UpdateTenantDomainStatus
  <2>2. h \in Hosts => (IF status = "verified" THEN Verified(domain[h])
                        ELSE Lost(domain[h], status)) \in DomainRow
    BY <1>1, <1>2, <1>3
  <2> QED BY <1>1, <2>1, <2>2
<1>5. ASSUME NEW h, NEW status \in TLSStatuses, WriteTLS(h, status)
      PROVE  domain' \in [Hosts -> DomainRow]
  <2> DEFINE cert == CASE status = "issued" -> TRUE [] status = "revoked" -> FALSE
                       [] OTHER -> domain[h].cert
             row == [domain[h] EXCEPT !.tls = status, !.cert = cert]
  <2>1. \A g \in Hosts : domain'[g] = IF g = h THEN row ELSE domain[g]
    BY <1>1, <1>5 DEF WriteTLS
  <2>2. h \in Hosts => row \in DomainRow
    <3>1. h \in Hosts => cert \in BOOLEAN /\ domain[h] \in DomainRow
      BY <1>1 DEF DomainRow
    <3> HIDE DEF cert
    <3> QED BY <3>1 DEF DomainRow
  <2>3. domain' = [g \in Hosts |-> domain'[g]]
    BY <1>1, <1>5 DEF WriteTLS
  <2> QED BY <1>1, <2>1, <2>2, <2>3
<1>6. CASE \E t \in Tenants, h \in Hosts : CreateTenantDomain(t, h, {t})
  <2>1. PICK t \in Tenants, h \in Hosts : CreateTenantDomain(t, h, {t})
    BY <1>6
  <2>2. [NoDomain EXCEPT !.tenant = t, !.status = "pending"] \in DomainRow
    BY DEF NoDomain, DomainRow, TLSStatuses
  <2> QED BY <1>1, <2>1, <2>2 DEF CreateTenantDomain
<1>7. CASE \E h \in Hosts : RevokeTenantDomain(h)
  BY <1>4, <1>7 DEF RevokeTenantDomain
<1>8. CASE \E c \in Calls : VerifyWrite(c)
  BY <1>4, <1>8 DEF VerifyWrite
<1>9. CASE RevalidateWrite
  BY <1>4, <1>9 DEF RevalidateWrite
<1>10. CASE \E h \in Hosts, status \in TLSStatuses : SetTenantDomainTLSStatus(h, status)
  BY <1>5, <1>10 DEF SetTenantDomainTLSStatus
<1>11. CASE \E c \in Calls : IssueWrite(c)
  BY <1>5, <1>11 DEF IssueWrite, TLSStatuses
<1>12. CASE UNCHANGED domain
  BY <1>1, <1>12
<1>13. CASE Verification
  BY <1>7, <1>8, <1>12, <1>13 DEF Verification, VerifyLookup
<1>14. CASE NextDomains
  BY <1>9, <1>12, <1>13, <1>14
  DEF NextDomains, UpdateTenantStatus, DNSMoves, CheckDue, RevalidateStep, RevalidateFault,
      RevalidateStart, RevalidateEnd, RevalidateTenant, RevalidateLookup
<1>15. CASE NextCertificates
  BY <1>6, <1>10, <1>11, <1>12, <1>13, <1>15 DEF NextCertificates, IssueCheck
<1> QED BY <1>14, <1>15

\* What may happen to the tenants and their aliases.
LEMMA SlugSteps ==
  ASSUME Next
  PROVE  \/ \E t \in Tenants, s \in Slugs : CreateTenant(t, s) \/ ChangeTenantSlug(t, s)
         \/ \E s \in Slugs : AliasExpires(s)
         \/ \E t \in Tenants, status \in TenantStatuses : UpdateTenantStatus(t, status)
         \/ UNCHANGED <<tenant, alias>> /\ (NextDomains \/ NextCertificates \/ UNCHANGED domain)
<1>1. CASE part = "slugs" /\ Tenancy(NextSlugs)
  BY <1>1 DEF Tenancy, NextSlugs
<1>2. CASE part = "domains" /\ Tenancy(NextDomains)
  <2>1. CASE \E t \in Tenants, status \in TenantStatuses : UpdateTenantStatus(t, status)
    BY <2>1
  <2>2. CASE ~\E t \in Tenants, status \in TenantStatuses : UpdateTenantStatus(t, status)
    <3>1. UNCHANGED <<tenant, alias>>
      BY <1>2, <2>2
      DEF Tenancy, NextDomains, Verification, RevokeTenantDomain, CheckDue, DNSMoves,
          VerifyLookup, VerifyWrite, RevalidateStep, RevalidateFault, RevalidateStart,
          RevalidateWrite, RevalidateEnd, RevalidateTenant, RevalidateLookup
    <3> QED BY <1>2, <3>1 DEF Tenancy
  <2> QED BY <2>1, <2>2
<1>3. CASE part = "plans" /\ (Tenancy(NextPlans) \/ Both(RolePlans))
  BY <1>3
  DEF Tenancy, Both, NextPlans, RolePlans, SetTenantQuotaPlan, QuotaMiss, QuotaDefault,
      ConfigureTenantInfrastructure, RolePlan, CreateTenantRole
<1>4. CASE \E s \in Slugs : Tenancy(ChangeTenantSlug(HostOf(First), s))
  BY <1>4, ControlPlaneAssumption DEF Tenancy
<1>5. CASE Tenancy(UpdateTenantStatus(HostOf(First), "suspended"))
  BY <1>5, ControlPlaneAssumption DEF Tenancy, TenantStatuses
<1>6. CASE UNCHANGED tenancyVars
  BY <1>6 DEF tenancyVars
<1>7. CASE part = "certificates" /\ Tenancy(NextCertificates)
  <2>1. UNCHANGED <<tenant, alias>>
    BY <1>7
    DEF Tenancy, NextCertificates, Verification, CreateTenantDomain, RevokeTenantDomain,
        SetTenantDomainTLSStatus, VerifyLookup, VerifyWrite, IssueCheck, IssueWrite
  <2> QED BY <1>7, <2>1 DEF Tenancy
<1> QED BY <1>1, <1>2, <1>3, <1>4, <1>5, <1>6, <1>7 DEF Next, Meanwhile, Access

\* Steps that leave tenants and aliases alone.
LEMMA SlugsQuiet ==
  ASSUME SlugsInv, UNCHANGED <<tenant, alias>>, domain' \in [Hosts -> DomainRow]
  PROVE  SlugsInv'
BY DEF SlugsInv, TenancyTypeOK, Exists, HasAlias, AliasesLeadHome

\* A new tenant takes a slug that no tenant has; an alias of that name goes on
\* leading to its own.
LEMMA CreateTenantInv ==
  ASSUME SlugsInv, NEW t \in Tenants, NEW s \in Slugs, CreateTenant(t, s)
  PROVE  SlugsInv'
<1>1. /\ tenant \in [Tenants -> SlugRow] /\ UNCHANGED <<alias, domain>>
      /\ tenant' = [tenant EXCEPT ![t] = [status |-> "active", slug |-> s]]
  BY DEF SlugsInv, TenancyTypeOK, CreateTenant
<1>2. [status |-> "active", slug |-> s] \in SlugRow
  BY DEF SlugRow, TenantStatuses
<1>3. /\ tenant'[t].status = "active" /\ tenant'[t].slug = s
      /\ \A u \in Tenants : u # t => tenant'[u] = tenant[u]
  BY <1>1
<1>4. s # NoSlug /\ ~Exists(t) /\ \A u \in Tenants : tenant[u].slug # s
  BY TenancyAssumption DEF CreateTenant, FreeForNew, HasSlug
<1>5. TenancyTypeOK'
  BY <1>1, <1>2 DEF SlugsInv, TenancyTypeOK
<1>6. \A u \in Tenants : Exists(u)' <=> tenant'[u].slug # NoSlug
  BY <1>3, <1>4 DEF SlugsInv, Exists
<1>7. \A u, v \in Tenants : u # v /\ Exists(u)' => tenant'[u].slug # tenant'[v].slug
  BY <1>3, <1>4 DEF SlugsInv, Exists
<1>8. \A a \in Slugs : HasAlias(a) => alias[a].tenant \in Tenants /\ alias[a].tenant # t
  BY <1>4 DEF SlugsInv
<1>9. \A a \in Slugs : HasAlias(a)' => HasAlias(a) /\ tenant'[alias[a].tenant] = tenant[alias[a].tenant]
  BY <1>1, <1>3, <1>8 DEF HasAlias
<1>10. AliasesLeadHome'
  BY <1>1, <1>9 DEF SlugsInv, AliasesLeadHome
<1> QED BY <1>1, <1>5, <1>6, <1>7, <1>9, <1>10 DEF SlugsInv, Exists

\* A renamed tenant leaves its old slug as an alias: no slug or alias has the
\* new one, and the aliases that led to the old one lead on.
LEMMA ChangeTenantSlugInv ==
  ASSUME SlugsInv, NEW t \in Tenants, NEW s \in Slugs, ChangeTenantSlug(t, s)
  PROVE  SlugsInv'
<1> DEFINE old == tenant[t].slug
           row == [tenant |-> t, to |-> s, live |-> TRUE]
<1>1. /\ tenant \in [Tenants -> SlugRow] /\ alias \in [Slugs -> AliasRow] /\ UNCHANGED domain
      /\ alias' = [alias EXCEPT ![old] = row] /\ tenant' = [tenant EXCEPT ![t].slug = s]
  BY DEF SlugsInv, TenancyTypeOK, ChangeTenantSlug
<1>2. Exists(t) /\ s # old /\ (\A u \in Tenants : tenant[u].slug # s) /\ alias[s] = NoAlias
      /\ alias[old] = NoAlias
  BY DEF ChangeTenantSlug, Occupied, HasSlug, HasAlias
<1>3. old \in Slugs
  BY <1>1, <1>2 DEF SlugsInv, SlugRow
<1>4. row \in AliasRow /\ row # NoAlias /\ row.tenant = t /\ row.to = s
  BY TenancyAssumption DEF AliasRow, NoAlias
<1>5. [tenant[t] EXCEPT !.slug = s] \in SlugRow
  BY <1>1 DEF SlugRow
<1>6. /\ tenant'[t].slug = s /\ tenant'[t].status = tenant[t].status
      /\ \A u \in Tenants : u # t => tenant'[u] = tenant[u]
  BY <1>1 DEF SlugRow
<1> HIDE DEF old, row
<1>7. alias'[old] = row /\ \A a \in Slugs : a # old => alias'[a] = alias[a]
  BY <1>1, <1>3
<1>8. TenancyTypeOK'
  BY <1>1, <1>3, <1>4, <1>5 DEF SlugsInv, TenancyTypeOK
<1>9. \A u \in Tenants : Exists(u)' <=> Exists(u)
  BY <1>6 DEF Exists
<1>10. s # NoSlug
  BY TenancyAssumption
<1>11. \A u \in Tenants : Exists(u)' <=> tenant'[u].slug # NoSlug
  BY <1>2, <1>6, <1>9, <1>10 DEF SlugsInv
<1>12. \A u, v \in Tenants : u # v /\ Exists(u)' => tenant'[u].slug # tenant'[v].slug
  BY <1>2, <1>6, <1>9 DEF SlugsInv
<1>13. \A a \in Slugs : HasAlias(a)' =>
         alias'[a].tenant \in Tenants /\ Exists(alias'[a].tenant) /\ alias'[a].to \in Slugs
  BY <1>2, <1>4, <1>7 DEF SlugsInv, HasAlias
<1>14. \A a \in Slugs : a # old /\ HasAlias(a)' =>
         /\ HasAlias(a) /\ alias'[a] = alias[a] /\ alias[a].tenant \in Tenants
         /\ a # s /\ alias[a].to \in Slugs
  BY <1>2, <1>7 DEF SlugsInv, HasAlias
<1>15. AliasesLeadHome'
  <2> SUFFICES ASSUME NEW a \in Slugs, HasAlias(a)'
               PROVE  /\ tenant'[alias'[a].tenant].slug # a
                      /\ \/ tenant'[alias'[a].tenant].slug = alias'[a].to
                         \/ alias'[alias'[a].to].tenant = alias'[a].tenant
    BY DEF AliasesLeadHome
  <2>1. CASE a = old
    BY <1>2, <1>4, <1>6, <1>7, <2>1
  <2>2. CASE a # old
    <3>1. /\ HasAlias(a) /\ alias'[a] = alias[a] /\ alias[a].tenant \in Tenants
          /\ a # s /\ alias[a].to \in Slugs
      BY <1>14, <2>2
    <3>2. /\ tenant[alias[a].tenant].slug # a
          /\ \/ tenant[alias[a].tenant].slug = alias[a].to
             \/ alias[alias[a].to].tenant = alias[a].tenant
      BY <3>1 DEF SlugsInv, AliasesLeadHome
    <3>3. alias[a].to = old => alias[alias[a].to].tenant # alias[a].tenant
      BY <1>2, <3>1, TenancyAssumption DEF NoAlias
    <3>4. CASE alias[a].tenant = t
      <4>1. tenant'[t].slug # a
        BY <1>6, <3>1
      <4>2. alias[a].to = old => alias'[alias[a].to].tenant = t
        BY <1>4, <1>7
      <4>3. alias[a].to # old => alias'[alias[a].to].tenant = t
        BY <1>7, <3>1, <3>2, <3>4 DEF old
      <4> QED BY <3>1, <3>4, <4>1, <4>2, <4>3
    <3>5. CASE alias[a].tenant # t
      BY <1>6, <1>7, <3>1, <3>2, <3>3, <3>5
    <3> QED BY <3>4, <3>5
  <2> QED BY <2>1, <2>2
<1> QED BY <1>8, <1>9, <1>11, <1>12, <1>13, <1>15 DEF SlugsInv

\* An alias that expires still leads its tenant home.
LEMMA AliasExpiresInv ==
  ASSUME SlugsInv, NEW s \in Slugs, AliasExpires(s)
  PROVE  SlugsInv'
<1>1. /\ alias \in [Slugs -> AliasRow] /\ UNCHANGED <<tenant, domain>> /\ alias[s].live
      /\ alias' = [alias EXCEPT ![s].live = FALSE]
  BY DEF SlugsInv, TenancyTypeOK, AliasExpires
<1>2. alias[s] # NoAlias /\ [alias[s] EXCEPT !.live = FALSE] \in AliasRow
  <2>1. alias[s] \in AliasRow /\ alias[s] # NoAlias
    BY <1>1 DEF NoAlias
  <2> QED BY <2>1 DEF AliasRow
<1>3. alias'[s].tenant = alias[s].tenant /\ alias'[s].to = alias[s].to
  BY <1>1 DEF AliasRow
<1>4. \A a \in Slugs : a # s => alias'[a] = alias[a]
  BY <1>1
<1>5. \A a \in Slugs : /\ HasAlias(a)' => HasAlias(a)
                       /\ alias'[a].tenant = alias[a].tenant /\ alias'[a].to = alias[a].to
  BY <1>2, <1>3, <1>4 DEF HasAlias
<1>6. TenancyTypeOK'
  BY <1>1, <1>2 DEF SlugsInv, TenancyTypeOK
<1>7. AliasesLeadHome'
  BY <1>1, <1>5 DEF SlugsInv, AliasesLeadHome
<1> QED BY <1>1, <1>5, <1>6, <1>7 DEF SlugsInv, Exists

\* A tenant that exists keeps existing, under its slug.
LEMMA UpdateTenantStatusInv ==
  ASSUME SlugsInv, NEW t \in Tenants, NEW status \in TenantStatuses, UpdateTenantStatus(t, status)
  PROVE  SlugsInv'
<1>1. /\ tenant \in [Tenants -> SlugRow] /\ UNCHANGED <<alias, domain>> /\ Exists(t)
      /\ tenant' = [tenant EXCEPT ![t].status = status] /\ status # "none"
  BY DEF SlugsInv, TenancyTypeOK, UpdateTenantStatus
<1>2. [tenant[t] EXCEPT !.status = status] \in SlugRow
  BY <1>1 DEF SlugRow
<1>3. \A u \in Tenants : tenant'[u].slug = tenant[u].slug /\ (Exists(u)' <=> Exists(u))
  BY <1>1 DEF SlugRow, Exists
<1>4. TenancyTypeOK'
  BY <1>1, <1>2 DEF SlugsInv, TenancyTypeOK
<1>5. \A s \in Slugs : HasAlias(s)' <=> HasAlias(s)
  BY <1>1 DEF HasAlias
<1>6. AliasesLeadHome'
  BY <1>1, <1>3, <1>5 DEF SlugsInv, AliasesLeadHome
<1> QED BY <1>1, <1>3, <1>4, <1>5, <1>6 DEF SlugsInv

\* Every step keeps what the slugs need.
LEMMA SlugsStepInv ==
  ASSUME SlugsInv, Next
  PROVE  SlugsInv'
<1>1. CASE UNCHANGED <<tenant, alias>> /\ (NextDomains \/ NextCertificates \/ UNCHANGED domain)
  BY <1>1, DomainTyped, SlugsQuiet DEF SlugsInv, TenancyTypeOK
<1> QED
  BY <1>1, SlugSteps, CreateTenantInv, ChangeTenantSlugInv, AliasExpiresInv, UpdateTenantStatusInv

\* No tenant exists at first, or those of Provisioned do.
LEMMA InitSlugsInv ==
  ASSUME Init
  PROVE  SlugsInv
<1>1. alias = [s \in Slugs |-> NoAlias] /\ \A s \in Slugs : ~HasAlias(s)
  BY DEF Init, InitTenancy, Provisioned, HasAlias
<1>2. NoAlias \in AliasRow /\ NoDomain \in DomainRow
  BY DEF NoAlias, AliasRow, NoDomain, DomainRow, TLSStatuses
<1>3. domain \in [Hosts -> DomainRow]
  <2>1. \A h \in Hosts : Verified([NoDomain EXCEPT !.tenant = HostOf(h)]) \in DomainRow
    <3> SUFFICES ASSUME NEW h \in Hosts
                 PROVE  Verified([NoDomain EXCEPT !.tenant = HostOf(h)]) \in DomainRow
      OBVIOUS
    <3>1. [NoDomain EXCEPT !.tenant = HostOf(h)] \in DomainRow
      BY ControlPlaneAssumption DEF NoDomain, DomainRow, TLSStatuses
    <3>2. \A d \in DomainRow : Verified(d) \in DomainRow
      BY DEF Verified, DomainRow, TLSStatuses
    <3> QED BY <3>1, <3>2
  <2> QED BY <1>2, <2>1, ZenonT(60) DEF Init, InitTenancy, Provisioned
<1>4. CASE InitTenancy
  <2>1. tenant = [t \in Tenants |-> [status |-> "none", slug |-> NoSlug]]
    BY <1>4 DEF InitTenancy
  <2>2. tenant \in [Tenants -> SlugRow] /\ \A t \in Tenants : ~Exists(t) /\ tenant[t].slug = NoSlug
    BY <2>1 DEF SlugRow, TenantStatuses, Exists
  <2> QED BY <1>1, <1>2, <1>3, <2>2 DEF SlugsInv, TenancyTypeOK, AliasesLeadHome
<1>5. CASE Provisioned
  <2>1. tenant = [t \in Tenants |-> [status |-> "active", slug |-> Slug(t)]]
    BY <1>5 DEF Provisioned
  <2>2. \A t \in Tenants : Slug(t) \in Slugs /\ Slug(t) # NoSlug
    BY ControlPlaneAssumption, TenancyAssumption
  <2>3. tenant \in [Tenants -> SlugRow] /\ \A t \in Tenants : Exists(t) /\ tenant[t].slug = Slug(t)
    BY <2>1, <2>2 DEF SlugRow, TenantStatuses, Exists
  <2> QED
    BY <1>1, <1>2, <1>3, <2>2, <2>3, ControlPlaneAssumption
    DEF SlugsInv, TenancyTypeOK, AliasesLeadHome
<1> QED BY <1>4, <1>5 DEF Init

\* However often tenants are made, renamed and suspended, an old slug leads to
\* the tenant that had it (slugs.go), and two tenants never share a slug.
THEOREM SlugsCorrect == Spec => []SlugsInv
<1>1. SlugsInv /\ [Next]_cpVars => SlugsInv'
  <2> SUFFICES ASSUME SlugsInv, [Next]_cpVars PROVE SlugsInv'
    OBVIOUS
  <2>1. CASE UNCHANGED cpVars
    BY <2>1, SlugsQuiet DEF cpVars, tenancyVars, SlugsInv, TenancyTypeOK
  <2> QED BY <2>1, SlugsStepInv
<1> QED BY <1>1, InitSlugsInv, PTL DEF Spec

\* Every old slug leads its tenant home.
THEOREM AliasesCorrect == Spec => []AliasesLeadHome
<1>1. SlugsInv => AliasesLeadHome
  BY DEF SlugsInv
<1> QED BY <1>1, SlugsCorrect, PTL

-----------------------------------------------------------------------------
(* Roles *)

\* Memberships and assignments hold roles, each of the right tenant.
RolesInv ==
  /\ member \in [Tenants -> [Users -> SUBSET RoleIds]] /\ platform \in [Users -> SUBSET RoleIds]
  /\ RolesStayHome

\* The roles of a membership are written only after those of its tenant.
LEMMA MemberWritten ==
  ASSUME RolesInv, NEW t, NEW u, NEW R \in SUBSET RolesOf(t), UNCHANGED platform,
         member' = [member EXCEPT ![t][u] = R]
  PROVE  RolesInv'
<1>1. R \in SUBSET RoleIds
  BY DEF RolesOf
<1>2. member' \in [Tenants -> [Users -> SUBSET RoleIds]]
  BY <1>1 DEF RolesInv
<1>3. \A s \in Tenants, v \in Users :
        member'[s][v] = IF s = t /\ v = u THEN R ELSE member[s][v]
  BY DEF RolesInv
<1> QED BY <1>2, <1>3 DEF RolesInv, RolesStayHome

\* Steps that write neither.
LEMMA RolesQuiet ==
  ASSUME RolesInv, UNCHANGED <<member, platform>>
  PROVE  RolesInv'
BY DEF RolesInv, RolesStayHome

\* The owner's role is one of the tenant's, and the seeded platform role one of
\* the platform's.
LEMMA SeededRoles ==
  (\A t \in Tenants : Owner(t) \in RolesOf(t)) /\ <<Platform, "support">> \in RolesOf(Platform)
BY DEF Owner, RolesOf, RoleIds, RoleNames

\* Every step keeps the roles at home.
LEMMA RolesStepInv ==
  ASSUME RolesInv, Next
  PROVE  RolesInv'
<1>1. ASSUME NEW t \in Tenants, NEW u \in Users, NEW R \in SUBSET RoleIds,
             CreateMembership(t, u, R) \/ ReplaceMembershipRoles(t, u, R)
      PROVE  RolesInv'
  <2>1. R \in SUBSET RolesOf(t)
    BY <1>1 DEF CreateMembership, ReplaceMembershipRoles, ValidRoles
  <2>2. UNCHANGED platform /\ member' = [member EXCEPT ![t][u] = R]
    BY <1>1 DEF CreateMembership, ReplaceMembershipRoles
  <2> QED BY <2>1, <2>2, MemberWritten
<1>2. ASSUME NEW t \in Tenants, NEW u \in Users, ResetTenantOwner(t, u)
      PROVE  RolesInv'
  <2> DEFINE R == member[t][u] \cup {Owner(t)}
  <2>1. R \in SUBSET RolesOf(t)
    BY SeededRoles DEF RolesInv, RolesStayHome
  <2>2. UNCHANGED platform /\ member' = [member EXCEPT ![t][u] = R]
    BY <1>2 DEF ResetTenantOwner
  <2> HIDE DEF R
  <2> QED BY <2>1, <2>2, MemberWritten
<1>3. ASSUME NEW u \in Users, NEW r, AssignPlatformRole(u, r) \/ RevokePlatformRole(u, r)
      PROVE  RolesInv'
  <2>1. /\ UNCHANGED member /\ platform \in [Users -> SUBSET RoleIds]
        /\ \/ r \in RoleIds /\ r[1] = Platform /\ platform' = [platform EXCEPT ![u] = @ \cup {r}]
           \/ platform' = [platform EXCEPT ![u] = @ \ {r}]
    BY <1>3 DEF AssignPlatformRole, RevokePlatformRole, PlatformRole, RolesInv
  <2>2. platform' \in [Users -> SUBSET RoleIds]
    BY <2>1
  <2>3. \A v \in Users : platform'[v] \subseteq platform[v] \cup RolesOf(Platform)
    BY <2>1 DEF RolesOf
  <2> QED BY <2>1, <2>2, <2>3 DEF RolesInv, RolesStayHome
<1>4. CASE Access(NextRoles)
  <2>1. CASE \E t \in Tenants, r \in RoleIds : DenyRolePermission(t, r) \/ AllowRolePermission(t, r)
    BY <2>1, RolesQuiet DEF DenyRolePermission, AllowRolePermission
  <2>2. CASE CreateIncident \/ ResolveIncident
    BY <2>2, RolesQuiet DEF CreateIncident, ResolveIncident
  <2> QED BY <1>1, <1>2, <1>3, <1>4, <2>1, <2>2 DEF Access, NextRoles
<1>5. CASE Access(NextRecovery)
  BY <1>5, RolesQuiet
  DEF Access, NextRecovery, EnableTOTP, DisableTOTP, MarkUsed, RecencyPasses, SetMFA,
      GenerateRecoveryCodes, RecoveryStart, RecoveryLock, RecoveryCommit, RecoveryRollback
<1>6. CASE Access(NextRequests)
  BY <1>6, RolesQuiet, ZenonT(60)
  DEF Access, NextRequests, StartImpersonation, EndImpersonation, ApproveImpersonation, ReqHost,
      ReqGrant, ReqMember, ReqDenied, ReqGranted, ReqEnd, Step, CreateAPIKey, RevokeAPIKey
<1>7. CASE Meanwhile
  <2>1. CASE \E t \in Tenants : Access(ReplaceMembershipRoles(t, Admin, {<<t, "Billing Manager">>}))
    <3>1. PICK t \in Tenants : ReplaceMembershipRoles(t, Admin, {<<t, "Billing Manager">>})
      BY <2>1 DEF Access
    <3>2. {<<t, "Billing Manager">>} \in SUBSET RoleIds
      <4>1. <<t, "Billing Manager">> \in RoleIds
        BY DEF RoleIds, RoleNames
      <4> QED BY <4>1
    <3> QED BY <1>1, <3>1, <3>2, ControlPlaneAssumption
  <2>2. CASE \E u \in Users, r \in RolesOf(Platform) : Access(AssignPlatformRole(u, r))
    BY <1>3, <2>2 DEF Access
  <2>3. CASE UNCHANGED <<member, platform>>
    BY <2>3, RolesQuiet
  <2> QED BY <1>7, <2>1, <2>2, <2>3
    DEF Meanwhile, Tenancy, Access, accessVars, MarkUsed, SetMFA, DenyRolePermission
<1>8. CASE Both(RolePlans)
  BY <1>8, RolesQuiet DEF Both, RolePlans, RolePlan, CreateTenantRole, accessVars
<1>9. CASE UNCHANGED accessVars
  BY <1>9, RolesQuiet DEF accessVars
<1> QED BY <1>4, <1>5, <1>6, <1>7, <1>8, <1>9 DEF Next, Tenancy

\* Roles stay in the tenant they were made in, for any number of tenants and
\* users and whatever roles an endpoint is handed.
THEOREM RolesCorrect == Spec => []RolesInv
<1>1. Init => RolesInv
  <2> SUFFICES ASSUME Init PROVE RolesInv
    OBVIOUS
  <2>1. PICK owners :
          /\ member = [t \in Tenants |-> [u \in Users |-> IF u \in owners THEN {Owner(t)} ELSE {}]]
          /\ platform = [u \in Users |-> IF u = Admin THEN {<<Platform, "support">>} ELSE {}]
    BY DEF Init, InitAccess
  <2>2. \A t : RolesOf(t) \subseteq RoleIds
    BY DEF RolesOf
  <2>3. \A t \in Tenants, u \in Users : member[t][u] \subseteq RolesOf(t)
    BY <2>1, SeededRoles
  <2>4. \A u \in Users : platform[u] \subseteq RolesOf(Platform)
    BY <2>1, SeededRoles
  <2>5. member \in [Tenants -> [Users -> SUBSET RoleIds]]
    BY <2>1, <2>2, SeededRoles
  <2>6. platform \in [Users -> SUBSET RoleIds]
    BY <2>1, <2>2, SeededRoles
  <2> QED BY <2>3, <2>4, <2>5, <2>6 DEF RolesInv, RolesStayHome
<1>2. RolesInv /\ [Next]_cpVars => RolesInv'
  BY RolesStepInv, RolesQuiet DEF cpVars, accessVars
<1> QED BY <1>1, <1>2, PTL DEF Spec

\* A membership holds roles of its tenant only, and an assignment platform roles.
THEOREM RolesHome == Spec => []RolesStayHome
<1>1. RolesInv => RolesStayHome
  BY DEF RolesInv
<1> QED BY <1>1, RolesCorrect, PTL

-----------------------------------------------------------------------------
(* Recovery codes *)

LoginRow == [pc : {Idle, "asked", "locked", "in"}, user : Users \cup {NoUser},
             code : Codes \cup {Idle}]
CodeStates == {"none", "unused", "used", "deleted"}

\* A login that is in has used its code; one that locked the codes of its user
\* has one that is unused, and is alone.
LoginsInv ==
  /\ codes \in [Users -> [Codes -> CodeStates]] /\ login \in [Logins -> LoginRow]
  /\ \A r \in Logins : login[r].pc # Idle => login[r].user \in Users /\ login[r].code \in Codes
  /\ \A r \in Logins : login[r].pc = "in" => codes[login[r].user][login[r].code] = "used"
  /\ \A r \in Logins : login[r].pc = "locked" => codes[login[r].user][login[r].code] = "unused"
  /\ \A q, r \in Logins :
       q # r /\ login[q].pc = "locked" /\ login[r].pc = "locked" => login[q].user # login[r].user
  /\ CodesLogInOnce

\* Steps that leave codes and logins alone.
LEMMA LoginsQuiet ==
  ASSUME LoginsInv, UNCHANGED <<codes, login>>
  PROVE  LoginsInv'
BY DEF LoginsInv, CodesLogInOnce

\* New codes are not those that were used, and wait for a login that holds the lock.
LEMMA GenerateInv ==
  ASSUME LoginsInv, NEW u \in Users, NEW new \in SUBSET Codes, GenerateRecoveryCodes(u, new)
  PROVE  LoginsInv'
<1> DEFINE after == [c \in Codes |-> IF c \in new THEN "unused"
                       ELSE IF codes[u][c] = "unused" THEN "deleted" ELSE codes[u][c]]
<1>1. /\ codes \in [Users -> [Codes -> CodeStates]] /\ UNCHANGED login
      /\ codes' = [codes EXCEPT ![u] = after]
      /\ \A c \in new : codes[u][c] = "none"
      /\ \A r \in Logins : login[r].user # u \/ login[r].pc # "locked"
  BY DEF LoginsInv, GenerateRecoveryCodes
<1>2. after \in [Codes -> CodeStates]
  <2>1. \A c \in Codes : codes[u][c] \in CodeStates
    BY <1>1
  <2> QED BY <2>1 DEF CodeStates
<1>3. \A c \in Codes : codes[u][c] = "used" => after[c] = "used"
  BY <1>1
<1> HIDE DEF after
<1>4. codes' \in [Users -> [Codes -> CodeStates]]
  BY <1>1, <1>2
<1>5. codes'[u] = after /\ \A v \in Users : v # u => codes'[v] = codes[v]
  BY <1>1
<1>6. \A r \in Logins : login[r].pc = "in" => codes'[login[r].user][login[r].code] = "used"
  BY <1>3, <1>5 DEF LoginsInv, Idle
<1>7. \A r \in Logins : login[r].pc = "locked" => codes'[login[r].user][login[r].code] = "unused"
  BY <1>1, <1>5 DEF LoginsInv, Idle
<1> QED BY <1>1, <1>4, <1>6, <1>7 DEF LoginsInv, CodesLogInOnce

\* A login that starts, or ends without the code.
LEMMA LoginMoves ==
  ASSUME LoginsInv, NEW r \in Logins, NEW q \in LoginRow, UNCHANGED codes,
         login' = [login EXCEPT ![r] = q], q.pc \in {Idle, "asked"},
         q.pc # Idle => q.user \in Users /\ q.code \in Codes
  PROVE  LoginsInv'
<1>1. login' \in [Logins -> LoginRow]
  BY DEF LoginsInv
<1>2. login'[r] = q /\ \A p \in Logins : p # r => login'[p] = login[p]
  BY DEF LoginsInv
<1>3. q.pc # "in" /\ q.pc # "locked"
  BY DEF Idle
<1>4. CodesLogInOnce'
  BY <1>2, <1>3 DEF LoginsInv, CodesLogInOnce
<1> QED BY <1>1, <1>2, <1>3, <1>4 DEF LoginsInv

\* The lock is free, and the code is unused as it is read under the lock.
LEMMA RecoveryLockInv ==
  ASSUME LoginsInv, NEW r \in Logins, RecoveryLock(r)
  PROVE  LoginsInv'
<1> DEFINE q == login[r]
<1>1. /\ login \in [Logins -> LoginRow] /\ q \in LoginRow /\ UNCHANGED codes
      /\ q.pc = "asked" /\ q.user \in Users /\ q.code \in Codes
      /\ \A p \in Logins : ~(login[p].pc = "locked" /\ login[p].user = q.user)
  BY DEF LoginsInv, RecoveryLock, LockFree, Idle
<1>2. NoLogin \in LoginRow /\ NoLogin.pc = Idle
  BY DEF NoLogin, LoginRow
<1>3. CASE codes[q.user][q.code] # "unused"
  <2>1. login' = [login EXCEPT ![r] = NoLogin]
    BY <1>3 DEF RecoveryLock
  <2> QED BY <1>1, <1>2, <2>1, LoginMoves
<1>4. CASE codes[q.user][q.code] = "unused"
  <2> DEFINE p == [q EXCEPT !.pc = "locked"]
  <2>1. login' = [login EXCEPT ![r] = p]
    BY <1>4 DEF RecoveryLock
  <2>2. p \in LoginRow /\ p.pc = "locked" /\ p.user = q.user /\ p.code = q.code
    BY <1>1 DEF LoginRow
  <2> HIDE DEF p, q
  <2>3. login'[r] = p /\ \A s \in Logins : s # r => login'[s] = login[s]
    BY <1>1, <2>1
  <2>4. login' \in [Logins -> LoginRow]
    BY <1>1, <2>1, <2>2
  <2>5. CodesLogInOnce'
    BY <2>2, <2>3 DEF LoginsInv, CodesLogInOnce
  <2> QED BY <1>1, <1>4, <2>2, <2>3, <2>4, <2>5, SMTT(30) DEF LoginsInv
<1> QED BY <1>3, <1>4

\* Whoever logs in uses up a code that nobody used before.
LEMMA RecoveryCommitInv ==
  ASSUME LoginsInv, NEW r \in Logins, RecoveryCommit(r)
  PROVE  LoginsInv'
<1> DEFINE q == login[r]
           p == [q EXCEPT !.pc = "in"]
<1>1. /\ login \in [Logins -> LoginRow] /\ q \in LoginRow
      /\ codes \in [Users -> [Codes -> CodeStates]]
      /\ q.pc = "locked" /\ q.user \in Users /\ q.code \in Codes
      /\ codes[q.user][q.code] = "unused"
  BY DEF LoginsInv, RecoveryCommit, Idle
<1>2. /\ codes' = [codes EXCEPT ![q.user][q.code] = "used"]
      /\ login' = [login EXCEPT ![r] = p]
  BY DEF RecoveryCommit
<1>3. p \in LoginRow /\ p.pc = "in" /\ p.user = q.user /\ p.code = q.code
  BY <1>1 DEF LoginRow
<1> HIDE DEF p, q
<1>4. login'[r] = p /\ \A s \in Logins : s # r => login'[s] = login[s]
  BY <1>1, <1>2
<1>5. login' \in [Logins -> LoginRow]
  BY <1>1, <1>2, <1>3
<1>6. codes' \in [Users -> [Codes -> CodeStates]]
  BY <1>1, <1>2 DEF CodeStates
<1>7. /\ codes'[q.user][q.code] = "used"
      /\ \A u \in Users, c \in Codes : u # q.user \/ c # q.code => codes'[u][c] = codes[u][c]
  BY <1>1, <1>2
<1>8. \A s \in Logins : s # r /\ login[s].pc = "locked" => login[s].user # q.user
  BY <1>1 DEF LoginsInv, q
<1>9. \A s \in Logins : s # r /\ login[s].pc = "in" =>
        login[s].user # q.user \/ login[s].code # q.code
  BY <1>1 DEF LoginsInv
<1>10. \A s \in Logins : login'[s].pc = "in" => codes'[login'[s].user][login'[s].code] = "used"
  <2>1. ASSUME NEW s \in Logins, s # r, login'[s].pc = "in"
        PROVE  codes'[login'[s].user][login'[s].code] = "used"
    <3>1. login'[s] = login[s] /\ login[s].user \in Users /\ login[s].code \in Codes
          /\ codes[login[s].user][login[s].code] = "used"
      BY <1>4, <2>1 DEF LoginsInv, Idle
    <3> QED BY <1>7, <3>1
  <2> QED BY <1>3, <1>4, <1>7, <2>1
<1>11. \A s \in Logins :
         login'[s].pc = "locked" => codes'[login'[s].user][login'[s].code] = "unused"
  <2> SUFFICES ASSUME NEW s \in Logins, login'[s].pc = "locked"
               PROVE  codes'[login'[s].user][login'[s].code] = "unused"
    OBVIOUS
  <2>1. s # r /\ login'[s] = login[s]
    BY <1>3, <1>4
  <2>2. login[s].user \in Users /\ login[s].code \in Codes /\ login[s].user # q.user
        /\ codes[login[s].user][login[s].code] = "unused"
    BY <1>8, <2>1 DEF LoginsInv, Idle
  <2> QED BY <1>7, <2>1, <2>2
<1>12. \A s \in Logins : login'[s].pc # Idle => login'[s].user \in Users /\ login'[s].code \in Codes
  BY <1>1, <1>3, <1>4 DEF LoginsInv
<1>13. \A s, t \in Logins :
         s # t /\ login'[s].pc = "locked" /\ login'[t].pc = "locked" => login'[s].user # login'[t].user
  BY <1>3, <1>4 DEF LoginsInv
<1>14. CodesLogInOnce'
  BY <1>3, <1>4, <1>9 DEF LoginsInv, CodesLogInOnce
<1> QED BY <1>5, <1>6, <1>10, <1>11, <1>12, <1>13, <1>14 DEF LoginsInv

\* Every step of the recovery of an account.
LEMMA RecoveryStepInv ==
  ASSUME LoginsInv, NextRecovery
  PROVE  LoginsInv'
<1>1. ASSUME NEW r \in Logins, NEW u \in Users, NEW c \in Codes, RecoveryStart(r, u, c)
      PROVE  LoginsInv'
  <2> DEFINE q == [pc |-> "asked", user |-> u, code |-> c]
  <2>1. q \in LoginRow /\ q.pc = "asked" /\ q.user = u /\ q.code = c
    BY DEF LoginRow
  <2>2. UNCHANGED codes /\ login' = [login EXCEPT ![r] = q]
    BY <1>1 DEF RecoveryStart
  <2> HIDE DEF q
  <2> QED BY <2>1, <2>2, LoginMoves
<1>2. ASSUME NEW r \in Logins, RecoveryRollback(r) PROVE LoginsInv'
  <2>1. NoLogin \in LoginRow /\ NoLogin.pc = Idle
    BY DEF NoLogin, LoginRow
  <2>2. UNCHANGED codes /\ login' = [login EXCEPT ![r] = NoLogin]
    BY <1>2 DEF RecoveryRollback
  <2> QED BY <2>1, <2>2, LoginMoves
<1>3. ASSUME NEW u \in Users, EnableTOTP(u) \/ DisableTOTP(u) \/ MarkUsed(u) \/ RecencyPasses(u)
      PROVE  LoginsInv'
  BY <1>3, LoginsQuiet DEF EnableTOTP, DisableTOTP, MarkUsed, RecencyPasses, SetMFA
<1> QED
  BY <1>1, <1>2, <1>3, GenerateInv, RecoveryLockInv, RecoveryCommitInv DEF NextRecovery

\* What the other parts do leaves codes and logins alone.
LEMMA OtherPartsKeepLogins ==
  ASSUME Next
  PROVE  NextRecovery \/ UNCHANGED <<codes, login>>
<1>1. CASE Access(NextRoles)
  BY <1>1
  DEF Access, NextRoles, CreateMembership, ReplaceMembershipRoles, ResetTenantOwner,
      DenyRolePermission, AllowRolePermission, AssignPlatformRole, RevokePlatformRole,
      CreateIncident, ResolveIncident
<1>2. CASE Access(NextRequests)
  BY <1>2, ZenonT(60)
  DEF Access, NextRequests, StartImpersonation, EndImpersonation, ApproveImpersonation, ReqHost,
      ReqGrant, ReqMember, ReqDenied, ReqGranted, ReqEnd, Step, CreateAPIKey, RevokeAPIKey
<1>3. CASE Meanwhile
  BY <1>3
  DEF Meanwhile, Tenancy, Access, accessVars, MarkUsed, SetMFA, DenyRolePermission,
      ReplaceMembershipRoles, AssignPlatformRole
<1>4. CASE Both(RolePlans)
  BY <1>4 DEF Both, RolePlans, RolePlan, CreateTenantRole, accessVars
<1>5. CASE UNCHANGED accessVars
  BY <1>5 DEF accessVars
<1> QED BY <1>1, <1>2, <1>3, <1>4, <1>5 DEF Next, Tenancy, Access

\* A login that is in has used up its code, for any number of users, codes and
\* logins at once.
THEOREM LoginsCorrect == Spec => []LoginsInv
<1>1. Init => LoginsInv
  <2> SUFFICES ASSUME Init PROVE LoginsInv
    OBVIOUS
  <2>1. /\ codes = [u \in Users |-> [c \in Codes |-> "none"]]
        /\ login = [r \in Logins |-> NoLogin]
    BY DEF Init, InitAccess
  <2>2. NoLogin \in LoginRow /\ NoLogin.pc = Idle
    BY DEF NoLogin, LoginRow
  <2> QED BY <2>1, <2>2 DEF LoginsInv, CodesLogInOnce, CodeStates, Idle
<1>2. LoginsInv /\ [Next]_cpVars => LoginsInv'
  BY RecoveryStepInv, OtherPartsKeepLogins, LoginsQuiet DEF cpVars, accessVars
<1> QED BY <1>1, <1>2, PTL DEF Spec

\* Two logins never use the same recovery code.
THEOREM CodesOnce == Spec => []CodesLogInOnce
<1>1. LoginsInv => CodesLogInOnce
  BY DEF LoginsInv
<1> QED BY <1>1, LoginsCorrect, PTL

-----------------------------------------------------------------------------
(* Requests under a grant *)

GrantRow == [tenant : Tenants \cup {NoTenant}, actor : Users \cup {NoUser},
             target : Users \cup {NoUser}, needs : BOOLEAN, approver : Users \cup {NoUser},
             live : BOOLEAN]
ReqRow == [pc : {Idle, "unscoped", "grant", "member", "denied", "granted", "served"},
           tenant : Tenants \cup {NoTenant}, user : Users \cup {NoUser},
           grant : Grants \cup {NoGrant}, as : Users \cup {NoUser}]

\* Grant g lets request q act as somebody else.
Under(q, g) ==
  /\ g.tenant = q.tenant /\ g.actor = q.user /\ g.target = q.as
  /\ g.needs => g.approver \in Users \ {q.user}

\* From the check of its grant on, a request that acts as somebody else is
\* under that grant, which may be over by then but does not change.
RequestsInv ==
  /\ grant \in [Grants -> GrantRow] /\ req \in [Requests -> ReqRow]
  /\ \A g \in Grants : grant[g].approver \in Users =>
       grant[g].needs /\ grant[g].approver # grant[g].actor
  /\ \A r \in Requests :
       req[r].pc # Idle \/ req[r].as # req[r].user => req[r].user \in Users
  /\ \A r \in Requests : req[r].pc = "grant" => req[r].grant \in Grants
  /\ \A r \in Requests : req[r].as # req[r].user =>
       req[r].grant \in Grants /\ Under(req[r], grant[req[r].grant])

\* Steps that leave requests and grants alone.
LEMMA RequestsQuiet ==
  ASSUME RequestsInv, UNCHANGED <<grant, req>>
  PROVE  RequestsInv'
BY DEF RequestsInv, Under

\* The host of a request selects a tenant.
LEMMA HostSelectsTenant ==
  ASSUME TenancyTypeOK, NEW host \in Slugs \cup Hosts
  PROVE  ResolveMailviewTenantHost(host) \in Tenants \cup {NoTenant}
<1>1. CASE host \in Slugs
  <2>1. HasSlug(host) => ResolveTenantSlug(host) \in Tenants
    BY DEF HasSlug, ResolveTenantSlug
  <2>2. alias[host].tenant \in Tenants \cup {NoTenant}
    BY <1>1 DEF TenancyTypeOK, AliasRow
  <2>3. ~HasSlug(host) => ResolveTenantSlug(host) \in Tenants \cup {NoTenant}
    BY <2>2 DEF ResolveTenantSlug
  <2> QED BY <1>1, <2>1, <2>3 DEF ResolveMailviewTenantHost
<1>2. CASE host \notin Slugs
  <2>1. domain[host].tenant \in Tenants \cup {NoTenant}
    BY <1>2 DEF TenancyTypeOK, DomainRow
  <2> QED BY <1>2, <2>1 DEF ResolveMailviewTenantHost, GetTenantByVerifiedHostname
<1> QED BY <1>1, <1>2

\* A step of one request to row q, which is under its grant if it acts as
\* somebody else.
LEMMA ReqMoves ==
  ASSUME RequestsInv, NEW r \in Requests, NEW q \in ReqRow, UNCHANGED grant,
         req' = [req EXCEPT ![r] = q],
         q.pc # Idle \/ q.as # q.user => q.user \in Users,
         q.pc = "grant" => q.grant \in Grants,
         q.as # q.user => q.grant \in Grants /\ Under(q, grant[q.grant])
  PROVE  RequestsInv'
<1>1. req' \in [Requests -> ReqRow]
  BY DEF RequestsInv
<1>2. req'[r] = q /\ \A p \in Requests : p # r => req'[p] = req[p]
  BY DEF RequestsInv
<1>3. \A p \in Requests : req'[p].as # req'[p].user =>
        req'[p].grant \in Grants /\ Under(req'[p], grant[req'[p].grant])
  BY <1>2 DEF RequestsInv
<1>4. \A p \in Requests : req'[p].as # req'[p].user =>
        req'[p].grant \in Grants /\ Under(req'[p], grant'[req'[p].grant])
  BY <1>3
<1> QED BY <1>1, <1>2, <1>4 DEF RequestsInv, Under

\* A request that ends.
LEMMA ReqEnds ==
  ASSUME RequestsInv, NEW r \in Requests, UNCHANGED grant, req' = [req EXCEPT ![r] = NoReq]
  PROVE  RequestsInv'
<1>1. NoReq \in ReqRow /\ NoReq.pc = Idle /\ NoReq.as = NoReq.user
  BY DEF NoReq, ReqRow
<1>2. NoReq.pc # "grant"
  BY <1>1 DEF Idle
<1> QED BY <1>1, <1>2, ReqMoves

\* A request that goes on to the next query.
LEMMA ReqGoesOn ==
  ASSUME RequestsInv, NEW r \in Requests, NEW pc \in {"denied", "granted", "served"},
         UNCHANGED grant, req[r].pc # Idle, req' = [req EXCEPT ![r] = [req[r] EXCEPT !.pc = pc]]
  PROVE  RequestsInv'
<1> DEFINE q == [req[r] EXCEPT !.pc = pc]
<1>1. req[r] \in ReqRow
  BY DEF RequestsInv
<1>2. /\ q \in ReqRow /\ q.pc = pc /\ q.user = req[r].user /\ q.as = req[r].as
      /\ q.tenant = req[r].tenant /\ q.grant = req[r].grant
  BY <1>1 DEF ReqRow
<1> HIDE DEF q
<1>3. q.user \in Users /\ q.pc # "grant"
  BY <1>2 DEF RequestsInv
<1>4. q.as # q.user => q.grant \in Grants /\ Under(q, grant[q.grant])
  BY <1>2 DEF RequestsInv, Under
<1>5. req' = [req EXCEPT ![r] = q]
  BY DEF q
<1> QED BY <1>2, <1>3, <1>4, <1>5, ReqMoves

\* The host selects the tenant, and the user acts as itself yet.
LEMMA ReqHostInv ==
  ASSUME TenancyTypeOK, RequestsInv, NEW r \in Requests, NEW host \in Slugs \cup Hosts,
         NEW u \in Users, NEW g \in Grants \cup {NoGrant}, ReqHost(r, host, u, g)
  PROVE  RequestsInv'
<1> DEFINE t == ResolveMailviewTenantHost(host)
           q == [pc |-> IF RedirectCanonicalTenantHost(host, t) THEN "unscoped"
                        ELSE IF g # NoGrant THEN "grant" ELSE "member",
                 tenant |-> t, user |-> u, grant |-> g, as |-> u]
<1>1. UNCHANGED grant /\ req' = [req EXCEPT ![r] = q]
  BY DEF ReqHost, Step
<1>2. t \in Tenants \cup {NoTenant}
  BY HostSelectsTenant
<1> HIDE DEF t
<1>3. q \in ReqRow /\ q.user = u /\ q.as = u /\ q.grant = g /\ (q.pc = "grant" => g # NoGrant)
  BY <1>2 DEF ReqRow
<1> HIDE DEF q
<1> QED BY <1>1, <1>3, ReqMoves

\* The grant is the actor's, live, approved if it has to be, and of the tenant.
LEMMA ReqGrantInv ==
  ASSUME RequestsInv, NEW r \in Requests, ReqGrant(r)
  PROVE  RequestsInv'
<1> DEFINE p == req[r]
           q == [p EXCEPT !.pc = "member", !.as = grant[p.grant].target]
<1>1. /\ p \in ReqRow /\ p.pc = "grant" /\ p.user \in Users /\ p.grant \in Grants
      /\ grant[p.grant] \in GrantRow /\ UNCHANGED grant
  BY DEF RequestsInv, ReqGrant, Step, Idle
<1>2. CASE ValidGrant(p.grant, p.user) /\ CoversTenant(p.grant, p.tenant)
  <2>1. req' = [req EXCEPT ![r] = q]
    BY <1>2 DEF ReqGrant, Step
  <2>2. grant[p.grant].target \in Users \cup {NoUser}
    BY <1>1 DEF GrantRow
  <2>3. /\ q \in ReqRow /\ q.pc = "member" /\ q.user = p.user /\ q.tenant = p.tenant
        /\ q.grant = p.grant /\ q.as = grant[p.grant].target
    BY <1>1, <2>2 DEF ReqRow
  <2>4. grant[p.grant].approver \in Users \cup {NoUser}
    BY <1>1 DEF GrantRow
  <2>5. grant[p.grant].needs => grant[p.grant].approver \in Users \ {p.user}
    BY <1>1, <1>2, <2>4 DEF ValidGrant, RequestsInv
  <2> HIDE DEF p, q
  <2>6. Under(q, grant[q.grant])
    BY <1>2, <2>3, <2>5 DEF Under, ValidGrant, CoversTenant
  <2> QED BY <1>1, <2>1, <2>3, <2>6, ReqMoves
<1>3. CASE ~(ValidGrant(p.grant, p.user) /\ CoversTenant(p.grant, p.tenant))
  <2>1. req' = [req EXCEPT ![r] = NoReq]
    BY <1>3 DEF ReqGrant, Step
  <2> QED BY <1>1, <2>1, ReqEnds
<1> QED BY <1>2, <1>3

\* Every step of a request.
LEMMA ReqStepInv ==
  ASSUME RequestsInv, NEW r \in Requests,
         \/ ReqMember(r) \/ ReqDenied(r) \/ ReqGranted(r) \/ ReqEnd(r)
         \/ \E k \in Keys : CreateAPIKey(k, r) \/ RevokeAPIKey(k, r)
  PROVE  RequestsInv'
<1>1. CASE req' = [req EXCEPT ![r] = NoReq] /\ UNCHANGED grant
  BY <1>1, ReqEnds
<1>2. CASE ReqMember(r) \/ ReqDenied(r) \/ ReqGranted(r)
  <2>1. UNCHANGED grant /\ req[r].pc # Idle
    BY <1>2 DEF ReqMember, ReqDenied, ReqGranted, Step, Idle
  <2>2. \/ req' = [req EXCEPT ![r] = NoReq]
        \/ \E pc \in {"denied", "granted", "served"} :
             req' = [req EXCEPT ![r] = [req[r] EXCEPT !.pc = pc]]
    BY <1>2 DEF ReqMember, ReqDenied, ReqGranted, Step
  <2> QED BY <1>1, <2>1, <2>2, ReqGoesOn
<1> QED BY <1>1, <1>2 DEF ReqEnd, CreateAPIKey, RevokeAPIKey, Step

\* A grant that is started: no request is under it yet.
LEMMA StartInv ==
  ASSUME RequestsInv, NEW g \in Grants, NEW t \in Tenants, NEW u \in Users, NEW v \in Users,
         NEW needs \in BOOLEAN, StartImpersonation(g, t, u, v, needs)
  PROVE  RequestsInv'
<1> DEFINE row == [tenant |-> t, actor |-> u, target |-> v, needs |-> needs,
                   approver |-> NoUser, live |-> TRUE]
<1>1. /\ grant \in [Grants -> GrantRow] /\ req \in [Requests -> ReqRow] /\ UNCHANGED req
      /\ grant' = [grant EXCEPT ![g] = row] /\ grant[g].actor = NoUser
  BY DEF RequestsInv, StartImpersonation, UnusedGrant
<1>2. row \in GrantRow /\ row.approver = NoUser
  BY DEF GrantRow
<1> HIDE DEF row
<1>3. grant' \in [Grants -> GrantRow] /\ grant'[g] = row
      /\ \A h \in Grants : h # g => grant'[h] = grant[h]
  BY <1>1, <1>2
<1>4. \A h \in Grants : grant'[h].approver \in Users =>
        grant'[h].needs /\ grant'[h].approver # grant'[h].actor
  BY <1>2, <1>3, TenantAccessAssumption DEF RequestsInv
<1>5. \A r \in Requests : req[r].as # req[r].user => req[r].user \in Users
  BY DEF RequestsInv
<1>6. \A r \in Requests : req[r].as # req[r].user => req[r].grant # g
  BY <1>1, <1>5, TenantAccessAssumption DEF RequestsInv, Under
<1>7. \A r \in Requests : req'[r].as # req'[r].user =>
        req'[r].grant \in Grants /\ Under(req'[r], grant'[req'[r].grant])
  BY <1>1, <1>3, <1>6 DEF RequestsInv
<1> QED BY <1>1, <1>3, <1>4, <1>7 DEF RequestsInv, Under

\* An approval is the second user's, of a grant nobody acts under yet; an end
\* changes nothing but that the grant is live.
LEMMA GrantChangeInv ==
  ASSUME RequestsInv, NEW g \in Grants,
         EndImpersonation(g) \/ \E u \in Users : ApproveImpersonation(g, u)
  PROVE  RequestsInv'
<1>1. grant[g] \in GrantRow /\ UNCHANGED req
  BY DEF RequestsInv, EndImpersonation, ApproveImpersonation
<1>2. PICK row \in GrantRow :
        /\ grant' = [grant EXCEPT ![g] = row]
        /\ row.tenant = grant[g].tenant /\ row.actor = grant[g].actor
        /\ row.target = grant[g].target /\ row.needs = grant[g].needs
        /\ \/ row.approver = grant[g].approver
           \/ row.needs /\ row.approver \in Users /\ row.approver # grant[g].actor
  <2>1. CASE EndImpersonation(g)
    <3>1. grant' = [grant EXCEPT ![g] = [grant[g] EXCEPT !.live = FALSE]]
      BY <2>1 DEF EndImpersonation
    <3>2. [grant[g] EXCEPT !.live = FALSE] \in GrantRow
      BY <1>1 DEF GrantRow
    <3> QED BY <1>1, <3>1, <3>2 DEF GrantRow
  <2>2. ASSUME NEW u \in Users, ApproveImpersonation(g, u)
        PROVE  \E row \in GrantRow :
                 /\ grant' = [grant EXCEPT ![g] = row]
                 /\ row.tenant = grant[g].tenant /\ row.actor = grant[g].actor
                 /\ row.target = grant[g].target /\ row.needs = grant[g].needs
                 /\ \/ row.approver = grant[g].approver
                    \/ row.needs /\ row.approver \in Users /\ row.approver # grant[g].actor
    <3>1. /\ grant' = [grant EXCEPT ![g] = [grant[g] EXCEPT !.approver = u]]
          /\ grant[g].needs /\ grant[g].actor # u
      BY <2>2 DEF ApproveImpersonation, Approvable
    <3>2. [grant[g] EXCEPT !.approver = u] \in GrantRow
      BY <1>1 DEF GrantRow
    <3> QED BY <1>1, <3>1, <3>2 DEF GrantRow
  <2> QED BY <2>1, <2>2
<1>3. grant' \in [Grants -> GrantRow] /\ grant'[g] = row
      /\ \A h \in Grants : h # g => grant'[h] = grant[h]
  BY <1>2 DEF RequestsInv
<1>4. \A h \in Grants : grant'[h].approver \in Users =>
        grant'[h].needs /\ grant'[h].approver # grant'[h].actor
  BY <1>2, <1>3 DEF RequestsInv
<1>5. \A q : Under(q, grant[g]) => Under(q, row)
  BY <1>2 DEF Under
<1>6. \A r \in Requests : req'[r].as # req'[r].user =>
        req'[r].grant \in Grants /\ Under(req'[r], grant'[req'[r].grant])
  BY <1>1, <1>3, <1>5 DEF RequestsInv
<1> QED BY <1>1, <1>3, <1>4, <1>6 DEF RequestsInv, Under

\* Every step of the requests and of the grants they are under.
LEMMA RequestsStepInv ==
  ASSUME TenancyTypeOK, RequestsInv, NextRequests
  PROVE  RequestsInv'
BY StartInv, GrantChangeInv, ReqHostInv, ReqGrantInv, ReqStepInv DEF NextRequests

\* What the other parts do leaves grants and requests alone.
LEMMA OtherPartsKeepRequests ==
  ASSUME Next
  PROVE  NextRequests \/ UNCHANGED <<grant, req>>
<1>1. CASE Access(NextRoles)
  BY <1>1
  DEF Access, NextRoles, CreateMembership, ReplaceMembershipRoles, ResetTenantOwner,
      DenyRolePermission, AllowRolePermission, AssignPlatformRole, RevokePlatformRole,
      CreateIncident, ResolveIncident
<1>2. CASE Access(NextRecovery)
  BY <1>2
  DEF Access, NextRecovery, EnableTOTP, DisableTOTP, MarkUsed, RecencyPasses, SetMFA,
      GenerateRecoveryCodes, RecoveryStart, RecoveryLock, RecoveryCommit, RecoveryRollback
<1>3. CASE Meanwhile
  BY <1>3
  DEF Meanwhile, Tenancy, Access, accessVars, MarkUsed, SetMFA, DenyRolePermission,
      ReplaceMembershipRoles, AssignPlatformRole
<1>4. CASE Both(RolePlans)
  BY <1>4 DEF Both, RolePlans, RolePlan, CreateTenantRole, accessVars
<1>5. CASE UNCHANGED accessVars
  BY <1>5 DEF accessVars
<1> QED BY <1>1, <1>2, <1>3, <1>4, <1>5 DEF Next, Tenancy, Access

\* Requests stay under the grants they were let in by, for any number of
\* requests, grants, tenants and users.
THEOREM RequestsCorrect == Spec => [](SlugsInv /\ RequestsInv)
<1>1. Init => RequestsInv
  <2> SUFFICES ASSUME Init PROVE RequestsInv
    OBVIOUS
  <2>1. grant = [g \in Grants |-> UnusedGrant] /\ req = [r \in Requests |-> NoReq]
    BY DEF Init, InitAccess
  <2>2. UnusedGrant \in GrantRow /\ UnusedGrant.approver \notin Users
    BY TenantAccessAssumption DEF UnusedGrant, GrantRow
  <2>3. NoReq \in ReqRow /\ NoReq.pc = Idle /\ NoReq.as = NoReq.user
    BY DEF NoReq, ReqRow
  <2> QED BY <2>1, <2>2, <2>3 DEF RequestsInv, Idle
<1>2. SlugsInv /\ RequestsInv /\ [Next]_cpVars => RequestsInv'
  <2> SUFFICES ASSUME SlugsInv, RequestsInv, [Next]_cpVars PROVE RequestsInv'
    OBVIOUS
  <2>1. TenancyTypeOK
    BY DEF SlugsInv
  <2>2. CASE NextRequests
    BY <2>1, <2>2, RequestsStepInv
  <2>3. CASE UNCHANGED <<grant, req>>
    BY <2>3, RequestsQuiet
  <2> QED BY <2>2, <2>3, OtherPartsKeepRequests DEF cpVars, accessVars
<1> QED BY <1>1, <1>2, SlugsCorrect, PTL DEF Spec

\* Whoever is served under a grant is its actor, in its tenant, as its target,
\* with the approval it needed.
THEOREM ImpersonationCorrect == Spec => []ImpersonationScoped
<1>1. RequestsInv => ImpersonationScoped
  BY DEF RequestsInv, ImpersonationScoped, Under
<1> QED BY <1>1, RequestsCorrect, PTL
=============================================================================
