---------------------------- MODULE TenantContacts ----------------------------
(***************************************************************************)
(* The data plane of the tenants: the subscribers, lists and subscriptions  *)
(* that internal/mailview/dataplane and contact_governance.go keep in        *)
(* tables all tenants share, and the handlers that call them for a tenant.  *)
(*                                                                         *)
(* Each call is one transaction of tenant.InTransaction, which commits all  *)
(* of it or nothing, so that a call that returns an error is no step.  Ids  *)
(* are serial: those of deleted rows are not given out again.  Names, tags  *)
(* and descriptions are left out.                                           *)
(***************************************************************************)
EXTENDS Naturals, FiniteSets

CONSTANTS
  Tenants, Subs, Lists,   \* tenants, and ids of subscribers and lists
  Emails,                 \* e-mail addresses, lower-cased and trimmed
  Requests,               \* requests of two transactions in progress at once
  Unused, Deleted,        \* the tenant of an id without a row
  None                    \* no address, no subscriber

ASSUME TenantContactsAssumption ==
  /\ Unused \notin Tenants /\ Deleted \notin Tenants /\ Unused # Deleted
  /\ None \notin Emails \cup Subs

SubStatuses == {"enabled", "disabled", "blocklisted"}
MemberStatuses == {"unconfirmed", "confirmed", "unsubscribed"}
Gone == "none"

VARIABLES
  sub,      \* row of each subscriber id
  list,     \* tenant of each list id
  member,   \* status of each subscription
  patch     \* requests between the row they read and the one they write

contactVars == <<sub, list, member, patch>>

SubRow == [tenant : Tenants \cup {Unused, Deleted}, email : Emails \cup {None},
           status : SubStatuses \cup {Gone}, suppressed : BOOLEAN]
NoRow(owner) == [tenant |-> owner, email |-> None, status |-> Gone, suppressed |-> FALSE]
Idle == [tenant |-> Unused, sub |-> None, email |-> None, status |-> Gone]

\* The rows a statement with WHERE tenant_id=$1 can see.
SubsOf(t) == {s \in Subs : sub[s].tenant = t}
ListsOf(t) == {l \in Lists : list[l] = t}
\* The unique index on (tenant_id, lower(email)).
Taken(t, e) == \E s \in SubsOf(t) : sub[s].email = e

InitContacts ==
  /\ sub = [s \in Subs |-> NoRow(Unused)]
  /\ list = [l \in Lists |-> Unused]
  /\ member = [s \in Subs |-> [l \in Lists |-> Gone]]
  /\ patch = [r \in Requests |-> Idle]

-----------------------------------------------------------------------------
(* internal/mailview/dataplane *)

\* Set the subscriptions of subscribers S to lists L.
SetMembers(S, L, status) ==
  member' = [s \in Subs |-> [l \in Lists |->
    IF s \in S /\ l \in L THEN status ELSE member[s][l]]]

\* validIDs: some ids (a repeated one makes the counts below differ).
ValidIDs(ids) == ids # {}

InsertRow(s, t, e) ==
  /\ sub[s].tenant = Unused /\ ~Taken(t, e)
  /\ sub' = [sub EXCEPT ![s] =
       [tenant |-> t, email |-> e, status |-> "enabled", suppressed |-> FALSE]]

CreateList(t, l) ==
  list[l] = Unused /\ list' = [list EXCEPT ![l] = t] /\ UNCHANGED <<sub, member>>

CreateSubscriber(t, s, e, L) ==
  /\ InsertRow(s, t, e) /\ L \subseteq ListsOf(t)
  /\ SetMembers({s}, L, "confirmed") /\ UNCHANGED list

\* Only the address and the name; the row must be the tenant's.
UpdateSubscriber(t, s, e) ==
  /\ s \in SubsOf(t) /\ (e # sub[s].email => ~Taken(t, e))
  /\ sub' = [sub EXCEPT ![s].email = e] /\ UNCHANGED <<list, member>>

\* Subscriptions go with their list,
DeleteLists(t, L) ==
  /\ ValidIDs(L) /\ L \subseteq ListsOf(t)
  /\ list' = [l \in Lists |-> IF l \in L THEN Deleted ELSE list[l]]
  /\ SetMembers(Subs, L, Gone) /\ UNCHANGED sub
DeleteList(t, l) == DeleteLists(t, {l})

\* and with their subscriber.
DeleteSubscribers(t, S) ==
  /\ ValidIDs(S) /\ S \subseteq SubsOf(t)
  /\ sub' = [s \in Subs |-> IF s \in S THEN NoRow(Deleted) ELSE sub[s]]
  /\ SetMembers(S, Lists, Gone) /\ UNCHANGED list
DeleteSubscriber(t, s) == DeleteSubscribers(t, {s})

\* The subscriptions stay as they are.
BlocklistSubscribers(t, S) ==
  /\ ValidIDs(S) /\ S \subseteq SubsOf(t)
  /\ sub' = [s \in Subs |->
       IF s \in S THEN [sub[s] EXCEPT !.status = "blocklisted"] ELSE sub[s]]
  /\ UNCHANGED <<list, member>>

ManageSubscriberLists(t, S, L, action, status) ==
  /\ ValidIDs(S) /\ ValidIDs(L) /\ S \subseteq SubsOf(t) /\ L \subseteq ListsOf(t)
  /\ \/ action = "add" /\ SetMembers(S, L, status)
     \/ action = "remove" /\ SetMembers(S, L, Gone)
     \/ /\ action = "unsubscribe"
        /\ member' = [s \in Subs |-> [l \in Lists |->
             IF s \in S /\ l \in L /\ member[s][l] # Gone
             THEN "unsubscribed" ELSE member[s][l]]]
  /\ UNCHANGED <<sub, list>>

\* Lifting a suppression leaves the subscriber blocklisted.
UpdateContactGovernance(t, s, suppressed) ==
  /\ s \in SubsOf(t)
  /\ sub' = [sub EXCEPT ![s].suppressed = suppressed,
       ![s].status = IF suppressed THEN "blocklisted" ELSE @]
  /\ UNCHANGED <<list, member>>

-----------------------------------------------------------------------------
(* The handlers that resolve a tenant and call them: those of               *)
(* cmd/mailview_dataplane.go below /tenants/:tenantID/data, and the first    *)
(* branch of those in cmd/subscribers.go and cmd/lists.go on a tenant host. *)

CreateMailViewList(t, l) == CreateList(t, l) /\ UNCHANGED patch
CreateMailViewSubscriber(t, s, e, L) == CreateSubscriber(t, s, e, L) /\ UNCHANGED patch

HostCreateList(t, l) == CreateList(t, l) /\ UNCHANGED patch
HostDeleteList(t, l) == DeleteList(t, l) /\ UNCHANGED patch
HostDeleteLists(t, L) == DeleteLists(t, L) /\ UNCHANGED patch
HostCreateSubscriber(t, s, e, L) == CreateSubscriber(t, s, e, L) /\ UNCHANGED patch
HostUpdateSubscriber(t, s, e) == UpdateSubscriber(t, s, e) /\ UNCHANGED patch
HostBlocklist(t, s) == BlocklistSubscribers(t, {s}) /\ UNCHANGED patch
HostBlocklistMany(t, S) == BlocklistSubscribers(t, S) /\ UNCHANGED patch
HostManageLists(t, S, L, action, status) ==
  ManageSubscriberLists(t, S, L, action, status) /\ UNCHANGED patch
HostDeleteSubscriber(t, s) == DeleteSubscriber(t, s) /\ UNCHANGED patch
HostDeleteSubscribers(t, S) == DeleteSubscribers(t, S) /\ UNCHANGED patch
HostGovernance(t, s, suppressed) ==
  UpdateContactGovernance(t, s, suppressed) /\ UNCHANGED patch

\* PatchSubscriber reads the row in one transaction,
HostPatchRead(r, t, s) ==
  /\ patch[r] = Idle /\ s \in SubsOf(t)
  /\ patch' = [patch EXCEPT ![r] =
       [tenant |-> t, sub |-> s, email |-> sub[s].email, status |-> Gone]]
  /\ UNCHANGED <<sub, list, member>>

\* and writes it in another, with the address it read unless one is given.
HostPatchWrite(r, given) ==
  LET q == patch[r] IN
  /\ q # Idle /\ q.status = Gone
  /\ UpdateSubscriber(q.tenant, q.sub, IF given = None THEN q.email ELSE given)
  /\ patch' = [patch EXCEPT ![r] = Idle]

\* The row is gone or the address taken: an error.
HostPatchFails(r) == patch[r] # Idle /\ patch' = [patch EXCEPT ![r] = Idle]
                     /\ UNCHANGED <<sub, list, member>>

-----------------------------------------------------------------------------
(* The public handlers of cmd/public.go on a tenant host, where the privacy  *)
(* settings allow them.  mailviewPublicTenant gives each one transaction,    *)
(* which reads what is committed and locks a row when it writes it.          *)

\* processSubForm: a new address on lists of the tenant; a known one is an error.
PublicSubscribe(t, s, e, L) ==
  /\ InsertRow(s, t, e) /\ L \subseteq ListsOf(t)
  /\ SetMembers({s}, L, "unconfirmed") /\ UNCHANGED <<list, patch>>

\* The lists L a subscriber has, set to a status.
Subscriptions(s, L) == {l \in L : member[s][l] # Gone}

\* SubscriptionPrefs without manage: the lists of a campaign, or all with
\* blocklist.
PublicUnsubscribe(t, s, L, blocklist) ==
  /\ s \in SubsOf(t)
  /\ sub' = [sub EXCEPT ![s].status = IF blocklist THEN "blocklisted" ELSE @]
  /\ SetMembers({s}, Subscriptions(s, IF blocklist THEN Lists ELSE L), "unsubscribed")
  /\ UNCHANGED <<list, patch>>

\* SubscriptionPrefs with manage reads the row,
PublicPrefsRead(r, t, s) ==
  /\ patch[r] = Idle /\ s \in SubsOf(t)
  /\ patch' = [patch EXCEPT ![r] =
       [tenant |-> t, sub |-> s, email |-> sub[s].email, status |-> sub[s].status]]
  /\ UNCHANGED <<sub, list, member>>

\* and writes it back with a new name: the address and the status are those it
\* read, whatever was committed in between.  The lists left out of the form go.
PublicPrefsWrite(r, L) ==
  LET q == patch[r] IN
  /\ q # Idle /\ q.status # Gone /\ q.sub \in SubsOf(q.tenant)
  /\ q.email # sub[q.sub].email => ~Taken(q.tenant, q.email)
  /\ sub' = [sub EXCEPT ![q.sub].email = q.email, ![q.sub].status = q.status]
  /\ SetMembers({q.sub}, Subscriptions(q.sub, L), "unsubscribed")
  /\ patch' = [patch EXCEPT ![r] = Idle] /\ UNCHANGED list

\* OptinPage: the subscriptions asked for are confirmed.
PublicConfirm(t, s, L) ==
  /\ s \in SubsOf(t) /\ SetMembers({s}, Subscriptions(s, L), "confirmed")
  /\ UNCHANGED <<sub, list, patch>>

PublicWipe(t, s) == DeleteSubscriber(t, s) /\ UNCHANGED patch

PublicContactsNext ==
  \/ \E t \in Tenants, s \in Subs :
       \/ PublicWipe(t, s) \/ \E r \in Requests : PublicPrefsRead(r, t, s)
       \/ \E L \in SUBSET Lists :
            \/ PublicConfirm(t, s, L) \/ \E b \in BOOLEAN : PublicUnsubscribe(t, s, L, b)
            \/ \E e \in Emails : PublicSubscribe(t, s, e, L)
  \/ \E r \in Requests, L \in SUBSET Lists : PublicPrefsWrite(r, L)

HostContactsNext ==
  \/ \E t \in Tenants :
       \/ \E l \in Lists : CreateMailViewList(t, l) \/ HostCreateList(t, l)
                           \/ HostDeleteList(t, l)
       \/ \E L \in SUBSET Lists :
            \/ HostDeleteLists(t, L)
            \/ \E s \in Subs, e \in Emails :
                 CreateMailViewSubscriber(t, s, e, L) \/ HostCreateSubscriber(t, s, e, L)
       \/ \E s \in Subs :
            \/ \E e \in Emails : HostUpdateSubscriber(t, s, e)
            \/ HostBlocklist(t, s) \/ HostDeleteSubscriber(t, s)
            \/ \E b \in BOOLEAN : HostGovernance(t, s, b)
            \/ \E r \in Requests : HostPatchRead(r, t, s)
       \/ \E S \in SUBSET Subs :
            \/ HostBlocklistMany(t, S) \/ HostDeleteSubscribers(t, S)
            \/ \E L \in SUBSET Lists, action \in {"add", "remove", "unsubscribe"},
                  status \in MemberStatuses : HostManageLists(t, S, L, action, status)
  \/ \E r \in Requests :
       HostPatchFails(r) \/ \E e \in Emails \cup {None} : HostPatchWrite(r, e)

ContactsNext == HostContactsNext \/ PublicContactsNext

ContactsTypeOK ==
  /\ sub \in [Subs -> SubRow]
  /\ list \in [Lists -> Tenants \cup {Unused, Deleted}]
  /\ member \in [Subs -> [Lists -> MemberStatuses \cup {Gone}]]
  /\ patch \in [Requests -> [tenant : Tenants \cup {Unused}, sub : Subs \cup {None},
                            email : Emails \cup {None}, status : SubStatuses \cup {Gone}]]

\* Isolation: a subscription joins a subscriber and a list of one tenant, and
\* a tenant has one row for an address, whatever ids the requests and import
\* jobs of the other tenants name.
Isolation ==
  /\ \A s \in Subs, l \in Lists :
       member[s][l] # Gone => list[l] \in Tenants /\ sub[s].tenant = list[l]
  /\ \A s, r \in Subs : sub[s].tenant \in Tenants /\ sub[s].tenant = sub[r].tenant
       /\ sub[s].email = sub[r].email => s = r

\* A suppressed contact is blocklisted: no edit, PATCH, public request or import
\* of the address makes it one that campaigns send to again.  The exception the
\* code makes is a preferences form whose handler read the row before it was
\* suppressed and writes back the status that it read.
Sendable(s) == sub[s].suppressed /\ sub[s].status # "blocklisted"
SuppressedStaysOut ==
  [][\A s \in Subs : ~Sendable(s) /\ Sendable(s)' =>
       \E r \in Requests : /\ patch[r].sub = s /\ patch[r].status \in {"enabled", "disabled"}
                           /\ patch'[r] = Idle]_contactVars
=============================================================================
