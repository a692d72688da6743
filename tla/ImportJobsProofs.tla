--------------------------- MODULE ImportJobsProofs ---------------------------
(***************************************************************************)
(* Theorems about ImportJobs: one worker per job, whose counts agree with   *)
(* the row; imports keep tenants apart and the suppressed blocklisted; and   *)
(* the jobs implement ImportLifecycle.                                      *)
(*                                                                         *)
(* All follow from the inductive invariant TypeOK /\ JobsInv /\ ContactsInv. *)
(* One worker per job is inductive only with the statuses of JobsInv: a job  *)
(* is claimed from "pending", in which no worker can have it.               *)
(***************************************************************************)
EXTENDS ImportJobs, FiniteSetTheorems, SequenceTheorems, TLAPS

-----------------------------------------------------------------------------
(* The contacts: what must hold, and one lemma for each call of the data plane. *)

TablesOK ==
  /\ sub \in [Subs -> SubRow]
  /\ list \in [Lists -> Tenants \cup {Unused, Deleted}]
  /\ member \in [Subs -> [Lists -> MemberStatuses \cup {Gone}]]
ContactsInv == TablesOK /\ Isolation

\* No step but a stale preferences form makes a suppressed contact sendable.
NoneReleased == \A s \in Subs : Sendable(s)' => Sendable(s)

\* Setting subscriptions yields a table of subscriptions.
LEMMA MembersSet ==
  ASSUME TablesOK, NEW S, NEW L, NEW status \in MemberStatuses \cup {Gone},
         SetMembers(S, L, status)
  PROVE  /\ member' \in [Subs -> [Lists -> MemberStatuses \cup {Gone}]]
         /\ \A s \in Subs, l \in Lists :
              member'[s][l] = IF s \in S /\ l \in L THEN status ELSE member[s][l]
BY DEF SetMembers, TablesOK

\* An id without a row has no subscriptions.
LEMMA NoRowNoMembers ==
  ASSUME ContactsInv, NEW s \in Subs, sub[s].tenant \notin Tenants, NEW l \in Lists
  PROVE  member[s][l] = Gone
BY DEF ContactsInv, Isolation

\* A new list has no subscriptions yet.
LEMMA CreateListInv ==
  ASSUME ContactsInv, NEW t \in Tenants, NEW l \in Lists, CreateList(t, l)
  PROVE  ContactsInv' /\ NoneReleased
<1>1. TablesOK'
  BY DEF CreateList, ContactsInv, TablesOK
<1>2. ASSUME NEW s \in Subs, NEW k \in Lists, member'[s][k] # Gone
      PROVE  list'[k] \in Tenants /\ sub'[s].tenant = list'[k]
  <2>1. member[s][k] # Gone /\ list[k] \in Tenants /\ sub[s].tenant = list[k]
    BY <1>2 DEF CreateList, ContactsInv, Isolation
  <2>2. k # l
    BY <2>1, TenantContactsAssumption DEF CreateList
  <2> QED BY <2>1, <2>2 DEF CreateList, ContactsInv, TablesOK
<1>3. NoneReleased
  BY DEF CreateList, NoneReleased, Sendable
<1> QED BY <1>1, <1>2, <1>3 DEF CreateList, ContactsInv, Isolation

\* A new subscriber has an address of its own and joins lists of its tenant.
LEMMA InsertInv ==
  ASSUME ContactsInv, NEW t \in Tenants, NEW s \in Subs, NEW e \in Emails,
         NEW L \in SUBSET Lists, NEW status \in MemberStatuses,
         InsertRow(s, t, e), L \subseteq ListsOf(t), SetMembers({s}, L, status), UNCHANGED list
  PROVE  ContactsInv' /\ NoneReleased
<1> DEFINE row == [tenant |-> t, email |-> e, status |-> "enabled", suppressed |-> FALSE]
<1>1. /\ sub[s].tenant = Unused /\ ~Taken(t, e) /\ L \subseteq ListsOf(t) /\ list' = list
      /\ sub' = [sub EXCEPT ![s] = row]
      /\ SetMembers({s}, L, status)
  BY DEF InsertRow
<1>2. row \in SubRow
  BY DEF SubRow, SubStatuses
<1>3. /\ member' \in [Subs -> [Lists -> MemberStatuses \cup {Gone}]]
      /\ \A q \in Subs, l \in Lists :
           member'[q][l] = IF q \in {s} /\ l \in L THEN status ELSE member[q][l]
  BY <1>1, MembersSet DEF ContactsInv
<1>4. sub'[s] = row /\ \A q \in Subs : q # s => sub'[q] = sub[q]
  BY <1>1 DEF ContactsInv, TablesOK
<1>5. TablesOK'
  BY <1>1, <1>2, <1>3 DEF ContactsInv, TablesOK
<1>6. ASSUME NEW q \in Subs, NEW l \in Lists, member'[q][l] # Gone
      PROVE  list'[l] \in Tenants /\ sub'[q].tenant = list'[l]
  <2>1. CASE q = s /\ l \in L
    BY <2>1, <1>1, <1>4 DEF ListsOf
  <2>2. CASE ~(q = s /\ l \in L)
    <3>1. member[q][l] # Gone
      BY <2>2, <1>3, <1>6
    <3>2. q # s
      BY <3>1, <1>1, NoRowNoMembers, TenantContactsAssumption
    <3> QED BY <3>1, <3>2, <1>1, <1>4 DEF ContactsInv, Isolation
  <2> QED BY <2>1, <2>2
<1>7. ASSUME NEW q \in Subs, NEW r \in Subs, sub'[q].tenant \in Tenants,
             sub'[q].tenant = sub'[r].tenant, sub'[q].email = sub'[r].email
      PROVE  q = r
  BY <1>1, <1>4, <1>7 DEF ContactsInv, Isolation, Taken, SubsOf
<1>8. NoneReleased
  BY <1>4 DEF NoneReleased, Sendable
<1> QED BY <1>5, <1>6, <1>7, <1>8 DEF ContactsInv, Isolation

\* whether the API made it or a public form.
LEMMA CreateSubscriberInv ==
  ASSUME ContactsInv, NEW t \in Tenants, NEW s \in Subs, NEW e \in Emails,
         NEW L \in SUBSET Lists,
         CreateSubscriber(t, s, e, L) \/ PublicSubscribe(t, s, e, L)
  PROVE  ContactsInv' /\ NoneReleased
<1>1. "confirmed" \in MemberStatuses /\ "unconfirmed" \in MemberStatuses
  BY DEF MemberStatuses
<1> QED BY <1>1, InsertInv DEF CreateSubscriber, PublicSubscribe

\* An edit of the address looks for it among the tenant's contacts.
LEMMA UpdateSubscriberInv ==
  ASSUME ContactsInv, NEW t, NEW s, NEW e \in Emails \cup {None}, UpdateSubscriber(t, s, e)
  PROVE  ContactsInv' /\ NoneReleased
<1>1. /\ s \in Subs /\ sub[s].tenant = t /\ (e # sub[s].email => ~Taken(t, e))
      /\ sub' = [sub EXCEPT ![s].email = e] /\ UNCHANGED <<list, member>>
  BY DEF UpdateSubscriber, SubsOf
<1>2. /\ sub' \in [Subs -> SubRow] /\ sub'[s].email = e
      /\ \A q \in Subs : q # s => sub'[q] = sub[q]
      /\ \A q \in Subs : /\ sub'[q].tenant = sub[q].tenant /\ sub'[q].status = sub[q].status
                         /\ sub'[q].suppressed = sub[q].suppressed
  BY <1>1, ZenonT(60) DEF ContactsInv, TablesOK, SubRow
<1>3. TablesOK'
  BY <1>1, <1>2 DEF ContactsInv, TablesOK
<1>4. ASSUME NEW q \in Subs, NEW r \in Subs, sub'[q].tenant \in Tenants,
             sub'[q].tenant = sub'[r].tenant, sub'[q].email = sub'[r].email
      PROVE  q = r
  BY <1>1, <1>2, <1>4 DEF ContactsInv, Isolation, Taken, SubsOf
<1>5. NoneReleased
  BY <1>2 DEF NoneReleased, Sendable
<1> QED BY <1>1, <1>2, <1>3, <1>4, <1>5 DEF ContactsInv, Isolation

\* Lists go with the subscriptions to them.
LEMMA DeleteListsInv ==
  ASSUME ContactsInv, NEW t \in Tenants, NEW L \in SUBSET Lists, DeleteLists(t, L)
  PROVE  ContactsInv' /\ NoneReleased
<1>1. /\ list' = [l \in Lists |-> IF l \in L THEN Deleted ELSE list[l]] /\ sub' = sub
      /\ SetMembers(Subs, L, Gone)
  BY DEF DeleteLists
<1>2. /\ member' \in [Subs -> [Lists -> MemberStatuses \cup {Gone}]]
      /\ \A s \in Subs, l \in Lists :
           member'[s][l] = IF s \in Subs /\ l \in L THEN Gone ELSE member[s][l]
  BY <1>1, MembersSet DEF ContactsInv
<1>3. TablesOK'
  BY <1>1, <1>2 DEF ContactsInv, TablesOK
<1>4. NoneReleased
  BY <1>1 DEF NoneReleased, Sendable
<1> QED BY <1>1, <1>2, <1>3, <1>4 DEF ContactsInv, Isolation

\* Contacts go with their subscriptions.
LEMMA DeleteSubscribersInv ==
  ASSUME ContactsInv, NEW t \in Tenants, NEW S \in SUBSET Subs, DeleteSubscribers(t, S)
  PROVE  ContactsInv' /\ NoneReleased
<1>1. /\ sub' = [s \in Subs |-> IF s \in S THEN NoRow(Deleted) ELSE sub[s]] /\ list' = list
      /\ SetMembers(S, Lists, Gone)
  BY DEF DeleteSubscribers
<1>2. NoRow(Deleted) \in SubRow /\ NoRow(Deleted).tenant \notin Tenants /\ ~NoRow(Deleted).suppressed
  BY TenantContactsAssumption DEF NoRow, SubRow
<1>3. /\ member' \in [Subs -> [Lists -> MemberStatuses \cup {Gone}]]
      /\ \A s \in Subs, l \in Lists :
           member'[s][l] = IF s \in S /\ l \in Lists THEN Gone ELSE member[s][l]
  BY <1>1, MembersSet DEF ContactsInv
<1>4. TablesOK'
  BY <1>1, <1>2, <1>3 DEF ContactsInv, TablesOK
<1>5. \A s \in Subs : sub'[s] = IF s \in S THEN NoRow(Deleted) ELSE sub[s]
  BY <1>1
<1>6. Isolation'
  BY <1>1, <1>2, <1>3, <1>5 DEF ContactsInv, Isolation
<1>7. NoneReleased
  BY <1>2, <1>5 DEF NoneReleased, Sendable
<1> QED BY <1>4, <1>6, <1>7 DEF ContactsInv

\* Only the status of the contacts changes.
LEMMA StatusInv ==
  ASSUME ContactsInv, NEW f \in [Subs -> SubRow], sub' = f, UNCHANGED <<list, member>>,
         \A s \in Subs : f[s].tenant = sub[s].tenant /\ f[s].email = sub[s].email,
         \A s \in Subs : f[s].suppressed /\ f[s].status # "blocklisted" => Sendable(s)
  PROVE  ContactsInv' /\ NoneReleased
BY DEF ContactsInv, TablesOK, Isolation, NoneReleased, Sendable

\* Blocklisting keeps addresses, tenants and subscriptions.
LEMMA BlocklistInv ==
  ASSUME ContactsInv, NEW t \in Tenants, NEW S \in SUBSET Subs, BlocklistSubscribers(t, S)
  PROVE  ContactsInv' /\ NoneReleased
<1> DEFINE f == [s \in Subs |->
                   IF s \in S THEN [sub[s] EXCEPT !.status = "blocklisted"] ELSE sub[s]]
<1>1. sub' = f /\ UNCHANGED <<list, member>>
  BY DEF BlocklistSubscribers
<1>2. ASSUME NEW s \in Subs
      PROVE  /\ f[s] \in SubRow /\ f[s].tenant = sub[s].tenant /\ f[s].email = sub[s].email
             /\ f[s].suppressed /\ f[s].status # "blocklisted" => Sendable(s)
  <2>1. sub[s] \in SubRow
    BY DEF ContactsInv, TablesOK
  <2> QED BY <2>1 DEF SubRow, SubStatuses, Sendable
<1>3. f \in [Subs -> SubRow]
  BY <1>2
<1> HIDE DEF f
<1> QED BY <1>1, <1>2, <1>3, StatusInv

\* Suppressing a contact blocklists it; lifting the suppression leaves it so.
LEMMA GovernanceInv ==
  ASSUME ContactsInv, NEW t \in Tenants, NEW s \in Subs, NEW b \in BOOLEAN,
         UpdateContactGovernance(t, s, b)
  PROVE  ContactsInv' /\ NoneReleased
<1> DEFINE row == [sub[s] EXCEPT !.suppressed = b, !.status = IF b THEN "blocklisted" ELSE @]
           f == [sub EXCEPT ![s] = row]
<1>1. sub' = f /\ UNCHANGED <<list, member>>
  BY DEF UpdateContactGovernance, ContactsInv, TablesOK, SubRow
<1>2. row \in SubRow /\ row.tenant = sub[s].tenant /\ row.email = sub[s].email
      /\ (row.suppressed => row.status = "blocklisted")
  BY ZenonT(60) DEF ContactsInv, TablesOK, SubRow, SubStatuses
<1> HIDE DEF row
<1>3. f \in [Subs -> SubRow]
  BY <1>2 DEF ContactsInv, TablesOK
<1>4. \A q \in Subs : f[q] = IF q = s THEN row ELSE sub[q]
  BY DEF ContactsInv, TablesOK
<1> HIDE DEF f
<1> HIDE DEF row
<1>5. \A q \in Subs : f[q].suppressed /\ f[q].status # "blocklisted" => Sendable(q)
  BY <1>2, <1>4 DEF Sendable
<1>6. \A q \in Subs : f[q].tenant = sub[q].tenant /\ f[q].email = sub[q].email
  BY <1>2, <1>4
<1> QED BY <1>1, <1>3, <1>5, <1>6, StatusInv

\* Contacts and lists are looked up in the tenant.
LEMMA ManageListsInv ==
  ASSUME ContactsInv, NEW t \in Tenants, NEW S \in SUBSET Subs, NEW L \in SUBSET Lists,
         NEW action, NEW status \in MemberStatuses,
         ManageSubscriberLists(t, S, L, action, status)
  PROVE  ContactsInv' /\ NoneReleased
<1>1. S \subseteq SubsOf(t) /\ L \subseteq ListsOf(t) /\ UNCHANGED <<sub, list>>
  BY DEF ManageSubscriberLists
<1>2. /\ member' \in [Subs -> [Lists -> MemberStatuses \cup {Gone}]]
      /\ \A s \in Subs, l \in Lists :
           member'[s][l] # Gone => (s \in S /\ l \in L) \/ member[s][l] # Gone
  <2>1. CASE SetMembers(S, L, status)
    BY <2>1, MembersSet DEF ContactsInv
  <2>2. CASE SetMembers(S, L, Gone)
    BY <2>2, MembersSet DEF ContactsInv
  <2>3. CASE member' = [s \in Subs |-> [l \in Lists |->
               IF s \in S /\ l \in L /\ member[s][l] # Gone THEN "unsubscribed" ELSE member[s][l]]]
    BY <2>3 DEF ContactsInv, TablesOK, MemberStatuses
  <2> QED BY <2>1, <2>2, <2>3 DEF ManageSubscriberLists
<1>3. TablesOK'
  BY <1>1, <1>2 DEF ContactsInv, TablesOK
<1>4. Isolation'
  BY <1>1, <1>2 DEF ContactsInv, Isolation, SubsOf, ListsOf
<1>5. NoneReleased
  BY <1>1 DEF NoneReleased, Sendable
<1> QED BY <1>3, <1>4, <1>5 DEF ContactsInv

\* A public request changes the row of one contact of the tenant, and the status
\* of subscriptions it has.
LEMMA PublicEditInv ==
  ASSUME ContactsInv, NEW f \in [Subs -> SubRow], sub' = f, UNCHANGED list,
         NEW s \in Subs, NEW L \in SUBSET Lists, NEW status \in MemberStatuses,
         SetMembers({s}, Subscriptions(s, L), status),
         \A q \in Subs : f[q].tenant = sub[q].tenant,
         \A q \in Subs : q # s => f[q].email = sub[q].email,
         f[s].email # sub[s].email => ~Taken(sub[s].tenant, f[s].email)
  PROVE  ContactsInv'
<1>1. /\ member' \in [Subs -> [Lists -> MemberStatuses \cup {Gone}]]
      /\ \A q \in Subs, l \in Lists :
           member'[q][l] = IF q \in {s} /\ l \in Subscriptions(s, L) THEN status ELSE member[q][l]
  BY MembersSet DEF ContactsInv
<1>2. \A q \in Subs, l \in Lists : member'[q][l] # Gone => member[q][l] # Gone
  BY <1>1 DEF Subscriptions
<1>3. TablesOK'
  BY <1>1 DEF ContactsInv, TablesOK
<1>4. ASSUME NEW q \in Subs, NEW l \in Lists, member'[q][l] # Gone
      PROVE  list'[l] \in Tenants /\ sub'[q].tenant = list'[l]
  BY <1>2, <1>4 DEF ContactsInv, Isolation
<1>5. ASSUME NEW q \in Subs, NEW r \in Subs, sub'[q].tenant \in Tenants,
             sub'[q].tenant = sub'[r].tenant, sub'[q].email = sub'[r].email
      PROVE  q = r
  <2>1. CASE f[s].email = sub[s].email
    BY <1>5, <2>1 DEF ContactsInv, Isolation
  <2>2. CASE f[s].email # sub[s].email
    BY <1>5, <2>2 DEF ContactsInv, Isolation, Taken, SubsOf
  <2> QED BY <2>1, <2>2
<1> QED BY <1>3, <1>4, <1>5 DEF ContactsInv, Isolation

\* Unsubscribing, with the blocklist or without, and confirming.
LEMMA PublicUnsubscribeInv ==
  ASSUME ContactsInv, NEW t \in Tenants, NEW s \in Subs, NEW L \in SUBSET Lists, NEW b \in BOOLEAN,
         PublicUnsubscribe(t, s, L, b)
  PROVE  ContactsInv' /\ NoneReleased
<1> DEFINE status == IF b THEN "blocklisted" ELSE sub[s].status
           row == [sub[s] EXCEPT !.status = status]
           f == [sub EXCEPT ![s] = row]
           M == IF b THEN Lists ELSE L
<1>1. sub[s] \in SubRow /\ sub \in [Subs -> SubRow]
  BY DEF ContactsInv, TablesOK
<1>2. /\ row \in SubRow /\ row.tenant = sub[s].tenant /\ row.email = sub[s].email
      /\ row.suppressed = sub[s].suppressed /\ row.status \in {"blocklisted", sub[s].status}
  BY <1>1 DEF SubRow, SubStatuses
<1>3. sub' = f /\ UNCHANGED list /\ SetMembers({s}, Subscriptions(s, M), "unsubscribed")
  BY DEF PublicUnsubscribe
<1>4. M \in SUBSET Lists /\ "unsubscribed" \in MemberStatuses
  BY DEF MemberStatuses
<1> HIDE DEF row, M
<1>5. f \in [Subs -> SubRow] /\ f[s] = row /\ \A q \in Subs : q # s => f[q] = sub[q]
  BY <1>1, <1>2
<1> HIDE DEF f
<1>6. ContactsInv'
  BY <1>2, <1>3, <1>4, <1>5, PublicEditInv
<1>7. NoneReleased
  BY <1>2, <1>3, <1>5 DEF NoneReleased, Sendable
<1> QED BY <1>6, <1>7

\* The contacts that become sendable are those of a preferences form that read
\* them enabled or disabled.
Released ==
  \A s \in Subs : ~Sendable(s) /\ Sendable(s)' =>
    \E r \in Requests : /\ patch[r].sub = s /\ patch[r].status \in {"enabled", "disabled"}
                        /\ patch'[r] = Idle

\* The preferences form writes the address and the status back.
LEMMA PublicPrefsWriteInv ==
  ASSUME ContactsTypeOK, ContactsInv, NEW r \in Requests, NEW L \in SUBSET Lists,
         PublicPrefsWrite(r, L)
  PROVE  ContactsInv' /\ Released
<1> DEFINE q == patch[r]
           s == q.sub
           row == [sub[s] EXCEPT !.email = q.email, !.status = q.status]
           f == [sub EXCEPT ![s] = row]
<1>1. /\ q.email \in Emails \cup {None} /\ q.status \in SubStatuses \cup {Gone} /\ q.status # Gone
      /\ s \in Subs /\ sub[s].tenant = q.tenant
      /\ (q.email # sub[s].email => ~Taken(q.tenant, q.email))
  BY DEF PublicPrefsWrite, ContactsTypeOK, SubsOf
<1>2. sub[s] \in SubRow /\ sub \in [Subs -> SubRow]
  BY <1>1 DEF ContactsInv, TablesOK
<1>3. /\ row \in SubRow /\ row.tenant = sub[s].tenant /\ row.email = q.email
      /\ row.status = q.status
  BY <1>1, <1>2 DEF SubRow
<1>4. sub' = f
  BY <1>1, <1>2 DEF PublicPrefsWrite, SubRow
<1>5. /\ UNCHANGED list /\ SetMembers({s}, Subscriptions(s, L), "unsubscribed")
      /\ patch' = [patch EXCEPT ![r] = Idle]
  BY DEF PublicPrefsWrite
<1>6. "unsubscribed" \in MemberStatuses
  BY DEF MemberStatuses
<1> HIDE DEF row
<1>7. f \in [Subs -> SubRow] /\ f[s] = row /\ \A p \in Subs : p # s => f[p] = sub[p]
  BY <1>1, <1>2, <1>3
<1> HIDE DEF f
<1>8. ContactsInv'
  BY <1>1, <1>3, <1>4, <1>5, <1>6, <1>7, PublicEditInv
<1>9. ASSUME NEW p \in Subs, ~Sendable(p), Sendable(p)'
      PROVE  patch[r].sub = p /\ patch[r].status \in {"enabled", "disabled"} /\ patch'[r] = Idle
  <2>1. p = s
    BY <1>4, <1>7, <1>9 DEF Sendable
  <2>2. q.status # "blocklisted"
    BY <1>3, <1>4, <1>7, <1>9, <2>1 DEF Sendable
  <2>3. patch'[r] = Idle
    BY <1>5 DEF ContactsTypeOK
  <2> QED BY <1>1, <2>1, <2>2, <2>3 DEF SubStatuses
<1> QED BY <1>8, <1>9 DEF Released

-----------------------------------------------------------------------------
\* Initially there are no rows.
LEMMA InitContactsInv == InitContacts => ContactsInv
BY TenantContactsAssumption
   DEF InitContacts, ContactsInv, TablesOK, Isolation, NoRow, SubRow

\* A patch or a form that reads a row remembers an address and a status of a row.
PatchRow == [tenant : Tenants \cup {Unused}, sub : Subs \cup {None},
             email : Emails \cup {None}, status : SubStatuses \cup {Gone}]
Patches == [Requests -> PatchRow]

\* A call that leaves contacts alone.
LEMMA SameContacts ==
  ASSUME ContactsInv, UNCHANGED <<sub, list, member>>
  PROVE  ContactsInv' /\ NoneReleased
BY DEF ContactsInv, TablesOK, Isolation, NoneReleased, Sendable

\* Every call of the API keeps the tenants apart, and the suppressed blocklisted.
LEMMA HostNextInv ==
  ASSUME patch \in Patches, ContactsInv, HostContactsNext
  PROVE  patch' \in Patches /\ ContactsInv' /\ NoneReleased
<1>1. ASSUME NEW t \in Tenants, NEW l \in Lists,
             CreateMailViewList(t, l) \/ HostCreateList(t, l) \/ HostDeleteList(t, l)
      PROVE  patch' = patch /\ ContactsInv' /\ NoneReleased
  BY <1>1, CreateListInv, DeleteListsInv
     DEF CreateMailViewList, HostCreateList, HostDeleteList, DeleteList
<1>2. ASSUME NEW t \in Tenants, NEW L \in SUBSET Lists, HostDeleteLists(t, L)
      PROVE  patch' = patch /\ ContactsInv' /\ NoneReleased
  BY <1>2, DeleteListsInv DEF HostDeleteLists
<1>3. ASSUME NEW t \in Tenants, NEW L \in SUBSET Lists, NEW s \in Subs, NEW e \in Emails,
             CreateMailViewSubscriber(t, s, e, L) \/ HostCreateSubscriber(t, s, e, L)
      PROVE  patch' = patch /\ ContactsInv' /\ NoneReleased
  BY <1>3, CreateSubscriberInv DEF CreateMailViewSubscriber, HostCreateSubscriber
<1>4. ASSUME NEW t \in Tenants, NEW s \in Subs, NEW e \in Emails, HostUpdateSubscriber(t, s, e)
      PROVE  patch' = patch /\ ContactsInv' /\ NoneReleased
  BY <1>4, UpdateSubscriberInv DEF HostUpdateSubscriber
<1>5. ASSUME NEW t \in Tenants, NEW s \in Subs, HostBlocklist(t, s) \/ HostDeleteSubscriber(t, s)
      PROVE  patch' = patch /\ ContactsInv' /\ NoneReleased
  BY <1>5, BlocklistInv, DeleteSubscribersInv
     DEF HostBlocklist, HostDeleteSubscriber, DeleteSubscriber
<1>6. ASSUME NEW t \in Tenants, NEW s \in Subs, NEW b \in BOOLEAN, HostGovernance(t, s, b)
      PROVE  patch' = patch /\ ContactsInv' /\ NoneReleased
  BY <1>6, GovernanceInv DEF HostGovernance
<1>7. ASSUME NEW t \in Tenants, NEW s \in Subs, NEW r \in Requests, HostPatchRead(r, t, s)
      PROVE  patch' \in Patches /\ ContactsInv' /\ NoneReleased
  <2>1. sub[s].email \in Emails \cup {None}
    BY DEF ContactsInv, TablesOK, SubRow
  <2>2. patch' \in Patches
    BY <1>7, <2>1 DEF HostPatchRead, Patches, PatchRow
  <2> QED BY <1>7, <2>2, SameContacts DEF HostPatchRead
<1>8. ASSUME NEW t \in Tenants, NEW S \in SUBSET Subs,
             HostBlocklistMany(t, S) \/ HostDeleteSubscribers(t, S)
      PROVE  patch' = patch /\ ContactsInv' /\ NoneReleased
  BY <1>8, BlocklistInv, DeleteSubscribersInv DEF HostBlocklistMany, HostDeleteSubscribers
<1>9. ASSUME NEW t \in Tenants, NEW S \in SUBSET Subs, NEW L \in SUBSET Lists, NEW action,
             NEW status \in MemberStatuses, HostManageLists(t, S, L, action, status)
      PROVE  patch' = patch /\ ContactsInv' /\ NoneReleased
  BY <1>9, ManageListsInv DEF HostManageLists
<1>10. ASSUME NEW r \in Requests, HostPatchFails(r)
       PROVE  patch' \in Patches /\ ContactsInv' /\ NoneReleased
  BY <1>10, SameContacts DEF HostPatchFails, Idle, Patches, PatchRow
<1>11. ASSUME NEW r \in Requests, NEW e \in Emails \cup {None}, HostPatchWrite(r, e)
       PROVE  patch' \in Patches /\ ContactsInv' /\ NoneReleased
  <2>1. patch' \in Patches
    BY <1>11 DEF HostPatchWrite, Idle, Patches, PatchRow
  <2>2. (IF e = None THEN patch[r].email ELSE e) \in Emails \cup {None}
        /\ patch[r].tenant \in Tenants \cup {Unused} /\ patch[r].sub \in Subs \cup {None}
    BY DEF Patches, PatchRow
  <2> QED BY <1>11, <2>1, <2>2, UpdateSubscriberInv DEF HostPatchWrite
<1> QED BY <1>1, <1>2, <1>3, <1>4, <1>5, <1>6, <1>7, <1>8, <1>9, <1>10, <1>11
        DEF HostContactsNext

\* So does every public request, but for the preferences form.
LEMMA PublicNextInv ==
  ASSUME ContactsTypeOK, patch \in Patches, ContactsInv, PublicContactsNext
  PROVE  patch' \in Patches /\ ContactsInv' /\ Released
<1>1. ASSUME NEW t \in Tenants, NEW s \in Subs, PublicWipe(t, s)
      PROVE  patch' = patch /\ ContactsInv' /\ NoneReleased
  BY <1>1, DeleteSubscribersInv DEF PublicWipe, DeleteSubscriber
<1>2. ASSUME NEW t \in Tenants, NEW s \in Subs, NEW r \in Requests, PublicPrefsRead(r, t, s)
      PROVE  patch' \in Patches /\ ContactsInv' /\ NoneReleased
  <2>1. sub[s].email \in Emails \cup {None} /\ sub[s].status \in SubStatuses \cup {Gone}
    BY DEF ContactsInv, TablesOK, SubRow
  <2>2. patch' \in Patches
    BY <1>2, <2>1 DEF PublicPrefsRead, Patches, PatchRow
  <2> QED BY <1>2, <2>2, SameContacts DEF PublicPrefsRead
<1>3. ASSUME NEW t \in Tenants, NEW s \in Subs, NEW L \in SUBSET Lists, PublicConfirm(t, s, L)
      PROVE  patch' = patch /\ ContactsInv' /\ NoneReleased
  <2>1. "confirmed" \in MemberStatuses /\ sub \in [Subs -> SubRow]
    BY DEF MemberStatuses, ContactsInv, TablesOK
  <2>2. ContactsInv'
    BY <1>3, <2>1, PublicEditInv DEF PublicConfirm
  <2> QED BY <1>3, <2>2 DEF PublicConfirm, NoneReleased, Sendable
<1>4. ASSUME NEW t \in Tenants, NEW s \in Subs, NEW L \in SUBSET Lists, NEW b \in BOOLEAN,
             PublicUnsubscribe(t, s, L, b)
      PROVE  patch' = patch /\ ContactsInv' /\ NoneReleased
  <2>1. patch' = patch
    BY <1>4 DEF PublicUnsubscribe
  <2> QED BY <1>4, <2>1, PublicUnsubscribeInv
<1>5. ASSUME NEW t \in Tenants, NEW s \in Subs, NEW L \in SUBSET Lists, NEW e \in Emails,
             PublicSubscribe(t, s, e, L)
      PROVE  patch' = patch /\ ContactsInv' /\ NoneReleased
  <2>1. patch' = patch
    BY <1>5 DEF PublicSubscribe
  <2> QED BY <1>5, <2>1, CreateSubscriberInv
<1>6. ASSUME NEW r \in Requests, NEW L \in SUBSET Lists, PublicPrefsWrite(r, L)
      PROVE  patch' \in Patches /\ ContactsInv' /\ Released
  <2>1. patch' \in Patches
    BY <1>6 DEF PublicPrefsWrite, Idle, Patches, PatchRow
  <2> QED BY <1>6, <2>1, PublicPrefsWriteInv
<1>7. NoneReleased => Released
  BY DEF NoneReleased, Released
<1> QED BY <1>1, <1>2, <1>3, <1>4, <1>5, <1>6, <1>7 DEF PublicContactsNext

\* Every call keeps the tenants apart, and the suppressed blocklisted.
LEMMA ContactsNextInv ==
  ASSUME ContactsTypeOK, ContactsInv, ContactsNext
  PROVE  ContactsTypeOK' /\ ContactsInv' /\ Released
<1>1. patch \in Patches
  BY DEF ContactsTypeOK, Patches, PatchRow
<1>2. patch' \in Patches /\ ContactsInv' /\ Released
  BY <1>1, HostNextInv, PublicNextInv DEF ContactsNext, NoneReleased, Released
<1> QED BY <1>2 DEF ContactsTypeOK, ContactsInv, TablesOK, Patches, PatchRow

-----------------------------------------------------------------------------
(* The import jobs: what must hold. *)

Rows(j) == job[j].file.rows
Waiting == {"open", "write", "spawn", "process"}

\* A job that is not claimed has imported nothing.
RowsInv ==
  \A j \in Jobs :
    /\ job[j].imported + job[j].errors = job[j].processed
    /\ job[j].processed <= Len(Rows(j))
    /\ job[j].status \in {"none", "pending"} => job[j].processed = 0 /\ job[j].imported = 0

\* An actor that is not idle acts for a tenant on a job, has counted nothing
\* before it claims the job, agrees with its row from then on, and finishes
\* after the last row.
ActorsInv ==
  \A a \in Actors :
    /\ actor[a].pc # "idle" => actor[a].job \in Jobs /\ actor[a].tenant \in Tenants
    /\ actor[a].pc \in Waiting => actor[a].total = 0 /\ actor[a].imported = 0
    /\ Working(a) => /\ job[actor[a].job].status \in {"processing", "cancelled"}
                     /\ job[actor[a].job].processed = actor[a].total
                     /\ job[actor[a].job].imported = actor[a].imported
    /\ actor[a].pc = "finish" => actor[a].total = Len(Rows(actor[a].job))

JobsTypeOK == job \in [Jobs -> JobRow] /\ actor \in [Actors -> ActorState]
              /\ disk \in [Jobs -> {"absent", "partial", "whole"}]
JobsInv == JobsTypeOK /\ RowsInv /\ ActorsInv /\ OneWorker

-----------------------------------------------------------------------------
(* Rows of a file *)

\* The rows of a job's file are a sequence.
LEMMA RowsType ==
  ASSUME JobsTypeOK, NEW j \in Jobs
  PROVE  Rows(j) \in Seq(Emails \cup {NoAt, Ragged}) /\ Len(Rows(j)) \in Nat
<1>1. job[j].file \in Files \/ job[j].file = NoFile
  BY DEF JobsTypeOK, JobRow
<1>2. CASE job[j].file \in Files
  BY <1>2, ImportAssumption DEF Rows
<1>3. CASE job[j].file = NoFile
  BY <1>3 DEF Rows, NoFile
<1> QED BY <1>1, <1>2, <1>3

\* A batch ends within the file, is empty only after its last row, and has as
\* many good rows as rows at most.
LEMMA BatchFacts ==
  ASSUME JobsInv, NEW a \in Actors, actor[a].pc = "rows"
  PROVE  LET j == actor[a].job
             batch == NextBatch(a)
         IN /\ j \in Jobs /\ Len(batch) \in Nat
            /\ actor[a].total + Len(batch) <= Len(Rows(j))
            /\ batch # <<>> => Len(batch) > 0
            /\ batch = <<>> => actor[a].total = Len(Rows(j))
            /\ {batch[i] : i \in Good(batch)} \subseteq Emails
            /\ Cardinality(Good(batch)) \in Nat /\ Cardinality(Good(batch)) <= Len(batch)
<1> DEFINE j == actor[a].job
           batch == NextBatch(a)
           total == actor[a].total
           last == total + BatchSize
           n == IF last < Len(Rows(j)) THEN last ELSE Len(Rows(j))
<1>1. j \in Jobs /\ total \in Nat /\ total <= Len(Rows(j))
  <2>1. j \in Jobs /\ job[j].processed = total /\ Working(a)
    BY DEF JobsInv, ActorsInv, Working
  <2> QED BY <2>1 DEF JobsInv, RowsInv, JobsTypeOK, ActorState
<1>2. Rows(j) \in Seq(Emails \cup {NoAt, Ragged}) /\ Len(Rows(j)) \in Nat
  BY <1>1, RowsType DEF JobsInv
<1>3. BatchSize \in Nat \ {0}
  BY ImportAssumption
<1>4. n \in Nat /\ n >= total /\ n <= Len(Rows(j)) /\ (n = total => total = Len(Rows(j)))
  BY <1>1, <1>2, <1>3
<1>5. batch = SubSeq(Rows(j), total + 1, n)
  BY DEF NextBatch, Rows
<1> HIDE DEF n
<1>6. \A i \in total + 1 .. n : Rows(j)[i] \in Emails \cup {NoAt, Ragged}
  BY <1>1, <1>2, <1>4
<1>7. /\ batch \in Seq(Emails \cup {NoAt, Ragged})
      /\ Len(batch) = IF total + 1 <= n THEN n - (total + 1) + 1 ELSE 0
  BY <1>1, <1>4, <1>5, <1>6, SubSeqProperties
<1>8. Len(batch) = n - total
  BY <1>1, <1>4, <1>7
<1>9. batch = <<>> <=> Len(batch) = 0
  BY <1>7, EmptySeq
<1>10. Good(batch) \in SUBSET (1 .. Len(batch))
  BY <1>7 DEF Good
<1>11. Len(batch) \in Nat
  BY <1>7
<1>12. IsFiniteSet(1 .. Len(batch)) /\ Cardinality(1 .. Len(batch)) = Len(batch)
  BY <1>11, FS_Interval, SMTT(30)
<1>13. IsFiniteSet(Good(batch)) /\ Cardinality(Good(batch)) <= Len(batch)
  BY <1>10, <1>12, FS_Subset
<1>14. Cardinality(Good(batch)) \in Nat
  BY <1>13, FS_CardinalityType
<1>15. {batch[i] : i \in Good(batch)} \subseteq Emails
  BY DEF Good
<1> QED BY <1>1, <1>4, <1>8, <1>9, <1>11, <1>13, <1>14, <1>15

-----------------------------------------------------------------------------
(* Moves of an actor, and writes of a row *)

\* An actor that moves on keeps its job and its counts.
LEMMA GotoFacts ==
  ASSUME JobsTypeOK, NEW a \in Actors, NEW pc, Goto(a, pc),
         pc \in {"open", "write", "spawn", "process", "read", "rows", "fail", "finish"}
  PROVE  /\ actor' \in [Actors -> ActorState]
         /\ actor'[a] = [actor[a] EXCEPT !.pc = pc] /\ actor'[a].pc = pc
         /\ actor'[a].job = actor[a].job /\ actor'[a].tenant = actor[a].tenant
         /\ actor'[a].total = actor[a].total /\ actor'[a].imported = actor[a].imported
         /\ \A b \in Actors : b # a => actor'[b] = actor[b]
BY DEF Goto, JobsTypeOK, ActorState

\* A status is written over any other.
LEMMA SetStatusFacts ==
  ASSUME JobsTypeOK, NEW j \in Jobs, NEW status \in JobStatuses, SetStatus(j, status)
  PROVE  /\ job' \in [Jobs -> JobRow] /\ job'[j].status = status
         /\ \A k \in Jobs : k # j => job'[k] = job[k]
         /\ \A k \in Jobs :
              /\ job'[k].file = job[k].file /\ job'[k].processed = job[k].processed
              /\ job'[k].imported = job[k].imported /\ job'[k].errors = job[k].errors
              /\ job'[k].tenant = job[k].tenant
BY DEF SetStatus, JobsTypeOK, JobRow

\* An actor that moves on without a write keeps the invariant.
LEMMA MoveInv ==
  ASSUME JobsInv, NEW a \in Actors, NEW pc, Goto(a, pc), UNCHANGED job,
         pc \in {"open", "write", "spawn", "process", "read", "rows", "fail", "finish"},
         actor[a].pc # "idle", disk' \in [Jobs -> {"absent", "partial", "whole"}],
         pc \in Waiting => actor[a].pc \in Waiting, pc \notin Waiting => Working(a),
         pc = "finish" => actor[a].total = Len(Rows(actor[a].job))
  PROVE  JobsInv'
<1>1. /\ actor' \in [Actors -> ActorState] /\ actor'[a].pc = pc
      /\ actor'[a].job = actor[a].job /\ actor'[a].tenant = actor[a].tenant
      /\ actor'[a].total = actor[a].total /\ actor'[a].imported = actor[a].imported
      /\ \A b \in Actors : b # a => actor'[b] = actor[b]
  BY GotoFacts DEF JobsInv
<1>2. \A b \in Actors : Working(b)' => Working(b) /\ actor'[b].job = actor[b].job
  BY <1>1 DEF Working, Waiting
<1>3. JobsTypeOK'
  BY <1>1 DEF JobsInv, JobsTypeOK
<1>4. RowsInv'
  BY DEF JobsInv, RowsInv, Rows
<1>5. ActorsInv'
  BY <1>1, <1>2 DEF JobsInv, ActorsInv, Rows
<1>6. OneWorker'
  BY <1>2 DEF JobsInv, OneWorker
<1> QED BY <1>3, <1>4, <1>5, <1>6 DEF JobsInv

\* One field of an actor that stops: it is idle.
LEMMA StopFacts ==
  ASSUME JobsTypeOK, NEW a \in Actors, Stop(a)
  PROVE  /\ actor' \in [Actors -> ActorState] /\ actor'[a].pc = "idle" /\ ~Working(a)'
         /\ \A b \in Actors : b # a => actor'[b] = actor[b]
BY DEF Stop, Resting, JobsTypeOK, ActorState, Working

\* An actor that stops may leave its job behind, with a status and counts that
\* the other actors do not rely on.
LEMMA StopInv ==
  ASSUME JobsInv, NEW a \in Actors, Stop(a), UNCHANGED disk,
         job' \in [Jobs -> JobRow], RowsInv',
         \A k \in Jobs : job'[k].file = job[k].file /\ (job'[k] # job[k] => Working(a) /\ k = actor[a].job)
  PROVE  JobsInv'
<1>1. /\ actor' \in [Actors -> ActorState] /\ actor'[a].pc = "idle" /\ ~Working(a)'
      /\ \A b \in Actors : b # a => actor'[b] = actor[b]
  BY StopFacts DEF JobsInv
<1>2. JobsTypeOK'
  BY <1>1 DEF JobsInv, JobsTypeOK
<1>3. \A b \in Actors : Working(b)' => Working(b) /\ b # a /\ actor'[b] = actor[b]
  BY <1>1 DEF Working
<1>4. ASSUME NEW b \in Actors, Working(b)'
      PROVE  job'[actor[b].job] = job[actor[b].job]
  <2>1. Working(b) /\ b # a /\ actor[b].job \in Jobs
    BY <1>3, <1>4 DEF JobsInv, ActorsInv, Working
  <2> QED BY <2>1 DEF JobsInv, OneWorker
<1>5. ActorsInv'
  <2> SUFFICES ASSUME NEW b \in Actors
               PROVE  /\ actor'[b].pc # "idle" => actor'[b].job \in Jobs /\ actor'[b].tenant \in Tenants
                      /\ actor'[b].pc \in Waiting => actor'[b].total = 0 /\ actor'[b].imported = 0
                      /\ Working(b)' =>
                           /\ job'[actor'[b].job].status \in {"processing", "cancelled"}
                           /\ job'[actor'[b].job].processed = actor'[b].total
                           /\ job'[actor'[b].job].imported = actor'[b].imported
                      /\ actor'[b].pc = "finish" => actor'[b].total = Len(job'[actor'[b].job].file.rows)
    BY DEF ActorsInv, Rows
  <2>1. CASE b = a
    BY <2>1, <1>1 DEF Waiting
  <2>2. CASE b # a
    <3>1. actor'[b] = actor[b]
      BY <2>2, <1>1
    <3>2. Working(b)' <=> Working(b)
      BY <3>1 DEF Working
    <3>3. actor[b].pc = "finish" => Working(b)
      BY DEF Working
    <3> QED BY <3>1, <3>2, <3>3, <1>4 DEF JobsInv, ActorsInv, Rows
  <2> QED BY <2>1, <2>2
<1>6. OneWorker'
  BY <1>3 DEF JobsInv, OneWorker
<1> QED BY <1>2, <1>5, <1>6 DEF JobsInv

\* An actor that starts has counted nothing; jobs that are claimed stay as they are.
LEMMA StartInv ==
  ASSUME JobsInv, NEW a \in Actors, NEW t \in Tenants, NEW pc \in {"open", "spawn"},
         NEW j \in Jobs, Start(a, t, pc, j), UNCHANGED disk, job' \in [Jobs -> JobRow], RowsInv',
         \A k \in Jobs : job[k].status # "none" => job'[k] = job[k]
  PROVE  JobsInv'
<1>1. actor' = [actor EXCEPT ![a] = [Resting EXCEPT !.pc = pc, !.tenant = t, !.job = j]]
  BY DEF Start
<1> DEFINE new == [Resting EXCEPT !.pc = pc, !.tenant = t, !.job = j]
<1>2. /\ new \in ActorState /\ new.pc = pc /\ new.tenant = t /\ new.job = j
      /\ new.total = 0 /\ new.imported = 0
  BY DEF Resting, ActorState
<1> HIDE DEF new
<1>3. /\ actor' \in [Actors -> ActorState] /\ actor'[a] = new
      /\ \A b \in Actors : b # a => actor'[b] = actor[b]
  BY <1>1, <1>2 DEF JobsInv, JobsTypeOK, new
<1>4. ~Working(a)'
  BY <1>2, <1>3 DEF Working
<1>5. \A b \in Actors : Working(b)' => Working(b) /\ b # a /\ actor'[b] = actor[b]
  BY <1>3, <1>4 DEF Working
<1>6. \A b \in Actors : Working(b)' =>
        actor[b].job \in Jobs /\ job'[actor[b].job] = job[actor[b].job]
  <2> SUFFICES ASSUME NEW b \in Actors, Working(b)'
               PROVE  actor[b].job \in Jobs /\ job'[actor[b].job] = job[actor[b].job]
    OBVIOUS
  <2>1. Working(b) /\ actor[b].pc # "idle"
    BY <1>5 DEF Working
  <2> QED BY <2>1 DEF JobsInv, ActorsInv
<1>7. JobsTypeOK'
  BY <1>3 DEF JobsInv, JobsTypeOK
<1>8. ActorsInv'
  <2> SUFFICES ASSUME NEW b \in Actors
               PROVE  /\ actor'[b].pc # "idle" => actor'[b].job \in Jobs /\ actor'[b].tenant \in Tenants
                      /\ actor'[b].pc \in Waiting => actor'[b].total = 0 /\ actor'[b].imported = 0
                      /\ Working(b)' =>
                           /\ job'[actor'[b].job].status \in {"processing", "cancelled"}
                           /\ job'[actor'[b].job].processed = actor'[b].total
                           /\ job'[actor'[b].job].imported = actor'[b].imported
                      /\ actor'[b].pc = "finish" => actor'[b].total = Len(job'[actor'[b].job].file.rows)
    BY DEF ActorsInv, Rows
  <2>1. CASE b = a
    BY <2>1, <1>2, <1>3, <1>4
  <2>2. CASE b # a
    <3>1. actor'[b] = actor[b] /\ (actor'[b].pc = "finish" => Working(b)')
      BY <2>2, <1>3 DEF Working
    <3>2. /\ actor[b].pc # "idle" => actor[b].job \in Jobs /\ actor[b].tenant \in Tenants
          /\ actor[b].pc \in Waiting => actor[b].total = 0 /\ actor[b].imported = 0
          /\ Working(b) => /\ job[actor[b].job].status \in {"processing", "cancelled"}
                           /\ job[actor[b].job].processed = actor[b].total
                           /\ job[actor[b].job].imported = actor[b].imported
          /\ actor[b].pc = "finish" => actor[b].total = Len(job[actor[b].job].file.rows)
      BY DEF JobsInv, ActorsInv, Rows
    <3>3. Working(b)' => Working(b) /\ job'[actor[b].job] = job[actor[b].job]
      BY <1>5, <1>6
    <3> QED BY <3>1, <3>2, <3>3 DEF Rows
  <2> QED BY <2>1, <2>2
<1>9. OneWorker'
  BY <1>5 DEF JobsInv, OneWorker
<1> QED BY <1>7, <1>8, <1>9 DEF JobsInv

-----------------------------------------------------------------------------
(* Counts *)

\* A batch is counted in the row of its job alone,
LEMMA CountedFacts ==
  ASSUME job \in [Jobs -> JobRow], NEW j \in Jobs, NEW n \in Nat, NEW m \in Nat, m <= n,
         job' = Counted(j, n, m)
  PROVE  /\ job' \in [Jobs -> JobRow]
         /\ job'[j].processed = job[j].processed + n
         /\ job'[j].imported = job[j].imported + m
         /\ job'[j].errors = job[j].errors + n - m
         /\ job'[j].status = job[j].status /\ job'[j].file = job[j].file
         /\ \A k \in Jobs : k # j => job'[k] = job[k]
<1>1. /\ job[j] \in JobRow
      /\ job[j].processed \in Nat /\ job[j].imported \in Nat /\ job[j].errors \in Nat
  BY DEF JobRow
<1>2. PICK x \in Nat, y \in Nat, z \in Nat :
        x = job[j].processed + n /\ y = job[j].imported + m /\ z = job[j].errors + n - m
  BY <1>1
<1> DEFINE new == [job[j] EXCEPT !.processed = x, !.imported = y, !.errors = z]
<1>3. job' = [job EXCEPT ![j] = new]
  BY <1>2 DEF Counted
<1>4. /\ new \in JobRow /\ new.processed = x /\ new.imported = y /\ new.errors = z
      /\ new.status = job[j].status /\ new.file = job[j].file
  BY <1>1 DEF JobRow
<1> HIDE DEF new
<1> QED BY <1>2, <1>3, <1>4

\* and by its worker.
LEMMA WorkerCounts ==
  ASSUME JobsTypeOK, NEW a \in Actors, NEW n \in Nat, NEW m \in Nat,
         actor' = [actor EXCEPT ![a].total = @ + n, ![a].imported = @ + m]
  PROVE  /\ actor' \in [Actors -> ActorState]
         /\ actor'[a].total = actor[a].total + n /\ actor'[a].imported = actor[a].imported + m
         /\ actor'[a].pc = actor[a].pc /\ actor'[a].job = actor[a].job
         /\ actor'[a].tenant = actor[a].tenant
         /\ \A b \in Actors : b # a => actor'[b] = actor[b]
<1>1. /\ actor \in [Actors -> ActorState] /\ actor[a] \in ActorState
      /\ actor[a].total \in Nat /\ actor[a].imported \in Nat
  BY DEF JobsTypeOK, ActorState
<1>2. PICK x \in Nat, y \in Nat : x = actor[a].total + n /\ y = actor[a].imported + m
  BY <1>1
<1> DEFINE new == [actor[a] EXCEPT !.total = x, !.imported = y]
<1>3. actor' = [actor EXCEPT ![a] = new]
  BY <1>2
<1>4. /\ new \in ActorState /\ new.total = x /\ new.imported = y
      /\ new.pc = actor[a].pc /\ new.job = actor[a].job /\ new.tenant = actor[a].tenant
  BY <1>1 DEF ActorState
<1> HIDE DEF new
<1> QED BY <1>1, <1>2, <1>3, <1>4

\* The worker's counts replace those of the row.
LEMMA TalliedFacts ==
  ASSUME JobsTypeOK, NEW j \in Jobs, NEW a \in Actors, job' = Tallied(a, j),
         actor[a].imported <= actor[a].total
  PROVE  /\ job' \in [Jobs -> JobRow] /\ job'[j].status = "completed"
         /\ job'[j].processed = actor[a].total /\ job'[j].imported = actor[a].imported
         /\ job'[j].errors = actor[a].total - actor[a].imported /\ job'[j].file = job[j].file
         /\ \A k \in Jobs : k # j => job'[k] = job[k]
<1>1. /\ job \in [Jobs -> JobRow] /\ job[j] \in JobRow
      /\ actor[a].total \in Nat /\ actor[a].imported \in Nat
  BY DEF JobsTypeOK, ActorState
<1>2. PICK x \in Nat, y \in Nat, z \in Nat :
        x = actor[a].total /\ y = actor[a].imported /\ z = actor[a].total - actor[a].imported
  BY <1>1
<1> DEFINE new == [job[j] EXCEPT !.status = "completed", !.processed = x, !.imported = y,
                                 !.errors = z]
<1>3. job' = [job EXCEPT ![j] = new]
  BY <1>2 DEF Tallied
<1>4. /\ new \in JobRow /\ new.processed = x /\ new.imported = y /\ new.errors = z
      /\ new.status = "completed" /\ new.file = job[j].file
  BY <1>1 DEF JobRow, JobStatuses
<1> HIDE DEF new
<1> QED BY <1>1, <1>2, <1>3, <1>4

-----------------------------------------------------------------------------
(* The steps that write a row *)

\* A new job has imported nothing.
LEMMA CreateJobInv ==
  ASSUME JobsInv, NEW a \in Actors, NEW t \in Tenants, NEW k \in Keys,
         NEW L \in SUBSET Lists, NEW f \in Files, CreateJob(a, t, k, L, f)
  PROVE  JobsInv'
<1> PICK j \in Jobs :
      /\ job[j] = NoJob
      /\ job' = [job EXCEPT ![j] = [NoJob EXCEPT !.status = "pending", !.tenant = t,
                                                 !.key = k, !.lists = L, !.file = f]]
      /\ Start(a, t, "open", j) /\ UNCHANGED <<contactVars, disk, crashes>>
  BY DEF CreateJob
<1> DEFINE new == [NoJob EXCEPT !.status = "pending", !.tenant = t,
                                !.key = k, !.lists = L, !.file = f]
<1>1. /\ new \in JobRow /\ new.processed = 0 /\ new.imported = 0 /\ new.errors = 0
      /\ new.file = f
  BY DEF NoJob, JobRow, JobStatuses
<1> HIDE DEF new
<1>2. /\ job' \in [Jobs -> JobRow] /\ job'[j] = new
      /\ \A i \in Jobs : i # j => job'[i] = job[i]
  BY <1>1 DEF JobsInv, JobsTypeOK, new
<1>3. Len(f.rows) \in Nat
  BY ImportAssumption
<1>4. RowsInv'
  <2>1. /\ job'[j].imported + job'[j].errors = job'[j].processed
        /\ job'[j].processed <= Len(job'[j].file.rows)
        /\ job'[j].processed = 0 /\ job'[j].imported = 0
    <3>1. /\ job'[j].imported = 0 /\ job'[j].errors = 0 /\ job'[j].processed = 0
          /\ job'[j].file.rows = f.rows
      BY <1>1, <1>2
    <3> QED BY <3>1, <1>3
  <2> QED BY <1>2, <2>1 DEF JobsInv, RowsInv, Rows
<1>5. \A i \in Jobs : job[i].status # "none" => job'[i] = job[i]
  BY <1>2 DEF NoJob
<1> QED BY <1>2, <1>4, <1>5, StartInv

\* Nobody works on a pending job, so that its claim makes its one worker.
LEMMA ProcessJobInv ==
  ASSUME JobsInv, NEW a \in Actors, ProcessJob(a)
  PROVE  JobsInv'
<1> DEFINE j == actor[a].job
<1>1. actor[a].pc = "process" /\ j \in Jobs /\ actor[a].tenant \in Tenants
      /\ actor[a].total = 0 /\ actor[a].imported = 0 /\ disk' = disk
  BY DEF ProcessJob, JobsInv, ActorsInv, Waiting
<1>2. CASE Stop(a) /\ UNCHANGED job
  BY <1>1, <1>2, StopInv DEF JobsInv, JobsTypeOK, RowsInv, Rows
<1>3. CASE job[j].status = "pending" /\ SetStatus(j, "processing") /\ Goto(a, "read")
  <2>1. /\ job' \in [Jobs -> JobRow] /\ job'[j].status = "processing"
        /\ \A k \in Jobs : k # j => job'[k] = job[k]
        /\ \A k \in Jobs :
             /\ job'[k].file = job[k].file /\ job'[k].processed = job[k].processed
             /\ job'[k].imported = job[k].imported /\ job'[k].errors = job[k].errors
    BY <1>1, <1>3, SetStatusFacts DEF JobsInv, JobStatuses
  <2>2. /\ actor' \in [Actors -> ActorState] /\ actor'[a].pc = "read" /\ actor'[a].job = j
        /\ actor'[a].tenant = actor[a].tenant /\ actor'[a].total = 0 /\ actor'[a].imported = 0
        /\ \A b \in Actors : b # a => actor'[b] = actor[b]
    BY <1>1, <1>3, GotoFacts DEF JobsInv
  <2>3. job[j].processed = 0 /\ job[j].imported = 0
    BY <1>1, <1>3 DEF JobsInv, RowsInv
  <2>4. ASSUME NEW b \in Actors, b # a
        PROVE  /\ Working(b)' <=> Working(b)
               /\ Working(b) => actor[b].job \in Jobs /\ actor[b].job # j
    BY <1>3, <2>2, <2>4 DEF JobsInv, ActorsInv, Working
  <2>5. JobsTypeOK'
    BY <1>1, <2>1, <2>2 DEF JobsInv, JobsTypeOK
  <2>6. RowsInv'
    <3>1. \A k \in Jobs : job'[k].status = "processing" \/ job'[k].status = job[k].status
      BY <2>1
    <3> QED BY <2>1, <3>1 DEF JobsInv, RowsInv, Rows
  <2>7. OneWorker'
    BY <2>2, <2>4 DEF JobsInv, OneWorker
  <2>8. ActorsInv'
    <3> SUFFICES ASSUME NEW b \in Actors
                 PROVE  /\ actor'[b].pc # "idle" => actor'[b].job \in Jobs /\ actor'[b].tenant \in Tenants
                        /\ actor'[b].pc \in Waiting => actor'[b].total = 0 /\ actor'[b].imported = 0
                        /\ Working(b)' =>
                             /\ job'[actor'[b].job].status \in {"processing", "cancelled"}
                             /\ job'[actor'[b].job].processed = actor'[b].total
                             /\ job'[actor'[b].job].imported = actor'[b].imported
                        /\ actor'[b].pc = "finish" => actor'[b].total = Len(job'[actor'[b].job].file.rows)
      BY DEF ActorsInv, Rows
    <3>1. CASE b = a
      BY <3>1, <1>1, <2>1, <2>2, <2>3
    <3>2. CASE b # a
      <4>1. actor'[b] = actor[b] /\ (actor[b].pc = "finish" => Working(b))
        BY <3>2, <2>2 DEF Working
      <4>2. Working(b) => actor[b].job \in Jobs /\ job'[actor[b].job] = job[actor[b].job]
        BY <3>2, <2>1, <2>4
      <4> QED BY <4>1, <4>2, <2>4, <3>2 DEF JobsInv, ActorsInv, Rows
    <3> QED BY <3>1, <3>2
  <2> QED BY <2>5, <2>6, <2>7, <2>8 DEF JobsInv
<1> QED BY <1>2, <1>3 DEF ProcessJob, Claimable

\* A worker goes on with a job that is cancelled under it until it looks.
LEMMA CancelJobInv ==
  ASSUME JobsInv, NEW t \in Tenants, NEW j \in Jobs, CancelJob(t, j)
  PROVE  JobsInv'
<1>1. SetStatus(j, "cancelled") /\ UNCHANGED <<disk, actor>>
  BY DEF CancelJob
<1>2. /\ job' \in [Jobs -> JobRow] /\ job'[j].status = "cancelled"
      /\ \A k \in Jobs : k # j => job'[k] = job[k]
      /\ \A k \in Jobs :
           /\ job'[k].file = job[k].file /\ job'[k].processed = job[k].processed
           /\ job'[k].imported = job[k].imported /\ job'[k].errors = job[k].errors
  BY <1>1, SetStatusFacts DEF JobsInv, JobStatuses
<1>3. \A k \in Jobs : job'[k].status = "cancelled" \/ job'[k].status = job[k].status
  BY <1>2
<1>4. JobsTypeOK' /\ RowsInv'
  BY <1>1, <1>2, <1>3 DEF JobsInv, JobsTypeOK, RowsInv, Rows
<1>5. \A b \in Actors : Working(b)' <=> Working(b)
  BY <1>1 DEF Working
<1>6. OneWorker'
  BY <1>1, <1>5 DEF JobsInv, OneWorker
<1>7. ActorsInv'
  <2> SUFFICES ASSUME NEW b \in Actors
               PROVE  /\ actor[b].pc # "idle" => actor[b].job \in Jobs /\ actor[b].tenant \in Tenants
                      /\ actor[b].pc \in Waiting => actor[b].total = 0 /\ actor[b].imported = 0
                      /\ Working(b) =>
                           /\ job'[actor[b].job].status \in {"processing", "cancelled"}
                           /\ job'[actor[b].job].processed = actor[b].total
                           /\ job'[actor[b].job].imported = actor[b].imported
                      /\ actor[b].pc = "finish" => actor[b].total = Len(job'[actor[b].job].file.rows)
    BY <1>1, <1>5 DEF ActorsInv, Rows
  <2>1. actor[b].pc # "idle" => actor[b].job \in Jobs
    BY DEF JobsInv, ActorsInv
  <2>2. Working(b) => actor[b].pc # "idle"
    BY DEF Working
  <2> QED BY <1>2, <1>3, <2>1, <2>2 DEF JobsInv, ActorsInv, Rows
<1> QED BY <1>4, <1>6, <1>7 DEF JobsInv

\* A batch adds the same to the row and to its worker.
LEMMA ImportBatchInv ==
  ASSUME JobsInv, NEW a \in Actors, ImportBatch(a)
  PROVE  JobsInv'
<1> DEFINE j == actor[a].job
           batch == NextBatch(a)
           n == Cardinality(Good(batch))
           size == Len(batch)
<1>1. /\ actor[a].pc = "rows" /\ batch # <<>> /\ job[j].status = "processing"
      /\ job' = Counted(j, size, n) /\ UNCHANGED disk
      /\ actor' = [actor EXCEPT ![a].total = @ + size, ![a].imported = @ + n]
  BY DEF ImportBatch, Importable
<1>2. /\ j \in Jobs /\ size \in Nat /\ n \in Nat /\ n <= size
      /\ actor[a].total + size <= Len(Rows(j))
  BY <1>1, BatchFacts
<1>3. Working(a) /\ actor[a].tenant \in Tenants
      /\ job[j].processed = actor[a].total /\ job[j].imported = actor[a].imported
  BY <1>1 DEF Working, JobsInv, ActorsInv
<1>4. job[j] \in JobRow /\ actor[a] \in ActorState
  BY <1>2 DEF JobsInv, JobsTypeOK
<1> HIDE DEF j, batch, n, size
<1>5. /\ job' \in [Jobs -> JobRow] /\ job'[j].processed = job[j].processed + size
      /\ job'[j].imported = job[j].imported + n
      /\ job'[j].errors = job[j].errors + size - n
      /\ job'[j].status = "processing" /\ job'[j].file = job[j].file
      /\ \A k \in Jobs : k # j => job'[k] = job[k]
  BY <1>1, <1>2, CountedFacts DEF JobsInv, JobsTypeOK
<1>6. /\ actor' \in [Actors -> ActorState] /\ actor'[a].total = actor[a].total + size
      /\ actor'[a].imported = actor[a].imported + n /\ actor'[a].pc = "rows"
      /\ actor'[a].job = j /\ actor'[a].tenant = actor[a].tenant
      /\ \A b \in Actors : b # a => actor'[b] = actor[b]
  BY <1>1, <1>2, WorkerCounts, ZenonT(60) DEF JobsInv, j
<1>7. \A b \in Actors : /\ Working(b)' <=> Working(b)
                        /\ Working(b) /\ b # a => actor[b].job \in Jobs /\ actor[b].job # j
  BY <1>1, <1>3, <1>6 DEF Working, JobsInv, OneWorker, ActorsInv, j
<1>8. JobsTypeOK'
  BY <1>1, <1>5, <1>6 DEF JobsInv, JobsTypeOK
<1>9. RowsInv'
  <2>1. /\ job'[j].imported + job'[j].errors = job'[j].processed
        /\ job'[j].processed <= Len(job'[j].file.rows)
    <3>1. job[j].imported + job[j].errors = job[j].processed
      BY <1>2 DEF JobsInv, RowsInv
    <3>2. job[j].imported \in Nat /\ job[j].errors \in Nat /\ job[j].processed \in Nat
      BY <1>4 DEF JobRow
    <3>3. job'[j].imported + job'[j].errors = job'[j].processed
      BY <1>2, <1>5, <3>1, <3>2, SMTT(30)
    <3>4. job'[j].processed <= Len(job'[j].file.rows)
      BY <1>2, <1>3, <1>5 DEF Rows
    <3> QED BY <3>3, <3>4
  <2> QED BY <1>5, <2>1 DEF JobsInv, RowsInv, Rows
<1>10. OneWorker'
  BY <1>6, <1>7 DEF JobsInv, OneWorker, j
<1>11. ActorsInv'
  <2> SUFFICES ASSUME NEW b \in Actors
               PROVE  /\ actor'[b].pc # "idle" => actor'[b].job \in Jobs /\ actor'[b].tenant \in Tenants
                      /\ actor'[b].pc \in Waiting => actor'[b].total = 0 /\ actor'[b].imported = 0
                      /\ Working(b)' =>
                           /\ job'[actor'[b].job].status \in {"processing", "cancelled"}
                           /\ job'[actor'[b].job].processed = actor'[b].total
                           /\ job'[actor'[b].job].imported = actor'[b].imported
                      /\ actor'[b].pc = "finish" => actor'[b].total = Len(job'[actor'[b].job].file.rows)
    BY DEF ActorsInv, Rows
  <2>1. CASE b = a
    BY <2>1, <1>2, <1>3, <1>5, <1>6 DEF Waiting
  <2>2. CASE b # a
    <3>1. actor'[b] = actor[b] /\ (actor[b].pc = "finish" => Working(b))
      BY <2>2, <1>6 DEF Working
    <3>2. Working(b) => actor[b].job \in Jobs /\ job'[actor[b].job] = job[actor[b].job]
      BY <2>2, <1>5, <1>7
    <3> QED BY <3>1, <3>2, <1>7, <2>2 DEF JobsInv, ActorsInv, Rows
  <2> QED BY <2>1, <2>2
<1> QED BY <1>8, <1>9, <1>10, <1>11 DEF JobsInv

\* The worker of a job that is still processing writes the counts there are.
LEMMA FinishInv ==
  ASSUME JobsInv, NEW a \in Actors, Finish(a)
  PROVE  JobsInv'
<1> DEFINE j == actor[a].job
<1>1. /\ actor[a].pc = "finish" /\ Stop(a) /\ UNCHANGED disk
      /\ job' = IF job[j].status = "processing" THEN Tallied(a, j) ELSE job
  BY DEF Finish
<1>2. /\ Working(a) /\ j \in Jobs /\ actor[a].total = Len(Rows(j))
      /\ job[j].processed = actor[a].total /\ job[j].imported = actor[a].imported
  BY <1>1 DEF JobsInv, ActorsInv, Working
<1>3. job[j] \in JobRow /\ job[j].imported + job[j].errors = job[j].processed
  BY <1>2 DEF JobsInv, JobsTypeOK, RowsInv
<1>4. actor[a].imported <= actor[a].total
  BY <1>2, <1>3 DEF JobRow
<1>5. CASE job' = job
  BY <1>1, <1>5, StopInv DEF JobsInv, JobsTypeOK, RowsInv, Rows
<1>6. CASE job' = Tallied(a, j)
  <2>1. /\ job' \in [Jobs -> JobRow] /\ job'[j].status = "completed"
        /\ job'[j].processed = actor[a].total /\ job'[j].imported = actor[a].imported
        /\ job'[j].errors = actor[a].total - actor[a].imported /\ job'[j].file = job[j].file
        /\ \A k \in Jobs : k # j => job'[k] = job[k]
    BY <1>2, <1>4, <1>6, TalliedFacts DEF JobsInv
  <2>2. actor[a].total \in Nat /\ actor[a].imported \in Nat
    BY DEF JobsInv, JobsTypeOK, ActorState
  <2>3. /\ job'[j].imported + job'[j].errors = job'[j].processed
        /\ job'[j].processed <= Len(job'[j].file.rows)
    BY <1>2, <2>1, <2>2, SMTT(30) DEF Rows
  <2>4. RowsInv'
    BY <2>1, <2>3 DEF JobsInv, RowsInv, Rows
  <2>5. \A k \in Jobs : job'[k].file = job[k].file /\ (job'[k] # job[k] => k = j)
    BY <2>1
  <2> QED BY <1>1, <1>2, <2>1, <2>4, <2>5, StopInv
<1> QED BY <1>1, <1>5, <1>6

\* A failed job keeps its counts.
LEMMA FailInv ==
  ASSUME JobsInv, NEW a \in Actors, Fail(a)
  PROVE  JobsInv'
<1> DEFINE j == actor[a].job
<1>1. actor[a].pc = "fail" /\ SetStatus(j, "failed") /\ Stop(a) /\ UNCHANGED disk
  BY DEF Fail
<1>2. Working(a) /\ j \in Jobs
  BY <1>1 DEF JobsInv, ActorsInv, Working
<1>3. /\ job' \in [Jobs -> JobRow] /\ job'[j].status = "failed"
      /\ \A k \in Jobs : k # j => job'[k] = job[k]
      /\ \A k \in Jobs :
           /\ job'[k].file = job[k].file /\ job'[k].processed = job[k].processed
           /\ job'[k].imported = job[k].imported /\ job'[k].errors = job[k].errors
  BY <1>1, <1>2, SetStatusFacts DEF JobsInv, JobStatuses
<1>4. \A k \in Jobs : job'[k].status = "failed" \/ job'[k].status = job[k].status
  BY <1>3
<1>5. RowsInv'
  BY <1>3, <1>4 DEF JobsInv, RowsInv, Rows
<1> QED BY <1>1, <1>2, <1>3, <1>5, StopInv

\* A replayed upload acts on the job there is.
LEMMA ReplayJobInv ==
  ASSUME JobsInv, NEW a \in Actors, NEW t \in Tenants, NEW k \in Keys, ReplayJob(a, t, k)
  PROVE  JobsInv'
<1> PICK j \in JobsOf(t, k) : Start(a, t, "spawn", j) /\ UNCHANGED <<contactVars, job, disk, crashes>>
  BY DEF ReplayJob
<1> QED BY StartInv DEF JobsOf, JobsInv, JobsTypeOK, RowsInv, Rows

\* A crash stops all actors.
LEMMA CrashInv ==
  ASSUME JobsInv, Crash
  PROVE  JobsInv'
<1>1. /\ actor' \in [Actors -> ActorState] /\ UNCHANGED <<job, disk>>
      /\ \A a \in Actors : actor'[a].pc = "idle" /\ ~Working(a)'
  BY DEF Crash, Resting, ActorState, Working
<1> QED BY <1>1 DEF JobsInv, JobsTypeOK, RowsInv, Rows, ActorsInv, OneWorker, Waiting

-----------------------------------------------------------------------------
(* All steps *)

\* Every step of the jobs keeps their invariant.
LEMMA JobStepInv ==
  ASSUME JobsInv, JobStep
  PROVE  JobsInv'
<1> DEFINE Disks == [Jobs -> {"absent", "partial", "whole"}]
<1>1. disk \in Disks /\ (UNCHANGED disk => disk' \in Disks)
  BY DEF JobsInv, JobsTypeOK
<1>2. UNCHANGED job => job' \in [Jobs -> JobRow] /\ RowsInv'
  BY DEF JobsInv, JobsTypeOK, RowsInv, Rows
<1>3. ASSUME NEW a \in Actors, NEW t \in Tenants, NEW k \in Keys,
             ReplayJob(a, t, k) \/ \E L \in SUBSET Lists, f \in Files : CreateJob(a, t, k, L, f)
      PROVE  JobsInv'
  BY <1>3, ReplayJobInv, CreateJobInv
<1>4. ASSUME NEW a \in Actors, Request(a) PROVE JobsInv'
  <2>1. CASE OpenFile(a)
    <3>1. disk' \in Disks
      BY <1>1, <2>1 DEF OpenFile
    <3> QED BY <2>1, <3>1, MoveInv DEF OpenFile, Waiting
  <2>2. CASE WriteFile(a)
    <3>1. disk' \in Disks
      BY <1>1, <2>2 DEF WriteFile
    <3> QED BY <2>2, <3>1, MoveInv DEF WriteFile, Waiting
  <2>3. CASE Spawn(a)
    BY <1>1, <2>3, MoveInv DEF Spawn, Waiting
  <2> QED BY <1>4, <2>1, <2>2, <2>3 DEF Request
<1>5. ASSUME NEW a \in Actors, StartFails(a) PROVE JobsInv'
  BY <1>2, <1>5, StopInv DEF StartFails
<1>6. ASSUME NEW a \in Actors, Worker(a) PROVE JobsInv'
  <2>1. CASE ReadFile(a)
    BY <1>1, <2>1, MoveInv DEF ReadFile, Waiting, Working
  <2>2. CASE RowFails(a) \/ BatchFails(a)
    BY <1>1, <2>2, MoveInv DEF RowFails, BatchFails, Waiting, Working
  <2>3. CASE BatchCancelled(a)
    BY <1>2, <2>3, StopInv DEF BatchCancelled
  <2>4. CASE RowsEnd(a)
    BY <1>1, <2>4, MoveInv, BatchFacts DEF RowsEnd, Waiting, Working
  <2> QED BY <1>6, <2>1, <2>2, <2>3, <2>4, ProcessJobInv, ImportBatchInv, FinishInv, FailInv
          DEF Worker
<1>7. ASSUME NEW t \in Tenants, NEW j \in Jobs, CancelJob(t, j) PROVE JobsInv'
  BY <1>7, CancelJobInv
<1> QED BY <1>3, <1>4, <1>5, <1>6, <1>7, CrashInv DEF JobStep

\* The contacts a batch adds are new to its tenant, and join lists of it.
LEMMA ImportBatchContacts ==
  ASSUME JobsInv, ContactsInv, NEW a \in Actors, ImportBatch(a)
  PROVE  ContactsInv' /\ NoneReleased
<1> DEFINE t == actor[a].tenant
           addresses == {NextBatch(a)[i] : i \in Good(NextBatch(a))}
           L == job[actor[a].job].lists
<1>1. /\ Upserted(t, addresses) /\ Subscribed(t, addresses, L) /\ list' = list
      /\ t \in Tenants /\ addresses \subseteq Emails
  <2>1. actor[a].pc = "rows" /\ actor[a].pc # "idle"
    BY DEF ImportBatch
  <2>2. t \in Tenants
    BY <2>1 DEF JobsInv, ActorsInv
  <2>3. addresses \subseteq Emails
    BY <2>1, BatchFacts
  <2> QED BY <2>2, <2>3 DEF ImportBatch
<1> HIDE DEF t, addresses, L
<1>2. PICK new \in [{e \in addresses : ~Taken(t, e)} -> {s \in Subs : sub[s].tenant = Unused}] :
        /\ \A e, g \in DOMAIN new : new[e] = new[g] => e = g
        /\ sub' = [s \in Subs |->
             IF \E e \in DOMAIN new : new[e] = s
             THEN [tenant |-> t, email |-> CHOOSE e \in DOMAIN new : new[e] = s,
                   status |-> "enabled", suppressed |-> FALSE]
             ELSE Kept(s, t, addresses)]
  BY <1>1 DEF Upserted
<1> DEFINE New(s) == \E e \in DOMAIN new : new[e] = s
<1>3. ASSUME NEW s \in Subs, New(s)
      PROVE  /\ sub[s].tenant = Unused /\ sub'[s].tenant = t /\ ~sub'[s].suppressed
             /\ sub'[s].email \in addresses /\ new[sub'[s].email] = s
             /\ ~Taken(t, sub'[s].email) /\ sub'[s] \in SubRow
  <2> DEFINE e == CHOOSE g \in DOMAIN new : new[g] = s
  <2>1. e \in DOMAIN new /\ new[e] = s
    BY <1>3
  <2>2. e \in addresses /\ ~Taken(t, e) /\ sub[s].tenant = Unused
    BY <2>1
  <2>3. sub'[s] = [tenant |-> t, email |-> e, status |-> "enabled", suppressed |-> FALSE]
    BY <1>2, <1>3
  <2> HIDE DEF e
  <2>4. sub'[s] \in SubRow
    BY <1>1, <2>2, <2>3 DEF SubRow, SubStatuses
  <2> QED BY <2>1, <2>2, <2>3, <2>4
<1>4. ASSUME NEW s \in Subs, ~New(s) PROVE sub'[s] = sub[s]
  BY <1>2, <1>4 DEF Kept
<1>5. member' = [s \in Subs |-> [l \in Lists |->
        IF sub'[s].tenant = t /\ sub'[s].email \in addresses
        THEN Joined(s, l, t, L) ELSE member[s][l]]]
  BY <1>1 DEF Subscribed
<1>6. \A s \in Subs, l \in Lists :
        /\ member'[s][l] \in MemberStatuses \cup {Gone}
        /\ member'[s][l] # member[s][l] => list[l] = t /\ sub'[s].tenant = t
  BY <1>5 DEF Joined, ListsOf, ContactsInv, TablesOK, MemberStatuses
<1> HIDE DEF New
<1>7. TablesOK'
  <2>1. sub' \in [Subs -> SubRow]
    <3>1. \A s \in Subs : sub'[s] \in SubRow
      BY <1>3, <1>4 DEF ContactsInv, TablesOK
    <3> QED BY <1>2, <3>1
  <2>2. member' \in [Subs -> [Lists -> MemberStatuses \cup {Gone}]]
    BY <1>5, <1>6
  <2> QED BY <1>1, <2>1, <2>2 DEF ContactsInv, TablesOK
<1>8. ASSUME NEW s \in Subs, NEW l \in Lists, member'[s][l] # Gone
      PROVE  list'[l] \in Tenants /\ sub'[s].tenant = list'[l]
  <2>1. CASE member'[s][l] # member[s][l]
    BY <1>1, <1>6, <2>1
  <2>2. CASE member'[s][l] = member[s][l]
    <3>1. list[l] \in Tenants /\ sub[s].tenant = list[l]
      BY <1>8, <2>2 DEF ContactsInv, Isolation
    <3>2. ~New(s)
      BY <1>3, <3>1, TenantContactsAssumption
    <3> QED BY <1>1, <1>4, <3>1, <3>2
  <2> QED BY <2>1, <2>2
<1>9. ASSUME NEW q \in Subs, NEW r \in Subs, sub'[q].tenant \in Tenants,
             sub'[q].tenant = sub'[r].tenant, sub'[q].email = sub'[r].email
      PROVE  q = r
  <2>1. CASE New(q) /\ New(r)
    BY <1>3, <1>9, <2>1
  <2>2. CASE ~New(q) /\ ~New(r)
    BY <1>4, <1>9, <2>2 DEF ContactsInv, Isolation
  <2>3. CASE New(q) /\ ~New(r)
    BY <1>3, <1>4, <1>9, <2>3 DEF Taken, SubsOf
  <2>4. CASE ~New(q) /\ New(r)
    BY <1>3, <1>4, <1>9, <2>4 DEF Taken, SubsOf
  <2> QED BY <2>1, <2>2, <2>3, <2>4
<1>10. NoneReleased
  BY <1>3, <1>4 DEF NoneReleased, Sendable
<1> QED BY <1>7, <1>8, <1>9, <1>10 DEF ContactsInv, Isolation

\* A step of the jobs changes contacts in a batch only; a crash drops the
\* requests in progress.
LEMMA JobStepContacts ==
  ASSUME JobsInv, ContactsTypeOK, ContactsInv, JobStep
  PROVE  ContactsTypeOK' /\ ContactsInv' /\ NoneReleased
<1>1. UNCHANGED contactVars => ContactsTypeOK' /\ ContactsInv' /\ NoneReleased
  BY SameContacts DEF contactVars, ContactsTypeOK
<1>2. ASSUME NEW a \in Actors, ImportBatch(a)
      PROVE  ContactsTypeOK' /\ ContactsInv' /\ NoneReleased
  <2>1. ContactsInv' /\ NoneReleased /\ patch' = patch
    BY <1>2, ImportBatchContacts DEF ImportBatch
  <2> QED BY <2>1 DEF ContactsInv, TablesOK, ContactsTypeOK
<1>3. CASE Crash
  <2>1. UNCHANGED <<sub, list, member>> /\ patch' = [r \in Requests |-> Idle]
    BY <1>3 DEF Crash
  <2>2. Idle \in PatchRow
    BY DEF Idle, PatchRow
  <2>3. ContactsInv' /\ NoneReleased
    BY <2>1, SameContacts
  <2> QED BY <2>1, <2>2, <2>3 DEF ContactsTypeOK, ContactsInv, TablesOK, PatchRow
<1>4. ASSUME NEW a \in Actors, Worker(a) PROVE ImportBatch(a) \/ UNCHANGED contactVars
  BY <1>4 DEF Worker, ProcessJob, ReadFile, RowFails, BatchCancelled, BatchFails, RowsEnd,
              Finish, Fail
<1>5. ASSUME NEW a \in Actors, Request(a) \/ StartFails(a) PROVE UNCHANGED contactVars
  BY <1>5 DEF Request, OpenFile, WriteFile, Spawn, StartFails
<1>6. ASSUME NEW a \in Actors, NEW t \in Tenants, NEW k \in Keys,
             ReplayJob(a, t, k) \/ \E L \in SUBSET Lists, f \in Files : CreateJob(a, t, k, L, f)
      PROVE  UNCHANGED contactVars
  BY <1>6 DEF ReplayJob, CreateJob
<1>7. ASSUME NEW t \in Tenants, NEW j \in Jobs, CancelJob(t, j) PROVE UNCHANGED contactVars
  BY <1>7 DEF CancelJob
<1> QED BY <1>1, <1>2, <1>3, <1>4, <1>5, <1>6, <1>7 DEF JobStep

\* The bounds hold.
LEMMA BoundsInv ==
  ASSUME JobsInv, crashes \in 0..Crashes /\ edits \in 0..Edits, stranded \subseteq Jobs, [Next]_vars
  PROVE  crashes' \in 0..Crashes /\ edits' \in 0..Edits /\ stranded' \subseteq Jobs
<1>0. Crashes \in Nat /\ Edits \in Nat
  BY ImportAssumption
<1>1. ASSUME JobStep
      PROVE  crashes' = crashes \/ (crashes < Crashes /\ crashes' = crashes + 1)
  BY <1>1, ZenonT(60) DEF JobStep, Request, Worker, ReplayJob, CreateJob, OpenFile, WriteFile, Spawn,
              StartFails, ProcessJob, ReadFile, RowFails, ImportBatch, BatchCancelled,
              BatchFails, RowsEnd, Finish, Fail, CancelJob, Crash
<1>2. ASSUME NEW a \in Actors, EndFails(a) PROVE crashes' = crashes /\ stranded' \subseteq Jobs
  <2>1. actor[a].job \in Jobs
    BY <1>2 DEF EndFails, JobsInv, ActorsInv
  <2> QED BY <1>2, <2>1 DEF EndFails
<1> QED BY <1>0, <1>1, <1>2 DEF Next, jobVars, vars

Inv == TypeOK /\ JobsInv /\ ContactsInv

\* The invariant holds of the initial state,
LEMMA InitInv == Init => Inv
<1> SUFFICES ASSUME Init PROVE Inv
  OBVIOUS
<1>1. ContactsInv
  BY InitContactsInv DEF Init
<1>2. ContactsTypeOK
  BY <1>1 DEF Init, InitContacts, ContactsTypeOK, ContactsInv, TablesOK, Idle
<1>3. JobsTypeOK
  BY DEF Init, JobsTypeOK, NoJob, JobRow, JobStatuses, NoFile, Resting, ActorState
<1>4. RowsInv
  <2>1. Len(<<>>) = 0
    OBVIOUS
  <2> QED BY <2>1 DEF Init, RowsInv, Rows, NoJob, NoFile
<1>5. ActorsInv /\ OneWorker
  BY DEF Init, ActorsInv, OneWorker, Working, Waiting, Resting
<1>6. crashes \in 0..Crashes /\ edits \in 0..Edits /\ stranded \subseteq Jobs
  BY ImportAssumption DEF Init
<1> QED BY <1>1, <1>2, <1>3, <1>4, <1>5, <1>6 DEF Inv, TypeOK, JobsInv, JobsTypeOK

\* A last transaction that fails leaves the row to a worker that is gone.
LEMMA EndFailsInv ==
  ASSUME JobsInv, NEW a \in Actors, EndFails(a)
  PROVE  JobsInv'
<1>1. Stop(a) /\ UNCHANGED <<disk, job>>
  BY DEF EndFails
<1>2. job' \in [Jobs -> JobRow] /\ RowsInv'
  BY <1>1 DEF JobsInv, JobsTypeOK, RowsInv, Rows
<1> QED BY <1>1, <1>2, StopInv

\* and every step keeps it, and releases no suppressed contact.
LEMMA NextInv == Inv /\ [Next]_vars => Inv' /\ Released
<1> SUFFICES ASSUME Inv, [Next]_vars PROVE Inv' /\ Released
  OBVIOUS
<1> DEFINE After == JobsInv' /\ ContactsTypeOK' /\ ContactsInv' /\ Released
<1>0. crashes' \in 0..Crashes /\ edits' \in 0..Edits /\ stranded' \subseteq Jobs
  BY BoundsInv DEF Inv, TypeOK
<1>1. ASSUME UNCHANGED jobVars PROVE JobsInv'
  BY <1>1 DEF Inv, jobVars, JobsInv, JobsTypeOK, RowsInv, Rows, ActorsInv, OneWorker, Working
<1>2. NoneReleased => Released
  BY DEF NoneReleased, Released
<1>3. ASSUME UNCHANGED contactVars PROVE ContactsTypeOK' /\ ContactsInv' /\ Released
  BY <1>2, <1>3, SameContacts DEF contactVars, Inv, TypeOK, ContactsTypeOK
<1>4. ASSUME JobStep PROVE After
  BY <1>2, <1>4, JobStepInv, JobStepContacts DEF Inv, TypeOK
<1>5. ASSUME NEW a \in Actors, EndFails(a) PROVE After
  <2>1. UNCHANGED contactVars
    BY <1>5 DEF EndFails
  <2> QED BY <1>3, <1>5, <2>1, EndFailsInv DEF Inv
<1>6. ASSUME ContactsNext, UNCHANGED jobVars PROVE After
  BY <1>1, <1>6, ContactsNextInv DEF Inv, TypeOK
<1>7. ASSUME UNCHANGED vars PROVE After
  BY <1>1, <1>3, <1>7 DEF vars
<1> HIDE DEF After
<1>8. After
  BY <1>4, <1>5, <1>6, <1>7 DEF Next
<1> QED BY <1>0, <1>8 DEF After, Inv, TypeOK, JobsInv, JobsTypeOK

\* The inductive invariant of import jobs and contacts, for any number of
\* tenants, jobs, requests, workers, rows and crashes.
THEOREM JobsCorrect == Spec => []Inv
<1> QED BY InitInv, NextInv, PTL DEF Spec

\* Every variable keeps its type.
THEOREM TypeCorrect == Spec => []TypeOK
<1>1. Inv => TypeOK
  BY DEF Inv
<1> QED BY <1>1, JobsCorrect, PTL

\* A job never has two workers, however often its upload is replayed.
THEOREM OneWorkerPerJob == Spec => []OneWorker
<1>1. Inv => OneWorker
  BY DEF Inv, JobsInv
<1> QED BY <1>1, JobsCorrect, PTL

\* Every row of a file is counted once, and a worker and its row agree.
THEOREM CountsAgree == Spec => []CountersAgree
<1>1. Inv => CountersAgree
  BY DEF Inv, JobsInv, RowsInv, ActorsInv, CountersAgree, Rows
<1> QED BY <1>1, JobsCorrect, PTL

\* Imports and edits keep the contacts of the tenants apart.
THEOREM TenantsApart == Spec => []Isolation
<1>1. Inv => Isolation
  BY DEF Inv, ContactsInv
<1> QED BY <1>1, JobsCorrect, PTL

\* Imports, edits and public requests leave a suppressed contact blocklisted,
\* but for a preferences form whose handler read it before.
THEOREM SuppressionHolds == Spec => SuppressedStaysOut
<1> DEFINE Out == \A s \in Subs : ~Sendable(s) /\ Sendable(s)' =>
       \E r \in Requests : /\ patch[r].sub = s /\ patch[r].status \in {"enabled", "disabled"}
                           /\ patch'[r] = Idle
<1>1. Inv /\ [Next]_vars => [Out]_contactVars
  BY NextInv DEF Released
<1> QED BY <1>1, JobsCorrect, PTL DEF Spec, SuppressedStaysOut

-----------------------------------------------------------------------------
(* The refinement *)

\* A write of one row, as the lifecycle sees it.
LEMMA OneRowSeen ==
  ASSUME job \in [Jobs -> JobRow], job' \in [Jobs -> JobRow], NEW j \in Jobs,
         \A k \in Jobs : k # j => job'[k] = job[k]
  PROVE  /\ [k \in Jobs |-> job'[k].status] =
              [[k \in Jobs |-> job[k].status] EXCEPT ![j] = job'[j].status]
         /\ [k \in Jobs |-> Len(job'[k].file.rows)] =
              [[k \in Jobs |-> Len(job[k].file.rows)] EXCEPT ![j] = Len(job'[j].file.rows)]
         /\ [k \in Jobs |-> job'[k].processed] =
              [[k \in Jobs |-> job[k].processed] EXCEPT ![j] = job'[j].processed]
OBVIOUS

\* What a row keeps, the lifecycle keeps.
LEMMA KeptRowSeen ==
  ASSUME job \in [Jobs -> JobRow], job' \in [Jobs -> JobRow], NEW j \in Jobs,
         \A k \in Jobs : k # j => job'[k] = job[k]
  PROVE  /\ job'[j].file = job[j].file =>
              [k \in Jobs |-> Len(job'[k].file.rows)] = [k \in Jobs |-> Len(job[k].file.rows)]
         /\ job'[j].processed = job[j].processed =>
              [k \in Jobs |-> job'[k].processed] = [k \in Jobs |-> job[k].processed]
         /\ job'[j].status = job[j].status =>
              [k \in Jobs |-> job'[k].status] = [k \in Jobs |-> job[k].status]
<1>1. \A k \in Jobs : job'[j].file = job[j].file => job'[k].file = job[k].file
  OBVIOUS
<1>2. \A k \in Jobs : job'[j].processed = job[j].processed => job'[k].processed = job[k].processed
  OBVIOUS
<1>3. \A k \in Jobs : job'[j].status = job[j].status => job'[k].status = job[k].status
  OBVIOUS
<1> QED BY <1>1, <1>2, <1>3

\* A change of the status alone is one of the lifecycle.
LEMMA StatusSeen ==
  ASSUME JobsTypeOK, NEW j \in Jobs, NEW status \in JobStatuses, SetStatus(j, status)
  PROVE  /\ [k \in Jobs |-> job'[k].status] =
              [[k \in Jobs |-> job[k].status] EXCEPT ![j] = status]
         /\ [k \in Jobs |-> Len(job'[k].file.rows)] = [k \in Jobs |-> Len(job[k].file.rows)]
         /\ [k \in Jobs |-> job'[k].processed] = [k \in Jobs |-> job[k].processed]
<1>1. /\ job \in [Jobs -> JobRow] /\ job' \in [Jobs -> JobRow] /\ job'[j].status = status
      /\ \A k \in Jobs : k # j => job'[k] = job[k]
      /\ job'[j].file = job[j].file /\ job'[j].processed = job[j].processed
  BY SetStatusFacts DEF JobsTypeOK
<1>2. [k \in Jobs |-> job'[k].status] = [[k \in Jobs |-> job[k].status] EXCEPT ![j] = status]
  BY <1>1, OneRowSeen
<1> QED BY <1>1, <1>2, KeptRowSeen

\* Every step of the jobs is one of the lifecycle, or is not seen.
LEMMA LifecycleStep ==
  ASSUME Inv, JobStep
  PROVE  Lifecycle!LNext \/ UNCHANGED Lifecycle!lifecycleVars
<1>0. JobsTypeOK /\ job \in [Jobs -> JobRow]
  BY DEF Inv, JobsInv, JobsTypeOK
<1>1. ASSUME UNCHANGED job PROVE UNCHANGED Lifecycle!lifecycleVars
  BY <1>1 DEF Lifecycle!lifecycleVars
<1>2. ASSUME NEW a \in Actors, NEW t \in Tenants, NEW k \in Keys, NEW L \in SUBSET Lists,
             NEW f \in Files, CreateJob(a, t, k, L, f)
      PROVE  Lifecycle!LNext
  <2> PICK j \in Jobs :
        /\ job[j] = NoJob
        /\ job' = [job EXCEPT ![j] = [NoJob EXCEPT !.status = "pending", !.tenant = t,
                                                   !.key = k, !.lists = L, !.file = f]]
    BY <1>2 DEF CreateJob
  <2>1. /\ job'[j].status = "pending" /\ job[j].status = "none" /\ job'[j].file = f
        /\ job'[j].processed = job[j].processed /\ job' \in [Jobs -> JobRow]
        /\ \A i \in Jobs : i # j => job'[i] = job[i]
    <3> DEFINE new == [NoJob EXCEPT !.status = "pending", !.tenant = t,
                                    !.key = k, !.lists = L, !.file = f]
    <3>1. /\ new \in JobRow /\ new.status = "pending" /\ new.file = f /\ new.processed = 0
      BY DEF NoJob, JobRow, JobStatuses
    <3>2. job[j].status = "none" /\ job[j].processed = 0
      BY DEF NoJob
    <3> HIDE DEF new
    <3>3. job' = [job EXCEPT ![j] = new]
      BY DEF new
    <3> QED BY <1>0, <3>1, <3>2, <3>3
  <2>2. Len(f.rows) \in Nat
    BY ImportAssumption
  <2> QED BY <1>0, <2>1, <2>2, OneRowSeen, KeptRowSeen, ZenonT(60)
          DEF Lifecycle!LNext, Lifecycle!LCreate, Lifecycle!Becomes
<1>3. ASSUME NEW a \in Actors, ProcessJob(a), ~UNCHANGED job PROVE Lifecycle!LNext
  <2> DEFINE j == actor[a].job
  <2>1. /\ j \in Jobs /\ job[j].status = "pending" /\ SetStatus(j, "processing")
    BY <1>3 DEF ProcessJob, Claimable, Inv, JobsInv, ActorsInv
  <2>2. "processing" \in JobStatuses
    BY DEF JobStatuses
  <2> HIDE DEF j
  <2> QED BY <1>0, <2>1, <2>2, StatusSeen DEF Lifecycle!LNext, Lifecycle!LClaim, Lifecycle!Becomes
<1>4. ASSUME NEW a \in Actors, ImportBatch(a) PROVE Lifecycle!LNext
  <2> DEFINE j == actor[a].job
             size == Len(NextBatch(a))
             n == Cardinality(Good(NextBatch(a)))
  <2>1. /\ actor[a].pc = "rows" /\ NextBatch(a) # <<>> /\ job[j].status = "processing"
        /\ job' = Counted(j, size, n)
    BY <1>4 DEF ImportBatch, Importable
  <2>2. /\ j \in Jobs /\ size \in Nat /\ size > 0 /\ n \in Nat /\ n <= size
        /\ actor[a].total + size <= Len(job[j].file.rows)
    BY <2>1, BatchFacts DEF Inv, Rows
  <2>3. job[j].processed = actor[a].total /\ job[j].processed \in Nat
    BY <1>0, <2>1, <2>2 DEF Inv, JobsInv, ActorsInv, Working, JobRow
  <2>4. Len(job[j].file.rows) \in Nat
    BY <1>0, <2>2, RowsType DEF Rows
  <2> HIDE DEF j, size, n
  <2>5. /\ job' \in [Jobs -> JobRow] /\ job'[j].processed = job[j].processed + size
        /\ job'[j].status = job[j].status /\ job'[j].file = job[j].file
        /\ \A k \in Jobs : k # j => job'[k] = job[k]
    BY <1>0, <2>1, <2>2, CountedFacts
  <2>6. job'[j].processed \in (job[j].processed + 1) .. Len(job[j].file.rows)
    BY <2>2, <2>3, <2>4, <2>5
  <2> QED BY <1>0, <2>1, <2>2, <2>5, <2>6, OneRowSeen, KeptRowSeen
          DEF Lifecycle!LNext, Lifecycle!LImport
<1>5. ASSUME NEW a \in Actors, Finish(a), ~UNCHANGED job PROVE Lifecycle!LNext
  <2> DEFINE j == actor[a].job
  <2>1. /\ actor[a].pc = "finish" /\ job[j].status = "processing" /\ job' = Tallied(a, j)
    BY <1>5 DEF Finish
  <2>2. /\ j \in Jobs /\ job[j].processed = actor[a].total /\ job[j].imported = actor[a].imported
        /\ actor[a].total = Len(job[j].file.rows)
    BY <2>1 DEF Inv, JobsInv, ActorsInv, Working, Rows
  <2>3. job[j] \in JobRow /\ job[j].imported + job[j].errors = job[j].processed
    BY <1>0, <2>2 DEF Inv, JobsInv, RowsInv
  <2>4. actor[a].imported <= actor[a].total
    BY <2>2, <2>3 DEF JobRow
  <2> HIDE DEF j
  <2>5. /\ job' \in [Jobs -> JobRow] /\ job'[j].status = "completed"
        /\ job'[j].processed = job[j].processed /\ job'[j].file = job[j].file
        /\ \A k \in Jobs : k # j => job'[k] = job[k]
    BY <1>0, <2>1, <2>2, <2>4, TalliedFacts
  <2> QED BY <1>0, <2>1, <2>2, <2>5, OneRowSeen, KeptRowSeen
          DEF Lifecycle!LNext, Lifecycle!LComplete, Lifecycle!Becomes
<1>6. ASSUME NEW a \in Actors, Fail(a) PROVE Lifecycle!LNext
  <2> DEFINE j == actor[a].job
  <2>1. /\ j \in Jobs /\ job[j].status \in {"processing", "cancelled"} /\ SetStatus(j, "failed")
    BY <1>6 DEF Fail, Inv, JobsInv, ActorsInv, Working
  <2>2. "failed" \in JobStatuses
    BY DEF JobStatuses
  <2> HIDE DEF j
  <2> QED BY <1>0, <2>1, <2>2, StatusSeen DEF Lifecycle!LNext, Lifecycle!LFail, Lifecycle!Becomes
<1>7. ASSUME NEW t \in Tenants, NEW j \in Jobs, CancelJob(t, j) PROVE Lifecycle!LNext
  <2>1. job[j].status \in {"pending", "processing"} /\ SetStatus(j, "cancelled")
    BY <1>7 DEF CancelJob
  <2>2. "cancelled" \in JobStatuses
    BY DEF JobStatuses
  <2> QED BY <1>0, <2>1, <2>2, StatusSeen DEF Lifecycle!LNext, Lifecycle!LCancel, Lifecycle!Becomes
<1>8. ASSUME NEW a \in Actors, Request(a) \/ StartFails(a) PROVE UNCHANGED job
  BY <1>8 DEF Request, OpenFile, WriteFile, Spawn, StartFails
<1>9. ASSUME NEW a \in Actors, Worker(a)
      PROVE  ProcessJob(a) \/ ImportBatch(a) \/ Finish(a) \/ Fail(a) \/ UNCHANGED job
  BY <1>9 DEF Worker, ReadFile, RowFails, BatchCancelled, BatchFails, RowsEnd
<1>10. ASSUME NEW a \in Actors, NEW t \in Tenants, NEW k \in Keys, ReplayJob(a, t, k)
       PROVE  UNCHANGED job
  BY <1>10 DEF ReplayJob
<1>11. Crash => UNCHANGED job
  BY DEF Crash
<1> QED BY <1>1, <1>2, <1>3, <1>4, <1>5, <1>6, <1>7, <1>8, <1>9, <1>10, <1>11 DEF JobStep

\* The jobs implement the lifecycle the API shows.
THEOREM LifecycleHolds == Spec => ImplementsLifecycle
<1>1. Init => Lifecycle!LInit
  BY DEF Init, NoJob, NoFile, Lifecycle!LInit
<1>2. Inv /\ [Next]_vars => [Lifecycle!LNext]_(Lifecycle!lifecycleVars)
  <2> SUFFICES ASSUME Inv, [Next]_vars
               PROVE  Lifecycle!LNext \/ UNCHANGED Lifecycle!lifecycleVars
    OBVIOUS
  <2>1. CASE JobStep
    BY <2>1, LifecycleStep
  <2>2. CASE UNCHANGED job
    BY <2>2 DEF Lifecycle!lifecycleVars
  <2>3. ASSUME NEW a \in Actors, EndFails(a) PROVE UNCHANGED job
    BY <2>3 DEF EndFails
  <2> QED BY <2>1, <2>2, <2>3 DEF Next, jobVars, vars
<1> QED BY <1>1, <1>2, JobsCorrect, PTL DEF Spec, ImplementsLifecycle, Lifecycle!LSpec
===============================================================================
