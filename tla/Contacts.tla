------------------------------- MODULE Contacts -------------------------------
(***************************************************************************)
(* The endpoints of subscribers, lists and subscriptions in one workspace:  *)
(* the handlers of cmd/{subscribers,lists,bounce,maintenance}.go for its    *)
(* users and those of cmd/public.go for its subscribers.                    *)
(*                                                                         *)
(* A handler that runs one statement is one action; one that reads a row    *)
(* and writes it back later keeps what it read in `request`, so that        *)
(* anything can happen between its statements.                              *)
(***************************************************************************)
EXTENDS ContactStore

CONSTANTS
  AllowBlocklist, AllowPreferences, AllowWipe,  \* settings privacy.*
  Kinds, Filters   \* bounds: the kinds of lists, the subscription statuses asked for

ASSUME ContactsAssumption ==
  /\ {AllowBlocklist, AllowPreferences, AllowWipe} \subseteq BOOLEAN
  /\ Kinds \subseteq ListKinds /\ Filters \subseteq MemberStatuses \cup {Gone}

VARIABLE by   \* the user who took the last step, or Nobody: for the properties

allVars == <<vars, by>>

Unchanged == UNCHANGED <<sub, member, list, bounced>>

Begin(r, pc, u, s, status, L) ==
  /\ request[r].pc = "idle" /\ Unchanged
  /\ request' = [request EXCEPT ![r] =
       [pc |-> pc, user |-> u, sub |-> s, status |-> status, lists |-> L]]
End(r) == request' = [request EXCEPT ![r] = Idle]

-----------------------------------------------------------------------------
(* Handlers of cmd/subscribers.go *)

\* hasSubPerm: at least one of the user's lists on each subscriber that exists.
HasSubPerm(u, S) ==
  \/ AllPermitted(u, {"get", "manage"})
  \/ WithoutLists(S, PermittedLists(u, {"get", "manage"})) = {}

\* The lists of a request that the user manages; none left is refused.
Managed(u, L) == FilterListsByPerm(u, {"manage"}, L)
MayUseLists(u, L) == L = {} \/ Managed(u, L) # {}

\* What an edit may take away: {} stands for any list.
Replaceable(u) == PermittedLists(u, {"manage"})

MayManage(u) == HasPerm(u, "subscribers:manage")

CreateSubscriber(u, s, status, L, preconfirm) ==
  /\ MayManage(u) /\ MayUseLists(u, L)
  /\ InsertSubscriber(s, status, Managed(u, L), preconfirm) /\ UNCHANGED request

UpdateSubscriber(u, s, status, L, preconfirm) ==
  /\ MayManage(u) /\ Known(s) /\ MayUseLists(u, L) /\ HasSubPerm(u, {s})
  /\ UpdateWithLists(s, status, Managed(u, L), preconfirm, TRUE, Replaceable(u))
  /\ UNCHANGED request

\* PatchSubscriber reads the row,
PatchRead(r, u, s) ==
  MayManage(u) /\ Known(s) /\ HasSubPerm(u, {s}) /\ Begin(r, "patch", u, s, sub[s], {})

\* and writes it back: the status given or else the one it read, and the
\* lists if they are given.
PatchSubscriber(r, status, L, overwrite, preconfirm) ==
  LET q == request[r] IN
  /\ q.pc = "patch" /\ MayUseLists(q.user, L) /\ (L # {} => overwrite)
  /\ UpdateWithLists(q.sub, IF status = Gone THEN q.status ELSE status,
       Managed(q.user, L), preconfirm, overwrite, Replaceable(q.user))
  /\ End(r)

BlocklistSubscriber(u, s) ==
  MayManage(u) /\ HasSubPerm(u, {s}) /\ BlocklistRows({s}) /\ UNCHANGED request
BlocklistSubscribers(u, S) ==
  MayManage(u) /\ S # {} /\ HasSubPerm(u, S) /\ BlocklistRows(S) /\ UNCHANGED request

ManageSubscriberLists(u, S, L, action, status) ==
  LET lists == Managed(u, L) IN
  /\ MayManage(u) /\ S # {} /\ HasSubPerm(u, S) /\ lists # {}
  /\ \/ action = "add" /\ AddSubscriptions(S, lists, status)
     \/ action = "remove" /\ DeleteSubscriptions(S, lists)
     \/ action = "unsubscribe" /\ UnsubscribeLists(S, lists)
  /\ UNCHANGED request

DeleteSubscriber(u, s) == MayManage(u) /\ HasSubPerm(u, {s}) /\ DeleteSubscriberRows({s})
DeleteSubscribers(u, S) ==
  MayManage(u) /\ S # {} /\ HasSubPerm(u, S) /\ DeleteSubscriberRows(S)

\* The by-query handlers take the rows S that match a search, and the user's
\* lists in place of hasSubPerm.
DeleteSubscribersByQuery(u, S, ids, status) ==
  MayManage(u) /\ DeleteRowsByQuery(S, GetPermittedListIDs(u, ids), status)

BlocklistSubscribersByQuery(u, S, ids, status) ==
  /\ MayManage(u) /\ BlocklistRowsByQuery(S, GetPermittedListIDs(u, ids), status)
  /\ UNCHANGED request

ManageSubscriberListsByQuery(u, S, ids, from, L, action, status) ==
  LET source == GetPermittedListIDs(u, ids)
      target == Managed(u, L)
  IN /\ MayManage(u) /\ L # {}
     /\ \/ action = "add" /\ AddSubscriptionsByQuery(S, source, from, target, status)
        \/ action = "remove" /\ DeleteSubscriptionsByQuery(S, source, from, target)
        \/ action = "unsubscribe" /\ UnsubscribeListsByQuery(S, source, from, target)
     /\ UNCHANGED request

DeleteSubscriberBounces(u, s) ==
  HasPerm(u, "bounces:manage") /\ HasSubPerm(u, {s}) /\ DeleteBouncesOf(s)

\* GetSubscriber, ExportSubscriberData and GetSubscriberBounces answer of a
\* subscriber the user has a list of.
GetSubscriber(u, s) == Known(s) /\ HasSubPerm(u, {s})
ExportSubscriberData(u, s) ==
  IF Known(s) /\ HasSubPerm(u, {s}) THEN {ProfileForExport(s)} ELSE {}
GetSubscriberBounces(u, s) == IF HasSubPerm(u, {s}) THEN bounced[s] ELSE 0

\* maskRestrictedSubLists: the lists of a subscriber that are named to the user
NamedLists(u, s) ==
  {l \in Attached(s) : \/ HasPerm(u, "lists:manage_all") \/ HasPerm(u, "lists:get_all")
                       \/ HasListPerm(u, "get", {l}) \/ HasListPerm(u, "manage", {l})}

\* filterListQueryByPerm
FilterListQuery(u, ids) == GetPermittedListIDs(u, ids)

\* What QuerySubscribers and ExportSubscribers show of the rows S.
QuerySubscribers(u, S, ids, status) == QueryRows(S, FilterListQuery(u, ids), status)
ExportSubscribers(u, S, ids, status) == ExportRows(S, FilterListQuery(u, ids), status)

-----------------------------------------------------------------------------
(* Handlers of cmd/lists.go, cmd/bounce.go and cmd/maintenance.go *)

\* What GetLists and GetList show, all or those of a search L.
GetLists(u, minimal, L) ==
  LET all == AllPermitted(u, {"get"})
      permitted == PermittedLists(u, {"get"})
  IN IF minimal THEN GetListRows(all, permitted) ELSE QueryListRows(L, all, permitted)
GetList(u, l) == HasListPerm(u, "get", {l}) /\ l \in Existing(Lists)

CreateList(u, l, kind) == HasPerm(u, "lists:manage_all") /\ CreateListRow(l, kind)
UpdateList(u, l, kind) == HasListPerm(u, "manage", {l}) /\ UpdateListRow(l, kind)
DeleteList(u, l) == HasListPerm(u, "manage", {l}) /\ DeleteListsOf({l}, FALSE, TRUE, {})

\* DeleteLists by ids needs them all; by query it takes those the user manages.
DeleteLists(u, L, byQuery) ==
  IF byQuery
  THEN DeleteListsOf(L, TRUE, AllPermitted(u, {"manage"}), PermittedLists(u, {"manage"}))
  ELSE L # {} /\ HasListPerm(u, "manage", L) /\ DeleteListsOf(L, FALSE, TRUE, {})

BlocklistBouncedSubscribers(u) ==
  HasPerm(u, "bounces:manage") /\ BlocklistBounced /\ UNCHANGED request

DeleteBounces(u, left) == HasPerm(u, "bounces:manage") /\ DeleteBounceRows(left)

GCSubscribers(u, type) ==
  /\ HasPerm(u, "settings:maintain")
  /\ \/ type = "blocklisted" /\ DeleteBlocklistedSubscribers
     \/ type = "orphan" /\ DeleteOrphanSubscribers

GCSubscriptions(u, old) ==
  HasPerm(u, "settings:maintain") /\ DeleteUnconfirmed(old) /\ UNCHANGED request

-----------------------------------------------------------------------------
(* Public handlers, of cmd/public.go *)

\* GetPublicLists
PublicLists == {l \in Lists : list[l] # NoKind /\ list[l].type = "public"}

\* processSubForm, for PublicSubscription and SubscriptionForm, looks at the
\* types of the lists asked for,
SubFormRead(r, s, L) ==
  /\ L # {} /\ Existing(L) \subseteq PublicLists
  /\ Begin(r, "form", Nobody, s, Gone, Existing(L))

\* The unique index on the address of a tenant, which a conflict names; and
\* whether InsertSubscriber takes that name for an address that is known, which
\* it looks for under the name the index had before tenants.
EmailIndex == "mv_subscribers_tenant_email_idx"
ConflictNamed == EmailIndex = "subscribers_email_key"

\* and subscribes a new address to them.  A known one is to have its
\* subscriptions renewed, those it unsubscribed from too, if InsertSubscriber
\* names the conflict; an error that is not named goes back to the form.
ProcessSubForm(r) ==
  LET s == request[r].sub
      L == request[r].lists
  IN /\ request[r].pc = "form" /\ End(r)
     /\ IF ~Known(s) THEN InsertSubscriber(s, "enabled", L, FALSE)
        ELSE IF ConflictNamed
        THEN UpdateRowWithLists(s, sub[s], L, "unconfirmed", FALSE, {}, TRUE)
        ELSE Unchanged

\* SubscriptionPrefs without manage, or with blocklist where that is allowed,
\* from a mail of a campaign on the lists L
UnsubscribeByCampaign(s, L, blocklist) ==
  /\ Known(s) /\ (blocklist => AllowBlocklist)
  /\ UnsubscribeCampaign(s, L, blocklist) /\ UNCHANGED request

\* SubscriptionPrefs with manage: it reads the row,
PrefsRead(r, s) ==
  AllowPreferences /\ Known(s) /\ Begin(r, "prefs", Nobody, s, sub[s], {})

\* writes it back with the new name and the status it read,
PrefsWrite(r) ==
  /\ request[r].pc = "prefs" /\ UpdateRow(request[r].sub, request[r].status)
  /\ request' = [request EXCEPT ![r].pc = "prefsLists", ![r].status = Gone]

\* reads the subscriptions, to keep those to the lists L of the form and to
\* private lists,
PrefsLists(r, L) ==
  /\ request[r].pc = "prefsLists" /\ Unchanged
  /\ request' = [request EXCEPT ![r].pc = "prefsUnsub",
       ![r].lists = (Attached(request[r].sub) \cap PublicLists) \ L]

\* and unsubscribes the rest.
PrefsUnsubscribe(r) ==
  /\ request[r].pc = "prefsUnsub" /\ UnsubscribeLists({request[r].sub}, request[r].lists)
  /\ End(r)

\* OptinPage: something is to be confirmed among the lists asked for, or
\* among all when none are.
OptinRead(r, s, L) ==
  LET open == GetSubscriberLists(s, L, "unconfirmed") IN
  /\ Known(s) /\ open # {}
  /\ Begin(r, "optin", Nobody, s, Gone, IF L = {} THEN open ELSE L)

\* confirmOptinSubscription: all the lists asked for are confirmed, those that
\* were not open and those unsubscribed from meanwhile too.
ConfirmOptin(r) ==
  /\ request[r].pc = "optin"
  /\ ConfirmOptionSubscription(request[r].sub, request[r].lists) /\ End(r)

\* A request that fails or is given up between two statements.
GiveUp(r) == request[r].pc # "idle" /\ End(r) /\ Unchanged

WipeSubscriberData(s) == AllowWipe /\ Known(s) /\ DeleteSubscriberRows({s})

-----------------------------------------------------------------------------
Init ==
  /\ sub = [s \in Subs |-> Gone] /\ bounced = [s \in Subs |-> 0]
  /\ member = [s \in Subs |-> [l \in Lists |-> Gone]]
  /\ list \in [Lists -> Kinds]
  /\ request = [r \in Requests |-> Idle] /\ by = Nobody

Rows == SUBSET Subs \ {{}}
Targets == SUBSET Lists \ {{}}
Choices == SUBSET Lists
GivenStatus == SubStatuses \cup {Gone}
GivenMember == MemberStatuses \cup {Gone}
Edits == ({"add"} \X GivenMember) \cup ({"remove", "unsubscribe"} \X {Gone})

UserEdits(u) ==
  \/ \E s \in Subs, st \in GivenStatus, L \in Choices, p \in BOOLEAN :
       CreateSubscriber(u, s, st, L, p) \/ UpdateSubscriber(u, s, st, L, p)
  \/ \E S \in Rows, L \in Targets, e \in Edits :
       \/ ManageSubscriberLists(u, S, L, e[1], e[2])
       \/ \E ids \in Choices, from \in Filters :
            ManageSubscriberListsByQuery(u, S, ids, from, L, e[1], e[2])

UserDeletes(u) ==
  \/ \E s \in Subs :
       BlocklistSubscriber(u, s) \/ DeleteSubscriber(u, s) \/ DeleteSubscriberBounces(u, s)
  \/ \E S \in Rows :
       \/ BlocklistSubscribers(u, S) \/ DeleteSubscribers(u, S)
       \/ \E ids \in Choices, st \in Filters :
            DeleteSubscribersByQuery(u, S, ids, st) \/ BlocklistSubscribersByQuery(u, S, ids, st)
  \/ \E L \in Targets, q \in BOOLEAN : DeleteLists(u, L, q)
  \/ \E l \in Lists :
       DeleteList(u, l) \/ \E k \in Kinds : CreateList(u, l, k) \/ UpdateList(u, l, k)
  \/ BlocklistBouncedSubscribers(u)
  \/ \E left \in [Subs -> 0..BounceCount] : DeleteBounces(u, left)
  \/ \E t \in {"blocklisted", "orphan"} : GCSubscribers(u, t)
  \/ \E old \in SUBSET (Subs \X Lists) : GCSubscriptions(u, old)

\* The statements of a user's PATCH
UserPatches(u) ==
  \E r \in Requests :
    \/ \E s \in Subs : PatchRead(r, u, s)
    \/ /\ request[r].user = u
       /\ \E st \in GivenStatus, L \in Choices, o, p \in BOOLEAN :
            PatchSubscriber(r, st, L, o, p)

PublicStep ==
  \/ \E s \in Subs :
       \/ \E L \in Choices, b \in BOOLEAN : UnsubscribeByCampaign(s, L, b)
       \/ WipeSubscriberData(s)
       \/ \E r \in Requests :
            PrefsRead(r, s) \/ \E L \in Choices : OptinRead(r, s, L) \/ SubFormRead(r, s, L)
  \/ \E r \in Requests :
       \/ PrefsWrite(r) \/ PrefsUnsubscribe(r) \/ \E L \in Choices : PrefsLists(r, L)
       \/ ProcessSubForm(r) \/ ConfirmOptin(r) \/ GiveUp(r)

UserStep(u) == UserEdits(u) \/ UserDeletes(u) \/ UserPatches(u)

Next ==
  \/ \E u \in Users : UserStep(u) /\ by' = u
  \/ PublicStep /\ by' = Nobody
  \/ \E s \in Subs : RecordBounce(s) /\ by' = Nobody

Spec == Init /\ [][Next]_allVars

-----------------------------------------------------------------------------
(* Properties *)

\* Everything has its type, and nothing dangles: a subscription or a bounce is
\* of a subscriber and a list that exist, and a request between two statements
\* is of a subscriber that does, which the cascades of the schema and the
\* several ways to delete have to keep.
TypeOK ==
  /\ sub \in [Subs -> SubStatuses \cup {Gone}]
  /\ member \in [Subs -> [Lists -> MemberStatuses \cup {Gone}]]
  /\ list \in [Lists -> ListKinds \cup {NoKind}]
  /\ bounced \in [Subs -> 0..BounceCount]
  /\ request \in [Requests -> RequestType] /\ by \in Users \cup {Nobody}
  /\ \A s \in Subs, l \in Lists : member[s][l] # Gone => Known(s) /\ list[l] # NoKind
  /\ \A s \in Subs : bounced[s] > 0 => Known(s)
  /\ \A r \in Requests : request[r].pc \notin {"idle", "form"} => Known(request[r].sub)

\* Who is blocklisted stays so until a user says otherwise in an edit: no
\* bounce, form or subscription lifts it.  The exception the code makes is a
\* form whose handler read the row before it was blocklisted and writes back
\* the status that it read.
BlocklistStays ==
  [][\A s \in Subs : sub[s] = "blocklisted" /\ sub'[s] \in {"enabled", "disabled"} =>
       \/ by' \in Users
       \/ \E r \in Requests : request[r].sub = s /\ request[r].pc = "prefs" /\
            request[r].status # "blocklisted"]_vars

\* Who unsubscribed from a list is on it again only if a user adds them with a
\* status, or by their own word: they confirm a request that was open when it
\* was read, or ask for the list in a public form.  No edit, bounce or
\* form about other lists brings them back.
ConsentKept ==
  [][\A s \in Subs, l \in Lists :
       member[s][l] = "unsubscribed" /\ member'[s][l] \in {"confirmed", "unconfirmed"} =>
         \/ \E u \in Users, S \in Rows, L \in Targets, st \in MemberStatuses :
              ManageSubscriberLists(u, S, L, "add", st)
         \/ \E r \in Requests : /\ request[r].sub = s /\ End(r)
                                /\ \/ request[r].pc = "optin"
                                   \/ request[r].pc = "form" /\ l \in request[r].lists]_vars

\* A user who manages some lists changes no subscription to another, except
\* by blocklisting or deleting the subscriber, or by the maintenance of those
\* never confirmed, which asks for settings:maintain and for no list.  A user
\* who manages none is left out: an edit by one takes every subscription, which
\* the empty set of lists stands for in update-subscriber-with-lists.
ScopeKept ==
  [][\A u \in Users : ~AllPermitted(u, {"manage"}) /\ PermittedLists(u, {"manage"}) # {} /\ by' = u =>
       \A s \in Subs, l \in Lists \ PermittedLists(u, {"manage"}) :
         member'[s][l] # member[s][l] =>
           \/ sub'[s] \in {"blocklisted", Gone}
           \/ /\ HasPerm(u, "settings:maintain")
              /\ member[s][l] = "unconfirmed" /\ member'[s][l] = Gone]_vars

\* What a user without subscribers:get_all lists or exports is subscribed to a
\* list the user may see, whatever lists the query asks for.
ReadScope ==
  /\ \A u \in Users, s \in Subs, l \in Lists :
       /\ GetList(u, l) => l \in GetLists(u, TRUE, Lists)
       /\ l \in NamedLists(u, s) \cup GetLists(u, FALSE, Lists) =>
            HasListPerm(u, "get", {l}) \/ HasListPerm(u, "manage", {l})
       /\ ~GetSubscriber(u, s) => ExportSubscriberData(u, s) = {} /\ GetSubscriberBounces(u, s) = 0
  /\ \A u \in Users : ~HasPerm(u, "subscribers:get_all") =>
    \A ids \in SUBSET (Lists \cup {NoList}), st \in GivenMember :
      \A s \in QuerySubscribers(u, Subs, ids, st) \cup ExportSubscribers(u, Subs, ids, st) :
        \E l \in Attached(s) : HasListPerm(u, "get", {l}) \/ HasListPerm(u, "manage", {l})

\* What update-subscriber-with-lists is passed the user's lists for: those a
\* user has no permission for are left as they are by an edit.
PermissionlessPreserved ==
  [][\A s \in Subs, l \in Lists : by' \in Users /\ Known(s) /\ ~HasListPerm(by', "manage", {l}) =>
       member'[s][l] = member[s][l] \/ sub'[s] \in {"blocklisted", Gone}]_vars

\* What processSubForm and update-subscriber-with-lists say of a known address:
\* a form that is processed leaves its subscriber, unless blocklisted, on the
\* lists asked for, those they once left too.
FormSubscribes ==
  [][\A r \in Requests : ProcessSubForm(r) /\ sub[request[r].sub] # "blocklisted" =>
       \A l \in request[r].lists :
         member'[request[r].sub][l] \in {"confirmed", "unconfirmed"}]_vars
=============================================================================
