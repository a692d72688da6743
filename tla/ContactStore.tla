----------------------------- MODULE ContactStore -----------------------------
(***************************************************************************)
(* Subscribers, lists and subscriptions of one workspace: the statements of *)
(* queries/{subscribers,lists,bounces}.sql and the functions of             *)
(* internal/core that run them.                                             *)
(*                                                                         *)
(* A subscriber stands for an e-mail address, a row or none.  A statement   *)
(* that fails changes nothing, so that the guard of a function of           *)
(* internal/core leaves its errors out.  The mails it sends are left out.   *)
(***************************************************************************)
EXTENDS ListPermissions, Naturals, FiniteSets

CONSTANTS
  Subs,            \* e-mail addresses
  Requests,        \* concurrent requests of several statements
  Nobody,          \* the user of a public request, and no subscriber
  BounceCount,     \* bounce.actions: how many bounces,
  BounceAction     \*   and then "blocklist", "unsubscribe", "delete" or "none"

SubStatuses == {"enabled", "disabled", "blocklisted"}
MemberStatuses == {"unconfirmed", "confirmed", "unsubscribed"}
ListKinds == [type : {"public", "private"}, optin : {"single", "double"}]
Gone == "none"
NoKind == [type |-> Gone, optin |-> Gone]   \* of a list that does not exist

ASSUME ContactStoreAssumption ==
  /\ Nobody \notin Users \cup Subs
  /\ BounceCount \in Nat \ {0}
  /\ BounceAction \in {"blocklist", "unsubscribe", "delete", "none"}

VARIABLES
  sub,      \* status of each subscriber's row, or Gone
  member,   \* status of each subscription, or Gone
  list,     \* kind of each list, or NoKind
  bounced,  \* bounces recorded of each subscriber
  request   \* requests between two of their statements

vars == <<sub, member, list, bounced, request>>

Known(s) == sub[s] # Gone
Existing(L) == {l \in L : list[l] # NoKind}
Attached(s) == {l \in Lists : member[s][l] # Gone}

Idle == [pc |-> "idle", user |-> Nobody, sub |-> Nobody, status |-> Gone, lists |-> {}]
RequestType ==
  [pc : {"idle", "patch", "prefs", "prefsLists", "prefsUnsub", "optin", "form"},
   user : Users \cup {Nobody}, sub : Subs \cup {Nobody},
   status : SubStatuses \cup {Gone}, lists : SUBSET Lists]

-----------------------------------------------------------------------------
(* Statements.  A statement that names a missing list or subscriber fails on *)
(* its foreign key and changes nothing; its guard leaves that out.           *)

\* What a statement that sets subscriptions M of the subscribers S, and
\* nothing else, does.
SetMembers(S, M(_, _)) ==
  member' = [s \in Subs |-> [l \in Lists |->
    IF s \in S THEN M(s, l) ELSE member[s][l]]]

\* delete-subscribers: the rows go, and with them their subscriptions and
\* bounces.  A request under way on one of them has nothing left to write, as
\* a new row for the address has another id.
DeleteRows(S) ==
  /\ sub' = [s \in Subs |-> IF s \in S THEN Gone ELSE sub[s]]
  /\ SetMembers(S, LAMBDA s, l : Gone)
  /\ bounced' = [s \in Subs |-> IF s \in S THEN 0 ELSE bounced[s]]
  /\ request' = [r \in Requests |->
       IF request[r].sub \in S /\ request[r].pc # "form" THEN Idle ELSE request[r]]
  /\ UNCHANGED list

\* insert-subscriber
InsertRow(s, status, L, st) ==
  /\ sub' = [sub EXCEPT ![s] = status]
  /\ SetMembers({s}, LAMBDA t, l :
       IF l \notin L THEN Gone ELSE IF status = "blocklisted" THEN "unsubscribed" ELSE st)
  /\ UNCHANGED <<list, bounced>>

\* update-subscriber; Gone stands for a status that is not given.
UpdateRow(s, status) ==
  /\ sub' = [sub EXCEPT ![s] = IF status = Gone THEN @ ELSE status]
  /\ UNCHANGED <<list, member, bounced>>

\* Variant: a subscription is renewed whatever it was.
RenewedAnyhow(old, status, st, resubscribe) ==
  IF status = "blocklisted" THEN "unsubscribed"
  ELSE IF old = "confirmed" THEN old ELSE st

\* update-subscriber-with-lists, the status of a subscription to a given list
Renewed(old, status, st, resubscribe) ==
  IF status = "blocklisted" THEN "unsubscribed"
  ELSE IF old = "confirmed" \/ (old = "unsubscribed" /\ ~resubscribe) THEN old
  ELSE st

\* Variant: the lists of others go with the user's own.
DropsAll(l, given, delete, permitted) == delete /\ l \notin given

\* update-subscriber-with-lists, CTE d: the subscriptions that go
Drops(l, given, delete, permitted) ==
  delete /\ l \notin given /\ (permitted = {} \/ l \in permitted)

UpdateRowWithLists(s, status, L, st, delete, permitted, resubscribe) ==
  /\ sub' = [sub EXCEPT ![s] = IF status = Gone THEN @ ELSE status]
  /\ SetMembers({s}, LAMBDA t, l :
       IF l \in Existing(L) THEN Renewed(member[s][l], status, st, resubscribe)
       ELSE IF Drops(l, Existing(L), delete, permitted) THEN Gone ELSE member[s][l])
  /\ UNCHANGED <<list, bounced>>

\* blocklist-subscribers, blocklist-subscribers-by-query
Blocklist(S) ==
  /\ sub' = [s \in Subs |-> IF s \in S /\ Known(s) THEN "blocklisted" ELSE sub[s]]
  /\ SetMembers(S, LAMBDA s, l : IF l \in Attached(s) THEN "unsubscribed" ELSE Gone)
  /\ UNCHANGED <<list, bounced>>

OnlyMembers(S, M(_, _)) == SetMembers(S, M) /\ UNCHANGED <<sub, list, bounced>>

\* add-subscribers-to-lists: without a status a subscription there is stays as it is.
AddMembers(S, L, status) ==
  OnlyMembers(S, LAMBDA s, l :
    IF l \notin L THEN member[s][l]
    ELSE IF status # Gone THEN status
    ELSE IF l \in Attached(s) THEN member[s][l] ELSE "unconfirmed")

\* add-subscribers-to-lists-by-query: a subscription there is stays in any case.
AddNewMembers(S, L, status) ==
  OnlyMembers(S, LAMBDA s, l :
    IF l \notin L \/ l \in Attached(s) THEN member[s][l]
    ELSE IF status # Gone THEN status ELSE "unconfirmed")

\* delete-subscriptions
DeleteMembers(S, L) ==
  OnlyMembers(S, LAMBDA s, l : IF l \in L THEN Gone ELSE member[s][l])

\* unsubscribe-subscribers-from-lists
Unsubscribe(S, L) ==
  OnlyMembers(S, LAMBDA s, l :
    IF l \in L \cap Attached(s) THEN "unsubscribed" ELSE member[s][l])

\* confirm-subscription-optin
Confirm(s, L) ==
  OnlyMembers({s}, LAMBDA t, l : IF l \in L \cap Attached(s) THEN "confirmed" ELSE member[s][l])

\* Variant: it enables whom it does not blocklist.
UnsubscribeCampaignEnabling(s, L, blocklist) ==
  /\ sub' = [sub EXCEPT ![s] = IF blocklist THEN "blocklisted" ELSE "enabled"]
  /\ SetMembers({s}, LAMBDA t, l :
       IF l \in Attached(s) /\ (blocklist \/ l \in L) THEN "unsubscribed" ELSE member[s][l])
  /\ UNCHANGED <<list, bounced>>

\* unsubscribe-by-campaign, of a campaign on the lists L
UnsubscribeCampaign(s, L, blocklist) ==
  /\ sub' = [sub EXCEPT ![s] = IF blocklist THEN "blocklisted" ELSE @]
  /\ SetMembers({s}, LAMBDA t, l :
       IF l \in Attached(s) /\ (blocklist \/ l \in L) THEN "unsubscribed" ELSE member[s][l])
  /\ UNCHANGED <<list, bounced>>

\* query-subscribers-template: of the rows S that match the text, those on
\* the list given.  A row is compared with ALL the ids, so that two lists
\* select nobody.
Selected(S, ids, status) ==
  {s \in S : Known(s) /\ (ids = {} \/ \E l \in Lists :
     ids = {l} /\ l \in Attached(s) /\ status \in {Gone, member[s][l]})}

\* query-subscribers: here a row is compared with ANY of the ids.
Listed(S, ids, status) ==
  {s \in S : Known(s) /\ (ids = {} \/ \E l \in ids \cap Lists :
     l \in Attached(s) /\ status \in {Gone, member[s][l]})}

\* record-bounce: the bounce being recorded counts.
BounceActs(s) == bounced[s] + 1 >= BounceCount

RecordBounceRow(s) ==
  LET acts == BounceActs(s)
      blocked == sub[s] = "blocklisted"
  IN IF BounceAction = "delete" /\ acts THEN DeleteRows({s})
     ELSE /\ sub' = [sub EXCEPT ![s] =
               IF BounceAction = "blocklist" /\ acts THEN "blocklisted" ELSE @]
          /\ IF BounceAction = "unsubscribe" /\ acts /\ ~blocked
             THEN SetMembers({s}, LAMBDA t, l :
                    IF l \in Attached(s) THEN "unsubscribed" ELSE Gone)
             ELSE UNCHANGED member
          /\ bounced' = [bounced EXCEPT ![s] =
               IF blocked \/ bounced[s] + 1 > BounceCount THEN @ ELSE @ + 1]
          /\ UNCHANGED <<list, request>>

\* Variant: the subscriptions stay.
DeleteListRowsOnly(L) ==
  /\ list' = [l \in Lists |-> IF l \in L THEN NoKind ELSE list[l]]
  /\ UNCHANGED <<sub, member, bounced, request>>

\* delete-lists, and the subscriptions to them.  A list made later is another
\* one to the requests under way.
DeleteListRows(L) ==
  /\ list' = [l \in Lists |-> IF l \in L THEN NoKind ELSE list[l]]
  /\ SetMembers(Subs, LAMBDA s, l : IF l \in L THEN Gone ELSE member[s][l])
  /\ request' = [r \in Requests |-> [request[r] EXCEPT !.lists = @ \ L]]
  /\ UNCHANGED <<sub, bounced>>

-----------------------------------------------------------------------------
(* internal/core/subscribers.go *)

\* HasSubscriberLists: of the subscribers that exist, those with none of the lists.
WithoutLists(S, L) == {s \in S : Known(s) /\ Attached(s) \cap L = {}}

\* GetSubscriberLists, with a status of the subscription or none
GetSubscriberLists(s, L, status) ==
  {l \in Attached(s) : (L = {} \/ l \in L) /\ status \in {Gone, member[s][l]}}

\* GetSubscriberProfileForExport: the sections of the profile, of which a
\* subscription to a private list is not named.
ProfileForExport(s) == [of |-> s, lists |-> {l \in Attached(s) : list[l].type = "public"}]

\* InsertSubscriber: an address that is known is an error.
InsertSubscriber(s, status, L, preconfirm) ==
  /\ ~Known(s)
  /\ InsertRow(s, IF status = Gone THEN "enabled" ELSE status, Existing(L),
               IF preconfirm THEN "confirmed" ELSE "unconfirmed")

\* UpdateSubscriberWithLists, which resubscribes to no list
UpdateWithLists(s, status, L, preconfirm, delete, permitted) ==
  UpdateRowWithLists(s, status, L, IF preconfirm THEN "confirmed" ELSE "unconfirmed",
                     delete, permitted, FALSE)

\* QuerySubscribers and ExportSubscribers of the rows S that match the search
QueryRows(S, ids, status) == Listed(S, ids, status)
ExportRows(S, ids, status) == Selected(S, ids, status)

BlocklistRows(S) == Blocklist(S)
BlocklistRowsByQuery(S, ids, status) == Blocklist(Selected(S, ids, status))
DeleteSubscriberRows(S) == DeleteRows(S)
DeleteRowsByQuery(S, ids, status) == DeleteRows(Selected(S, ids, status))
ConfirmOptionSubscription(s, L) == Confirm(s, L)
DeleteOrphanSubscribers == DeleteRows({s \in Subs : Known(s) /\ Attached(s) = {}})
DeleteBlocklistedSubscribers == DeleteRows({s \in Subs : sub[s] = "blocklisted"})

DeleteBouncesOf(s) ==
  bounced' = [bounced EXCEPT ![s] = 0] /\ UNCHANGED <<sub, member, list, request>>

-----------------------------------------------------------------------------
(* internal/core/subscriptions.go.  A foreign key refuses a missing row.     *)

AddSubscriptions(S, L, status) ==
  L = Existing(L) /\ (\A s \in S : Known(s)) /\ AddMembers(S, L, status)
AddSubscriptionsByQuery(S, ids, sourceStatus, L, status) ==
  L = Existing(L) /\ AddNewMembers(Selected(S, ids, sourceStatus), L, status)
DeleteSubscriptions(S, L) == DeleteMembers(S, L)
DeleteSubscriptionsByQuery(S, ids, sourceStatus, L) ==
  DeleteMembers(Selected(S, ids, sourceStatus), L)
UnsubscribeLists(S, L) == Unsubscribe(S, L)
UnsubscribeListsByQuery(S, ids, sourceStatus, L) ==
  Unsubscribe(Selected(S, ids, sourceStatus), L)

\* DeleteUnconfirmedSubscriptions, of those that are old
DeleteUnconfirmed(old) ==
  OnlyMembers(Subs, LAMBDA s, l :
    IF <<s, l>> \in old /\ member[s][l] = "unconfirmed" /\ list[l].optin = "double"
    THEN Gone ELSE member[s][l])

-----------------------------------------------------------------------------
(* internal/core/lists.go and internal/core/bounces.go *)

\* GetLists and QueryLists: all, or those permitted
GetListRows(all, permitted) == {l \in Existing(Lists) : all \/ l \in permitted}
QueryListRows(L, all, permitted) == {l \in Existing(L) : all \/ l \in permitted}

PutList(l, kind) ==
  list' = [list EXCEPT ![l] = kind] /\ UNCHANGED <<sub, member, bounced, request>>
CreateListRow(l, kind) == list[l] = NoKind /\ PutList(l, kind)
UpdateListRow(l, kind) == list[l] # NoKind /\ PutList(l, kind)

\* DeleteLists by ids, or those that match a search of the lists permitted
DeleteListsOf(L, byQuery, all, permitted) ==
  DeleteListRows(IF byQuery /\ ~all THEN L \cap permitted ELSE L)

\* RecordBounce: one of an unknown subscriber is ignored.
RecordBounce(s) == Known(s) /\ RecordBounceRow(s)

BlocklistBounced == Blocklist({s \in Subs : bounced[s] > 0})

\* DeleteBounces of a set of them or of all, which leaves `left`
DeleteBounceRows(left) ==
  /\ left \in [Subs -> 0..BounceCount] /\ \A s \in Subs : left[s] <= bounced[s]
  /\ bounced' = left /\ UNCHANGED <<sub, member, list, request>>
=============================================================================
