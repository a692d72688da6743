---------------------------- MODULE ContactsProofs ----------------------------
(***************************************************************************)
(* Theorems about Contacts: nothing dangles after any cascade, a limited    *)
(* user sees and changes what belongs to the lists they may, and neither a  *)
(* blocklisting nor an unsubscription is lifted behind anybody's back.      *)
(*                                                                         *)
(* TypeOK is inductive.  The action properties follow from what each        *)
(* statement of ContactStore does to the tables, which a lemma says for      *)
(* each of them; a handler's step is then a matter of which lists it was     *)
(* given.                                                                   *)
(***************************************************************************)
EXTENDS Contacts, TLAPS

\* TypeOK of the tables, and of the requests.
StoreOK ==
  /\ sub \in [Subs -> SubStatuses \cup {Gone}]
  /\ member \in [Subs -> [Lists -> MemberStatuses \cup {Gone}]]
  /\ list \in [Lists -> ListKinds \cup {NoKind}]
  /\ bounced \in [Subs -> 0..BounceCount]
  /\ \A s \in Subs, l \in Lists : member[s][l] # Gone => Known(s) /\ list[l] # NoKind
  /\ \A s \in Subs : bounced[s] > 0 => Known(s)
RequestsOK ==
  /\ request \in [Requests -> RequestType]
  /\ \A r \in Requests : request[r].pc # "idle" => request[r].sub \in Subs
  /\ \A r \in Requests : request[r].pc \notin {"idle", "form"} => Known(request[r].sub)

\* What a step may do to rows and subscriptions: no row goes; no blocklisting is
\* lifted; nobody who unsubscribed is back; only subscriptions to L change.
NoneGoes == \A s \in Subs : sub[s] # Gone => sub'[s] # Gone
NoneLifted == \A s \in Subs : sub[s] = "blocklisted" => sub'[s] \in {"blocklisted", Gone}
NoneRejoins ==
  \A s \in Subs, l \in Lists :
    member[s][l] = "unsubscribed" => member'[s][l] \in {"unsubscribed", Gone}
Within(L) ==
  \A s \in Subs, l \in Lists :
    member'[s][l] # member[s][l] => l \in L \/ sub'[s] \in {"blocklisted", Gone}

\* The invariant in its parts.
LEMMA TypeParts ==
  StoreOK /\ RequestsOK /\ by \in Users \cup {Nobody} => TypeOK
BY DEF TypeOK, StoreOK, RequestsOK

-----------------------------------------------------------------------------
(* Statements *)

\* Statements that leave lists and bounces alone and make no row go.
LEMMA StoreChanged ==
  ASSUME StoreOK, UNCHANGED <<list, bounced>>,
         sub' \in [Subs -> SubStatuses \cup {Gone}],
         member' \in [Subs -> [Lists -> MemberStatuses \cup {Gone}]],
         NoneGoes,
         \A s \in Subs, l \in Lists : member'[s][l] # Gone => sub'[s] # Gone /\ list[l] # NoKind
  PROVE  StoreOK'
BY DEF StoreOK, NoneGoes, Known

\* blocklist-subscribers
LEMMA BlocklistStep ==
  ASSUME StoreOK, NEW S, Blocklist(S)
  PROVE  StoreOK' /\ NoneGoes /\ NoneLifted /\ NoneRejoins /\ Within({})
<1>1. /\ UNCHANGED <<list, bounced>>
      /\ \A s \in Subs : sub'[s] = IF s \in S /\ Known(s) THEN "blocklisted" ELSE sub[s]
  BY DEF Blocklist
<1>2. \A s \in Subs, l \in Lists : member'[s][l] =
        IF s \in S /\ member[s][l] # Gone THEN "unsubscribed" ELSE member[s][l]
  BY DEF Blocklist, SetMembers, Attached, StoreOK
<1>3. sub' \in [Subs -> SubStatuses \cup {Gone}]
  BY DEF Blocklist, StoreOK, SubStatuses
<1>4. member' \in [Subs -> [Lists -> MemberStatuses \cup {Gone}]]
  BY DEF Blocklist, SetMembers, StoreOK, MemberStatuses
<1>5. NoneGoes /\ NoneLifted
  BY <1>1 DEF NoneGoes, NoneLifted, Gone
<1>6. \A s \in Subs, l \in Lists : member'[s][l] # Gone => member[s][l] # Gone
  BY <1>2
<1>7. StoreOK'
  BY <1>1, <1>3, <1>4, <1>5, <1>6, StoreChanged DEF StoreOK, NoneGoes, Known
<1>8. NoneRejoins
  BY <1>2 DEF NoneRejoins
<1>9. Within({})
  BY <1>1, <1>2 DEF Within, StoreOK
<1> QED BY <1>5, <1>7, <1>8, <1>9

\* insert-subscriber, of an address that is not known
LEMMA InsertStep ==
  ASSUME StoreOK, NEW s \in Subs, ~Known(s), NEW status \in SubStatuses,
         NEW L \in SUBSET Lists, NEW st \in MemberStatuses,
         InsertRow(s, status, Existing(L), st)
  PROVE  StoreOK' /\ NoneGoes /\ NoneLifted /\ NoneRejoins /\ Within(L)
<1>1. /\ UNCHANGED <<list, bounced>> /\ sub' = [sub EXCEPT ![s] = status]
      /\ sub[s] = Gone /\ status # Gone
  BY DEF InsertRow, Known, SubStatuses, Gone
<1>2. \A t \in Subs, l \in Lists : member'[t][l] =
        IF t # s THEN member[t][l] ELSE IF l \notin Existing(L) THEN Gone
        ELSE IF status = "blocklisted" THEN "unsubscribed" ELSE st
  BY DEF InsertRow, SetMembers, StoreOK
<1>3. sub' \in [Subs -> SubStatuses \cup {Gone}]
  BY <1>1 DEF StoreOK
<1>4. member' \in [Subs -> [Lists -> MemberStatuses \cup {Gone}]]
  BY DEF InsertRow, SetMembers, StoreOK, MemberStatuses
<1>5. \A t \in Subs : sub'[t] = IF t = s THEN status ELSE sub[t]
  BY <1>1 DEF StoreOK
<1>6. NoneGoes /\ NoneLifted
  BY <1>1, <1>5 DEF NoneGoes, NoneLifted, Gone
<1>7. \A l \in Lists : member[s][l] = Gone
  BY <1>1 DEF StoreOK, Known
<1>8. \A t \in Subs, l \in Lists : member'[t][l] # Gone => sub'[t] # Gone /\ list[l] # NoKind
  BY <1>1, <1>2, <1>5 DEF StoreOK, Known, Existing
<1>9. StoreOK'
  BY <1>1, <1>3, <1>4, <1>6, <1>8, StoreChanged
<1>10. NoneRejoins
  BY <1>2, <1>7 DEF NoneRejoins, Gone
<1>11. Within(L)
  BY <1>2, <1>7 DEF Within, Existing
<1> QED BY <1>6, <1>9, <1>10, <1>11

\* update-subscriber
LEMMA UpdateRowStep ==
  ASSUME StoreOK, NEW s \in Subs, Known(s), NEW status \in SubStatuses \cup {Gone},
         UpdateRow(s, status)
  PROVE  /\ StoreOK' /\ NoneGoes /\ NoneRejoins /\ member' = member
         /\ \A t \in Subs : sub'[t] = IF t = s /\ status # Gone THEN status ELSE sub[t]
<1>1. /\ UNCHANGED <<member, list, bounced>>
      /\ sub' = [sub EXCEPT ![s] = IF status = Gone THEN sub[s] ELSE status]
  BY DEF UpdateRow
<1>2. \A t \in Subs : sub'[t] = IF t = s /\ status # Gone THEN status ELSE sub[t]
  BY <1>1 DEF StoreOK
<1>3. sub' \in [Subs -> SubStatuses \cup {Gone}]
  BY <1>1 DEF StoreOK
<1>4. NoneGoes
  BY <1>2 DEF NoneGoes
<1>5. StoreOK'
  BY <1>1, <1>3, <1>4, StoreChanged DEF StoreOK, NoneGoes, Known
<1> QED BY <1>1, <1>2, <1>4, <1>5 DEF NoneRejoins

\* update-subscriber-with-lists, as UpdateSubscriberWithLists calls it
LEMMA UpdateWithListsStep ==
  ASSUME StoreOK, NEW s \in Subs, Known(s), NEW status \in SubStatuses \cup {Gone},
         NEW L \in SUBSET Lists, NEW preconfirm \in BOOLEAN, NEW delete \in BOOLEAN,
         NEW permitted, UpdateWithLists(s, status, L, preconfirm, delete, permitted)
  PROVE  /\ StoreOK' /\ NoneGoes /\ NoneRejoins
         /\ permitted # {} => Within(L \cup permitted)
<1> DEFINE st == IF preconfirm THEN "confirmed" ELSE "unconfirmed"
<1>1. /\ UNCHANGED <<list, bounced>>
      /\ sub' = [sub EXCEPT ![s] = IF status = Gone THEN sub[s] ELSE status]
  BY DEF UpdateWithLists, UpdateRowWithLists
<1>2. st \in {"confirmed", "unconfirmed"}
  OBVIOUS
<1>3. \A t \in Subs, l \in Lists : member'[t][l] =
        IF t # s THEN member[t][l]
        ELSE IF l \in Existing(L) THEN Renewed(member[s][l], status, st, FALSE)
        ELSE IF Drops(l, Existing(L), delete, permitted) THEN Gone ELSE member[s][l]
  BY DEF UpdateWithLists, UpdateRowWithLists, SetMembers, StoreOK
<1> HIDE DEF st
<1>4. \A t \in Subs : sub'[t] = IF t = s /\ status # Gone THEN status ELSE sub[t]
  BY <1>1 DEF StoreOK
<1>5. sub' \in [Subs -> SubStatuses \cup {Gone}]
  BY <1>1 DEF StoreOK
<1>6. \A old \in MemberStatuses \cup {Gone} :
        /\ Renewed(old, status, st, FALSE) \in MemberStatuses \cup {Gone}
        /\ old = "unsubscribed" => Renewed(old, status, st, FALSE) = "unsubscribed"
  BY <1>2 DEF Renewed, MemberStatuses
<1>7. ASSUME NEW t \in Subs, NEW l \in Lists
      PROVE  /\ member'[t][l] \in MemberStatuses \cup {Gone}
             /\ member'[t][l] # Gone => sub[t] # Gone /\ list[l] # NoKind
             /\ member[t][l] = "unsubscribed" => member'[t][l] \in {"unsubscribed", Gone}
  <2>1. /\ member[t][l] \in MemberStatuses \cup {Gone}
        /\ member[t][l] # Gone => sub[t] # Gone /\ list[l] # NoKind
    BY DEF StoreOK, Known
  <2>2. CASE t = s /\ l \in Existing(L)
    <3>1. member'[t][l] = Renewed(member[t][l], status, st, FALSE)
      BY <1>3, <2>2
    <3>2. list[l] # NoKind /\ sub[t] # Gone
      BY <2>2 DEF Existing, Known
    <3> QED BY <3>1, <3>2, <2>1, <1>6
  <2>3. CASE ~(t = s /\ l \in Existing(L))
    <3>1. member'[t][l] \in {member[t][l], Gone}
      BY <1>3, <2>3
    <3> QED BY <2>1, <3>1
  <2> QED BY <2>2, <2>3
<1>8. member' \in [Subs -> [Lists -> MemberStatuses \cup {Gone}]]
  <2>1. member' = [t \in Subs |-> [l \in Lists |-> member'[t][l]]]
    BY DEF UpdateWithLists, UpdateRowWithLists, SetMembers, StoreOK
  <2> QED BY <1>7, <2>1
<1>9. NoneGoes
  BY <1>4 DEF NoneGoes
<1>10. \A t \in Subs, l \in Lists : member'[t][l] # Gone => sub'[t] # Gone /\ list[l] # NoKind
  BY <1>7, <1>9 DEF NoneGoes
<1>11. StoreOK'
  BY <1>1, <1>5, <1>8, <1>9, <1>10, StoreChanged
<1>12. NoneRejoins
  BY <1>7 DEF NoneRejoins
<1>13. ASSUME permitted # {} PROVE Within(L \cup permitted)
  BY <1>3, <1>13 DEF Within, Drops, Existing
<1> QED BY <1>9, <1>11, <1>12, <1>13

\* Statements on subscriptions alone.
LEMMA MembersChanged ==
  ASSUME StoreOK, UNCHANGED <<sub, list, bounced>>,
         member' \in [Subs -> [Lists -> MemberStatuses \cup {Gone}]],
         \A s \in Subs, l \in Lists : member'[s][l] # Gone => Known(s) /\ list[l] # NoKind
  PROVE  StoreOK' /\ NoneGoes /\ NoneLifted
<1>1. NoneGoes /\ NoneLifted
  BY DEF NoneGoes, NoneLifted, StoreOK
<1>2. StoreOK'
  BY <1>1, StoreChanged DEF StoreOK, Known
<1> QED BY <1>1, <1>2

\* add-subscribers-to-lists: with a status it brings back who unsubscribed.
LEMMA AddMembersStep ==
  ASSUME StoreOK, NEW S, \A s \in S : Known(s), NEW L \in SUBSET Lists, L = Existing(L),
         NEW status \in MemberStatuses \cup {Gone}, AddMembers(S, L, status)
  PROVE  StoreOK' /\ NoneGoes /\ NoneLifted /\ (status = Gone => NoneRejoins) /\ Within(L)
<1>1. UNCHANGED <<sub, list, bounced>>
  BY DEF AddMembers, OnlyMembers
<1>2. \A s \in Subs, l \in Lists : member'[s][l] =
        IF s \notin S \/ l \notin L THEN member[s][l]
        ELSE IF status # Gone THEN status
        ELSE IF member[s][l] # Gone THEN member[s][l] ELSE "unconfirmed"
  BY DEF AddMembers, OnlyMembers, SetMembers, Attached, StoreOK
<1>3. \A s \in Subs, l \in Lists : member'[s][l] \in MemberStatuses \cup {Gone}
  BY <1>2 DEF StoreOK, MemberStatuses
<1>4. member' = [s \in Subs |-> [l \in Lists |-> member'[s][l]]]
  BY DEF AddMembers, OnlyMembers, SetMembers, StoreOK
<1>5. \A s \in Subs, l \in Lists : member'[s][l] # Gone => Known(s) /\ list[l] # NoKind
  BY <1>2 DEF StoreOK, Existing
<1>6. StoreOK' /\ NoneGoes /\ NoneLifted
  BY <1>1, <1>3, <1>4, <1>5, MembersChanged
<1>7. status = Gone => NoneRejoins
  BY <1>2 DEF NoneRejoins, Gone
<1>8. Within(L)
  BY <1>2 DEF Within
<1> QED BY <1>6, <1>7, <1>8

\* add-subscribers-to-lists-by-query
LEMMA AddNewMembersStep ==
  ASSUME StoreOK, NEW S, \A s \in S : Known(s), NEW L \in SUBSET Lists, L = Existing(L),
         NEW status \in MemberStatuses \cup {Gone}, AddNewMembers(S, L, status)
  PROVE  StoreOK' /\ NoneGoes /\ NoneLifted /\ NoneRejoins /\ Within(L)
<1>1. UNCHANGED <<sub, list, bounced>>
  BY DEF AddNewMembers, OnlyMembers
<1>2. \A s \in Subs, l \in Lists : member'[s][l] =
        IF s \notin S \/ l \notin L \/ member[s][l] # Gone THEN member[s][l]
        ELSE IF status # Gone THEN status ELSE "unconfirmed"
  BY DEF AddNewMembers, OnlyMembers, SetMembers, Attached, StoreOK
<1>3. \A s \in Subs, l \in Lists : member'[s][l] \in MemberStatuses \cup {Gone}
  BY <1>2 DEF StoreOK, MemberStatuses
<1>4. member' = [s \in Subs |-> [l \in Lists |-> member'[s][l]]]
  BY DEF AddNewMembers, OnlyMembers, SetMembers, StoreOK
<1>5. \A s \in Subs, l \in Lists : member'[s][l] # Gone => Known(s) /\ list[l] # NoKind
  BY <1>2 DEF StoreOK, Existing
<1>6. StoreOK' /\ NoneGoes /\ NoneLifted
  BY <1>1, <1>3, <1>4, <1>5, MembersChanged
<1>7. NoneRejoins
  BY <1>2 DEF NoneRejoins, Gone
<1>8. Within(L)
  BY <1>2 DEF Within
<1> QED BY <1>6, <1>7, <1>8

\* delete-subscriptions and unsubscribe-subscribers-from-lists
LEMMA RemoveMembersStep ==
  ASSUME StoreOK, NEW S, NEW L, DeleteMembers(S, L) \/ Unsubscribe(S, L)
  PROVE  /\ StoreOK' /\ NoneGoes /\ NoneLifted /\ NoneRejoins /\ Within(L)
<1>1. UNCHANGED <<sub, list, bounced>>
  BY DEF DeleteMembers, Unsubscribe, OnlyMembers
<1>2. \A s \in Subs, l \in Lists :
        \/ member'[s][l] = member[s][l]
        \/ l \in L /\ member[s][l] # Gone /\ member'[s][l] \in {"unsubscribed", Gone}
  <2>1. CASE DeleteMembers(S, L)
    BY <2>1 DEF DeleteMembers, OnlyMembers, SetMembers, StoreOK
  <2>2. CASE Unsubscribe(S, L)
    BY <2>2 DEF Unsubscribe, OnlyMembers, SetMembers, Attached, StoreOK
  <2> QED BY <2>1, <2>2
<1>3. \A s \in Subs, l \in Lists : member'[s][l] \in MemberStatuses \cup {Gone}
  BY <1>2 DEF StoreOK, MemberStatuses
<1>4. member' = [s \in Subs |-> [l \in Lists |-> member'[s][l]]]
  <2>1. CASE DeleteMembers(S, L)
    BY <2>1 DEF DeleteMembers, OnlyMembers, SetMembers
  <2>2. CASE Unsubscribe(S, L)
    BY <2>2 DEF Unsubscribe, OnlyMembers, SetMembers
  <2> QED BY <2>1, <2>2
<1>5. \A s \in Subs, l \in Lists : member'[s][l] # Gone => Known(s) /\ list[l] # NoKind
  BY <1>2 DEF StoreOK
<1>6. StoreOK' /\ NoneGoes /\ NoneLifted
  BY <1>1, <1>3, <1>4, <1>5, MembersChanged
<1>7. NoneRejoins
  BY <1>2 DEF NoneRejoins
<1>8. Within(L)
  BY <1>2 DEF Within
<1> QED BY <1>6, <1>7, <1>8

\* confirm-subscription-optin touches one subscriber.
LEMMA ConfirmStep ==
  ASSUME StoreOK, NEW s \in Subs, NEW L, Confirm(s, L)
  PROVE  /\ StoreOK' /\ NoneGoes /\ NoneLifted
         /\ \A t \in Subs, l \in Lists : t # s => member'[t][l] = member[t][l]
<1>1. UNCHANGED <<sub, list, bounced>>
  BY DEF Confirm, OnlyMembers
<1>2. \A t \in Subs, l \in Lists : member'[t][l] =
        IF t = s /\ l \in L /\ member[t][l] # Gone THEN "confirmed" ELSE member[t][l]
  BY DEF Confirm, OnlyMembers, SetMembers, Attached, StoreOK
<1>3. \A t \in Subs, l \in Lists : member'[t][l] \in MemberStatuses \cup {Gone}
  BY <1>2 DEF StoreOK, MemberStatuses
<1>4. member' = [t \in Subs |-> [l \in Lists |-> member'[t][l]]]
  BY DEF Confirm, OnlyMembers, SetMembers
<1>5. \A t \in Subs, l \in Lists : member'[t][l] # Gone => Known(t) /\ list[l] # NoKind
  BY <1>2 DEF StoreOK
<1>6. StoreOK' /\ NoneGoes /\ NoneLifted
  BY <1>1, <1>3, <1>4, <1>5, MembersChanged
<1> QED BY <1>2, <1>6

\* unsubscribe-by-campaign
LEMMA UnsubscribeCampaignStep ==
  ASSUME StoreOK, NEW s \in Subs, Known(s), NEW L, NEW blocklist \in BOOLEAN,
         UnsubscribeCampaign(s, L, blocklist)
  PROVE  StoreOK' /\ NoneGoes /\ NoneLifted /\ NoneRejoins
<1>1. /\ UNCHANGED <<list, bounced>>
      /\ sub' = [sub EXCEPT ![s] = IF blocklist THEN "blocklisted" ELSE sub[s]]
  BY DEF UnsubscribeCampaign
<1>2. \A t \in Subs, l \in Lists :
        \/ member'[t][l] = member[t][l]
        \/ member[t][l] # Gone /\ member'[t][l] = "unsubscribed"
  BY DEF UnsubscribeCampaign, SetMembers, Attached, StoreOK
<1>3. \A t \in Subs : sub'[t] = sub[t] \/ sub'[t] = "blocklisted"
  BY <1>1 DEF StoreOK
<1>4. sub' \in [Subs -> SubStatuses \cup {Gone}]
  BY <1>1 DEF StoreOK, SubStatuses
<1>5. member' \in [Subs -> [Lists -> MemberStatuses \cup {Gone}]]
  <2>1. member' = [t \in Subs |-> [l \in Lists |-> member'[t][l]]]
    BY DEF UnsubscribeCampaign, SetMembers
  <2>2. \A t \in Subs, l \in Lists : member'[t][l] \in MemberStatuses \cup {Gone}
    BY <1>2 DEF StoreOK, MemberStatuses
  <2> QED BY <2>1, <2>2
<1>6. NoneGoes /\ NoneLifted
  BY <1>3 DEF NoneGoes, NoneLifted, Gone
<1>7. StoreOK'
  BY <1>1, <1>2, <1>4, <1>5, <1>6, StoreChanged DEF StoreOK, NoneGoes, Known
<1>8. NoneRejoins
  BY <1>2 DEF NoneRejoins
<1> QED BY <1>6, <1>7, <1>8

\* Deletion of subscriptions that were never confirmed.
LEMMA DeleteUnconfirmedStep ==
  ASSUME StoreOK, NEW old, DeleteUnconfirmed(old)
  PROVE  /\ StoreOK' /\ NoneGoes /\ NoneLifted /\ NoneRejoins
         /\ \A s \in Subs, l \in Lists : member'[s][l] # member[s][l] =>
              member[s][l] = "unconfirmed" /\ member'[s][l] = Gone
<1>1. UNCHANGED <<sub, list, bounced>>
  BY DEF DeleteUnconfirmed, OnlyMembers
<1>2. \A s \in Subs, l \in Lists :
        \/ member'[s][l] = member[s][l]
        \/ member[s][l] = "unconfirmed" /\ member'[s][l] = Gone
  BY DEF DeleteUnconfirmed, OnlyMembers, SetMembers, StoreOK
<1>3. \A s \in Subs, l \in Lists : member'[s][l] \in MemberStatuses \cup {Gone}
  BY <1>2 DEF StoreOK
<1>4. member' = [s \in Subs |-> [l \in Lists |-> member'[s][l]]]
  BY DEF DeleteUnconfirmed, OnlyMembers, SetMembers
<1>5. \A s \in Subs, l \in Lists : member'[s][l] # Gone => Known(s) /\ list[l] # NoKind
  BY <1>2 DEF StoreOK
<1>6. StoreOK' /\ NoneGoes /\ NoneLifted
  BY <1>1, <1>3, <1>4, <1>5, MembersChanged
<1> QED BY <1>2, <1>6 DEF NoneRejoins

\* A statement that changes nothing but a request.
LEMMA StoreKept ==
  ASSUME StoreOK, Unchanged
  PROVE  StoreOK' /\ NoneGoes /\ NoneLifted /\ NoneRejoins /\ Within({})
<1>1. NoneRejoins /\ Within({})
  BY DEF Unchanged, NoneRejoins, Within, StoreOK
<1>2. NoneGoes /\ NoneLifted
  BY DEF Unchanged, NoneGoes, NoneLifted
<1>3. StoreOK'
  BY DEF Unchanged, StoreOK, Known
<1> QED BY <1>1, <1>2, <1>3

\* delete-subscribers, with the requests on them
LEMMA DeleteRowsStep ==
  ASSUME StoreOK, RequestsOK, NEW S, DeleteRows(S)
  PROVE  StoreOK' /\ RequestsOK' /\ NoneLifted /\ NoneRejoins /\ Within({})
<1>1. list' = list /\ \A s \in Subs : /\ sub'[s] = IF s \in S THEN Gone ELSE sub[s]
                                    /\ bounced'[s] = IF s \in S THEN 0 ELSE bounced[s]
  BY DEF DeleteRows
<1>2. \A s \in Subs, l \in Lists : member'[s][l] = IF s \in S THEN Gone ELSE member[s][l]
  BY DEF DeleteRows, SetMembers
<1>3. sub' \in [Subs -> SubStatuses \cup {Gone}]
  BY DEF DeleteRows, StoreOK
<1>4. member' \in [Subs -> [Lists -> MemberStatuses \cup {Gone}]]
  BY DEF DeleteRows, SetMembers, StoreOK
<1>5. bounced' \in [Subs -> 0..BounceCount]
  <2>1. 0 \in 0..BounceCount
    BY ContactStoreAssumption DEF ContactStoreAssumption
  <2> QED BY <2>1 DEF DeleteRows, StoreOK
<1>6. \A s \in Subs, l \in Lists : member'[s][l] # Gone => sub'[s] # Gone /\ list[l] # NoKind
  BY <1>1, <1>2 DEF StoreOK, Known
<1>7. \A s \in Subs : bounced'[s] > 0 => sub'[s] # Gone
  BY <1>1 DEF StoreOK, Known
<1>8. StoreOK'
  BY <1>1, <1>3, <1>4, <1>5, <1>6, <1>7 DEF StoreOK, Known
<1>9. \A r \in Requests : \/ request'[r] = Idle
                          \/ /\ request'[r] = request[r]
                             /\ request[r].pc # "form" => request[r].sub \notin S
  BY DEF DeleteRows
<1>10. \A r \in Requests : request'[r] \in RequestType
  BY <1>9 DEF RequestsOK, RequestType, Idle, Gone
<1>11. request' \in [Requests -> RequestType]
  BY <1>10 DEF DeleteRows
<1>12. \A r \in Requests :
         /\ request'[r].pc # "idle" => request'[r].sub \in Subs
         /\ request'[r].pc \notin {"idle", "form"} => sub'[request'[r].sub] # Gone
  BY <1>1, <1>9 DEF RequestsOK, Idle, Known
<1>13. RequestsOK'
  BY <1>11, <1>12 DEF RequestsOK, Known
<1>14. NoneLifted /\ NoneRejoins /\ Within({})
  BY <1>1, <1>2 DEF NoneLifted, NoneRejoins, Within
<1> QED BY <1>8, <1>13, <1>14

\* delete-lists, with the subscriptions to them
LEMMA DeleteListRowsStep ==
  ASSUME StoreOK, RequestsOK, NEW L, DeleteListRows(L)
  PROVE  StoreOK' /\ RequestsOK' /\ NoneRejoins /\ Within(L)
<1>1. UNCHANGED <<sub, bounced>> /\ \A l \in Lists : list'[l] = IF l \in L THEN NoKind ELSE list[l]
  BY DEF DeleteListRows
<1>2. \A s \in Subs, l \in Lists : member'[s][l] = IF l \in L THEN Gone ELSE member[s][l]
  BY DEF DeleteListRows, SetMembers
<1>3. list' \in [Lists -> ListKinds \cup {NoKind}]
  BY DEF DeleteListRows, StoreOK
<1>4. member' \in [Subs -> [Lists -> MemberStatuses \cup {Gone}]]
  BY DEF DeleteListRows, SetMembers, StoreOK
<1>5. \A s \in Subs, l \in Lists : member'[s][l] # Gone => Known(s) /\ list'[l] # NoKind
  BY <1>1, <1>2 DEF StoreOK
<1>6. StoreOK'
  BY <1>1, <1>3, <1>4, <1>5 DEF StoreOK, Known
<1>7. \A r \in Requests : request'[r] = [request[r] EXCEPT !.lists = request[r].lists \ L]
  BY DEF DeleteListRows
<1>8. \A r \in Requests : /\ request'[r] \in RequestType
                          /\ request'[r].pc = request[r].pc /\ request'[r].sub = request[r].sub
  <2> SUFFICES ASSUME NEW r \in Requests
               PROVE  /\ request'[r] \in RequestType
                      /\ request'[r].pc = request[r].pc /\ request'[r].sub = request[r].sub
    OBVIOUS
  <2>1. request[r] \in RequestType
    BY DEF RequestsOK
  <2>2. request[r].lists \ L \in SUBSET Lists
    BY <2>1 DEF RequestType
  <2> QED BY <1>7, <2>1, <2>2, ZenonT(60) DEF RequestType
<1>9. request' \in [Requests -> RequestType]
  BY <1>8 DEF DeleteListRows
<1>10. RequestsOK'
  BY <1>1, <1>8, <1>9 DEF RequestsOK, Known
<1>11. NoneRejoins /\ Within(L)
  BY <1>2 DEF NoneRejoins, Within
<1> QED BY <1>6, <1>10, <1>11

\* create-list and update-list, and the bounces that go
LEMMA OtherRowsStep ==
  ASSUME StoreOK, RequestsOK, UNCHANGED <<sub, member, request>>,
         list' \in [Lists -> ListKinds \cup {NoKind}],
         \A l \in Lists : list[l] # NoKind => list'[l] # NoKind,
         bounced' \in [Subs -> 0..BounceCount], \A s \in Subs : bounced'[s] > 0 => bounced[s] > 0
  PROVE  StoreOK' /\ RequestsOK' /\ NoneLifted /\ NoneRejoins /\ Within({})
<1>1. StoreOK'
  BY DEF StoreOK, Known
<1>2. RequestsOK'
  BY DEF RequestsOK, Known
<1>3. NoneLifted /\ NoneRejoins /\ Within({})
  BY DEF NoneLifted, NoneRejoins, Within, StoreOK
<1> QED BY <1>1, <1>2, <1>3

\* record-bounce
LEMMA RecordBounceStep ==
  ASSUME StoreOK, RequestsOK, NEW s \in Subs, RecordBounce(s)
  PROVE  StoreOK' /\ RequestsOK' /\ NoneLifted /\ NoneRejoins
<1>1. Known(s) /\ RecordBounceRow(s)
  BY DEF RecordBounce
<1>2. CASE DeleteRows({s})
  BY <1>2, DeleteRowsStep
<1>3. CASE ~DeleteRows({s})
  <2>1. /\ UNCHANGED <<list, request>>
        /\ sub' = [sub EXCEPT ![s] = IF BounceAction = "blocklist" /\ BounceActs(s)
                                     THEN "blocklisted" ELSE sub[s]]
        /\ bounced' = [bounced EXCEPT ![s] =
             IF sub[s] = "blocklisted" \/ bounced[s] + 1 > BounceCount
             THEN bounced[s] ELSE bounced[s] + 1]
    BY <1>1, <1>3 DEF RecordBounceRow
  <2>2. \/ UNCHANGED member
        \/ SetMembers({s}, LAMBDA t, l : IF l \in Attached(s) THEN "unsubscribed" ELSE Gone)
    BY <1>1, <1>3 DEF RecordBounceRow
  <2>3. \A t \in Subs, l \in Lists : \/ member'[t][l] = member[t][l]
                                     \/ member[t][l] # Gone /\ member'[t][l] = "unsubscribed"
    BY <2>2 DEF SetMembers, Attached, StoreOK
  <2>4. member' \in [Subs -> [Lists -> MemberStatuses \cup {Gone}]]
    <3>1. member' = [t \in Subs |-> [l \in Lists |-> member'[t][l]]]
      BY <2>2 DEF SetMembers, StoreOK
    <3>2. \A t \in Subs, l \in Lists : member'[t][l] \in MemberStatuses \cup {Gone}
      BY <2>3 DEF StoreOK, MemberStatuses
    <3> QED BY <3>1, <3>2
  <2>5. \A t \in Subs : sub'[t] = sub[t] \/ sub'[t] = "blocklisted"
    BY <2>1 DEF StoreOK
  <2>6. sub' \in [Subs -> SubStatuses \cup {Gone}]
    BY <2>1 DEF StoreOK, SubStatuses
  <2>7. NoneGoes /\ NoneLifted
    BY <2>5 DEF NoneGoes, NoneLifted, Gone
  <2>8. bounced[s] \in 0..BounceCount /\ BounceCount \in Nat
    BY ContactStoreAssumption DEF ContactStoreAssumption, StoreOK
  <2>9. (IF sub[s] = "blocklisted" \/ bounced[s] + 1 > BounceCount
         THEN bounced[s] ELSE bounced[s] + 1) \in 0..BounceCount
    BY <2>8
  <2>10. bounced' \in [Subs -> 0..BounceCount]
    BY <2>1, <2>9 DEF StoreOK
  <2>11. \A t \in Subs : t = s \/ bounced'[t] = bounced[t]
    BY <2>1 DEF StoreOK
  <2>12. \A t \in Subs : bounced'[t] > 0 => sub'[t] # Gone
    BY <2>11, <2>7, <1>1 DEF StoreOK, NoneGoes, Known
  <2>13. \A t \in Subs, l \in Lists : member'[t][l] # Gone => sub'[t] # Gone /\ list[l] # NoKind
    BY <2>3, <2>7 DEF StoreOK, NoneGoes, Known
  <2>14. StoreOK'
    BY <2>1, <2>4, <2>6, <2>10, <2>12, <2>13 DEF StoreOK, Known
  <2>15. RequestsOK'
    BY <2>1, <2>7 DEF RequestsOK, NoneGoes, Known
  <2>16. NoneRejoins
    BY <2>3 DEF NoneRejoins
  <2> QED BY <2>7, <2>14, <2>15, <2>16
<1> QED BY <1>2, <1>3

-----------------------------------------------------------------------------
(* Requests *)

\* A step that lets the requests be.
LEMMA RequestsKept ==
  ASSUME RequestsOK, NoneGoes, UNCHANGED request
  PROVE  RequestsOK'
BY DEF RequestsOK, NoneGoes, Known

\* The first statement of a request.
LEMMA BeginStep ==
  ASSUME RequestsOK, NEW r \in Requests, NEW pc \in {"patch", "prefs", "optin", "form"},
         NEW u \in Users \cup {Nobody}, NEW s \in Subs, pc = "form" \/ Known(s),
         NEW status \in SubStatuses \cup {Gone}, NEW L \in SUBSET Lists,
         Begin(r, pc, u, s, status, L)
  PROVE  RequestsOK' /\ Unchanged
<1> DEFINE q == [pc |-> pc, user |-> u, sub |-> s, status |-> status, lists |-> L]
<1>1. request' = [request EXCEPT ![r] = q] /\ Unchanged
  BY DEF Begin
<1>2. q \in RequestType /\ q.sub = s /\ q.pc = pc
  BY DEF RequestType
<1> HIDE DEF q
<1>3. request' \in [Requests -> RequestType]
  BY <1>1, <1>2 DEF RequestsOK
<1>4. \A x \in Requests : request'[x] = IF x = r THEN q ELSE request[x]
  BY <1>1 DEF RequestsOK
<1>5. sub' = sub
  BY <1>1 DEF Unchanged
<1>6. \A x \in Requests :
        /\ request'[x].pc # "idle" => request'[x].sub \in Subs
        /\ request'[x].pc \notin {"idle", "form"} => sub'[request'[x].sub] # Gone
  BY <1>2, <1>4, <1>5 DEF RequestsOK, Known
<1>7. RequestsOK'
  BY <1>3, <1>6 DEF RequestsOK, Known
<1> QED BY <1>1, <1>7

\* A statement between, or the last.
LEMMA ContinueStep ==
  ASSUME RequestsOK, NoneGoes, NEW r \in Requests, NEW q \in RequestType,
         q.pc \in {"idle", "form"} \/ (q.sub = request[r].sub /\ request[r].pc \notin {"idle", "form"}),
         q.pc = "form" => q.sub \in Subs,
         request' = [request EXCEPT ![r] = q]
  PROVE  RequestsOK'
<1>1. request' \in [Requests -> RequestType]
  BY DEF RequestsOK
<1>2. \A x \in Requests : request'[x] = IF x = r THEN q ELSE request[x]
  BY DEF RequestsOK
<1>3. \A x \in Requests : request'[x].pc # "idle" => request'[x].sub \in Subs
  BY <1>2 DEF RequestsOK
<1>4. \A x \in Requests : request'[x].pc \notin {"idle", "form"} => sub'[request'[x].sub] # Gone
  BY <1>2 DEF RequestsOK, NoneGoes, Known
<1> QED BY <1>1, <1>3, <1>4 DEF RequestsOK, Known

\* The last statement of a request, or what gives it up.
LEMMA EndStep ==
  ASSUME RequestsOK, NoneGoes, NEW r \in Requests, End(r)
  PROVE  RequestsOK'
<1>1. Idle \in RequestType /\ Idle.pc = "idle"
  BY DEF Idle, RequestType
<1> QED BY <1>1, ContinueStep DEF End

-----------------------------------------------------------------------------
(* Handlers *)

\* The body of ScopeKept, of a step of the user u.
Scoped(u) ==
  ~AllPermitted(u, {"manage"}) /\ PermittedLists(u, {"manage"}) # {} =>
    \A s \in Subs, l \in Lists \ PermittedLists(u, {"manage"}) :
      member'[s][l] # member[s][l] =>
        \/ sub'[s] \in {"blocklisted", Gone}
        \/ /\ HasPerm(u, "settings:maintain")
           /\ member[s][l] = "unconfirmed" /\ member'[s][l] = Gone

\* The step that ConsentKept lets a user take.
AddsBack(u) ==
  \E S \in Rows, L \in Targets, st \in MemberStatuses :
    ManageSubscriberLists(u, S, L, "add", st)

\* What a user's step has to keep.
UserKeeps(u) == StoreOK' /\ RequestsOK' /\ Scoped(u) /\ (NoneRejoins \/ AddsBack(u))

\* The lists of a request are reduced to those the user manages.
LEMMA ManagedLists ==
  ASSUME NEW u \in Users, NEW L \in SUBSET Lists
  PROVE  /\ Managed(u, L) \in SUBSET Lists
         /\ ~AllPermitted(u, {"manage"}) => Managed(u, L) \subseteq Replaceable(u)
<1>1. Managed(u, L) \in SUBSET Lists
  BY DEF Managed, FilterListsByPerm
<1>2. ASSUME ~AllPermitted(u, {"manage"}) PROVE Managed(u, L) \subseteq Replaceable(u)
  BY <1>2 DEF Managed, Replaceable, FilterListsByPerm, PermittedLists, AllPermitted
<1> QED BY <1>1, <1>2

\* A step within lists that the user manages is in the user's scope.
LEMMA WithinScope ==
  ASSUME NEW u \in Users, NEW L, Within(L),
         ~AllPermitted(u, {"manage"}) => L \subseteq Replaceable(u)
  PROVE  Scoped(u)
BY DEF Within, Scoped, Replaceable

\* An edit of one subscriber's row and lists, UpdateSubscriber or PatchSubscriber.
LEMMA EditScope ==
  ASSUME StoreOK, NEW u \in Users, NEW s \in Subs, Known(s), NEW status \in SubStatuses \cup {Gone},
         NEW L \in SUBSET Lists, NEW preconfirm \in BOOLEAN, NEW delete \in BOOLEAN,
         UpdateWithLists(s, status, Managed(u, L), preconfirm, delete, Replaceable(u))
  PROVE  StoreOK' /\ NoneGoes /\ NoneRejoins /\ Scoped(u)
<1>1. Managed(u, L) \in SUBSET Lists
  BY ManagedLists
<1>2. /\ StoreOK' /\ NoneGoes /\ NoneRejoins
      /\ Replaceable(u) # {} => Within(Managed(u, L) \cup Replaceable(u))
  BY <1>1, UpdateWithListsStep
<1>3. CASE Replaceable(u) # {}
  <2>1. Within(Managed(u, L) \cup Replaceable(u))
    BY <1>2, <1>3
  <2>2. ~AllPermitted(u, {"manage"}) => Managed(u, L) \cup Replaceable(u) \subseteq Replaceable(u)
    BY ManagedLists
  <2>3. Scoped(u)
    BY <2>1, <2>2, WithinScope
  <2> QED BY <1>2, <2>3
<1>4. CASE Replaceable(u) = {}
  <2>1. Scoped(u)
    BY <1>4 DEF Scoped, Replaceable
  <2> QED BY <1>2, <2>1
<1> QED BY <1>3, <1>4

\* The handlers that edit rows and subscriptions.
LEMMA UserEditsStep ==
  ASSUME StoreOK, RequestsOK, NEW u \in Users, UserEdits(u)
  PROVE  UserKeeps(u)
<1>1. CASE \E s \in Subs, st \in GivenStatus, L \in Choices, p \in BOOLEAN :
             CreateSubscriber(u, s, st, L, p)
  <2>1. PICK s \in Subs, st \in GivenStatus, L \in Choices, p \in BOOLEAN :
          CreateSubscriber(u, s, st, L, p)
    BY <1>1
  <2>2. L \in SUBSET Lists /\ Managed(u, L) \in SUBSET Lists
    BY ManagedLists DEF Choices
  <2> DEFINE status == IF st = Gone THEN "enabled" ELSE st
             mst == IF p THEN "confirmed" ELSE "unconfirmed"
  <2>3. status \in SubStatuses /\ mst \in MemberStatuses
    BY DEF GivenStatus, SubStatuses, MemberStatuses
  <2>4. ~Known(s) /\ InsertRow(s, status, Existing(Managed(u, L)), mst) /\ UNCHANGED request
    BY <2>1 DEF CreateSubscriber, InsertSubscriber
  <2> HIDE DEF status, mst
  <2>5. StoreOK' /\ NoneGoes /\ NoneRejoins /\ Within(Managed(u, L))
    BY <2>2, <2>3, <2>4, InsertStep
  <2>6. RequestsOK'
    BY <2>4, <2>5, RequestsKept
  <2>7. Scoped(u)
    BY <2>2, <2>5, ManagedLists, WithinScope
  <2> QED BY <2>5, <2>6, <2>7 DEF UserKeeps
<1>2. CASE \E s \in Subs, st \in GivenStatus, L \in Choices, p \in BOOLEAN :
             UpdateSubscriber(u, s, st, L, p)
  <2>1. PICK s \in Subs, st \in GivenStatus, L \in Choices, p \in BOOLEAN :
          UpdateSubscriber(u, s, st, L, p)
    BY <1>2
  <2>2. L \in SUBSET Lists /\ st \in SubStatuses \cup {Gone}
    BY DEF Choices, GivenStatus
  <2>3. /\ Known(s) /\ UNCHANGED request
        /\ UpdateWithLists(s, st, Managed(u, L), p, TRUE, Replaceable(u))
    BY <2>1 DEF UpdateSubscriber
  <2>4. StoreOK' /\ NoneGoes /\ NoneRejoins /\ Scoped(u)
    BY <2>2, <2>3, EditScope
  <2>5. RequestsOK'
    BY <2>3, <2>4, RequestsKept
  <2> QED BY <2>4, <2>5 DEF UserKeeps
<1>3. CASE \E S \in Rows, L \in Targets, e \in Edits : ManageSubscriberLists(u, S, L, e[1], e[2])
  <2>1. PICK S \in Rows, L \in Targets, e \in Edits : ManageSubscriberLists(u, S, L, e[1], e[2])
    BY <1>3
  <2>2. L \in SUBSET Lists /\ Managed(u, L) \in SUBSET Lists
    BY ManagedLists DEF Targets
  <2>3. e[2] \in MemberStatuses \cup {Gone}
    BY DEF Edits, GivenMember
  <2>4. UNCHANGED request
    BY <2>1 DEF ManageSubscriberLists
  <2>5. ASSUME StoreOK', NoneGoes, Within(Managed(u, L)), NoneRejoins \/ AddsBack(u)
        PROVE  UserKeeps(u)
    <3>1. RequestsOK'
      BY <2>4, <2>5, RequestsKept
    <3>2. Scoped(u)
      BY <2>2, <2>5, ManagedLists, WithinScope
    <3> QED BY <2>5, <3>1, <3>2 DEF UserKeeps
  <2>6. CASE e[1] = "add" /\ AddSubscriptions(S, Managed(u, L), e[2])
    <3>1. /\ Managed(u, L) = Existing(Managed(u, L)) /\ \A s \in S : Known(s)
          /\ AddMembers(S, Managed(u, L), e[2])
      BY <2>6 DEF AddSubscriptions
    <3>2. StoreOK' /\ NoneGoes /\ (e[2] = Gone => NoneRejoins) /\ Within(Managed(u, L))
      BY <2>2, <2>3, <3>1, AddMembersStep
    <3>3. e[2] # Gone => AddsBack(u)
      BY <2>1, <2>3, <2>6 DEF AddsBack
    <3> QED BY <2>5, <3>2, <3>3
  <2>7. CASE \/ DeleteSubscriptions(S, Managed(u, L)) \/ UnsubscribeLists(S, Managed(u, L))
    <3>1. StoreOK' /\ NoneGoes /\ NoneRejoins /\ Within(Managed(u, L))
      BY <2>7, RemoveMembersStep DEF DeleteSubscriptions, UnsubscribeLists
    <3> QED BY <2>5, <3>1
  <2> QED BY <2>1, <2>6, <2>7 DEF ManageSubscriberLists
<1>4. CASE \E S \in Rows, L \in Targets, e \in Edits, ids \in Choices, from \in Filters :
             ManageSubscriberListsByQuery(u, S, ids, from, L, e[1], e[2])
  <2>1. PICK S \in Rows, L \in Targets, e \in Edits, ids \in Choices, from \in Filters :
          ManageSubscriberListsByQuery(u, S, ids, from, L, e[1], e[2])
    BY <1>4
  <2> DEFINE T == Selected(S, GetPermittedListIDs(u, ids), from)
  <2>2. L \in SUBSET Lists /\ Managed(u, L) \in SUBSET Lists
    BY ManagedLists DEF Targets
  <2>3. e[2] \in MemberStatuses \cup {Gone}
    BY DEF Edits, GivenMember
  <2>4. \A s \in T : Known(s)
    BY DEF Selected
  <2>5. /\ UNCHANGED request
        /\ \/ AddSubscriptionsByQuery(S, GetPermittedListIDs(u, ids), from, Managed(u, L), e[2])
           \/ DeleteSubscriptionsByQuery(S, GetPermittedListIDs(u, ids), from, Managed(u, L))
           \/ UnsubscribeListsByQuery(S, GetPermittedListIDs(u, ids), from, Managed(u, L))
    BY <2>1 DEF ManageSubscriberListsByQuery
  <2>6. \/ Managed(u, L) = Existing(Managed(u, L)) /\ AddNewMembers(T, Managed(u, L), e[2])
        \/ DeleteMembers(T, Managed(u, L)) \/ Unsubscribe(T, Managed(u, L))
    BY <2>5 DEF AddSubscriptionsByQuery, DeleteSubscriptionsByQuery, UnsubscribeListsByQuery
  <2> HIDE DEF T
  <2>7. StoreOK' /\ NoneGoes /\ NoneRejoins /\ Within(Managed(u, L))
    BY <2>2, <2>3, <2>4, <2>6, AddNewMembersStep, RemoveMembersStep
  <2>8. RequestsOK'
    BY <2>5, <2>7, RequestsKept
  <2>9. Scoped(u)
    BY <2>2, <2>7, ManagedLists, WithinScope
  <2> QED BY <2>7, <2>8, <2>9 DEF UserKeeps
<1> QED BY <1>1, <1>2, <1>3, <1>4 DEF UserEdits

\* Whatever rows are blocklisted or deleted, all is kept.
LEMMA BlocklistKeeps ==
  ASSUME StoreOK, RequestsOK, NEW u \in Users, NEW S, Blocklist(S), UNCHANGED request
  PROVE  UserKeeps(u)
<1>1. StoreOK' /\ NoneGoes /\ NoneRejoins /\ Within({})
  BY BlocklistStep
<1>2. RequestsOK'
  BY <1>1, RequestsKept
<1>3. Scoped(u)
  BY <1>1, WithinScope
<1> QED BY <1>1, <1>2, <1>3 DEF UserKeeps

\* The same of a deletion.
LEMMA DeleteKeeps ==
  ASSUME StoreOK, RequestsOK, NEW u \in Users, NEW S, DeleteRows(S)
  PROVE  UserKeeps(u)
<1>1. StoreOK' /\ RequestsOK' /\ NoneRejoins /\ Within({})
  BY DeleteRowsStep
<1>2. Scoped(u)
  BY <1>1, WithinScope
<1> QED BY <1>1, <1>2 DEF UserKeeps

\* The handlers that delete lists.
LEMMA DeleteListsKeep ==
  ASSUME StoreOK, RequestsOK, NEW u \in Users, NEW L \in SUBSET Lists, NEW q \in BOOLEAN,
         DeleteLists(u, L, q)
  PROVE  UserKeeps(u)
<1> DEFINE all == AllPermitted(u, {"manage"})
           D == IF q /\ ~all THEN L \cap Replaceable(u) ELSE L
<1>1. DeleteListRows(D) /\ (~q => HasListPerm(u, "manage", L))
  BY DEF DeleteLists, DeleteListsOf, Replaceable
<1>2. ~all => D \subseteq Replaceable(u)
  <2>1. CASE q
    BY <2>1
  <2>2. CASE ~q
    BY <1>1, <2>2 DEF HasListPerm, HasPerm, AllOf, AllPermitted, Replaceable, PermittedLists, ListIDs
  <2> QED BY <2>1, <2>2
<1> HIDE DEF all, D
<1>3. StoreOK' /\ RequestsOK' /\ NoneRejoins /\ Within(D)
  BY <1>1, DeleteListRowsStep
<1>4. ~AllPermitted(u, {"manage"}) => D \subseteq Replaceable(u)
  BY <1>2 DEF all
<1>5. Scoped(u)
  BY <1>3, <1>4, WithinScope
<1> QED BY <1>3, <1>5 DEF UserKeeps

\* The handlers that blocklist, delete and clean up.
LEMMA UserDeletesStep ==
  ASSUME StoreOK, RequestsOK, NEW u \in Users, UserDeletes(u)
  PROVE  UserKeeps(u)
<1>1. ASSUME UNCHANGED <<sub, member, request>>,
             list' \in [Lists -> ListKinds \cup {NoKind}],
             \A l \in Lists : list[l] # NoKind => list'[l] # NoKind,
             bounced' \in [Subs -> 0..BounceCount], \A s \in Subs : bounced'[s] > 0 => bounced[s] > 0
      PROVE  UserKeeps(u)
  <2>1. StoreOK' /\ RequestsOK' /\ NoneRejoins /\ Within({})
    BY <1>1, OtherRowsStep
  <2>2. Scoped(u)
    BY <2>1, WithinScope
  <2> QED BY <2>1, <2>2 DEF UserKeeps
<1>2. CASE \/ \E s \in Subs : BlocklistSubscriber(u, s)
           \/ \E S \in Rows : BlocklistSubscribers(u, S)
           \/ \E S \in Rows, ids \in Choices, st \in Filters :
                BlocklistSubscribersByQuery(u, S, ids, st)
           \/ BlocklistBouncedSubscribers(u)
  <2>1. UNCHANGED request
    BY <1>2 DEF BlocklistSubscriber, BlocklistSubscribers, BlocklistSubscribersByQuery,
                BlocklistBouncedSubscribers
  <2>2. PICK S : Blocklist(S)
    BY <1>2 DEF BlocklistSubscriber, BlocklistSubscribers, BlocklistSubscribersByQuery,
                BlocklistBouncedSubscribers, BlocklistRows, BlocklistRowsByQuery, BlocklistBounced
  <2> QED BY <2>1, <2>2, BlocklistKeeps
<1>3. CASE \/ \E s \in Subs : DeleteSubscriber(u, s)
           \/ \E S \in Rows : DeleteSubscribers(u, S)
           \/ \E S \in Rows, ids \in Choices, st \in Filters :
                DeleteSubscribersByQuery(u, S, ids, st)
           \/ \E t \in {"blocklisted", "orphan"} : GCSubscribers(u, t)
  <2>1. PICK S : DeleteRows(S)
    BY <1>3 DEF DeleteSubscriber, DeleteSubscribers, DeleteSubscribersByQuery, GCSubscribers,
                DeleteSubscriberRows, DeleteRowsByQuery, DeleteBlocklistedSubscribers,
                DeleteOrphanSubscribers
  <2> QED BY <2>1, DeleteKeeps
<1>4. CASE \E s \in Subs : DeleteSubscriberBounces(u, s)
  <2>1. PICK s \in Subs : DeleteBouncesOf(s)
    BY <1>4 DEF DeleteSubscriberBounces
  <2>2. UNCHANGED <<sub, member, list, request>> /\ bounced' = [bounced EXCEPT ![s] = 0]
    BY <2>1 DEF DeleteBouncesOf
  <2>3. 0 \in 0..BounceCount
    BY ContactStoreAssumption DEF ContactStoreAssumption
  <2>4. bounced' \in [Subs -> 0..BounceCount]
    BY <2>2, <2>3 DEF StoreOK
  <2>5. \A x \in Subs : bounced'[x] > 0 => bounced[x] > 0
    BY <2>2 DEF StoreOK
  <2> QED BY <1>1, <2>2, <2>4, <2>5 DEF StoreOK
<1>5. CASE \E left \in [Subs -> 0..BounceCount] : DeleteBounces(u, left)
  <2>1. PICK left \in [Subs -> 0..BounceCount] : DeleteBounceRows(left)
    BY <1>5 DEF DeleteBounces
  <2>2. UNCHANGED <<sub, member, list, request>> /\ bounced' = left
    BY <2>1 DEF DeleteBounceRows
  <2>3. \A s \in Subs : left[s] <= bounced[s] /\ left[s] \in 0..BounceCount
                       /\ bounced[s] \in 0..BounceCount
    BY <2>1 DEF DeleteBounceRows, StoreOK
  <2>4. \A s \in Subs : left[s] > 0 => bounced[s] > 0
    BY <2>3, ContactStoreAssumption DEF ContactStoreAssumption
  <2> QED BY <1>1, <2>2, <2>4 DEF StoreOK
<1>6. CASE \E L \in Targets, q \in BOOLEAN : DeleteLists(u, L, q)
  <2>1. PICK L \in Targets, q \in BOOLEAN : DeleteLists(u, L, q)
    BY <1>6
  <2>2. L \in SUBSET Lists
    BY DEF Targets
  <2> QED BY <2>1, <2>2, DeleteListsKeep
<1>7. CASE \E l \in Lists : DeleteList(u, l)
  <2>1. PICK l \in Lists : DeleteList(u, l)
    BY <1>7
  <2>2. DeleteLists(u, {l}, FALSE)
    BY <2>1 DEF DeleteList, DeleteLists
  <2> QED BY <2>2, DeleteListsKeep
<1>8. CASE \E l \in Lists, k \in Kinds : CreateList(u, l, k) \/ UpdateList(u, l, k)
  <2>1. PICK l \in Lists, k \in Kinds : PutList(l, k)
    BY <1>8 DEF CreateList, UpdateList, CreateListRow, UpdateListRow
  <2>2. UNCHANGED <<sub, member, bounced, request>> /\ list' = [list EXCEPT ![l] = k]
    BY <2>1 DEF PutList
  <2>3. k \in ListKinds
    BY ContactsAssumption DEF ContactsAssumption
  <2>4. k # NoKind
    BY <2>3 DEF ListKinds, NoKind, Gone
  <2>5. list' \in [Lists -> ListKinds \cup {NoKind}]
    BY <2>2, <2>3 DEF StoreOK
  <2>6. \A x \in Lists : list[x] # NoKind => list'[x] # NoKind
    BY <2>2, <2>4 DEF StoreOK
  <2> QED BY <1>1, <2>2, <2>5, <2>6 DEF StoreOK
<1>9. CASE \E old \in SUBSET (Subs \X Lists) : GCSubscriptions(u, old)
  <2>1. PICK old : DeleteUnconfirmed(old) /\ UNCHANGED request /\ HasPerm(u, "settings:maintain")
    BY <1>9 DEF GCSubscriptions
  <2>2. /\ StoreOK' /\ NoneGoes /\ NoneRejoins
        /\ \A s \in Subs, l \in Lists : member'[s][l] # member[s][l] =>
             member[s][l] = "unconfirmed" /\ member'[s][l] = Gone
    BY <2>1, DeleteUnconfirmedStep
  <2>3. RequestsOK'
    BY <2>1, <2>2, RequestsKept
  <2>4. Scoped(u)
    BY <2>1, <2>2 DEF Scoped
  <2> QED BY <2>2, <2>3, <2>4 DEF UserKeeps
<1> QED BY <1>2, <1>3, <1>4, <1>5, <1>6, <1>7, <1>8, <1>9 DEF UserDeletes

\* The statements of a PATCH.
LEMMA UserPatchesStep ==
  ASSUME StoreOK, RequestsOK, NEW u \in Users, UserPatches(u)
  PROVE  UserKeeps(u)
<1>1. CASE \E r \in Requests, s \in Subs : PatchRead(r, u, s)
  <2>1. PICK r \in Requests, s \in Subs : PatchRead(r, u, s)
    BY <1>1
  <2>2. Known(s) /\ Begin(r, "patch", u, s, sub[s], {}) /\ sub[s] \in SubStatuses \cup {Gone}
    BY <2>1 DEF PatchRead, StoreOK
  <2>3. RequestsOK' /\ Unchanged
    BY <2>2, BeginStep
  <2>4. StoreOK' /\ NoneRejoins /\ Within({})
    BY <2>3, StoreKept
  <2>5. Scoped(u)
    BY <2>4, WithinScope
  <2> QED BY <2>3, <2>4, <2>5 DEF UserKeeps
<1>2. CASE \E r \in Requests, st \in GivenStatus, L \in Choices, o \in BOOLEAN, p \in BOOLEAN :
             request[r].user = u /\ PatchSubscriber(r, st, L, o, p)
  <2>1. PICK r \in Requests, st \in GivenStatus, L \in Choices, o \in BOOLEAN, p \in BOOLEAN :
          request[r].user = u /\ PatchSubscriber(r, st, L, o, p)
    BY <1>2
  <2> DEFINE status == IF st = Gone THEN request[r].status ELSE st
             s == request[r].sub
  <2>2. /\ request[r].pc = "patch" /\ End(r)
        /\ UpdateWithLists(s, status, Managed(u, L), p, o, Replaceable(u))
    BY <2>1 DEF PatchSubscriber
  <2>3. s \in Subs /\ Known(s)
    BY <2>2 DEF RequestsOK
  <2>4. request[r] \in RequestType
    BY DEF RequestsOK
  <2>5. status \in SubStatuses \cup {Gone} /\ L \in SUBSET Lists
    BY <2>4 DEF RequestType, GivenStatus, Choices
  <2> HIDE DEF status, s
  <2>6. StoreOK' /\ NoneGoes /\ NoneRejoins /\ Scoped(u)
    BY <2>2, <2>3, <2>5, EditScope
  <2>7. RequestsOK'
    BY <2>2, <2>6, EndStep
  <2> QED BY <2>6, <2>7 DEF UserKeeps
<1> QED BY <1>1, <1>2 DEF UserPatches

\* The body of BlocklistStays and of ConsentKept, of a step that no user takes.
LiftedByPrefs ==
  \A s \in Subs : sub[s] = "blocklisted" /\ sub'[s] \in {"enabled", "disabled"} =>
    \E r \in Requests : request[r].sub = s /\ request[r].pc = "prefs" /\
      request[r].status # "blocklisted"
RejoinsByWord ==
  \A s \in Subs, l \in Lists :
    member[s][l] = "unsubscribed" /\ member'[s][l] \in {"confirmed", "unconfirmed"} =>
      \E r \in Requests : /\ request[r].sub = s /\ End(r)
                          /\ \/ request[r].pc = "optin"
                             \/ request[r].pc = "form" /\ l \in request[r].lists
PublicKeeps == StoreOK' /\ RequestsOK' /\ LiftedByPrefs /\ RejoinsByWord

\* Nothing lifted, nobody back.
LEMMA PlainKeeps ==
  ASSUME StoreOK', RequestsOK', NoneLifted, NoneRejoins
  PROVE  PublicKeeps
BY DEF PublicKeeps, NoneLifted, NoneRejoins, LiftedByPrefs, RejoinsByWord, Gone

\* The handlers of subscribers.
LEMMA PublicStepKeeps ==
  ASSUME StoreOK, RequestsOK, PublicStep
  PROVE  PublicKeeps
<1>1. CASE \E s \in Subs, L \in Choices, b \in BOOLEAN : UnsubscribeByCampaign(s, L, b)
  <2>1. PICK s \in Subs, L \in Choices, b \in BOOLEAN :
          Known(s) /\ UnsubscribeCampaign(s, L, b) /\ UNCHANGED request
    BY <1>1 DEF UnsubscribeByCampaign
  <2>2. StoreOK' /\ NoneGoes /\ NoneLifted /\ NoneRejoins
    BY <2>1, UnsubscribeCampaignStep
  <2>3. RequestsOK'
    BY <2>1, <2>2, RequestsKept
  <2> QED BY <2>2, <2>3, PlainKeeps
<1>2. CASE \E s \in Subs : WipeSubscriberData(s)
  <2>1. PICK S : DeleteRows(S)
    BY <1>2 DEF WipeSubscriberData, DeleteSubscriberRows
  <2> QED BY <2>1, DeleteRowsStep, PlainKeeps
<1>3. CASE \E s \in Subs, r \in Requests : \/ PrefsRead(r, s)
             \/ \E L \in Choices : OptinRead(r, s, L) \/ SubFormRead(r, s, L)
  <2>1. PICK s \in Subs, r \in Requests : \/ PrefsRead(r, s)
             \/ \E L \in Choices : OptinRead(r, s, L) \/ SubFormRead(r, s, L)
    BY <1>3
  <2>2. Nobody \in Users \cup {Nobody} /\ sub[s] \in SubStatuses \cup {Gone}
    BY DEF StoreOK
  <2>3. ASSUME PrefsRead(r, s) PROVE RequestsOK' /\ Unchanged
    BY <2>2, <2>3, BeginStep DEF PrefsRead
  <2>4. ASSUME \E L \in Choices : OptinRead(r, s, L) PROVE RequestsOK' /\ Unchanged
    <3>1. PICK L \in Choices : OptinRead(r, s, L)
      BY <2>4
    <3> DEFINE M == IF L = {} THEN GetSubscriberLists(s, L, "unconfirmed") ELSE L
    <3>2. M \in SUBSET Lists
      BY DEF Choices, GetSubscriberLists, Attached
    <3>3. Known(s) /\ Begin(r, "optin", Nobody, s, Gone, M)
      BY <3>1 DEF OptinRead
    <3> HIDE DEF M
    <3> QED BY <3>2, <3>3, BeginStep
  <2>5. ASSUME \E L \in Choices : SubFormRead(r, s, L) PROVE RequestsOK' /\ Unchanged
    <3>1. PICK L \in Choices : SubFormRead(r, s, L)
      BY <2>5
    <3> DEFINE M == Existing(L)
    <3>2. M \in SUBSET Lists
      BY DEF Choices, Existing
    <3>3. Begin(r, "form", Nobody, s, Gone, M)
      BY <3>1 DEF SubFormRead
    <3> HIDE DEF M
    <3> QED BY <3>2, <3>3, BeginStep
  <2>6. RequestsOK' /\ Unchanged
    BY <2>1, <2>3, <2>4, <2>5
  <2> QED BY <2>6, StoreKept, PlainKeeps
<1>4. CASE \E r \in Requests : PrefsWrite(r)
  <2>1. PICK r \in Requests : PrefsWrite(r)
    BY <1>4
  <2> DEFINE s == request[r].sub
             st == request[r].status
             q == [request[r] EXCEPT !.pc = "prefsLists", !.status = Gone]
  <2>2. request[r].pc = "prefs" /\ UpdateRow(s, st) /\ request' = [request EXCEPT ![r] = q]
    BY <2>1 DEF PrefsWrite
  <2>3. request[r] \in RequestType /\ s \in Subs /\ Known(s)
    BY <2>2 DEF RequestsOK
  <2>4. st \in SubStatuses \cup {Gone} /\ q \in RequestType /\ q.pc = "prefsLists" /\ q.sub = s
    BY <2>3 DEF RequestType
  <2> HIDE DEF s, st, q
  <2>5. /\ StoreOK' /\ NoneGoes /\ NoneRejoins
        /\ \A t \in Subs : sub'[t] = IF t = s /\ st # Gone THEN st ELSE sub[t]
    BY <2>2, <2>3, <2>4, UpdateRowStep
  <2>6. RequestsOK'
    BY <2>2, <2>4, <2>5, ContinueStep DEF s
  <2>7. LiftedByPrefs
    BY <2>2, <2>5 DEF LiftedByPrefs, s, st
  <2>8. RejoinsByWord
    BY <2>5 DEF RejoinsByWord, NoneRejoins, Gone
  <2> QED BY <2>5, <2>6, <2>7, <2>8 DEF PublicKeeps
<1>5. CASE \E r \in Requests, L \in Choices : PrefsLists(r, L)
  <2>1. PICK r \in Requests, L \in Choices : PrefsLists(r, L)
    BY <1>5
  <2> DEFINE M == (Attached(request[r].sub) \cap PublicLists) \ L
             q == [request[r] EXCEPT !.pc = "prefsUnsub", !.lists = M]
  <2>2. /\ request[r].pc = "prefsLists" /\ Unchanged /\ M \in SUBSET Lists
        /\ request' = [request EXCEPT ![r] = q]
    BY <2>1 DEF PrefsLists, Attached
  <2>3. request[r] \in RequestType
    BY DEF RequestsOK
  <2> HIDE DEF M
  <2>4. q \in RequestType /\ q.pc = "prefsUnsub" /\ q.sub = request[r].sub
    BY <2>2, <2>3 DEF RequestType
  <2> HIDE DEF q
  <2>5. StoreOK' /\ NoneGoes /\ NoneLifted /\ NoneRejoins
    BY <2>2, StoreKept
  <2>6. RequestsOK'
    BY <2>2, <2>4, <2>5, ContinueStep
  <2> QED BY <2>5, <2>6, PlainKeeps
<1>6. CASE \E r \in Requests : PrefsUnsubscribe(r)
  <2>1. PICK r \in Requests : PrefsUnsubscribe(r)
    BY <1>6
  <2>2. Unsubscribe({request[r].sub}, request[r].lists) /\ End(r)
    BY <2>1 DEF PrefsUnsubscribe, UnsubscribeLists
  <2>3. StoreOK' /\ NoneGoes /\ NoneLifted /\ NoneRejoins
    BY <2>2, RemoveMembersStep
  <2>4. RequestsOK'
    BY <2>2, <2>3, EndStep
  <2> QED BY <2>3, <2>4, PlainKeeps
<1>7. CASE \E r \in Requests : ProcessSubForm(r)
  <2>1. PICK r \in Requests : ProcessSubForm(r)
    BY <1>7
  <2> DEFINE s == request[r].sub
             L == request[r].lists
  <2>2. request[r].pc = "form" /\ End(r)
    BY <2>1 DEF ProcessSubForm
  <2>3. \/ ~Known(s) /\ InsertRow(s, "enabled", Existing(L), "unconfirmed")
        \/ Unchanged
    <3>1. ~ConflictNamed
      BY DEF ConflictNamed, EmailIndex
    <3> QED BY <2>1, <3>1 DEF ProcessSubForm, InsertSubscriber, Gone
  <2>4. request[r] \in RequestType /\ s \in Subs
    BY <2>2 DEF RequestsOK
  <2>5. L \in SUBSET Lists /\ "enabled" \in SubStatuses /\ "unconfirmed" \in MemberStatuses
    BY <2>4 DEF RequestType, SubStatuses, MemberStatuses
  <2> HIDE DEF s, L
  <2>6. StoreOK' /\ NoneGoes /\ NoneLifted /\ NoneRejoins
    <3>1. CASE ~Known(s) /\ InsertRow(s, "enabled", Existing(L), "unconfirmed")
      BY <2>4, <2>5, <3>1, InsertStep
    <3>2. CASE Unchanged
      BY <3>2, StoreKept
    <3> QED BY <2>3, <3>1, <3>2
  <2>7. RequestsOK'
    BY <2>2, <2>6, EndStep
  <2> QED BY <2>6, <2>7, PlainKeeps
<1>8. CASE \E r \in Requests : ConfirmOptin(r)
  <2>1. PICK r \in Requests : ConfirmOptin(r)
    BY <1>8
  <2> DEFINE s == request[r].sub
  <2>2. request[r].pc = "optin" /\ Confirm(s, request[r].lists) /\ End(r)
    BY <2>1 DEF ConfirmOptin, ConfirmOptionSubscription
  <2>3. s \in Subs
    BY <2>2 DEF RequestsOK
  <2> HIDE DEF s
  <2>4. /\ StoreOK' /\ NoneGoes /\ NoneLifted
        /\ \A t \in Subs, l \in Lists : t # s => member'[t][l] = member[t][l]
    BY <2>2, <2>3, ConfirmStep
  <2>5. RequestsOK'
    BY <2>2, <2>4, EndStep
  <2>6. LiftedByPrefs
    BY <2>4 DEF LiftedByPrefs, NoneLifted, Gone
  <2>7. RejoinsByWord
    BY <2>2, <2>4 DEF RejoinsByWord, s
  <2> QED BY <2>4, <2>5, <2>6, <2>7 DEF PublicKeeps
<1>9. CASE \E r \in Requests : GiveUp(r)
  <2>1. PICK r \in Requests : End(r) /\ Unchanged
    BY <1>9 DEF GiveUp
  <2>2. StoreOK' /\ NoneGoes /\ NoneLifted /\ NoneRejoins
    BY <2>1, StoreKept
  <2>3. RequestsOK'
    BY <2>1, <2>2, EndStep
  <2> QED BY <2>2, <2>3, PlainKeeps
<1> QED BY <1>1, <1>2, <1>3, <1>4, <1>5, <1>6, <1>7, <1>8, <1>9 DEF PublicStep

-----------------------------------------------------------------------------
(* Theorems *)

\* TypeOK in the form that is inductive.
ContactsInv == StoreOK /\ RequestsOK /\ by \in Users \cup {Nobody}

\* The initial state.
LEMMA ContactsInit == Init => ContactsInv
<1> SUFFICES ASSUME Init PROVE ContactsInv
  OBVIOUS
<1>1. 0 \in 0..BounceCount /\ ~(0 > 0)
  BY ContactStoreAssumption DEF ContactStoreAssumption
<1>2. list \in [Lists -> ListKinds \cup {NoKind}]
  BY ContactsAssumption DEF ContactsAssumption, Init
<1>3. StoreOK
  BY <1>1, <1>2 DEF Init, StoreOK
<1>4. Idle \in RequestType /\ Idle.pc = "idle"
  BY DEF Idle, RequestType
<1>5. RequestsOK
  BY <1>4 DEF Init, RequestsOK
<1> QED BY <1>3, <1>5 DEF Init, ContactsInv

\* A step, whoever takes it.
LEMMA ContactsStep ==
  ASSUME ContactsInv, [Next]_allVars
  PROVE  /\ ContactsInv'
         /\ vars' # vars => \/ \E u \in Users : by' = u /\ UserKeeps(u)
                            \/ by' = Nobody /\ PublicKeeps
<1>1. CASE UNCHANGED allVars
  <2>1. StoreOK' /\ RequestsOK'
    BY <1>1 DEF allVars, vars, ContactsInv, StoreOK, RequestsOK, Known
  <2> QED BY <1>1, <2>1 DEF allVars, vars, ContactsInv
<1>2. CASE \E u \in Users : UserStep(u) /\ by' = u
  <2>1. PICK u \in Users : UserStep(u) /\ by' = u
    BY <1>2
  <2>2. UserKeeps(u)
    BY <2>1, UserEditsStep, UserDeletesStep, UserPatchesStep DEF UserStep, ContactsInv
  <2> QED BY <2>1, <2>2 DEF UserKeeps, ContactsInv
<1>3. CASE PublicStep /\ by' = Nobody
  <2>1. PublicKeeps
    BY <1>3, PublicStepKeeps DEF ContactsInv
  <2> QED BY <1>3, <2>1 DEF PublicKeeps, ContactsInv
<1>4. CASE \E s \in Subs : RecordBounce(s) /\ by' = Nobody
  <2>1. StoreOK' /\ RequestsOK' /\ NoneLifted /\ NoneRejoins
    BY <1>4, RecordBounceStep DEF ContactsInv
  <2>2. PublicKeeps
    BY <2>1, PlainKeeps
  <2> QED BY <1>4, <2>1, <2>2 DEF ContactsInv
<1> QED BY <1>1, <1>2, <1>3, <1>4 DEF Next

\* Everything has its type and nothing dangles: whatever cascade deletes
\* subscribers and lists, no subscription, bounce or request under way is left
\* on a row that is gone.
THEOREM ContactsInvariant == Spec => []ContactsInv
BY ContactsInit, ContactsStep, PTL DEF Spec

\* The same, as the runs check it.
THEOREM TypeCorrect == Spec => []TypeOK
<1>1. ContactsInv => TypeOK
  BY TypeParts DEF ContactsInv
<1> QED BY <1>1, ContactsInvariant, PTL

\* BlocklistStays: whatever bounces, forms and confirmations come, only a
\* user's edit lifts a blocklisting, or a form that read the row before it.
THEOREM BlocklistStaysCorrect == Spec => BlocklistStays
<1> DEFINE A == \A s \in Subs : sub[s] = "blocklisted" /\ sub'[s] \in {"enabled", "disabled"} =>
       \/ by' \in Users
       \/ \E r \in Requests : request[r].sub = s /\ request[r].pc = "prefs" /\
            request[r].status # "blocklisted"
<1>1. ASSUME ContactsInv, [Next]_allVars PROVE [A]_vars
  <2> SUFFICES ASSUME vars' # vars PROVE A
    OBVIOUS
  <2>1. (\E u \in Users : by' = u) \/ PublicKeeps
    BY <1>1, ContactsStep
  <2> QED BY <2>1 DEF PublicKeeps, LiftedByPrefs
<1> QED BY <1>1, ContactsInvariant, PTL DEF Spec, BlocklistStays

\* ConsentKept: whoever unsubscribed is back only by a user's word or their own.
THEOREM ConsentKeptCorrect == Spec => ConsentKept
<1> DEFINE A == \A s \in Subs, l \in Lists :
       member[s][l] = "unsubscribed" /\ member'[s][l] \in {"confirmed", "unconfirmed"} =>
         \/ \E u \in Users, S \in Rows, L \in Targets, st \in MemberStatuses :
              ManageSubscriberLists(u, S, L, "add", st)
         \/ \E r \in Requests : /\ request[r].sub = s /\ End(r)
                                /\ \/ request[r].pc = "optin"
                                   \/ request[r].pc = "form" /\ l \in request[r].lists
<1>1. ASSUME ContactsInv, [Next]_allVars PROVE [A]_vars
  <2> SUFFICES ASSUME vars' # vars PROVE A
    OBVIOUS
  <2>1. CASE \E u \in Users : AddsBack(u)
    BY <2>1 DEF AddsBack
  <2>2. CASE NoneRejoins
    BY <2>2 DEF NoneRejoins, Gone
  <2>3. CASE PublicKeeps
    BY <2>3 DEF PublicKeeps, RejoinsByWord
  <2>4. (\E u \in Users : UserKeeps(u)) \/ PublicKeeps
    BY <1>1, ContactsStep
  <2> QED BY <2>1, <2>2, <2>3, <2>4 DEF UserKeeps
<1> QED BY <1>1, ContactsInvariant, PTL DEF Spec, ConsentKept

\* ScopeKept: a user who manages some lists changes no subscription to another
\* but by what takes the subscriber with it, or by the maintenance of those
\* never confirmed.
THEOREM ScopeKeptCorrect == Spec => ScopeKept
<1> DEFINE A == \A u \in Users :
       ~AllPermitted(u, {"manage"}) /\ PermittedLists(u, {"manage"}) # {} /\ by' = u =>
       \A s \in Subs, l \in Lists \ PermittedLists(u, {"manage"}) :
         member'[s][l] # member[s][l] =>
           \/ sub'[s] \in {"blocklisted", Gone}
           \/ /\ HasPerm(u, "settings:maintain")
              /\ member[s][l] = "unconfirmed" /\ member'[s][l] = Gone
<1>1. ASSUME ContactsInv, [Next]_allVars PROVE [A]_vars
  <2> SUFFICES ASSUME vars' # vars PROVE A
    OBVIOUS
  <2>1. (\E u \in Users : by' = u /\ UserKeeps(u)) \/ by' = Nobody
    BY <1>1, ContactsStep
  <2>2. Nobody \notin Users
    BY ContactStoreAssumption DEF ContactStoreAssumption
  <2>3. \A u \in Users : by' = u => Scoped(u)
    BY <2>1, <2>2 DEF UserKeeps
  <2> QED BY <2>3 DEF Scoped
<1> QED BY <1>1, ContactsInvariant, PTL DEF Spec, ScopeKept

\* Reduced to what a user may see, the lists of a query are never none, which
\* would stand for all of them.
LEMMA PermittedIDs ==
  ASSUME NEW u \in Users, ~HasPerm(u, "subscribers:get_all"), NEW ids
  PROVE  /\ GetPermittedListIDs(u, ids) # {}
         /\ \A l \in Lists \cap GetPermittedListIDs(u, ids) :
              HasListPerm(u, "get", {l}) \/ HasListPerm(u, "manage", {l})
<1> DEFINE filtered == FilterListsByPerm(u, {"get", "manage"}, ids)
           Sees(l) == HasListPerm(u, "get", {l}) \/ HasListPerm(u, "manage", {l})
<1>1. GetPermittedListIDs(u, ids) =
        IF filtered # {} THEN filtered
        ELSE IF ListIDs(u, "get") # {} THEN ListIDs(u, "get") ELSE {NoList}
  BY DEF GetPermittedListIDs, HasPerm
<1>2. \A l \in ListIDs(u, "get") : Sees(l)
  BY DEF ListIDs, HasListPerm
<1>3. \A l \in Lists \cap filtered : Sees(l)
  <2>1. CASE AllOf("get") \in Perms[u]
    BY <2>1 DEF HasListPerm, HasPerm
  <2>2. CASE AllOf("manage") \in Perms[u]
    BY <2>2 DEF HasListPerm, HasPerm
  <2>3. CASE AllOf("get") \notin Perms[u] /\ AllOf("manage") \notin Perms[u]
    <3>1. filtered = ids \cap ListIDs(u, "get")
      BY <2>3 DEF FilterListsByPerm
    <3> QED BY <1>2, <3>1
  <2> QED BY <2>1, <2>2, <2>3
<1> HIDE DEF filtered, Sees
<1>4. NoList \notin Lists
  BY PermissionAssumption DEF PermissionAssumption
<1>5. /\ GetPermittedListIDs(u, ids) # {}
      /\ \A l \in Lists \cap GetPermittedListIDs(u, ids) : Sees(l)
  BY <1>1, <1>2, <1>3, <1>4
<1> QED BY <1>5 DEF Sees

\* ReadScope: what lists, exports and single answers show is within the lists
\* of who asks.
LEMMA ReadsInScope == StoreOK => ReadScope
<1> SUFFICES ASSUME StoreOK PROVE ReadScope
  OBVIOUS
<1>1. ASSUME NEW u \in Users, NEW l \in Lists, GetList(u, l)
      PROVE  l \in GetLists(u, TRUE, Lists)
  BY <1>1 DEF GetList, GetLists, GetListRows, HasListPerm, HasPerm, AllOf, AllPermitted,
              PermittedLists, ListIDs, Existing
<1>2. ASSUME NEW u \in Users, NEW s \in Subs, NEW l \in Lists,
             l \in NamedLists(u, s) \cup GetLists(u, FALSE, Lists)
      PROVE  HasListPerm(u, "get", {l}) \/ HasListPerm(u, "manage", {l})
  <2>1. CASE l \in NamedLists(u, s)
    BY <2>1 DEF NamedLists, HasListPerm, AllOf
  <2>2. CASE l \in GetLists(u, FALSE, Lists)
    BY <2>2 DEF GetLists, QueryListRows, HasListPerm, HasPerm, AllPermitted, PermittedLists, ListIDs
  <2> QED BY <1>2, <2>1, <2>2
<1>3. ASSUME NEW u \in Users, NEW s \in Subs, ~GetSubscriber(u, s)
      PROVE  ExportSubscriberData(u, s) = {} /\ GetSubscriberBounces(u, s) = 0
  <2>1. bounced[s] \in 0..BounceCount /\ (bounced[s] > 0 => Known(s)) /\ BounceCount \in Nat
    BY ContactStoreAssumption DEF StoreOK, ContactStoreAssumption
  <2>2. ~Known(s) => bounced[s] = 0
    BY <2>1
  <2> QED BY <1>3, <2>2 DEF GetSubscriber, ExportSubscriberData, GetSubscriberBounces
<1>4. ASSUME NEW u \in Users, ~HasPerm(u, "subscribers:get_all"), NEW ids, NEW st,
             NEW s \in QuerySubscribers(u, Subs, ids, st) \cup ExportSubscribers(u, Subs, ids, st)
      PROVE  \E l \in Attached(s) : HasListPerm(u, "get", {l}) \/ HasListPerm(u, "manage", {l})
  <2> DEFINE ask == GetPermittedListIDs(u, ids)
  <2>1. s \in Listed(Subs, ask, st) \cup Selected(Subs, ask, st)
    BY DEF QuerySubscribers, ExportSubscribers, QueryRows, ExportRows, FilterListQuery
  <2>2. /\ ask # {}
        /\ \A l \in Lists \cap ask : HasListPerm(u, "get", {l}) \/ HasListPerm(u, "manage", {l})
    BY <1>4, PermittedIDs
  <2> HIDE DEF ask
  <2>3. \E l \in Lists \cap ask : l \in Attached(s)
    BY <2>1, <2>2 DEF Listed, Selected
  <2> QED BY <2>2, <2>3
<1> QED BY <1>1, <1>2, <1>3, <1>4 DEF ReadScope

\* The same in every state that is reached.
THEOREM ReadScopeCorrect == Spec => []ReadScope
<1>1. ContactsInv => ReadScope
  BY ReadsInScope DEF ContactsInv
<1> QED BY <1>1, ContactsInvariant, PTL
=============================================================================
