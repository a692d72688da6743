---------------------------- MODULE ListPermissions ----------------------------
(***************************************************************************)
(* The list permissions of a user (internal/auth/models.go): which lists a *)
(* user of the single workspace may read or manage, and what a request's   *)
(* own list ids are reduced to.                                            *)
(***************************************************************************)
CONSTANTS
  Users, Lists,
  SuperAdmins,  \* users of the primordial role; Perms holds every permission for them
  Perms,        \* [Users -> SUBSET STRING]: the permissions of the user's role
  ListPerms,    \* [Users -> [Lists -> SUBSET {"get", "manage"}]]: the list role
  NoList        \* the id -1, which is no list

ASSUME PermissionAssumption ==
  /\ SuperAdmins \subseteq Users
  /\ DOMAIN Perms = Users
  /\ ListPerms \in [Users -> [Lists -> SUBSET {"get", "manage"}]]
  /\ NoList \notin Lists

HasPerm(u, p) == u \in SuperAdmins \/ p \in Perms[u]

\* "lists:get_all" and "lists:manage_all"
AllOf(type) == IF type = "get" THEN "lists:get_all" ELSE "lists:manage_all"

\* HasListPerm with one type, as every caller has it.
HasListPerm(u, type, ids) ==
  \/ HasPerm(u, AllOf(type))
  \/ \A l \in ids : u \in SuperAdmins \/ type \in ListPerms[u][l]

ListIDs(u, type) == {l \in Lists : type \in ListPerms[u][l]}

\* GetPermittedLists: whether all lists are permitted, and if not, which.  The
\* manage lists are looked at only for a user with no get list.
AllPermitted(u, types) ==
  u \in SuperAdmins \/ \E t \in types : AllOf(t) \in Perms[u]
PermittedLists(u, types) ==
  IF AllPermitted(u, types) THEN {}
  ELSE IF "get" \in types /\ ListIDs(u, "get") # {} THEN ListIDs(u, "get")
  ELSE IF "manage" \in types THEN ListIDs(u, "manage") ELSE {}

FilterListsByPerm(u, types, ids) ==
  IF \E t \in types : AllOf(t) \in Perms[u] THEN ids
  ELSE IF "get" \in types THEN ids \cap ListIDs(u, "get")
  ELSE ids \cap ListIDs(u, "manage")

\* Variant: no list left means no filter.
GetPermittedListIDsOrAll(u, ids) == FilterListsByPerm(u, {"get", "manage"}, ids)

\* GetPermittedListIDs: nothing left means everything to who may see all
\* subscribers, the user's get lists to the others, and the list -1 to those
\* who have none.
GetPermittedListIDs(u, ids) ==
  LET filtered == FilterListsByPerm(u, {"get", "manage"}, ids)
  IN IF filtered # {} \/ "subscribers:get_all" \in Perms[u] THEN filtered
     ELSE IF ListIDs(u, "get") # {} THEN ListIDs(u, "get") ELSE {NoList}
=============================================================================
