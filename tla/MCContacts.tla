------------------------------ MODULE MCContacts ------------------------------
(* Contacts for TLC: an administrator, a clerk of one list, and a viewer who *)
(* may see all lists and manages none.                                       *)
EXTENDS Contacts

CONSTANTS admin, clerk, viewer, l1, l2

MCPerms == [u \in Users |->
  IF u = admin THEN {"subscribers:get_all", "subscribers:manage", "lists:get_all",
                     "lists:manage_all", "bounces:manage", "settings:maintain"}
  ELSE {"subscribers:manage"} \cup IF u = clerk THEN {"bounces:manage", "settings:maintain"}
                                    ELSE {"lists:get_all"}]
MCKinds == {[type |-> "public", optin |-> "double"], [type |-> "private", optin |-> "single"]}
MCListPerms == [u \in Users |-> [l \in Lists |->
  IF u = clerk /\ l = l1 THEN {"get", "manage"} ELSE {}]]
=============================================================================
