------------------------------- MODULE Accounts --------------------------------
(***************************************************************************)
(* Users and roles: cmd/users.go, cmd/roles.go, internal/core/users.go and   *)
(* roles.go with their queries, the cache of API users of internal/auth, and  *)
(* the first-time setup of cmd/auth.go.                                      *)
(*                                                                         *)
(* A handler runs several statements, and other handlers run between them.    *)
(* Names and e-mail addresses are left out: each user id has its own.  An id  *)
(* comes from a sequence and is not used again.                              *)
(***************************************************************************)
EXTENDS Naturals, FiniteSets

CONSTANTS
  Users, Roles,       \* ids of users, and of roles other than the super admin's
  Super,              \* SuperAdminRoleID
  NoRole, NoUser,
  Legacy,             \* the API user of the configuration file
  Sids, NoSid,        \* session ids
  Procs,              \* handlers at a time
  Edits, Passwords,   \* bounds: administrative requests, passwords set,
  Faults              \* statements of handlers that fail

ASSUME AccountsAssumption ==
  /\ Super \notin Roles /\ NoRole \notin Roles \cup {Super}
  /\ NoUser \notin Users /\ Legacy \notin Users /\ NoSid \notin Sids
  /\ Edits \in Nat /\ Passwords \in Nat /\ Faults \in Nat

VARIABLES
  users,       \* the row of each id
  roles,       \* roles other than the super admin's
  superRole,   \* id of the role named Super Admin, 0 without one
  roleSeq,     \* the next id of a role while setup makes the first
  needsSetup,  \* App.needsUserSetup
  sessions,    \* the row of each session
  apiCache,    \* Auth.apiUsers: {} or the permissions a user was cached with
  h,           \* handlers
  overlapped,  \* ghost: two handlers have run at a time
  failed,      \* ghost: what handlers left undone, see NothingFailed
  version,     \* the last password set
  edits

accountVars == <<users, roles, superRole, roleSeq, needsSetup, sessions, apiCache, h,
                 overlapped, failed, version, edits>>

Unused == [state |-> "unused", type |-> "user", status |-> "disabled", role |-> NoRole,
           list |-> NoRole, login |-> FALSE, pw |-> 0, twofa |-> FALSE]
NoSession == [user |-> NoUser, at |-> 0]
\* A handler: what it does next, whose row, what it read and what it is to write.
NoHandler == [pc |-> "idle", op |-> "none", u |-> NoUser, row |-> Unused, new |-> FALSE,
              ok |-> FALSE, keep |-> NoSid, link |-> 0, snap |-> {}]

\* Users whose sessions a change of password left, whether the last handler that was to
\* fill the cache did not, users of set-ups that ended with an error, and how many
\* statements failed.
NothingFailed == [cut |-> {}, missed |-> FALSE, half |-> {}, faults |-> 0]

There(u) == users[u].state = "live"
\* setupUserFields: a password in the row makes password login true.
PasswordLogin(u) == users[u].login \/ users[u].pw > 0
Busy(p) == h[p].pc # "idle"
SuperExists == superRole = 1
IsRole(r, kind) == \/ r = Super /\ kind = "user" /\ SuperExists
                   \/ r \in Roles /\ roles[r].there /\ roles[r].kind = kind

Supers == {u \in Users : There(u) /\ users[u].type = "user" /\ users[u].status = "enabled"
                         /\ users[u].role = Super}

Edit == edits < Edits /\ edits' = edits + 1
Start(p, rec) ==
  /\ ~Busy(p) /\ h' = [h EXCEPT ![p] = rec]
  /\ overlapped' = (overlapped \/ \E q \in Procs : Busy(q))
At(p, pc) == h[p].pc = pc
Goto(p, pc) == h' = [h EXCEPT ![p] = IF pc = "idle" THEN NoHandler ELSE [@ EXCEPT !.pc = pc]]
Rest == UNCHANGED <<superRole, roleSeq, needsSetup, overlapped, failed>>

-----------------------------------------------------------------------------
(* The cache of API users *)

RolePerms(r) == IF r \in Roles THEN roles[r].perms ELSE 0
IsApi(u) == There(u) /\ users[u].type = "api" /\ users[u].status = "enabled"
ApiUsers == [u \in Users \cup {Legacy} |->
              IF u \in Users /\ IsApi(u) THEN {RolePerms(users[u].role)} ELSE {}]
GetAPIToken(u) == apiCache[u] # {}

\* cacheUsers reads all users, then replaces the whole cache.
CacheRead(p) ==
  /\ At(p, "cache") /\ h' = [h EXCEPT ![p].pc = "store", ![p].snap = ApiUsers]
  /\ UNCHANGED <<users, roles, sessions, apiCache, version, edits>> /\ Rest
CacheAPIUsers(p) ==
  /\ At(p, "store") /\ apiCache' = h[p].snap /\ Goto(p, "idle")
  /\ failed' = [failed EXCEPT !.missed = FALSE]
  /\ UNCHANGED <<users, roles, superRole, roleSeq, needsSetup, sessions, overlapped, version,
                 edits>>
\* What has yet to fill the cache.
ToCache(rec) == rec.pc = "cache" \/ (rec.pc = "logout" /\ rec.op = "update")

-----------------------------------------------------------------------------
(* Users *)

\* create-user; a role that is not one of its kind is NULL, which user_role_id may not be.
CreateUser(p, u, row) ==
  /\ Edit /\ users[u].state = "unused" /\ IsRole(row.role, "user")
  /\ users' = [users EXCEPT ![u] = [row EXCEPT
       !.state = "live", !.list = IF IsRole(@, "list") THEN @ ELSE NoRole,
       !.login = row.type = "user" /\ @,
       !.pw = IF row.type = "api" \/ row.login THEN version + 1 ELSE 0]]
  /\ version < Passwords /\ version' = version + 1
  /\ Start(p, [NoHandler EXCEPT !.pc = "cache", !.op = "create", !.u = u])
  /\ UNCHANGED <<roles, superRole, roleSeq, needsSetup, sessions, apiCache, failed>>

\* The guards of update-user and delete-users.
OtherSupers(gone) == Supers \ gone
\* Variant: any super admin is enough, the one that goes too.
CanEditAny(u, role, status) == Supers # {} \/ (role = Super /\ status = "enabled")
CanEdit(u, role, status) == OtherSupers({u}) # {} \/ (role = Super /\ status = "enabled")

\* UpdateUser checks that there is a password to log in with, and update-user reads
\* the other super admins; row.role NoRole leaves the role, new gives a password.
UpdateUser(p, u, row, new) ==
  /\ Edit
  /\ row.login /\ ~new /\ row.type = "user" => There(u) /\ users[u].pw > 0
  /\ Start(p, [NoHandler EXCEPT !.pc = "write", !.op = "update", !.u = u, !.row = row,
       !.new = new, !.ok = CanEdit(u, row.role, row.status)])
  /\ UNCHANGED <<users, roles, superRole, roleSeq, needsSetup, sessions, apiCache, failed, version>>

NewPassword(old, login, new) ==
  IF ~login THEN 0 ELSE IF new THEN version + 1 ELSE old
Written(old, row, new) == [old EXCEPT
  !.login = row.login,
  !.pw = IF old.type = "api" /\ row.type = "api" THEN @ ELSE NewPassword(@, row.login, new),
  !.type = row.type, !.status = row.status,
  !.role = IF row.role = NoRole THEN @ ELSE row.role,
  !.list = IF IsRole(row.list, "list") THEN row.list ELSE NoRole]
CountPassword(p) == /\ h[p].new => version < Passwords
                    /\ version' = IF h[p].new THEN version + 1 ELSE version

UpdateWrite(p) ==
  /\ At(p, "write") /\ h[p].op = "update" /\ CountPassword(p)
  /\ LET u == h[p].u  row == h[p].row
         fits == There(u) /\ h[p].ok /\ (row.role = NoRole \/ IsRole(row.role, "user")) IN
     /\ users' = IF fits THEN [users EXCEPT ![u] = Written(@, row, h[p].new)] ELSE users
     /\ Goto(p, IF ~fits THEN "idle" ELSE IF h[p].new THEN "logout" ELSE "cache")
  /\ UNCHANGED <<roles, sessions, apiCache, edits>> /\ Rest

\* delete-users takes the rows whose id equals all the ids given: one id, or none.
DeleteUsers(p, ids) ==
  /\ Edit
  /\ Start(p, [NoHandler EXCEPT !.pc = "write", !.op = "delete", !.ok = OtherSupers(ids) # {},
       !.snap = {u \in Users : There(u) /\ ids = {u}}])
  /\ UNCHANGED <<users, roles, superRole, roleSeq, needsSetup, sessions, apiCache, failed, version>>

\* Variant: the rows stay.
RemovedNone(gone) == users
Removed(gone) == [u \in Users |-> IF u \in gone THEN [Unused EXCEPT !.state = "deleted"]
                                  ELSE users[u]]
DeleteWrite(p) ==
  /\ At(p, "write") /\ h[p].op = "delete"
  /\ LET gone == IF h[p].ok THEN {u \in h[p].snap : There(u)} ELSE {} IN
     users' = Removed(gone) /\ Goto(p, IF gone = {} THEN "idle" ELSE "cache")
  /\ UNCHANGED <<roles, sessions, apiCache, version, edits>> /\ Rest

-----------------------------------------------------------------------------
(* Roles *)

CreateRole(r, kind) ==
  /\ Edit /\ ~roles[r].there
  /\ roles' = [roles EXCEPT ![r] = [there |-> TRUE, kind |-> kind, perms |-> 0]]
  /\ UNCHANGED <<users, superRole, roleSeq, needsSetup, sessions, apiCache, h, overlapped,
                 failed, version>>

\* Variant: the cache of API users is not read again.
AfterRoleChangeNothing == "idle"

\* UpdateUserRole and UpdateListRole: a new set of permissions, then the cache.
AfterRoleChange == "cache"
UpdateRole(p, r) ==
  /\ Edit /\ roles[r].there /\ roles' = [roles EXCEPT ![r].perms = 1 - @]
  /\ Start(p, [NoHandler EXCEPT !.pc = AfterRoleChange, !.op = "role"])
  /\ UNCHANGED <<users, superRole, roleSeq, needsSetup, sessions, apiCache, failed, version>>

\* user_role_id RESTRICTs the deletion of a role, list_role_id CASCADEs it to the users.
DeleteRole(p, r) ==
  /\ Edit /\ \A u \in Users : There(u) => users[u].role # r
  /\ roles' = [roles EXCEPT ![r].there = FALSE]
  /\ users' = Removed({u \in Users : There(u) /\ users[u].list = r})
  /\ Start(p, [NoHandler EXCEPT !.pc = AfterRoleChange, !.op = "droprole"])
  /\ UNCHANGED <<superRole, roleSeq, needsSetup, sessions, apiCache, failed, version>>

-----------------------------------------------------------------------------
(* First-time setup *)

\* LoginPage reads the flag; doFirstTimeSetup looks for the role.
SetupStart(p, u) ==
  /\ Edit /\ needsSetup /\ users[u].state = "unused" /\ \A q \in Procs : h[q].u # u
  /\ Start(p, [NoHandler EXCEPT !.op = "setup", !.u = u,
                                !.pc = IF SuperExists THEN "admin" ELSE "rolenext"])
  /\ UNCHANGED <<users, roles, superRole, roleSeq, needsSetup, sessions, apiCache, failed, version>>

\* create-role draws an id, then inserts the row, unless there is one of that name.
SetupRoleNext(p) ==
  /\ At(p, "rolenext") /\ h' = [h EXCEPT ![p].pc = "role", ![p].link = roleSeq]
  /\ roleSeq' = roleSeq + 1
  /\ UNCHANGED <<users, roles, superRole, needsSetup, sessions, apiCache, overlapped, failed,
                 version, edits>>
SetupRole(p) ==
  /\ At(p, "role")
  /\ IF superRole = 0 THEN superRole' = h[p].link /\ Goto(p, "admin")
     ELSE Goto(p, "idle") /\ UNCHANGED superRole
  /\ UNCHANGED <<users, roles, roleSeq, needsSetup, sessions, apiCache, overlapped, failed,
                 version, edits>>
SetupAdmin(p) ==
  /\ At(p, "admin")
  /\ IF SuperExists
     THEN /\ users' = [users EXCEPT ![h[p].u] = [Unused EXCEPT !.state = "live",
               !.status = "enabled", !.role = Super, !.login = TRUE, !.pw = version + 1]]
          /\ version < Passwords /\ version' = version + 1 /\ Goto(p, "new")
     ELSE Goto(p, "idle") /\ UNCHANGED <<users, version>>
  /\ UNCHANGED <<roles, sessions, apiCache, edits>> /\ Rest

\* Variant: setup stays open.
AfterSetupAgain == TRUE
AfterSetup == FALSE
SetupDone(p) ==
  /\ At(p, "flag") /\ needsSetup' = AfterSetup /\ Goto(p, "idle")
  /\ UNCHANGED <<users, roles, superRole, roleSeq, sessions, apiCache, overlapped, failed,
                 version, edits>>

-----------------------------------------------------------------------------
(* What must hold *)

\* After the handlers of users and roles have ended the tokens that GetAPIToken accepts,
\* and the permissions it answers with, are those of the rows - provided that no two
\* of them ran at a time, for cacheUsers reads and stores in two steps, and that the last
\* to change a row could read the rows again: cacheUsers' error leaves the old cache.
ApiCacheCurrent ==
  ~overlapped /\ ~failed.missed /\ (\A p \in Procs : ~Busy(p)) =>
    \A u \in Users : GetAPIToken(u) = IsApi(u) /\ apiCache[u] = ApiUsers[u]

\* While handlers run one after the other the last enabled super admin stays, unless
\* a list role they have is deleted, or they are made an API user.
LastSuperStays == [][
  ~overlapped' /\ Supers # {} /\ Supers' = {} =>
    \E p \in Procs : h'[p].op = "droprole" \/ h[p].row.type = "api"]_accountVars
===============================================================================
