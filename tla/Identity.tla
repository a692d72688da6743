------------------------------- MODULE Identity --------------------------------
(***************************************************************************)
(* Accounts and logins together.  A behaviour keeps to one part, a set of    *)
(* requests that interleave: administration of users and roles, logging in    *)
(* while passwords change, with a second factor or over OIDC, or the          *)
(* first-time setup.                                                        *)
(***************************************************************************)
EXTENDS Logins

CONSTANTS Parts,       \* the parts explored
          Rows,        \* rows an administrator sends
          FirstUsers,  \* the users there are, as rows
          FirstRoles,  \* the roles there are, other than the super admin's
          Account,     \* whose logins and passwords are explored
          Newcomer     \* an id a login over OIDC may take

UserRows == [state : {"unused", "live", "deleted"}, type : {"user", "api"},
             status : {"enabled", "disabled"}, role : Roles \cup {Super, NoRole},
             list : Roles \cup {NoRole}, login : BOOLEAN, pw : 0..Passwords, twofa : BOOLEAN]

RoleRows == [there : BOOLEAN, kind : {"user", "list"}, perms : {0, 1}]
NoRoles == [r \in Roles |-> [there |-> FALSE, kind |-> "user", perms |-> 0]]

\* The first users have the super admin's role.
ASSUME IdentityAssumption ==
  /\ {Account, Newcomer} \subseteq Users /\ Rows \subseteq UserRows /\ Passwords >= 1
  /\ FirstUsers \in [Users -> UserRows] /\ FirstRoles \in [Roles -> RoleRows]
  /\ \A u \in Users : FirstUsers[u].state = "live" =>
       FirstUsers[u].role = Super /\ FirstUsers[u].list = NoRole

VARIABLE part
idVars == <<part, accountVars, loginVars>>

Init ==
  /\ part \in Parts
  /\ users = IF part = "setup" THEN [u \in Users |-> Unused] ELSE FirstUsers
  /\ roles = IF part = "setup" THEN NoRoles ELSE FirstRoles
  /\ superRole = (IF part = "setup" THEN 0 ELSE 1) /\ roleSeq = superRole + 1
  /\ needsSetup = (part = "setup")
  /\ sessions = [s \in Sids |-> NoSession]
  /\ apiCache = [ApiUsers EXCEPT ![Legacy] = {0}]
  /\ h = [p \in Procs |-> NoHandler] /\ overlapped = FALSE /\ failed = NothingFailed
  /\ version = 1 /\ edits = 0
  /\ tokens = [id \in TokenIds |-> NoToken] /\ link = 0 /\ resets = [l \in 1..Links |-> 0]

Accounts(A) == A /\ UNCHANGED <<part, loginVars>>
Logins(A) == A /\ UNCHANGED part
Stop == Logins(Restart(part = "accounts"))
Fails == \E p \in Procs : Logins(HandlerFails(p))

Administration ==
  \/ \E p \in Procs :
       \/ \E u \in Users, row \in Rows : \/ Accounts(CreateUser(p, u, row))
                                         \/ There(u) /\ Accounts(UpdateUser(p, u, row, FALSE))
       \/ \E ids \in SUBSET Users : Accounts(DeleteUsers(p, ids))
       \/ \E r \in Roles : Accounts(UpdateRole(p, r)) \/ Accounts(DeleteRole(p, r))
       \/ Accounts(DeleteWrite(p)) \/ Accounts(CacheRead(p)) \/ Accounts(CacheAPIUsers(p))
       \/ Accounts(UpdateWrite(p))
  \/ \E r \in Roles, kind \in {"user", "list"} : Accounts(CreateRole(r, kind))
  \/ Stop

Sessions ==
  \/ \E p \in Procs :
       \/ Logins(DoLogin(p, Account))
       \/ \E s \in Sids : Logins(SaveSession(p, s))

\* Passwords are forgotten, changed, and changed by an administrator.
ChangingPasswords == LET u == Account IN
  \/ \E p \in Procs :
       \/ \E l \in 1..Links, post \in BOOLEAN : Logins(ResetPage(p, u, l, post))
       \/ Logins(ResetConsume(p)) \/ Logins(ResetAccount(p)) \/ Logins(ProfileWrite(p))
       \/ Logins(DeleteUserSessions(p))
       \/ \E s \in Sids, new \in BOOLEAN : Logins(UpdateUserProfile(p, u, s, new))
       \/ \E row \in Rows, new \in BOOLEAN :
            row.type = "user" /\ Accounts(UpdateUser(p, u, row, new))
       \/ Accounts(UpdateWrite(p)) \/ Accounts(CacheRead(p)) \/ Accounts(CacheAPIUsers(p))
  \/ Logins(ForgotPassword(u))

OtherLogins ==
  \/ \E p \in Procs :
       \/ \E u \in {Account, Newcomer} : Logins(OIDCFinish(p, u, TRUE))
       \/ \E t \in Twofa, code \in BOOLEAN : Logins(TwofaPage(p, t, code))
       \/ Logins(TwofaVerified(p)) \/ Logins(CreateOIDCUser(p, Super))
  \/ \E t \in Twofa : Logins(LoginSecond(Account, t))
  \/ \E s \in Sids : Logins(Logout(s))
  \/ \E s \in Sids, on \in BOOLEAN : Logins(SetTOTP(s, Account, on))
  \/ Logins(TokensAge)

Setup ==
  \/ \E p \in Procs :
       \/ \E u \in Users : Accounts(SetupStart(p, u))
       \/ Accounts(SetupRoleNext(p)) \/ Accounts(SetupRole(p)) \/ Accounts(SetupAdmin(p))
       \/ Accounts(SetupDone(p)) \/ \E s \in Sids : Logins(SaveSession(p, s))
  \/ Stop

Next ==
  \/ part = "accounts" /\ Administration
  \/ part = "passwords" /\ (Sessions \/ ChangingPasswords \/ Stop)
  \/ part = "logins" /\ (Sessions \/ OtherLogins \/ Stop)
  \/ part = "setup" /\ Setup
  \/ Fails

Spec == Init /\ [][Next]_idVars

-----------------------------------------------------------------------------
(* What must hold *)

\* A user that is there has a role that is, and a list role that is, if any; sessions,
\* tokens and the cache are of users.
TypeOK ==
  /\ users \in [Users -> UserRows]
  /\ \A u \in Users : There(u) => /\ IsRole(users[u].role, "user")
                                  /\ users[u].list = NoRole \/ roles[users[u].list].there
  /\ superRole \in Nat /\ roleSeq \in Nat /\ needsSetup \in BOOLEAN
  /\ failed.cut \subseteq Users /\ failed.half \subseteq Users /\ failed.faults \in 0..Faults
  /\ sessions \in [Sids -> [user : Users \cup {NoUser}, at : 0..Passwords]]
  /\ apiCache \in [Users \cup {Legacy} -> SUBSET {0, 1}]
  /\ \A id \in TokenIds : tokens[id].count \in 0..MaxTries
                          /\ (Live(id) => tokens[id].data \in IF id \in Twofa THEN Users ELSE 1..link)

\* Of the setup requests that come one after the other one makes a super admin and ends
\* well.  One that fails after the admin's row is inserted, as it logs the admin in,
\* leaves the row and setup open.
SetupOnce == part = "setup" /\ ~overlapped => Cardinality(Supers \ failed.half) <= 1
===============================================================================
