-------------------------------- MODULE Logins ---------------------------------
(***************************************************************************)
(* Logging in and out: the handlers of cmd/auth.go (password, second factor, *)
(* OIDC, forgotten password), the profile and second factor of cmd/users.go, *)
(* and the sessions of internal/auth/auth.go.  The handlers share the users,  *)
(* the sessions and the process table of Accounts.                           *)
(*                                                                         *)
(* A second-factor token is found by itself and holds a user; a reset token   *)
(* is found by the e-mail address of its user and holds what the link holds.  *)
(* A session is a row in the database: it is there when SetMulti has written  *)
(* its user, before that no statement finds it by its user.                  *)
(***************************************************************************)
EXTENDS Accounts, TmpTokens

CONSTANTS Links       \* bound: links mailed, numbered

ASSUME LoginsAssumption == Links \in Nat /\ Users \subseteq TokenIds /\ MaxTries \in Nat

VARIABLES link,     \* the last link mailed
          resets    \* ghost: passwords set with each link

loginVars == <<tokens, link, resets>>
Twofa == TokenIds \ Users

\* Middleware and validateSession: a session of a user that is there.
Signed(s, u) == sessions[s].user = u /\ There(u)
Free(s) == sessions[s] = NoSession /\ \A q \in Procs : h[q].keep # s
Keep == UNCHANGED <<roles, apiCache, edits>> /\ Rest

\* LoginUser
CanLogIn(u) == There(u) /\ users[u].status # "disabled" /\ users[u].login /\ users[u].pw > 0

\* doLogin; with a second factor the answer is a redirect with a new token.
LoginSecond(u, t) ==
  /\ CanLogIn(u) /\ users[u].twofa /\ t \in Twofa /\ tokens[t] = NoToken
  /\ tokens' = Set(t, u) /\ UNCHANGED <<accountVars, link, resets>>
DoLogin(p, u) ==
  /\ CanLogIn(u) /\ ~users[u].twofa
  /\ Start(p, [NoHandler EXCEPT !.pc = "new", !.op = "login", !.u = u])
  /\ UNCHANGED <<users, roles, superRole, roleSeq, needsSetup, sessions, apiCache, failed,
                 version, edits, loginVars>>

\* TwofaPage: a token that answers shows the page, or verifies the code posted with it.
TwofaPage(p, t, code) ==
  /\ t \in Twofa /\ tokens' = Checked(t)
  /\ LET u == tokens[t].data IN
     IF code /\ Answers(t) /\ There(u) /\ users[u].twofa
     THEN Start(p, [NoHandler EXCEPT !.pc = "verified", !.op = t, !.u = u])
     ELSE ~Busy(p) /\ UNCHANGED <<h, overlapped>>
  /\ UNCHANGED <<users, roles, superRole, roleSeq, needsSetup, sessions, apiCache, failed,
                 version, edits, link, resets>>
TwofaVerified(p) ==
  /\ At(p, "verified") /\ tokens' = Deleted(h[p].op) /\ Goto(p, "new")
  /\ UNCHANGED <<users, sessions, version, link, resets>> /\ Keep

\* SaveSession, with which every login ends.
SaveSession(p, s) ==
  /\ At(p, "new") /\ Free(s)
  /\ sessions' = [sessions EXCEPT ![s] = [user |-> h[p].u, at |-> users[h[p].u].pw]]
  /\ Goto(p, IF h[p].op = "setup" THEN "flag" ELSE "idle")
  /\ UNCHANGED <<users, version, loginVars>> /\ Keep

Logout(s) ==
  /\ \E u \in Users : Signed(s, u)
  /\ sessions' = [sessions EXCEPT ![s] = NoSession]
  /\ UNCHANGED <<users, h, version, loginVars>> /\ Keep

\* OIDCFinish: an unknown address makes a user, if auto_create_users says so.
OIDCFinish(p, u, create) ==
  /\ There(u) \/ (create /\ users[u].state = "unused")
  /\ Start(p, [NoHandler EXCEPT !.pc = IF There(u) THEN "new" ELSE "createoidc",
                                !.op = "oidc", !.u = u])
  /\ UNCHANGED <<users, roles, superRole, roleSeq, needsSetup, sessions, apiCache, failed,
                 version, edits, loginVars>>
CreateOIDCUser(p, default) ==
  /\ At(p, "createoidc")
  /\ IF users[h[p].u].state = "unused" /\ IsRole(default, "user")
     THEN /\ users' = [users EXCEPT ![h[p].u] =
               [Unused EXCEPT !.state = "live", !.status = "enabled", !.role = default]]
          /\ Goto(p, "new")
     ELSE Goto(p, "idle") /\ UNCHANGED users
  /\ UNCHANGED <<sessions, version, loginVars>> /\ Keep

-----------------------------------------------------------------------------
(* Passwords *)

\* doForgotPassword overwrites the token an earlier request left.
ForgotPassword(u) ==
  /\ There(u) /\ PasswordLogin(u) /\ link < Links
  /\ link' = link + 1 /\ tokens' = Set(u, link + 1)
  /\ UNCHANGED <<accountVars, resets>>

\* ResetPage: every visit counts as a try; a valid post goes on to doResetPassword.
ResetPage(p, u, l, post) ==
  /\ l \in 1..link /\ tokens' = Checked(u)
  /\ IF post /\ Answers(u) /\ tokens[u].data = l /\ There(u)
     THEN Start(p, [NoHandler EXCEPT !.pc = "consume", !.op = "reset", !.u = u, !.link = l])
     ELSE ~Busy(p) /\ UNCHANGED <<h, overlapped>>
  /\ UNCHANGED <<users, roles, superRole, roleSeq, needsSetup, sessions, apiCache, failed,
                 version, edits, link, resets>>
ResetConsume(p) ==
  /\ At(p, "consume") /\ tokens' = Got(h[p].u)
  /\ Goto(p, IF Live(h[p].u) /\ tokens[h[p].u].data = h[p].link THEN "account" ELSE "idle")
  /\ UNCHANGED <<users, sessions, version, link, resets>> /\ Keep
ResetAccount(p) ==
  /\ At(p, "account")
  /\ h' = [h EXCEPT ![p] = IF There(@.u) /\ PasswordLogin(@.u)
             THEN [@ EXCEPT !.pc = "profile", !.ok = TRUE, !.new = TRUE] ELSE NoHandler]
  /\ UNCHANGED <<users, sessions, version, loginVars>> /\ Keep

\* UpdateUserProfile of cmd/users.go, of a user as the middleware read it.
UpdateUserProfile(p, u, s, new) ==
  /\ Signed(s, u)
  /\ Start(p, [NoHandler EXCEPT !.pc = "profile", !.op = "profile", !.u = u, !.keep = s,
       !.ok = PasswordLogin(u), !.new = new /\ PasswordLogin(u)])
  /\ UNCHANGED <<users, roles, superRole, roleSeq, needsSetup, sessions, apiCache, failed,
                 version, edits, loginVars>>
\* update-user-profile, with the password login that was read before.
ProfileWrite(p) ==
  /\ At(p, "profile") /\ CountPassword(p)
  /\ users' = IF There(h[p].u) THEN [users EXCEPT ![h[p].u].pw = NewPassword(@, h[p].ok, h[p].new)]
              ELSE users
  /\ resets' = IF h[p].op = "reset" THEN [resets EXCEPT ![h[p].link] = @ + 1] ELSE resets
  /\ Goto(p, IF There(h[p].u) /\ h[p].new THEN "logout" ELSE "idle")
  /\ UNCHANGED <<sessions, tokens, link>> /\ Keep

\* Variant: without a session to spare none is deleted.
ExpelledIfKept(u, keep) == [s \in Sids |->
  IF sessions[s].user = u /\ keep # NoSid /\ s # keep THEN NoSession ELSE sessions[s]]

\* delete-user-sessions; the session it spares counts as one of the new password.
Expelled(u, keep) == [s \in Sids |->
  IF sessions[s].user # u THEN sessions[s]
  ELSE IF s = keep THEN [sessions[s] EXCEPT !.at = users[u].pw] ELSE NoSession]
AfterLogout(op) == CASE op = "update" -> "cache" [] op = "reset" -> "new" [] OTHER -> "idle"
DeleteUserSessions(p) ==
  /\ At(p, "logout") /\ sessions' = Expelled(h[p].u, h[p].keep)
  /\ Goto(p, AfterLogout(h[p].op)) /\ failed' = [failed EXCEPT !.cut = @ \ {h[p].u}]
  /\ UNCHANGED <<users, roles, superRole, roleSeq, needsSetup, apiCache, overlapped, version,
                 edits, loginVars>>

-----------------------------------------------------------------------------
(* Failures *)

Fallible == {"cache", "write", "rolenext", "role", "admin", "new", "createoidc", "account",
             "profile", "logout"}
\* A statement of a handler fails: the handler answers with an error, and what it wrote
\* before stays.  At "logout" it is GetUser, after the password was written; or it is
\* delete-user-sessions, whose error is logged, and the handler goes on.
HandlerFails(p) ==
  /\ h[p].pc \in Fallible /\ failed.faults < Faults
  /\ \E next \in {"idle"} \cup IF At(p, "logout") THEN {AfterLogout(h[p].op)} ELSE {} :
       /\ Goto(p, next)
       /\ failed' = [cut |-> IF At(p, "logout") THEN failed.cut \cup {h[p].u} ELSE failed.cut,
                     missed |-> failed.missed \/ (next = "idle" /\ ToCache(h[p])),
                     half |-> IF At(p, "new") /\ h[p].op = "setup"
                              THEN failed.half \cup {h[p].u} ELSE failed.half,
                     faults |-> failed.faults + 1]
  /\ UNCHANGED <<users, roles, superRole, roleSeq, needsSetup, sessions, apiCache, overlapped,
                 version, edits, loginVars>>

\* EnableTOTP and DisableTOTP of cmd/users.go; the secret is the control plane's.
SetTOTP(s, u, on) ==
  /\ Signed(s, u) /\ users[u].twofa # on
  /\ IF on THEN PasswordLogin(u) ELSE CanLogIn(u)
  /\ users' = [users EXCEPT ![u].twofa = on]
  /\ UNCHANGED <<sessions, h, version, loginVars>> /\ Keep

Age == \/ \E id \in TokenIds : Live(id) /\ tokens' = Expired(id)
       \/ Clean # tokens /\ tokens' = Clean
TokensAge == Age /\ UNCHANGED <<accountVars, link, resets>>

\* The process stops at any moment: what is in memory goes, what is stored stays, and
\* initAuth fills the cache, with the API user of the configuration file; a cache filled
\* anew has nothing of the handlers that overlapped.
Restart(anew) ==
  /\ Edit
  /\ h' = [p \in Procs |-> NoHandler] /\ overlapped' = (overlapped /\ ~anew)
  /\ apiCache' = [ApiUsers EXCEPT ![Legacy] = {0}]
  /\ needsSetup' = (\A u \in Users : There(u) => users[u].type = "api")
  /\ failed' = [failed EXCEPT !.missed = FALSE,
       !.cut = @ \cup {h[p].u : p \in {q \in Procs : At(q, "logout")}}]
  /\ tokens' = [id \in TokenIds |-> NoToken]
  /\ UNCHANGED <<users, roles, superRole, roleSeq, sessions, version, link, resets>>

-----------------------------------------------------------------------------
(* What must hold *)

\* No session outlives a change of password: each was saved when the row had the password
\* it has - or is the one the change was made from - unless a change is under way, or one
\* was cut short: the process stopped between its two statements, GetUser failed between
\* them, or the second failed, and no later change deleted the sessions.
LoggedOutByPassword == \A s \in Sids : LET u == sessions[s].user IN
  u = NoUser \/ ~There(u) \/ u \in failed.cut \/ users[u].pw = 0 \/ sessions[s].at = users[u].pw
  \/ \E p \in Procs : At(p, "logout") /\ h[p].u = u

\* A link that was mailed sets a password once, however often it is posted and by however
\* many requests at a time.
ResetOnce == \A l \in 1..Links : resets[l] <= 1
===============================================================================
