---------------------------- MODULE IdentityProofs ----------------------------
(***************************************************************************)
(* Theorems about Identity: a mailed link sets a password once, no session  *)
(* outlives a change of password, and while handlers run one after the      *)
(* other the cache of API users is what the rows say, a super admin stays   *)
(* and set-up makes one.                                                    *)
(*                                                                         *)
(* The types of rows, sessions, tokens and handlers come first; then each   *)
(* property with what a handler may still do: ResetInv with who holds a     *)
(* link, CacheInv with who has still to fill the cache, SupersInv with what *)
(* was read of the other super admins.                                      *)
(***************************************************************************)
EXTENDS Identity, FiniteSetTheorems, TLAPS

-----------------------------------------------------------------------------
(* Types *)

CacheRows == [Users \cup {Legacy} -> SUBSET {0, 1}]
TokenRows == [data : Users \cup (1..Links) \cup {NoData}, count : 0..MaxTries, expired : BOOLEAN]
Pcs == {"idle", "cache", "store", "write", "rolenext", "role", "admin", "flag", "new",
        "verified", "createoidc", "consume", "account", "profile", "logout"}
Ops == {"none", "create", "update", "delete", "role", "droprole", "setup", "login", "oidc",
        "reset", "profile"} \cup Twofa
Snaps == (SUBSET Users) \cup CacheRows   \* rows to delete, or to cache
HandlerRows ==
  [pc : Pcs, op : Ops, u : Users \cup {NoUser}, row : UserRows, new : BOOLEAN, ok : BOOLEAN,
   keep : Sids \cup {NoSid}, link : Nat, snap : Snaps]

\* Rows of users and their roles.
RowsInv ==
  /\ users \in [Users -> UserRows] /\ roles \in [Roles -> RoleRows] /\ superRole \in Nat
  /\ \A u \in Users : There(u) => /\ IsRole(users[u].role, "user")
                                  /\ users[u].list = NoRole \/ roles[users[u].list].there

\* Handlers: what they have yet to do is for a user, who is no longer an unused id
\* when a session is to be saved or deleted.
HandlerFits(rec, rows) ==
  /\ (rec.op = "update" \/ rec.pc \notin {"idle", "write", "cache", "store"}) => rec.u \in Users
  /\ rec.pc \in {"verified", "new", "flag", "logout"} => rows[rec.u].state # "unused"
  /\ rec.pc = "store" => rec.snap \in CacheRows
  /\ rec.pc = "write" /\ rec.op = "delete" => rec.snap \subseteq Users
HandlersInv == h \in [Procs -> HandlerRows] /\ \A p \in Procs : HandlerFits(h[p], users)

\* Sessions are of ids that are not unused.
SessionsInv ==
  /\ sessions \in [Sids -> [user : Users \cup {NoUser}, at : 0..Passwords]]
  /\ \A s \in Sids : sessions[s].user # NoUser => users[sessions[s].user].state # "unused"

\* A second-factor token holds a user, a reset token a link that was mailed.
TokensInv ==
  /\ tokens \in [TokenIds -> TokenRows] /\ link \in 0..Links
  /\ \A id \in TokenIds : Live(id) => tokens[id].data \in IF id \in Twofa THEN Users ELSE 1..link

FailedRows == [cut : SUBSET Users, missed : BOOLEAN, half : SUBSET Users, faults : 0..Faults]
CountsInv ==
  /\ version \in 0..Passwords /\ roleSeq \in Nat /\ needsSetup \in BOOLEAN /\ failed \in FailedRows
  /\ overlapped \in BOOLEAN /\ apiCache \in CacheRows /\ resets \in [1..Links -> Nat]

TypeInv == RowsInv /\ HandlersInv /\ SessionsInv /\ TokensInv /\ CountsInv

-----------------------------------------------------------------------------
(* What the properties need *)

\* A handler that has taken the token of a link and has not yet set the password.
Holds(p, l) == h[p].pc \in {"account", "profile"} /\ h[p].op = "reset" /\ h[p].link = l
\* The token of a link that can still be taken.
Mailed(u, l) == tokens[u] # NoToken /\ tokens[u].data = l

\* The password of a link is set, or one handler is about to, or one token is there.
ResetInv ==
  /\ \A l \in 1..Links : resets[l] <= 1
  /\ \A l \in 1..Links : resets[l] = 1 => l <= link
  /\ \A p \in Procs, l \in 1..Links : Holds(p, l) => resets[l] = 0 /\ l <= link
  /\ \A p, q \in Procs, l \in 1..Links : Holds(p, l) /\ Holds(q, l) => p = q
  /\ \A u \in Users, l \in 1..Links : Mailed(u, l) =>
       l <= link /\ resets[l] = 0 /\ \A p \in Procs : ~Holds(p, l)
  /\ \A u, v \in Users, l \in 1..Links : Mailed(u, l) /\ Mailed(v, l) => u = v

\* While handlers run one after the other, the cache is current, or the last one could
\* not read the rows, or the one at work has still to read them or to store them; what it
\* read are the rows there are.
Current == \A u \in Users : apiCache[u] = ApiUsers[u]
Fresh == Current \/ failed.missed
Fills(rec) == \/ rec.pc \in {"cache", "store"}
              \/ rec.pc = "logout" /\ rec.op = "update"
Alone == \A p, q \in Procs : Busy(p) /\ Busy(q) => p = q
CacheInv ==
  ~overlapped =>
    /\ Alone
    /\ Fresh \/ \E p \in Procs : Fills(h[p])
    /\ \A p \in Procs : h[p].pc = "store" => \A u \in Users : h[p].snap[u] = ApiUsers[u]

\* What a handler read of the other super admins still holds.
Promised(rec, supers) ==
  rec.pc = "write" /\ rec.ok =>
    /\ rec.op = "update" => \/ supers \ {rec.u} # {}
                            \/ rec.row.role = Super /\ rec.row.status = "enabled"
    /\ rec.op = "delete" => supers \ rec.snap # {}
SupersInv == ~overlapped => \A p \in Procs : Promised(h[p], Supers)

\* Set-up: each handler makes a user of its own, of an unused id; there is one super
\* admin at most whose set-up did not fail, and none while the role is looked for, when
\* they run one by one.
BeforeAdmin == {"rolenext", "role", "admin"}
Whole(u) == There(u) /\ u \notin failed.half
SetupInv ==
  part = "setup" =>
    /\ \A u \in Users : There(u) => users[u].type = "user"
    /\ \A u \in failed.half : There(u)
    /\ \A p \in Procs : Busy(p) => h[p].op = "setup"
    /\ \A p, q \in Procs : Busy(p) /\ Busy(q) /\ h[p].u = h[q].u => p = q
    /\ \A p \in Procs : h[p].pc \in BeforeAdmin => users[h[p].u].state = "unused"
    /\ \A p \in Procs : h[p].pc \in {"new", "flag"} => Whole(h[p].u)
    /\ ~overlapped =>
         /\ \A u, v \in Users : Whole(u) /\ Whole(v) => u = v
         /\ (\E u \in Users : Whole(u)) =>
              ~needsSetup \/ \E p \in Procs : h[p].pc \in {"new", "flag"}
         /\ \A p \in Procs : h[p].pc \in BeforeAdmin => \A u \in Users : ~Whole(u)

CoreInv == TypeInv /\ ResetInv /\ LoggedOutByPassword /\ CacheInv /\ SupersInv
IdInv == CoreInv /\ SetupInv

-----------------------------------------------------------------------------
(* Rows, steps of handlers, tokens *)

\* The rows there are at first, of a handler and of a token, and a user's that is gone.
LEMMA Empties ==
  /\ Unused \in UserRows /\ [Unused EXCEPT !.state = "deleted"] \in UserRows
  /\ NoHandler \in HandlerRows /\ NoToken \in TokenRows
  /\ NoSession \in [user : Users \cup {NoUser}, at : 0..Passwords]
  <1> USE AccountsAssumption, LoginsAssumption
  <1>1. Unused \in UserRows /\ [Unused EXCEPT !.state = "deleted"] \in UserRows
    <2>1. 0 \in 0..Passwords
      OBVIOUS
    <2> QED BY <2>1 DEF Unused, UserRows
  <1>2. NoHandler \in HandlerRows
    BY <1>1 DEF NoHandler, HandlerRows, Pcs, Ops, Snaps
  <1>3. NoToken \in TokenRows
    BY DEF NoToken, TokenRows
  <1>4. NoSession \in [user : Users \cup {NoUser}, at : 0..Passwords]
    BY DEF NoSession
  <1> QED BY <1>1, <1>2, <1>3, <1>4

\* Cached permissions of well-typed rows are well-typed.
LEMMA ApiUsersTyped ==
  ASSUME RowsInv
  PROVE  ApiUsers \in CacheRows
  <1> SUFFICES ASSUME NEW u \in Users
               PROVE  RolePerms(users[u].role) \in {0, 1}
    BY DEF ApiUsers, CacheRows
  <1> QED BY DEF RowsInv, RolePerms, RoleRows

\* A user is cached anew only where the row that says who it is changes, or its role's.
LEMMA ApiSame ==
  ASSUME NEW u \in Users, UNCHANGED roles,
         There(u) \/ There(u)' =>
           /\ users'[u].state = users[u].state /\ users'[u].type = users[u].type
           /\ users'[u].status = users[u].status /\ users'[u].role = users[u].role
  PROVE  ApiUsers'[u] = ApiUsers[u]
  BY DEF ApiUsers, IsApi, There, RolePerms

\* One row is written, of a user whose roles are there if the user is.
LEMMA RowWritten ==
  ASSUME RowsInv, UNCHANGED <<roles, superRole>>, NEW u \in Users, NEW row \in UserRows,
         users' = [users EXCEPT ![u] = row],
         row.state = "live" => /\ IsRole(row.role, "user")
                               /\ row.list = NoRole \/ roles[row.list].there
  PROVE  RowsInv'
  <1>1. users' \in [Users -> UserRows]
    BY DEF RowsInv
  <1>2. ASSUME NEW v \in Users, There(v)'
        PROVE  /\ IsRole(users'[v].role, "user")
               /\ users'[v].list = NoRole \/ roles[users'[v].list].there
    BY <1>2 DEF RowsInv, There
  <1> QED BY <1>1, <1>2 DEF RowsInv, IsRole, SuperExists

\* Removed rows are of no user.
LEMMA RowsRemoved ==
  ASSUME RowsInv, UNCHANGED <<roles, superRole>>, NEW gone \in SUBSET Users,
         users' = Removed(gone)
  PROVE  RowsInv'
  <1>1. users' \in [Users -> UserRows]
    BY Empties DEF RowsInv, Removed
  <1>2. ASSUME NEW v \in Users, There(v)'
        PROVE  users'[v] = users[v] /\ There(v)
    BY <1>2 DEF Removed, There, Unused
  <1> QED BY <1>1, <1>2 DEF RowsInv, IsRole, SuperExists

\* Rows that were no longer unused are not unused after a step, so what fits other
\* handlers still does.
LEMMA HandlerSteps ==
  ASSUME HandlersInv, NEW p \in Procs, NEW rec \in HandlerRows,
         h' = [h EXCEPT ![p] = rec], HandlerFits(rec, users'),
         \A u \in Users : users[u].state # "unused" => users'[u].state # "unused"
  PROVE  HandlersInv'
  <1>1. h' \in [Procs -> HandlerRows]
    BY DEF HandlersInv
  <1>2. ASSUME NEW q \in Procs
        PROVE  HandlerFits(h'[q], users')
    BY DEF HandlersInv, HandlerFits
  <1> QED BY <1>1, <1>2 DEF HandlersInv, HandlerFits

\* The same of sessions.
LEMMA SessionsKept ==
  ASSUME SessionsInv, UNCHANGED sessions,
         \A u \in Users : users[u].state # "unused" => users'[u].state # "unused"
  PROVE  SessionsInv'
  BY DEF SessionsInv

-----------------------------------------------------------------------------
(* What each part of the invariant asks of a step *)

\* A step that checks, takes or ages tokens leaves those that live as they were.
Fewer == /\ tokens' \in [TokenIds -> TokenRows]
         /\ \A id \in TokenIds : tokens'[id] # NoToken =>
              /\ tokens[id] # NoToken /\ tokens'[id].data = tokens[id].data
              /\ ~tokens'[id].expired => ~tokens[id].expired

\* So do all operators of the token store but Set.
LEMMA TokensFewer ==
  ASSUME TokensInv,
         \/ UNCHANGED tokens
         \/ \E id : tokens' = Deleted(id)
         \/ \E id : tokens' = Checked(id)
         \/ \E id \in TokenIds : Live(id) /\ tokens' = Expired(id)
         \/ tokens' = Clean
  PROVE  Fewer
  <1> USE AccountsAssumption, LoginsAssumption
  <1>1. tokens \in [TokenIds -> TokenRows]
    BY DEF TokensInv
  <1>2. CASE UNCHANGED tokens
    BY <1>1, <1>2 DEF Fewer
  <1>3. ASSUME NEW id, tokens' = Deleted(id)
        PROVE  Fewer
    BY <1>1, <1>3, Empties DEF Fewer, Deleted
  <1>4. ASSUME NEW id, tokens' = Checked(id)
        PROVE  Fewer
    <2>1. CASE ~Answers(id)
      BY <2>1, <1>3, <1>4 DEF Checked
    <2>2. CASE Answers(id) /\ id \in TokenIds
      <3> DEFINE rec == [tokens[id] EXCEPT !.count = @ + 1]
      <3>1. tokens[id] \in TokenRows /\ tokens[id].count < MaxTries /\ tokens[id].count \in 0..MaxTries
        BY <1>1, <2>2 DEF Answers, TokenRows
      <3>2. tokens[id].count + 1 \in 0..MaxTries
        BY <3>1
      <3>3. /\ rec \in TokenRows /\ rec.data = tokens[id].data
            /\ rec.expired = tokens[id].expired
        BY <3>1, <3>2 DEF TokenRows
      <3>4. tokens' = [tokens EXCEPT ![id] = rec]
        BY <1>4, <2>2 DEF Checked
      <3>5. tokens[id] # NoToken
        BY <2>2 DEF Answers, Live
      <3> HIDE DEF rec
      <3> QED BY <1>1, <3>3, <3>4, <3>5 DEF Fewer
    <2>3. CASE Answers(id) /\ id \notin TokenIds
      BY <1>1, <1>4, <2>3 DEF Fewer, Checked
    <2> QED BY <2>1, <2>2, <2>3
  <1>5. ASSUME NEW id \in TokenIds, Live(id), tokens' = Expired(id)
        PROVE  Fewer
    <2> DEFINE rec == [tokens[id] EXCEPT !.expired = TRUE]
    <2>1. rec \in TokenRows /\ rec.data = tokens[id].data /\ rec.expired
      BY <1>1 DEF TokenRows
    <2>2. tokens' = [tokens EXCEPT ![id] = rec]
      BY <1>5 DEF Expired
    <2>3. tokens[id] # NoToken
      BY <1>5 DEF Live
    <2> HIDE DEF rec
    <2> QED BY <1>1, <2>1, <2>2, <2>3 DEF Fewer
  <1>6. CASE tokens' = Clean
    BY <1>1, <1>6, Empties DEF Fewer, Clean
  <1> QED BY <1>2, <1>3, <1>4, <1>5, <1>6

\* Then their types are kept, while links may be mailed.
LEMMA TokensKept ==
  ASSUME TokensInv, Fewer, link' = link
  PROVE  TokensInv'
  BY DEF TokensInv, Fewer, Live

\* Fewer tokens, and no handler more that holds one: no link is used again.
LEMMA ResetKept ==
  ASSUME ResetInv, Fewer, UNCHANGED <<link, resets>>,
         NEW p \in Procs, NEW rec, h' = [h EXCEPT ![p] = rec], h \in [Procs -> HandlerRows],
         rec.pc \in {"account", "profile"} /\ rec.op = "reset" =>
           h[p].pc \in {"account", "profile"} /\ h[p].op = "reset" /\ h[p].link = rec.link
  PROVE  ResetInv'
  <1>1. ASSUME NEW q \in Procs, NEW l \in 1..Links, Holds(q, l)'
        PROVE  Holds(q, l)
    BY <1>1 DEF Holds
  <1>2. ASSUME NEW u \in Users, NEW l \in 1..Links, Mailed(u, l)'
        PROVE  Mailed(u, l)
    BY <1>2, LoginsAssumption DEF Mailed, Fewer
  <1> QED BY <1>1, <1>2 DEF ResetInv

\* Passwords as they were, or taken away, or new and rec is to delete the sessions.
PasswordsKept(rec) ==
  \A u \in Users : users'[u].state = "live" /\ users[u].state # "unused" =>
    /\ users[u].state = "live"
    /\ \/ users'[u].pw = users[u].pw \/ users'[u].pw = 0
       \/ rec.pc = "logout" /\ rec.u = u

\* Sessions as they were, of users whose passwords are: none is too old, if the handlers
\* that are to delete sessions still are.
LEMMA LoggedKept ==
  ASSUME LoggedOutByPassword, SessionsInv, UNCHANGED sessions, failed.cut \subseteq failed'.cut,
         NEW p \in Procs, NEW rec, h' = [h EXCEPT ![p] = rec], h \in [Procs -> HandlerRows],
         PasswordsKept(rec),
         h[p].pc = "logout" => \/ rec.pc = "logout" /\ rec.u = h[p].u
                               \/ h[p].u \in failed'.cut
  PROVE  LoggedOutByPassword'
  <1> SUFFICES ASSUME NEW s \in Sids, NEW u, u = sessions[s].user
               PROVE  \/ u = NoUser \/ users'[u].state # "live" \/ u \in failed'.cut
                      \/ users'[u].pw = 0 \/ sessions[s].at = users'[u].pw
                      \/ \E q \in Procs : h'[q].pc = "logout" /\ h'[q].u = u
    BY DEF LoggedOutByPassword, At, There
  <1>1. u = NoUser \/ (u \in Users /\ users[u].state # "unused")
    BY DEF SessionsInv
  <1>2. \/ u = NoUser \/ users[u].state # "live" \/ u \in failed.cut
        \/ users[u].pw = 0 \/ sessions[s].at = users[u].pw
        \/ \E q \in Procs : h[q].pc = "logout" /\ h[q].u = u
    BY DEF LoggedOutByPassword, At, There
  <1>3. \A q \in Procs : h[q].pc = "logout" => \/ h'[q].pc = "logout" /\ h'[q].u = h[q].u
                                               \/ h[q].u \in failed'.cut
    OBVIOUS
  <1>4. h'[p] = rec
    OBVIOUS
  <1> QED BY <1>1, <1>2, <1>3, <1>4 DEF PasswordsKept

\* The cache is current after a step, or the handler that took it will fill it.
LEMMA CacheKept ==
  ASSUME CacheInv, NEW p \in Procs, NEW rec, h' = [h EXCEPT ![p] = rec],
         h \in [Procs -> HandlerRows],
         ~overlapped' => ~overlapped /\ \A q \in Procs : Busy(q) => q = p,
         ~overlapped' => Fills(rec) \/ Fresh',
         rec.pc = "store" => \A u \in Users : rec.snap[u] = ApiUsers'[u]
  PROVE  CacheInv'
  <1> SUFFICES ASSUME ~overlapped'
               PROVE  /\ Alone'
                      /\ Fresh' \/ \E q \in Procs : Fills(h'[q])
                      /\ \A q \in Procs : h'[q].pc = "store" =>
                           \A u \in Users : h'[q].snap[u] = ApiUsers'[u]
    BY DEF CacheInv, Fills
  <1>1. h'[p] = rec /\ \A q \in Procs : q # p => h'[q] = h[q] /\ h[q].pc = "idle"
    BY DEF Busy
  <1>2. Alone'
    BY <1>1 DEF Alone, Busy
  <1> QED BY <1>1, <1>2

\* A super admin a handler counts on: only the one that takes the step is at work.
LEMMA SupersKept ==
  ASSUME NEW p \in Procs, NEW rec, h' = [h EXCEPT ![p] = rec], h \in [Procs -> HandlerRows],
         ~overlapped' => \A q \in Procs : Busy(q) => q = p,
         ~overlapped' => Promised(rec, Supers')
  PROVE  SupersInv'
  <1> SUFFICES ASSUME ~overlapped', NEW q \in Procs
               PROVE  Promised(h'[q], Supers')
    BY DEF SupersInv, Promised
  <1>1. CASE q = p
    BY <1>1
  <1>2. CASE q # p
    <2>1. h'[q].pc = "idle"
      BY <1>2 DEF Busy
    <2> QED BY <2>1 DEF Promised
  <1> QED BY <1>1, <1>2

-----------------------------------------------------------------------------
(* Three kinds of step *)

Unmoved == UNCHANGED <<users, roles, superRole, sessions, apiCache, failed, link, resets,
                       needsSetup, version>>

\* A request comes, and has yet to write anything.
LEMMA StartStep ==
  ASSUME CoreInv, NEW p \in Procs, NEW rec \in HandlerRows, Start(p, rec),
         Unmoved, UNCHANGED roleSeq, Fewer, HandlerFits(rec, users),
         rec.pc \notin {"store", "account"}, ~(rec.pc = "profile" /\ rec.op = "reset"),
         Promised(rec, Supers)
  PROVE  CoreInv'
  <1> USE DEF Unmoved
  <1>1. /\ RowsInv /\ HandlersInv /\ SessionsInv /\ TokensInv /\ CountsInv
        /\ h \in [Procs -> HandlerRows] /\ h[p].pc = "idle"
        /\ h' = [h EXCEPT ![p] = rec]
        /\ overlapped' = (overlapped \/ \E q \in Procs : Busy(q))
    BY DEF CoreInv, TypeInv, HandlersInv, Start, Busy
  <1>2. RowsInv' /\ SessionsInv'
    BY <1>1 DEF RowsInv, SessionsInv, There, IsRole, SuperExists
  <1>3. HandlersInv'
    <2>1. HandlerFits(rec, users')
      OBVIOUS
    <2> QED BY <1>1, <2>1, HandlerSteps
  <1>4. TokensInv'
    BY <1>1, TokensKept
  <1>5. CountsInv'
    BY <1>1 DEF CountsInv
  <1>6. ResetInv'
    BY <1>1, ResetKept DEF CoreInv
  <1>7. LoggedOutByPassword'
    <2>1. PasswordsKept(rec)
      BY DEF PasswordsKept
    <2> QED BY <1>1, <2>1, LoggedKept DEF CoreInv
  <1>8. ~overlapped' => ~overlapped /\ \A q \in Procs : ~Busy(q)
    BY <1>1 DEF CountsInv
  <1>9. CacheInv'
    <2>1. ASSUME ~overlapped'
          PROVE  Fresh'
      <3>1. Fresh
        BY <1>8, <2>1 DEF CoreInv, CacheInv, Fills, Busy
      <3> QED BY <3>1 DEF Fresh, Current, ApiUsers, IsApi, There, RolePerms
    <2> QED BY <1>1, <1>8, <2>1, CacheKept DEF CoreInv
  <1>10. SupersInv'
    <2>1. Supers' = Supers
      BY DEF Supers, There
    <2> QED BY <1>1, <1>8, <2>1, SupersKept
  <1> QED BY <1>2, <1>3, <1>4, <1>5, <1>6, <1>7, <1>9, <1>10 DEF CoreInv, TypeInv

\* A handler goes on without a write.
LEMMA MoveStep ==
  ASSUME CoreInv, NEW p \in Procs, NEW rec \in HandlerRows, Busy(p),
         h' = [h EXCEPT ![p] = rec],
         Unmoved, roleSeq' \in Nat, UNCHANGED overlapped, Fewer, HandlerFits(rec, users),
         rec.pc # "write", h[p].pc # "logout", Fills(h[p]) => Fills(rec),
         rec.pc = "store" => \A u \in Users : rec.snap[u] = ApiUsers[u],
         rec.pc \in {"account", "profile"} /\ rec.op = "reset" =>
           h[p].pc \in {"account", "profile"} /\ h[p].op = "reset" /\ h[p].link = rec.link
  PROVE  CoreInv'
  <1> USE DEF Unmoved
  <1>1. /\ RowsInv /\ HandlersInv /\ SessionsInv /\ TokensInv /\ CountsInv
        /\ h \in [Procs -> HandlerRows]
    BY DEF CoreInv, TypeInv, HandlersInv
  <1>2. RowsInv' /\ SessionsInv'
    BY <1>1 DEF RowsInv, SessionsInv, There, IsRole, SuperExists
  <1>3. HandlersInv'
    <2>1. HandlerFits(rec, users')
      OBVIOUS
    <2> QED BY <1>1, <2>1, HandlerSteps
  <1>4. TokensInv'
    BY <1>1, TokensKept
  <1>5. CountsInv'
    BY <1>1 DEF CountsInv
  <1>6. ResetInv'
    BY <1>1, ResetKept DEF CoreInv
  <1>7. LoggedOutByPassword'
    <2>1. PasswordsKept(rec)
      BY DEF PasswordsKept
    <2> QED BY <1>1, <2>1, LoggedKept DEF CoreInv
  <1>8. ~overlapped' => ~overlapped /\ \A q \in Procs : Busy(q) => q = p
    BY <1>1 DEF CoreInv, CacheInv, Alone
  <1>9. ApiUsers' = ApiUsers
    BY DEF ApiUsers, IsApi, There, RolePerms
  <1>10. CacheInv'
    <2>1. ASSUME ~overlapped', ~Fills(rec)
          PROVE  Fresh'
      <3>1. \A q \in Procs : ~Fills(h[q])
        BY <1>8, <2>1 DEF Fills, Busy
      <3> QED BY <1>8, <1>9, <2>1, <3>1 DEF CoreInv, CacheInv, Fresh, Current
    <2> QED BY <1>1, <1>8, <1>9, <2>1, CacheKept DEF CoreInv
  <1>11. SupersInv'
    <2>1. Promised(rec, Supers')
      BY DEF Promised
    <2> QED BY <1>1, <1>8, <2>1, SupersKept
  <1> QED BY <1>2, <1>3, <1>4, <1>5, <1>6, <1>7, <1>10, <1>11 DEF CoreInv, TypeInv

\* No handler moves, and nothing changes of who may log in as what.
LEMMA StillStep ==
  ASSUME CoreInv, UNCHANGED <<h, overlapped, failed, apiCache, version, needsSetup, roleSeq>>,
         RowsInv', SessionsInv', TokensInv', ResetInv', LoggedOutByPassword',
         resets' \in [1..Links -> Nat],
         \A u \in Users : ApiUsers'[u] = ApiUsers[u], Supers' = Supers,
         \A u \in Users : users[u].state # "unused" => users'[u].state # "unused"
  PROVE  CoreInv'
  <1>1. HandlersInv' /\ CountsInv'
    BY DEF CoreInv, TypeInv, HandlersInv, HandlerFits, CountsInv
  <1>2. CacheInv'
    BY DEF CoreInv, CacheInv, Fresh, Current, Fills, Alone, Busy
  <1>3. SupersInv'
    BY DEF CoreInv, SupersInv, Promised
  <1> QED BY <1>1, <1>2, <1>3 DEF CoreInv, TypeInv

-----------------------------------------------------------------------------
(* Requests, and handlers that go on without a write *)

\* update-user reads the other super admins when it starts.
LEMMA UpdateUserCore ==
  ASSUME CoreInv, NEW p \in Procs, NEW u \in Users, NEW row \in UserRows, NEW new \in BOOLEAN,
         Accounts(UpdateUser(p, u, row, new))
  PROVE  CoreInv'
  <1> USE DEF Accounts, UpdateUser, loginVars
  <1> DEFINE rec == [NoHandler EXCEPT !.pc = "write", !.op = "update", !.u = u, !.row = row,
                       !.new = new, !.ok = CanEdit(u, row.role, row.status)]
  <1>1. Start(p, rec)
    OBVIOUS
  <1>2. rec \in HandlerRows
    BY Empties DEF HandlerRows, Pcs, Ops, CanEdit
  <1>3. HandlerFits(rec, users) /\ rec.pc = "write"
    BY DEF HandlerFits, NoHandler
  <1>4. Promised(rec, Supers)
    BY DEF Promised, CanEdit, OtherSupers, NoHandler
  <1>5. Unmoved /\ UNCHANGED <<roleSeq, tokens>>
    BY DEF Unmoved
  <1>6. Fewer
    BY <1>5, TokensFewer DEF CoreInv, TypeInv
  <1> HIDE DEF rec
  <1> QED BY <1>1, <1>2, <1>3, <1>4, <1>5, <1>6, StartStep

\* So does delete-users, of those it is not to delete.
LEMMA DeleteUsersCore ==
  ASSUME CoreInv, NEW p \in Procs, NEW ids \in SUBSET Users, Accounts(DeleteUsers(p, ids))
  PROVE  CoreInv'
  <1> USE DEF Accounts, DeleteUsers, loginVars
  <1> DEFINE rec == [NoHandler EXCEPT !.pc = "write", !.op = "delete",
                       !.ok = OtherSupers(ids) # {}, !.snap = {u \in Users : There(u) /\ ids = {u}}]
  <1>1. Start(p, rec)
    OBVIOUS
  <1>2. rec \in HandlerRows
    BY Empties DEF HandlerRows, Pcs, Ops, Snaps
  <1>3. HandlerFits(rec, users) /\ rec.pc = "write"
    BY DEF HandlerFits, NoHandler
  <1>4. Promised(rec, Supers)
    BY DEF Promised, OtherSupers, NoHandler
  <1>5. Unmoved /\ UNCHANGED <<roleSeq, tokens>>
    BY DEF Unmoved
  <1>6. Fewer
    BY <1>5, TokensFewer DEF CoreInv, TypeInv
  <1> HIDE DEF rec
  <1> QED BY <1>1, <1>2, <1>3, <1>4, <1>5, <1>6, StartStep

\* A login, a change of profile, and set-up, of which nothing is asked but a user.
LEMMA RequestCore ==
  ASSUME CoreInv, NEW p \in Procs,
         \/ \E u \in Users : \/ Logins(DoLogin(p, u)) \/ Logins(OIDCFinish(p, u, TRUE))
                             \/ Accounts(SetupStart(p, u))
         \/ \E u \in Users, s \in Sids, new \in BOOLEAN : Logins(UpdateUserProfile(p, u, s, new))
  PROVE  CoreInv'
  <1> USE DEF Accounts, Logins, loginVars
  <1>1. Unmoved /\ UNCHANGED <<roleSeq, tokens>>
    BY DEF Unmoved, DoLogin, OIDCFinish, SetupStart, UpdateUserProfile
  <1>2. Fewer
    BY <1>1, TokensFewer DEF CoreInv, TypeInv
  <1>3. ASSUME NEW u \in Users, NEW pc \in {"new", "createoidc", "admin", "rolenext"}, NEW op \in Ops,
               Start(p, [NoHandler EXCEPT !.pc = pc, !.op = op, !.u = u]),
               pc = "new" => There(u)
        PROVE  CoreInv'
    <2> DEFINE rec == [NoHandler EXCEPT !.pc = pc, !.op = op, !.u = u]
    <2>1. rec \in HandlerRows /\ rec.pc = pc /\ rec.u = u
      BY Empties DEF HandlerRows, Pcs
    <2>2. HandlerFits(rec, users)
      BY <1>3, <2>1 DEF HandlerFits, There
    <2>3. Start(p, rec)
      BY <1>3
    <2> HIDE DEF rec
    <2> QED BY <1>1, <1>2, <2>1, <2>2, <2>3, StartStep DEF Promised
  <1>4. ASSUME NEW u \in Users, DoLogin(p, u) PROVE CoreInv'
    BY <1>3, <1>4 DEF DoLogin, CanLogIn, Ops
  <1>5. ASSUME NEW u \in Users, OIDCFinish(p, u, TRUE) PROVE CoreInv'
    <2> DEFINE pc == IF There(u) THEN "new" ELSE "createoidc"
    <2>1. Start(p, [NoHandler EXCEPT !.pc = pc, !.op = "oidc", !.u = u])
      BY <1>5 DEF OIDCFinish
    <2>2. pc \in {"new", "createoidc"} /\ (pc = "new" => There(u))
      OBVIOUS
    <2> HIDE DEF pc
    <2> QED BY <1>3, <2>1, <2>2 DEF Ops
  <1>6. ASSUME NEW u \in Users, SetupStart(p, u) PROVE CoreInv'
    <2> DEFINE pc == IF SuperExists THEN "admin" ELSE "rolenext"
    <2>1. Start(p, [NoHandler EXCEPT !.op = "setup", !.u = u, !.pc = pc])
      BY <1>6 DEF SetupStart
    <2>2. [NoHandler EXCEPT !.op = "setup", !.u = u, !.pc = pc]
            = [NoHandler EXCEPT !.pc = pc, !.op = "setup", !.u = u]
      BY DEF NoHandler
    <2>3. pc \in {"admin", "rolenext"}
      OBVIOUS
    <2> HIDE DEF pc
    <2> QED BY <1>3, <2>1, <2>2, <2>3 DEF Ops
  <1>7. ASSUME NEW u \in Users, NEW s \in Sids, NEW new \in BOOLEAN, UpdateUserProfile(p, u, s, new)
        PROVE  CoreInv'
    <2> DEFINE ok == PasswordLogin(u)
               rec == [NoHandler EXCEPT !.pc = "profile", !.op = "profile", !.u = u, !.keep = s,
                         !.ok = ok, !.new = new /\ ok]
    <2>1. ok \in BOOLEAN
      BY DEF PasswordLogin, CoreInv, TypeInv, RowsInv, UserRows
    <2>2. Start(p, rec)
      BY <1>7 DEF UpdateUserProfile
    <2> HIDE DEF ok
    <2>3. rec \in HandlerRows /\ rec.pc = "profile" /\ rec.op = "profile" /\ rec.u = u
      BY <2>1, Empties DEF HandlerRows, Pcs, Ops
    <2> HIDE DEF rec
    <2>4. HandlerFits(rec, users)
      BY <2>3 DEF HandlerFits
    <2> QED BY <1>1, <1>2, <2>2, <2>3, <2>4, StartStep DEF Promised
  <1> QED BY <1>4, <1>5, <1>6, <1>7

\* Only tokens change, and they become fewer.
LEMMA TokensStep ==
  ASSUME CoreInv, Unmoved, UNCHANGED <<h, overlapped, roleSeq>>, Fewer
  PROVE  CoreInv'
  <1> USE DEF Unmoved
  <1>1. TokensInv'
    BY TokensKept DEF CoreInv, TypeInv
  <1>2. RowsInv' /\ SessionsInv' /\ LoggedOutByPassword'
    BY DEF CoreInv, TypeInv, RowsInv, SessionsInv, There, IsRole, SuperExists, LoggedOutByPassword, At
  <1>3. ResetInv'
    <2>1. \A u \in Users, l \in 1..Links : Mailed(u, l)' => Mailed(u, l)
      BY LoginsAssumption DEF Mailed, Fewer
    <2>2. \A p \in Procs, l \in 1..Links : Holds(p, l)' <=> Holds(p, l)
      BY DEF Holds
    <2> QED BY <2>1, <2>2 DEF CoreInv, ResetInv
  <1>4. Supers' = Supers /\ ApiUsers' = ApiUsers /\ resets' \in [1..Links -> Nat]
    BY DEF Supers, There, ApiUsers, IsApi, RolePerms, CoreInv, TypeInv, CountsInv
  <1> QED BY <1>1, <1>2, <1>3, <1>4, StillStep

\* The pages of links and of second factors count each visit; one that answers may go on.
LEMMA PageCore ==
  ASSUME CoreInv, NEW p \in Procs,
         \/ \E u \in Users, l \in 1..Links, post \in BOOLEAN : Logins(ResetPage(p, u, l, post))
         \/ \E t \in Twofa, code \in BOOLEAN : Logins(TwofaPage(p, t, code))
  PROVE  CoreInv'
  <1> USE DEF Logins
  <1>1. Unmoved /\ UNCHANGED roleSeq /\ \E id : tokens' = Checked(id)
    BY DEF Unmoved, ResetPage, TwofaPage
  <1>2. Fewer
    BY <1>1, TokensFewer DEF CoreInv, TypeInv
  <1>3. CASE UNCHANGED <<h, overlapped>>
    BY <1>1, <1>2, <1>3, TokensStep
  <1>4. ASSUME NEW u \in Users, NEW l \in Nat,
               Start(p, [NoHandler EXCEPT !.pc = "consume", !.op = "reset", !.u = u, !.link = l])
        PROVE  CoreInv'
    <2> DEFINE rec == [NoHandler EXCEPT !.pc = "consume", !.op = "reset", !.u = u, !.link = l]
    <2>1. rec \in HandlerRows /\ rec.pc = "consume" /\ rec.u = u
      BY Empties DEF HandlerRows, Pcs, Ops
    <2>2. Start(p, rec)
      BY <1>4
    <2> HIDE DEF rec
    <2>3. HandlerFits(rec, users)
      BY <2>1 DEF HandlerFits
    <2> QED BY <1>1, <1>2, <2>1, <2>2, <2>3, StartStep DEF Promised
  <1>5. ASSUME NEW t \in Twofa, NEW u \in Users, There(u),
               Start(p, [NoHandler EXCEPT !.pc = "verified", !.op = t, !.u = u])
        PROVE  CoreInv'
    <2> DEFINE rec == [NoHandler EXCEPT !.pc = "verified", !.op = t, !.u = u]
    <2>1. rec \in HandlerRows /\ rec.pc = "verified" /\ rec.u = u
      BY Empties DEF HandlerRows, Pcs, Ops
    <2>2. Start(p, rec)
      BY <1>5
    <2> HIDE DEF rec
    <2>3. HandlerFits(rec, users)
      BY <1>5, <2>1 DEF HandlerFits, There
    <2> QED BY <1>1, <1>2, <2>1, <2>2, <2>3, StartStep DEF Promised
  <1>6. ASSUME NEW u \in Users, NEW l \in 1..Links, NEW post \in BOOLEAN, ResetPage(p, u, l, post)
        PROVE  CoreInv'
    <2>1. l \in Nat
      OBVIOUS
    <2>2. CASE post /\ Answers(u) /\ tokens[u].data = l /\ There(u)
      BY <1>4, <1>6, <2>1, <2>2 DEF ResetPage
    <2>3. CASE ~(post /\ Answers(u) /\ tokens[u].data = l /\ There(u))
      BY <1>3, <1>6, <2>3 DEF ResetPage
    <2> QED BY <2>2, <2>3
  <1>7. ASSUME NEW t \in Twofa, NEW code \in BOOLEAN, TwofaPage(p, t, code)
        PROVE  CoreInv'
    <2> DEFINE u == tokens[t].data
               goes == code /\ Answers(t) /\ There(u) /\ users[u].twofa
    <2>1. CASE goes
      <3>1. u \in Users
        BY <2>1 DEF CoreInv, TypeInv, TokensInv, Answers, Twofa
      <3>2. Start(p, [NoHandler EXCEPT !.pc = "verified", !.op = t, !.u = u])
        BY <1>7, <2>1 DEF TwofaPage
      <3> QED BY <1>5, <2>1, <3>1, <3>2
    <2>2. CASE ~goes
      BY <1>3, <1>7, <2>2 DEF TwofaPage
    <2> QED BY <2>1, <2>2
  <1> QED BY <1>6, <1>7

\* Handlers between their statements.
LEMMA MovesCore ==
  ASSUME CoreInv, NEW p \in Procs,
         \/ Accounts(CacheRead(p)) \/ Accounts(SetupRoleNext(p))
         \/ Logins(TwofaVerified(p)) \/ Logins(ResetAccount(p))
  PROVE  CoreInv'
  <1> USE DEF Accounts, Logins, Keep, Rest, loginVars
  <1>1. Unmoved /\ UNCHANGED overlapped /\ roleSeq' \in Nat
    BY DEF Unmoved, CacheRead, SetupRoleNext, TwofaVerified, ResetAccount, CoreInv, TypeInv, CountsInv
  <1>2. Fewer
    <2>1. UNCHANGED tokens \/ \E id : tokens' = Deleted(id)
      BY DEF CacheRead, SetupRoleNext, TwofaVerified, ResetAccount
    <2> QED BY <2>1, TokensFewer DEF CoreInv, TypeInv
  <1>3. /\ h \in [Procs -> HandlerRows] /\ h[p] \in HandlerRows /\ HandlerFits(h[p], users)
        /\ ApiUsers \in CacheRows /\ ApiUsers \in Snaps
    <2>1. ApiUsers \in CacheRows
      BY ApiUsersTyped DEF CoreInv, TypeInv
    <2>2. ApiUsers \in Snaps
      BY <2>1 DEF Snaps
    <2> QED BY <2>1, <2>2 DEF CoreInv, TypeInv, HandlersInv
  <1> DEFINE rec == h'[p]
  <1>4. CASE CacheRead(p)
    <2>1. rec = [h[p] EXCEPT !.pc = "store", !.snap = ApiUsers]
      BY <1>3, <1>4 DEF CacheRead
    <2>2. h' = [h EXCEPT ![p] = rec]
      BY <1>3, <1>4, <2>1 DEF CacheRead
    <2> HIDE DEF rec
    <2>5. /\ rec \in HandlerRows
          /\ rec.pc = "store" /\ rec.snap = ApiUsers /\ rec.u = h[p].u /\ rec.op = h[p].op
      BY <1>3, <2>1 DEF HandlerRows, Pcs
    <2>3. Busy(p) /\ h[p].pc # "logout"
      BY <1>4 DEF CacheRead, At, Busy
    <2>4. HandlerFits(rec, users) /\ Fills(rec)
      BY <1>3, <2>5 DEF HandlerFits, Fills
    <2> QED BY <1>1, <1>2, <2>2, <2>3, <2>4, <2>5, MoveStep
  <1>5. CASE SetupRoleNext(p)
    <2>1. rec = [h[p] EXCEPT !.pc = "role", !.link = roleSeq] /\ roleSeq \in Nat
      BY <1>3, <1>5 DEF SetupRoleNext, CoreInv, TypeInv, CountsInv
    <2>2. /\ h' = [h EXCEPT ![p] = rec] /\ rec \in HandlerRows
          /\ rec.pc = "role" /\ rec.u = h[p].u /\ rec.op = h[p].op
      BY <1>3, <1>5, <2>1 DEF SetupRoleNext, HandlerRows, Pcs
    <2>3. Busy(p) /\ h[p].pc = "rolenext"
      BY <1>5 DEF SetupRoleNext, At, Busy
    <2> HIDE DEF rec
    <2>4. HandlerFits(rec, users) /\ ~Fills(h[p])
      BY <1>3, <2>2, <2>3 DEF HandlerFits, Fills
    <2> QED BY <1>1, <1>2, <2>2, <2>3, <2>4, MoveStep
  <1>6. CASE TwofaVerified(p)
    <2>1. rec = [h[p] EXCEPT !.pc = "new"]
      BY <1>3, <1>6 DEF TwofaVerified, Goto
    <2>2. /\ h' = [h EXCEPT ![p] = rec] /\ rec \in HandlerRows
          /\ rec.pc = "new" /\ rec.u = h[p].u /\ rec.op = h[p].op
      BY <1>3, <1>6, <2>1 DEF TwofaVerified, Goto, HandlerRows, Pcs
    <2>3. Busy(p) /\ h[p].pc = "verified"
      BY <1>6 DEF TwofaVerified, At, Busy
    <2> HIDE DEF rec
    <2>4. HandlerFits(rec, users) /\ ~Fills(h[p])
      BY <1>3, <2>2, <2>3 DEF HandlerFits, Fills
    <2> QED BY <1>1, <1>2, <2>2, <2>3, <2>4, MoveStep
  <1>7. CASE ResetAccount(p)
    <2>1. \/ rec = [h[p] EXCEPT !.pc = "profile", !.ok = TRUE, !.new = TRUE]
          \/ rec = NoHandler
      BY <1>3, <1>7 DEF ResetAccount
    <2>2. /\ h' = [h EXCEPT ![p] = rec] /\ rec \in HandlerRows
          /\ \/ rec.pc = "profile" /\ rec.u = h[p].u /\ rec.op = h[p].op /\ rec.link = h[p].link
             \/ rec.pc = "idle" /\ rec.op = "none"
      BY <1>3, <1>7, <2>1, Empties DEF ResetAccount, HandlerRows, Pcs, NoHandler
    <2>3. Busy(p) /\ h[p].pc = "account"
      BY <1>7 DEF ResetAccount, At, Busy
    <2> HIDE DEF rec
    <2>4. HandlerFits(rec, users) /\ ~Fills(h[p])
      BY <1>3, <2>2, <2>3 DEF HandlerFits, Fills
    <2> QED BY <1>1, <1>2, <2>2, <2>3, <2>4, MoveStep
  <1> QED BY <1>4, <1>5, <1>6, <1>7

-----------------------------------------------------------------------------
(* Requests of one statement *)

\* A token that is set lives until it is used up or its time runs out.
LEMMA TokenSet ==
  ASSUME TokensInv, NEW id \in TokenIds, NEW data \in Users \cup (1..link'),
         link' \in link..Links, tokens' = Set(id, data),
         data \in IF id \in Twofa THEN Users ELSE 1..link'
  PROVE  /\ TokensInv'
         /\ tokens'[id].data = data
         /\ \A other \in TokenIds : other # id => tokens'[other] = tokens[other]
  <1> USE LoginsAssumption
  <1> DEFINE token == [data |-> data, count |-> 0, expired |-> FALSE]
  <1>1. 1..link' \subseteq 1..Links /\ 1..link \subseteq 1..link' /\ link' \in 0..Links
    BY DEF TokensInv
  <1>2. token \in TokenRows /\ token.data = data
    BY <1>1 DEF TokenRows
  <1>3. tokens \in [TokenIds -> TokenRows] /\ tokens' = [tokens EXCEPT ![id] = token]
    BY DEF TokensInv, Set
  <1> HIDE DEF token
  <1>4. tokens' \in [TokenIds -> TokenRows]
    BY <1>2, <1>3
  <1>5. ASSUME NEW other \in TokenIds, tokens'[other] # NoToken, ~tokens'[other].expired
        PROVE  tokens'[other].data \in IF other \in Twofa THEN Users ELSE 1..link'
    <2>1. CASE other = id
      BY <1>2, <1>3, <2>1
    <2>2. CASE other # id
      BY <1>1, <1>3, <1>5, <2>2 DEF TokensInv, Live
    <2> QED BY <2>1, <2>2
  <1> QED BY <1>1, <1>2, <1>3, <1>4, <1>5 DEF TokensInv, Live

\* A second-factor token is of no link.
LEMMA LoginSecondCore ==
  ASSUME CoreInv, NEW u \in Users, NEW t \in Twofa, Logins(LoginSecond(u, t))
  PROVE  CoreInv'
  <1> USE DEF Logins, LoginSecond, accountVars
  <1>1. TokensInv' /\ \A other \in TokenIds : other # t => tokens'[other] = tokens[other]
    <2>1. TokensInv /\ link' \in link..Links /\ t \in TokenIds /\ tokens' = Set(t, u)
      BY LoginsAssumption DEF CoreInv, TypeInv, TokensInv, Twofa
    <2> QED BY <2>1, TokenSet
  <1>2. RowsInv' /\ SessionsInv' /\ LoggedOutByPassword'
    BY DEF CoreInv, TypeInv, RowsInv, SessionsInv, There, IsRole, SuperExists, LoggedOutByPassword, At
  <1>3. ResetInv'
    <2>1. \A v \in Users : v \in TokenIds /\ v # t
      BY LoginsAssumption DEF Twofa
    <2>2. \A v \in Users : tokens'[v] = tokens[v]
      BY <1>1, <2>1
    <2>3. \A v \in Users, l \in 1..Links : Mailed(v, l)' <=> Mailed(v, l)
      BY <2>2 DEF Mailed
    <2>4. \A p \in Procs, l \in 1..Links : Holds(p, l)' <=> Holds(p, l)
      BY DEF Holds
    <2> QED BY <2>3, <2>4 DEF CoreInv, ResetInv
  <1>4. Supers' = Supers /\ ApiUsers' = ApiUsers /\ resets' \in [1..Links -> Nat]
    BY DEF Supers, There, ApiUsers, IsApi, RolePerms, CoreInv, TypeInv, CountsInv
  <1> QED BY <1>1, <1>2, <1>3, <1>4, StillStep

\* A new link has set no password, and no handler or other token has its number.
LEMMA ForgotPasswordCore ==
  ASSUME CoreInv, NEW u \in Users, Logins(ForgotPassword(u))
  PROVE  CoreInv'
  <1> USE DEF Logins, ForgotPassword, accountVars
  <1>1. link \in 0..Links /\ link < Links /\ link' = link + 1 /\ resets \in [1..Links -> Nat]
    BY DEF CoreInv, TypeInv, TokensInv, CountsInv
  <1>2. /\ TokensInv' /\ tokens'[u].data = link'
        /\ \A other \in TokenIds : other # u => tokens'[other] = tokens[other]
    <2>1. link' \in link..Links /\ link' \in 1..link' /\ u \in TokenIds /\ u \notin Twofa
      BY <1>1, LoginsAssumption DEF Twofa
    <2>2. tokens' = Set(u, link') /\ TokensInv
      BY <1>1 DEF CoreInv, TypeInv
    <2> QED BY <2>1, <2>2, TokenSet
  <1>3. RowsInv' /\ SessionsInv' /\ LoggedOutByPassword'
    BY DEF CoreInv, TypeInv, RowsInv, SessionsInv, There, IsRole, SuperExists, LoggedOutByPassword, At
  <1>4. ResetInv'
    <2>1. ASSUME NEW v \in Users, NEW l \in 1..Links, Mailed(v, l)'
          PROVE  \/ v = u /\ l = link'
                 \/ v # u /\ Mailed(v, l)
      BY <1>2, <2>1, LoginsAssumption DEF Mailed
    <2>2. \A p \in Procs, l \in 1..Links : Holds(p, l)' <=> Holds(p, l)
      BY DEF Holds
    <2>3. \A l \in 1..Links : l <= link => l <= link' /\ l # link'
      BY <1>1, LoginsAssumption
    <2>4. \A l \in 1..Links : resets[l] = 0 \/ l <= link
      BY <1>1 DEF CoreInv, ResetInv
    <2>5. link' \in 1..Links => resets[link'] = 0 /\ link' <= link'
      BY <1>1, <2>3, <2>4
    <2>6. \A p \in Procs, l \in 1..Links : Holds(p, l) => l # link'
      BY <2>3 DEF CoreInv, ResetInv
    <2>7. \A v \in Users, l \in 1..Links : Mailed(v, l) => l # link'
      BY <2>3 DEF CoreInv, ResetInv
    <2>8. \A v \in Users, l \in 1..Links : Mailed(v, l)' =>
            l <= link' /\ resets'[l] = 0 /\ \A p \in Procs : ~Holds(p, l)'
      BY <2>1, <2>2, <2>3, <2>5, <2>6 DEF CoreInv, ResetInv
    <2>9. \A v, w \in Users, l \in 1..Links : Mailed(v, l)' /\ Mailed(w, l)' => v = w
      BY <2>1, <2>7 DEF CoreInv, ResetInv
    <2> QED BY <2>2, <2>3, <2>8, <2>9 DEF CoreInv, ResetInv
  <1>5. Supers' = Supers /\ ApiUsers' = ApiUsers /\ resets' \in [1..Links -> Nat]
    BY DEF Supers, There, ApiUsers, IsApi, RolePerms, CoreInv, TypeInv, CountsInv
  <1> QED BY <1>2, <1>3, <1>4, <1>5, StillStep

\* The tokens age.
LEMMA TokensAgeCore ==
  ASSUME CoreInv, Logins(TokensAge)
  PROVE  CoreInv'
  <1> USE DEF Logins, TokensAge, accountVars
  <1>1. Unmoved /\ UNCHANGED <<h, overlapped, roleSeq>>
    BY DEF Unmoved
  <1>2. Fewer
    BY TokensFewer DEF Age, CoreInv, TypeInv
  <1> QED BY <1>1, <1>2, TokensStep

\* ResetInv of a step that leaves tokens, links and handlers alone.
LEMMA ResetStill ==
  ASSUME ResetInv, UNCHANGED <<h, tokens, link, resets>>
  PROVE  ResetInv'
  BY DEF ResetInv, Holds, Mailed

\* A session that ends is of nobody.
LEMMA LogoutCore ==
  ASSUME CoreInv, NEW s \in Sids, Logins(Logout(s))
  PROVE  CoreInv'
  <1> USE DEF Logins, Logout, loginVars, Keep, Rest
  <1>1. RowsInv' /\ TokensInv'
    BY DEF CoreInv, TypeInv, RowsInv, There, IsRole, SuperExists, TokensInv, Live
  <1>2. /\ sessions' = [sessions EXCEPT ![s] = NoSession] /\ NoSession.user = NoUser
        /\ sessions \in [Sids -> [user : Users \cup {NoUser}, at : 0..Passwords]]
    BY DEF NoSession, CoreInv, TypeInv, SessionsInv
  <1>3. SessionsInv'
    BY <1>2, Empties DEF CoreInv, TypeInv, SessionsInv
  <1>4. LoggedOutByPassword'
    BY <1>2 DEF CoreInv, LoggedOutByPassword, At, There
  <1>5. ResetInv'
    BY ResetStill DEF CoreInv
  <1>6. Supers' = Supers /\ ApiUsers' = ApiUsers /\ resets' \in [1..Links -> Nat]
    BY DEF Supers, There, ApiUsers, IsApi, RolePerms, CoreInv, TypeInv, CountsInv
  <1> QED BY <1>1, <1>3, <1>4, <1>5, <1>6, StillStep

\* A second factor is neither a password nor a role.
LEMMA SetTOTPCore ==
  ASSUME CoreInv, NEW s \in Sids, NEW u \in Users, NEW on \in BOOLEAN, Logins(SetTOTP(s, u, on))
  PROVE  CoreInv'
  <1> USE DEF Logins, SetTOTP, loginVars, Keep, Rest
  <1> DEFINE row == [users[u] EXCEPT !.twofa = on]
  <1>1. /\ row \in UserRows /\ users[u].state = "live"
        /\ row.state = users[u].state /\ row.type = users[u].type /\ row.status = users[u].status
        /\ row.role = users[u].role /\ row.list = users[u].list /\ row.pw = users[u].pw
    BY DEF CoreInv, TypeInv, RowsInv, UserRows, Signed, There
  <1>2. users' = [users EXCEPT ![u] = row] /\ users \in [Users -> UserRows]
    BY DEF CoreInv, TypeInv, RowsInv
  <1> HIDE DEF row
  <1>3. RowsInv'
    <2>1. RowsInv /\ IsRole(row.role, "user") /\ (row.list = NoRole \/ roles[row.list].there)
      BY <1>1 DEF CoreInv, TypeInv, RowsInv, There
    <2> QED BY <1>1, <1>2, <2>1, RowWritten
  <1>4. /\ \A v : users[v].state = users'[v].state /\ users[v].pw = users'[v].pw
        /\ \A v : users[v].type = users'[v].type /\ users[v].status = users'[v].status
        /\ \A v : users[v].role = users'[v].role
    BY <1>1, <1>2
  <1>5. SessionsInv' /\ LoggedOutByPassword' /\ TokensInv'
    <2>1. SessionsInv'
      BY <1>4, SessionsKept DEF CoreInv, TypeInv
    <2>2. TokensInv'
      BY DEF CoreInv, TypeInv, TokensInv, Live
    <2>3. LoggedOutByPassword'
      BY <1>4 DEF CoreInv, LoggedOutByPassword, There, At
    <2> QED BY <2>1, <2>2, <2>3
  <1>6. ResetInv'
    BY ResetStill DEF CoreInv
  <1>7. Supers' = Supers /\ resets' \in [1..Links -> Nat]
    BY <1>4 DEF Supers, There, CoreInv, TypeInv, CountsInv
  <1>8. \A v \in Users : ApiUsers'[v] = ApiUsers[v]
    BY <1>4, ApiSame
  <1> QED BY <1>3, <1>4, <1>5, <1>6, <1>7, <1>8, StillStep

\* A role that is not there is of no user, so nobody gets a new role's permissions.
LEMMA CreateRoleCore ==
  ASSUME CoreInv, NEW r \in Roles, NEW kind \in {"user", "list"}, Accounts(CreateRole(r, kind))
  PROVE  CoreInv'
  <1> USE DEF Accounts, CreateRole, loginVars
  <1>1. /\ roles' = [roles EXCEPT ![r] = [there |-> TRUE, kind |-> kind, perms |-> 0]]
        /\ roles \in [Roles -> RoleRows] /\ roles' \in [Roles -> RoleRows]
    BY DEF CoreInv, TypeInv, RowsInv, RoleRows
  <1>2. ASSUME NEW u \in Users, There(u)
        PROVE  /\ users[u].role # r /\ users[u].list # r
               /\ IsRole(users[u].role, "user")' /\ RolePerms(users[u].role)' = RolePerms(users[u].role)
               /\ users[u].list = NoRole \/ roles'[users[u].list].there
    <2>1. IsRole(users[u].role, "user") /\ (users[u].list = NoRole \/ roles[users[u].list].there)
      BY <1>2 DEF CoreInv, TypeInv, RowsInv
    <2>2. users[u].role # r
      BY <2>1, AccountsAssumption DEF IsRole
    <2>3. users[u].list = NoRole \/ users[u].list # r
      BY <2>1
    <2>4. users[u].list = NoRole => users[u].list # r
      BY AccountsAssumption
    <2> QED BY <1>1, <2>1, <2>2, <2>3, <2>4 DEF IsRole, SuperExists, RolePerms
  <1>3. RowsInv'
    BY <1>1, <1>2 DEF CoreInv, TypeInv, RowsInv, There, IsRole, SuperExists
  <1>4. \A u \in Users : ApiUsers'[u] = ApiUsers[u]
    BY <1>2 DEF ApiUsers, IsApi, There, RolePerms
  <1>5. SessionsInv' /\ TokensInv' /\ LoggedOutByPassword'
    BY DEF CoreInv, TypeInv, SessionsInv, TokensInv, Live, LoggedOutByPassword, There, At
  <1>6. ResetInv'
    BY ResetStill DEF CoreInv
  <1>7. Supers' = Supers /\ resets' \in [1..Links -> Nat]
    BY DEF Supers, There, CoreInv, TypeInv, CountsInv
  <1> QED BY <1>3, <1>4, <1>5, <1>6, <1>7, StillStep

-----------------------------------------------------------------------------
(* Handlers that write *)

\* Unless handlers overlap, only p is at work when it takes a step.
Sole(p) == ~overlapped' => ~overlapped /\ \A q \in Procs : Busy(q) => q = p

\* That is so of a request that comes, and of a handler at work.
LEMMA SoleStep ==
  ASSUME CoreInv, NEW p \in Procs,
         (\E rec : Start(p, rec)) \/ (Busy(p) /\ UNCHANGED overlapped)
  PROVE  Sole(p)
  <1>1. overlapped \in BOOLEAN
    BY DEF CoreInv, TypeInv, CountsInv
  <1> QED BY <1>1 DEF Sole, Start, CoreInv, CacheInv, Alone

\* The cache was current if the only handler at work has not to fill it.
LEMMA WasCurrent ==
  ASSUME CoreInv, NEW p \in Procs, Sole(p), ~overlapped', ~Fills(h[p])
  PROVE  Fresh
  <1>1. \A q \in Procs : ~Fills(h[q])
    BY DEF Sole, Fills, Busy
  <1> QED BY <1>1 DEF Sole, CoreInv, CacheInv

\* A handler writes rows: what is left to show of such a step.
LEMMA WriteStep ==
  ASSUME CoreInv, NEW p \in Procs, NEW rec \in HandlerRows, h' = [h EXCEPT ![p] = rec], Sole(p),
         RowsInv', SessionsInv', TokensInv', CountsInv', ResetInv', LoggedOutByPassword',
         HandlerFits(rec, users'), rec.pc \notin {"write", "store"},
         \A u \in Users : users[u].state # "unused" => users'[u].state # "unused",
         ~overlapped' => Fills(rec) \/ Fresh'
  PROVE  CoreInv'
  <1>1. h \in [Procs -> HandlerRows] /\ HandlersInv /\ CacheInv
    BY DEF CoreInv, TypeInv, HandlersInv
  <1>2. HandlersInv'
    BY <1>1, HandlerSteps
  <1>3. CacheInv'
    BY <1>1, CacheKept DEF Sole
  <1>4. SupersInv'
    <2>1. Promised(rec, Supers')
      BY DEF Promised
    <2> QED BY <1>1, <2>1, SupersKept DEF Sole
  <1> QED BY <1>2, <1>3, <1>4 DEF CoreInv, TypeInv

\* No step but those of a link and of passwords concerns the links.
LEMMA LinksAlone ==
  ASSUME CoreInv, UNCHANGED loginVars, NEW p \in Procs, NEW rec,
         h' = [h EXCEPT ![p] = rec], rec.pc \notin {"account", "profile"}
  PROVE  TokensInv' /\ ResetInv'
  <1>1. TokensInv /\ ResetInv /\ h \in [Procs -> HandlerRows] /\ UNCHANGED <<tokens, link, resets>>
    BY DEF CoreInv, TypeInv, HandlersInv, loginVars
  <1>2. Fewer
    BY <1>1, TokensFewer
  <1> QED BY <1>1, <1>2, TokensKept, ResetKept

\* A handler that ends, or goes on at pc, keeps its user.
LEMMA GotoStep ==
  ASSUME CoreInv, NEW p \in Procs, NEW pc \in Pcs \ {"write", "store", "account", "profile"},
         Goto(p, pc)
  PROVE  \E rec \in HandlerRows :
           /\ h' = [h EXCEPT ![p] = rec] /\ rec.pc = pc
           /\ pc # "idle" => rec.u = h[p].u /\ rec.op = h[p].op /\ rec.row = h[p].row
           /\ pc = "idle" => rec = NoHandler
  <1>1. h \in [Procs -> HandlerRows]
    BY DEF CoreInv, TypeInv, HandlersInv
  <1>2. CASE pc = "idle"
    BY <1>1, <1>2, Empties DEF Goto, NoHandler
  <1>3. CASE pc # "idle"
    <2> DEFINE rec == [h[p] EXCEPT !.pc = pc]
    <2>1. h' = [h EXCEPT ![p] = rec]
      BY <1>3 DEF Goto
    <2>2. rec \in HandlerRows /\ rec.pc = pc /\ rec.u = h[p].u /\ rec.op = h[p].op /\ rec.row = h[p].row
      BY <1>1 DEF HandlerRows
    <2> HIDE DEF rec
    <2> QED BY <1>3, <2>1, <2>2
  <1> QED BY <1>2, <1>3

\* A new user has a role of its kind, and no session yet.
LEMMA CreateUserCore ==
  ASSUME CoreInv, NEW p \in Procs, NEW u \in Users, NEW row \in UserRows,
         Accounts(CreateUser(p, u, row))
  PROVE  CoreInv'
  <1> USE DEF Accounts, CreateUser
  <1> DEFINE rec == [NoHandler EXCEPT !.pc = "cache", !.op = "create", !.u = u]
             new == [row EXCEPT !.state = "live", !.list = IF IsRole(@, "list") THEN @ ELSE NoRole,
                       !.login = row.type = "user" /\ @,
                       !.pw = IF row.type = "api" \/ row.login THEN version + 1 ELSE 0]
  <1>1. /\ Start(p, rec) /\ h' = [h EXCEPT ![p] = rec] /\ h[p].pc = "idle"
        /\ users' = [users EXCEPT ![u] = new] /\ users[u].state = "unused"
        /\ h \in [Procs -> HandlerRows] /\ users \in [Users -> UserRows]
    BY DEF Start, Busy, CoreInv, TypeInv, HandlersInv, RowsInv
  <1>2. rec \in HandlerRows /\ rec.pc = "cache" /\ rec.u = u /\ rec.op = "create"
    BY Empties DEF HandlerRows, Pcs, Ops
  <1>3. new \in UserRows /\ new.state = "live" /\ new.role = row.role
        /\ (new.list = NoRole \/ roles[new.list].there)
    <2>1. version + 1 \in 0..Passwords /\ 0 \in 0..Passwords
      BY AccountsAssumption DEF CoreInv, TypeInv, CountsInv
    <2>2. IsRole(row.list, "list") => roles[row.list].there
      BY DEF IsRole
    <2> QED BY <2>1, <2>2 DEF UserRows
  <1>4. Sole(p)
    BY <1>1, SoleStep
  <1> HIDE DEF rec, new
  <1>5. RowsInv'
    <2>1. RowsInv /\ IsRole(new.role, "user")
      BY <1>3 DEF CoreInv, TypeInv
    <2> QED BY <1>1, <1>3, <2>1, RowWritten
  <1>6. \A v \in Users : users[v].state # "unused" => users'[v].state # "unused"
    BY <1>1, <1>3
  <1>7. SessionsInv'
    BY <1>6, SessionsKept DEF CoreInv, TypeInv
  <1>8. CountsInv'
    <2>1. version' \in 0..Passwords
      BY AccountsAssumption DEF CoreInv, TypeInv, CountsInv
    <2>2. overlapped' \in BOOLEAN
      BY <1>1 DEF Start, CoreInv, TypeInv, CountsInv
    <2> QED BY <2>1, <2>2 DEF CoreInv, TypeInv, CountsInv, loginVars
  <1>9. TokensInv' /\ ResetInv'
    BY <1>1, <1>2, LinksAlone
  <1>10. LoggedOutByPassword'
    <2>1. PasswordsKept(rec)
      BY <1>1 DEF PasswordsKept
    <2> QED BY <1>1, <2>1, LoggedKept DEF CoreInv, TypeInv
  <1>11. HandlerFits(rec, users') /\ Fills(rec)
    BY <1>2 DEF HandlerFits, Fills
  <1> QED BY <1>1, <1>2, <1>4, <1>5, <1>6, <1>7, <1>8, <1>9, <1>10, <1>11, WriteStep

\* What update-user leaves of a row: a role of its kind, and the password it had, a new
\* one or none.
LEMMA WrittenRow ==
  ASSUME RowsInv, version \in 0..Passwords, NEW u \in Users, There(u), NEW row \in UserRows,
         NEW new \in BOOLEAN, new => version < Passwords,
         row.role = NoRole \/ IsRole(row.role, "user")
  PROVE  LET w == Written(users[u], row, new) IN
         /\ w \in UserRows /\ w.state = "live" /\ w.type = row.type /\ w.status = row.status
         /\ w.role = (IF row.role = NoRole THEN users[u].role ELSE row.role)
         /\ IsRole(w.role, "user") /\ (w.list = NoRole \/ roles[w.list].there)
         /\ new \/ w.pw = users[u].pw \/ w.pw = 0
  <1> DEFINE w == Written(users[u], row, new)
             pw == IF users[u].type = "api" /\ row.type = "api" THEN users[u].pw
                   ELSE NewPassword(users[u].pw, row.login, new)
             list == IF IsRole(row.list, "list") THEN row.list ELSE NoRole
             role == IF row.role = NoRole THEN users[u].role ELSE row.role
  <1>1. /\ users[u] \in UserRows /\ users[u].state = "live" /\ IsRole(users[u].role, "user")
        /\ users[u].pw \in 0..Passwords
    BY DEF RowsInv, UserRows, There
  <1>2. pw \in 0..Passwords /\ (new \/ pw = users[u].pw \/ pw = 0)
    <2>1. 0 \in 0..Passwords /\ (new => version + 1 \in 0..Passwords)
      BY AccountsAssumption
    <2> QED BY <1>1, <2>1 DEF NewPassword
  <1>3. list \in Roles \cup {NoRole} /\ (list = NoRole \/ roles[list].there)
    BY DEF IsRole, UserRows
  <1>4. IsRole(role, "user") /\ role \in Roles \cup {Super, NoRole}
    BY <1>1 DEF UserRows
  <1>5. w = [users[u] EXCEPT !.login = row.login, !.pw = pw, !.type = row.type,
                             !.status = row.status, !.role = role, !.list = list]
    BY <1>1 DEF Written, UserRows
  <1> HIDE DEF pw, list, role, w
  <1>6. /\ w \in UserRows /\ w.state = "live" /\ w.type = row.type /\ w.status = row.status
        /\ w.role = role /\ w.list = list /\ w.pw = pw
    BY <1>1, <1>2, <1>3, <1>4, <1>5 DEF UserRows
  <1> QED BY <1>2, <1>3, <1>4, <1>6 DEF w, role

\* update-user: a new password is followed by the deletion of sessions, any change by
\* the cache.
LEMMA UpdateWriteCore ==
  ASSUME CoreInv, NEW p \in Procs, Accounts(UpdateWrite(p))
  PROVE  CoreInv'
  <1> USE DEF Accounts, UpdateWrite, Rest
  <1> DEFINE u == h[p].u
             row == h[p].row
             new == h[p].new
             fits == There(u) /\ h[p].ok /\ (row.role = NoRole \/ IsRole(row.role, "user"))
             pc == IF ~fits THEN "idle" ELSE IF new THEN "logout" ELSE "cache"
             w == Written(users[u], row, new)
  <1>1. /\ h \in [Procs -> HandlerRows] /\ h[p].pc = "write" /\ h[p].op = "update"
        /\ u \in Users /\ row \in UserRows /\ new \in BOOLEAN
        /\ RowsInv /\ version \in 0..Passwords /\ (new => version < Passwords)
        /\ users \in [Users -> UserRows]
    BY DEF CoreInv, TypeInv, RowsInv, HandlersInv, HandlerFits, HandlerRows, CountsInv, At,
           CountPassword
  <1>2. PICK rec \in HandlerRows :
          /\ h' = [h EXCEPT ![p] = rec] /\ rec.pc = pc
          /\ pc # "idle" => rec.u = u /\ rec.op = "update"
          /\ pc = "idle" => rec = NoHandler
    <2>1. pc \in Pcs \ {"write", "store", "account", "profile"} /\ Goto(p, pc)
      BY DEF Pcs
    <2> HIDE DEF pc
    <2> QED BY <1>1, <2>1, GotoStep
  <1>3. Sole(p) /\ ~Fills(h[p])
    BY <1>1, SoleStep DEF Busy, Fills
  <1>4. \/ ~fits /\ users' = users /\ pc = "idle"
        \/ /\ fits /\ users' = [users EXCEPT ![u] = w]
           /\ pc = IF new THEN "logout" ELSE "cache"
    OBVIOUS
  <1>5. fits => /\ w \in UserRows /\ w.state = "live" /\ users[u].state = "live"
                /\ IsRole(w.role, "user") /\ (w.list = NoRole \/ roles[w.list].there)
                /\ new \/ w.pw = users[u].pw \/ w.pw = 0
    BY <1>1, WrittenRow DEF There
  <1>6. UNCHANGED <<loginVars, roles, superRole, sessions, failed, apiCache, overlapped>>
    OBVIOUS
  <1>7. CountsInv'
    <2>1. version' \in 0..Passwords
      BY <1>1, AccountsAssumption DEF CountPassword
    <2> QED BY <2>1 DEF CoreInv, TypeInv, CountsInv, loginVars
  <1> HIDE DEF fits, w, pc, Accounts, UpdateWrite, Rest
  <1>8. RowsInv'
    <2>1. CASE users' = users
      BY <1>1, <1>6, <2>1 DEF RowsInv, There, IsRole, SuperExists
    <2>2. CASE users' = [users EXCEPT ![u] = w] /\ fits
      BY <1>1, <1>5, <1>6, <2>2, RowWritten
    <2> QED BY <1>4, <2>1, <2>2
  <1>9. \A v \in Users : users[v].state # "unused" => users'[v].state # "unused"
    BY <1>1, <1>4, <1>5
  <1>10. SessionsInv'
    BY <1>6, <1>9, SessionsKept DEF CoreInv, TypeInv
  <1>11. rec.pc \notin {"account", "profile", "write", "store"}
    BY <1>2, <1>4
  <1>12. TokensInv' /\ ResetInv'
    BY <1>2, <1>6, <1>11, LinksAlone
  <1>13. LoggedOutByPassword'
    <2>1. PasswordsKept(rec)
      BY <1>1, <1>2, <1>4, <1>5 DEF PasswordsKept
    <2> QED BY <1>1, <1>2, <1>6, <2>1, LoggedKept DEF CoreInv, TypeInv
  <1>14. HandlerFits(rec, users')
    <2>1. CASE pc = "idle"
      BY <1>2, <2>1 DEF HandlerFits, NoHandler
    <2>2. CASE pc # "idle"
      BY <1>1, <1>2, <1>4, <1>5, <2>2 DEF HandlerFits
    <2> QED BY <2>1, <2>2
  <1>15. ~overlapped' => Fills(rec) \/ Fresh'
    <2>1. CASE pc = "idle"
      <3>1. users' = users
        BY <1>4, <2>1
      <3>2. ApiUsers' = ApiUsers
        BY <1>6, <3>1 DEF ApiUsers, IsApi, There, RolePerms
      <3>3. ~overlapped' => Fresh
        BY <1>3, WasCurrent
      <3> QED BY <1>6, <3>2, <3>3 DEF Fresh, Current
    <2>2. CASE pc # "idle"
      BY <1>2, <1>4, <2>2 DEF Fills
    <2> QED BY <2>1, <2>2
  <1> QED BY <1>2, <1>3, <1>7, <1>8, <1>9, <1>10, <1>11, <1>12, <1>13, <1>14, <1>15, WriteStep

\* Rows that are removed are of no user, and never unused again.
LEMMA RemovedRows ==
  ASSUME NEW gone \in SUBSET Users, users' = Removed(gone)
  PROVE  /\ \A u \in Users : users[u].state # "unused" => users'[u].state # "unused"
         /\ \A u \in Users : u \notin gone => users'[u] = users[u]
         /\ \A u \in gone : users'[u].state = "deleted"
         /\ \A rec : PasswordsKept(rec)
  BY DEF Removed, Unused, PasswordsKept

\* delete-users.
LEMMA DeleteWriteCore ==
  ASSUME CoreInv, NEW p \in Procs, Accounts(DeleteWrite(p))
  PROVE  CoreInv'
  <1> USE DEF Accounts, DeleteWrite, Rest
  <1> DEFINE gone == IF h[p].ok THEN {u \in h[p].snap : There(u)} ELSE {}
             pc == IF gone = {} THEN "idle" ELSE "cache"
  <1>1. /\ h \in [Procs -> HandlerRows] /\ h[p].pc = "write" /\ h[p].op = "delete"
        /\ RowsInv /\ users \in [Users -> UserRows] /\ users' = Removed(gone)
    BY DEF CoreInv, TypeInv, RowsInv, HandlersInv, At
  <1>2. PICK rec \in HandlerRows :
          /\ h' = [h EXCEPT ![p] = rec] /\ rec.pc = pc
          /\ pc # "idle" => rec.u = h[p].u /\ rec.op = "delete"
          /\ pc = "idle" => rec = NoHandler
    <2>1. pc \in Pcs \ {"write", "store", "account", "profile"} /\ Goto(p, pc)
      BY DEF Pcs
    <2> HIDE DEF pc
    <2> QED BY <1>1, <2>1, GotoStep
  <1>3. Sole(p) /\ ~Fills(h[p])
    BY <1>1, SoleStep DEF Busy, Fills
  <1>4. gone \in SUBSET Users
    BY <1>1 DEF CoreInv, TypeInv, HandlersInv, HandlerFits
  <1>5. UNCHANGED <<loginVars, roles, superRole, sessions, failed, apiCache, overlapped, version>>
    OBVIOUS
  <1>6. CountsInv'
    BY DEF CoreInv, TypeInv, CountsInv, loginVars
  <1> HIDE DEF gone, Accounts, DeleteWrite, Rest
  <1>7. RowsInv'
    BY <1>1, <1>4, <1>5, RowsRemoved
  <1>8. SessionsInv'
    BY <1>1, <1>4, <1>5, RemovedRows, SessionsKept DEF CoreInv, TypeInv
  <1>9. rec.pc \notin {"account", "profile", "write", "store", "verified", "new", "flag", "logout"}
    BY <1>2
  <1>10. TokensInv' /\ ResetInv'
    BY <1>2, <1>5, <1>9, LinksAlone
  <1>11. LoggedOutByPassword'
    BY <1>1, <1>2, <1>4, <1>5, RemovedRows, LoggedKept DEF CoreInv, TypeInv
  <1>12. HandlerFits(rec, users')
    <2>1. rec.op = "update" => rec.u \in Users
      BY <1>2 DEF NoHandler
    <2> QED BY <1>2, <1>9, <2>1 DEF HandlerFits
  <1>13. ~overlapped' => Fills(rec) \/ Fresh'
    <2>1. CASE gone = {}
      <3>1. \A u \in Users : users'[u] = users[u]
        BY <1>1, <2>1, RemovedRows
      <3>2. \A u \in Users : ApiUsers'[u] = ApiUsers[u]
        BY <1>5, <3>1, ApiSame
      <3>3. ~overlapped' => Fresh
        BY <1>3, WasCurrent
      <3> QED BY <1>5, <3>2, <3>3 DEF Fresh, Current
    <2>2. CASE gone # {}
      BY <1>2, <2>2 DEF Fills
    <2> QED BY <2>1, <2>2
  <1> QED BY <1>1, <1>2, <1>3, <1>4, <1>6, <1>7, <1>8, <1>9, <1>10, <1>11, <1>12, <1>13,
             RemovedRows, WriteStep

\* Roles that are there, spelled out for the rows after a step.
RoleThere(u) ==
  /\ \/ users'[u].role = Super /\ superRole' = 1
     \/ /\ users'[u].role \in Roles
        /\ roles'[users'[u].role].there /\ roles'[users'[u].role].kind = "user"
  /\ users'[u].list = NoRole \/ roles'[users'[u].list].there

\* Rows whose users have roles that are there.
LEMMA RolesThere ==
  ASSUME users' \in [Users -> UserRows], roles' \in [Roles -> RoleRows], superRole' \in Nat,
         \A u \in Users : users'[u].state = "live" => RoleThere(u)
  PROVE  RowsInv'
  BY DEF RowsInv, RoleThere, There, IsRole, SuperExists

\* A role with new permissions is the same role.
LEMMA UpdateRoleCore ==
  ASSUME CoreInv, NEW p \in Procs, NEW r \in Roles, Accounts(UpdateRole(p, r))
  PROVE  CoreInv'
  <1> USE DEF Accounts, UpdateRole, AfterRoleChange
  <1> DEFINE rec == [NoHandler EXCEPT !.pc = "cache", !.op = "role"]
             role == [roles[r] EXCEPT !.perms = 1 - @]
  <1>1. /\ Start(p, rec) /\ h' = [h EXCEPT ![p] = rec] /\ h[p].pc = "idle"
        /\ h \in [Procs -> HandlerRows] /\ roles \in [Roles -> RoleRows]
        /\ roles' = [roles EXCEPT ![r] = role]
    BY DEF Start, Busy, CoreInv, TypeInv, HandlersInv, RowsInv
  <1>2. rec \in HandlerRows /\ rec.pc = "cache" /\ rec.op = "role"
    BY Empties DEF HandlerRows, Pcs, Ops
  <1>3. role \in RoleRows /\ role.there = roles[r].there /\ role.kind = roles[r].kind
    <2>1. roles[r].perms \in {0, 1}
      BY <1>1 DEF RoleRows
    <2>2. 1 - roles[r].perms \in {0, 1}
      BY <2>1
    <2> QED BY <1>1, <2>2 DEF RoleRows
  <1>4. Sole(p)
    BY <1>1, SoleStep
  <1>5. UNCHANGED <<users, superRole, loginVars, sessions, failed>>
    OBVIOUS
  <1> HIDE DEF rec, role
  <1>6. CountsInv'
    <2>1. overlapped' \in BOOLEAN
      BY <1>1 DEF Start, CoreInv, TypeInv, CountsInv
    <2> QED BY <2>1 DEF CoreInv, TypeInv, CountsInv, loginVars
  <1> HIDE DEF Accounts, UpdateRole
  <1>7. RowsInv'
    <2>1. \A s \in Roles : roles'[s].there = roles[s].there /\ roles'[s].kind = roles[s].kind
      BY <1>1, <1>3
    <2>3. \A u \in Users : users[u].list \in Roles \cup {NoRole}
      BY DEF CoreInv, TypeInv, RowsInv, UserRows
    <2>4. roles' \in [Roles -> RoleRows]
      BY <1>1, <1>3
    <2>5. ASSUME NEW u \in Users, users'[u].state = "live"
          PROVE  RoleThere(u)
      <3>1. There(u) /\ users' = users
        BY <1>5, <2>5 DEF There
      <3>2. IsRole(users[u].role, "user") /\ (users[u].list = NoRole \/ roles[users[u].list].there)
        BY <3>1 DEF CoreInv, TypeInv, RowsInv
      <3> QED BY <2>1, <2>3, <3>1, <3>2, <1>5 DEF IsRole, SuperExists, RoleThere
    <2>6. users' \in [Users -> UserRows] /\ superRole' \in Nat
      BY <1>5 DEF CoreInv, TypeInv, RowsInv
    <2> QED BY <2>4, <2>5, <2>6, RolesThere
  <1>8. SessionsInv'
    BY <1>5, SessionsKept DEF CoreInv, TypeInv
  <1>9. TokensInv' /\ ResetInv'
    BY <1>1, <1>2, <1>5, LinksAlone
  <1>10. LoggedOutByPassword'
    <2>1. PasswordsKept(rec)
      BY <1>5 DEF PasswordsKept
    <2> QED BY <1>1, <1>5, <2>1, LoggedKept DEF CoreInv, TypeInv
  <1>11. HandlerFits(rec, users') /\ Fills(rec)
    BY <1>2 DEF HandlerFits, Fills
  <1> QED BY <1>1, <1>2, <1>4, <1>5, <1>6, <1>7, <1>8, <1>9, <1>10, <1>11, WriteStep

\* A role that goes is of no user; a list role goes with its users.
LEMMA DeleteRoleCore ==
  ASSUME CoreInv, NEW p \in Procs, NEW r \in Roles, Accounts(DeleteRole(p, r))
  PROVE  CoreInv'
  <1> USE DEF Accounts, DeleteRole, AfterRoleChange
  <1> DEFINE rec == [NoHandler EXCEPT !.pc = "cache", !.op = "droprole"]
             role == [roles[r] EXCEPT !.there = FALSE]
             gone == {u \in Users : There(u) /\ users[u].list = r}
  <1>1. /\ Start(p, rec) /\ h' = [h EXCEPT ![p] = rec] /\ h[p].pc = "idle"
        /\ h \in [Procs -> HandlerRows] /\ roles \in [Roles -> RoleRows]
        /\ roles' = [roles EXCEPT ![r] = role] /\ users' = Removed(gone)
    BY DEF Start, Busy, CoreInv, TypeInv, HandlersInv, RowsInv
  <1>2. rec \in HandlerRows /\ rec.pc = "cache" /\ rec.op = "droprole"
    BY Empties DEF HandlerRows, Pcs, Ops
  <1>3. role \in RoleRows /\ gone \in SUBSET Users
    BY <1>1 DEF RoleRows
  <1>4. Sole(p)
    BY <1>1, SoleStep
  <1>5. UNCHANGED <<superRole, loginVars, sessions, failed>>
    OBVIOUS
  <1> HIDE DEF rec, role
  <1>6. CountsInv'
    <2>1. overlapped' \in BOOLEAN
      BY <1>1 DEF Start, CoreInv, TypeInv, CountsInv
    <2> QED BY <2>1 DEF CoreInv, TypeInv, CountsInv, loginVars
  <1>7. ASSUME NEW u \in Users, There(u)'
        PROVE  /\ There(u) /\ users'[u] = users[u] /\ users[u].role # r /\ users[u].list # r
    <2>1. u \notin gone
      BY <1>1, <1>3, <1>7, RemovedRows DEF There
    <2>2. users'[u] = users[u]
      BY <1>1, <1>3, <2>1, RemovedRows
    <2> QED BY <1>7, <2>1, <2>2 DEF There
  <1> HIDE DEF Accounts, DeleteRole, gone
  <1>8. RowsInv'
    <2>1. users' \in [Users -> UserRows]
      BY <1>1, Empties DEF Removed, CoreInv, TypeInv, RowsInv
    <2>2. roles' \in [Roles -> RoleRows] /\ \A s \in Roles : s # r => roles'[s] = roles[s]
      BY <1>1, <1>3
    <2>3. ASSUME NEW u \in Users, users'[u].state = "live"
          PROVE  RoleThere(u)
      <3>1. There(u) /\ users'[u] = users[u] /\ users[u].role # r /\ users[u].list # r
        BY <1>7, <2>3 DEF There
      <3>2. /\ IsRole(users[u].role, "user") /\ users[u].list \in Roles \cup {NoRole}
            /\ users[u].list = NoRole \/ roles[users[u].list].there
        BY <3>1 DEF CoreInv, TypeInv, RowsInv, UserRows
      <3> QED BY <1>5, <2>2, <3>1, <3>2 DEF IsRole, SuperExists, RoleThere
    <2>4. superRole' \in Nat
      BY <1>5 DEF CoreInv, TypeInv, RowsInv
    <2> QED BY <2>1, <2>2, <2>3, <2>4, RolesThere
  <1>9. SessionsInv'
    BY <1>1, <1>3, <1>5, RemovedRows, SessionsKept DEF CoreInv, TypeInv
  <1>10. TokensInv' /\ ResetInv'
    BY <1>1, <1>2, <1>5, LinksAlone
  <1>11. LoggedOutByPassword'
    BY <1>1, <1>3, <1>5, RemovedRows, LoggedKept DEF CoreInv, TypeInv
  <1>12. HandlerFits(rec, users') /\ Fills(rec)
    BY <1>2 DEF HandlerFits, Fills
  <1> QED BY <1>1, <1>2, <1>3, <1>4, <1>6, <1>8, <1>9, <1>10, <1>11, <1>12, RemovedRows, WriteStep

\* What a step that leaves the accounts leaves true.
LEMMA AccountsStill ==
  ASSUME CoreInv, UNCHANGED <<users, roles, superRole>>
  PROVE  /\ RowsInv' /\ ApiUsers' = ApiUsers /\ Supers' = Supers
         /\ \A u \in Users : users[u].state # "unused" => users'[u].state # "unused"
         /\ \A rec : PasswordsKept(rec)
  <1>1. RowsInv'
    BY DEF CoreInv, TypeInv, RowsInv, There, IsRole, SuperExists
  <1>2. ApiUsers' = ApiUsers /\ Supers' = Supers
    BY DEF ApiUsers, IsApi, RolePerms, Supers, There
  <1>3. \A rec : PasswordsKept(rec)
    BY DEF PasswordsKept
  <1> QED BY <1>1, <1>2, <1>3

\* cacheUsers stores what it read, which is what the rows still say if it was alone.
LEMMA CacheAPIUsersCore ==
  ASSUME CoreInv, NEW p \in Procs, Accounts(CacheAPIUsers(p))
  PROVE  CoreInv'
  <1> USE DEF Accounts, CacheAPIUsers, Rest
  <1>1. /\ h \in [Procs -> HandlerRows] /\ h[p].pc = "store" /\ h[p].snap \in CacheRows
        /\ h' = [h EXCEPT ![p] = NoHandler] /\ apiCache' = h[p].snap
    BY DEF At, Goto, CoreInv, TypeInv, HandlersInv, HandlerFits
  <1>2. UNCHANGED <<users, roles, superRole, loginVars, sessions>> /\ failed'.cut = failed.cut
    BY DEF CoreInv, TypeInv, CountsInv, FailedRows
  <1>3. Sole(p)
    BY <1>1, SoleStep DEF Busy
  <1>4. CountsInv'
    <2>1. failed' \in FailedRows
      BY DEF CoreInv, TypeInv, CountsInv, FailedRows
    <2> QED BY <1>1, <2>1 DEF CoreInv, TypeInv, CountsInv, loginVars
  <1> HIDE DEF Accounts, CacheAPIUsers, Rest
  <1>5. SessionsInv'
    BY <1>2, SessionsKept DEF CoreInv, TypeInv
  <1>6. NoHandler.pc = "idle" /\ HandlerFits(NoHandler, users')
    BY DEF NoHandler, HandlerFits
  <1>7. TokensInv' /\ ResetInv'
    BY <1>1, <1>2, <1>6, LinksAlone
  <1>8. LoggedOutByPassword'
    BY <1>1, <1>2, AccountsStill, LoggedKept DEF CoreInv, TypeInv
  <1>9. ~overlapped' => Fresh'
    <2>1. ASSUME ~overlapped'
          PROVE  \A u \in Users : h[p].snap[u] = ApiUsers[u]
      BY <1>1, <1>3, <2>1 DEF Sole, CoreInv, CacheInv
    <2>2. ApiUsers' = ApiUsers
      BY <1>2, AccountsStill
    <2> QED BY <1>1, <2>1, <2>2 DEF Fresh, Current
  <1> QED BY <1>1, <1>2, <1>3, <1>4, <1>5, <1>6, <1>7, <1>8, <1>9, AccountsStill, Empties, WriteStep

\* A session is saved with the password there is.
LEMMA SaveSessionCore ==
  ASSUME CoreInv, NEW p \in Procs, NEW s \in Sids, Logins(SaveSession(p, s))
  PROVE  CoreInv'
  <1> USE DEF Logins, SaveSession, Keep, Rest
  <1> DEFINE pc == IF h[p].op = "setup" THEN "flag" ELSE "idle"
             u == h[p].u
             session == [user |-> u, at |-> users[u].pw]
  <1>1. /\ h \in [Procs -> HandlerRows] /\ h[p].pc = "new" /\ u \in Users
        /\ users[u].state # "unused" /\ users[u].pw \in 0..Passwords
        /\ sessions' = [sessions EXCEPT ![s] = session]
        /\ sessions \in [Sids -> [user : Users \cup {NoUser}, at : 0..Passwords]]
    BY DEF CoreInv, TypeInv, RowsInv, UserRows, HandlersInv, HandlerFits, SessionsInv, At
  <1>2. PICK rec \in HandlerRows :
          /\ h' = [h EXCEPT ![p] = rec] /\ rec.pc = pc
          /\ pc # "idle" => rec.u = u /\ rec.op = h[p].op
          /\ pc = "idle" => rec = NoHandler
    <2>1. pc \in Pcs \ {"write", "store", "account", "profile"} /\ Goto(p, pc)
      BY DEF Pcs
    <2> HIDE DEF pc
    <2> QED BY <2>1, GotoStep
  <1>3. Sole(p) /\ ~Fills(h[p])
    BY <1>1, SoleStep DEF Busy, Fills
  <1>4. UNCHANGED <<users, roles, superRole, loginVars, failed, apiCache, overlapped>>
    OBVIOUS
  <1>5. CountsInv'
    BY DEF CoreInv, TypeInv, CountsInv, loginVars
  <1> HIDE DEF Logins, SaveSession, Keep, Rest
  <1>6. rec.pc \in {"idle", "flag"}
    BY <1>2
  <1>7. TokensInv' /\ ResetInv'
    BY <1>2, <1>4, <1>6, LinksAlone
  <1>8. session \in [user : Users \cup {NoUser}, at : 0..Passwords]
        /\ session.user = u /\ session.at = users[u].pw
    BY <1>1
  <1> HIDE DEF session, u, pc
  <1>9. SessionsInv'
    BY <1>1, <1>4, <1>8 DEF CoreInv, TypeInv, SessionsInv
  <1>10. LoggedOutByPassword'
    <2>1. ASSUME NEW t \in Sids, t # s
          PROVE  sessions'[t] = sessions[t]
      BY <1>1, <2>1
    <2>2. sessions'[s].user = u /\ sessions'[s].at = users[u].pw
      BY <1>1, <1>8
    <2>3. \A q \in Procs : h[q].pc = "logout" => h'[q].pc = "logout" /\ h'[q].u = h[q].u
      BY <1>1, <1>2
    <2>4. LoggedOutByPassword
      BY DEF CoreInv
    <2> QED BY <1>4, <2>1, <2>2, <2>3, <2>4 DEF LoggedOutByPassword, There, At
  <1>11. HandlerFits(rec, users')
    BY <1>1, <1>2, <1>4, <1>6 DEF HandlerFits, NoHandler, u
  <1>12. ~overlapped' => Fresh'
    BY <1>3, <1>4, WasCurrent, AccountsStill DEF Fresh, Current
  <1> QED BY <1>2, <1>3, <1>4, <1>5, <1>6, <1>7, <1>9, <1>10, <1>11, <1>12, AccountsStill, WriteStep

\* A user who is not an API user is not in the cache, before and after.
LEMMA ApiNone ==
  ASSUME NEW u \in Users, ~IsApi(u), ~IsApi(u)'
  PROVE  ApiUsers'[u] = ApiUsers[u]
  BY DEF ApiUsers

\* An id that was unused becomes a super admin.
LEMMA NewSuperStep ==
  ASSUME CoreInv, NEW p \in Procs, NEW u \in Users, u = h[p].u, Busy(p), ~Fills(h[p]),
         h[p].pc # "logout", users[u].state = "unused", IsRole(Super, "user"), NEW row \in UserRows,
         row.state = "live", row.type = "user", row.role = Super, row.list = NoRole,
         users' = [users EXCEPT ![u] = row], Goto(p, "new"), version' \in 0..Passwords,
         UNCHANGED <<roles, superRole, roleSeq, needsSetup, sessions, apiCache, overlapped, failed,
                     loginVars>>
  PROVE  CoreInv'
  <1>1. PICK rec \in HandlerRows :
          h' = [h EXCEPT ![p] = rec] /\ rec.pc = "new" /\ rec.u = u /\ rec.op = h[p].op
    <2>1. "new" \in Pcs \ {"write", "store", "account", "profile"} /\ "new" # "idle"
      BY DEF Pcs
    <2> QED BY <2>1, GotoStep
  <1>2. /\ h \in [Procs -> HandlerRows] /\ users \in [Users -> UserRows] /\ RowsInv
        /\ SessionsInv /\ CountsInv /\ LoggedOutByPassword
    BY DEF CoreInv, TypeInv, HandlersInv, RowsInv
  <1>3. Sole(p)
    BY SoleStep
  <1>4. RowsInv'
    BY <1>2, RowWritten
  <1>5. \A v \in Users : users[v].state # "unused" => users'[v].state # "unused"
    BY <1>2
  <1>6. SessionsInv'
    BY <1>2, <1>5, SessionsKept
  <1>7. CountsInv'
    BY <1>2 DEF CountsInv, loginVars
  <1>8. TokensInv' /\ ResetInv'
    BY <1>1, LinksAlone
  <1>9. LoggedOutByPassword'
    <2>1. PasswordsKept(rec)
      BY <1>2 DEF PasswordsKept
    <2> QED BY <1>1, <1>2, <2>1, LoggedKept
  <1>10. HandlerFits(rec, users')
    BY <1>1, <1>2 DEF HandlerFits
  <1>11. ~overlapped' => Fresh'
    <2>1. ASSUME NEW v \in Users
          PROVE  ApiUsers'[v] = ApiUsers[v]
      <3>1. CASE v = u
        <4>1. ~IsApi(v) /\ ~IsApi(v)'
          BY <1>2, <3>1 DEF IsApi, There
        <4> QED BY <4>1, ApiNone
      <3>2. CASE v # u
        <4>1. users'[v] = users[v]
          BY <1>2, <3>2
        <4> QED BY <4>1, ApiSame
      <3> QED BY <3>1, <3>2
    <2>2. ~overlapped' => Fresh
      BY <1>3, WasCurrent
    <2> QED BY <2>1, <2>2 DEF Fresh, Current
  <1> QED BY <1>1, <1>3, <1>4, <1>5, <1>6, <1>7, <1>8, <1>9, <1>10, <1>11, WriteStep

\* A handler ends without a write.
LEMMA EndStep ==
  ASSUME CoreInv, NEW p \in Procs, Busy(p), h[p].pc # "logout", ~Fills(h[p]), Goto(p, "idle"),
         Unmoved, UNCHANGED <<roleSeq, overlapped, tokens>>
  PROVE  CoreInv'
  <1>1. h' = [h EXCEPT ![p] = NoHandler] /\ NoHandler.pc = "idle" /\ NoHandler \in HandlerRows
    BY Empties DEF Goto, NoHandler
  <1>2. HandlerFits(NoHandler, users)
    BY DEF HandlerFits, NoHandler
  <1>3. Fewer /\ roleSeq' \in Nat
    BY TokensFewer DEF CoreInv, TypeInv, CountsInv
  <1> QED BY <1>1, <1>2, <1>3, MoveStep

\* A user made over OIDC has the default role.
LEMMA CreateOIDCUserCore ==
  ASSUME CoreInv, NEW p \in Procs, Logins(CreateOIDCUser(p, Super))
  PROVE  CoreInv'
  <1> USE DEF Logins, CreateOIDCUser, Keep, Rest
  <1> DEFINE u == h[p].u
             row == [Unused EXCEPT !.state = "live", !.status = "enabled", !.role = Super]
  <1>1. /\ u \in Users /\ Busy(p) /\ h[p].pc # "logout" /\ ~Fills(h[p])
    BY DEF At, Busy, Fills, CoreInv, TypeInv, HandlersInv, HandlerFits
  <1>2. CASE users[u].state = "unused" /\ IsRole(Super, "user")
    <2>1. /\ row \in UserRows /\ row.state = "live" /\ row.type = "user" /\ row.role = Super
          /\ row.list = NoRole
      BY Empties DEF Unused, UserRows
    <2>2. users' = [users EXCEPT ![u] = row] /\ Goto(p, "new")
      BY <1>2
    <2>3. version' \in 0..Passwords
      BY DEF CoreInv, TypeInv, CountsInv
    <2> HIDE DEF row
    <2> QED BY <1>1, <1>2, <2>1, <2>2, <2>3, NewSuperStep
  <1>3. CASE ~(users[u].state = "unused" /\ IsRole(Super, "user"))
    <2>1. Unmoved /\ UNCHANGED <<roleSeq, overlapped, tokens>> /\ Goto(p, "idle")
      BY <1>3 DEF Unmoved, loginVars
    <2> HIDE DEF u, row, Logins, CreateOIDCUser, Keep, Rest
    <2> QED BY <1>1, <2>1, EndStep
  <1> QED BY <1>2, <1>3

\* Get takes the token; the handler that took it has the link, if it is the one it was
\* mailed with.
LEMMA ResetConsumeCore ==
  ASSUME CoreInv, NEW p \in Procs, Logins(ResetConsume(p))
  PROVE  CoreInv'
  <1> USE DEF Logins, ResetConsume, Keep, Rest
  <1> DEFINE u == h[p].u
             found == Live(u) /\ tokens[u].data = h[p].link
             rec == IF found THEN [h[p] EXCEPT !.pc = "account"] ELSE NoHandler
  <1>1. /\ h \in [Procs -> HandlerRows] /\ u \in Users /\ u \in TokenIds /\ h[p].pc = "consume"
        /\ TokensInv /\ ResetInv /\ SessionsInv /\ CountsInv /\ LoggedOutByPassword
        /\ h[p].link \in Nat /\ tokens \in [TokenIds -> TokenRows]
    BY LoginsAssumption
       DEF At, CoreInv, TypeInv, HandlersInv, HandlerFits, HandlerRows, TokensInv
  <1>2. tokens' = Deleted(u) /\ UNCHANGED <<users, roles, superRole, sessions, failed, apiCache,
                                            overlapped, link, resets, version, roleSeq, needsSetup>>
    BY DEF Got
  <1>3. h' = [h EXCEPT ![p] = rec]
    BY <1>1 DEF Goto
  <1>4. rec \in HandlerRows /\ rec.pc = (IF found THEN "account" ELSE "idle")
        /\ (found => rec.u = u /\ rec.op = h[p].op /\ rec.link = h[p].link)
        /\ (~found => rec.op = "none")
    BY <1>1, Empties DEF HandlerRows, Pcs, NoHandler
  <1>5. Sole(p) /\ ~Fills(h[p])
    BY <1>1, SoleStep DEF Busy, Fills
  <1> HIDE DEF rec, Logins, ResetConsume, Keep, Rest
  <1>6. Fewer
    BY <1>1, <1>2, TokensFewer
  <1>7. TokensInv'
    BY <1>1, <1>2, <1>6, TokensKept
  <1>8. CountsInv' /\ SessionsInv'
    BY <1>1, <1>2 DEF CountsInv, SessionsInv
  <1>9. ResetInv'
    <2>1. ASSUME NEW q \in Procs, NEW l \in 1..Links, Holds(q, l)'
          PROVE  Holds(q, l) \/ (q = p /\ found /\ l = h[p].link)
      BY <1>1, <1>3, <1>4, <2>1 DEF Holds
    <2>2. ASSUME NEW v \in Users, NEW l \in 1..Links, Mailed(v, l)'
          PROVE  v # u /\ Mailed(v, l)
      <3>1. tokens'[u] = NoToken
        BY <1>1, <1>2 DEF Deleted
      <3>2. v \in TokenIds
        BY LoginsAssumption
      <3> QED BY <1>6, <2>2, <3>1, <3>2 DEF Fewer, Mailed
    <2>3. ASSUME NEW l \in 1..Links, found, l = h[p].link
          PROVE  /\ Mailed(u, l) /\ l <= link /\ resets[l] = 0 /\ \A q \in Procs : ~Holds(q, l)
                 /\ \A v \in Users : Mailed(v, l) => v = u
      <3>1. Mailed(u, l)
        BY <2>3 DEF Mailed, Live
      <3> QED BY <1>1, <3>1 DEF ResetInv
    <2>4. ASSUME NEW q \in Procs, NEW l \in 1..Links, Holds(q, l)'
          PROVE  resets[l] = 0 /\ l <= link /\ \A v \in Users : ~Mailed(v, l)'
      BY <1>1, <2>1, <2>2, <2>3, <2>4 DEF ResetInv
    <2>5. ASSUME NEW q \in Procs, NEW r \in Procs, NEW l \in 1..Links, Holds(q, l)', Holds(r, l)'
          PROVE  q = r
      BY <1>1, <2>1, <2>3, <2>5 DEF ResetInv
    <2>6. \A v, w \in Users, l \in 1..Links : Mailed(v, l)' /\ Mailed(w, l)' => v = w
      BY <1>1, <2>2 DEF ResetInv
    <2>7. \A v \in Users, l \in 1..Links : Mailed(v, l)' =>
            l <= link /\ resets[l] = 0 /\ \A q \in Procs : ~Holds(q, l)'
      BY <1>1, <2>2, <2>4 DEF ResetInv
    <2>8. /\ \A l \in 1..Links : resets[l] <= 1
          /\ \A l \in 1..Links : resets[l] = 1 => l <= link
      BY <1>1 DEF ResetInv
    <2> QED BY <1>2, <2>4, <2>5, <2>6, <2>7, <2>8 DEF ResetInv
  <1>10. LoggedOutByPassword'
    BY <1>1, <1>2, <1>3, AccountsStill, LoggedKept
  <1>11. HandlerFits(rec, users')
    BY <1>1, <1>4 DEF HandlerFits
  <1>12. ~overlapped' => Fresh'
    BY <1>2, <1>5, WasCurrent, AccountsStill DEF Fresh, Current
  <1>13. rec.pc \notin {"write", "store"}
    BY <1>4
  <1> QED BY <1>2, <1>3, <1>4, <1>5, <1>7, <1>8, <1>9, <1>10, <1>11, <1>12, <1>13, AccountsStill,
             WriteStep

\* The password of a link is set by the one handler that holds it.
LEMMA LinkUsed ==
  ASSUME ResetInv, CountsInv, NEW p \in Procs, NEW rec, h' = [h EXCEPT ![p] = rec],
         h \in [Procs -> HandlerRows], h[p].pc = "profile", rec.pc \notin {"account", "profile"},
         resets' = (IF h[p].op = "reset" THEN [resets EXCEPT ![h[p].link] = @ + 1] ELSE resets),
         UNCHANGED <<tokens, link>>
  PROVE  ResetInv' /\ resets' \in [1..Links -> Nat]
  <1>1. resets \in [1..Links -> Nat]
    BY DEF CountsInv
  <1>2. resets' \in [1..Links -> Nat]
    <2>1. CASE h[p].op = "reset" /\ h[p].link \in 1..Links
      <3>1. resets[h[p].link] + 1 \in Nat
        BY <1>1, <2>1
      <3> QED BY <1>1, <2>1, <3>1
    <2>2. CASE ~(h[p].op = "reset" /\ h[p].link \in 1..Links)
      BY <1>1, <2>2
    <2> QED BY <2>1, <2>2
  <1>3. ASSUME NEW l \in 1..Links
        PROVE  resets'[l] = IF Holds(p, l) THEN 1 ELSE resets[l]
    <2>1. CASE Holds(p, l)
      <3>1. resets[l] = 0
        BY <2>1 DEF ResetInv
      <3> QED BY <1>1, <2>1, <3>1 DEF Holds
    <2>2. CASE ~Holds(p, l)
      BY <1>1, <2>2 DEF Holds
    <2> QED BY <2>1, <2>2
  <1>4. \A q \in Procs, l \in 1..Links : Holds(q, l)' => q # p /\ Holds(q, l)
    BY DEF Holds
  <1>5. \A u \in Users, l \in 1..Links : Mailed(u, l)' <=> Mailed(u, l)
    BY DEF Mailed
  <1>6. ASSUME NEW l \in 1..Links
        PROVE  resets'[l] <= 1 /\ (resets'[l] = 1 => l <= link)
    BY <1>3 DEF ResetInv
  <1>7. ASSUME NEW q \in Procs, NEW l \in 1..Links, Holds(q, l)'
        PROVE  resets'[l] = 0 /\ l <= link
    <2>1. Holds(q, l) /\ ~Holds(p, l)
      BY <1>4, <1>7 DEF ResetInv
    <2> QED BY <1>3, <2>1 DEF ResetInv
  <1>8. ASSUME NEW u \in Users, NEW l \in 1..Links, Mailed(u, l)
        PROVE  l <= link /\ resets'[l] = 0 /\ \A q \in Procs : ~Holds(q, l)
    BY <1>3, <1>8 DEF ResetInv
  <1>9. \A q, r \in Procs, l \in 1..Links : Holds(q, l)' /\ Holds(r, l)' => q = r
    BY <1>4 DEF ResetInv
  <1>10. \A u, v \in Users, l \in 1..Links : Mailed(u, l)' /\ Mailed(v, l)' => u = v
    BY <1>5 DEF ResetInv
  <1>11. \A u \in Users, l \in 1..Links : Mailed(u, l)' =>
           l <= link /\ resets'[l] = 0 /\ \A q \in Procs : ~Holds(q, l)'
    BY <1>4, <1>5, <1>8
  <1> QED BY <1>2, <1>6, <1>7, <1>9, <1>10, <1>11 DEF ResetInv

\* update-user-profile: a new password is followed by the deletion of sessions.
LEMMA ProfileWriteCore ==
  ASSUME CoreInv, NEW p \in Procs, Logins(ProfileWrite(p))
  PROVE  CoreInv'
  <1> USE DEF Logins, ProfileWrite, Keep, Rest
  <1> DEFINE u == h[p].u
             new == h[p].new
             pw == NewPassword(users[u].pw, h[p].ok, new)
             row == [users[u] EXCEPT !.pw = pw]
             pc == IF There(u) /\ new THEN "logout" ELSE "idle"
  <1>1. /\ h \in [Procs -> HandlerRows] /\ h[p].pc = "profile" /\ u \in Users /\ new \in BOOLEAN
        /\ RowsInv /\ SessionsInv /\ TokensInv /\ CountsInv /\ ResetInv /\ LoggedOutByPassword
        /\ version \in 0..Passwords /\ (new => version < Passwords)
        /\ users \in [Users -> UserRows] /\ users[u] \in UserRows /\ users[u].pw \in 0..Passwords
    BY DEF CoreInv, TypeInv, RowsInv, UserRows, HandlersInv, HandlerFits, HandlerRows, CountsInv,
           At, CountPassword
  <1>2. PICK rec \in HandlerRows :
          /\ h' = [h EXCEPT ![p] = rec] /\ rec.pc = pc
          /\ pc # "idle" => rec.u = u /\ rec.op = h[p].op
          /\ pc = "idle" => rec = NoHandler
    <2>1. pc \in Pcs \ {"write", "store", "account", "profile"} /\ Goto(p, pc)
      BY DEF Pcs
    <2> HIDE DEF pc
    <2> QED BY <2>1, GotoStep
  <1>3. Sole(p) /\ ~Fills(h[p])
    BY <1>1, SoleStep DEF Busy, Fills
  <1>4. pw \in 0..Passwords /\ (new \/ pw = users[u].pw \/ pw = 0)
    <2>1. 0 \in 0..Passwords /\ (new => version + 1 \in 0..Passwords)
      BY <1>1, AccountsAssumption
    <2> QED BY <1>1, <2>1 DEF NewPassword
  <1>5. users' = IF There(u) THEN [users EXCEPT ![u] = row] ELSE users
    OBVIOUS
  <1>6. pc = IF There(u) /\ new THEN "logout" ELSE "idle"
    OBVIOUS
  <1>7. /\ UNCHANGED <<roles, superRole, sessions, failed, apiCache, overlapped, tokens, link,
                       needsSetup, roleSeq>>
        /\ resets' = IF h[p].op = "reset" THEN [resets EXCEPT ![h[p].link] = @ + 1] ELSE resets
    OBVIOUS
  <1>8. version' \in 0..Passwords
    BY <1>1, AccountsAssumption DEF CountPassword
  <1> HIDE DEF pw, pc, Logins, ProfileWrite, Keep, Rest
  <1>9. /\ row \in UserRows /\ row.state = users[u].state /\ row.type = users[u].type
        /\ row.status = users[u].status /\ row.role = users[u].role /\ row.list = users[u].list
        /\ row.pw = pw
    BY <1>1, <1>4 DEF UserRows
  <1> HIDE DEF row
  <1>10. rec.pc \in {"logout", "idle"}
    BY <1>2, <1>6
  <1>11. ResetInv' /\ resets' \in [1..Links -> Nat]
    BY <1>1, <1>2, <1>7, <1>10, LinkUsed
  <1>12. TokensInv' /\ CountsInv'
    BY <1>1, <1>7, <1>8, <1>11 DEF TokensInv, Live, CountsInv
  <1>13. RowsInv'
    <2>1. CASE There(u)
      <3>1. IsRole(row.role, "user") /\ (row.list = NoRole \/ roles[row.list].there)
        BY <1>1, <1>9, <2>1 DEF RowsInv
      <3> QED BY <1>1, <1>5, <1>7, <1>9, <2>1, <3>1, RowWritten
    <2>2. CASE ~There(u)
      BY <1>5, <1>7, <2>2, AccountsStill
    <2> QED BY <2>1, <2>2
  <1>14. \A v \in Users : /\ users'[v].state = users[v].state /\ users'[v].type = users[v].type
                          /\ users'[v].status = users[v].status /\ users'[v].role = users[v].role
                          /\ users'[v].pw = users[v].pw \/ (v = u /\ There(u) /\ users'[v].pw = pw)
    BY <1>1, <1>5, <1>9
  <1>15. SessionsInv'
    BY <1>1, <1>7, <1>14, SessionsKept
  <1>16. LoggedOutByPassword'
    <2>1. PasswordsKept(rec)
      BY <1>2, <1>4, <1>6, <1>14 DEF PasswordsKept
    <2> QED BY <1>1, <1>2, <1>7, <2>1, LoggedKept
  <1>17. HandlerFits(rec, users')
    <2>1. There(u) => users'[u].state # "unused"
      BY <1>1, <1>14 DEF There
    <2> QED BY <1>1, <1>2, <1>6, <2>1 DEF HandlerFits, NoHandler
  <1>18. ~overlapped' => Fresh'
    <2>1. \A v \in Users : ApiUsers'[v] = ApiUsers[v]
      BY <1>7, <1>14, ApiSame
    <2> QED BY <1>3, <1>7, <2>1, WasCurrent DEF Fresh, Current
  <1> QED BY <1>2, <1>3, <1>10, <1>11, <1>12, <1>13, <1>14, <1>15, <1>16, <1>17, <1>18, WriteStep

\* delete-user-sessions leaves no session of an older password.
LEMMA DeleteUserSessionsCore ==
  ASSUME CoreInv, NEW p \in Procs, Logins(DeleteUserSessions(p))
  PROVE  CoreInv'
  <1> USE DEF Logins, DeleteUserSessions, Keep, Rest
  <1> DEFINE u == h[p].u
             pc == AfterLogout(h[p].op)
  <1>1. /\ h \in [Procs -> HandlerRows] /\ h[p].pc = "logout" /\ u \in Users
        /\ users[u].state # "unused" /\ users[u].pw \in 0..Passwords
        /\ SessionsInv /\ LoggedOutByPassword
        /\ sessions \in [Sids -> [user : Users \cup {NoUser}, at : 0..Passwords]]
    BY DEF CoreInv, TypeInv, RowsInv, UserRows, HandlersInv, HandlerFits, SessionsInv, At
  <1>2. pc \in {"cache", "new", "idle"} /\ (pc # "cache" => h[p].op # "update")
    BY DEF AfterLogout
  <1>3. PICK rec \in HandlerRows :
          /\ h' = [h EXCEPT ![p] = rec] /\ rec.pc = pc
          /\ pc # "idle" => rec.u = u /\ rec.op = h[p].op
          /\ pc = "idle" => rec = NoHandler
    <2>1. pc \in Pcs \ {"write", "store", "account", "profile"} /\ Goto(p, pc)
      BY <1>2 DEF Pcs
    <2> HIDE DEF pc
    <2> QED BY <2>1, GotoStep
  <1> HIDE DEF pc
  <1>4. Sole(p)
    BY <1>1, SoleStep DEF Busy
  <1>5. /\ UNCHANGED <<users, roles, superRole, apiCache, overlapped, loginVars>>
        /\ sessions' = Expelled(u, h[p].keep)
        /\ failed' = [failed EXCEPT !.cut = @ \ {u}]
    OBVIOUS
  <1>14. failed' \in FailedRows /\ failed'.cut = failed.cut \ {u} /\ failed'.missed = failed.missed
    BY <1>5 DEF CoreInv, TypeInv, CountsInv, FailedRows
  <1>6. CountsInv'
    BY <1>14 DEF CoreInv, TypeInv, CountsInv, loginVars
  <1> HIDE DEF Logins, DeleteUserSessions, Keep, Rest
  <1>7. rec.pc \in {"cache", "new", "idle"}
    BY <1>2, <1>3
  <1>8. TokensInv' /\ ResetInv'
    BY <1>3, <1>5, <1>7, LinksAlone
  <1>9. ASSUME NEW s \in Sids
        PROVE  \/ sessions[s].user # u /\ sessions'[s] = sessions[s]
               \/ sessions'[s] = NoSession
               \/ /\ sessions'[s] \in [user : Users \cup {NoUser}, at : 0..Passwords]
                  /\ sessions'[s].user = u /\ sessions'[s].at = users[u].pw
    <2>1. sessions[s] \in [user : Users \cup {NoUser}, at : 0..Passwords]
      BY <1>1
    <2>2. CASE sessions[s].user # u
      BY <1>5, <2>2 DEF Expelled
    <2>3. CASE sessions[s].user = u /\ s = h[p].keep
      <3>1. sessions'[s] = [sessions[s] EXCEPT !.at = users[u].pw]
        BY <1>5, <2>3 DEF Expelled
      <3> QED BY <1>1, <2>1, <2>3, <3>1
    <2>4. CASE sessions[s].user = u /\ s # h[p].keep
      BY <1>5, <2>4 DEF Expelled
    <2> QED BY <2>2, <2>3, <2>4
  <1>10. SessionsInv'
    <2>1. sessions' \in [Sids -> [user : Users \cup {NoUser}, at : 0..Passwords]]
      <3>1. \A s \in Sids : sessions'[s] \in [user : Users \cup {NoUser}, at : 0..Passwords]
        BY <1>1, <1>9, Empties
      <3>2. sessions' = [s \in Sids |-> sessions'[s]]
        BY <1>5 DEF Expelled
      <3> QED BY <3>1, <3>2
    <2>2. \A s \in Sids : sessions'[s].user # NoUser => users[sessions'[s].user].state # "unused"
      BY <1>1, <1>9 DEF SessionsInv, NoSession
    <2> QED BY <1>5, <2>1, <2>2 DEF SessionsInv
  <1>11. LoggedOutByPassword'
    <2>1. ASSUME NEW q \in Procs, NEW v, v # u, h[q].pc = "logout", h[q].u = v
          PROVE  h'[q].pc = "logout" /\ h'[q].u = v
      BY <1>1, <1>3, <2>1
    <2>2. ASSUME NEW s \in Sids, NEW v, v = sessions'[s].user
          PROVE  v = NoUser \/ users[v].state # "live" \/ v \in failed'.cut \/ users[v].pw = 0
                 \/ sessions'[s].at = users[v].pw
                 \/ \E q \in Procs : h'[q].pc = "logout" /\ h'[q].u = v
      <3>1. CASE sessions[s].user # u /\ sessions'[s] = sessions[s]
        <4>1. v = NoUser \/ users[v].state # "live" \/ v \in failed.cut \/ users[v].pw = 0
                 \/ sessions[s].at = users[v].pw
                 \/ \E q \in Procs : h[q].pc = "logout" /\ h[q].u = v
          BY <1>1, <2>2, <3>1 DEF LoggedOutByPassword, There, At
        <4> QED BY <1>14, <2>1, <2>2, <3>1, <4>1
      <3>2. CASE sessions'[s] = NoSession
        BY <2>2, <3>2 DEF NoSession
      <3>3. CASE sessions'[s].user = u /\ sessions'[s].at = users[u].pw
        BY <2>2, <3>3
      <3> QED BY <1>9, <3>1, <3>2, <3>3
    <2> QED BY <1>5, <2>2 DEF LoggedOutByPassword, There, At
  <1>12. HandlerFits(rec, users')
    BY <1>1, <1>3, <1>5, <1>7 DEF HandlerFits, NoHandler
  <1>13. ~overlapped' => Fills(rec) \/ Fresh'
    <2>1. CASE pc = "cache"
      BY <1>3, <2>1 DEF Fills
    <2>2. CASE pc # "cache"
      <3>1. ~Fills(h[p])
        BY <1>1, <1>2, <2>2 DEF Fills
      <3> QED BY <1>4, <1>5, <1>14, <3>1, WasCurrent, AccountsStill DEF Fresh, Current
    <2> QED BY <2>1, <2>2
  <1> QED BY <1>3, <1>4, <1>5, <1>6, <1>7, <1>8, <1>10, <1>11, <1>12, <1>13, AccountsStill, WriteStep

\* The super admin's role, and the flag of set-up, are of no row.
LEMMA SetupCore ==
  ASSUME CoreInv, NEW p \in Procs, Accounts(SetupRole(p)) \/ Accounts(SetupDone(p))
  PROVE  CoreInv'
  <1> USE DEF Accounts
  <1>1. PICK pc \in {"admin", "idle"} :
          /\ Goto(p, pc) /\ h[p].pc \in {"role", "flag"}
          /\ pc = "admin" => h[p].pc = "role"
    BY DEF SetupRole, SetupDone, At
  <1>2. PICK rec \in HandlerRows :
          /\ h' = [h EXCEPT ![p] = rec] /\ rec.pc = pc
          /\ pc # "idle" => rec.u = h[p].u /\ rec.op = h[p].op
          /\ pc = "idle" => rec = NoHandler
    <2>1. pc \in Pcs \ {"write", "store", "account", "profile"}
      BY DEF Pcs
    <2> QED BY <1>1, <2>1, GotoStep
  <1>3. UNCHANGED <<users, roles, sessions, failed, apiCache, overlapped, loginVars, version, roleSeq>>
    BY DEF SetupRole, SetupDone
  <1>4. superRole' \in Nat /\ (superRole = 1 => superRole' = 1) /\ needsSetup' \in BOOLEAN
    <2>1. superRole \in Nat /\ needsSetup \in BOOLEAN /\ h[p].link \in Nat
      BY DEF CoreInv, TypeInv, RowsInv, CountsInv, HandlersInv, HandlerRows
    <2>2. /\ superRole' = superRole \/ (superRole = 0 /\ superRole' = h[p].link)
          /\ needsSetup' = needsSetup \/ needsSetup' = FALSE
      BY DEF SetupRole, SetupDone, AfterSetup
    <2>3. needsSetup' \in BOOLEAN
      BY <2>1, <2>2
    <2>4. superRole' \in Nat
      BY <2>1, <2>2
    <2>5. superRole = 1 => superRole' = 1
      BY <2>2
    <2> QED BY <2>3, <2>4, <2>5
  <1>5. Sole(p) /\ ~Fills(h[p])
    <2>1. Busy(p) /\ UNCHANGED overlapped
      BY <1>1, <1>3 DEF Busy
    <2> QED BY <1>1, <2>1, SoleStep DEF Fills
  <1>6. RowsInv'
    BY <1>3, <1>4 DEF CoreInv, TypeInv, RowsInv, There, IsRole, SuperExists
  <1>7. SessionsInv' /\ CountsInv'
    BY <1>3, <1>4 DEF CoreInv, TypeInv, SessionsInv, CountsInv, loginVars
  <1>8. TokensInv' /\ ResetInv'
    BY <1>2, <1>3, LinksAlone
  <1>9. LoggedOutByPassword'
    <2>1. PasswordsKept(rec) /\ h \in [Procs -> HandlerRows] /\ SessionsInv /\ LoggedOutByPassword
      BY <1>3 DEF PasswordsKept, CoreInv, TypeInv, HandlersInv
    <2>2. UNCHANGED <<sessions, failed>> /\ h[p].pc # "logout"
      BY <1>1, <1>3
    <2> QED BY <1>2, <2>1, <2>2, LoggedKept
  <1>10. HandlerFits(rec, users')
    <2>1. HandlerFits(h[p], users)
      BY DEF CoreInv, TypeInv, HandlersInv
    <2> QED BY <1>1, <1>2, <2>1 DEF HandlerFits, NoHandler
  <1>11. ~overlapped' => Fresh'
    <2>1. ApiUsers' = ApiUsers
      BY <1>3 DEF ApiUsers, IsApi, RolePerms, There
    <2> QED BY <1>3, <1>5, <2>1, WasCurrent DEF Fresh, Current
  <1> QED BY <1>2, <1>3, <1>5, <1>6, <1>7, <1>8, <1>9, <1>10, <1>11, WriteStep

\* The user that set-up makes was an unused id.
LEMMA SetupAdminCore ==
  ASSUME CoreInv, SetupInv, part = "setup", NEW p \in Procs, Accounts(SetupAdmin(p))
  PROVE  CoreInv'
  <1> USE DEF Accounts, SetupAdmin, Rest
  <1> DEFINE u == h[p].u
             row == [Unused EXCEPT !.state = "live", !.status = "enabled", !.role = Super,
                       !.login = TRUE, !.pw = version + 1]
  <1>1. /\ u \in Users /\ Busy(p) /\ h[p].pc = "admin" /\ ~Fills(h[p])
        /\ users[u].state = "unused" /\ version \in 0..Passwords
    BY DEF At, Busy, Fills, CoreInv, TypeInv, HandlersInv, HandlerFits, SetupInv, BeforeAdmin,
           CountsInv
  <1>2. CASE SuperExists
    <2>1. version + 1 \in 0..Passwords /\ version' = version + 1
      BY <1>1, <1>2, AccountsAssumption
    <2>2. /\ row \in UserRows /\ row.state = "live" /\ row.type = "user" /\ row.role = Super
          /\ row.list = NoRole
      BY <2>1, Empties DEF Unused, UserRows
    <2>3. users' = [users EXCEPT ![u] = row] /\ Goto(p, "new")
      BY <1>2
    <2>4. IsRole(Super, "user")
      BY <1>2 DEF IsRole
    <2> HIDE DEF row
    <2> QED BY <1>1, <2>1, <2>2, <2>3, <2>4, NewSuperStep
  <1>3. CASE ~SuperExists
    <2>1. Unmoved /\ UNCHANGED <<roleSeq, overlapped, tokens>> /\ Goto(p, "idle")
      BY <1>3 DEF Unmoved, loginVars
    <2> HIDE DEF u, row, Accounts, SetupAdmin, Rest
    <2> QED BY <1>1, <2>1, EndStep
  <1> QED BY <1>2, <1>3

\* A stop forgets handlers, tokens and links in flight, and remembers whose sessions were
\* still to be deleted.
LEMMA RestartCore ==
  ASSUME CoreInv, Stop
  PROVE  CoreInv'
  <1> USE DEF Stop, Logins, Restart
  <1>1. /\ h \in [Procs -> HandlerRows] /\ RowsInv /\ SessionsInv /\ TokensInv /\ CountsInv
        /\ ResetInv /\ LoggedOutByPassword
    BY DEF CoreInv, TypeInv, HandlersInv
  <1>2. h' = [p \in Procs |-> NoHandler] /\ NoHandler.pc = "idle" /\ NoHandler.op = "none"
    BY DEF NoHandler
  <1>3. RowsInv' /\ ApiUsers' = ApiUsers /\ UNCHANGED <<users, roles, superRole>>
    BY AccountsStill
  <1>4. HandlersInv'
    BY <1>2, Empties DEF HandlersInv, HandlerFits
  <1>5. SessionsInv'
    BY <1>1 DEF SessionsInv
  <1>6. TokensInv'
    BY <1>1, Empties DEF TokensInv, Live
  <1>7. CountsInv'
    <2>1. failed' \in FailedRows
      <3>1. \A q \in Procs : At(q, "logout") => h[q].u \in Users
        BY DEF At, CoreInv, TypeInv, HandlersInv, HandlerFits
      <3> QED BY <1>1, <3>1 DEF CountsInv, FailedRows
    <2>2. apiCache' \in CacheRows
      <3>1. ApiUsers \in CacheRows
        BY <1>1, ApiUsersTyped
      <3> QED BY <3>1 DEF CacheRows
    <2>3. needsSetup' \in BOOLEAN /\ overlapped' \in BOOLEAN
      BY <1>1 DEF CountsInv
    <2> QED BY <1>1, <2>1, <2>2, <2>3 DEF CountsInv
  <1>8. ResetInv'
    <2>1. \A p \in Procs, l \in 1..Links : ~Holds(p, l)'
      BY <1>2 DEF Holds
    <2>2. \A u \in Users, l \in 1..Links : ~Mailed(u, l)'
      BY LoginsAssumption DEF Mailed
    <2> QED BY <1>1, <2>1, <2>2 DEF ResetInv
  <1>9. LoggedOutByPassword'
    <2>1. \A q \in Procs : h[q].pc = "logout" => h[q].u \in failed'.cut
      BY <1>1 DEF At, CountsInv, FailedRows
    <2>2. failed.cut \subseteq failed'.cut /\ UNCHANGED <<users, sessions>>
      BY <1>1 DEF CountsInv, FailedRows
    <2> QED BY <1>1, <2>1, <2>2 DEF LoggedOutByPassword, There, At
  <1>10. CacheInv'
    <2>1. Current'
      <3>1. \A u \in Users : apiCache'[u] = ApiUsers[u]
        BY AccountsAssumption DEF ApiUsers
      <3> QED BY <1>3, <3>1 DEF Current
    <2>2. \A p \in Procs : ~Busy(p)' /\ h'[p].pc # "store"
      BY <1>2 DEF Busy
    <2> QED BY <2>1, <2>2 DEF CacheInv, Fresh, Alone
  <1>11. SupersInv'
    BY <1>2 DEF SupersInv, Promised
  <1> QED BY <1>3, <1>4, <1>5, <1>6, <1>7, <1>8, <1>9, <1>10, <1>11 DEF CoreInv, TypeInv

\* A handler that fails leaves what it wrote: sessions of a changed password are counted
\* as cut, and a cache that was to be filled as missed.
LEMMA HandlerFailsCore ==
  ASSUME CoreInv, NEW p \in Procs, Logins(HandlerFails(p))
  PROVE  CoreInv'
  <1> USE DEF Logins, HandlerFails
  <1>1. PICK pc \in {"idle", AfterLogout(h[p].op)} :
          /\ Goto(p, pc) /\ (pc # "idle" => h[p].pc = "logout")
          /\ failed' = [cut |-> IF At(p, "logout") THEN failed.cut \cup {h[p].u} ELSE failed.cut,
                        missed |-> failed.missed \/ (pc = "idle" /\ ToCache(h[p])),
                        half |-> IF At(p, "new") /\ h[p].op = "setup"
                                 THEN failed.half \cup {h[p].u} ELSE failed.half,
                        faults |-> failed.faults + 1]
    BY DEF At
  <1>2. /\ h[p].pc \in Fallible /\ failed.faults < Faults
        /\ UNCHANGED <<users, roles, superRole, roleSeq, needsSetup, sessions, apiCache, overlapped,
                        version, loginVars>>
    OBVIOUS
  <1> HIDE DEF Logins, HandlerFails
  <1>3. /\ h \in [Procs -> HandlerRows] /\ failed \in FailedRows /\ CountsInv /\ SessionsInv
        /\ LoggedOutByPassword /\ HandlerFits(h[p], users)
    BY DEF CoreInv, TypeInv, HandlersInv, CountsInv
  <1>4. pc \in {"idle", "cache", "new"} /\ (pc = "idle" \/ (pc = "cache" <=> h[p].op = "update"))
    BY <1>1 DEF AfterLogout
  <1>5. PICK rec \in HandlerRows :
          /\ h' = [h EXCEPT ![p] = rec] /\ rec.pc = pc
          /\ pc # "idle" => rec.u = h[p].u /\ rec.op = h[p].op
          /\ pc = "idle" => rec = NoHandler
    <2>1. pc \in Pcs \ {"write", "store", "account", "profile"} /\ Goto(p, pc)
      BY <1>1, <1>4 DEF Pcs
    <2> QED BY <2>1, GotoStep
  <1>6. Busy(p) /\ h[p].pc # "store" /\ Sole(p)
    <2>1. Busy(p) /\ h[p].pc # "store"
      BY <1>2 DEF Busy, Fallible
    <2> QED BY <1>2, <2>1, SoleStep
  <1>7. failed' \in FailedRows
    <2>1. h[p].pc \in {"logout", "new"} => h[p].u \in Users
      BY <1>3 DEF HandlerFits
    <2>2. failed.faults + 1 \in 0..Faults
      BY <1>2, <1>3, AccountsAssumption DEF FailedRows
    <2>3. (failed.missed \/ (pc = "idle" /\ ToCache(h[p]))) \in BOOLEAN
      OBVIOUS
    <2> QED BY <1>1, <1>3, <2>1, <2>2, <2>3 DEF FailedRows, At
  <1>8. CountsInv'
    BY <1>2, <1>3, <1>7 DEF CountsInv, loginVars
  <1>9. TokensInv' /\ ResetInv'
    BY <1>2, <1>4, <1>5, LinksAlone
  <1>10. SessionsInv'
    BY <1>2, <1>3, SessionsKept
  <1>11. LoggedOutByPassword'
    <2>1. /\ failed.cut \subseteq failed'.cut /\ (h[p].pc = "logout" => h[p].u \in failed'.cut)
      BY <1>1 DEF At
    <2> QED BY <1>2, <1>3, <1>5, <2>1, AccountsStill, LoggedKept
  <1>12. HandlerFits(rec, users')
    BY <1>1, <1>2, <1>3, <1>4, <1>5 DEF HandlerFits, NoHandler
  <1>13. ~overlapped' => Fills(rec) \/ Fresh'
    <2>1. CASE ToCache(h[p]) /\ pc = "idle"
      BY <1>1, <2>1 DEF Fresh
    <2>2. CASE ToCache(h[p]) /\ pc # "idle"
      BY <1>1, <1>4, <1>5, <2>2 DEF ToCache, Fills
    <2>3. CASE ~ToCache(h[p])
      <3>1. ~Fills(h[p])
        BY <1>6, <2>3 DEF Fills, ToCache
      <3>2. ~overlapped' => Fresh
        BY <1>6, <3>1, WasCurrent
      <3> QED BY <1>1, <1>2, <3>2, AccountsStill DEF Fresh, Current
    <2> QED BY <2>1, <2>2, <2>3
  <1>14. rec.pc \notin {"write", "store"}
    BY <1>4, <1>5
  <1> QED BY <1>2, <1>5, <1>6, <1>8, <1>9, <1>10, <1>11, <1>12, <1>13, <1>14, AccountsStill, WriteStep

-----------------------------------------------------------------------------
(* First-time setup *)

\* The other parts have nothing to do with it.
LEMMA OtherParts ==
  ASSUME part # "setup", part' = part
  PROVE  SetupInv'
  BY DEF SetupInv

\* A handler of set-up takes a step and makes no user: it keeps its own, or ends.
LEMMA SetupStep ==
  ASSUME CoreInv, SetupInv, UNCHANGED <<users, overlapped, failed>>, NEW p \in Procs, Busy(p),
         part = "setup", NEW rec, h' = [h EXCEPT ![p] = rec],
         rec.pc # "idle" => rec.op = h[p].op /\ rec.u = h[p].u,
         rec.pc \in BeforeAdmin => h[p].pc \in BeforeAdmin,
         rec.pc \in {"new", "flag"} => h[p].pc \in {"new", "flag"},
         \/ needsSetup' = FALSE
         \/ needsSetup' = needsSetup /\ (h[p].pc \in {"new", "flag"} => rec.pc \in {"new", "flag"})
  PROVE  SetupInv'
  <1>1. h \in [Procs -> HandlerRows] /\ h'[p] = rec /\ \A q \in Procs : q # p => h'[q] = h[q]
    BY DEF CoreInv, TypeInv, HandlersInv
  <1>2. \A q \in Procs : Busy(q)' => Busy(q) /\ h'[q].op = h[q].op /\ h'[q].u = h[q].u
    BY <1>1 DEF Busy
  <1>3. \A u : (There(u)' <=> There(u)) /\ (Whole(u)' <=> Whole(u))
    BY DEF There, Whole
  <1>4. \A q \in Procs :
          /\ h'[q].pc \in BeforeAdmin => h[q].pc \in BeforeAdmin /\ Busy(q)'
          /\ h'[q].pc \in {"new", "flag"} => h[q].pc \in {"new", "flag"} /\ Busy(q)'
    BY <1>1 DEF Busy, BeforeAdmin
  <1>5. /\ \A u \in Users : There(u)' => users'[u].type = "user"
        /\ \A u \in failed'.half : There(u)'
        /\ \A q \in Procs : Busy(q)' => h'[q].op = "setup"
        /\ \A q, x \in Procs : Busy(q)' /\ Busy(x)' /\ h'[q].u = h'[x].u => q = x
        /\ \A q \in Procs : h'[q].pc \in BeforeAdmin => users'[h'[q].u].state = "unused"
        /\ \A q \in Procs : h'[q].pc \in {"new", "flag"} => Whole(h[q].u)'
    BY <1>2, <1>3, <1>4 DEF SetupInv
  <1>6. ~overlapped' =>
          /\ \A u, v \in Users : Whole(u)' /\ Whole(v)' => u = v
          /\ \A q \in Procs : h'[q].pc \in BeforeAdmin => \A u \in Users : ~Whole(u)'
    BY <1>3, <1>4 DEF SetupInv
  <1>7. ASSUME ~overlapped', \E u \in Users : Whole(u)'
        PROVE  ~needsSetup' \/ \E q \in Procs : h'[q].pc \in {"new", "flag"}
    <2>1. ~needsSetup \/ \E q \in Procs : h[q].pc \in {"new", "flag"}
      BY <1>3, <1>7 DEF SetupInv
    <2> QED BY <1>1, <2>1
  <1> QED BY <1>5, <1>6, <1>7 DEF SetupInv

\* Set-up starts for an unused id of its own, while there is no one.
LEMMA SetupStartSetup ==
  ASSUME CoreInv, SetupInv, part = "setup", NEW p \in Procs, NEW u \in Users,
         Accounts(SetupStart(p, u))
  PROVE  SetupInv'
  <1> USE DEF Accounts, SetupStart
  <1> DEFINE rec == [NoHandler EXCEPT !.op = "setup", !.u = u,
                                      !.pc = IF SuperExists THEN "admin" ELSE "rolenext"]
  <1>1. /\ Start(p, rec) /\ h' = [h EXCEPT ![p] = rec] /\ h[p].pc = "idle"
        /\ users[u].state = "unused" /\ needsSetup /\ \A q \in Procs : h[q].u # u
        /\ UNCHANGED <<users, needsSetup, part, failed>>
    BY DEF Start, Busy
  <1>2. /\ rec.op = "setup" /\ rec.u = u /\ rec.pc \in BeforeAdmin
        /\ rec.pc \notin {"idle", "new", "flag"}
    BY DEF NoHandler, BeforeAdmin
  <1>3. ~overlapped' => ~overlapped /\ \A q \in Procs : ~Busy(q)
    BY DEF Start, CoreInv, TypeInv, CountsInv
  <1> HIDE DEF rec, Accounts, SetupStart
  <1>4. h'[p] = rec /\ \A q \in Procs : q # p => h'[q] = h[q]
    BY <1>1 DEF CoreInv, TypeInv, HandlersInv
  <1>5. \A v : (There(v)' <=> There(v)) /\ (Whole(v)' <=> Whole(v))
    BY <1>1 DEF There, Whole
  <1>6. /\ \A v \in Users : There(v)' => users'[v].type = "user"
        /\ \A v \in failed'.half : There(v)'
        /\ \A q \in Procs : h'[q].pc \in {"new", "flag"} => Whole(h[q].u)'
        /\ \A q \in Procs : Busy(q)' => h'[q].op = "setup"
        /\ \A q \in Procs : h'[q].pc \in BeforeAdmin => users'[h'[q].u].state = "unused"
    BY <1>1, <1>2, <1>4, <1>5 DEF SetupInv, Busy
  <1>7. \A q, r \in Procs : Busy(q)' /\ Busy(r)' /\ h'[q].u = h'[r].u => q = r
    BY <1>1, <1>2, <1>4 DEF SetupInv, Busy
  <1>8. ~overlapped' => \A v \in Users : ~Whole(v)
    BY <1>1, <1>3 DEF SetupInv, Busy
  <1> QED BY <1>5, <1>6, <1>7, <1>8 DEF SetupInv

\* The super admin made is the only one, unless handlers overlapped.
LEMMA SetupAdminSetup ==
  ASSUME CoreInv, SetupInv, part = "setup", NEW p \in Procs, Accounts(SetupAdmin(p))
  PROVE  SetupInv'
  <1> USE DEF Accounts, SetupAdmin, Rest
  <1> DEFINE u == h[p].u
  <1>1. /\ u \in Users /\ Busy(p) /\ h[p].pc = "admin" /\ h[p].pc \in BeforeAdmin
        /\ h \in [Procs -> HandlerRows] /\ users \in [Users -> UserRows]
    BY DEF At, Busy, BeforeAdmin, CoreInv, TypeInv, HandlersInv, HandlerFits, RowsInv
  <1>2. CASE ~SuperExists
    <2>1. /\ h' = [h EXCEPT ![p] = NoHandler] /\ NoHandler.pc = "idle"
          /\ UNCHANGED <<users, overlapped, needsSetup, failed>>
      BY <1>2 DEF Goto, NoHandler
    <2> HIDE DEF Accounts, SetupAdmin, Rest
    <2>2. NoHandler.pc \notin BeforeAdmin /\ h[p].pc \notin {"new", "flag"}
      BY <1>1, <2>1 DEF BeforeAdmin
    <2> QED BY <1>1, <2>1, <2>2, SetupStep
  <1>3. CASE SuperExists
    <2> DEFINE rec == [h[p] EXCEPT !.pc = "new"]
               row == [Unused EXCEPT !.state = "live", !.status = "enabled", !.role = Super,
                         !.login = TRUE, !.pw = version + 1]
    <2>1. /\ h' = [h EXCEPT ![p] = rec] /\ users' = [users EXCEPT ![u] = row]
          /\ UNCHANGED <<overlapped, needsSetup, part, failed>>
      BY <1>3 DEF Goto
    <2>2. rec.pc = "new" /\ rec.u = u /\ rec.op = h[p].op
      BY <1>1 DEF HandlerRows
    <2>3. row.state = "live" /\ row.type = "user"
      BY DEF Unused
    <2> HIDE DEF rec, row, Accounts, SetupAdmin, Rest
    <2>4. h'[p] = rec /\ \A q \in Procs : q # p => h'[q] = h[q]
      BY <1>1, <2>1
    <2>5. users'[u] = row /\ \A v \in Users : v # u => users'[v] = users[v]
      BY <1>1, <2>1
    <2>6. \A q \in Procs : Busy(q)' => Busy(q) /\ h'[q].op = h[q].op /\ h'[q].u = h[q].u
      BY <1>1, <2>2, <2>4 DEF Busy
    <2>7. \A q \in Procs : h'[q].pc \in BeforeAdmin => q # p /\ Busy(q) /\ h[q].pc \in BeforeAdmin
      BY <2>2, <2>4 DEF Busy, BeforeAdmin
    <2>8. /\ \A v \in Users : There(v)' => v = u \/ There(v)
          /\ \A v \in Users : Whole(v)' => v = u \/ Whole(v)
          /\ \A v \in Users : Whole(v) => Whole(v)'
          /\ \A v \in Users : There(v) => There(v)'
      BY <2>1, <2>3, <2>5 DEF There, Whole
    <2>14. u \notin failed.half
      BY <1>1 DEF SetupInv, There
    <2>15. \A v \in failed'.half : There(v)'
      <3>1. failed.half \subseteq Users
        BY DEF CoreInv, TypeInv, CountsInv, FailedRows
      <3> QED BY <2>1, <2>8, <3>1 DEF SetupInv
    <2>16. ASSUME NEW q \in Procs, h'[q].pc \in {"new", "flag"}
           PROVE  Whole(h[q].u)'
      <3>1. CASE q = p
        BY <2>1, <2>2, <2>3, <2>4, <2>5, <2>14, <3>1 DEF There, Whole
      <3>2. CASE q # p
        <4>1. h'[q] = h[q] /\ Whole(h[q].u) /\ h[q].u \in Users
          BY <2>4, <2>16, <3>2 DEF SetupInv, CoreInv, TypeInv, HandlersInv, HandlerFits
        <4> QED BY <2>8, <4>1
      <3> QED BY <3>1, <3>2
    <2>9. /\ \A v \in Users : There(v)' => users'[v].type = "user"
          /\ \A q \in Procs : Busy(q)' => h'[q].op = "setup"
          /\ \A q, r \in Procs : Busy(q)' /\ Busy(r)' /\ h'[q].u = h'[r].u => q = r
      BY <2>3, <2>5, <2>6, <2>8 DEF SetupInv, There
    <2>10. ASSUME NEW q \in Procs, h'[q].pc \in BeforeAdmin
           PROVE  users'[h'[q].u].state = "unused"
      <3>1. q # p /\ Busy(q) /\ h[q].pc \in BeforeAdmin /\ h'[q] = h[q]
        BY <2>4, <2>7, <2>10
      <3>2. h[q].u # u /\ users[h[q].u].state = "unused"
        BY <1>1, <3>1 DEF SetupInv
      <3>3. h[q].u \in Users
        BY <3>1 DEF CoreInv, TypeInv, HandlersInv, HandlerFits, BeforeAdmin
      <3> QED BY <2>5, <3>1, <3>2, <3>3
    <2>11. ASSUME ~overlapped'
           PROVE  /\ \A v \in Users : ~Whole(v)
                  /\ \A q \in Procs : h'[q].pc \notin BeforeAdmin
      <3>1. ~overlapped /\ Alone
        BY <2>1, <2>11 DEF CoreInv, CacheInv
      <3> QED BY <1>1, <2>7, <3>1 DEF SetupInv, Alone
    <2>12. \E q \in Procs : h'[q].pc \in {"new", "flag"}
      BY <2>2, <2>4
    <2>13. ~overlapped' => \A v, w \in Users : Whole(v)' /\ Whole(w)' => v = w
      BY <2>8, <2>11
    <2> QED BY <2>9, <2>10, <2>11, <2>12, <2>13, <2>15, <2>16 DEF SetupInv
  <1> QED BY <1>2, <1>3

\* The other steps of set-up.
LEMMA SetupMoves ==
  ASSUME CoreInv, SetupInv, part = "setup", NEW p \in Procs,
         \/ Accounts(SetupRoleNext(p)) \/ Accounts(SetupRole(p)) \/ Accounts(SetupDone(p))
         \/ \E s \in Sids : Logins(SaveSession(p, s))
  PROVE  SetupInv'
  <1>1. /\ h \in [Procs -> HandlerRows] /\ UNCHANGED <<users, overlapped, failed>>
        /\ Busy(p) => h[p].op = "setup"
    BY DEF Accounts, Logins, SetupRoleNext, SetupRole, SetupDone, SaveSession, Keep, Rest,
           CoreInv, TypeInv, HandlersInv, SetupInv
  <1>2. CASE Accounts(SetupRoleNext(p))
    <2>1. /\ Busy(p) /\ h[p].pc = "rolenext" /\ needsSetup' = needsSetup
          /\ h' = [h EXCEPT ![p] = [h[p] EXCEPT !.pc = "role", !.link = roleSeq]]
      BY <1>2 DEF Accounts, SetupRoleNext, At, Busy
    <2> DEFINE rec == [h[p] EXCEPT !.pc = "role", !.link = roleSeq]
    <2>2. rec.pc = "role" /\ rec.op = h[p].op /\ rec.u = h[p].u /\ h[p].pc \in BeforeAdmin
      BY <1>1, <2>1 DEF HandlerRows, BeforeAdmin
    <2> HIDE DEF rec
    <2> QED BY <1>1, <2>1, <2>2, SetupStep DEF rec
  <1>3. ASSUME NEW pc \in {"idle", "admin", "flag"}, Goto(p, pc), Busy(p),
               pc = "admin" => h[p].pc \in BeforeAdmin, pc = "flag" => h[p].pc = "new",
               \/ needsSetup' = FALSE
               \/ needsSetup' = needsSetup /\ (h[p].pc \in {"new", "flag"} => pc = "flag")
        PROVE  SetupInv'
    <2>1. PICK rec \in HandlerRows :
           /\ h' = [h EXCEPT ![p] = rec] /\ rec.pc = pc
           /\ pc # "idle" => rec.u = h[p].u /\ rec.op = h[p].op
      <3>1. pc \in Pcs \ {"write", "store", "account", "profile"}
        BY DEF Pcs
      <3> QED BY <1>3, <3>1, GotoStep
    <2>2. rec.pc \in BeforeAdmin => h[p].pc \in BeforeAdmin
      BY <1>3, <2>1 DEF BeforeAdmin
    <2>3. /\ h[p].pc \in {"new", "flag"} /\ pc = "flag" => rec.pc \in {"new", "flag"}
          /\ rec.pc \in {"new", "flag"} => h[p].pc \in {"new", "flag"}
      BY <1>3, <2>1
    <2> QED BY <1>1, <1>3, <2>1, <2>2, <2>3, SetupStep
  <1>4. CASE Accounts(SetupRole(p))
    <2>1. h[p].pc = "role" /\ h[p].pc \in BeforeAdmin /\ Busy(p) /\ needsSetup' = needsSetup
      BY <1>4 DEF Accounts, SetupRole, At, Busy, BeforeAdmin
    <2>2. Goto(p, "admin") \/ Goto(p, "idle")
      BY <1>4 DEF Accounts, SetupRole
    <2> QED BY <1>3, <2>1, <2>2
  <1>5. CASE Accounts(SetupDone(p))
    BY <1>3, <1>5 DEF Accounts, SetupDone, AfterSetup, At, Busy
  <1>6. ASSUME NEW s \in Sids, Logins(SaveSession(p, s))
        PROVE  SetupInv'
    <2>1. Busy(p) /\ h[p].op = "setup" /\ needsSetup' = needsSetup /\ h[p].pc = "new"
      BY <1>1, <1>6 DEF Logins, SaveSession, At, Busy, Keep, Rest
    <2>2. Goto(p, "flag")
      BY <1>6, <2>1 DEF Logins, SaveSession
    <2> QED BY <1>3, <2>1, <2>2
  <1> QED BY <1>2, <1>4, <1>5, <1>6

\* initAuth looks for users again.
LEMMA RestartSetup ==
  ASSUME CoreInv, SetupInv, part = "setup", Stop
  PROVE  SetupInv'
  <1> USE DEF Stop, Logins, Restart
  <1>1. /\ \A p \in Procs : h'[p].pc = "idle" /\ ~Busy(p)'
        /\ \A u : There(u)' <=> There(u)
        /\ users' = users /\ (~overlapped' => ~overlapped)
    BY DEF NoHandler, Busy, There
  <1>3. failed'.half = failed.half /\ \A u : Whole(u)' <=> Whole(u)
    BY DEF CoreInv, TypeInv, CountsInv, FailedRows, There, Whole
  <1>2. (\E u \in Users : There(u)) => ~needsSetup'
    BY DEF SetupInv
  <1>4. (\E u \in Users : Whole(u)') => ~needsSetup'
    BY <1>2, <1>3 DEF Whole
  <1> QED BY <1>1, <1>3, <1>4 DEF SetupInv, BeforeAdmin

\* A set-up that fails once its admin is there leaves a super admin behind, and may be
\* tried again.
LEMMA FailsSetup ==
  ASSUME CoreInv, SetupInv, part = "setup", NEW p \in Procs, Logins(HandlerFails(p))
  PROVE  SetupInv'
  <1>1. /\ h \in [Procs -> HandlerRows] /\ Busy(p) /\ h[p].op = "setup"
        /\ h[p].pc \in Fallible /\ h[p].pc # "flag"
        /\ UNCHANGED <<users, overlapped, needsSetup, part>>
    BY DEF Logins, HandlerFails, Busy, Fallible, CoreInv, TypeInv, HandlersInv, SetupInv
  <1>2. /\ h' = [h EXCEPT ![p] = NoHandler] /\ NoHandler.pc = "idle"
        /\ failed'.half = IF h[p].pc = "new" THEN failed.half \cup {h[p].u} ELSE failed.half
    <2>1. PICK next \in {"idle", AfterLogout(h[p].op)} :
            /\ Goto(p, next)
            /\ failed'.half = IF At(p, "new") /\ h[p].op = "setup"
                              THEN failed.half \cup {h[p].u} ELSE failed.half
      BY DEF Logins, HandlerFails
    <2>2. next = "idle"
      BY <1>1, <2>1 DEF AfterLogout
    <2> QED BY <1>1, <2>1, <2>2 DEF Goto, At, NoHandler
  <1>3. h'[p] = NoHandler /\ \A q \in Procs : q # p => h'[q] = h[q]
    BY <1>1, <1>2
  <1>4. \A u : (There(u)' <=> There(u)) /\ (Whole(u)' => Whole(u))
    BY <1>1, <1>2 DEF There, Whole
  <1>5. \A q \in Procs : Busy(q)' => q # p /\ Busy(q) /\ h'[q] = h[q]
    BY <1>2, <1>3 DEF Busy
  <1>6. \A q \in Procs : h'[q].pc # "idle" => Busy(q)'
    BY DEF Busy
  <1>7. \A u \in failed'.half : There(u)'
    BY <1>2, <1>4 DEF SetupInv, Whole
  <1>8. ASSUME NEW q \in Procs, h'[q].pc \in {"new", "flag"}
        PROVE  Whole(h[q].u)'
    <2>1. q # p /\ Busy(q) /\ h'[q] = h[q] /\ Whole(h[q].u)
      BY <1>5, <1>6, <1>8 DEF SetupInv
    <2>2. h[q].u # h[p].u
      BY <1>1, <2>1 DEF SetupInv
    <2> QED BY <1>2, <1>4, <2>1, <2>2 DEF Whole
  <1>9. ASSUME ~overlapped', NEW u \in Users, Whole(u)'
        PROVE  ~needsSetup' \/ \E q \in Procs : h'[q].pc \in {"new", "flag"}
    <2>1. ~overlapped /\ Whole(u)
      BY <1>1, <1>4, <1>9
    <2>2. PICK q \in Procs : ~needsSetup \/ h[q].pc \in {"new", "flag"}
      BY <1>1, <2>1 DEF SetupInv
    <2>3. CASE q = p /\ h[p].pc = "new"
      <3>1. Whole(h[p].u) /\ h[p].u \in Users
        BY <2>3 DEF SetupInv, CoreInv, TypeInv, HandlersInv, HandlerFits
      <3>2. h[p].u = u
        BY <2>1, <3>1 DEF SetupInv
      <3>3. u \in failed'.half
        BY <1>2, <2>3, <3>2
      <3> QED BY <1>9, <3>3 DEF Whole
    <2> QED BY <1>1, <1>3, <2>2, <2>3
  <1>10. /\ \A u \in Users : There(u)' => users'[u].type = "user"
         /\ \A q \in Procs : Busy(q)' => h'[q].op = "setup"
         /\ \A q, x \in Procs : Busy(q)' /\ Busy(x)' /\ h'[q].u = h'[x].u => q = x
    BY <1>1, <1>4, <1>5 DEF SetupInv
  <1>11. \A q \in Procs : h'[q].pc \in BeforeAdmin => Busy(q)' /\ h[q].pc \in BeforeAdmin /\ h'[q] = h[q]
    BY <1>3, <1>5, <1>6, <1>2 DEF BeforeAdmin
  <1>12. /\ \A q \in Procs : h'[q].pc \in BeforeAdmin => users'[h'[q].u].state = "unused"
         /\ ~overlapped' =>
              /\ \A u, v \in Users : Whole(u)' /\ Whole(v)' => u = v
              /\ \A q \in Procs : h'[q].pc \in BeforeAdmin => \A u \in Users : ~Whole(u)'
    BY <1>1, <1>4, <1>11 DEF SetupInv
  <1> QED BY <1>7, <1>8, <1>9, <1>10, <1>12 DEF SetupInv

-----------------------------------------------------------------------------
(* The theorems *)

\* The first users have the super admin's role, and no sessions.
LEMMA InitInv ==
  ASSUME Init
  PROVE  IdInv
  <1> USE AccountsAssumption, LoginsAssumption, IdentityAssumption
  <1>1. /\ h = [p \in Procs |-> NoHandler] /\ NoHandler.pc = "idle" /\ NoHandler.op = "none"
        /\ tokens = [id \in TokenIds |-> NoToken] /\ link = 0 /\ overlapped = FALSE
        /\ sessions = [s \in Sids |-> NoSession] /\ NoSession.user = NoUser
        /\ users \in [Users -> UserRows]
    BY Empties DEF Init, NoHandler, NoSession
  <1>2. \A u \in Users : There(u) =>
          users[u].role = Super /\ users[u].list = NoRole /\ superRole = 1 /\ part # "setup"
    BY DEF Init, There, Unused
  <1>3. RowsInv
    <2>1. roles \in [Roles -> RoleRows] /\ superRole \in Nat
      BY DEF Init, RoleRows, NoRoles
    <2> QED BY <1>1, <1>2, <2>1 DEF RowsInv, IsRole, SuperExists
  <1>4. HandlersInv
    BY <1>1, Empties DEF HandlersInv, HandlerFits
  <1>5. SessionsInv /\ TokensInv
    BY <1>1, Empties DEF SessionsInv, TokensInv, Live
  <1>6. CountsInv
    <2>1. ApiUsers \in CacheRows /\ apiCache = [ApiUsers EXCEPT ![Legacy] = {0}]
      BY <1>3, ApiUsersTyped DEF Init
    <2>2. apiCache \in CacheRows
      BY <2>1 DEF CacheRows
    <2>3. roleSeq \in Nat /\ needsSetup \in BOOLEAN /\ failed \in FailedRows /\ version \in 0..Passwords
      BY DEF Init, NothingFailed, FailedRows
    <2>4. resets \in [1..Links -> Nat]
      BY DEF Init
    <2> QED BY <1>1, <2>2, <2>3, <2>4 DEF CountsInv
  <1>7. ResetInv
    <2>1. \A p \in Procs, l \in 1..Links : ~Holds(p, l)
      BY <1>1 DEF Holds
    <2>2. \A u \in Users, l \in 1..Links : ~Mailed(u, l)
      BY <1>1 DEF Mailed
    <2>3. \A l \in 1..Links : resets[l] = 0
      BY DEF Init
    <2> QED BY <2>1, <2>2, <2>3 DEF ResetInv
  <1>8. LoggedOutByPassword
    BY <1>1 DEF LoggedOutByPassword
  <1>9. CacheInv /\ SupersInv
    <2>1. Current
      BY DEF Init, Current, ApiUsers
    <2>2. \A p \in Procs : h[p].pc = "idle" /\ ~Busy(p)
      BY <1>1 DEF Busy
    <2> QED BY <2>1, <2>2 DEF CacheInv, Fresh, Alone, SupersInv, Promised
  <1>10. SetupInv
    <2>1. \A p \in Procs : h[p].pc \notin BeforeAdmin \cup {"new", "flag"} /\ ~Busy(p)
      BY <1>1 DEF Busy, BeforeAdmin
    <2>2. failed.half = {}
      BY DEF Init, NothingFailed
    <2> QED BY <1>2, <2>1, <2>2 DEF SetupInv, Whole
  <1> QED BY <1>3, <1>4, <1>5, <1>6, <1>7, <1>8, <1>9, <1>10 DEF IdInv, CoreInv, TypeInv

\* Each part's steps.
LEMMA NextCore ==
  ASSUME IdInv, Next
  PROVE  CoreInv'
  <1>0. CoreInv /\ SetupInv /\ Rows \subseteq UserRows /\ Account \in Users /\ Newcomer \in Users
    BY IdentityAssumption DEF IdInv
  <1>1. CASE Administration
    BY <1>0, <1>1, CreateUserCore, UpdateUserCore, DeleteUsersCore, UpdateRoleCore, DeleteRoleCore,
       DeleteWriteCore, MovesCore, CacheAPIUsersCore, UpdateWriteCore, CreateRoleCore, RestartCore
       DEF Administration
  <1>2. CASE Sessions
    BY <1>0, <1>2, RequestCore, SaveSessionCore DEF Sessions
  <1>3. CASE ChangingPasswords
    BY <1>0, <1>3, PageCore, ResetConsumeCore, MovesCore, ProfileWriteCore, DeleteUserSessionsCore,
       RequestCore, UpdateUserCore, UpdateWriteCore, CacheAPIUsersCore, ForgotPasswordCore
       DEF ChangingPasswords
  <1>4. CASE OtherLogins
    BY <1>0, <1>4, RequestCore, PageCore, MovesCore, CreateOIDCUserCore, LoginSecondCore, LogoutCore,
       SetTOTPCore, TokensAgeCore
       DEF OtherLogins
  <1>5. CASE part = "setup" /\ Setup
    BY <1>0, <1>5, RequestCore, MovesCore, SetupCore, SetupAdminCore, SaveSessionCore, RestartCore
       DEF Setup
  <1>6. CASE Stop
    BY <1>0, <1>6, RestartCore
  <1>7. CASE Fails
    BY <1>0, <1>7, HandlerFailsCore DEF Fails
  <1> QED BY <1>1, <1>2, <1>3, <1>4, <1>5, <1>6, <1>7 DEF Next

\* A behaviour keeps to its part.
LEMMA NextPart ==
  ASSUME Next
  PROVE  part' = part
  BY DEF Next, Administration, Sessions, ChangingPasswords, OtherLogins, Setup, Stop, Fails, Accounts,
         Logins

\* The invariant is inductive.
LEMMA IdInvStep ==
  ASSUME IdInv, [Next]_idVars
  PROVE  IdInv'
  <1>1. CASE UNCHANGED idVars
    <2>1. UNCHANGED <<part, users, roles, superRole, roleSeq, needsSetup, sessions, apiCache, h,
                      overlapped, failed, version, tokens, link, resets>>
      BY <1>1 DEF idVars, accountVars, loginVars
    <2>2. CoreInv /\ SetupInv
      BY DEF IdInv
    <2>3. CoreInv'
      <3>1. Unmoved /\ UNCHANGED <<h, overlapped, roleSeq>> /\ Fewer
        BY <2>1, <2>2, TokensFewer DEF Unmoved, CoreInv, TypeInv
      <3> QED BY <2>2, <3>1, TokensStep
    <2>4. SetupInv'
      BY <2>1, <2>2 DEF SetupInv, Whole, There, Busy
    <2> QED BY <2>3, <2>4 DEF IdInv
  <1>2. CASE Next
    <2>1. CoreInv' /\ part' = part /\ CoreInv /\ SetupInv
      BY <1>2, NextCore, NextPart DEF IdInv
    <2>2. CASE part # "setup"
      BY <2>1, <2>2, OtherParts DEF IdInv
    <2>3. CASE part = "setup"
      <3>1. Setup \/ Fails
        BY <1>2, <2>3 DEF Next
      <3> QED BY <2>1, <2>3, <3>1, SetupStartSetup, SetupAdminSetup, SetupMoves, RestartSetup, FailsSetup
              DEF Setup, Fails, IdInv
    <2> QED BY <2>2, <2>3
  <1> QED BY <1>1, <1>2

\* IdInv holds in every state.
THEOREM IdentityInvariant == Spec => []IdInv
  <1>1. Init => IdInv
    BY InitInv
  <1>2. IdInv /\ [Next]_idVars => IdInv'
    BY IdInvStep
  <1> QED BY <1>1, <1>2, PTL DEF Spec

\* A user that is there has a role that is, and a list role that is, if any; sessions,
\* tokens and the cache are of users (the foreign keys of the schema, and what the
\* handlers of cmd/auth.go put into a token).
THEOREM TypeCorrect == Spec => []TypeOK
  <1>1. IdInv => TypeOK
    <2> SUFFICES ASSUME IdInv PROVE TypeOK
      OBVIOUS
    <2>1. RowsInv /\ SessionsInv /\ TokensInv /\ CountsInv
      BY DEF IdInv, CoreInv, TypeInv
    <2>2. \A id \in TokenIds : tokens[id].count \in 0..MaxTries
      BY <2>1 DEF TokensInv, TokenRows
    <2> QED BY <2>1, <2>2 DEF RowsInv, SessionsInv, TokensInv, CountsInv, CacheRows, FailedRows, TypeOK
  <1> QED BY <1>1, IdentityInvariant, PTL

\* A link that was mailed sets a password once: Get of internal/tmptokens takes the token
\* under the mutex, whatever the visits counted and whoever else posts the link.
THEOREM ResetOnceCorrect == Spec => []ResetOnce
  <1>1. IdInv => ResetOnce
    BY DEF IdInv, CoreInv, ResetInv, ResetOnce
  <1> QED BY <1>1, IdentityInvariant, PTL

\* No session outlives a change of password, unless it was cut short: by a stop of the process, by
\* GetUser, or by an error of delete-user-sessions itself.
THEOREM LoggedOutCorrect == Spec => []LoggedOutByPassword
  <1>1. IdInv => LoggedOutByPassword
    BY DEF IdInv, CoreInv
  <1> QED BY <1>1, IdentityInvariant, PTL

\* While handlers run one after the other, GetAPIToken accepts the tokens of the rows,
\* with the permissions of the rows, once they have ended and the last could read them.
THEOREM ApiCacheCorrect == Spec => []ApiCacheCurrent
  <1>1. IdInv => ApiCacheCurrent
    <2> SUFFICES ASSUME IdInv, ~overlapped, \A p \in Procs : ~Busy(p), ~failed.missed, NEW u \in Users
                 PROVE  GetAPIToken(u) = IsApi(u) /\ apiCache[u] = ApiUsers[u]
      BY DEF ApiCacheCurrent
    <2>1. CacheInv
      BY DEF IdInv, CoreInv
    <2>2. \A p \in Procs : ~Fills(h[p])
      BY DEF Busy, Fills
    <2>3. apiCache[u] = ApiUsers[u]
      BY <2>1, <2>2 DEF CacheInv, Fresh, Current
    <2>4. GetAPIToken(u) = IsApi(u)
      BY <2>3 DEF GetAPIToken, ApiUsers, IsApi, There
    <2> QED BY <2>3, <2>4
  <1> QED BY <1>1, IdentityInvariant, PTL

\* Of the requests of first-time setup that come one after the other one makes a super
\* admin and ends well: a later one finds the flag down, unless every one before it failed.
THEOREM SetupOnceCorrect == Spec => []SetupOnce
  <1>1. IdInv => SetupOnce
    <2> SUFFICES ASSUME IdInv, part = "setup", ~overlapped
                 PROVE  Cardinality(Supers \ failed.half) <= 1
      BY DEF SetupOnce
    <2> DEFINE whole == Supers \ failed.half
    <2>1. \A u, v \in whole : u = v
      BY DEF IdInv, SetupInv, Supers, Whole
    <2> HIDE DEF whole
    <2>2. CASE whole = {}
      BY <2>2, FS_EmptySet DEF whole
    <2>3. CASE whole # {}
      <3>1. PICK u : whole = {u}
        BY <2>1, <2>3
      <3>2. Cardinality(whole) = 1
        BY <3>1, FS_Singleton
      <3> QED BY <3>2 DEF whole
    <2> QED BY <2>2, <2>3
  <1> QED BY <1>1, IdentityInvariant, PTL

-----------------------------------------------------------------------------
(* The last super admin *)

\* The steps that write rows of users.
LEMMA RowWriters ==
  ASSUME Next
  PROVE  \/ users' = users
         \/ \E p \in Procs, u \in Users, row \in Rows : Accounts(CreateUser(p, u, row))
         \/ \E p \in Procs, r \in Roles : Accounts(DeleteRole(p, r))
         \/ \E p \in Procs : \/ Accounts(DeleteWrite(p)) \/ Accounts(UpdateWrite(p))
                             \/ Logins(ProfileWrite(p)) \/ Logins(CreateOIDCUser(p, Super))
                             \/ part = "setup" /\ Accounts(SetupAdmin(p))
         \/ \E s \in Sids, on \in BOOLEAN : Logins(SetTOTP(s, Account, on))
  <1> USE DEF Accounts, Logins, Keep, Rest, accountVars
  <1>1. CASE Administration
    BY <1>1 DEF Administration, UpdateUser, DeleteUsers, UpdateRole, CacheRead, CacheAPIUsers,
                CreateRole, Stop, Restart
  <1>7. CASE Fails
    BY <1>7 DEF Fails, HandlerFails
  <1>2. CASE Sessions
    BY <1>2 DEF Sessions, DoLogin, SaveSession
  <1>3. CASE ChangingPasswords
    BY <1>3 DEF ChangingPasswords, ResetPage, ResetConsume, ResetAccount, DeleteUserSessions,
                UpdateUserProfile, UpdateUser, CacheRead, CacheAPIUsers, ForgotPassword
  <1>4. CASE OtherLogins
    BY <1>4 DEF OtherLogins, OIDCFinish, TwofaPage, TwofaVerified, LoginSecond, Logout, TokensAge
  <1>5. CASE part = "setup" /\ Setup
    BY <1>5 DEF Setup, SetupStart, SetupRoleNext, SetupRole, SetupDone, SaveSession, Stop, Restart
  <1>6. CASE Stop
    BY <1>6 DEF Stop, Restart
  <1> QED BY <1>1, <1>2, <1>3, <1>4, <1>5, <1>6, <1>7 DEF Next

\* Whose row says what it said is a super admin still.
LEMMA SuperKept ==
  ASSUME NEW u \in Supers, users'[u].state = users[u].state, users'[u].type = users[u].type,
         users'[u].status = users[u].status, users'[u].role = users[u].role
  PROVE  Supers' # {}
  BY DEF Supers, There

\* The promise of update-user and delete-users is kept, and no other step takes a super
\* admin's row.
LEMMA SupersStay ==
  ASSUME IdInv, Next, ~overlapped', Supers # {}, Supers' = {}
  PROVE  \E p \in Procs : h'[p].op = "droprole" \/ h[p].row.type = "api"
  <1>1. /\ CoreInv /\ SetupInv /\ users \in [Users -> UserRows] /\ h \in [Procs -> HandlerRows]
        /\ SupersInv /\ HandlersInv
    BY DEF IdInv, CoreInv, TypeInv, RowsInv, HandlersInv
  <1>2. CASE users' = users
    BY <1>2 DEF Supers, There
  <1>3. ASSUME NEW u \in Users, NEW row, users' = [users EXCEPT ![u] = row],
               users[u].state # "live"
        PROVE  FALSE
    <2>1. PICK v \in Supers : v # u
      BY <1>3 DEF Supers, There
    <2>2. users'[v] = users[v]
      BY <1>1, <1>3, <2>1
    <2> QED BY <2>1, <2>2, SuperKept
  <1>4. ASSUME NEW p \in Procs, NEW u \in Users, NEW row \in Rows, Accounts(CreateUser(p, u, row))
        PROVE  FALSE
    BY <1>3, <1>4 DEF Accounts, CreateUser
  <1>5. ASSUME NEW p \in Procs, NEW r \in Roles, Accounts(DeleteRole(p, r))
        PROVE  h'[p].op = "droprole"
    BY <1>1, <1>5 DEF Accounts, DeleteRole, Start, NoHandler
  <1>6. ASSUME NEW p \in Procs, Accounts(DeleteWrite(p))
        PROVE  FALSE
    <2> DEFINE gone == IF h[p].ok THEN {u \in h[p].snap : There(u)} ELSE {}
    <2>1. /\ h[p].pc = "write" /\ h[p].op = "delete" /\ users' = Removed(gone)
          /\ overlapped' = overlapped /\ gone \in SUBSET Users
      BY <1>1, <1>6 DEF Accounts, DeleteWrite, At, Rest, HandlersInv, HandlerFits
    <2>2. h[p].ok => Supers \ h[p].snap # {}
      BY <1>1, <2>1 DEF SupersInv, Promised
    <2>3. PICK v \in Supers : v \notin gone
      BY <2>2
    <2> HIDE DEF gone
    <2>4. users'[v] = users[v]
      BY <2>1, <2>3, RemovedRows DEF Supers
    <2> QED BY <2>3, <2>4, SuperKept
  <1>7. ASSUME NEW p \in Procs, Accounts(UpdateWrite(p))
        PROVE  h[p].row.type = "api"
    <2> DEFINE u == h[p].u
               row == h[p].row
               w == Written(users[u], row, h[p].new)
               fits == There(u) /\ h[p].ok /\ (row.role = NoRole \/ IsRole(row.role, "user"))
    <2>1. /\ h[p].pc = "write" /\ h[p].op = "update" /\ overlapped' = overlapped /\ CountPassword(p)
          /\ users' = IF fits THEN [users EXCEPT ![u] = w] ELSE users
      BY <1>7 DEF Accounts, UpdateWrite, At, Rest
    <2>2. fits
      BY <1>2, <1>1, <2>1 DEF Supers, There
    <2>3. u \in Users /\ row \in UserRows /\ h[p].new \in BOOLEAN /\ RowsInv /\ version \in 0..Passwords
      BY <1>1, <2>1 DEF HandlersInv, HandlerFits, HandlerRows, CoreInv, TypeInv, CountsInv
    <2>4. Supers \ {u} # {} \/ (row.role = Super /\ row.status = "enabled")
      BY <1>1, <2>1, <2>2 DEF SupersInv, Promised
    <2>5. CASE Supers \ {u} # {}
      <3>1. PICK v \in Supers : v # u
        BY <2>5
      <3>2. users'[v] = users[v]
        BY <1>1, <2>1, <2>2, <3>1 DEF Supers
      <3> QED BY <3>1, <3>2, SuperKept
    <2>6. CASE row.role = Super /\ row.status = "enabled"
      <3>1. w.state = "live" /\ w.type = row.type /\ w.status = "enabled" /\ w.role = Super
        <4>1. h[p].new => version < Passwords
          BY <2>1 DEF CountPassword
        <4> QED BY <2>2, <2>3, <2>6, <4>1, AccountsAssumption, WrittenRow
      <3>2. users'[u] = w
        BY <1>1, <2>1, <2>2, <2>3
      <3>3. row.type \in {"user", "api"}
        BY <2>3 DEF UserRows
      <3> HIDE DEF w
      <3>4. row.type = "user" => u \in Supers'
        BY <2>3, <3>1, <3>2 DEF Supers, There
      <3> QED BY <3>3, <3>4
    <2> QED BY <2>4, <2>5, <2>6
  <1>8. ASSUME NEW p \in Procs, Logins(ProfileWrite(p))
        PROVE  FALSE
    <2>1. PICK u \in Supers : u \in Users
      BY DEF Supers
    <2>2. /\ users'[u].state = users[u].state /\ users'[u].type = users[u].type
          /\ users'[u].status = users[u].status /\ users'[u].role = users[u].role
      BY <1>1, <1>8, <2>1 DEF Logins, ProfileWrite, UserRows
    <2> QED BY <2>1, <2>2, SuperKept
  <1>9. ASSUME NEW p \in Procs, Logins(CreateOIDCUser(p, Super))
        PROVE  FALSE
    <2>1. h[p].u \in Users
      BY <1>1, <1>9 DEF Logins, CreateOIDCUser, At, HandlersInv, HandlerFits
    <2> QED BY <1>2, <1>3, <1>9, <2>1 DEF Logins, CreateOIDCUser, Supers, There
  <1>10. ASSUME NEW p \in Procs, part = "setup", Accounts(SetupAdmin(p))
         PROVE  FALSE
    <2>1. h[p].u \in Users /\ users[h[p].u].state = "unused"
      BY <1>1, <1>10 DEF Accounts, SetupAdmin, At, HandlersInv, HandlerFits, SetupInv, BeforeAdmin
    <2> QED BY <1>3, <1>10, <2>1 DEF Accounts, SetupAdmin, Supers, There
  <1>11. ASSUME NEW s \in Sids, NEW on \in BOOLEAN, Logins(SetTOTP(s, Account, on))
         PROVE  FALSE
    <2>1. PICK u \in Supers : u \in Users
      BY DEF Supers
    <2>2. /\ users'[u].state = users[u].state /\ users'[u].type = users[u].type
          /\ users'[u].status = users[u].status /\ users'[u].role = users[u].role
      BY <1>1, <1>11, <2>1 DEF Logins, SetTOTP, UserRows
    <2> QED BY <2>1, <2>2, SuperKept
  <1> QED BY <1>2, <1>4, <1>5, <1>6, <1>7, <1>8, <1>9, <1>10, <1>11, RowWriters

\* While handlers run one after the other the last enabled super admin stays: update-user
\* and delete-users write only if the super admins they read are enough - unless a list
\* role of theirs is deleted, or they are made an API user.
THEOREM LastSuperCorrect == Spec => LastSuperStays
  <1>1. IdInv /\ [Next]_idVars =>
          [~overlapped' /\ Supers # {} /\ Supers' = {} =>
             \E p \in Procs : h'[p].op = "droprole" \/ h[p].row.type = "api"]_accountVars
    <2> SUFFICES ASSUME IdInv, [Next]_idVars, ~UNCHANGED accountVars,
                        ~overlapped', Supers # {}, Supers' = {}
                 PROVE  \E p \in Procs : h'[p].op = "droprole" \/ h[p].row.type = "api"
      OBVIOUS
    <2>1. Next
      BY DEF idVars
    <2> QED BY <2>1, SupersStay
  <1> QED BY <1>1, IdentityInvariant, PTL DEF Spec, LastSuperStays
===============================================================================
