----------------------------- MODULE TenantAccess ------------------------------
(***************************************************************************)
(* Who may do what in a tenant: memberships, roles and denials, platform    *)
(* roles, second factors and recovery codes, impersonation grants, API keys *)
(* and incidents (internal/mailview/control), the endpoints of              *)
(* cmd/mailview.go and mailview_phase4.go that keep them, and the request    *)
(* that mailviewRequestContextFor of cmd/mailview_dataplane.go lets through. *)
(*                                                                         *)
(* A role id is a tenant and a name, or Platform and a name.  One            *)
(* permission stands for those of a tenant, one for those of the platform.   *)
(***************************************************************************)
EXTENDS Tenancy

CONSTANTS
  Users,          \* users that are enabled and of type user
  Platform,       \* the tenant of a platform role
  Grants, Keys,   \* ids of impersonation grants and API keys
  Codes,          \* recovery codes
  Requests, Logins,  \* requests, and logins with a recovery code, in progress
  NoUser, NoGrant,
  Edits           \* bound: changes of memberships, roles and grants

ASSUME TenantAccessAssumption ==
  /\ Platform \notin Tenants \cup {NoTenant} /\ NoUser \notin Users /\ NoGrant \notin Grants
  /\ Edits \in Nat

\* The seeded roles with and without the permission, and a custom role.
RoleNames == {"Tenant Owner", "Billing Manager", "custom"}
RoleIds == (Tenants \X RoleNames) \cup {<<Platform, "support">>}
RolesOf(t) == {r \in RoleIds : r[1] = t}

VARIABLES
  granted,    \* mv_role_permissions: the tenant roles with the permission
  denied,     \* mv_role_permission_denials: those with a denial of it
  made,       \* the custom roles there are
  member,     \* mv_membership_roles: roles of each membership, {} without one
  platform,   \* mv_platform_role_assignments of each user
  session,    \* users with a session
  mfa,        \* mv_mfa_methods: none, enrolled, or used within the window
  codes,      \* mv_mfa_recovery_codes: state of each user's codes
  login,      \* logins with a recovery code between two statements
  grant,      \* mv_impersonation_grants: the row of each id
  apikey,     \* mv_api_keys: the row of each id
  incident,   \* whether the incident is none, open or resolved
  req,        \* tenant requests between two queries
  edits

accessVars == <<granted, denied, made, member, platform, session, mfa, codes, login,
                grant, apikey, incident, req, edits>>

UnusedGrant == [tenant |-> NoTenant, actor |-> NoUser, target |-> NoUser,
                needs |-> FALSE, approver |-> NoUser, live |-> FALSE]
UnusedKey == [tenant |-> NoTenant, live |-> FALSE]
NoReq == [pc |-> Idle, tenant |-> NoTenant, user |-> NoUser, grant |-> NoGrant, as |-> NoUser]
NoLogin == [pc |-> Idle, user |-> NoUser, code |-> Idle]
Owner(t) == <<t, "Tenant Owner">>

\* The state seedTenantRoles and CreateTenant leave: a role with every
\* permission and one without, and its owners the members of each tenant; one
\* user is of the platform's staff, and users are signed in and have a second factor.
InitAccess(owners, staff) ==
  /\ granted = {Owner(t) : t \in Tenants} /\ denied = {} /\ made = {}
  /\ member = [t \in Tenants |-> [u \in Users |-> IF u \in owners THEN {Owner(t)} ELSE {}]]
  /\ platform = [u \in Users |-> IF u = staff THEN {<<Platform, "support">>} ELSE {}]
  /\ session = Users
  /\ mfa = [u \in Users |-> "enrolled"]
  /\ codes = [u \in Users |-> [c \in Codes |-> "none"]]
  /\ login = [r \in Logins |-> NoLogin]
  /\ grant = [g \in Grants |-> UnusedGrant] /\ apikey = [k \in Keys |-> UnusedKey]
  /\ incident = "none" /\ req = [r \in Requests |-> NoReq] /\ edits = 0

Edit == edits < Edits /\ edits' = edits + 1

-----------------------------------------------------------------------------
(* Memberships, roles and denials: service.go, admin_ops.go, rbac.go *)

RoleExists(r) == r \in RoleIds /\ (r[2] = "custom" => r \in made)
IsMember(t, u) == member[t][u] # {}

\* Variant: the tenant of the roles is not looked at.
ValidRolesAnywhere(t, R) == \A r \in R : RoleExists(r)

\* validateRoles: the roles of this tenant among the ids are as many as the ids.
ValidRoles(t, R) == \A r \in R : RoleExists(r) /\ r \in RolesOf(t)

CreateMembership(t, u, R) ==
  /\ Edit /\ R # {} /\ Exists(t) /\ ValidRoles(t, R) /\ ~IsMember(t, u)
  /\ member' = [member EXCEPT ![t][u] = R]
  /\ UNCHANGED <<granted, denied, made, platform, session, mfa, codes, login, grant, apikey,
                 incident, req>>

\* ReplaceMailViewMembershipRoles commits the roles and then deletes the
\* sessions; a failure of that is logged.
ReplaceMembershipRoles(t, u, R) ==
  /\ Edit /\ R # {} /\ IsMember(t, u) /\ ValidRoles(t, R)
  /\ member' = [member EXCEPT ![t][u] = R]
  /\ session' \in {session, session \ {u}}
  /\ UNCHANGED <<granted, denied, made, platform, mfa, codes, login, grant, apikey, incident, req>>

\* The former owner keeps the role.
ResetTenantOwner(t, u) ==
  /\ Edit /\ Exists(t) /\ member' = [member EXCEPT ![t][u] = @ \cup {Owner(t)}]
  /\ session' \in {session, session \ {u}}
  /\ UNCHANGED <<granted, denied, made, platform, mfa, codes, login, grant, apikey, incident, req>>

\* CreateTenantRole reads the plan (a plan that is missing is QuotaMiss),
RolePlan(c, t) ==
  /\ call[c] = NoCall /\ Exists(t) /\ plan[t] = "growth"
  /\ call' = [call EXCEPT ![c] = [op |-> "role", on |-> t, ok |-> TRUE]]
  /\ UNCHANGED <<tenant, alias, domain, plan, infra, overdue, owned, round, moves, faults, accessVars>>

\* and makes the role in a transaction.
CreateTenantRole(c, with) ==
  LET r == <<call[c].on, "custom">> IN
  /\ call[c].op = "role" /\ r \notin made /\ Edit /\ made' = made \cup {r}
  /\ granted' = IF with THEN granted \cup {r} ELSE granted
  /\ call' = [call EXCEPT ![c] = NoCall]
  /\ UNCHANGED <<tenant, alias, domain, plan, infra, overdue, owned, round, moves, faults>>
  /\ UNCHANGED <<denied, member, platform, session, mfa, codes, login, grant, apikey, incident, req>>

DenyRolePermission(t, r) ==
  /\ Edit /\ RoleExists(r) /\ r \in RolesOf(t) /\ denied' = denied \cup {r}
  /\ UNCHANGED <<granted, made, member, platform, session, mfa, codes, login, grant, apikey,
                 incident, req>>

AllowRolePermission(t, r) ==
  /\ Edit /\ r \in RolesOf(t) /\ denied' = denied \ {r}
  /\ UNCHANGED <<granted, made, member, platform, session, mfa, codes, login, grant, apikey,
                 incident, req>>

\* The two queries of HasTenantPermission: a denial on any role wins.
DeniedTo(t, u) == member[t][u] \cap denied # {}
GrantedTo(t, u) == member[t][u] \cap granted # {}
HasTenantPermission(t, u) == ~DeniedTo(t, u) /\ GrantedTo(t, u)

\* platform.go
PlatformRole(r) == r \in RoleIds /\ r[1] = Platform
AssignPlatformRole(u, r) ==
  /\ Edit /\ PlatformRole(r) /\ platform' = [platform EXCEPT ![u] = @ \cup {r}]
  /\ UNCHANGED <<granted, denied, made, member, session, mfa, codes, login, grant, apikey,
                 incident, req>>
RevokePlatformRole(u, r) ==
  /\ Edit /\ r \in platform[u] /\ platform' = [platform EXCEPT ![u] = @ \ {r}]
  /\ UNCHANGED <<granted, denied, made, member, session, mfa, codes, login, grant, apikey,
                 incident, req>>
HasPlatformPermission(u) == platform[u] # {}

\* incidents.go
CreateIncident ==
  /\ incident # "open" /\ incident' = "open"
  /\ UNCHANGED <<granted, denied, made, member, platform, session, mfa, codes, login, grant,
                 apikey, req, edits>>
ResolveIncident ==
  /\ incident = "open" /\ incident' = "resolved"
  /\ UNCHANGED <<granted, denied, made, member, platform, session, mfa, codes, login, grant,
                 apikey, req, edits>>

-----------------------------------------------------------------------------
(* Second factors and recovery codes: mfa.go, service.go *)

SetMFA(u, state) ==
  /\ mfa' = [mfa EXCEPT ![u] = state]
  /\ UNCHANGED <<granted, denied, made, member, platform, session, codes, login, grant, apikey,
                 incident, req>>
\* Enrolling again forgets when the factor was used.
EnableTOTP(u) == Edit /\ SetMFA(u, "enrolled")
DisableTOTP(u) == Edit /\ SetMFA(u, "none")
MarkUsed(u) == mfa[u] # "none" /\ SetMFA(u, "recent") /\ UNCHANGED edits
RecencyPasses(u) == mfa[u] = "recent" /\ SetMFA(u, "enrolled") /\ UNCHANGED edits

\* Replaces the codes not used yet with new ones.
GenerateRecoveryCodes(u, new) ==
  /\ Edit /\ mfa[u] # "none" /\ \A c \in new : codes[u][c] = "none"
  /\ \A r \in Logins : login[r].user # u \/ login[r].pc # "locked"
  /\ codes' = [codes EXCEPT ![u] = [c \in Codes |->
       IF c \in new THEN "unused" ELSE IF @[c] = "unused" THEN "deleted" ELSE @[c]]]
  /\ UNCHANGED <<granted, denied, made, member, platform, session, mfa, login, grant, apikey,
                 incident, req>>

\* UseRecoveryCode: a login arrives with a code,
RecoveryStart(r, u, c) ==
  /\ login[r] = NoLogin /\ login' = [login EXCEPT ![r] = [pc |-> "asked", user |-> u, code |-> c]]
  /\ UNCHANGED <<granted, denied, made, member, platform, session, mfa, codes, grant, apikey,
                 incident, req, edits>>

\* Variant: the codes are read without FOR UPDATE.
LockIgnored(u) == TRUE

\* locks the user's unused codes once no other transaction has them (and reads
\* them as they are then), and marks the one that matches
LockFree(u) == \A r \in Logins : ~(login[r].pc = "locked" /\ login[r].user = u)
RecoveryLock(r) ==
  LET q == login[r] IN
  /\ q.pc = "asked" /\ LockFree(q.user)
  /\ login' = [login EXCEPT ![r] =
       IF codes[q.user][q.code] = "unused" THEN [q EXCEPT !.pc = "locked"] ELSE NoLogin]
  /\ UNCHANGED <<granted, denied, made, member, platform, session, mfa, codes, grant, apikey,
                 incident, req, edits>>

\* before it commits and the login succeeds, or the transaction is rolled back.
RecoveryCommit(r) ==
  LET q == login[r] IN
  /\ q.pc = "locked" /\ codes' = [codes EXCEPT ![q.user][q.code] = "used"]
  /\ login' = [login EXCEPT ![r].pc = "in"] /\ session' = session \cup {q.user}
  /\ UNCHANGED <<granted, denied, made, member, platform, mfa, grant, apikey, incident, req, edits>>
RecoveryRollback(r) ==
  /\ login[r].pc = "locked" /\ login' = [login EXCEPT ![r] = NoLogin]
  /\ UNCHANGED <<granted, denied, made, member, platform, session, mfa, codes, grant, apikey,
                 incident, req, edits>>

-----------------------------------------------------------------------------
(* Impersonation and API keys: impersonation.go, api_keys.go *)

\* The endpoints ask for the platform permission.
StartImpersonation(g, t, actor, target, needs) ==
  /\ Edit /\ grant[g] = UnusedGrant /\ HasPlatformPermission(actor) /\ target # actor
  /\ mfa[actor] = "recent" /\ IsMember(t, target)
  /\ grant' = [grant EXCEPT ![g] = [tenant |-> t, actor |-> actor, target |-> target,
                 needs |-> needs, approver |-> NoUser, live |-> TRUE]]
  /\ UNCHANGED <<granted, denied, made, member, platform, session, mfa, codes, login, apikey,
                 incident, req>>

Approvable(g, u) ==
  grant[g].live /\ grant[g].needs /\ grant[g].approver = NoUser /\ grant[g].actor # u
ApproveImpersonation(g, u) ==
  /\ Edit /\ HasPlatformPermission(u) /\ Approvable(g, u)
  /\ grant' = [grant EXCEPT ![g].approver = u]
  /\ UNCHANGED <<granted, denied, made, member, platform, session, mfa, codes, login, apikey,
                 incident, req>>

\* RevokeImpersonation, or expires_at passes.
EndImpersonation(g) ==
  /\ grant[g].live /\ grant' = [grant EXCEPT ![g].live = FALSE]
  /\ UNCHANGED <<granted, denied, made, member, platform, session, mfa, codes, login, apikey,
                 incident, req, edits>>

\* ValidateImpersonationGrant
ValidGrant(g, u) ==
  grant[g].actor = u /\ grant[g].live /\ (grant[g].needs => grant[g].approver # NoUser)

\* The key's permission must be one the user has, of those of the user that
\* asks, not of the one it may act as.
CreateAPIKey(k, r) ==
  LET q == req[r] IN
  /\ q.pc = "served" /\ apikey[k] = UnusedKey /\ HasTenantPermission(q.tenant, q.user)
  /\ apikey' = [apikey EXCEPT ![k] = [tenant |-> q.tenant, live |-> TRUE]]
  /\ req' = [req EXCEPT ![r] = NoReq]
  /\ UNCHANGED <<granted, denied, made, member, platform, session, mfa, codes, login, grant,
                 incident, edits>>
RevokeAPIKey(k, r) ==
  /\ req[r].pc = "served" /\ apikey[k].live /\ apikey[k].tenant = req[r].tenant
  /\ apikey' = [apikey EXCEPT ![k].live = FALSE] /\ req' = [req EXCEPT ![r] = NoReq]
  /\ UNCHANGED <<granted, denied, made, member, platform, session, mfa, codes, login, grant,
                 incident, edits>>

-----------------------------------------------------------------------------
(* mailviewRequestContextFor: one query each *)

Step(r, q) ==
  /\ req' = [req EXCEPT ![r] = q]
  /\ UNCHANGED <<granted, denied, made, member, platform, session, mfa, codes, login, grant,
                 apikey, incident, edits>>

\* The tenant of the host; an alias is answered with a redirect, after which
\* mailviewDataPerm goes on with the handler of the platform host.
ReqHost(r, host, u, g) ==
  LET t == ResolveMailviewTenantHost(host) IN
  /\ req[r] = NoReq /\ u \in session /\ t # NoTenant /\ Active(t)
  /\ Step(r, [pc |-> IF RedirectCanonicalTenantHost(host, t) THEN "unscoped"
                     ELSE IF g # NoGrant THEN "grant" ELSE "member",
              tenant |-> t, user |-> u, grant |-> g, as |-> u])

\* Variant: the grant of any tenant will do.
CoversAnyTenant(g, t) == TRUE
CoversTenant(g, t) == grant[g].tenant = t
ReqGrant(r) ==
  LET q == req[r] IN
  /\ q.pc = "grant"
  /\ Step(r, IF ValidGrant(q.grant, q.user) /\ CoversTenant(q.grant, q.tenant)
             THEN [q EXCEPT !.pc = "member", !.as = grant[q.grant].target] ELSE NoReq)
ReqMember(r) ==
  LET q == req[r] IN
  q.pc = "member" /\ Step(r, IF IsMember(q.tenant, q.as) THEN [q EXCEPT !.pc = "denied"] ELSE NoReq)
ReqDenied(r) ==
  LET q == req[r] IN
  q.pc = "denied" /\ Step(r, IF DeniedTo(q.tenant, q.as) THEN NoReq ELSE [q EXCEPT !.pc = "granted"])
ReqGranted(r) ==
  LET q == req[r] IN
  q.pc = "granted" /\ Step(r, IF GrantedTo(q.tenant, q.as) THEN [q EXCEPT !.pc = "served"] ELSE NoReq)
ReqEnd(r) == req[r].pc \in {"served", "unscoped"} /\ Step(r, NoReq)

-----------------------------------------------------------------------------
NextRoles ==
  \/ \E t \in Tenants, u \in Users :
       \/ \E R \in SUBSET RoleIds :
            Cardinality(R) <= 2 /\ (CreateMembership(t, u, R) \/ ReplaceMembershipRoles(t, u, R))
       \/ ResetTenantOwner(t, u)
  \/ \E t \in Tenants, r \in RoleIds : DenyRolePermission(t, r) \/ AllowRolePermission(t, r)
  \/ \E u \in Users, r \in RoleIds : AssignPlatformRole(u, r) \/ RevokePlatformRole(u, r)
  \/ CreateIncident \/ ResolveIncident

NextRecovery ==
  \/ \E u \in Users : EnableTOTP(u) \/ DisableTOTP(u) \/ MarkUsed(u) \/ RecencyPasses(u)
  \/ \E u \in Users, new \in SUBSET Codes : GenerateRecoveryCodes(u, new)
  \/ \E r \in Logins :
       \/ \E u \in Users, c \in Codes : RecoveryStart(r, u, c)
       \/ RecoveryLock(r) \/ RecoveryCommit(r) \/ RecoveryRollback(r)

NextRequests ==
  \/ \E g \in Grants, t \in Tenants, u \in Users, v \in Users, needs \in BOOLEAN :
       StartImpersonation(g, t, u, v, needs)
  \/ \E g \in Grants : EndImpersonation(g) \/ \E u \in Users : ApproveImpersonation(g, u)
  \/ \E r \in Requests :
       \/ \E host \in Slugs \cup Hosts, u \in Users, g \in Grants \cup {NoGrant} :
            ReqHost(r, host, u, g)
       \/ ReqGrant(r) \/ ReqMember(r) \/ ReqDenied(r) \/ ReqGranted(r) \/ ReqEnd(r)
       \/ \E k \in Keys : CreateAPIKey(k, r) \/ RevokeAPIKey(k, r)

-----------------------------------------------------------------------------

\* No foreign key ties the roles of a membership to its tenant, and
\* HasTenantPermission joins them without looking: a membership never comes to
\* hold a role of another tenant or of the platform, nor a platform assignment
\* a tenant's role.
RolesStayHome ==
  /\ \A t \in Tenants, u \in Users : member[t][u] \subseteq RolesOf(t)
  /\ \A u \in Users : platform[u] \subseteq RolesOf(Platform)

\* A recovery code logs in once, whatever logins race for it and however often
\* the codes are replaced (UseRecoveryCode: "concurrent login attempts cannot
\* reuse the same code").
CodesLogInOnce ==
  \A q, r \in Logins :
    q # r /\ login[q].pc = "in" /\ login[r].pc = "in" /\ login[q].user = login[r].user
      => login[q].code # login[r].code

\* A request served under a grant acts as the target of that grant, in the
\* grant's tenant, for the user that opened it, and if the grant needed a
\* second pair of eyes it had those of another user.
ImpersonationScoped ==
  \A r \in Requests :
    LET q == req[r] g == grant[q.grant] IN
    q.pc = "served" /\ q.as # q.user =>
      /\ q.grant \in Grants /\ g.tenant = q.tenant /\ g.actor = q.user /\ g.target = q.as
      /\ g.needs => g.approver \in Users \ {q.user}
===============================================================================
