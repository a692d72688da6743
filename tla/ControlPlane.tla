----------------------------- MODULE ControlPlane ------------------------------
(***************************************************************************)
(* The control plane: tenants, access and campaign workflow together.       *)
(*                                                                         *)
(* The database is one, but few of its transactions read what another part  *)
(* writes.  A behaviour of this specification keeps to one part, beginning   *)
(* in a state the others may have left; a part is a set of operations that   *)
(* do interleave.                                                            *)
(***************************************************************************)
EXTENDS TenantAccess, CampaignWorkflow

CONSTANTS Parts,       \* the parts explored
          Admin,       \* the owner of the first tenants, signed in
          Slug(_),     \* the slug of each of the first tenants
          HostOf(_),   \* the tenant of each custom domain
          First        \* the custom domain of the tenant that changes amid requests

\* Rows that refer to a user or a tenant refer to one that exists; slugs are unique.
ASSUME ControlPlaneAssumption ==
  /\ Admin \in Users /\ First \in Hosts /\ \A h \in Hosts : HostOf(h) \in Tenants
  /\ \A t \in Tenants : Slug(t) \in Slugs \ Reserved
  /\ \A t, u \in Tenants : t # u => Slug(t) # Slug(u)

VARIABLE part

cpVars == <<part, tenancyVars, accessVars, workflowVars>>

\* Active tenants that CreateTenant and CreateTenantDomain made, with domains that
\* have been verified where a part needs them.
Provisioned ==
  /\ tenant = [t \in Tenants |-> [status |-> "active", slug |-> Slug(t)]]
  /\ alias = [s \in Slugs |-> NoAlias]
  /\ domain = [h \in Hosts |->
       IF part = "domains" \/ (part = "requests" /\ h = First)
       THEN Verified([NoDomain EXCEPT !.tenant = HostOf(h)]) ELSE NoDomain]
  /\ plan = [t \in Tenants |-> "none"]
  /\ infra = [t \in Tenants |-> [mode |-> "none", version |-> 0, active |-> FALSE]]
  /\ overdue = <<>> /\ owned = Hosts
  /\ call = [c \in Calls |-> NoCall] /\ round = NoRound
  /\ moves = 0 /\ faults = 0

Init ==
  /\ part \in Parts
  /\ IF part = "slugs" THEN InitTenancy ELSE Provisioned
  /\ InitAccess(IF part = "requests" THEN Users ELSE {Admin}, Admin) /\ InitWorkflow

Tenancy(A) == A /\ UNCHANGED <<part, accessVars, workflowVars>>
Access(A) == A /\ UNCHANGED <<part, tenancyVars, workflowVars>>
Both(A) == A /\ UNCHANGED <<part, workflowVars>>

\* The administration that requests race with.
Meanwhile ==
  \/ \E s \in Slugs : Tenancy(ChangeTenantSlug(HostOf(First), s))
  \/ Tenancy(UpdateTenantStatus(HostOf(First), "suspended"))
  \/ Access(MarkUsed(Admin))
  \/ \E t \in Tenants : Access(ReplaceMembershipRoles(t, Admin, {<<t, "Billing Manager">>}))
  \/ \E u \in Users, r \in RolesOf(Platform) : Access(AssignPlatformRole(u, r))
  \/ \E t \in Tenants : Access(DenyRolePermission(t, Owner(t)))

RolePlans ==
  \/ \E c \in Calls, t \in Tenants : RolePlan(c, t)
  \/ \E c \in Calls, with \in BOOLEAN : CreateTenantRole(c, with)

Next ==
  \/ part = "slugs" /\ Tenancy(NextSlugs)
  \/ part = "domains" /\ Tenancy(NextDomains)
  \/ part = "certificates" /\ Tenancy(NextCertificates)
  \/ part = "plans" /\ (Tenancy(NextPlans) \/ Both(RolePlans))
  \/ part = "roles" /\ Access(NextRoles)
  \/ part = "recovery" /\ Access(NextRecovery)
  \/ part = "requests" /\ (Access(NextRequests) \/ Meanwhile)
  \/ part = "workflow" /\ NextWorkflow /\ UNCHANGED <<part, tenancyVars, accessVars>>

\* The goroutine of cmd/main.go runs on, calls end, and days pass.
Fairness ==
  /\ WF_cpVars(part = "domains" /\ Tenancy(RevalidateStep))
  /\ \A c \in Calls : WF_cpVars(part = "domains" /\ Tenancy(VerifyWrite(c)))
  /\ \A h \in Hosts : WF_cpVars(part = "domains" /\ Tenancy(CheckDue(h)))

Spec == Init /\ [][Next]_cpVars /\ Fairness
===============================================================================
