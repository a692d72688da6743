-------------------------------- MODULE Tenancy --------------------------------
(***************************************************************************)
(* The tenants of internal/mailview/control: their slugs and aliases, their *)
(* own domains, their plan and infrastructure, and the tenant that the host *)
(* of a request selects.                                                    *)
(*                                                                         *)
(* A transaction is one step; what a call reads before its transaction, or  *)
(* between two of them, is a step of its own.  Names, purposes, tokens,      *)
(* audit rows and the sizes of a plan are left out.                         *)
(***************************************************************************)
EXTENDS Naturals, Sequences, FiniteSets

CONSTANTS
  Tenants, Slugs, Hosts,  \* ids of tenants, slugs, names of custom domains
  Reserved,               \* the slugs NormalizeSlug or mv_reserved_slugs refuse
  Calls,                  \* control plane calls in progress at once
  NoTenant,               \* no tenant
  Rank,                   \* place of each tenant in ORDER BY id
  Limit,                  \* domains RevalidateDueDomains checks in a round
  Moves,                  \* bound: changes of the DNS
  Routes,                 \* bound: routing version of a tenant
  Faults                  \* bound: rounds of revalidation that fail

NoSlug == "no slug"

ASSUME TenancyAssumption ==
  /\ NoTenant \notin Tenants /\ Reserved \subseteq Slugs /\ NoSlug \notin Slugs
  /\ Rank \in [Tenants -> Nat] /\ \A t, u \in Tenants : Rank[t] = Rank[u] => t = u
  /\ Limit \in Nat \ {0} /\ Moves \in Nat /\ Routes \in Nat /\ Faults \in Nat

TenantStatuses == {"none", "active", "suspended"}
TLSStatuses == {"none", "pending", "issued", "failed", "revoked"}
Plans == {"none", "starter", "growth"}
Modes == {"none", "shared", "dedicated_requested", "dedicated"}
Idle == "idle"

VARIABLES
  tenant,   \* mv_tenants: status and slug of each id
  alias,    \* mv_tenant_slug_history: the row of each old slug
  domain,   \* mv_tenant_domains: the row of each hostname, unique in the table
  plan,     \* mv_tenant_quotas: plan of each tenant
  infra,    \* mv_tenant_infrastructure: the row of each tenant
  overdue,  \* verified domains whose next_check_at has passed, the earliest first
  owned,    \* the hostnames whose DNS record holds the value of their row
  call,     \* calls between two steps
  round,    \* the round of the revalidation goroutine
  moves, faults

tenancyVars == <<tenant, alias, domain, plan, infra, overdue, owned, call, round, moves, faults>>

NoAlias == [tenant |-> NoTenant, to |-> NoSlug, live |-> FALSE]
NoDomain == [tenant |-> NoTenant, status |-> "none", tls |-> "none", cert |-> FALSE]
NoCall == [op |-> Idle, on |-> Idle, ok |-> FALSE]
NoRound == [tenants |-> {}, due |-> <<>>, checked |-> 0, on |-> Idle, ok |-> FALSE]

InitTenancy ==
  /\ tenant = [t \in Tenants |-> [status |-> "none", slug |-> NoSlug]]
  /\ alias = [s \in Slugs |-> NoAlias]
  /\ domain = [h \in Hosts |-> NoDomain]
  /\ plan = [t \in Tenants |-> "none"]
  /\ infra = [t \in Tenants |-> [mode |-> "none", version |-> 0, active |-> FALSE]]
  /\ overdue = <<>> /\ owned = {} /\ call = [c \in Calls |-> NoCall] /\ round = NoRound
  /\ moves = 0 /\ faults = 0

Exists(t) == tenant[t].status # "none"
Active(t) == Exists(t) /\ tenant[t].status = "active"

-----------------------------------------------------------------------------
(* internal/mailview/control/service.go and slugs.go: tenants and slugs *)

NormalizeSlug(s) == s \notin Reserved
HasSlug(s) == \E t \in Tenants : tenant[t].slug = s
HasAlias(s) == alias[s] # NoAlias

\* mv_tenants.slug is UNIQUE; the history is not consulted.
FreeForNew(s) == ~HasSlug(s)

CreateTenant(t, s) ==
  /\ ~Exists(t) /\ NormalizeSlug(s) /\ FreeForNew(s)
  /\ tenant' = [tenant EXCEPT ![t] = [status |-> "active", slug |-> s]]
  /\ UNCHANGED <<alias, domain, plan, infra, overdue, owned, call, round, moves, faults>>

\* Any status may be written over any other.
UpdateTenantStatus(t, status) ==
  /\ Exists(t) /\ status \in TenantStatuses \ {"none"}
  /\ tenant' = [tenant EXCEPT ![t].status = status]
  /\ UNCHANGED <<alias, domain, plan, infra, overdue, owned, call, round, moves, faults>>

\* Variant: the aliases are not looked at.
OccupiedNow(s) == HasSlug(s)

\* Neither a slug nor an alias of any tenant, expired or not.
Occupied(s) == HasSlug(s) \/ HasAlias(s)

\* old_slug is UNIQUE: a tenant whose slug is another's alias cannot move.
ChangeTenantSlug(t, s) ==
  LET old == tenant[t].slug IN
  /\ Exists(t) /\ NormalizeSlug(s) /\ s # old /\ ~Occupied(s) /\ ~HasAlias(old)
  /\ alias' = [alias EXCEPT ![old] = [tenant |-> t, to |-> s, live |-> TRUE]]
  /\ tenant' = [tenant EXCEPT ![t].slug = s]
  /\ UNCHANGED <<domain, plan, infra, overdue, owned, call, round, moves, faults>>

\* redirect_until passes.
AliasExpires(s) ==
  /\ alias[s].live /\ alias' = [alias EXCEPT ![s].live = FALSE]
  /\ UNCHANGED <<tenant, domain, plan, infra, overdue, owned, call, round, moves, faults>>

\* The tenant of a slug, or of an alias in time.  (Both statements in one: a
\* slug leaves one table and enters the other in one transaction.)
ResolveTenantSlug(s) ==
  IF HasSlug(s) THEN CHOOSE t \in Tenants : tenant[t].slug = s
  ELSE IF alias[s].live THEN alias[s].tenant ELSE NoTenant

GetTenantByVerifiedHostname(h) ==
  IF domain[h].status = "verified" /\ Active(domain[h].tenant) THEN domain[h].tenant
  ELSE NoTenant

\* cmd/mailview_dataplane.go: a host is a slug below the base domain, or a
\* custom domain,
ResolveMailviewTenantHost(host) ==
  IF host \in Slugs THEN ResolveTenantSlug(host) ELSE GetTenantByVerifiedHostname(host)

\* and one that is an alias is sent to the host of the slug.
RedirectCanonicalTenantHost(host, t) == host \in Slugs /\ tenant[t].slug # host

-----------------------------------------------------------------------------
(* internal/mailview/control/domains.go: custom domains *)

\* CreateTenantDomain; owners is the active members with the owner's role.
CreateTenantDomain(t, h, owners) ==
  /\ Exists(t) /\ owners # {} /\ domain[h] = NoDomain
  /\ domain' = [domain EXCEPT ![h] = [NoDomain EXCEPT !.tenant = t, !.status = "pending"]]
  /\ UNCHANGED <<tenant, alias, plan, infra, overdue, owned, call, round, moves, faults>>

\* updateTenantDomainStatus, whatever the row says by then.
Verified(d) == [d EXCEPT !.status = "verified",
                  !.tls = IF @ = "issued" THEN "issued" ELSE "pending"]
Lost(d, status) == [d EXCEPT !.status = status, !.tls = "revoked", !.cert = FALSE]
UpdateTenantDomainStatus(h, status) ==
  /\ domain' = [domain EXCEPT ![h] = IF status = "verified" THEN Verified(@) ELSE Lost(@, status)]
  /\ overdue' = SelectSeq(overdue, LAMBDA g : g # h)

RevokeTenantDomain(h) ==
  /\ domain[h] # NoDomain /\ UpdateTenantDomainStatus(h, "revoked")
  /\ UNCHANGED <<tenant, alias, plan, infra, owned, call, round, moves, faults>>

\* lookupDomainOwnership, or a resolver that answers with an error.
LookupAnswers(h) == {FALSE} \cup {(h \in owned)}

\* VerifyTenantDomainDNS reads the row and asks the DNS,
VerifyLookup(c, h) ==
  /\ call[c] = NoCall /\ domain[h] # NoDomain
  /\ \E answer \in LookupAnswers(h) :
       call' = [call EXCEPT ![c] = [op |-> "verify", on |-> h, ok |-> answer]]
  /\ UNCHANGED <<tenant, alias, domain, plan, infra, overdue, owned, round, moves, faults>>

\* and writes the answer.
VerifyWrite(c) ==
  /\ call[c].op = "verify"
  /\ UpdateTenantDomainStatus(call[c].on, IF call[c].ok THEN "verified" ELSE "failed")
  /\ call' = [call EXCEPT ![c] = NoCall]
  /\ UNCHANGED <<tenant, alias, plan, infra, owned, round, moves, faults>>

WriteTLS(h, status) ==
  domain' = [domain EXCEPT ![h].tls = status,
    ![h].cert = CASE status = "issued" -> TRUE [] status = "revoked" -> FALSE [] OTHER -> @]

\* SetTenantDomainTLSStatus with a status that needs no check.
SetTenantDomainTLSStatus(h, status) ==
  /\ domain[h] # NoDomain /\ status \in {"pending", "failed", "revoked"} /\ WriteTLS(h, status)
  /\ UNCHANGED <<tenant, alias, plan, infra, overdue, owned, call, round, moves, faults>>

\* An issued certificate is checked in one transaction and written in another.
IssueCheck(c, h) ==
  /\ call[c] = NoCall /\ domain[h].status = "verified"
  /\ call' = [call EXCEPT ![c] = [op |-> "issue", on |-> h, ok |-> TRUE]]
  /\ UNCHANGED <<tenant, alias, domain, plan, infra, overdue, owned, round, moves, faults>>
IssueWrite(c) ==
  /\ call[c].op = "issue" /\ WriteTLS(call[c].on, "issued")
  /\ call' = [call EXCEPT ![c] = NoCall]
  /\ UNCHANGED <<tenant, alias, plan, infra, overdue, owned, round, moves, faults>>

\* next_check_at passes.
CheckDue(h) ==
  /\ domain[h].status = "verified" /\ \A i \in DOMAIN overdue : overdue[i] # h
  /\ overdue' = Append(overdue, h)
  /\ UNCHANGED <<tenant, alias, domain, plan, infra, owned, call, round, moves, faults>>

\* The owner of a hostname publishes the record, or it is gone.
DNSMoves(h) ==
  /\ moves < Moves /\ moves' = moves + 1
  /\ owned' = IF h \in owned THEN owned \ {h} ELSE owned \cup {h}
  /\ UNCHANGED <<tenant, alias, domain, plan, infra, overdue, call, round, faults>>

\* RevalidateDueDomains, of the ticker of cmd/main.go or of its endpoint: the
\* active tenants,
RevalidateStart ==
  /\ round = NoRound /\ \E t \in Tenants : Active(t)
  /\ round' = [NoRound EXCEPT !.tenants = {t \in Tenants : Active(t)}]
  /\ UNCHANGED <<tenant, alias, domain, plan, infra, overdue, owned, call, moves, faults>>

\* Variant: domains that are not verified are looked up again, those that are never.
DueOfUnverified(t) ==
  SelectSeq(overdue, LAMBDA h : domain[h].tenant = t /\ domain[h].status = "failed")

\* and of each, in the order of the ids, the domains that have been due longest,
\* as many as the limit leaves room for:
DueOf(t) ==
  SelectSeq(overdue, LAMBDA h : domain[h].tenant = t /\ domain[h].status = "verified")
RevalidateTenant(t) ==
  /\ t \in round.tenants /\ \A u \in round.tenants : Rank[t] <= Rank[u]
  /\ round.due = <<>> /\ round.on = Idle /\ round.checked < Limit
  /\ LET left == Limit - round.checked
         due == DueOf(t)
     IN round' = [round EXCEPT !.tenants = @ \ {t},
                    !.due = IF Len(due) > left THEN SubSeq(due, 1, left) ELSE due]
  /\ UNCHANGED <<tenant, alias, domain, plan, infra, overdue, owned, call, moves, faults>>

\* each is looked up
RevalidateLookup ==
  /\ round.due # <<>> /\ round.on = Idle
  /\ \E answer \in LookupAnswers(Head(round.due)) :
       round' = [round EXCEPT !.on = Head(round.due), !.ok = answer]
  /\ UNCHANGED <<tenant, alias, domain, plan, infra, overdue, owned, call, moves, faults>>

\* and written.
RevalidateWrite ==
  /\ round.on # Idle
  /\ UpdateTenantDomainStatus(round.on, IF round.ok THEN "verified" ELSE "failed")
  /\ round' = [round EXCEPT !.due = Tail(@), !.checked = @ + 1, !.on = Idle, !.ok = FALSE]
  /\ UNCHANGED <<tenant, alias, plan, infra, owned, call, moves, faults>>

\* The tenants that remain when the limit is used up are not looked at.
RevalidateEnd ==
  /\ round # NoRound /\ round.due = <<>> /\ round.on = Idle
  /\ round.tenants = {} \/ round.checked >= Limit
  /\ round' = NoRound
  /\ UNCHANGED <<tenant, alias, domain, plan, infra, overdue, owned, call, moves, faults>>

\* The first error ends the round.
RevalidateFault ==
  /\ round # NoRound /\ faults < Faults /\ faults' = faults + 1 /\ round' = NoRound
  /\ UNCHANGED <<tenant, alias, domain, plan, infra, overdue, owned, call, moves>>

-----------------------------------------------------------------------------
(* internal/mailview/control/domains.go and admin_ops.go: plan and routing *)

SetTenantQuotaPlan(t, p) ==
  /\ Exists(t) /\ p \in Plans \ {"none"} /\ plan' = [plan EXCEPT ![t] = p]
  /\ UNCHANGED <<tenant, alias, domain, infra, overdue, owned, call, round, moves, faults>>

\* GetTenantQuota finds no row,
QuotaMiss(c, t) ==
  /\ call[c] = NoCall /\ Exists(t) /\ plan[t] = "none"
  /\ call' = [call EXCEPT ![c] = [op |-> "quota", on |-> t, ok |-> FALSE]]
  /\ UNCHANGED <<tenant, alias, domain, plan, infra, overdue, owned, round, moves, faults>>

\* and sets the default, over a plan set meanwhile.
DefaultPlan == "starter"
QuotaDefault(c) ==
  /\ call[c].op = "quota" /\ plan' = [plan EXCEPT ![call[c].on] = DefaultPlan]
  /\ call' = [call EXCEPT ![c] = NoCall]
  /\ UNCHANGED <<tenant, alias, domain, infra, overdue, owned, round, moves, faults>>

\* refs: every reference of the input is given.
Configured(i, mode) ==
  [mode |-> mode, version |-> i.version + 1, active |-> mode = "dedicated"]
ConfigureTenantInfrastructure(t, mode, refs) ==
  /\ Exists(t) /\ mode \in Modes \ {"none"} /\ (mode = "dedicated" => refs)
  /\ infra[t].version < Routes
  /\ infra' = [infra EXCEPT ![t] = Configured(@, mode)]
  /\ UNCHANGED <<tenant, alias, domain, plan, overdue, owned, call, round, moves, faults>>

-----------------------------------------------------------------------------
(* The next steps: of slugs, of domains, and of their certificates. *)

NextSlugs ==
  \/ \E t \in Tenants, s \in Slugs : CreateTenant(t, s) \/ ChangeTenantSlug(t, s)
  \/ \E s \in Slugs : AliasExpires(s)

Verification ==
  \/ \E c \in Calls, h \in Hosts : VerifyLookup(c, h)
  \/ \E c \in Calls : VerifyWrite(c)
  \/ \E h \in Hosts : RevokeTenantDomain(h)

RevalidateStep ==
  \/ RevalidateStart \/ RevalidateLookup \/ RevalidateWrite \/ RevalidateEnd
  \/ \E t \in Tenants : RevalidateTenant(t)

NextDomains ==
  \/ Verification \/ RevalidateStep \/ RevalidateFault
  \/ \E t \in Tenants, status \in TenantStatuses : UpdateTenantStatus(t, status)
  \/ \E h \in Hosts : CheckDue(h) \/ DNSMoves(h)

NextCertificates ==
  \/ Verification
  \/ \E t \in Tenants, h \in Hosts : CreateTenantDomain(t, h, {t})
  \/ \E h \in Hosts, status \in TLSStatuses : SetTenantDomainTLSStatus(h, status)
  \/ \E c \in Calls, h \in Hosts : IssueCheck(c, h)
  \/ \E c \in Calls : IssueWrite(c)

NextPlans ==
  \/ \E t \in Tenants, p \in Plans : SetTenantQuotaPlan(t, p)
  \/ \E c \in Calls, t \in Tenants : QuotaMiss(c, t)
  \/ \E c \in Calls : QuotaDefault(c)
  \/ \E t \in Tenants, mode \in Modes, refs \in BOOLEAN :
       ConfigureTenantInfrastructure(t, mode, refs)

-----------------------------------------------------------------------------

\* Every old slug leads its tenant home: the slug it was changed to is the
\* tenant's slug or again an alias of the same tenant, and no tenant is at a
\* slug that is an alias of its own, so that the links and redirects of
\* slugs.go end at the tenant however often it moves.
AliasesLeadHome ==
  \A s \in Slugs : HasAlias(s) =>
    LET a == alias[s] IN
    /\ tenant[a.tenant].slug # s
    /\ tenant[a.tenant].slug = a.to \/ alias[a.to].tenant = a.tenant

\* A time-boxed alias keeps the links of its tenant: while it lasts, no other
\* tenant answers to the old slug.  slugs.go:25-26 promises it; CreateTenant does not look at the
\* history.
AliasesKeepLinks ==
  \A s \in Slugs : alias[s].live => ResolveTenantSlug(s) = alias[s].tenant

\* A hostname whose DNS record is gone for good leaves routing, whatever
\* verifications and revocations run meanwhile, unless its tenant stops being
\* active: RevalidateDueDomains sees it on some tick.  The exception the code makes
\* is a tenant whose turn never comes: the tenants before it, in the order of the
\* ids, use up the limit in every round.
HasTurn(t) == round # NoRound /\ t \notin round.tenants
PassedOver(t) == round.checked >= Limit /\ t \in round.tenants
LostDomainsLeave ==
  \A h \in Hosts :
    <>[](h \notin owned /\ domain[h] # NoDomain /\ Active(domain[h].tenant)) =>
      \/ <>[](GetTenantByVerifiedHostname(h) = NoTenant)
      \/ []<>PassedOver(domain[h].tenant) /\ <>[]~HasTurn(domain[h].tenant)
===============================================================================
