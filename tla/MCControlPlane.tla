---------------------------- MODULE MCControlPlane ----------------------------
EXTENDS ControlPlane

CONSTANTS t1, t2, s1, s2, s3, h1, h2, u1, u2

MCSlug(t) == IF t = t1 THEN s1 ELSE s2
MCRank == [t \in Tenants |-> IF t = t1 THEN 1 ELSE 2]
MCHostOf(h) == IF h = h1 THEN t1 ELSE t2
MCParts == {"slugs", "domains", "certificates", "plans", "roles", "recovery", "requests", "workflow"}
MCSlugsPart == {"slugs"}
===============================================================================
