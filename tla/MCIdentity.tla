------------------------------ MODULE MCIdentity -------------------------------
(* Identity for TLC: two super admins, an API user and one id to spare.       *)
EXTENDS Identity, TLC

CONSTANTS u1, u2, u3, r1, l1

HandlerSymmetry == Permutations(Procs) \cup Permutations(Sids)
MCParts == {"accounts", "passwords", "logins", "setup"}
MCAccounts == {"accounts"}
SuperRow == [Unused EXCEPT !.state = "live", !.status = "enabled", !.role = Super,
                           !.login = TRUE, !.pw = 1]
MCUsers == [u \in Users |-> IF u = u3 THEN Unused ELSE SuperRow]
MCRoles == [r \in Roles |-> [there |-> r = r1, kind |-> "user", perms |-> 0]]
MCRows == {[SuperRow EXCEPT !.list = l1],
           [SuperRow EXCEPT !.login = FALSE, !.status = "disabled"],
           [SuperRow EXCEPT !.type = "api", !.role = r1, !.list = l1]}
===============================================================================
