----------------------------- MODULE MCBackground ------------------------------
(* Two imports, of four rows and of two; two messages and two webhook requests.  Both      *)
(* tenants have the contact; the campaign that most bounces name is one tenant's.          *)
EXTENDS Background
CONSTANTS m1, m2, e1, c1, k1, t1, t2
MCFiles == <<4, 2>>
MCNames == [b \in Mails \cup Events |-> IF b = m2 THEN {c1} ELSE {c1, k1}]
MCOwned == [t \in Tenants |-> IF t = t1 THEN {c1} ELSE {c1, k1}]
MCBodies == {<<[b |-> e1, kind |-> "complaint"]>>, <<[b |-> e1, kind |-> "hard"], [b |-> e1, kind |-> "other"]>>}
===============================================================================
