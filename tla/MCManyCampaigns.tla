-------------------------- MODULE MCManyCampaigns --------------------------
(* CampaignManager for TLC, three campaigns of two tenants: the first has    *)
(* subscribers, the second addresses a list nobody is on, the third has an   *)
(* unknown messenger.                                                       *)
EXTENDS CampaignManager

CONSTANTS c1, c2, c3, t1, t2

SecondApart == [c \in Campaigns |-> IF c = c2 THEN t2 ELSE t1]
SecondIsEmpty == [c \in Campaigns |-> IF c = c2 THEN {} ELSE IF c = c3 THEN {1} ELSE Subs]
AnySpent == [requests : 0..MaxRequests, faults : 0..MaxFaults]

\* The campaigns in `due` are to be sent, the others have been.
Starts(due, status) ==
  \A c \in Campaigns :
    /\ row[c].status = IF c \in due THEN status ELSE "finished"
    /\ row[c].sendAt = IF c \in due /\ status = "scheduled" THEN "past" ELSE "none"

\* Two campaigns of two tenants are due, and share the queues, or the one nobody
\* can send; a statement may fail and nobody asks for anything.  Or one campaign
\* runs, with either two requests or one request and a failing statement.
MCInit ==
  /\ Init
  /\ \/ Starts({c1, c2}, "scheduled") /\ requests = MaxRequests /\ faults = 0
     \/ Starts({c3}, "scheduled") /\ requests = MaxRequests /\ faults = 0
     \/ Starts({c1}, "running") /\ requests = 0 /\ faults = MaxFaults
     \/ Starts({c1}, "running") /\ requests = 1 /\ faults = 0

MCSpec == MCInit /\ [][Next]_vars /\ Fairness
=============================================================================
