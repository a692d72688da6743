-------------------------- MODULE MCCampaignManager --------------------------
(* CampaignManager for TLC, one tenant whose campaigns address everybody. *)
EXTENDS CampaignManager, TLC

OneTenant == [c \in Campaigns |-> CHOOSE t \in Tenants : TRUE]
EverybodyIn == [c \in Campaigns |-> Subs]
NothingSpent == {[requests |-> 0, faults |-> 0]}
WorkerSymmetry == Permutations(Workers)
=============================================================================
