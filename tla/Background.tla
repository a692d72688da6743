------------------------------ MODULE Background -------------------------------
(***************************************************************************)
(* What runs in the background of a process beside the campaigns: the         *)
(* importer of subscribers and the bounce manager.  They share nothing but    *)
(* the database; a behaviour keeps to one of them.                           *)
(***************************************************************************)
EXTENDS SubImporter, Bounces

CONSTANT Parts
VARIABLE part
backgroundVars == <<part, importVars, bounceVars>>

Init == part \in Parts /\ ImportInit /\ BounceInit
Next ==
  \/ part = "import" /\ ImportNext /\ UNCHANGED <<part, bounceVars>>
  \/ part = "bounces" /\ BounceNext /\ UNCHANGED <<part, importVars>>
Fairness == ImportFairness /\ BounceFairness
Spec == Init /\ [][Next]_backgroundVars /\ Fairness
===============================================================================
