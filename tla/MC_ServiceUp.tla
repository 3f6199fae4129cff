---------------------------- MODULE MC_ServiceUp ----------------------------
(* Two services, web linking to db, and one reconciler per service whose   *)
(* handler (Up or Create) and context flags are chosen in Init.           *)
EXTENDS ServiceUp

CONSTANTS web, db

MC_Services == {web, db}
MC_Procs == {web, db}
MC_Target == [p \in MC_Procs |-> p]
MC_LinkTargets == [s \in MC_Services |-> IF s = web THEN {db} ELSE {}]
MC_InitialId == [s \in MC_Services |-> IF s = web THEN 1 ELSE 2]
MC_Ids == 1..3
=============================================================================
